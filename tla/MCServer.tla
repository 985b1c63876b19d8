------------------------------ MODULE MCServer ------------------------------
\* Instances of Server for TLC: which connection comes from which address.
EXTENDS Server, TLC

CONSTANTS c1, c2, c3, ip1, ip2

\* c1 and c2 come from the same address, c3 (when it is there) from another.
MCIpOf == [c \in Conn |-> IF c = c3 THEN ip2 ELSE ip1]

\* fd holds no descriptor by luck: close(-1) fails.
MCCleanHeap == {-1}

\* A fresh page holds zeroes, and 0 is a descriptor.
MCZeroHeap == {-1, 0}

\* c1 and c2 are interchangeable.
MCSymmetry == Permutations({c1, c2})
=============================================================================

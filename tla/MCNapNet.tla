------------------------------ MODULE MCNapNet ------------------------------
\* Instances of NapNet for TLC: a process bound to its address, b to every address.
EXTENDS NapNet

CONSTANTS a, b
=============================================================================

----------------------------- MODULE MCClientIO -----------------------------
\* An instance of ClientIO for TLC: a command without a body and one with two bytes.
EXTENDS ClientIO

CONSTANTS short, long

MCSizeOf == [c \in Command |-> IF c = short THEN 0 ELSE 2]
=============================================================================

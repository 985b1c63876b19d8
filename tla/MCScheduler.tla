---------------------------- MODULE MCScheduler ----------------------------
\* An instance of Scheduler for TLC.
EXTENDS Scheduler, TLC

CONSTANTS e1, e2, a, b

\* Event objects are alike.
MCSymmetry == Permutations(Event)
=============================================================================

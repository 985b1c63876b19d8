------------------------------ MODULE WordSets ------------------------------
(***************************************************************************)
(* What a TernaryTree promises its user (ternary.hh): it keeps a set of    *)
(* values for each word; insert(w, v) adds v to the set of w, erase(w, v)  *)
(* takes it out, and no call touches the set of another word.  A call has  *)
(* its effect at once, some time between its start and its return.         *)
(***************************************************************************)
CONSTANTS
  Word,
  Value,
  NoCall   \* no call is under way

VARIABLES
  sets,  \* the values of each word
  call   \* the call under way

wordVars == <<sets, call>>

Call == [op : {"insert", "erase"}, key : Word, value : Value]

WordsInit ==
  /\ sets = [w \in Word |-> {}]
  /\ call = NoCall

\* Both operations are idempotent: doing one again changes nothing.
After(c) == [sets EXCEPT ![c.key] = IF c.op = "insert" THEN @ \cup {c.value} ELSE @ \ {c.value}]

Begin == call = NoCall /\ call' \in Call /\ UNCHANGED sets

Effect == call # NoCall /\ sets' = After(call) /\ UNCHANGED call

Return == call # NoCall /\ sets' = After(call) /\ call' = NoCall

WordsNext == Begin \/ Effect \/ Return

WordsSpec == WordsInit /\ [][WordsNext]_wordVars
=============================================================================

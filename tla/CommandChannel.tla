--------------------------- MODULE CommandChannel ---------------------------
(***************************************************************************)
(* What two connected Client objects promise, one way (client.cc): read()  *)
(* returns the commands that write() was given, whole, in their order and  *)
(* each of them once, until one of the two ends is closed; what is on its  *)
(* way then may or may not arrive.                                         *)
(***************************************************************************)
EXTENDS Naturals, Sequences

CONSTANT Command

VARIABLES put,  \* the commands given to write(), in order
          got,  \* the commands that read() returned, in order
          open  \* neither end is closed

channelVars == <<put, got, open>>

ChannelInit == put = <<>> /\ got = <<>> /\ open = TRUE

\* write() takes a command also when the other end is gone and nobody knows yet.
Put(c) == put' = Append(put, c) /\ UNCHANGED <<got, open>>

Get ==
  /\ Len(got) < Len(put)
  /\ got' = Append(got, put[Len(got) + 1])
  /\ UNCHANGED <<put, open>>

Shut == open /\ open' = FALSE /\ UNCHANGED <<put, got>>

ChannelNext == (\E c \in Command : Put(c)) \/ Get \/ Shut

ChannelSpec == ChannelInit /\ [][ChannelNext]_channelVars

\* As long as the channel is open, what was put is got.
ChannelLive == WF_channelVars(open /\ Get)
=============================================================================

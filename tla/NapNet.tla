------------------------------- MODULE NapNet -------------------------------
(***************************************************************************)
(* How the napd processes of a multicast group find one another (main in   *)
(* napd.cc, write() and flush() in client.cc).  Each has two datagram      *)
(* sockets: napnet, bound to the group, and napdirect, bound to its own    *)
(* address, which everything is sent from.  A process says HELLO to the    *)
(* group when it starts, answers a HELLO of the group with one sent        *)
(* directly, and says GOODBYE to the group when it leaves its loop.        *)
(*                                                                         *)
(* A node names a process and the source address of what it sends.  The    *)
(* network loses, repeats and reorders datagrams, the group's sender gets  *)
(* its own ones too (the kernel loops them back), and what a send does is  *)
(* a choice: it goes out, it would block (EAGAIN, EINTR), or it fails.     *)
(***************************************************************************)
EXTENDS Naturals, Sequences

CONSTANTS
  Node,      \* the processes
  Wildcard,  \* those bound to 0.0.0.0, as by default: they know no address of theirs
  Lossy,     \* whether the network loses and repeats datagrams
  MaxStarts, \* bound: how often processes are started, all together
  MaxQueue   \* bound: how much of napdirect.wqueue is kept (none of it is ever sent)

ASSUME NapNetAssumption ==
  /\ Wildcard \subseteq Node
  /\ Lossy \in BOOLEAN
  /\ MaxStarts \in Nat /\ MaxQueue \in Nat \ {0}

VARIABLES
  pc,      \* "down", at the "poll", about to read "net" or "direct", or to "leave"
  wqueue,  \* napdirect.wqueue
  wire,    \* the datagrams under way
  heard,   \* history: whose HELLO the process has read since it started
  failed,  \* history: the processes one of whose sends did not go out
  starts   \* how often processes were started

vars == <<pc, wqueue, wire, heard, failed, starts>>

Hello == "NAPNET_HELLO"
Goodbye == "NAPNET_GOODBYE"

\* A datagram, as write() queues it: a kind and where it goes.
ToGroup(kind) == [kind |-> kind, to |-> Node, socket |-> "net"]
Directly(kind, n) == [kind |-> kind, to |-> {n}, socket |-> "direct"]

\* What the network makes of it: one copy for each receiver.
Copies(from, d) ==
  {[kind |-> d.kind, from |-> from, to |-> n, socket |-> d.socket] : n \in d.to}

Up(n) == pc[n] # "down"

-----------------------------------------------------------------------------
(* Client::write on napdirect; w is the wire before it.                    *)

\* Mutant of Sent: the command that was sent stays in the queue.
SentStays(n, d, w) ==
  /\ wqueue[n] = <<>>
  /\ wire' = w \cup Copies(n, d)
  /\ wqueue' = [wqueue EXCEPT ![n] = <<d>>]
  /\ UNCHANGED failed

\* The queue was empty, and flush() gets the datagram out.
Sent(n, d, w) ==
  /\ wqueue[n] = <<>>
  /\ wire' = w \cup Copies(n, d)
  /\ UNCHANGED <<wqueue, failed>>

\* It stays in the queue, and so does all that follows: write() flushes only a
\* queue that was empty, and the main loop never flushes this one.
NotSent(n, d, w) ==
  /\ wqueue' = IF Len(wqueue[n]) < MaxQueue
               THEN [wqueue EXCEPT ![n] = Append(@, d)]
               ELSE wqueue
  /\ failed' = failed \cup {n}
  /\ wire' = w

\* write() returns (the datagram went out, would block, or stands behind others),
\* or it throws, because the flush met an error.
Returns(n, d, w) == Sent(n, d, w) \/ NotSent(n, d, w)
Throws(n, d, w) == wqueue[n] = <<>> /\ NotSent(n, d, w)

-----------------------------------------------------------------------------
(* The network.                                                            *)

\* A datagram is lost, at any time when its receiver has no socket for it.
Lose(d) ==
  /\ Lossy \/ ~Up(d.to)
  /\ wire' = wire \ {d}
  /\ UNCHANGED <<pc, wqueue, heard, failed, starts>>

\* The wire after a read that took d, or one of its repetitions.
Taken(d) == IF Lossy THEN {wire, wire \ {d}} ELSE {wire \ {d}}

Arrived(n, d, socket) == d \in wire /\ d.to = n /\ d.socket = socket

Go(n, place) == pc' = [pc EXCEPT ![n] = place]

-----------------------------------------------------------------------------
(* A process.                                                              *)

\* Mutant of Start: nobody is greeted.
StartSilently(n) ==
  /\ ~Up(n) /\ starts < MaxStarts
  /\ starts' = starts + 1
  /\ Go(n, "poll")
  /\ UNCHANGED <<wqueue, wire, heard, failed>>

\* The sockets are opened and the group is greeted.  When that throws the process
\* exits and all is as it was.
Start(n) ==
  /\ ~Up(n) /\ starts < MaxStarts
  /\ starts' = starts + 1
  /\ Go(n, "poll")
  /\ Returns(n, ToGroup(Hello), wire)
  /\ UNCHANGED heard

\* p.poll(), and the rest of the turn, which shares nothing with this module.
Poll(n) ==
  /\ pc[n] = "poll" /\ Go(n, "net")
  /\ UNCHANGED <<wqueue, wire, heard, failed, starts>>

\* do_shutdown is set, or SIGINT interrupts a poll: the loop ends.
Shutdown(n) ==
  /\ pc[n] = "poll" /\ Go(n, "leave")
  /\ UNCHANGED <<wqueue, wire, heard, failed, starts>>

\* com->peer != napdirect.addr: who is bound to every address takes no peer for
\* itself.
IsOther(n, peer) == peer # n \/ n \in Wildcard

\* A HELLO of the group: it is answered, unless it is the process's own.
ReadHello(n, d) ==
  /\ pc[n] = "net" /\ Arrived(n, d, "net") /\ d.kind = Hello
  /\ heard' = [heard EXCEPT ![n] = @ \cup {d.from}]
  /\ \E w \in Taken(d) :
       \/ IsOther(n, d.from) /\ Returns(n, Directly(Hello, d.from), w) /\ Go(n, "direct")
       \/ IsOther(n, d.from) /\ Throws(n, Directly(Hello, d.from), w) /\ Go(n, "leave")
       \/ ~IsOther(n, d.from) /\ wire' = w /\ Go(n, "direct") /\ UNCHANGED <<wqueue, failed>>
  /\ UNCHANGED starts

\* A GOODBYE of the group: it is logged and nothing else.
ReadGoodbye(n, d) ==
  /\ pc[n] = "net" /\ Arrived(n, d, "net") /\ d.kind = Goodbye
  /\ wire' \in Taken(d)
  /\ Go(n, "direct")
  /\ UNCHANGED <<wqueue, heard, failed, starts>>

\* Nothing to read on napnet.
SkipNet(n) ==
  /\ pc[n] = "net" /\ Go(n, "direct")
  /\ UNCHANGED <<wqueue, wire, heard, failed, starts>>

\* Mutant of ReadDirect: a direct HELLO is answered too.
AnswerDirect(n, d) ==
  /\ pc[n] = "direct" /\ Arrived(n, d, "direct")
  /\ heard' = [heard EXCEPT ![n] = @ \cup {d.from}]
  /\ \E w \in Taken(d) : Returns(n, Directly(Hello, d.from), w)
  /\ Go(n, "poll")
  /\ UNCHANGED starts

\* A direct HELLO is logged and never answered.
ReadDirect(n, d) ==
  /\ pc[n] = "direct" /\ Arrived(n, d, "direct")
  /\ heard' = [heard EXCEPT ![n] = @ \cup {d.from}]
  /\ wire' \in Taken(d)
  /\ Go(n, "poll")
  /\ UNCHANGED <<wqueue, failed, starts>>

\* Nothing to read on napdirect.
SkipDirect(n) ==
  /\ pc[n] = "direct" /\ Go(n, "poll")
  /\ UNCHANGED <<wqueue, wire, heard, failed, starts>>

\* The end of the process, and of its queue.
Gone(n) ==
  /\ Go(n, "down")
  /\ heard' = [heard EXCEPT ![n] = {}]
  /\ UNCHANGED starts

\* GOODBYE to the group.  What it throws is caught; the flush() that follows is
\* that of napnet, which has nothing queued.
Leave(n) ==
  /\ pc[n] = "leave"
  /\ \/ Sent(n, ToGroup(Goodbye), wire)
     \/ /\ wqueue' = [wqueue EXCEPT ![n] = <<>>]
        /\ failed' = failed \ {n}
        /\ UNCHANGED wire
  /\ Gone(n)

\* A kill: no GOODBYE.
Crash(n) ==
  /\ Up(n)
  /\ wqueue' = [wqueue EXCEPT ![n] = <<>>]
  /\ failed' = failed \ {n}
  /\ UNCHANGED wire
  /\ Gone(n)

-----------------------------------------------------------------------------
Init ==
  /\ pc = [n \in Node |-> "down"]
  /\ wqueue = [n \in Node |-> <<>>]
  /\ wire = {}
  /\ heard = [n \in Node |-> {}]
  /\ failed = {}
  /\ starts = 0

\* One turn of the loop, a read that finds something where there is something.
Turn(n) ==
  \/ Poll(n) \/ SkipNet(n) \/ SkipDirect(n) \/ Leave(n)
  \/ \E d \in wire : ReadHello(n, d) \/ ReadGoodbye(n, d) \/ ReadDirect(n, d)

Next ==
  \/ \E n \in Node : Start(n) \/ Turn(n) \/ Shutdown(n) \/ Crash(n)
  \/ \E d \in wire : Lose(d)

Spec == Init /\ [][Next]_vars

Queued == [kind : {Hello, Goodbye}, to : SUBSET Node, socket : {"net", "direct"}]

Datagram == [kind : {Hello, Goodbye}, from : Node, to : Node, socket : {"net", "direct"}]

ReadSomething(n, socket) ==
  \E d \in wire :
    d.socket = socket /\ (ReadHello(n, d) \/ ReadGoodbye(n, d) \/ ReadDirect(n, d))

\* A process that is up keeps turning; a datagram that has come stays readable
\* until it is read, and one for nobody is dropped.
Fairness ==
  /\ \A n \in Node :
       /\ WF_vars(Turn(n))
       /\ SF_vars(ReadSomething(n, "net"))
       /\ SF_vars(ReadSomething(n, "direct"))
  /\ WF_vars(\E d \in wire : ~Up(d.to) /\ Lose(d))

FairSpec == Spec /\ Fairness

-----------------------------------------------------------------------------
(* Properties.                                                             *)

TypeOK ==
  /\ pc \in [Node -> {"down", "poll", "net", "direct", "leave"}]
  /\ wqueue \in [Node -> Seq(Queued)]
  /\ wire \subseteq Datagram
  /\ heard \in [Node -> SUBSET Node]
  /\ failed \subseteq {n \in Node : Up(n)}
  /\ starts \in 0 .. MaxStarts

\* One send that does not go out silences a process for the rest of its life, its
\* GOODBYE included: the queue is flushed by nobody (napd.cc:284-317, 323-324), and
\* write() flushes it only if it was empty (client.cc:131, 138).  Nothing else
\* fills the queue.
OneFailureSilences == \A n \in Node : wqueue[n] # <<>> <=> n \in failed

\* Two processes that are up at the same time come to hear each other's HELLO,
\* whoever started first, unless one of them ends or a send of theirs failed.
Discovery ==
  \A m \in Node : \A n \in Node \ {m} :
    Up(m) /\ Up(n)
      ~> \/ n \in heard[m] /\ m \in heard[n]
         \/ ~Up(m) \/ ~Up(n)
         \/ {m, n} \cap failed # {}

\* Once nobody starts any more the network falls silent: answers are not answered, not
\* even those that a process bound to the wildcard gives itself (napd.cc:295).
Quiesces == <>[](wire = {})
=============================================================================

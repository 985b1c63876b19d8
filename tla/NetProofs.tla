----------------------------- MODULE NetProofs ------------------------------
(***************************************************************************)
(* The network below the server: how processes tell that they run alone,   *)
(* for any number of them, any network and any mix of processes that know  *)
(* their address and processes that do not; and the descriptors of the     *)
(* sockets, for any objects and any size of the table.                     *)
(***************************************************************************)
EXTENDS NapNet, Sockets, FiniteSetTheorems, SequenceTheorems, TLAPS

(***************************************************************************)
(* Discovery                                                               *)
(***************************************************************************)
IInv == TypeOK /\ OneFailureSilences

\* A queue to which a datagram was added is not empty.
LEMMA NotSentQueues ==
  ASSUME TypeOK, NEW n \in Node, NEW d \in Queued, NEW w \in SUBSET Datagram,
         NotSent(n, d, w)
  PROVE  /\ wqueue' \in [Node -> Seq(Queued)]
         /\ wqueue'[n] # <<>>
         /\ \A m \in Node \ {n} : wqueue'[m] = wqueue[m]
<1>1. wqueue[n] \in Seq(Queued)
  BY DEF TypeOK
<1>2. CASE Len(wqueue[n]) < MaxQueue
  <2>1. Append(wqueue[n], d) \in Seq(Queued) /\ Append(wqueue[n], d) # <<>>
    BY <1>1, AppendProperties
  <2>2. wqueue' = [wqueue EXCEPT ![n] = Append(wqueue[n], d)]
    BY <1>2 DEF NotSent
  <2>. QED
    BY <2>1, <2>2 DEF TypeOK
<1>3. CASE ~(Len(wqueue[n]) < MaxQueue)
  <2>1. wqueue[n] # <<>>
    BY <1>1, <1>3, NapNetAssumption
  <2>. QED
    BY <1>3, <2>1 DEF NotSent, TypeOK
<1>. QED
  BY <1>2, <1>3

\* Sending and not sending keep the queue in line with `failed`.
LEMMA ReturnsKeeps ==
  ASSUME IInv, NEW n \in Node, NEW d \in Queued, NEW w \in SUBSET wire,
         Returns(n, d, w) \/ Throws(n, d, w)
  PROVE  /\ wqueue' \in [Node -> Seq(Queued)]
         /\ wire' \subseteq wire \cup Copies(n, d)
         /\ failed' \subseteq failed \cup {n}
         /\ OneFailureSilences'
<1> USE DEF IInv
<1>1. CASE Sent(n, d, w)
  BY <1>1 DEF Sent, TypeOK, OneFailureSilences
<1>2. CASE NotSent(n, d, w)
  <2>1. w \subseteq Datagram
    BY DEF TypeOK
  <2>. QED
    BY <1>2, <2>1, NotSentQueues DEF NotSent, OneFailureSilences
<1>. QED
  BY <1>1, <1>2 DEF Returns, Throws

\* The copies of a datagram are datagrams.
LEMMA CopiesAreDatagrams ==
  ASSUME NEW n \in Node, NEW d \in Queued
  PROVE  Copies(n, d) \subseteq Datagram
BY DEF Copies, Queued, Datagram

\* The end of a process leaves the other queues as they were.
LEMMA GoneKeeps ==
  ASSUME IInv, NEW n \in Node, Gone(n),
         wqueue' = [wqueue EXCEPT ![n] = <<>>], failed' = failed \ {n}, UNCHANGED wire
  PROVE  IInv'
BY DEF IInv, TypeOK, Gone, Go, Up, OneFailureSilences

\* Every step of a process or of the network keeps the invariant.
LEMMA StepKeeps == IInv /\ [Next]_vars => IInv'
<1> SUFFICES ASSUME IInv, [Next]_vars PROVE IInv'
  OBVIOUS
<1> USE DEF IInv
<1>1. ASSUME NEW n \in Node, Start(n) PROVE IInv'
  <2> DEFINE d == ToGroup(Hello)
  <2>1. d \in Queued
    BY DEF Queued, ToGroup
  <2>2. Returns(n, d, wire)
    BY <1>1 DEF Start
  <2>3. /\ wqueue' \in [Node -> Seq(Queued)]
        /\ wire' \subseteq wire \cup Copies(n, d)
        /\ failed' \subseteq failed \cup {n}
        /\ OneFailureSilences'
    BY <2>1, <2>2, ReturnsKeeps
  <2>4. wire' \subseteq Datagram
    BY <2>1, <2>3, CopiesAreDatagrams DEF TypeOK
  <2>6. TypeOK'
    <3>1. pc' = [pc EXCEPT ![n] = "poll"] /\ UNCHANGED heard /\ starts' \in 0 .. MaxStarts
      BY <1>1, NapNetAssumption DEF Start, Go, TypeOK
    <3>2. failed' \subseteq {m \in Node : pc'[m] # "down"}
      BY <2>3, <3>1 DEF TypeOK, Up
    <3>. QED
      BY <2>3, <2>4, <3>1, <3>2 DEF Up, TypeOK
  <2>. QED
    BY <2>3, <2>6
<1>2. ASSUME NEW n \in Node, Poll(n) \/ Shutdown(n) \/ SkipNet(n) \/ SkipDirect(n)
      PROVE  IInv'
  BY <1>2 DEF Poll, Shutdown, SkipNet, SkipDirect, Go, Up, TypeOK, OneFailureSilences
<1>3. ASSUME NEW n \in Node, NEW d \in wire, ReadHello(n, d) PROVE IInv'
  <2> DEFINE answer == Directly(Hello, d.from)
  <2>0. d \in Datagram /\ d.from \in Node /\ answer \in Queued
    BY DEF TypeOK, Datagram, Queued, Directly
  <2>1. PICK w \in Taken(d) :
          \/ /\ IsOther(n, d.from)
             /\ \/ Returns(n, answer, w) /\ Go(n, "direct")
                \/ Throws(n, answer, w) /\ Go(n, "leave")
          \/ wire' = w /\ Go(n, "direct") /\ UNCHANGED <<wqueue, failed>>
    BY <1>3 DEF ReadHello
  <2>2. w \subseteq wire
    BY <2>1 DEF Taken
  <2>3. pc[n] = "net" /\ heard' = [heard EXCEPT ![n] = @ \cup {d.from}] /\ starts' = starts
    BY <1>3 DEF ReadHello
  <2>4. CASE /\ IsOther(n, d.from)
             /\ \/ Returns(n, answer, w) /\ Go(n, "direct")
                \/ Throws(n, answer, w) /\ Go(n, "leave")
    <3>1. /\ wqueue' \in [Node -> Seq(Queued)]
          /\ wire' \subseteq wire \cup Copies(n, answer)
          /\ failed' \subseteq failed \cup {n}
          /\ OneFailureSilences'
      BY <2>0, <2>2, <2>4, ReturnsKeeps
    <3>2. wire' \subseteq Datagram
      BY <2>0, <3>1, CopiesAreDatagrams DEF TypeOK
    <3>5. TypeOK'
      <4>1. pc' \in [Node -> {"down", "poll", "net", "direct", "leave"}] /\ \A m \in Node : Up(m) => Up(m)'
        BY <2>0, <2>4 DEF Go, Up, TypeOK
      <4>2. failed' \subseteq {m \in Node : Up(m)'}
        BY <2>0, <2>4, <3>1, <4>1 DEF Go, Up, TypeOK
      <4>. QED
        BY <2>0, <2>3, <3>1, <3>2, <4>1, <4>2 DEF TypeOK
    <3>. QED
      BY <3>1, <3>5
  <2>5. CASE wire' = w /\ Go(n, "direct") /\ UNCHANGED <<wqueue, failed>>
    BY <2>0, <2>2, <2>3, <2>5 DEF Go, Up, TypeOK, OneFailureSilences
  <2>. QED
    BY <2>1, <2>4, <2>5
<1>4. ASSUME NEW n \in Node, NEW d \in wire, ReadGoodbye(n, d) \/ ReadDirect(n, d)
      PROVE  IInv'
  <2>1. wire' \subseteq wire /\ d.from \in Node
    BY <1>4 DEF ReadGoodbye, ReadDirect, Taken, TypeOK, Datagram
  <2>2. /\ \E place \in {"direct", "poll"} : pc' = [pc EXCEPT ![n] = place]
        /\ heard' = heard \/ heard' = [heard EXCEPT ![n] = @ \cup {d.from}]
        /\ UNCHANGED <<wqueue, failed, starts>>
    BY <1>4 DEF ReadGoodbye, ReadDirect, Go
  <2>3. heard' \in [Node -> SUBSET Node]
    BY <2>1, <2>2 DEF TypeOK
  <2>4. TypeOK'
    <3>1. pc' \in [Node -> {"down", "poll", "net", "direct", "leave"}]
      BY <2>2 DEF TypeOK
    <3>2. \A m \in Node : Up(m) => Up(m)'
      BY <2>2 DEF Up, TypeOK
    <3>. QED
      BY <2>1, <2>2, <2>3, <3>1, <3>2 DEF TypeOK
  <2>. QED
    BY <2>1, <2>2, <2>4 DEF OneFailureSilences
<1>5. ASSUME NEW n \in Node, Leave(n) PROVE IInv'
  <2>1. CASE Sent(n, ToGroup(Goodbye), wire)
    <3> DEFINE d == ToGroup(Goodbye)
    <3>1. d \in Queued
      BY DEF Queued, ToGroup
    <3>2. wire' \subseteq Datagram
      BY <2>1, <3>1, CopiesAreDatagrams DEF Sent, TypeOK
    <3>4. n \notin failed
      BY <2>1 DEF Sent, OneFailureSilences
    <3>. QED
      BY <1>5, <2>1, <3>2, <3>4
         DEF Leave, Sent, Gone, Go, Up, TypeOK, OneFailureSilences
  <2>. QED
    BY <1>5, <2>1, GoneKeeps DEF Leave
<1>6. ASSUME NEW n \in Node, Crash(n) PROVE IInv'
  BY <1>6, GoneKeeps DEF Crash
<1>7. ASSUME NEW d \in wire, Lose(d) PROVE IInv'
  BY <1>7 DEF Lose, Up, TypeOK, OneFailureSilences
<1>8. CASE UNCHANGED vars
  BY <1>8 DEF vars, Up, TypeOK, OneFailureSilences
<1>. QED
  BY <1>1, <1>2, <1>3, <1>4, <1>5, <1>6, <1>7, <1>8 DEF Next, Turn

\* The invariant holds in every reachable state.
LEMMA InductiveInvariant == Spec => []IInv
<1>1. Init => IInv
  BY NapNetAssumption DEF Init, IInv, TypeOK, Up, OneFailureSilences
<1>. QED
  BY <1>1, StepKeeps, PTL DEF Spec

\* Every variable has its type, and a failure is the failure of a running process.
THEOREM NapNetTypes == Spec => []TypeOK
<1>1. IInv => TypeOK
  BY DEF IInv
<1>. QED
  BY InductiveInvariant, <1>1, PTL

\* napdirect's queue holds something exactly in the processes one of whose sends did
\* not go out (client.cc:131-139), and in them until they end.
THEOREM FailureSilences == Spec => []OneFailureSilences
<1>1. IInv => OneFailureSilences
  BY DEF IInv
<1>. QED
  BY InductiveInvariant, <1>1, PTL

-----------------------------------------------------------------------------
(***************************************************************************)
(* What listens is a stream and has an address: it is what keeps the       *)
(* address of an accepted Socket true, and a copy that connects from       *)
(* turning off the listener of another.                                    *)
ListenersAreBound ==
  \A k \in Fds : kfile[k].state = "listen" => kfile[k].type = "stream" /\ kfile[k].local # NoPort

SocketsInv == SocketsSound /\ ListenersAreBound

(* FlagsAreTrue, of one record and one file *)
TrueOf(r, f) ==
  /\ r.bound => f.local # NoPort
  /\ r.connected => f.state = "up"
  /\ r.listening => f.state = "listen"

LEMMA OpenedHaveFiles ==
  ASSUME SocketsInv, NEW s \in Socks, sock[s].opened
  PROVE  /\ sock[s].fd \in Fds /\ FileOf(s) \in Fds /\ ~ FreeFile(fdTable, FileOf(s))
         /\ kfile[FileOf(s)] \in FileRecs /\ TrueOf(sock[s], kfile[FileOf(s)])
BY DEF SocketsInv, SocketsSound, SocketsTypeOK, OwnDescriptor, FlagsAreTrue, TrueOf, FileOf,
       FreeFile, NoOpenFile

(* The table without the descriptor of s: the others keep theirs, and      *)
(* every descriptor that is left is another's.                             *)
LEMMA TableWithoutIsOthers ==
  ASSUME SocketsInv, NEW s \in Socks
  PROVE  /\ TableWithout(s) \in [Fds -> Fds \cup {NoOpenFile}]
         /\ \A u \in Socks \ {s} : sock[u].opened => TableWithout(s)[sock[u].fd] = FileOf(u)
         /\ \A g \in Fds : TableWithout(s)[g] # NoOpenFile =>
              \E u \in Socks \ {s} : sock[u].opened /\ sock[u].fd = g
         /\ \A g \in Fds : fdTable[g] = NoOpenFile => TableWithout(s)[g] = NoOpenFile
<1> USE DEF SocketsInv, SocketsSound, SocketsTypeOK
<1>1. CASE ~ sock[s].opened
  <2>1. TableWithout(s) = fdTable
    BY <1>1 DEF TableWithout
  <2> QED BY <1>1, <2>1 DEF OwnDescriptor, FileOf
<1>2. CASE sock[s].opened
  <2>1. sock[s].fd \in Fds
    BY <1>2, OpenedHaveFiles
  <2>2. \A g \in Fds : TableWithout(s)[g] = IF g = sock[s].fd THEN NoOpenFile ELSE fdTable[g]
    BY <1>2, <2>1 DEF TableWithout
  <2>3. TableWithout(s) \in [Fds -> Fds \cup {NoOpenFile}]
    BY <1>2, <2>1 DEF TableWithout
  <2>4. \A u \in Socks \ {s} : sock[u].opened => sock[u].fd \in Fds /\ sock[u].fd # sock[s].fd
    BY <1>2 DEF OwnDescriptor
  <2> QED BY <2>2, <2>3, <2>4 DEF OwnDescriptor, FileOf
<1> QED BY <1>1, <1>2

(* A Socket that gives up its descriptor and perhaps gets a free one       *)
(* leaves every other Socket its descriptor and its file.                  *)
LEMMA OneSocketChanges ==
  ASSUME SocketsInv, NEW s \in Socks, NEW r \in SockRecords,
         sock' = [sock EXCEPT ![s] = r],
         \/ ~ r.opened /\ fdTable' = TableWithout(s)
         \/ /\ r.opened /\ r.fd \in Fds /\ TableWithout(s)[r.fd] = NoOpenFile
            /\ \E k \in Fds : fdTable' = [TableWithout(s) EXCEPT ![r.fd] = k]
  PROVE  /\ sock' \in [Socks -> SockRecords] /\ fdTable' \in [Fds -> Fds \cup {NoOpenFile}]
         /\ OwnDescriptor'
         /\ \A u \in Socks \ {s} : sock'[u] = sock[u]
         /\ sock'[s] = r
         /\ \A u \in Socks \ {s} : sock[u].opened =>
              FileOf(u)' = FileOf(u) /\ ~ FreeFile(fdTable', FileOf(u))
<1> DEFINE rest == TableWithout(s)
<1>1. /\ rest \in [Fds -> Fds \cup {NoOpenFile}]
      /\ \A u \in Socks \ {s} : sock[u].opened => rest[sock[u].fd] = FileOf(u)
      /\ \A g \in Fds : rest[g] # NoOpenFile =>
           \E u \in Socks \ {s} : sock[u].opened /\ sock[u].fd = g
  BY TableWithoutIsOthers
<1>2. /\ sock' \in [Socks -> SockRecords] /\ sock'[s] = r
      /\ \A u \in Socks \ {s} : sock'[u] = sock[u]
  BY DEF SocketsInv, SocketsSound, SocketsTypeOK
<1>3. \A u \in Socks : sock[u].opened =>
        sock[u].fd \in Fds /\ FileOf(u) \in Fds /\ FileOf(u) # NoOpenFile
  BY OpenedHaveFiles DEF Fds, NoOpenFile
<1>4. \A u, v \in Socks : sock[u].opened /\ sock[v].opened /\ sock[u].fd = sock[v].fd => u = v
  BY DEF SocketsInv, SocketsSound, OwnDescriptor
<1> HIDE DEF rest
<1>5. CASE ~ r.opened /\ fdTable' = rest
  <2>1. \A u \in Socks \ {s} : sock[u].opened => FileOf(u)' = FileOf(u)
    BY <1>1, <1>2, <1>5 DEF FileOf
  <2>2. OwnDescriptor'
    BY <1>1, <1>2, <1>3, <1>4, <1>5, <2>1 DEF OwnDescriptor, FileOf
  <2>3. \A u \in Socks \ {s} : sock[u].opened => ~ FreeFile(fdTable', FileOf(u))
    BY <1>1, <1>3, <1>5 DEF FreeFile
  <2> QED BY <1>1, <1>2, <1>5, <2>1, <2>2, <2>3
<1>6. ASSUME r.opened, r.fd \in Fds, rest[r.fd] = NoOpenFile, NEW k \in Fds,
             fdTable' = [rest EXCEPT ![r.fd] = k]
      PROVE  /\ fdTable' \in [Fds -> Fds \cup {NoOpenFile}] /\ OwnDescriptor'
             /\ \A u \in Socks \ {s} : sock[u].opened =>
                  FileOf(u)' = FileOf(u) /\ ~ FreeFile(fdTable', FileOf(u))
  <2>1. /\ fdTable' \in [Fds -> Fds \cup {NoOpenFile}]
        /\ \A g \in Fds : fdTable'[g] = IF g = r.fd THEN k ELSE rest[g]
    BY <1>1, <1>6
  <2>2. \A u \in Socks \ {s} : sock[u].opened =>
          sock[u].fd # r.fd /\ fdTable'[sock[u].fd] = FileOf(u)
    BY <1>1, <1>3, <1>6, <2>1
  <2>3. k # NoOpenFile
    BY DEF Fds, NoOpenFile
  <2>4. \A u \in Socks \ {s} : sock[u].opened =>
          FileOf(u)' = FileOf(u) /\ ~ FreeFile(fdTable', FileOf(u))
    BY <1>2, <1>3, <2>2 DEF FileOf, FreeFile
  <2>5. \A u \in Socks : sock'[u].opened => sock'[u].fd \in Fds /\ FileOf(u)' # NoOpenFile
    BY <1>2, <1>3, <1>6, <2>1, <2>2, <2>3 DEF FileOf
  <2>6. \A u, v \in Socks :
          sock'[u].opened /\ sock'[v].opened /\ sock'[u].fd = sock'[v].fd => u = v
    BY <1>2, <1>4, <2>2
  <2>7. \A g \in Fds : fdTable'[g] # NoOpenFile => \E u \in Socks : sock'[u].opened /\ sock'[u].fd = g
    BY <1>1, <1>2, <1>6, <2>1
  <2> QED BY <2>1, <2>4, <2>5, <2>6, <2>7 DEF OwnDescriptor
<1> QED BY <1>2, <1>5, <1>6 DEF rest

(* When one Socket changes its descriptor and the files of the others are  *)
(* what they were, only its own flags are left to look at.                 *)
LEMMA OwnFlagsAreLeft ==
  ASSUME SocketsInv, NEW s \in Socks, NEW r \in SockRecords,
         sock' = [sock EXCEPT ![s] = r],
         \/ ~ r.opened /\ fdTable' = TableWithout(s)
         \/ /\ r.opened /\ r.fd \in Fds /\ TableWithout(s)[r.fd] = NoOpenFile
            /\ \E k \in Fds : fdTable' = [TableWithout(s) EXCEPT ![r.fd] = k],
         kfile' \in [Fds -> FileRecs], ListenersAreBound',
         \A k \in Fds : ~ FreeFile(fdTable', k) /\ ~ FreeFile(TableWithout(s), k) =>
           kfile'[k] = kfile[k],
         ~ r.opened => ~ r.bound /\ ~ r.connected /\ ~ r.listening,
         r.opened => TrueOf(r, kfile'[fdTable'[r.fd]])
  PROVE  SocketsInv'
<1>1. /\ sock' \in [Socks -> SockRecords] /\ fdTable' \in [Fds -> Fds \cup {NoOpenFile}]
      /\ OwnDescriptor'
      /\ \A u \in Socks \ {s} : sock'[u] = sock[u]
      /\ sock'[s] = r
      /\ \A u \in Socks \ {s} : sock[u].opened =>
           FileOf(u)' = FileOf(u) /\ ~ FreeFile(fdTable', FileOf(u))
  BY OneSocketChanges
<1>2. \A u \in Socks \ {s} : sock[u].opened =>
        FileOf(u) \in Fds /\ kfile'[FileOf(u)] = kfile[FileOf(u)]
  <2>1. \A u \in Socks \ {s} : sock[u].opened =>
          sock[u].fd \in Fds /\ FileOf(u) \in Fds /\ TableWithout(s)[sock[u].fd] = FileOf(u)
    BY OpenedHaveFiles, TableWithoutIsOthers
  <2> QED BY <1>1, <2>1 DEF FreeFile
<1>3. FlagsAreTrue'
  <2> SUFFICES ASSUME NEW u \in Socks
               PROVE  /\ sock'[u].bound \/ sock'[u].connected \/ sock'[u].listening => sock'[u].opened
                      /\ sock'[u].opened => TrueOf(sock'[u], kfile'[FileOf(u)'])
    BY <1>1 DEF FlagsAreTrue, TrueOf, SockRecords
  <2>1. CASE u = s
    BY <1>1, <2>1 DEF FileOf
  <2>2. CASE u # s
    BY <1>1, <1>2, <2>2 DEF SocketsInv, SocketsSound, FlagsAreTrue, TrueOf
  <2> QED BY <2>1, <2>2
<1> QED BY <1>1, <1>3 DEF SocketsInv, SocketsSound, SocketsTypeOK

(* A file that loses its last descriptor is as new: it does not listen.    *)
LEMMA FreedFilesAreFresh ==
  ASSUME SocketsInv, NEW t
  PROVE  /\ KernelFrees(t) \in [Fds -> FileRecs]
         /\ \A k \in Fds : ~ FreeFile(t, k) => KernelFrees(t)[k] = kfile[k]
         /\ \A k \in Fds : KernelFrees(t)[k].state = "listen" =>
              KernelFrees(t)[k].type = "stream" /\ KernelFrees(t)[k].local # NoPort
<1>1. FreshFile("stream") \in FileRecs /\ FreshFile("stream").state # "listen"
  BY DEF FreshFile, FileRecs, Types
<1> QED BY <1>1 DEF KernelFrees, SocketsInv, SocketsSound, SocketsTypeOK, ListenersAreBound

LEMMA FreshFiles ==
  ASSUME NEW type \in Types
  PROVE  FreshFile(type) \in FileRecs /\ FreshFile(type).state # "listen"
BY DEF FreshFile, FileRecs, Types

(* What is left of a Socket that is shut has no flags.                     *)
LEMMA ShutHasNoFlags ==
  ASSUME SocketsInv, NEW s \in Socks
  PROVE  /\ Shut(s) \in SockRecords /\ Unmade \in SockRecords
         /\ ~ Shut(s).opened /\ ~ Shut(s).bound /\ ~ Shut(s).connected /\ ~ Shut(s).listening
         /\ ~ Unmade.opened /\ ~ Unmade.bound /\ ~ Unmade.connected /\ ~ Unmade.listening
<1>1. sock[s] \in SockRecords
  BY DEF SocketsInv, SocketsSound, SocketsTypeOK
<1>2. ~ sock[s].opened => ~ sock[s].bound /\ ~ sock[s].connected /\ ~ sock[s].listening
  BY DEF SocketsInv, SocketsSound, FlagsAreTrue
<1>3. Unmade \in SockRecords
  BY DEF Unmade, SockRecords
<1> QED BY <1>1, <1>2, <1>3 DEF Shut, Closed, Unmade, SockRecords

LEMMA CloseAndDestroyKeep ==
  ASSUME SocketsInv, NEW s \in Socks, Close(s) \/ Destroy(s)
  PROVE  SocketsInv'
<1>1. PICK r \in SockRecords :
        /\ ~ r.opened /\ ~ r.bound /\ ~ r.connected /\ ~ r.listening
        /\ sock' = [sock EXCEPT ![s] = r]
  BY ShutHasNoFlags DEF Close, Destroy, Shut
<1>2. fdTable' = TableWithout(s) /\ kfile' = KernelFrees(fdTable')
  BY DEF Close, Destroy
<1>3. kfile' \in [Fds -> FileRecs] /\ ListenersAreBound'
  BY <1>2, FreedFilesAreFresh DEF ListenersAreBound
<1>4. \A k \in Fds : ~ FreeFile(fdTable', k) => kfile'[k] = kfile[k]
  BY <1>2, FreedFilesAreFresh
<1> QED BY <1>1, <1>2, <1>3, <1>4, OwnFlagsAreLeft

LEMMA OpenKeeps ==
  ASSUME SocketsInv, NEW s \in Socks, NEW type \in Types, Open(s, type)
  PROVE  SocketsInv'
<1> DEFINE rest == TableWithout(s)
<1>1. ASSUME sock' = [sock EXCEPT ![s] = [Shut(s) EXCEPT !.fd = NoFd]],
             fdTable' = rest, kfile' = KernelFrees(rest)
      PROVE  SocketsInv'
  <2>1. PICK r \in SockRecords :
          /\ ~ r.opened /\ ~ r.bound /\ ~ r.connected /\ ~ r.listening
          /\ sock' = [sock EXCEPT ![s] = r]
    BY <1>1, ShutHasNoFlags DEF SockRecords
  <2>2. kfile' \in [Fds -> FileRecs] /\ ListenersAreBound'
    BY <1>1, FreedFilesAreFresh DEF ListenersAreBound
  <2>3. \A k \in Fds : ~ FreeFile(fdTable', k) => kfile'[k] = kfile[k]
    BY <1>1, FreedFilesAreFresh
  <2> QED BY <1>1, <2>1, <2>2, <2>3, OwnFlagsAreLeft
<1>2. ASSUME NEW fd \in Fds, NEW k \in Fds, IsLowestFree(rest, fd), IsLowestFile(rest, k),
             sock' = [sock EXCEPT ![s] = [Shut(s) EXCEPT !.fd = fd, !.opened = TRUE]],
             fdTable' = [rest EXCEPT ![fd] = k],
             kfile' = [KernelFrees(rest) EXCEPT ![k] = FreshFile(type)]
      PROVE  SocketsInv'
  <2>1. PICK r \in SockRecords :
          /\ r.opened /\ r.fd = fd /\ ~ r.bound /\ ~ r.connected /\ ~ r.listening
          /\ sock' = [sock EXCEPT ![s] = r]
    BY <1>2, ShutHasNoFlags DEF SockRecords
  <2>2. rest[fd] = NoOpenFile /\ FreeFile(rest, k)
    BY <1>2 DEF IsLowestFree, IsLowestFile
  <2>3. kfile' \in [Fds -> FileRecs] /\ ListenersAreBound'
    BY <1>2, FreedFilesAreFresh, FreshFiles DEF ListenersAreBound
  <2>4. \A j \in Fds : ~ FreeFile(rest, j) => kfile'[j] = kfile[j]
    BY <1>2, <2>2, FreedFilesAreFresh
  <2>5. TrueOf(r, kfile'[fdTable'[r.fd]])
    BY <2>1 DEF TrueOf
  <2> QED BY <1>2, <2>1, <2>2, <2>3, <2>4, <2>5, OwnFlagsAreLeft
<1> QED BY <1>1, <1>2 DEF Open

LEMMA AssignKeeps ==
  ASSUME SocketsInv, NEW s \in Socks, NEW t \in Socks, Assign(s, t)
  PROVE  SocketsInv'
<1> DEFINE rest == TableWithout(s)
<1>1. kfile' = KernelFrees(fdTable') /\ sock[t].opened
  BY DEF Assign
<1>2. kfile' \in [Fds -> FileRecs] /\ ListenersAreBound'
  BY <1>1, FreedFilesAreFresh DEF ListenersAreBound
<1>3. \A k \in Fds : ~ FreeFile(fdTable', k) => kfile'[k] = kfile[k]
  BY <1>1, FreedFilesAreFresh
<1>4. ASSUME sock' = [sock EXCEPT ![s] = [Shut(s) EXCEPT !.fd = NoFd]], fdTable' = rest
      PROVE  SocketsInv'
  <2>1. PICK r \in SockRecords :
          /\ ~ r.opened /\ ~ r.bound /\ ~ r.connected /\ ~ r.listening
          /\ sock' = [sock EXCEPT ![s] = r]
    BY <1>4, ShutHasNoFlags DEF SockRecords
  <2> QED BY <1>2, <1>3, <1>4, <2>1, OwnFlagsAreLeft
<1>5. ASSUME NEW fd \in Fds, s # t, IsLowestFree(rest, fd),
             sock' = [sock EXCEPT ![s] = [sock[t] EXCEPT !.fd = fd]],
             fdTable' = [rest EXCEPT ![fd] = fdTable[sock[t].fd]]
      PROVE  SocketsInv'
  <2>1. /\ sock[t] \in SockRecords /\ sock[t].opened
        /\ FileOf(t) \in Fds /\ TrueOf(sock[t], kfile[FileOf(t)])
    BY <1>1, OpenedHaveFiles DEF SocketsInv, SocketsSound, SocketsTypeOK
  <2>2. PICK r \in SockRecords :
          /\ r.opened /\ r.fd = fd /\ r.bound = sock[t].bound
          /\ r.connected = sock[t].connected /\ r.listening = sock[t].listening
          /\ sock' = [sock EXCEPT ![s] = r]
    BY <1>5, <2>1 DEF SockRecords
  <2>3. rest[fd] = NoOpenFile
    BY <1>5 DEF IsLowestFree
  <2>4. rest \in [Fds -> Fds \cup {NoOpenFile}]
    BY TableWithoutIsOthers
  <2>5. fdTable'[fd] = FileOf(t) /\ ~ FreeFile(fdTable', FileOf(t))
    BY <1>5, <2>4 DEF FileOf, FreeFile
  <2>6. TrueOf(r, kfile'[fdTable'[r.fd]])
    BY <1>3, <2>1, <2>2, <2>5 DEF TrueOf
  <2>7. \E k \in Fds : fdTable' = [rest EXCEPT ![r.fd] = k]
    BY <1>5, <2>1, <2>2 DEF FileOf
  <2> QED BY <1>2, <1>3, <2>2, <2>3, <2>6, <2>7, OwnFlagsAreLeft
<1> QED BY <1>4, <1>5 DEF Assign

(* The Sockets keep their descriptors: what they say is left to look at.   *)
LEMMA SayingsAreLeft ==
  ASSUME SocketsInv, UNCHANGED fdTable,
         sock' \in [Socks -> SockRecords], kfile' \in [Fds -> FileRecs],
         \A u \in Socks : sock'[u].opened = sock[u].opened /\ sock'[u].fd = sock[u].fd,
         ListenersAreBound',
         \A u \in Socks : sock[u].opened => TrueOf(sock'[u], kfile'[FileOf(u)]),
         \A u \in Socks : ~ sock[u].opened =>
           ~ sock'[u].bound /\ ~ sock'[u].connected /\ ~ sock'[u].listening
  PROVE  SocketsInv'
<1>1. fdTable' \in [Fds -> Fds \cup {NoOpenFile}]
  BY DEF SocketsInv, SocketsSound, SocketsTypeOK
<1>2. \A u \in Socks : FileOf(u)' = FileOf(u)
  BY DEF FileOf
<1>3. OwnDescriptor'
  BY <1>2 DEF OwnDescriptor, SocketsInv, SocketsSound
<1>4. \A u \in Socks : sock'[u].bound \in BOOLEAN /\ sock'[u].connected \in BOOLEAN
                         /\ sock'[u].listening \in BOOLEAN
  BY DEF SockRecords
<1>5. FlagsAreTrue'
  BY <1>2, <1>4 DEF FlagsAreTrue, TrueOf
<1> QED BY <1>1, <1>3, <1>5 DEF SocketsInv, SocketsSound, SocketsTypeOK

LEMMA FlagsOfAll ==
  ASSUME SocketsInv
  PROVE  /\ sock \in [Socks -> SockRecords] /\ kfile \in [Fds -> FileRecs]
         /\ \A u \in Socks : sock[u].opened => FileOf(u) \in Fds /\ TrueOf(sock[u], kfile[FileOf(u)])
         /\ \A u \in Socks : ~ sock[u].opened =>
              ~ sock[u].bound /\ ~ sock[u].connected /\ ~ sock[u].listening
<1>1. \A u \in Socks : sock[u].opened => FileOf(u) \in Fds /\ TrueOf(sock[u], kfile[FileOf(u)])
  BY OpenedHaveFiles
<1> QED BY <1>1 DEF SocketsInv, SocketsSound, SocketsTypeOK, FlagsAreTrue

LEMMA ConstructKeeps ==
  ASSUME SocketsInv, NEW s \in Socks, Construct(s)
  PROVE  SocketsInv'
<1>1. /\ sock' \in [Socks -> SockRecords]
      /\ \A u \in Socks : /\ sock'[u].opened = sock[u].opened /\ sock'[u].fd = sock[u].fd
                          /\ sock'[u].bound = sock[u].bound
                          /\ sock'[u].connected = sock[u].connected
                          /\ sock'[u].listening = sock[u].listening
  <2>1. /\ sock[s] \in SockRecords
        /\ sock' = [sock EXCEPT ![s] = [sock[s] EXCEPT !.made = TRUE]]
    BY FlagsOfAll DEF Construct
  <2>2. PICK r \in SockRecords :
          /\ r.opened = sock[s].opened /\ r.fd = sock[s].fd /\ r.bound = sock[s].bound
          /\ r.connected = sock[s].connected /\ r.listening = sock[s].listening
          /\ sock' = [sock EXCEPT ![s] = r]
    BY <2>1 DEF SockRecords
  <2> QED BY <2>2, FlagsOfAll
<1>2. UNCHANGED <<fdTable, kfile>> /\ ListenersAreBound'
  BY DEF Construct, SocketsInv, ListenersAreBound
<1> QED BY <1>1, <1>2, FlagsOfAll, SayingsAreLeft DEF TrueOf

LEMMA BindKeeps ==
  ASSUME SocketsInv, NEW s \in Socks, NEW p \in Ports, Bind(s, p)
  PROVE  SocketsInv'
<1> DEFINE k == FileOf(s)
<1>1. sock[s].opened /\ k \in Fds /\ kfile[k].local = NoPort
  BY OpenedHaveFiles DEF Bind
<1>2. p \in Nat /\ p # NoPort
  BY SocketsAssumption DEF NoPort
<1>3. /\ sock' \in [Socks -> SockRecords]
      /\ \A u \in Socks : /\ sock'[u].opened = sock[u].opened /\ sock'[u].fd = sock[u].fd
                          /\ sock'[u].bound = IF u = s THEN TRUE ELSE sock[u].bound
                          /\ sock'[u].connected = sock[u].connected
                          /\ sock'[u].listening = sock[u].listening
  <2>1. /\ sock[s] \in SockRecords /\ p \in Ports \cup {NoPort}
        /\ sock' = [sock EXCEPT ![s] = [sock[s] EXCEPT !.addr = p, !.bound = TRUE]]
    BY FlagsOfAll DEF Bind
  <2>2. PICK r \in SockRecords :
          /\ r.opened = sock[s].opened /\ r.fd = sock[s].fd /\ r.bound = TRUE
          /\ r.connected = sock[s].connected /\ r.listening = sock[s].listening
          /\ sock' = [sock EXCEPT ![s] = r]
    BY <2>1 DEF SockRecords
  <2> QED BY <2>2, FlagsOfAll
<1>4. /\ kfile' \in [Fds -> FileRecs]
      /\ \A j \in Fds : /\ kfile'[j].local = IF j = k THEN p ELSE kfile[j].local
                        /\ kfile'[j].state = kfile[j].state /\ kfile'[j].type = kfile[j].type
  BY <1>1, FlagsOfAll DEF Bind, FileRecs
<1>5. UNCHANGED fdTable /\ ListenersAreBound'
  BY <1>1, <1>2, <1>4 DEF Bind, SocketsInv, ListenersAreBound
<1>6. \A u \in Socks : sock[u].opened => TrueOf(sock'[u], kfile'[FileOf(u)])
  <2> SUFFICES ASSUME NEW u \in Socks, sock[u].opened
               PROVE  TrueOf(sock'[u], kfile'[FileOf(u)])
    OBVIOUS
  <2>1. FileOf(u) \in Fds /\ TrueOf(sock[u], kfile[FileOf(u)])
    BY FlagsOfAll
  <2>2. CASE FileOf(u) = k
    BY <1>1, <1>2, <1>3, <1>4, <2>1, <2>2 DEF TrueOf
  <2>3. CASE FileOf(u) # k
    <3>1. u # s
      BY <2>3
    <3>2. kfile'[FileOf(u)].local = kfile[FileOf(u)].local
          /\ kfile'[FileOf(u)].state = kfile[FileOf(u)].state
      BY <1>4, <2>1, <2>3
    <3> QED BY <1>3, <2>1, <3>1, <3>2 DEF TrueOf
  <2> QED BY <2>2, <2>3
<1> QED BY <1>1, <1>3, <1>4, <1>5, <1>6, FlagsOfAll, SayingsAreLeft

LEMMA ListenKeeps ==
  ASSUME SocketsInv, NEW s \in Socks, Listen(s)
  PROVE  SocketsInv'
<1> DEFINE k == FileOf(s)
<1>1. /\ sock[s].opened /\ k \in Fds
      /\ kfile[k].type = "stream" /\ kfile[k].state \in {"closed", "listen"}
  BY OpenedHaveFiles DEF Listen
<1>2. PICK p \in Ports :
        kfile' = [kfile EXCEPT ![k].state = "listen", ![k].local = p]
  BY DEF Listen
<1>3. p \in Nat /\ p # NoPort
  BY SocketsAssumption DEF NoPort
<1>4. /\ sock' \in [Socks -> SockRecords]
      /\ \A u \in Socks : /\ sock'[u].opened = sock[u].opened /\ sock'[u].fd = sock[u].fd
                          /\ sock'[u].bound = sock[u].bound
                          /\ sock'[u].connected = sock[u].connected
                          /\ sock'[u].listening = IF u = s THEN TRUE ELSE sock[u].listening
  <2>1. sock[s] \in SockRecords /\ sock' = [sock EXCEPT ![s] = [sock[s] EXCEPT !.listening = TRUE]]
    BY FlagsOfAll DEF Listen
  <2>2. PICK r \in SockRecords :
          /\ r.opened = sock[s].opened /\ r.fd = sock[s].fd /\ r.bound = sock[s].bound
          /\ r.connected = sock[s].connected /\ r.listening = TRUE
          /\ sock' = [sock EXCEPT ![s] = r]
    BY <2>1 DEF SockRecords
  <2> QED BY <2>2, FlagsOfAll
<1>5. /\ kfile' \in [Fds -> FileRecs]
      /\ \A j \in Fds : /\ kfile'[j].local = IF j = k THEN p ELSE kfile[j].local
                        /\ kfile'[j].state = IF j = k THEN "listen" ELSE kfile[j].state
                        /\ kfile'[j].type = kfile[j].type
  <2>1. PICK r \in FileRecs :
          /\ r.local = p /\ r.state = "listen" /\ r.type = kfile[k].type
          /\ kfile' = [kfile EXCEPT ![k] = r]
    <3>1. /\ kfile[k] \in FileRecs
          /\ kfile' = [kfile EXCEPT ![k] = [kfile[k] EXCEPT !.state = "listen", !.local = p]]
      BY <1>1, <1>2, FlagsOfAll
    <3> QED BY <3>1 DEF FileRecs
  <2> QED BY <1>1, <2>1, FlagsOfAll
<1>6. UNCHANGED fdTable /\ ListenersAreBound'
  BY <1>1, <1>3, <1>5 DEF Listen, SocketsInv, ListenersAreBound
<1>7. \A u \in Socks : sock[u].opened => TrueOf(sock'[u], kfile'[FileOf(u)])
  <2> SUFFICES ASSUME NEW u \in Socks, sock[u].opened
               PROVE  TrueOf(sock'[u], kfile'[FileOf(u)])
    OBVIOUS
  <2>1. FileOf(u) \in Fds /\ TrueOf(sock[u], kfile[FileOf(u)])
    BY FlagsOfAll
  <2>2. CASE FileOf(u) = k
    BY <1>1, <1>3, <1>4, <1>5, <2>1, <2>2 DEF TrueOf
  <2>3. CASE FileOf(u) # k
    BY <1>1, <1>4, <1>5, <2>1, <2>3 DEF TrueOf
  <2> QED BY <2>2, <2>3
<1> QED BY <1>1, <1>4, <1>5, <1>6, <1>7, FlagsOfAll, SayingsAreLeft

LEMMA ConnectKeeps ==
  ASSUME SocketsInv, NEW s \in Socks, NEW q \in Peers, Connect(s, q)
  PROVE  SocketsInv'
<1> DEFINE k == FileOf(s)
<1>1. /\ sock[s].opened /\ k \in Fds
      /\ kfile[k].state # "listen"
      /\ kfile[k].type = "datagram" \/ kfile[k].state = "closed"
  BY OpenedHaveFiles DEF Connect, SocketsInv, ListenersAreBound
<1>2. PICK p \in Ports :
        IF kfile[k].type = "stream" /\ kfile[k].nonblock
          THEN /\ kfile' = [kfile EXCEPT ![k].local = p, ![k].remote = q, ![k].state = "syn"]
               /\ UNCHANGED sock
          ELSE /\ kfile' = [kfile EXCEPT ![k].local = p, ![k].remote = q, ![k].state = "up"]
               /\ sock' = [sock EXCEPT ![s].connected = TRUE, ![s].peer = q,
                                       ![s].bound = TRUE,
                                       ![s].addr = IF sock[s].bound THEN @ ELSE p]
  BY DEF Connect
<1>3. p \in Nat /\ p # NoPort /\ UNCHANGED fdTable
  BY SocketsAssumption DEF NoPort, Connect
<1>4. CASE kfile[k].type = "stream" /\ kfile[k].nonblock
  <2>1. /\ kfile' \in [Fds -> FileRecs]
        /\ \A j \in Fds : /\ kfile'[j].local = IF j = k THEN p ELSE kfile[j].local
                          /\ kfile'[j].state = IF j = k THEN "syn" ELSE kfile[j].state
                          /\ kfile'[j].type = kfile[j].type
    BY <1>1, <1>2, <1>4, FlagsOfAll DEF FileRecs
  <2>2. ListenersAreBound'
    BY <1>1, <1>3, <2>1 DEF SocketsInv, ListenersAreBound
  <2>3. kfile[k].state = "closed"
    BY <1>1, <1>4
  <2>4. \A u \in Socks : sock[u].opened => TrueOf(sock[u], kfile'[FileOf(u)])
    BY <1>1, <1>3, <2>1, <2>3, FlagsOfAll DEF TrueOf
  <2> QED BY <1>2, <1>3, <1>4, <2>1, <2>2, <2>4, FlagsOfAll, SayingsAreLeft
<1>5. CASE ~ (kfile[k].type = "stream" /\ kfile[k].nonblock)
  <2>1. /\ kfile' \in [Fds -> FileRecs]
        /\ \A j \in Fds : /\ kfile'[j].local = IF j = k THEN p ELSE kfile[j].local
                          /\ kfile'[j].state = IF j = k THEN "up" ELSE kfile[j].state
                          /\ kfile'[j].type = kfile[j].type
    BY <1>1, <1>2, <1>5, FlagsOfAll DEF FileRecs
  <2>2. ListenersAreBound'
    BY <1>1, <1>3, <2>1 DEF SocketsInv, ListenersAreBound
  <2>3. /\ sock' \in [Socks -> SockRecords]
        /\ \A u \in Socks : /\ sock'[u].opened = sock[u].opened /\ sock'[u].fd = sock[u].fd
                            /\ sock'[u].bound = IF u = s THEN TRUE ELSE sock[u].bound
                            /\ sock'[u].connected = IF u = s THEN TRUE ELSE sock[u].connected
                            /\ sock'[u].listening = sock[u].listening
    <3>1. /\ sock[s] \in SockRecords /\ p \in Ports \cup {NoPort} /\ q \in Peers \cup {NoPeer}
          /\ sock' = [sock EXCEPT ![s] = [sock[s] EXCEPT !.connected = TRUE, !.peer = q,
                                            !.bound = TRUE,
                                            !.addr = IF sock[s].bound THEN @ ELSE p]]
      BY <1>2, <1>5, FlagsOfAll
    <3>2. PICK r \in SockRecords :
            /\ r.opened = sock[s].opened /\ r.fd = sock[s].fd /\ r.bound = TRUE
            /\ r.connected = TRUE /\ r.listening = sock[s].listening
            /\ sock' = [sock EXCEPT ![s] = r]
      BY <3>1 DEF SockRecords
    <3> QED BY <3>2, FlagsOfAll
  <2>4. \A u \in Socks : sock[u].opened => TrueOf(sock'[u], kfile'[FileOf(u)])
    <3> SUFFICES ASSUME NEW u \in Socks, sock[u].opened
                 PROVE  TrueOf(sock'[u], kfile'[FileOf(u)])
      OBVIOUS
    <3>1. FileOf(u) \in Fds /\ TrueOf(sock[u], kfile[FileOf(u)])
      BY FlagsOfAll
    <3>2. CASE FileOf(u) = k
      BY <1>1, <1>3, <2>1, <2>3, <3>1, <3>2 DEF TrueOf
    <3>3. CASE FileOf(u) # k
      BY <1>1, <2>1, <2>3, <3>1, <3>3 DEF TrueOf
    <3> QED BY <3>2, <3>3
  <2> QED BY <1>1, <1>3, <2>1, <2>2, <2>3, <2>4, FlagsOfAll, SayingsAreLeft
<1> QED BY <1>4, <1>5

LEMMA KernelConnectsKeeps ==
  ASSUME SocketsInv, NEW k \in Fds, KernelConnects(k)
  PROVE  SocketsInv'
<1>1. /\ kfile' \in [Fds -> FileRecs] /\ kfile[k].state = "syn"
      /\ \A j \in Fds : /\ kfile'[j].local = kfile[j].local
                        /\ kfile'[j].state = IF j = k THEN "up" ELSE kfile[j].state
                        /\ kfile'[j].type = kfile[j].type
  BY FlagsOfAll DEF KernelConnects, FileRecs
<1>2. UNCHANGED <<sock, fdTable>> /\ ListenersAreBound'
  BY <1>1 DEF KernelConnects, SocketsInv, ListenersAreBound
<1>3. \A u \in Socks : sock[u].opened => TrueOf(sock[u], kfile'[FileOf(u)])
  BY <1>1, FlagsOfAll DEF TrueOf
<1> QED BY <1>1, <1>2, <1>3, FlagsOfAll, SayingsAreLeft

LEMMA NonblockKeeps ==
  ASSUME SocketsInv, NEW s \in Socks, NEW b \in BOOLEAN, Nonblock(s, b)
  PROVE  SocketsInv'
<1>1. FileOf(s) \in Fds
  BY OpenedHaveFiles DEF Nonblock
<1>2. /\ kfile' \in [Fds -> FileRecs]
      /\ \A j \in Fds : /\ kfile'[j].local = kfile[j].local
                        /\ kfile'[j].state = kfile[j].state /\ kfile'[j].type = kfile[j].type
  BY <1>1, FlagsOfAll DEF Nonblock, FileRecs
<1>3. UNCHANGED <<sock, fdTable>> /\ ListenersAreBound'
  BY <1>2 DEF Nonblock, SocketsInv, ListenersAreBound
<1>4. \A u \in Socks : sock[u].opened => TrueOf(sock[u], kfile'[FileOf(u)])
  BY <1>2, FlagsOfAll DEF TrueOf
<1> QED BY <1>2, <1>3, <1>4, FlagsOfAll, SayingsAreLeft

(* accept gives its target a file that has the address of the listener,    *)
(* which the listener has.                                                 *)
LEMMA AcceptKeeps ==
  ASSUME SocketsInv, NEW s \in Socks, NEW t \in Socks, NEW q \in Peers, Accept(s, t, q)
  PROVE  SocketsInv'
<1> DEFINE rest == TableWithout(t)
           fresh == [FreshFile("stream") EXCEPT
                      !.local = kfile[FileOf(s)].local, !.remote = q, !.state = "up"]
<1>1. PICK fd \in Fds, k \in Fds :
        /\ IsLowestFree(fdTable, fd) /\ IsLowestFile(fdTable, k)
        /\ fdTable' = [rest EXCEPT ![fd] = k]
        /\ kfile' = [KernelFrees(fdTable') EXCEPT ![k] = fresh]
        /\ sock' = [sock EXCEPT ![t] = [made |-> TRUE, fd |-> fd, opened |-> TRUE,
                      bound |-> TRUE, connected |-> TRUE, listening |-> FALSE,
                      addr |-> sock[s].addr, peer |-> q]]
  BY DEF Accept
<1>2. PICK r \in SockRecords :
        /\ r.opened /\ r.fd = fd /\ ~ r.listening
        /\ sock' = [sock EXCEPT ![t] = r]
  BY <1>1, FlagsOfAll DEF SockRecords
<1>3. /\ FileOf(s) \in Fds /\ kfile[FileOf(s)] \in FileRecs
      /\ kfile[FileOf(s)].state = "listen" /\ kfile[FileOf(s)].local # NoPort
  BY OpenedHaveFiles DEF Accept, SocketsInv, ListenersAreBound
<1>4. fresh \in FileRecs /\ fresh.state = "up" /\ fresh.local # NoPort
  BY <1>3 DEF FreshFile, FileRecs, Types
<1> HIDE DEF fresh
<1>5. rest \in [Fds -> Fds \cup {NoOpenFile}] /\ rest[fd] = NoOpenFile
  BY <1>1, TableWithoutIsOthers DEF IsLowestFree
<1>6. FreeFile(rest, k)
  <2>1. FreeFile(fdTable, k) /\ k # NoOpenFile
    BY <1>1 DEF IsLowestFile, Fds, NoOpenFile
  <2> QED BY <2>1 DEF FreeFile, TableWithout, SocketsInv, SocketsSound, SocketsTypeOK
<1>7. kfile' \in [Fds -> FileRecs] /\ ListenersAreBound'
  BY <1>1, <1>4, FreedFilesAreFresh DEF ListenersAreBound
<1>8. \A j \in Fds : ~ FreeFile(fdTable', j) /\ ~ FreeFile(rest, j) => kfile'[j] = kfile[j]
  <2>1. \A j \in Fds : ~ FreeFile(fdTable', j) => KernelFrees(fdTable')[j] = kfile[j]
    BY FreedFilesAreFresh
  <2>2. KernelFrees(fdTable') \in [Fds -> FileRecs]
    BY FreedFilesAreFresh
  <2> QED BY <1>1, <1>6, <2>1, <2>2
<1>9. TrueOf(r, kfile'[fdTable'[r.fd]])
  <2>1. fdTable'[r.fd] = k
    BY <1>1, <1>2, <1>5
  <2>2. kfile'[k] = fresh
    BY <1>1, FreedFilesAreFresh
  <2> QED BY <1>2, <1>4, <2>1, <2>2 DEF TrueOf
<1> HIDE DEF rest
<1>10. \E j \in Fds : fdTable' = [rest EXCEPT ![r.fd] = j]
  BY <1>1, <1>2
<1> QED BY <1>2, <1>5, <1>7, <1>8, <1>9, <1>10, OwnFlagsAreLeft DEF rest

LEMMA SocketsNextKeeps ==
  ASSUME SocketsInv, [SocketsNext]_socketVars
  PROVE  SocketsInv'
<1>1. CASE UNCHANGED socketVars
  BY <1>1 DEF SocketsInv, SocketsSound, SocketsTypeOK, OwnDescriptor, FlagsAreTrue,
              ListenersAreBound, FileOf, socketVars
<1>2. ASSUME NEW s \in Socks, Construct(s) \/ Destroy(s) \/ Close(s) \/ Listen(s)
      PROVE  SocketsInv'
  BY <1>2, ConstructKeeps, CloseAndDestroyKeep, ListenKeeps
<1>3. ASSUME NEW s \in Socks, NEW type \in Types, Open(s, type)
      PROVE  SocketsInv'
  BY <1>3, OpenKeeps
<1>4. ASSUME NEW s \in Socks, NEW t \in Socks, Assign(s, t)
      PROVE  SocketsInv'
  BY <1>4, AssignKeeps
<1>5. ASSUME NEW s \in Socks, NEW p \in Ports, Bind(s, p)
      PROVE  SocketsInv'
  BY <1>5, BindKeeps
<1>6. ASSUME NEW s \in Socks, NEW q \in Peers, Connect(s, q)
      PROVE  SocketsInv'
  BY <1>6, ConnectKeeps
<1>7. ASSUME NEW s \in Socks, NEW t \in Socks, NEW q \in Peers, Accept(s, t, q)
      PROVE  SocketsInv'
  BY <1>7, AcceptKeeps
<1>8. ASSUME NEW s \in Socks, NEW b \in BOOLEAN, Nonblock(s, b)
      PROVE  SocketsInv'
  BY <1>8, NonblockKeeps
<1>9. ASSUME NEW k \in Fds, KernelConnects(k)
      PROVE  SocketsInv'
  BY <1>9, KernelConnectsKeeps
<1> QED BY <1>1, <1>2, <1>3, <1>4, <1>5, <1>6, <1>7, <1>8, <1>9 DEF SocketsNext

(* Whatever Sockets are copied, assigned to themselves, accepted into or   *)
(* closed, and whatever the kernel refuses: each opened one has a          *)
(* descriptor of its own, no descriptor is left over, and no flag claims   *)
(* what the kernel has not granted (socket.cc, socket.hh:30).              *)
THEOREM SocketsTellTheTruth == SocketsSpec => []SocketsSound
<1>1. SocketsInit => SocketsInv
  <2> SUFFICES ASSUME SocketsInit
               PROVE  SocketsInv
    OBVIOUS
  <2>1. TableSize \in Nat \ {0}
    BY SocketsAssumption
  <2>2. FreshFile("stream") \in FileRecs /\ FreshFile("stream").state # "listen"
    BY FreshFiles DEF Types
  <2>3. Unmade \in SockRecords
    BY DEF Unmade, SockRecords
  <2>4. \A s \in Socks : sock[s] = Unmade
    BY DEF SocketsInit
  <2>5. SocketsTypeOK
    BY <2>2, <2>3 DEF SocketsInit, SocketsTypeOK
  <2>6. OwnDescriptor
    BY <2>4 DEF SocketsInit, OwnDescriptor, Unmade
  <2>7. FlagsAreTrue
    BY <2>4 DEF FlagsAreTrue, Unmade
  <2>8. ListenersAreBound
    BY <2>2 DEF SocketsInit, ListenersAreBound
  <2> QED BY <2>5, <2>6, <2>7, <2>8 DEF SocketsInv, SocketsSound
<1>2. SocketsInv /\ [SocketsNext]_socketVars => SocketsInv'
  BY SocketsNextKeeps
<1>3. SocketsInv => SocketsSound
  BY DEF SocketsInv
<1> QED BY <1>1, <1>2, <1>3, PTL DEF SocketsSpec
=============================================================================

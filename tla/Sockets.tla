------------------------------ MODULE Sockets ------------------------------
(***************************************************************************)
(* The class Socket (socket.cc, socket.hh) over the descriptors of the     *)
(* process.  A Socket is copied with dup: the copies have descriptors of   *)
(* their own, which the kernel keeps on one open file, so that what one    *)
(* copy does to the file (bind, listen, O_NONBLOCK) is seen by the others, *)
(* while `flags', `addr' and `peer' are the copy's own.                    *)
(*                                                                         *)
(* THROW leaves the Socket as it is at that point.  Every method but open, *)
(* operator= and the target of accept is called on an opened Socket        *)
(* ("valid if opened()", socket.hh:30).  The kernel is external: Kernel... *)
(* name its part.  The options of setsockopt, multicast groups and the     *)
(* transfer of data (CommandChannel) are left out.                         *)
(***************************************************************************)
EXTENDS Integers, FiniteSets

CONSTANTS Socks,       \* the Socket objects
          TableSize,   \* descriptors the process may have open
          Ports, Peers

ASSUME SocketsAssumption ==
  /\ TableSize \in Nat \ {0} /\ IsFiniteSet(Ports) /\ Ports \subseteq Nat \ {0}

Fds == 0..(TableSize - 1)
NoFd == -1
NoOpenFile == TableSize                 \* no open file has more descriptors than this
NoPort == 0
NoPeer == "none"
Types == {"stream", "datagram"}

VARIABLES sock,     \* sock[s]: the Socket s
          fdTable,  \* fdTable[fd]: the open file, or NoOpenFile
          kfile     \* kfile[k]: the open file k, while a descriptor refers to it

socketVars == <<sock, fdTable, kfile>>

SockRecords == [made : BOOLEAN, fd : Fds \cup {NoFd}, opened : BOOLEAN, bound : BOOLEAN,
                connected : BOOLEAN, listening : BOOLEAN,
                addr : Ports \cup {NoPort}, peer : Peers \cup {NoPeer}]
FileRecs == [type : Types, nonblock : BOOLEAN, local : Ports \cup {NoPort},
             remote : Peers \cup {NoPeer}, state : {"closed", "syn", "up", "listen"}]
Unmade == [made |-> FALSE, fd |-> NoFd, opened |-> FALSE, bound |-> FALSE,
           connected |-> FALSE, listening |-> FALSE, addr |-> NoPort, peer |-> NoPeer]
FreshFile(type) == [type |-> type, nonblock |-> FALSE, local |-> NoPort,
                    remote |-> NoPeer, state |-> "closed"]

SocketsTypeOK ==
  /\ sock \in [Socks -> SockRecords]
  /\ fdTable \in [Fds -> Fds \cup {NoOpenFile}]
  /\ kfile \in [Fds -> FileRecs]

SocketsInit ==
  /\ sock = [s \in Socks |-> Unmade]
  /\ fdTable = [fd \in Fds |-> NoOpenFile]
  /\ kfile = [k \in Fds |-> FreshFile("stream")]

-----------------------------------------------------------------------------
(* The kernel hands out the lowest free descriptor, and finds room for an  *)
(* open file                                                               *)
IsLowestFree(table, fd) ==
  table[fd] = NoOpenFile /\ \A g \in Fds : table[g] = NoOpenFile => fd <= g
FreeFile(table, k) == \A fd \in Fds : table[fd] # k
IsLowestFile(table, k) ==
  FreeFile(table, k) /\ \A j \in Fds : FreeFile(table, j) => k <= j
(* The last descriptor of a file takes the file with it                    *)
KernelFrees(table) ==
  [k \in Fds |-> IF FreeFile(table, k) THEN FreshFile("stream") ELSE kfile[k]]

(* A mutant of Closed: close() resets nothing but opened                   *)
ClosedKeepsFlags(s) == [sock[s] EXCEPT !.opened = FALSE, !.fd = NoFd]

(* Socket::close: what is left of the Socket, and of the table             *)
Closed(s) == [sock[s] EXCEPT !.opened = FALSE, !.bound = FALSE, !.connected = FALSE,
                             !.listening = FALSE, !.fd = NoFd]
TableWithout(s) == IF sock[s].opened THEN [fdTable EXCEPT ![sock[s].fd] = NoOpenFile] ELSE fdTable
Shut(s) == IF sock[s].opened THEN Closed(s) ELSE sock[s]

Close(s) ==
  /\ sock[s].opened
  /\ sock' = [sock EXCEPT ![s] = Closed(s)]
  /\ fdTable' = TableWithout(s)
  /\ kfile' = KernelFrees(fdTable')

Destroy(s) ==
  /\ sock[s].made
  /\ sock' = [sock EXCEPT ![s] = Unmade]
  /\ fdTable' = TableWithout(s)
  /\ kfile' = KernelFrees(fdTable')

Construct(s) ==
  /\ ~ sock[s].made
  /\ sock' = [sock EXCEPT ![s].made = TRUE]
  /\ UNCHANGED <<fdTable, kfile>>

(* open: closes first; socket() fails for want of descriptors or memory    *)
Open(s, type) ==
  /\ sock[s].made
  /\ LET table == TableWithout(s) IN
     \/ /\ sock' = [sock EXCEPT ![s] = [Shut(s) EXCEPT !.fd = NoFd]]
        /\ fdTable' = table /\ kfile' = KernelFrees(table)
     \/ \E fd \in Fds, k \in Fds :
          /\ IsLowestFree(table, fd) /\ IsLowestFile(table, k)
          /\ sock' = [sock EXCEPT ![s] = [Shut(s) EXCEPT !.fd = fd, !.opened = TRUE]]
          /\ fdTable' = [table EXCEPT ![fd] = k]
          /\ kfile' = [KernelFrees(table) EXCEPT ![k] = FreshFile(type)]

(* operator=, and the copy constructor: s is closed before t is looked at, *)
(* so that a Socket assigned to itself is lost; dup may fail.  Bound: t is *)
(* open, for of a new Socket the code would dup whatever fd was left at    *)
Assign(s, t) ==
  /\ sock[s].made /\ sock[t].opened
  /\ LET table == TableWithout(s) IN
     \/ /\ sock' = [sock EXCEPT ![s] = [Shut(s) EXCEPT !.fd = NoFd]]
        /\ fdTable' = table
     \/ \E fd \in Fds :
          /\ s # t /\ IsLowestFree(table, fd)
          /\ sock' = [sock EXCEPT ![s] = [sock[t] EXCEPT !.fd = fd]]
          /\ fdTable' = [table EXCEPT ![fd] = fdTable[sock[t].fd]]
  /\ kfile' = KernelFrees(fdTable')

-----------------------------------------------------------------------------
FileOf(s) == fdTable[sock[s].fd]
PortFree(p) ==
  \A k \in Fds : kfile[k].state = "listen" /\ kfile[k].local = p => FreeFile(fdTable, k)

(* bind: refused if the file has an address already, or a listener has the *)
(* port (reuseaddr); of port 0 the kernel makes any free one, which        *)
(* getsockname reports                                                     *)
Bind(s, p) ==
  /\ sock[s].opened
  /\ kfile[FileOf(s)].local = NoPort
  /\ PortFree(p)
  /\ kfile' = [kfile EXCEPT ![FileOf(s)].local = p]
  /\ sock' = [sock EXCEPT ![s].addr = p, ![s].bound = TRUE]
  /\ UNCHANGED fdTable

Listen(s) ==
  /\ sock[s].opened
  /\ kfile[FileOf(s)].type = "stream" /\ kfile[FileOf(s)].state \in {"closed", "listen"}
  /\ \E p \in Ports :
       /\ IF kfile[FileOf(s)].local = NoPort THEN PortFree(p) ELSE p = kfile[FileOf(s)].local
       /\ kfile' = [kfile EXCEPT ![FileOf(s)].state = "listen", ![FileOf(s)].local = p]
  /\ sock' = [sock EXCEPT ![s].listening = TRUE]
  /\ UNCHANGED fdTable

(* connect: of a stream that does not block, the connection is begun and   *)
(* EINPROGRESS is thrown before the flags are set                          *)
Connect(s, q) ==
  /\ sock[s].opened
  /\ LET k == FileOf(s)  f == kfile[k] IN
     /\ f.type = "datagram" \/ f.state = "closed"
     /\ \E p \in Ports :
          /\ IF f.local = NoPort THEN PortFree(p) ELSE p = f.local
          /\ IF f.type = "stream" /\ f.nonblock
               THEN /\ kfile' = [kfile EXCEPT ![k].local = p, ![k].remote = q, ![k].state = "syn"]
                    /\ UNCHANGED sock
               ELSE /\ kfile' = [kfile EXCEPT ![k].local = p, ![k].remote = q, ![k].state = "up"]
                    /\ sock' = [sock EXCEPT ![s].connected = TRUE, ![s].peer = q,
                                            ![s].bound = TRUE,
                                            ![s].addr = IF sock[s].bound THEN @ ELSE p]
  /\ UNCHANGED fdTable

KernelConnects(k) ==
  /\ ~ FreeFile(fdTable, k) /\ kfile[k].state = "syn"
  /\ kfile' = [kfile EXCEPT ![k].state = "up"]
  /\ UNCHANGED <<sock, fdTable>>

(* A mutant of Accept: the target is not closed                            *)
AcceptLeaks(s, t, q) ==
  /\ sock[s].opened /\ sock[t].made /\ kfile[FileOf(s)].state = "listen"
  /\ \E fd \in Fds, k \in Fds :
       /\ IsLowestFree(fdTable, fd) /\ IsLowestFile(fdTable, k)
       /\ fdTable' = [fdTable EXCEPT ![fd] = k]
       /\ kfile' = [kfile EXCEPT ![k].local = kfile[FileOf(s)].local, ![k].state = "up"]
       /\ sock' = [sock EXCEPT ![t].fd = fd, ![t].opened = TRUE, ![t].listening = FALSE]

(* accept: the descriptor is taken before t is closed.  t may be s, whose  *)
(* own descriptor then goes                                                *)
Accept(s, t, q) ==
  /\ sock[s].opened /\ sock[t].made
  /\ kfile[FileOf(s)].state = "listen"
  /\ \E fd \in Fds, k \in Fds :
       /\ IsLowestFree(fdTable, fd) /\ IsLowestFile(fdTable, k)
       /\ fdTable' = [TableWithout(t) EXCEPT ![fd] = k]
       /\ kfile' = [KernelFrees(fdTable') EXCEPT ![k] = [FreshFile("stream") EXCEPT
                      !.local = kfile[FileOf(s)].local, !.remote = q, !.state = "up"]]
       /\ sock' = [sock EXCEPT ![t] = [made |-> TRUE, fd |-> fd, opened |-> TRUE,
                      bound |-> TRUE, connected |-> TRUE, listening |-> FALSE,
                      addr |-> sock[s].addr, peer |-> q]]

(* nonblock(b): F_GETFL and F_SETFL, on the open file                      *)
Nonblock(s, b) ==
  /\ sock[s].opened
  /\ kfile' = [kfile EXCEPT ![FileOf(s)].nonblock = b]
  /\ UNCHANGED <<sock, fdTable>>

SocketsNext ==
  \/ \E s \in Socks :
       \/ Construct(s) \/ Destroy(s) \/ Close(s) \/ Listen(s)
       \/ \E type \in Types : Open(s, type)
       \/ \E t \in Socks : Assign(s, t)
       \/ \E p \in Ports : Bind(s, p)
       \/ \E q \in Peers : Connect(s, q)
       \/ \E t \in Socks, q \in Peers : Accept(s, t, q)
       \/ \E b \in BOOLEAN : Nonblock(s, b)
  \/ \E k \in Fds : KernelConnects(k)

SocketsSpec == SocketsInit /\ [][SocketsNext]_socketVars

-----------------------------------------------------------------------------
(* Every open descriptor belongs to one opened Socket, and every opened    *)
(* Socket has one: nothing is leaked by copies, failed copies, accepts     *)
(* into a Socket in use or reopening, and nothing is closed twice          *)
OwnDescriptor ==
  /\ \A s \in Socks : sock[s].opened => sock[s].fd \in Fds /\ FileOf(s) # NoOpenFile
  /\ \A s, t \in Socks : sock[s].opened /\ sock[t].opened /\ sock[s].fd = sock[t].fd => s = t
  /\ \A fd \in Fds : fdTable[fd] # NoOpenFile => \E s \in Socks : sock[s].opened /\ sock[s].fd = fd

(* What the flags of a Socket say of its file is so, of copies too (the    *)
(* converse is not: a copy does not learn what another copy did, and a     *)
(* connection begun without blocking is never flagged)                     *)
FlagsAreTrue ==
  \A s \in Socks :
    /\ sock[s].bound \/ sock[s].connected \/ sock[s].listening => sock[s].opened
    /\ sock[s].bound => kfile[FileOf(s)].local # NoPort
    /\ sock[s].connected => kfile[FileOf(s)].state = "up"
    /\ sock[s].listening => kfile[FileOf(s)].state = "listen"

(* A Socket tells the truth about the kernel: its descriptor is its own    *)
(* and its flags are what was granted (socket.hh:30, "valid if opened()"). *)
SocketsSound == SocketsTypeOK /\ OwnDescriptor /\ FlagsAreTrue
=============================================================================

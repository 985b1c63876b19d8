------------------------------- MODULE Server -------------------------------
(***************************************************************************)
(* napd's Server (server.cc) and the main loop that drives it (napd.cc):   *)
(* an accept thread takes connections from the kernel and pushes Client    *)
(* objects on `incoming`, under its mutex; the main thread moves them to   *)
(* `clients`, keeps the most recent one of each address, polls them, reads *)
(* them (client.cc) and removes them when they fail.  The kernel's part is *)
(* what the code relies on: a table that hands out the lowest free         *)
(* descriptor, a backlog, and the bytes and the end of each stream.        *)
(*                                                                         *)
(* A connection and the Client object that accept(2) fills for it have the *)
(* same name c.  Server never writes to a client, so wqueue and flush have *)
(* no part here.                                                           *)
(***************************************************************************)
EXTENDS Integers, Sequences

CONSTANTS
  Conn,      \* the connections peers make, each made once
  Ip,        \* the addresses they come from
  IpOf,      \* the address of each connection
  None,      \* no connection; a free descriptor
  Own,       \* what the process's own descriptors refer to
  OpenMax,   \* getdtablesize(): descriptors are 0 .. OpenMax - 1
  OwnFds,    \* the descriptors in use before the first accept
  HeapFd,    \* what the fd field of a new Client may hold: Socket() leaves it unset
  HeadSize,  \* sizeof(CommandHead)
  Sizes,     \* the body sizes that peers announce
  MaxUnread  \* bound: bytes a connection holds unread

Fd == 0 .. OpenMax - 1

ASSUME ServerAssumption ==
  /\ IpOf \in [Conn -> Ip]
  /\ None \notin Conn /\ Own \notin Conn /\ None # Own
  /\ OpenMax \in Nat \ {0}
  /\ OwnFds \subseteq Fd
  /\ HeapFd \subseteq Int /\ HeapFd # {}
  /\ HeadSize \in Nat \ {0}
  /\ Sizes \subseteq Nat /\ Sizes # {}
  /\ MaxUnread \in Nat

VARIABLES
  \* the kernel
  net,       \* of each connection: "idle", "backlog", "open" or "closed" (by us)
  backlog,   \* established connections, in the order accept(2) returns them
  unread,    \* of each connection: bytes received that nobody has read
  fin,       \* the connections whose peer closed or reset them
  kfd,       \* what each descriptor refers to: a connection, Own or None
  \* the accept thread
  apc,       \* where it is
  held,      \* its local variable c, once accept(2) has filled it
  \* Server::incoming
  owner,     \* who locked its mutex: "main", "accept" or "none"
  incoming,  \* Client objects waiting for check_incoming
  \* the main thread
  mpc,       \* where it is
  shutdown,  \* do_shutdown
  pos,       \* how many of incoming check_incoming's iterator has passed
  clients,   \* Server::clients (its visits are independent: a set)
  todo,      \* the clients that check_clients' iterator has not passed
  ready,     \* the descriptors the last poll reported readable
  dead,      \* the clients whose flags.bit.dead is set
  fdOf,      \* Client::fd, -1 when there is no object
  need,      \* bytes missing in Client::rbuffer, 0 when there is none
  \* history
  older,     \* of each accepted connection: those accepted before it
  struck     \* a failed accept has closed the descriptor of a connection

netVars    == <<net, backlog, unread, fin, kfd>>
acceptVars == <<apc, held>>
lockVars   == <<owner, incoming>>
listVars   == <<clients, todo, dead, need>>
mainVars   == <<mpc, shutdown, pos, ready>>
vars == <<netVars, acceptVars, lockVars, listVars, mainVars, fdOf, older, struck>>

-----------------------------------------------------------------------------
(* The kernel.                                                             *)

Accepted == {c \in Conn : net[c] \in {"open", "closed"}}

Free == {n \in Fd : kfd[n] = None}

\* What descriptor n refers to; n may be any integer.
Refers(n) == IF n \in Fd THEN kfd[n] ELSE None

\* close(2): the connection that descriptor n refers to ends, if there is one;
\* closing any other number fails and nobody looks at the result.
CloseFd(n) ==
  /\ kfd' = [m \in Fd |-> IF m = n THEN None ELSE kfd[m]]
  /\ net' = [c \in Conn |-> IF c = Refers(n) THEN "closed" ELSE net[c]]
  /\ unread' = [c \in Conn |-> IF c = Refers(n) THEN 0 ELSE unread[c]]

Live(c) == net[c] \in {"backlog", "open"}

PeerConnect(c) ==
  /\ net[c] = "idle"
  /\ mpc \notin {"open", "done"}
  /\ net' = [net EXCEPT ![c] = "backlog"]
  /\ backlog' = Append(backlog, c)
  /\ UNCHANGED <<unread, fin, kfd, acceptVars, lockVars, listVars, mainVars, fdOf, older, struck>>

PeerSend(c) ==
  /\ Live(c) /\ c \notin fin
  /\ unread[c] < MaxUnread
  /\ unread' = [unread EXCEPT ![c] = @ + 1]
  /\ UNCHANGED <<net, backlog, fin, kfd, acceptVars, lockVars, listVars, mainVars, fdOf,
                 older, struck>>

\* The end of the stream follows what was sent.
PeerClose(c) ==
  /\ Live(c) /\ c \notin fin
  /\ fin' = fin \cup {c}
  /\ UNCHANGED <<net, backlog, unread, kfd, acceptVars, lockVars, listVars, mainVars, fdOf,
                 older, struck>>

\* A reset discards what was sent; recv(2) then fails.
PeerReset(c) ==
  /\ Live(c) /\ c \notin fin
  /\ fin' = fin \cup {c}
  /\ unread' = [unread EXCEPT ![c] = 0]
  /\ UNCHANGED <<net, backlog, kfd, acceptVars, lockVars, listVars, mainVars, fdOf, older, struck>>

-----------------------------------------------------------------------------
(* The accept thread: accept_loop.                                         *)

\* Unlocks the mutex that the main thread locked: "wait for accept_thread to
\* get going".
AcceptStart ==
  /\ apc = "start"
  /\ apc' = "accept"
  /\ owner' = "none"
  /\ UNCHANGED <<netVars, held, incoming, listVars, mainVars, fdOf, older, struck>>

\* new Client; accept; nonblock(1).  The kernel gives the lowest descriptor
\* that was free when the call began: one of the free ones.
Accept ==
  /\ apc = "accept"
  /\ backlog # <<>>
  /\ \E n \in Free :
       LET c == Head(backlog) IN
         /\ backlog' = Tail(backlog)
         /\ net' = [net EXCEPT ![c] = "open"]
         /\ kfd' = [kfd EXCEPT ![n] = c]
         /\ fdOf' = [fdOf EXCEPT ![c] = n]
         /\ older' = [older EXCEPT ![c] = Accepted]
         /\ held' = c
  /\ apc' = "lock"
  /\ UNCHANGED <<unread, fin, lockVars, listVars, mainVars, struck>>

\* Mutant of AcceptFail: the thread leaves its loop.
AcceptFailBreaks ==
  /\ apc = "accept"
  /\ Free = {}
  /\ apc' = "killed"
  /\ UNCHANGED <<netVars, held, lockVars, listVars, mainVars, fdOf, older, struck>>

\* accept throws, because no descriptor is left or for a reason of the system's (ENFILE,
\* ENOBUFS): `delete c` runs ~Client, and Client's close() passes to close(2) the fd that
\* nothing has set.  As long as that changes nothing the step is a stutter, so that the
\* fairness below says of the system's reasons that they pass.
AcceptFail ==
  /\ apc = "accept"
  /\ \E g \in HeapFd :
       /\ CloseFd(g)
       /\ struck' = (struck \/ Refers(g) \in Conn)
  /\ UNCHANGED <<backlog, fin, acceptVars, lockVars, listVars, mainVars, fdOf, older>>

\* Mutant of AcceptLock: the thread does not lock.
AcceptLockMissing ==
  /\ apc = "lock"
  /\ apc' = "push"
  /\ UNCHANGED <<netVars, held, lockVars, listVars, mainVars, fdOf, older, struck>>

AcceptLock ==
  /\ apc = "lock"
  /\ owner = "none"
  /\ owner' = "accept"
  /\ apc' = "push"
  /\ UNCHANGED <<netVars, held, incoming, listVars, mainVars, fdOf, older, struck>>

PushBack ==
  /\ apc = "push"
  /\ incoming' = Append(incoming, held)
  /\ held' = None
  /\ apc' = "unlock"
  /\ UNCHANGED <<netVars, owner, listVars, mainVars, fdOf, older, struck>>

AcceptUnlock ==
  /\ apc = "unlock"
  /\ owner' = "none"
  /\ apc' = "accept"
  /\ UNCHANGED <<netVars, held, incoming, listVars, mainVars, fdOf, older, struck>>

AcceptThread ==
  AcceptStart \/ Accept \/ AcceptFail \/ AcceptLock \/ PushBack \/ AcceptUnlock

-----------------------------------------------------------------------------
(* The main thread: Server::open.                                          *)

\* A step of the main thread that only moves it from one place to another.
Goto(from, to) == mpc = from /\ mpc' = to

\* Socket::open, bind and listen, then the first incoming.lock().
Open ==
  /\ Goto("open", "spawn")
  /\ owner = "none"
  /\ owner' = "main"
  /\ UNCHANGED <<netVars, acceptVars, incoming, listVars, shutdown, pos, ready, fdOf, older, struck>>

Spawn ==
  /\ Goto("spawn", "wait")
  /\ apc' = "start"
  /\ UNCHANGED <<netVars, held, lockVars, listVars, shutdown, pos, ready, fdOf, older, struck>>

\* Mutant of OpenWait: open() does not wait.
OpenWaitMissing ==
  /\ Goto("wait", "started")
  /\ UNCHANGED <<netVars, acceptVars, lockVars, listVars, shutdown, pos, ready, fdOf, older, struck>>

\* The second incoming.lock() waits for the accept thread's unlock().
OpenWait ==
  /\ Goto("wait", "started")
  /\ owner = "none"
  /\ owner' = "main"
  /\ UNCHANGED <<netVars, acceptVars, incoming, listVars, shutdown, pos, ready, fdOf, older, struck>>

OpenDone ==
  /\ Goto("started", "loop")
  /\ owner' = "none"
  /\ UNCHANGED <<netVars, acceptVars, incoming, listVars, shutdown, pos, ready, fdOf, older, struck>>

-----------------------------------------------------------------------------
(* The main thread: main's loop and check_incoming.                        *)

\* Mutant of Loop: while (1).
LoopForever ==
  /\ Goto("loop", "netpoll")
  /\ UNCHANGED <<netVars, acceptVars, lockVars, listVars, shutdown, pos, ready, fdOf, older, struck>>

\* while (!do_shutdown)
Loop ==
  /\ mpc = "loop"
  /\ mpc' = IF shutdown THEN "exit" ELSE "netpoll"
  /\ UNCHANGED <<netVars, acceptVars, lockVars, listVars, shutdown, pos, ready, fdOf, older, struck>>

\* p.poll() and the napnet messages, which share nothing with the server; what throws
\* there, a send or a read on a socket, leaves the loop (napd.cc:318).
NetPoll ==
  /\ mpc = "netpoll"
  /\ mpc' \in {"lock", "exit"}
  /\ UNCHANGED <<netVars, acceptVars, lockVars, listVars, shutdown, pos, ready, fdOf, older, struck>>

\* Mutant of LockIncoming: check_incoming does not lock.
LockIncomingMissing ==
  /\ Goto("lock", "add")
  /\ UNCHANGED <<netVars, acceptVars, lockVars, listVars, shutdown, pos, ready, fdOf, older, struck>>

LockIncoming ==
  /\ Goto("lock", "add")
  /\ owner = "none"
  /\ owner' = "main"
  /\ UNCHANGED <<netVars, acceptVars, incoming, listVars, shutdown, pos, ready, fdOf, older, struck>>

\* Mutants of SameIp: the client is pushed before the search and finds itself;
\* nobody is searched for.
SameIpFindsItself(c) == {d \in clients \cup {c} : IpOf[d] = IpOf[c]}

SameIpFindsNobody(c) == {}

\* The clients that add_connection(c) finds with c's address.
SameIp(c) == {d \in clients : IpOf[d] = IpOf[c]}

\* Mutant of AddConnection: the newcomer is the one marked dead.
AddConnectionHonorsOldest ==
  /\ mpc = "add"
  /\ pos < Len(incoming)
  /\ LET c == incoming[pos + 1] IN
       /\ dead' = IF SameIp(c) # {} THEN dead \cup {c} ELSE dead
       /\ clients' = clients \cup {c}
  /\ pos' = pos + 1
  /\ UNCHANGED <<netVars, acceptVars, lockVars, todo, need, mpc, shutdown, ready, fdOf, older, struck>>

\* add_connection(*i); ++i.
AddConnection ==
  /\ mpc = "add"
  /\ pos < Len(incoming)
  /\ LET c == incoming[pos + 1] IN
       /\ dead' = dead \cup SameIp(c)
       /\ clients' = clients \cup {c}
  /\ pos' = pos + 1
  /\ UNCHANGED <<netVars, acceptVars, lockVars, todo, need, mpc, shutdown, ready, fdOf, older, struck>>

\* Mutant of AddDone: the iterator stops one short of the end.
AddDoneEarly ==
  /\ Goto("add", "clear")
  /\ pos >= Len(incoming) - 1
  /\ UNCHANGED <<netVars, acceptVars, lockVars, listVars, shutdown, pos, ready, fdOf, older, struck>>

AddDone ==
  /\ Goto("add", "clear")
  /\ pos >= Len(incoming)
  /\ UNCHANGED <<netVars, acceptVars, lockVars, listVars, shutdown, pos, ready, fdOf, older, struck>>

ClearIncoming ==
  /\ Goto("clear", "unlock")
  /\ incoming' = <<>>
  /\ pos' = 0
  /\ UNCHANGED <<netVars, acceptVars, owner, listVars, shutdown, ready, fdOf, older, struck>>

UnlockIncoming ==
  /\ Goto("unlock", "poll")
  /\ owner' = "none"
  /\ UNCHANGED <<netVars, acceptVars, incoming, listVars, shutdown, pos, ready, fdOf, older, struck>>

-----------------------------------------------------------------------------
(* The main thread: check_clients.                                         *)

Readable(n) == LET k == Refers(n) IN k \in Conn /\ (unread[k] > 0 \/ k \in fin)

\* Server::poll watches every client; PollSet finds the answer by descriptor.
Poll ==
  /\ Goto("poll", "scan")
  /\ ready' = {n \in {fdOf[c] : c \in clients} : Readable(n)}
  /\ todo' = clients
  /\ UNCHANGED <<netVars, acceptVars, lockVars, clients, dead, need, shutdown, pos, fdOf, older, struck>>

\* Mutant of RemoveConnection: the iterator still stands on the erased client.
RemoveBeforeAdvance(c) ==
  /\ clients' = clients \ {c}
  /\ UNCHANGED todo
  /\ dead' = dead \ {c}
  /\ need' = [need EXCEPT ![c] = 0]
  /\ fdOf' = [fdOf EXCEPT ![c] = -1]
  /\ CloseFd(fdOf[c])
  /\ UNCHANGED <<backlog, fin, acceptVars, lockVars, mainVars, older, struck>>

\* Mutant of RemoveConnection: the client is closed and stays in the list.
CloseWithoutRemove(c) ==
  /\ todo' = todo \ {c}
  /\ need' = [need EXCEPT ![c] = 0]
  /\ fdOf' = [fdOf EXCEPT ![c] = -1]
  /\ CloseFd(fdOf[c])
  /\ UNCHANGED <<backlog, fin, clients, dead, acceptVars, lockVars, mainVars, older, struck>>

\* remove_connection: erase, then delete, which closes the descriptor.
RemoveConnection(c) ==
  /\ clients' = clients \ {c}
  /\ todo' = todo \ {c}
  /\ dead' = dead \ {c}
  /\ need' = [need EXCEPT ![c] = 0]
  /\ fdOf' = [fdOf EXCEPT ![c] = -1]
  /\ CloseFd(fdOf[c])
  /\ UNCHANGED <<backlog, fin, acceptVars, lockVars, mainVars, older, struck>>

\* The iterator passes c, which stays.
Keep(c) ==
  /\ todo' = todo \ {c}
  /\ UNCHANGED <<backlog, net, fin, kfd, acceptVars, lockVars, clients, dead, mainVars, fdOf, older, struck>>

Visiting(c) == mpc = "scan" /\ c \in todo

\* Client::read is called on c.
Reading(c) == Visiting(c) /\ c \notin dead /\ fdOf[c] \in ready

\* How many bytes read() may find it still has to take before the command is
\* complete: with no rbuffer, the header it peeks at says so.
Wanted(c) == IF need[c] > 0 THEN {need[c]} ELSE {HeadSize + s : s \in Sizes}

\* With no rbuffer, read() looks for a whole header before it takes anything.
HasHead(c, k) == need[c] > 0 \/ unread[k] >= HeadSize

\* Mutant of DropDead: check_clients does not look at the flag.
DropDeadNever(c) ==
  /\ Visiting(c)
  /\ c \in dead
  /\ Keep(c)
  /\ UNCHANGED <<unread, need>>

DropDead(c) ==
  /\ Visiting(c)
  /\ c \in dead
  /\ RemoveConnection(c)

SkipClient(c) ==
  /\ Visiting(c)
  /\ c \notin dead /\ fdOf[c] \notin ready
  /\ Keep(c)
  /\ UNCHANGED <<unread, need>>

\* Mutant of ReadThrows: a 0 from recv(2) is taken for "nothing yet".
ReadMissesEnd(c) ==
  /\ Reading(c)
  /\ LET k == Refers(fdOf[c]) IN
       k \in fin /\ need[c] = 0 /\ unread[k] = 0
  /\ Keep(c)
  /\ UNCHANGED <<unread, need>>

\* recv(2) fails or returns 0, at the header or after taking a part of the command.
ReadThrows(c) ==
  /\ Reading(c)
  /\ LET k == Refers(fdOf[c]) IN
       \/ k \notin Conn
       \/ k \in fin /\ need[c] = 0 /\ unread[k] = 0
       \/ k \in fin /\ HasHead(c, k) /\ \E w \in Wanted(c) : unread[k] < w
  /\ RemoveConnection(c)

\* Mutant of ReadWaits: a short header is an error.
ReadDropsShortHead(c) ==
  /\ Reading(c)
  /\ LET k == Refers(fdOf[c]) IN k \in Conn /\ ~HasHead(c, k)
  /\ RemoveConnection(c)

\* A part of a header: "if (ret != sizeof(h)) return NULL".
ReadWaits(c) ==
  /\ Reading(c)
  /\ LET k == Refers(fdOf[c]) IN
       /\ k \in Conn
       /\ ~HasHead(c, k)
       /\ unread[k] > 0 \/ k \notin fin
  /\ Keep(c)
  /\ UNCHANGED <<unread, need>>

\* A command, or as much of it as has come (EAGAIN).
ReadTakes(c) ==
  /\ Reading(c)
  /\ LET k == Refers(fdOf[c]) IN
       /\ k \in Conn
       /\ HasHead(c, k)
       /\ \E w \in Wanted(c) :
            LET got == IF w < unread[k] THEN w ELSE unread[k] IN
              /\ got = w \/ k \notin fin
              /\ unread' = [unread EXCEPT ![k] = @ - got]
              /\ need' = [need EXCEPT ![c] = w - got]
  /\ Keep(c)

CheckDone ==
  /\ Goto("scan", "loop")
  /\ todo = {}
  /\ ready' = {}
  /\ UNCHANGED <<netVars, acceptVars, lockVars, listVars, shutdown, pos, fdOf, older, struck>>

-----------------------------------------------------------------------------
(* The end.                                                                *)

\* SIGINT; a poll(2) it interrupts fails with EINTR, whatever SA_RESTART says,
\* and the exception leaves the loop.
Interrupt ==
  /\ ~shutdown
  /\ mpc \notin {"exit", "done"}
  /\ shutdown' = TRUE
  /\ mpc' \in IF mpc \in {"netpoll", "poll"} THEN {mpc, "exit"} ELSE {mpc}
  /\ UNCHANGED <<netVars, acceptVars, lockVars, listVars, pos, ready, fdOf, older, struck>>

\* Thread::kill_all(); return.
Exit ==
  /\ Goto("exit", "done")
  /\ apc' = "killed"
  /\ UNCHANGED <<netVars, held, lockVars, listVars, shutdown, pos, ready, fdOf, older, struck>>

\* The process is gone.
Done == mpc = "done" /\ UNCHANGED vars

-----------------------------------------------------------------------------
Init ==
  /\ net = [c \in Conn |-> "idle"]
  /\ backlog = <<>>
  /\ unread = [c \in Conn |-> 0]
  /\ fin = {}
  /\ kfd = [n \in Fd |-> IF n \in OwnFds THEN Own ELSE None]
  /\ apc = "unborn" /\ held = None
  /\ owner = "none" /\ incoming = <<>>
  /\ mpc = "open" /\ shutdown = FALSE /\ pos = 0
  /\ clients = {} /\ todo = {} /\ ready = {} /\ dead = {}
  /\ fdOf = [c \in Conn |-> -1]
  /\ need = [c \in Conn |-> 0]
  /\ older = [c \in Conn |-> {}]
  /\ struck = FALSE

Peer(c) == PeerConnect(c) \/ PeerSend(c) \/ PeerClose(c) \/ PeerReset(c)

Visit(c) ==
  DropDead(c) \/ SkipClient(c) \/ ReadThrows(c) \/ ReadWaits(c) \/ ReadTakes(c)

ServerOpen == Open \/ Spawn \/ OpenWait \/ OpenDone

CheckIncoming == LockIncoming \/ AddConnection \/ AddDone \/ ClearIncoming \/ UnlockIncoming

CheckClients == Poll \/ (\E c \in Conn : Visit(c)) \/ CheckDone

MainThread == ServerOpen \/ Loop \/ NetPoll \/ CheckIncoming \/ CheckClients \/ Exit

Next == (\E c \in Conn : Peer(c)) \/ AcceptThread \/ MainThread \/ Interrupt \/ Done

Spec == Init /\ [][Next]_vars

\* Both threads run.  The accept thread gets the mutex in the end although the
\* main thread takes it in every turn of its loop: that turn spends two poll(2)
\* calls outside of it.  Peers and signals owe nothing.
Fairness ==
  /\ WF_vars(MainThread)
  /\ WF_vars(AcceptThread)
  /\ SF_vars(AcceptLock)

FairSpec == Spec /\ Fairness

-----------------------------------------------------------------------------
(* Properties.                                                             *)

\* The positions of incoming that check_incoming has not passed.
Waiting == pos + 1 .. Len(incoming)

\* The connections that are between accept(2) and add_connection.
Pending == {incoming[i] : i \in Waiting} \cup ({held} \ {None})

TypeOK ==
  /\ net \in [Conn -> {"idle", "backlog", "open", "closed"}]
  /\ backlog \in Seq(Conn)
  /\ unread \in [Conn -> Nat]
  /\ fin \subseteq Conn
  /\ kfd \in [Fd -> Conn \cup {None, Own}]
  /\ apc \in {"unborn", "start", "accept", "lock", "push", "unlock", "killed"}
  /\ held \in Conn \cup {None}
  /\ owner \in {"main", "accept", "none"}
  /\ incoming \in Seq(Conn)
  /\ mpc \in {"open", "spawn", "wait", "started", "loop", "netpoll", "lock", "add",
              "clear", "unlock", "poll", "scan", "exit", "done"}
  /\ shutdown \in BOOLEAN
  /\ pos \in 0 .. Len(incoming)
  /\ clients \subseteq Conn /\ todo \subseteq clients /\ dead \subseteq clients
  /\ ready \subseteq Fd
  /\ fdOf \in [Conn -> Fd \cup {-1}]
  /\ need \in [Conn -> Nat]
  /\ older \in [Conn -> SUBSET Conn]
  /\ struck \in BOOLEAN

\* The mutex keeps the two threads off `incoming` at the same time, although
\* open() locks it in one thread to have the other unlock it (server.cc:57, 85-90).
MutualExclusion ==
  ~ (apc \in {"push", "unlock"} /\ mpc \in {"started", "add", "clear", "unlock"})

\* open() does not return before the accept thread runs (server.cc:89, "wait
\* for accept_thread to get going").
Handshake ==
  mpc \notin {"open", "spawn", "wait"} => apc \notin {"unborn", "start"}

\* Every Client object whose connection is open is in exactly one place: the
\* accept thread's hands, once in the queue, or the list.  Nobody leaks it
\* (clear() after a push that check_incoming did not see) and nobody deletes it
\* twice.
OneHolder ==
  /\ \A c \in Conn : net[c] = "open" => c \in clients \cup Pending
  /\ clients \cap Pending = {}
  /\ \A i, j \in Waiting : incoming[i] = incoming[j] => i = j
  /\ \A i \in Waiting : incoming[i] # held

\* "honor the most recent connection" (server.cc:119-126): of two clients with
\* one address the one accepted first is marked dead, whatever order the two
\* threads ran in.
HonorsMostRecent ==
  \A c, d \in clients :
    IpOf[c] = IpOf[d] /\ c \in older[d] => c \in dead

\* The other direction: a client is marked dead only because a connection
\* accepted after it from its address has reached the list.
DeadIsSuperseded ==
  \A c \in dead : \E d \in Accepted \ Pending : IpOf[d] = IpOf[c] /\ c \in older[d]

\* The descriptor of every Client object refers to its own connection
\* (socket.hh:30, "valid if opened()"): no two clients share one, none was closed
\* behind the back of its owner.
OwnDescriptor == \A c \in clients \cup Pending : Refers(fdOf[c]) = c

\* Nothing but a failed accept that closes a connection's descriptor (server.cc:65) makes
\* it otherwise, not the failed accepts that close nothing or a descriptor of the
\* process, and not the reuse of descriptors by the two threads.
DescriptorsStand == struck \/ OwnDescriptor

\* A client leaves the list only if it was superseded, its peer ended the connection, or
\* the connection had been closed behind its back (check_clients' CATCH is reached by
\* nothing else).
NoHealthyDrop ==
  [][\A c \in clients : c \notin clients' => c \in dead \cup fin \/ net[c] = "closed"]_vars

\* The server implements the registry of one connection per address.
Reg == INSTANCE Registry WITH registry <- clients \ dead,
                              admitted <- Accepted \ Pending

RefinesRegistry == Reg!RegistrySpec

Stopped == mpc = "done"

\* The peer closed after one to three bytes of a header.
HalfHead(c) == need[c] = 0 /\ unread[c] \in 1 .. HeadSize - 1

\* A client whose peer closed or reset the connection is removed in the end,
\* unless the stream ends inside a header (client.cc:66-73).
ClosedIsRemoved ==
  \A c \in Conn : c \in clients /\ c \in fin ~> c \notin clients \/ HalfHead(c) \/ Stopped

\* The same with no exception, as Server::test has it (server.cc:187-188: after
\* c.close(), check_clients() leaves no client).
EveryClosedIsRemoved ==
  \A c \in Conn : c \in clients /\ c \in fin ~> c \notin clients \/ Stopped

\* A superseded client does not linger.
DeadIsRemoved == \A c \in Conn : c \in dead ~> c \notin clients \/ Stopped

\* A connection in the backlog is accepted, also when the descriptors ran out for
\* a while: the accept thread survives the failure and tries again
\* (server.cc:64-68), so that only a table that stays full leaves it waiting.
BacklogIsAccepted ==
  \A c \in Conn :
    net[c] = "backlog" ~> (net[c] # "backlog" \/ [](Free = {}) \/ Stopped)

\* An accepted connection reaches the list, however often the main thread takes
\* the mutex first.
PendingIsAdmitted == \A c \in Conn : c \in Pending ~> c \in clients \/ Stopped

\* SIGINT ends the program from any place, the start-up handshake included.
InterruptStops == shutdown ~> Stopped
=============================================================================

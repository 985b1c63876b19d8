---------------------------- MODULE ServerProofs ----------------------------
(***************************************************************************)
(* Proofs about Server for every set of connections, every address table,  *)
(* every descriptor table and every initial value of Client::fd.           *)
(***************************************************************************)
EXTENDS Server, SequenceTheorems, TLAPS

-----------------------------------------------------------------------------
(* The inductive invariant.                                                *)

\* Who holds the mutex of `incoming`, and the start-up handshake.
LockInv ==
  /\ apc \in {"push", "unlock"} => owner = "accept"
  /\ mpc \in {"spawn", "started", "add", "clear", "unlock"} => owner = "main"
  /\ mpc \in {"open", "spawn"} <=> apc = "unborn"
  /\ apc = "start" => mpc = "wait" /\ owner = "main"
  /\ apc = "killed" => mpc = "done"

\* The accept thread holds a Client between accept(2) and push_back, and
\* check_incoming's iterator rests at the front outside of the loop.
PlaceInv ==
  /\ apc \in {"lock", "push"} => held # None
  /\ apc \in {"unborn", "start", "accept", "unlock"} => held = None
  /\ pos # 0 => mpc \in {"add", "clear"}
  /\ mpc = "clear" => pos = Len(incoming)

\* A descriptor refers to an open connection, and no two to the same one.
KernelInv ==
  /\ \A n \in Fd : kfd[n] \in Conn => net[kfd[n]] = "open"
  /\ \A m, n \in Fd : kfd[m] \in Conn /\ kfd[m] = kfd[n] => m = n
  /\ \A i \in 1 .. Len(backlog) : net[backlog[i]] = "backlog"
  /\ \A i, j \in 1 .. Len(backlog) : backlog[i] = backlog[j] => i = j

\* Every Client object is an accepted connection in one place only.
HolderInv ==
  /\ clients \cup Pending \subseteq Accepted
  /\ clients \cap Pending = {}
  /\ \A i, j \in Waiting : incoming[i] = incoming[j] => i = j
  /\ \A i \in Waiting : incoming[i] # held

\* `older` is the order of the accepts, and the lists respect it.
OrderInv ==
  /\ \A c \in Conn : older[c] \subseteq Accepted
  /\ \A c \in Conn : c \notin Accepted => older[c] = {}
  /\ \A c, d \in Accepted : c # d => c \in older[d] \/ d \in older[c]
  /\ \A c, d \in Conn : c \in older[d] => d \notin older[c]
  /\ \A c \in clients, d \in Pending : c \in older[d]
  /\ \A i, j \in Waiting : i < j => incoming[i] \in older[incoming[j]]
  /\ held # None => \A i \in Waiting : incoming[i] \in older[held]

IInv ==
  /\ TypeOK
  /\ LockInv
  /\ PlaceInv
  /\ KernelInv
  /\ HolderInv
  /\ OrderInv
  /\ HonorsMostRecent
  /\ DeadIsSuperseded

-----------------------------------------------------------------------------
(* Types, the mutex and the places.                                        *)

\* Every step keeps the types.
LEMMA TypeNext == TypeOK /\ PlaceInv /\ [Next]_vars => TypeOK'
<1> SUFFICES ASSUME TypeOK, PlaceInv, [Next]_vars PROVE TypeOK'
  OBVIOUS
<1> USE ServerAssumption DEF Fd
<1>1. ASSUME NEW c \in Conn, PeerConnect(c) PROVE TypeOK'
  BY <1>1 DEF PeerConnect, TypeOK, acceptVars, lockVars, listVars, mainVars
<1>2. ASSUME NEW c \in Conn, PeerSend(c) PROVE TypeOK'
  BY <1>2 DEF PeerSend, Live, TypeOK, acceptVars, lockVars, listVars, mainVars
<1>3. ASSUME NEW c \in Conn, PeerClose(c) PROVE TypeOK'
  BY <1>3 DEF PeerClose, Live, TypeOK, acceptVars, lockVars, listVars, mainVars
<1>4. ASSUME NEW c \in Conn, PeerReset(c) PROVE TypeOK'
  BY <1>4, SMTT(30) DEF PeerReset, Live, TypeOK, acceptVars, lockVars, listVars, mainVars
<1>5. ASSUME AcceptStart PROVE TypeOK'
  BY <1>5 DEF AcceptStart, TypeOK, netVars, listVars, mainVars
<1>6. ASSUME Accept PROVE TypeOK'
  <2>1. Head(backlog) \in Conn /\ Tail(backlog) \in Seq(Conn)
    BY <1>6, HeadTailProperties DEF Accept, TypeOK
  <2>. QED
    BY <1>6, <2>1 DEF Accept, Free, Accepted, TypeOK, lockVars, listVars, mainVars
<1>7. ASSUME AcceptFail PROVE TypeOK'
  BY <1>7 DEF AcceptFail, CloseFd, Refers, TypeOK, acceptVars, lockVars, listVars, mainVars
<1>8. ASSUME AcceptLock PROVE TypeOK'
  BY <1>8 DEF AcceptLock, TypeOK, netVars, listVars, mainVars
<1>9. ASSUME PushBack PROVE TypeOK'
  <2>1. held \in Conn
    BY <1>9 DEF PushBack, PlaceInv, TypeOK
  <2>2. /\ Append(incoming, held) \in Seq(Conn)
        /\ Len(Append(incoming, held)) = Len(incoming) + 1
    BY <2>1, AppendProperties DEF TypeOK
  <2>3. pos \in 0 .. Len(incoming) + 1
    BY LenProperties DEF TypeOK
  <2>. QED
    BY <1>9, <2>1, <2>2, <2>3 DEF PushBack, TypeOK, netVars, listVars, mainVars
<1>10. ASSUME AcceptUnlock PROVE TypeOK'
  BY <1>10 DEF AcceptUnlock, TypeOK, netVars, listVars, mainVars
<1>11. ASSUME Open PROVE TypeOK'
  BY <1>11 DEF Open, Goto, TypeOK, netVars, acceptVars, listVars
<1>12. ASSUME Spawn PROVE TypeOK'
  BY <1>12 DEF Spawn, Goto, TypeOK, netVars, lockVars, listVars
<1>13. ASSUME OpenWait PROVE TypeOK'
  BY <1>13 DEF OpenWait, Goto, TypeOK, netVars, acceptVars, listVars
<1>14. ASSUME OpenDone PROVE TypeOK'
  BY <1>14 DEF OpenDone, Goto, TypeOK, netVars, acceptVars, listVars
<1>15. ASSUME Loop PROVE TypeOK'
  BY <1>15 DEF Loop, TypeOK, netVars, acceptVars, lockVars, listVars
<1>16. ASSUME NetPoll PROVE TypeOK'
  BY <1>16 DEF NetPoll, Goto, TypeOK, netVars, acceptVars, lockVars, listVars
<1>17. ASSUME LockIncoming PROVE TypeOK'
  BY <1>17 DEF LockIncoming, Goto, TypeOK, netVars, acceptVars, listVars
<1>18. ASSUME AddConnection PROVE TypeOK'
  BY <1>18 DEF AddConnection, SameIp, TypeOK, netVars, acceptVars, lockVars
<1>19. ASSUME AddDone PROVE TypeOK'
  BY <1>19 DEF AddDone, Goto, TypeOK, netVars, acceptVars, lockVars, listVars
<1>20. ASSUME ClearIncoming PROVE TypeOK'
  BY <1>20 DEF ClearIncoming, Goto, TypeOK, netVars, acceptVars, listVars
<1>21. ASSUME UnlockIncoming PROVE TypeOK'
  BY <1>21 DEF UnlockIncoming, Goto, TypeOK, netVars, acceptVars, listVars
<1>22. ASSUME Poll PROVE TypeOK'
  BY <1>22 DEF Poll, Goto, Readable, Refers, TypeOK, netVars, acceptVars, lockVars
<1>23. ASSUME NEW c \in Conn, DropDead(c) PROVE TypeOK'
  BY <1>23 DEF DropDead, Visiting, RemoveConnection, CloseFd, Refers, TypeOK, acceptVars,
         lockVars, mainVars
<1>24. ASSUME NEW c \in Conn, SkipClient(c) PROVE TypeOK'
  BY <1>24 DEF SkipClient, Visiting, Keep, TypeOK, acceptVars, lockVars, mainVars
<1>25. ASSUME NEW c \in Conn, ReadThrows(c) PROVE TypeOK'
  BY <1>25 DEF ReadThrows, Reading, Visiting, RemoveConnection, CloseFd, Refers, TypeOK,
         acceptVars, lockVars, mainVars
<1>26. ASSUME NEW c \in Conn, ReadWaits(c) PROVE TypeOK'
  BY <1>26 DEF ReadWaits, Reading, Visiting, Keep, TypeOK, acceptVars, lockVars, mainVars
<1>27. ASSUME NEW c \in Conn, ReadTakes(c) PROVE TypeOK'
  <2>1. Wanted(c) \subseteq Nat
    BY DEF TypeOK, Wanted
  <2>2. unread' \in [Conn -> Nat] /\ need' \in [Conn -> Nat]
    <3>1. DEFINE k == Refers(fdOf[c])
    <3>2. PICK w \in Wanted(c) :
            LET got == IF w < unread[k] THEN w ELSE unread[k] IN
              /\ unread' = [unread EXCEPT ![k] = @ - got]
              /\ need' = [need EXCEPT ![c] = w - got]
      BY <1>27 DEF ReadTakes
    <3>3. k \in Conn
      BY <1>27 DEF ReadTakes
    <3> HIDE DEF k
    <3>4. PICK got : got = IF w < unread[k] THEN w ELSE unread[k]
      OBVIOUS
    <3>5. got \in Nat /\ unread[k] - got \in Nat /\ w - got \in Nat
      BY <2>1, <3>3, <3>4 DEF TypeOK
    <3>. QED
      BY <3>2, <3>4, <3>5 DEF TypeOK
  <2>. QED
    BY <1>27, <2>2 DEF ReadTakes, Reading, Visiting, Keep, TypeOK, acceptVars, lockVars,
           mainVars
<1>28. ASSUME CheckDone PROVE TypeOK'
  BY <1>28 DEF CheckDone, Goto, TypeOK, netVars, acceptVars, lockVars, listVars
<1>29. ASSUME Exit PROVE TypeOK'
  BY <1>29 DEF Exit, Goto, TypeOK, netVars, lockVars, listVars
<1>30. ASSUME Interrupt PROVE TypeOK'
  BY <1>30 DEF Interrupt, TypeOK, netVars, acceptVars, lockVars, listVars
<1>31. ASSUME Done PROVE TypeOK'
  BY <1>31 DEF Done, vars, TypeOK, netVars, acceptVars, lockVars, listVars, mainVars
<1>32. CASE UNCHANGED vars
  BY <1>32 DEF TypeOK, netVars, acceptVars, lockVars, listVars, mainVars, vars
<1>. QED
  BY <1>1, <1>2, <1>3, <1>4, <1>5, <1>6, <1>7, <1>8, <1>9, <1>10, <1>11, <1>12, <1>13,
     <1>14, <1>15, <1>16, <1>17, <1>18, <1>19, <1>20, <1>21, <1>22, <1>23, <1>24, <1>25,
     <1>26, <1>27, <1>28, <1>29, <1>30, <1>31, <1>32
  DEF Next, Peer, AcceptThread, MainThread, ServerOpen, CheckIncoming, CheckClients, Visit

\* Every step keeps the mutex's state in line with where the threads are.
LEMMA LockNext == TypeOK /\ LockInv /\ [Next]_vars => LockInv'
<1> SUFFICES ASSUME TypeOK, LockInv, [Next]_vars PROVE LockInv'
  OBVIOUS
<1> USE DEF TypeOK
<1>1. ASSUME NEW c \in Conn, PeerConnect(c) PROVE LockInv'
  BY <1>1 DEF PeerConnect, LockInv, acceptVars, lockVars, listVars, mainVars
<1>2. ASSUME NEW c \in Conn, PeerSend(c) PROVE LockInv'
  BY <1>2 DEF PeerSend, Live, LockInv, acceptVars, lockVars, listVars, mainVars
<1>3. ASSUME NEW c \in Conn, PeerClose(c) PROVE LockInv'
  BY <1>3 DEF PeerClose, Live, LockInv, acceptVars, lockVars, listVars, mainVars
<1>4. ASSUME NEW c \in Conn, PeerReset(c) PROVE LockInv'
  BY <1>4 DEF PeerReset, Live, LockInv, acceptVars, lockVars, listVars, mainVars
<1>5. ASSUME AcceptStart PROVE LockInv'
  BY <1>5 DEF AcceptStart, LockInv, netVars, listVars, mainVars
<1>6. ASSUME Accept PROVE LockInv'
  BY <1>6 DEF Accept, Free, Accepted, LockInv, lockVars, listVars, mainVars
<1>7. ASSUME AcceptFail PROVE LockInv'
  BY <1>7 DEF AcceptFail, CloseFd, Refers, LockInv, acceptVars, lockVars, listVars, mainVars
<1>8. ASSUME AcceptLock PROVE LockInv'
  BY <1>8 DEF AcceptLock, LockInv, netVars, listVars, mainVars
<1>9. ASSUME PushBack PROVE LockInv'
  BY <1>9 DEF PushBack, LockInv, netVars, listVars, mainVars
<1>10. ASSUME AcceptUnlock PROVE LockInv'
  BY <1>10 DEF AcceptUnlock, LockInv, netVars, listVars, mainVars
<1>11. ASSUME Open PROVE LockInv'
  BY <1>11 DEF Open, Goto, LockInv, netVars, acceptVars, listVars
<1>12. ASSUME Spawn PROVE LockInv'
  BY <1>12 DEF Spawn, Goto, LockInv, netVars, lockVars, listVars
<1>13. ASSUME OpenWait PROVE LockInv'
  BY <1>13 DEF OpenWait, Goto, LockInv, netVars, acceptVars, listVars
<1>14. ASSUME OpenDone PROVE LockInv'
  BY <1>14 DEF OpenDone, Goto, LockInv, netVars, acceptVars, listVars
<1>15. ASSUME Loop PROVE LockInv'
  BY <1>15 DEF Loop, LockInv, netVars, acceptVars, lockVars, listVars
<1>16. ASSUME NetPoll PROVE LockInv'
  BY <1>16 DEF NetPoll, Goto, LockInv, netVars, acceptVars, lockVars, listVars
<1>17. ASSUME LockIncoming PROVE LockInv'
  BY <1>17 DEF LockIncoming, Goto, LockInv, netVars, acceptVars, listVars
<1>18. ASSUME AddConnection PROVE LockInv'
  BY <1>18 DEF AddConnection, SameIp, LockInv, netVars, acceptVars, lockVars
<1>19. ASSUME AddDone PROVE LockInv'
  BY <1>19 DEF AddDone, Goto, LockInv, netVars, acceptVars, lockVars, listVars
<1>20. ASSUME ClearIncoming PROVE LockInv'
  BY <1>20 DEF ClearIncoming, Goto, LockInv, netVars, acceptVars, listVars
<1>21. ASSUME UnlockIncoming PROVE LockInv'
  BY <1>21 DEF UnlockIncoming, Goto, LockInv, netVars, acceptVars, listVars
<1>22. ASSUME Poll PROVE LockInv'
  BY <1>22 DEF Poll, Goto, Readable, Refers, LockInv, netVars, acceptVars, lockVars
<1>23. ASSUME NEW c \in Conn, DropDead(c) PROVE LockInv'
  BY <1>23 DEF DropDead, Visiting, RemoveConnection, CloseFd, Refers, LockInv, acceptVars,
         lockVars, mainVars
<1>24. ASSUME NEW c \in Conn, SkipClient(c) PROVE LockInv'
  BY <1>24 DEF SkipClient, Visiting, Keep, LockInv, acceptVars, lockVars, mainVars
<1>25. ASSUME NEW c \in Conn, ReadThrows(c) PROVE LockInv'
  BY <1>25 DEF ReadThrows, Reading, Visiting, RemoveConnection, CloseFd, Refers, LockInv,
         acceptVars, lockVars, mainVars
<1>26. ASSUME NEW c \in Conn, ReadWaits(c) PROVE LockInv'
  BY <1>26 DEF ReadWaits, Reading, Visiting, Keep, LockInv, acceptVars, lockVars, mainVars
<1>27. ASSUME NEW c \in Conn, ReadTakes(c) PROVE LockInv'
  BY <1>27 DEF ReadTakes, Reading, Visiting, Keep, Wanted, HasHead, Refers, LockInv,
         acceptVars, lockVars, mainVars
<1>28. ASSUME CheckDone PROVE LockInv'
  BY <1>28 DEF CheckDone, Goto, LockInv, netVars, acceptVars, lockVars, listVars
<1>29. ASSUME Exit PROVE LockInv'
  BY <1>29 DEF Exit, Goto, LockInv, netVars, lockVars, listVars
<1>30. ASSUME Interrupt PROVE LockInv'
  BY <1>30 DEF Interrupt, LockInv, netVars, acceptVars, lockVars, listVars
<1>31. ASSUME Done PROVE LockInv'
  BY <1>31 DEF Done, vars, LockInv, netVars, acceptVars, lockVars, listVars, mainVars
<1>32. CASE UNCHANGED vars
  BY <1>32 DEF LockInv, netVars, acceptVars, lockVars, listVars, mainVars, vars
<1>. QED
  BY <1>1, <1>2, <1>3, <1>4, <1>5, <1>6, <1>7, <1>8, <1>9, <1>10, <1>11, <1>12, <1>13,
     <1>14, <1>15, <1>16, <1>17, <1>18, <1>19, <1>20, <1>21, <1>22, <1>23, <1>24, <1>25,
     <1>26, <1>27, <1>28, <1>29, <1>30, <1>31, <1>32
  DEF Next, Peer, AcceptThread, MainThread, ServerOpen, CheckIncoming, CheckClients, Visit

\* Every step keeps the accept thread's object and the iterator where they belong.
LEMMA PlaceNext == TypeOK /\ LockInv /\ PlaceInv /\ [Next]_vars => PlaceInv'
<1> SUFFICES ASSUME TypeOK, LockInv, PlaceInv, [Next]_vars PROVE PlaceInv'
  OBVIOUS
<1> USE ServerAssumption
<1>1. ASSUME NEW c \in Conn, PeerConnect(c) PROVE PlaceInv'
  BY <1>1 DEF PeerConnect, PlaceInv, acceptVars, lockVars, listVars, mainVars
<1>2. ASSUME NEW c \in Conn, PeerSend(c) PROVE PlaceInv'
  BY <1>2 DEF PeerSend, Live, PlaceInv, acceptVars, lockVars, listVars, mainVars
<1>3. ASSUME NEW c \in Conn, PeerClose(c) PROVE PlaceInv'
  BY <1>3 DEF PeerClose, Live, PlaceInv, acceptVars, lockVars, listVars, mainVars
<1>4. ASSUME NEW c \in Conn, PeerReset(c) PROVE PlaceInv'
  BY <1>4 DEF PeerReset, Live, PlaceInv, acceptVars, lockVars, listVars, mainVars
<1>5. ASSUME AcceptStart PROVE PlaceInv'
  BY <1>5 DEF AcceptStart, PlaceInv, netVars, listVars, mainVars
<1>6. ASSUME Accept PROVE PlaceInv'
  BY <1>6, HeadTailProperties DEF Accept, PlaceInv, LockInv, TypeOK, lockVars, listVars,
         mainVars
<1>7. ASSUME AcceptFail PROVE PlaceInv'
  BY <1>7 DEF AcceptFail, CloseFd, Refers, PlaceInv, acceptVars, lockVars, listVars,
         mainVars
<1>8. ASSUME AcceptLock PROVE PlaceInv'
  BY <1>8 DEF AcceptLock, PlaceInv, netVars, listVars, mainVars
<1>9. ASSUME PushBack PROVE PlaceInv'
  <2>1. Len(incoming') = Len(incoming) + 1
    BY <1>9, AppendProperties DEF PushBack, PlaceInv, TypeOK
  <2>. QED
    BY <1>9, <2>1 DEF PushBack, PlaceInv, LockInv, TypeOK, netVars, listVars, mainVars
<1>10. ASSUME AcceptUnlock PROVE PlaceInv'
  BY <1>10 DEF AcceptUnlock, PlaceInv, netVars, listVars, mainVars
<1>11. ASSUME Open PROVE PlaceInv'
  BY <1>11 DEF Open, Goto, PlaceInv, netVars, acceptVars, listVars
<1>12. ASSUME Spawn PROVE PlaceInv'
  BY <1>12 DEF Spawn, Goto, PlaceInv, LockInv, netVars, lockVars, listVars
<1>13. ASSUME OpenWait PROVE PlaceInv'
  BY <1>13 DEF OpenWait, Goto, PlaceInv, netVars, acceptVars, listVars
<1>14. ASSUME OpenDone PROVE PlaceInv'
  BY <1>14 DEF OpenDone, Goto, PlaceInv, netVars, acceptVars, listVars
<1>15. ASSUME Loop PROVE PlaceInv'
  BY <1>15 DEF Loop, PlaceInv, netVars, acceptVars, lockVars, listVars
<1>16. ASSUME NetPoll PROVE PlaceInv'
  BY <1>16 DEF NetPoll, Goto, PlaceInv, netVars, acceptVars, lockVars, listVars
<1>17. ASSUME LockIncoming PROVE PlaceInv'
  BY <1>17 DEF LockIncoming, Goto, PlaceInv, netVars, acceptVars, listVars
<1>18. ASSUME AddConnection PROVE PlaceInv'
  BY <1>18 DEF AddConnection, SameIp, PlaceInv, netVars, acceptVars, lockVars
<1>19. ASSUME AddDone PROVE PlaceInv'
  BY <1>19, LenProperties DEF AddDone, Goto, PlaceInv, TypeOK, netVars, acceptVars,
         lockVars, listVars
<1>20. ASSUME ClearIncoming PROVE PlaceInv'
  BY <1>20 DEF ClearIncoming, Goto, PlaceInv, netVars, acceptVars, listVars
<1>21. ASSUME UnlockIncoming PROVE PlaceInv'
  BY <1>21 DEF UnlockIncoming, Goto, PlaceInv, netVars, acceptVars, listVars
<1>22. ASSUME Poll PROVE PlaceInv'
  BY <1>22 DEF Poll, Goto, Readable, Refers, PlaceInv, netVars, acceptVars, lockVars
<1>23. ASSUME NEW c \in Conn, DropDead(c) PROVE PlaceInv'
  BY <1>23 DEF DropDead, Visiting, RemoveConnection, CloseFd, Refers, PlaceInv,
         acceptVars, lockVars, mainVars
<1>24. ASSUME NEW c \in Conn, SkipClient(c) PROVE PlaceInv'
  BY <1>24 DEF SkipClient, Visiting, Keep, PlaceInv, acceptVars, lockVars, mainVars
<1>25. ASSUME NEW c \in Conn, ReadThrows(c) PROVE PlaceInv'
  BY <1>25 DEF ReadThrows, Reading, Visiting, RemoveConnection, CloseFd, Refers, PlaceInv,
         acceptVars, lockVars, mainVars
<1>26. ASSUME NEW c \in Conn, ReadWaits(c) PROVE PlaceInv'
  BY <1>26 DEF ReadWaits, Reading, Visiting, Keep, PlaceInv, acceptVars, lockVars, mainVars
<1>27. ASSUME NEW c \in Conn, ReadTakes(c) PROVE PlaceInv'
  BY <1>27 DEF ReadTakes, Reading, Visiting, Keep, Wanted, HasHead, Refers, PlaceInv,
         acceptVars, lockVars, mainVars
<1>28. ASSUME CheckDone PROVE PlaceInv'
  BY <1>28 DEF CheckDone, Goto, PlaceInv, netVars, acceptVars, lockVars, listVars
<1>29. ASSUME Exit PROVE PlaceInv'
  BY <1>29 DEF Exit, Goto, PlaceInv, netVars, lockVars, listVars
<1>30. ASSUME Interrupt PROVE PlaceInv'
  BY <1>30 DEF Interrupt, PlaceInv, netVars, acceptVars, lockVars, listVars
<1>31. ASSUME Done PROVE PlaceInv'
  BY <1>31 DEF Done, vars, PlaceInv, netVars, acceptVars, lockVars, listVars, mainVars
<1>32. CASE UNCHANGED vars
  BY <1>32 DEF PlaceInv, netVars, acceptVars, lockVars, listVars, mainVars, vars
<1>. QED
  BY <1>1, <1>2, <1>3, <1>4, <1>5, <1>6, <1>7, <1>8, <1>9, <1>10, <1>11, <1>12, <1>13,
     <1>14, <1>15, <1>16, <1>17, <1>18, <1>19, <1>20, <1>21, <1>22, <1>23, <1>24, <1>25,
     <1>26, <1>27, <1>28, <1>29, <1>30, <1>31, <1>32
  DEF Next, Peer, AcceptThread, MainThread, ServerOpen, CheckIncoming, CheckClients, Visit

\* Every step keeps the descriptor table and the backlog free of duplicates.
LEMMA KernelNext == TypeOK /\ KernelInv /\ [Next]_vars => KernelInv'
<1> SUFFICES ASSUME TypeOK, KernelInv, [Next]_vars PROVE KernelInv'
  OBVIOUS
<1> USE ServerAssumption DEF TypeOK
<1>1. ASSUME NEW c \in Conn, PeerConnect(c) PROVE KernelInv'
  <2>1. /\ Len(backlog') = Len(backlog) + 1
        /\ \A i \in 1 .. Len(backlog) : backlog'[i] = backlog[i]
        /\ backlog'[Len(backlog) + 1] = c
    BY <1>1, AppendProperties DEF PeerConnect
  <2>2. Len(backlog) \in Nat /\ \A i \in 1 .. Len(backlog) : backlog[i] \in Conn
    BY LenProperties, ElementOfSeq
  <2>3. c \notin {kfd[n] : n \in Fd} /\ net' = [net EXCEPT ![c] = "backlog"] /\ kfd' = kfd
    BY <1>1 DEF PeerConnect, KernelInv
  <2>4. \A i \in 1 .. Len(backlog) : backlog[i] # c
    BY <1>1 DEF PeerConnect, KernelInv
  <2>5. 1 .. Len(backlog') = 1 .. Len(backlog) \cup {Len(backlog) + 1}
    BY <2>1, <2>2
  <2>6. \A n \in Fd : kfd'[n] \in Conn => net'[kfd'[n]] = "open"
    BY <2>3 DEF KernelInv
  <2>7. \A i \in 1 .. Len(backlog') : net'[backlog'[i]] = "backlog"
    BY <2>1, <2>2, <2>3, <2>4, <2>5 DEF KernelInv
  <2>8. \A i, j \in 1 .. Len(backlog') : backlog'[i] = backlog'[j] => i = j
    <3>1. TAKE i, j \in 1 .. Len(backlog')
    <3>2. HAVE backlog'[i] = backlog'[j]
    <3>3. CASE i \in 1 .. Len(backlog) /\ j \in 1 .. Len(backlog)
      BY <2>1, <3>2, <3>3 DEF KernelInv
    <3>4. CASE i = Len(backlog) + 1 /\ j # Len(backlog) + 1
      BY <2>1, <2>4, <2>5, <3>2, <3>4
    <3>5. CASE j = Len(backlog) + 1 /\ i # Len(backlog) + 1
      BY <2>1, <2>4, <2>5, <3>2, <3>5
    <3>. QED
      BY <2>5, <3>3, <3>4, <3>5
  <2>. QED
    BY <2>3, <2>6, <2>7, <2>8 DEF KernelInv
<1>2. ASSUME NEW c \in Conn, PeerSend(c) PROVE KernelInv'
  BY <1>2 DEF PeerSend, Live, KernelInv, acceptVars, lockVars, listVars, mainVars
<1>3. ASSUME NEW c \in Conn, PeerClose(c) PROVE KernelInv'
  BY <1>3 DEF PeerClose, Live, KernelInv, acceptVars, lockVars, listVars, mainVars
<1>4. ASSUME NEW c \in Conn, PeerReset(c) PROVE KernelInv'
  BY <1>4 DEF PeerReset, Live, KernelInv, acceptVars, lockVars, listVars, mainVars
<1>5. ASSUME AcceptStart PROVE KernelInv'
  BY <1>5 DEF AcceptStart, KernelInv, netVars, listVars, mainVars
<1>6. ASSUME Accept PROVE KernelInv'
  BY <1>6, SMTT(30) DEF Accept, Free, Accepted, KernelInv, lockVars, listVars, mainVars
<1>7. ASSUME AcceptFail PROVE KernelInv'
  BY <1>7 DEF AcceptFail, CloseFd, Refers, KernelInv, acceptVars, lockVars, listVars,
         mainVars
<1>8. ASSUME AcceptLock PROVE KernelInv'
  BY <1>8 DEF AcceptLock, KernelInv, netVars, listVars, mainVars
<1>9. ASSUME PushBack PROVE KernelInv'
  BY <1>9 DEF PushBack, KernelInv, netVars, listVars, mainVars
<1>10. ASSUME AcceptUnlock PROVE KernelInv'
  BY <1>10 DEF AcceptUnlock, KernelInv, netVars, listVars, mainVars
<1>11. ASSUME Open PROVE KernelInv'
  BY <1>11 DEF Open, Goto, KernelInv, netVars, acceptVars, listVars
<1>12. ASSUME Spawn PROVE KernelInv'
  BY <1>12 DEF Spawn, Goto, KernelInv, netVars, lockVars, listVars
<1>13. ASSUME OpenWait PROVE KernelInv'
  BY <1>13 DEF OpenWait, Goto, KernelInv, netVars, acceptVars, listVars
<1>14. ASSUME OpenDone PROVE KernelInv'
  BY <1>14 DEF OpenDone, Goto, KernelInv, netVars, acceptVars, listVars
<1>15. ASSUME Loop PROVE KernelInv'
  BY <1>15 DEF Loop, KernelInv, netVars, acceptVars, lockVars, listVars
<1>16. ASSUME NetPoll PROVE KernelInv'
  BY <1>16 DEF NetPoll, Goto, KernelInv, netVars, acceptVars, lockVars, listVars
<1>17. ASSUME LockIncoming PROVE KernelInv'
  BY <1>17 DEF LockIncoming, Goto, KernelInv, netVars, acceptVars, listVars
<1>18. ASSUME AddConnection PROVE KernelInv'
  BY <1>18 DEF AddConnection, SameIp, KernelInv, netVars, acceptVars, lockVars
<1>19. ASSUME AddDone PROVE KernelInv'
  BY <1>19 DEF AddDone, Goto, KernelInv, netVars, acceptVars, lockVars, listVars
<1>20. ASSUME ClearIncoming PROVE KernelInv'
  BY <1>20 DEF ClearIncoming, Goto, KernelInv, netVars, acceptVars, listVars
<1>21. ASSUME UnlockIncoming PROVE KernelInv'
  BY <1>21 DEF UnlockIncoming, Goto, KernelInv, netVars, acceptVars, listVars
<1>22. ASSUME Poll PROVE KernelInv'
  BY <1>22 DEF Poll, Goto, Readable, Refers, KernelInv, netVars, acceptVars, lockVars
<1>23. ASSUME NEW c \in Conn, DropDead(c) PROVE KernelInv'
  BY <1>23 DEF DropDead, Visiting, RemoveConnection, CloseFd, Refers, KernelInv,
         acceptVars, lockVars, mainVars
<1>24. ASSUME NEW c \in Conn, SkipClient(c) PROVE KernelInv'
  BY <1>24 DEF SkipClient, Visiting, Keep, KernelInv, acceptVars, lockVars, mainVars
<1>25. ASSUME NEW c \in Conn, ReadThrows(c) PROVE KernelInv'
  BY <1>25 DEF ReadThrows, Reading, Visiting, RemoveConnection, CloseFd, Refers,
         KernelInv, acceptVars, lockVars, mainVars
<1>26. ASSUME NEW c \in Conn, ReadWaits(c) PROVE KernelInv'
  BY <1>26 DEF ReadWaits, Reading, Visiting, Keep, KernelInv, acceptVars, lockVars, mainVars
<1>27. ASSUME NEW c \in Conn, ReadTakes(c) PROVE KernelInv'
  BY <1>27 DEF ReadTakes, Reading, Visiting, Keep, Wanted, HasHead, Refers, KernelInv,
         acceptVars, lockVars, mainVars
<1>28. ASSUME CheckDone PROVE KernelInv'
  BY <1>28 DEF CheckDone, Goto, KernelInv, netVars, acceptVars, lockVars, listVars
<1>29. ASSUME Exit PROVE KernelInv'
  BY <1>29 DEF Exit, Goto, KernelInv, netVars, lockVars, listVars
<1>30. ASSUME Interrupt PROVE KernelInv'
  BY <1>30 DEF Interrupt, KernelInv, netVars, acceptVars, lockVars, listVars
<1>31. ASSUME Done PROVE KernelInv'
  BY <1>31 DEF Done, vars, KernelInv, netVars, acceptVars, lockVars, listVars, mainVars
<1>32. CASE UNCHANGED vars
  BY <1>32 DEF KernelInv, netVars, acceptVars, lockVars, listVars, mainVars, vars
<1>. QED
  BY <1>1, <1>2, <1>3, <1>4, <1>5, <1>6, <1>7, <1>8, <1>9, <1>10, <1>11, <1>12, <1>13,
     <1>14, <1>15, <1>16, <1>17, <1>18, <1>19, <1>20, <1>21, <1>22, <1>23, <1>24, <1>25,
     <1>26, <1>27, <1>28, <1>29, <1>30, <1>31, <1>32
  DEF Next, Peer, AcceptThread, MainThread, ServerOpen, CheckIncoming, CheckClients, Visit

-----------------------------------------------------------------------------
(* The lists of Client objects.  Only five kinds of step touch them.       *)

Still ==
  /\ UNCHANGED <<incoming, pos, held, clients, dead, older>>
  /\ Accepted' = Accepted

Removal == \E c \in clients : RemoveConnection(c)

\* close(2) ends a connection and never undoes its accept.
LEMMA CloseKeepsAccepted ==
  ASSUME TypeOK, KernelInv, NEW n \in Int, CloseFd(n)
  PROVE  Accepted' = Accepted
BY ServerAssumption DEF TypeOK, KernelInv, CloseFd, Refers, Accepted, Fd

\* A step that is none of those named leaves every list as it is.
LEMMA ListSteps ==
  ASSUME TypeOK, KernelInv, [Next]_vars
  PROVE  \/ Still
         \/ Accept \/ PushBack \/ AddConnection \/ ClearIncoming
         \/ Removal /\ Accepted' = Accepted
<1> USE DEF acceptVars, lockVars, listVars, mainVars
<1>1. ASSUME NEW c \in Conn, Peer(c) PROVE Still
  BY <1>1 DEF Peer, PeerConnect, PeerSend, PeerClose, PeerReset, Live, Still, Accepted,
         TypeOK
<1>2. ASSUME AcceptThread PROVE Still \/ Accept \/ PushBack
  <2>1. ASSUME AcceptFail PROVE Still
    <3>1. PICK g \in HeapFd : CloseFd(g)
      BY <2>1 DEF AcceptFail
    <3>. QED
      BY <2>1, <3>1, CloseKeepsAccepted, ServerAssumption DEF AcceptFail, Still
  <2>. QED
    BY <1>2, <2>1 DEF AcceptThread, AcceptStart, AcceptLock, AcceptUnlock, Still, netVars,
           Accepted
<1>3. ASSUME ServerOpen \/ Loop \/ NetPoll \/ Exit \/ Interrupt \/ Done PROVE Still
  BY <1>3 DEF ServerOpen, Open, Spawn, OpenWait, OpenDone, Loop, NetPoll, Exit, Interrupt,
              Done, vars, Still, netVars, Accepted
<1>4. ASSUME CheckIncoming PROVE Still \/ AddConnection \/ ClearIncoming
  BY <1>4 DEF CheckIncoming, LockIncoming, AddDone, UnlockIncoming, Still, netVars, Accepted
<1>5. ASSUME NEW c \in Conn, Visit(c) PROVE Still \/ (Removal /\ Accepted' = Accepted)
  <2>1. CASE DropDead(c) \/ ReadThrows(c)
    <3>1. RemoveConnection(c) /\ c \in clients
      BY <2>1 DEF DropDead, ReadThrows, Reading, Visiting, TypeOK
    <3>2. fdOf[c] \in Int /\ CloseFd(fdOf[c])
      BY <3>1, ServerAssumption DEF RemoveConnection, TypeOK, Fd
    <3>. QED
      BY <3>1, <3>2, CloseKeepsAccepted DEF Removal
  <2>2. CASE SkipClient(c) \/ ReadWaits(c) \/ ReadTakes(c)
    BY <2>2 DEF SkipClient, ReadWaits, ReadTakes, Keep, Still, Accepted
  <2>. QED
    BY <1>5, <2>1, <2>2 DEF Visit
<1>6. ASSUME Poll \/ CheckDone PROVE Still
  BY <1>6 DEF Poll, CheckDone, Still, netVars, Accepted
<1>7. CASE UNCHANGED vars
  BY <1>7 DEF vars, Still, netVars, Accepted
<1>. QED
  BY <1>1, <1>2, <1>3, <1>4, <1>5, <1>6, <1>7 DEF Next, MainThread, CheckClients

\* A still step changes nothing of what waits.
LEMMA StillPending == Still => Waiting' = Waiting /\ Pending' = Pending
BY DEF Still, Waiting, Pending

\* remove_connection does not touch what is pending.
LEMMA RemovalPending ==
  ASSUME Removal PROVE Waiting' = Waiting /\ Pending' = Pending
BY DEF Removal, RemoveConnection, Waiting, Pending, acceptVars, lockVars, mainVars

\* accept(2) adds one connection, new to everybody, to what is pending.
LEMMA AcceptPending ==
  ASSUME TypeOK, PlaceInv, KernelInv, Accept
  PROVE  /\ held' \in Conn \ Accepted
         /\ older' = [older EXCEPT ![held'] = Accepted]
         /\ Accepted' = Accepted \cup {held'}
         /\ Waiting' = Waiting
         /\ Pending' = Pending \cup {held'}
         /\ held = None
         /\ UNCHANGED <<incoming, pos, clients, dead>>
<1>1. PICK n \in Free :
         LET c == Head(backlog) IN
           /\ net' = [net EXCEPT ![c] = "open"]
           /\ older' = [older EXCEPT ![c] = Accepted]
           /\ held' = c
  BY DEF Accept
<1>2. /\ held' \in Conn
      /\ net[held'] = "backlog"
  BY <1>1, HeadTailProperties, LenProperties DEF Accept, TypeOK, KernelInv
<1>3. held = None /\ UNCHANGED <<incoming, pos, clients, dead>>
  BY DEF Accept, PlaceInv, lockVars, listVars, mainVars
<1>4. held' \in Conn \ Accepted /\ Accepted' = Accepted \cup {held'}
  BY <1>1, <1>2 DEF Accepted, TypeOK
<1>5. Waiting' = Waiting /\ Pending' = Pending \cup {held'}
  BY <1>2, <1>3, ServerAssumption DEF Waiting, Pending
<1>. QED
  BY <1>1, <1>3, <1>4, <1>5

\* push_back moves the held connection to the end of the queue: it stays pending.
LEMMA PushPending ==
  ASSUME TypeOK, PlaceInv, PushBack
  PROVE  /\ held \in Conn /\ held' = None
         /\ Waiting' = Waiting \cup {Len(incoming) + 1}
         /\ \A i \in Waiting : incoming'[i] = incoming[i] /\ i < Len(incoming) + 1
         /\ incoming'[Len(incoming) + 1] = held
         /\ Pending' = Pending
         /\ Accepted' = Accepted
         /\ UNCHANGED <<clients, dead, older>>
<1>1. held \in Conn /\ held' = None /\ UNCHANGED <<pos, clients, dead, older, net>>
  BY DEF PushBack, PlaceInv, TypeOK, mainVars, listVars, netVars
<1>2. /\ Len(incoming') = Len(incoming) + 1
      /\ \A i \in 1 .. Len(incoming) : incoming'[i] = incoming[i]
      /\ incoming'[Len(incoming) + 1] = held
  BY <1>1, AppendProperties DEF PushBack, TypeOK
<1>3. pos \in Nat /\ Len(incoming) \in Nat /\ pos <= Len(incoming)
  BY LenProperties DEF TypeOK
<1>4. Waiting' = Waiting \cup {Len(incoming) + 1} /\ Waiting \subseteq 1 .. Len(incoming)
  BY <1>1, <1>2, <1>3 DEF Waiting
<1>5. Pending' = Pending
  BY <1>1, <1>2, <1>3, <1>4, ServerAssumption DEF Pending
<1>. QED
  BY <1>1, <1>2, <1>3, <1>4, <1>5 DEF Accepted

\* add_connection moves the first pending connection of the queue to the list.
LEMMA AddPending ==
  ASSUME TypeOK, HolderInv, AddConnection
  PROVE  LET c == incoming[pos + 1] IN
         /\ pos + 1 \in Waiting
         /\ c \in Pending
         /\ clients' = clients \cup {c}
         /\ dead' = dead \cup SameIp(c)
         /\ Waiting' = Waiting \ {pos + 1}
         /\ \A i \in Waiting' : pos + 1 < i
         /\ Pending' = Pending \ {c}
         /\ Accepted' = Accepted
         /\ UNCHANGED <<incoming, held, older>>
<1> DEFINE c == incoming[pos + 1]
<1>1. /\ clients' = clients \cup {c}
      /\ dead' = dead \cup SameIp(c)
      /\ pos' = pos + 1 /\ pos < Len(incoming)
      /\ UNCHANGED <<incoming, held, older, net>>
  BY DEF AddConnection, lockVars, acceptVars, netVars
<1>2. pos \in Nat /\ Len(incoming) \in Nat
  BY LenProperties DEF TypeOK
<1>3. /\ pos + 1 \in Waiting
      /\ Waiting' = Waiting \ {pos + 1}
      /\ \A i \in Waiting' : pos + 1 < i
  BY <1>1, <1>2 DEF Waiting
<1>4. c \in Pending /\ Pending' = Pending \ {c}
  BY <1>1, <1>3 DEF Pending, HolderInv
<1>. QED
  BY <1>1, <1>3, <1>4 DEF Accepted

\* clear() comes when the iterator is at the end, and loses nothing.
LEMMA ClearPending ==
  ASSUME TypeOK, PlaceInv, ClearIncoming
  PROVE  /\ Waiting = {} /\ Waiting' = {}
         /\ Pending' = Pending
         /\ Accepted' = Accepted
         /\ UNCHANGED <<held, clients, dead, older>>
<1>1. /\ pos = Len(incoming) /\ incoming' = <<>> /\ pos' = 0
      /\ UNCHANGED <<held, clients, dead, older, net>>
  BY DEF ClearIncoming, Goto, PlaceInv, acceptVars, listVars, netVars
<1>2. Waiting = {} /\ Waiting' = {}
  BY <1>1, LenProperties DEF Waiting, TypeOK
<1>. QED
  BY <1>1, <1>2 DEF Pending, Accepted

\* Every step keeps every Client object in one place.
LEMMA HolderNext ==
  TypeOK /\ PlaceInv /\ KernelInv /\ HolderInv /\ [Next]_vars => HolderInv'
<1> SUFFICES ASSUME TypeOK, PlaceInv, KernelInv, HolderInv, [Next]_vars PROVE HolderInv'
  OBVIOUS
<1>1. CASE Still
  BY <1>1, StillPending DEF HolderInv, Still
<1>2. CASE Accept
  BY <1>2, AcceptPending DEF HolderInv, Pending
<1>3. CASE PushBack
  <2>1. held \in Pending /\ held \notin {incoming[i] : i \in Waiting}
    BY <1>3, PushPending, ServerAssumption DEF HolderInv, Pending
  <2>2. \A i, j \in Waiting' : incoming'[i] = incoming'[j] => i = j
    BY <1>3, <2>1, PushPending DEF HolderInv
  <2>3. \A i \in Waiting' : incoming'[i] # held'
    <3>1. \A i \in Waiting : incoming[i] \in Conn
      BY <1>3 DEF HolderInv, Pending, Accepted
    <3>. QED
      BY <1>3, <3>1, PushPending, ServerAssumption
  <2>. QED
    BY <1>3, <2>2, <2>3, PushPending DEF HolderInv
<1>4. CASE AddConnection
  BY <1>4, AddPending DEF HolderInv
<1>5. CASE ClearIncoming
  BY <1>5, ClearPending DEF HolderInv
<1>6. CASE Removal /\ Accepted' = Accepted
  BY <1>6, RemovalPending DEF HolderInv, Removal, RemoveConnection, acceptVars, lockVars
<1>. QED
  BY <1>1, <1>2, <1>3, <1>4, <1>5, <1>6, ListSteps

\* Every step keeps the queue and the list in the order of the accepts.
LEMMA OrderNext ==
  TypeOK /\ PlaceInv /\ KernelInv /\ HolderInv /\ OrderInv /\ [Next]_vars => OrderInv'
<1> SUFFICES ASSUME TypeOK, PlaceInv, KernelInv, HolderInv, OrderInv, [Next]_vars
             PROVE  OrderInv'
  OBVIOUS
<1>1. CASE Still
  BY <1>1, StillPending DEF OrderInv, Still
<1>2. CASE Accept
  \* The newcomer comes after everybody who was accepted, hence after all that
  \* are in the list or in the queue.
  <2>1. older' = [older EXCEPT ![held'] = Accepted]
    BY <1>2, AcceptPending
  <2>2. /\ older'[held'] = Accepted
        /\ \A c \in Conn : c # held' => older'[c] = older[c]
    BY <1>2, <2>1, AcceptPending DEF TypeOK
  <2>3. \A c \in Conn : held' \notin older'[c]
    BY <1>2, <2>2, AcceptPending DEF OrderInv
  <2>4. \A c \in clients \cup Pending : c \in older'[held']
    BY <1>2, <2>2 DEF HolderInv
  <2>5. \A i \in Waiting : incoming[i] \in Pending
    BY DEF Pending
  <2>6. held' \notin clients \cup Pending
    BY <1>2, AcceptPending DEF HolderInv
  <2>. QED
    BY <1>2, <2>2, <2>3, <2>4, <2>5, <2>6, AcceptPending DEF OrderInv, HolderInv, Accepted
<1>3. CASE PushBack
  <2>1. \A i \in Waiting : incoming[i] \in older[held]
    BY <1>3, PushPending, ServerAssumption DEF OrderInv
  <2>2. \A i, j \in Waiting' : i < j => incoming'[i] \in older'[incoming'[j]]
    <3>1. TAKE i, j \in Waiting'
    <3>2. HAVE i < j
    <3>3. Len(incoming) \in Nat /\ Waiting \subseteq Int
      BY LenProperties DEF Waiting, TypeOK
    <3>4. /\ Waiting' = Waiting \cup {Len(incoming) + 1}
          /\ \A k \in Waiting : k < Len(incoming) + 1
      BY <1>3, PushPending
    <3>5. i \in Waiting
      BY <3>2, <3>3, <3>4
    <3>. QED
      BY <1>3, <2>1, <3>2, <3>5, PushPending DEF OrderInv
  <2>. QED
    BY <1>3, <2>2, PushPending DEF OrderInv
<1>4. CASE AddConnection
  <2>1. DEFINE c == incoming[pos + 1]
  <2>2. \A d \in Pending' : c \in older[d]
    BY <1>4, AddPending DEF OrderInv, Pending
  <2>. QED
    BY <1>4, <2>2, AddPending DEF OrderInv
<1>5. CASE ClearIncoming
  BY <1>5, ClearPending DEF OrderInv
<1>6. CASE Removal /\ Accepted' = Accepted
  BY <1>6, RemovalPending DEF OrderInv, Removal, RemoveConnection, acceptVars, lockVars
<1>. QED
  BY <1>1, <1>2, <1>3, <1>4, <1>5, <1>6, ListSteps

-----------------------------------------------------------------------------
(* The most recent connection is honoured.                                 *)

\* No step leaves a superseded client unmarked.
LEMMA MostRecentNext ==
  TypeOK /\ PlaceInv /\ KernelInv /\ HolderInv /\ OrderInv /\ HonorsMostRecent /\ [Next]_vars
    => HonorsMostRecent'
<1> SUFFICES ASSUME TypeOK, PlaceInv, KernelInv, HolderInv, OrderInv, HonorsMostRecent,
                    [Next]_vars
             PROVE  HonorsMostRecent'
  OBVIOUS
<1>1. CASE Still
  BY <1>1 DEF HonorsMostRecent, Still
<1>2. CASE Accept
  <2>1. \A d \in clients : older'[d] = older[d]
    BY <1>2, AcceptPending DEF TypeOK, HolderInv
  <2>. QED
    BY <1>2, <2>1, AcceptPending DEF HonorsMostRecent
<1>3. CASE PushBack
  BY <1>3, PushPending DEF HonorsMostRecent
<1>4. CASE AddConnection
  \* The older ones of the address are marked; none of them is newer.
  <2>1. DEFINE n == incoming[pos + 1]
  <2>2. /\ n \in Pending /\ n \in Conn /\ clients' = clients \cup {n}
        /\ dead' = dead \cup SameIp(n) /\ older' = older
    BY <1>4, AddPending DEF HolderInv, Accepted
  <2>3. \A d \in clients : d \in older[n] /\ n \notin older[d]
    BY <2>2 DEF OrderInv, TypeOK
  <2>4. n \notin older[n]
    BY <2>2 DEF OrderInv
  <2> HIDE DEF n
  <2>. QED
    BY <2>2, <2>3, <2>4 DEF HonorsMostRecent, SameIp
<1>5. CASE ClearIncoming
  BY <1>5, ClearPending DEF HonorsMostRecent
<1>6. CASE Removal /\ Accepted' = Accepted
  BY <1>6 DEF HonorsMostRecent, Removal, RemoveConnection
<1>. QED
  BY <1>1, <1>2, <1>3, <1>4, <1>5, <1>6, ListSteps

\* No step marks a client that nothing superseded.
LEMMA SupersededNext ==
  TypeOK /\ PlaceInv /\ KernelInv /\ HolderInv /\ OrderInv /\ DeadIsSuperseded /\ [Next]_vars
    => DeadIsSuperseded'
<1> SUFFICES ASSUME TypeOK, PlaceInv, KernelInv, HolderInv, OrderInv, DeadIsSuperseded,
                    [Next]_vars
             PROVE  DeadIsSuperseded'
  OBVIOUS
<1>1. CASE Still
  BY <1>1, StillPending DEF DeadIsSuperseded, Still
<1>2. CASE Accept
  <2>1. \A d \in Accepted : older'[d] = older[d]
    BY <1>2, AcceptPending DEF TypeOK, Accepted
  <2>2. Accepted' \ Pending' = Accepted \ Pending
    BY <1>2, AcceptPending
  <2>. QED
    BY <1>2, <2>1, <2>2, AcceptPending DEF DeadIsSuperseded
<1>3. CASE PushBack
  BY <1>3, PushPending DEF DeadIsSuperseded
<1>4. CASE AddConnection
  <2>1. DEFINE c == incoming[pos + 1]
  <2>2. c \in Accepted' \ Pending' /\ \A d \in SameIp(c) : IpOf[c] = IpOf[d] /\ d \in older[c]
    BY <1>4, AddPending DEF SameIp, HolderInv, OrderInv
  <2>. QED
    BY <1>4, <2>2, AddPending DEF DeadIsSuperseded
<1>5. CASE ClearIncoming
  BY <1>5, ClearPending DEF DeadIsSuperseded
<1>6. CASE Removal /\ Accepted' = Accepted
  BY <1>6, RemovalPending DEF DeadIsSuperseded, Removal, RemoveConnection
<1>. QED
  BY <1>1, <1>2, <1>3, <1>4, <1>5, <1>6, ListSteps

\* The initial state satisfies the inductive invariant.
LEMMA InitInv == Init => IInv
<1> SUFFICES ASSUME Init PROVE IInv
  OBVIOUS
<1>1. TypeOK
  <2>1. pos \in 0 .. Len(incoming) /\ incoming \in Seq(Conn) /\ backlog \in Seq(Conn)
    BY EmptySeq DEF Init
  <2>2. kfd \in [Fd -> Conn \cup {None, Own}] /\ fdOf \in [Conn -> Fd \cup {-1}]
    BY DEF Init
  <2>3. /\ net \in [Conn -> {"idle", "backlog", "open", "closed"}]
        /\ unread \in [Conn -> Nat] /\ need \in [Conn -> Nat]
        /\ older \in [Conn -> SUBSET Conn]
    BY DEF Init
  <2>. QED
    BY <2>1, <2>2, <2>3 DEF Init, TypeOK
<1>2. Accepted = {} /\ Waiting = {} /\ Pending = {}
  BY DEF Init, Accepted, Waiting, Pending
<1>3. LockInv /\ PlaceInv
  BY DEF Init, LockInv, PlaceInv
<1>4. KernelInv
  BY ServerAssumption DEF Init, KernelInv
<1>5. HolderInv /\ OrderInv /\ HonorsMostRecent /\ DeadIsSuperseded
  BY <1>2 DEF Init, HolderInv, OrderInv, HonorsMostRecent, DeadIsSuperseded
<1>. QED
  BY <1>1, <1>3, <1>4, <1>5 DEF IInv

\* The inductive invariant holds in every reachable state.
LEMMA InductiveInvariant == Spec => []IInv
<1>1. IInv /\ [Next]_vars => IInv'
  BY TypeNext, LockNext, PlaceNext, KernelNext, HolderNext, OrderNext, MostRecentNext,
     SupersededNext DEF IInv
<1>. QED
  BY InitInv, <1>1, PTL DEF Spec

\* The variables keep their types, and no iterator stands on an erased client.
THEOREM TypeCorrect == Spec => []TypeOK
BY InductiveInvariant, PTL DEF IInv

\* The two threads are never in `incoming` together.
THEOREM Exclusion == Spec => []MutualExclusion
<1>1. IInv => MutualExclusion
  BY DEF IInv, LockInv, MutualExclusion
<1>. QED
  BY InductiveInvariant, <1>1, PTL

\* open() returns only after the accept thread has begun.
THEOREM OpenWaits == Spec => []Handshake
<1>1. IInv => Handshake
  BY DEF IInv, LockInv, TypeOK, Handshake
<1>. QED
  BY InductiveInvariant, <1>1, PTL

\* Of two clients with one address, the one accepted first is marked dead.
THEOREM MostRecentWins == Spec => []HonorsMostRecent
BY InductiveInvariant, PTL DEF IInv

\* Nobody is marked dead without a newer connection from the address in the list.
THEOREM DeadHasSuccessor == Spec => []DeadIsSuperseded
BY InductiveInvariant, PTL DEF IInv

-----------------------------------------------------------------------------
(* The server implements the registry.                                     *)

\* Every step of the server is a step of the registry or changes nothing of it.
LEMMA StepRefines ==
  ASSUME IInv, [Next]_vars
  PROVE  [Reg!RegistryNext]_Reg!regVars
<1> USE DEF IInv
<1>1. CASE Still
  BY <1>1, StillPending DEF Still, Reg!regVars
<1>2. CASE Accept
  BY <1>2, AcceptPending DEF HolderInv, Reg!regVars
<1>3. CASE PushBack
  BY <1>3, PushPending DEF Reg!regVars
<1>4. CASE AddConnection
  <2> DEFINE c == incoming[pos + 1]
  <2>1. /\ c \in Pending /\ c \in Conn /\ c \notin clients /\ c \in Accepted
        /\ clients' = clients \cup {c}
        /\ dead' = dead \cup SameIp(c)
        /\ Accepted' \ Pending' = (Accepted \ Pending) \cup {c}
    BY <1>4, AddPending DEF HolderInv, Accepted
  <2> HIDE DEF c
  <2>2. clients' \ dead' = {d \in clients \ dead : IpOf[d] # IpOf[c]} \cup {c}
    BY <2>1 DEF SameIp, TypeOK
  <2>. QED
    BY <2>1, <2>2 DEF Reg!RegistryNext, Reg!Admit
<1>5. CASE ClearIncoming
  BY <1>5, ClearPending DEF Reg!regVars
<1>6. CASE Removal /\ Accepted' = Accepted
  <2>1. PICK c \in clients : RemoveConnection(c)
    BY <1>6 DEF Removal
  <2>2. Accepted' \ Pending' = Accepted \ Pending
    BY <1>6, RemovalPending
  <2>3. CASE c \in dead
    \* The registry has forgotten it already.
    BY <2>1, <2>2, <2>3 DEF RemoveConnection, Reg!regVars
  <2>4. CASE c \notin dead
    <3>1. clients' \ dead' = (clients \ dead) \ {c} /\ c \in clients \ dead /\ c \in Conn
      BY <2>1, <2>4 DEF RemoveConnection, TypeOK
    <3>. QED
      BY <2>2, <3>1 DEF Reg!RegistryNext, Reg!Drop
  <2>. QED
    BY <2>3, <2>4
<1>. QED
  BY <1>1, <1>2, <1>3, <1>4, <1>5, <1>6, ListSteps

\* Seen as the clients that are not dead, the list is a registry that holds the
\* last admitted connection of each address and nothing else.
THEOREM ImplementsRegistry == Spec => RefinesRegistry
<1>1. Init => Reg!RegistryInit
  BY DEF Init, Reg!RegistryInit, Accepted
<1>. QED
  BY InductiveInvariant, StepRefines, <1>1, PTL DEF Spec, RefinesRegistry, Reg!RegistrySpec

\* At most one client of each address is alive (server.cc:119-126).
THEOREM OneLivePerAddress == Spec => []Reg!OnePerIp
<1>1. IInv => Reg!OnePerIp
  <2> SUFFICES ASSUME IInv, NEW c \in clients \ dead, NEW d \in clients \ dead,
                      IpOf[c] = IpOf[d]
               PROVE  c = d
    BY DEF Reg!OnePerIp
  <2>1. c \in Accepted /\ d \in Accepted
    BY DEF IInv, HolderInv
  <2>. QED
    BY <2>1 DEF IInv, OrderInv, HonorsMostRecent
<1>. QED
  BY InductiveInvariant, <1>1, PTL

-----------------------------------------------------------------------------
(* Descriptors, whatever a failed accept closes.                           *)

\* Every Client object that exists.
Objects == clients \cup Pending

\* A connection that is open has a Client object, whose descriptor refers to it.
HoldInv ==
  \A c \in Conn : net[c] = "open" =>
    c \in Objects /\ fdOf[c] \in Fd /\ kfd[fdOf[c]] = c

\* No object has lost its connection before a failed accept has closed one.
StandInv == ~struck => \A c \in Objects : net[c] = "open"

\* What a step leaves alone that does not touch the descriptors.
Quiet ==
  /\ UNCHANGED <<fdOf, kfd, struck>>
  /\ \A c \in Conn : net'[c] = "open" <=> net[c] = "open"

\* Only accept(2), a failed accept and remove_connection touch the descriptors.
LEMMA DescriptorSteps ==
  ASSUME TypeOK, [Next]_vars
  PROVE  Accept \/ AcceptFail \/ Removal \/ Quiet
<1> USE DEF Quiet
<1>1. ASSUME NEW c \in Conn, Peer(c) PROVE Quiet
  BY <1>1 DEF Peer, PeerConnect, PeerSend, PeerClose, PeerReset, TypeOK
<1>2. ASSUME AcceptThread PROVE Accept \/ AcceptFail \/ Quiet
  BY <1>2 DEF AcceptThread, AcceptStart, AcceptLock, PushBack, AcceptUnlock, netVars
<1>3. ASSUME ServerOpen \/ Loop \/ NetPoll \/ CheckIncoming \/ Exit \/ Interrupt \/ Done
      PROVE  Quiet
  BY <1>3 DEF ServerOpen, Open, Spawn, OpenWait, OpenDone, Loop, NetPoll, Exit, Interrupt,
              Done, CheckIncoming, LockIncoming, AddConnection, AddDone, ClearIncoming,
              UnlockIncoming, vars, netVars
<1>4. ASSUME NEW c \in Conn, Visit(c) PROVE Removal \/ Quiet
  <2>1. CASE DropDead(c) \/ ReadThrows(c)
    BY <2>1 DEF DropDead, ReadThrows, Reading, Visiting, TypeOK, Removal
  <2>2. CASE SkipClient(c) \/ ReadWaits(c) \/ ReadTakes(c)
    BY <2>2 DEF SkipClient, ReadWaits, ReadTakes, Keep
  <2>. QED
    BY <1>4, <2>1, <2>2 DEF Visit
<1>5. ASSUME Poll \/ CheckDone PROVE Quiet
  BY <1>5 DEF Poll, CheckDone, netVars
<1>6. CASE UNCHANGED vars
  BY <1>6 DEF vars, netVars
<1>. QED
  BY <1>1, <1>2, <1>3, <1>4, <1>5, <1>6 DEF Next, MainThread, CheckClients

\* accept(2) takes a free descriptor, so that it takes none from an open connection.
LEMMA AcceptHolds ==
  ASSUME IInv, HoldInv, StandInv, Accept
  PROVE  HoldInv' /\ StandInv'
<1> USE DEF IInv
<1>1. PICK n \in Free :
        /\ net' = [net EXCEPT ![held'] = "open"]
        /\ kfd' = [kfd EXCEPT ![n] = held']
        /\ fdOf' = [fdOf EXCEPT ![held'] = n]
  BY DEF Accept
<1>2. Objects' = Objects \cup {held'} /\ held' \in Conn /\ held' \notin Objects
  BY AcceptPending DEF Objects, HolderInv
<1>3. n \in Fd /\ kfd[n] = None
  BY <1>1 DEF Free
<1>4. ASSUME NEW c \in Conn, net'[c] = "open", c # held'
      PROVE  c \in Objects' /\ fdOf'[c] \in Fd /\ kfd'[fdOf'[c]] = c
  <2>1. net[c] = "open" /\ fdOf'[c] = fdOf[c]
    BY <1>1, <1>4 DEF TypeOK
  <2>2. c \in Objects /\ fdOf[c] \in Fd /\ kfd[fdOf[c]] = c
    BY <2>1 DEF HoldInv
  <2>3. fdOf[c] # n
    BY <1>3, <2>2, ServerAssumption
  <2>. QED
    BY <1>1, <1>2, <2>1, <2>2, <2>3 DEF TypeOK
<1>5. held' \in Objects' /\ fdOf'[held'] = n /\ kfd'[n] = held' /\ net'[held'] = "open"
  BY <1>1, <1>2, <1>3 DEF TypeOK
<1>6. HoldInv'
  BY <1>3, <1>4, <1>5 DEF HoldInv
<1>7. struck' = struck
  BY DEF Accept
<1>8. ASSUME NEW c \in Objects PROVE net[c] = "open" => net'[c] = "open"
  BY <1>1, <1>8 DEF TypeOK, HolderInv, Objects, Accepted
<1>. QED
  BY <1>2, <1>5, <1>6, <1>7, <1>8 DEF StandInv

\* close(2) on any number takes an open connection's descriptor only with the connection.
LEMMA CloseHolds ==
  ASSUME TypeOK, HoldInv, NEW n \in Int, CloseFd(n),
         NEW c \in Conn, net'[c] = "open"
  PROVE  /\ net[c] = "open" /\ c \in Objects
         /\ fdOf[c] \in Fd /\ fdOf[c] # n /\ kfd'[fdOf[c]] = c
<1>1. net[c] = "open" /\ c # Refers(n)
  BY DEF CloseFd
<1>2. c \in Objects /\ fdOf[c] \in Fd /\ kfd[fdOf[c]] = c
  BY <1>1 DEF HoldInv
<1>3. fdOf[c] # n
  BY <1>1, <1>2 DEF Refers
<1>. QED
  BY <1>1, <1>2, <1>3 DEF CloseFd

\* A failed accept takes the descriptors of the objects only as `struck` says.
LEMMA AcceptFailHolds ==
  ASSUME TypeOK, HoldInv, StandInv, AcceptFail
  PROVE  HoldInv' /\ StandInv'
<1>1. PICK g \in HeapFd : CloseFd(g) /\ struck' = (struck \/ Refers(g) \in Conn)
  BY DEF AcceptFail
<1>2. Objects' = Objects /\ fdOf' = fdOf
  BY DEF AcceptFail, Objects, Pending, Waiting, acceptVars, lockVars, listVars, mainVars
<1>3. g \in Int
  BY ServerAssumption
<1>4. HoldInv'
  BY <1>1, <1>2, <1>3, CloseHolds DEF HoldInv
<1>5. ASSUME ~struck', NEW c \in Objects PROVE net'[c] = "open"
  <2>1. ~struck /\ Refers(g) \notin Conn
    BY <1>1, <1>5
  <2>2. net[c] = "open" /\ c \in Conn
    BY <1>5, <2>1 DEF StandInv, Objects, Pending, Waiting, TypeOK
  <2>. QED
    BY <1>1, <2>1, <2>2 DEF CloseFd
<1>. QED
  BY <1>2, <1>4, <1>5 DEF StandInv

\* remove_connection closes its client's own connection, unless that was lost before.
LEMMA RemovalHolds ==
  ASSUME IInv, HoldInv, StandInv, Removal
  PROVE  HoldInv' /\ StandInv'
<1> USE DEF IInv
<1>1. PICK c \in clients : RemoveConnection(c)
  BY DEF Removal
<1>2. Objects' = Objects \ {c} /\ c \in Objects /\ c \in Conn
  BY <1>1, RemovalPending DEF Objects, RemoveConnection, HolderInv, TypeOK
<1>3. /\ CloseFd(fdOf[c]) /\ fdOf[c] \in Int
      /\ fdOf' = [fdOf EXCEPT ![c] = -1] /\ struck' = struck
  BY <1>1, <1>2, ServerAssumption DEF RemoveConnection, TypeOK, Fd
<1>4. ASSUME NEW d \in Conn, net'[d] = "open"
      PROVE  d \in Objects' /\ fdOf'[d] \in Fd /\ kfd'[fdOf'[d]] = d
  <2>1. /\ d \in Objects
        /\ fdOf[d] \in Fd /\ fdOf[d] # fdOf[c] /\ kfd'[fdOf[d]] = d
    BY <1>3, <1>4, CloseHolds
  <2>. QED
    BY <1>2, <1>3, <2>1 DEF TypeOK
<1>5. HoldInv'
  BY <1>4 DEF HoldInv
<1>6. ASSUME ~struck', NEW d \in Objects' PROVE net'[d] = "open"
  <2>1. /\ net[c] = "open" /\ net[d] = "open"
        /\ d \in Objects /\ d # c /\ d \in Conn
    BY <1>2, <1>3, <1>6 DEF StandInv, Objects, HolderInv, Accepted
  <2>2. Refers(fdOf[c]) = c
    BY <1>2, <2>1 DEF HoldInv, Refers
  <2>. QED
    BY <1>3, <2>1, <2>2 DEF CloseFd
<1>. QED
  BY <1>5, <1>6 DEF StandInv

\* Every step keeps open connections with their objects.
LEMMA HoldNext ==
  ASSUME IInv, HoldInv, StandInv, [Next]_vars
  PROVE  HoldInv' /\ StandInv'
<1>1. ASSUME ~Accept, ~AcceptFail, ~Removal PROVE HoldInv' /\ StandInv'
  <2>1. Quiet
    BY <1>1, DescriptorSteps DEF IInv
  <2>2. Objects' = Objects
    BY <1>1, ListSteps, StillPending, PushPending, AddPending, ClearPending
       DEF Objects, Still, IInv
  <2>3. Objects \subseteq Conn
    BY DEF IInv, HolderInv, Objects, Accepted
  <2>. QED
    BY <2>1, <2>2, <2>3 DEF Quiet, HoldInv, StandInv
<1>. QED
  BY <1>1, AcceptHolds, AcceptFailHolds, RemovalHolds DEF IInv

\* Open connections stay with their objects in every reachable state.
LEMMA HoldInvariant == Spec => [](HoldInv /\ StandInv)
<1>1. Init => HoldInv /\ StandInv
  BY DEF Init, HoldInv, StandInv, Objects, Pending, Waiting
<1>2. IInv /\ HoldInv /\ StandInv /\ [Next]_vars => HoldInv' /\ StandInv'
  BY HoldNext
<1>. QED
  BY InductiveInvariant, <1>1, <1>2, PTL DEF Spec

\* Whatever number an uninitialised fd holds, and whatever accepts fail: every Client's
\* descriptor refers to its own connection, until a failed accept closes such a descriptor.
THEOREM DescriptorsAreOwn == Spec => []DescriptorsStand
<1>1. IInv /\ HoldInv /\ StandInv => DescriptorsStand
  BY DEF IInv, HolderInv, Accepted, HoldInv, StandInv, Objects, DescriptorsStand,
         OwnDescriptor, Refers
<1>. QED
  BY InductiveInvariant, HoldInvariant, <1>1, PTL

\* Every open connection has its Client object in exactly one place, also when failed
\* accepts close descriptors that are not theirs.
THEOREM ObjectsHaveOneHolder == Spec => []OneHolder
<1>1. IInv /\ HoldInv => OneHolder
  BY DEF IInv, HolderInv, HoldInv, Objects, OneHolder
<1>. QED
  BY InductiveInvariant, HoldInvariant, <1>1, PTL

\* A client that leaves the list was superseded, its peer had ended the connection, or the
\* connection had been closed behind its back.
LEMMA DropStep ==
  ASSUME IInv, HoldInv, [Next]_vars,
         NEW c \in clients, c \notin clients'
  PROVE  c \in dead \cup fin \/ net[c] = "closed"
<1> USE DEF IInv
<1>1. PICK d \in Conn : /\ d \in clients /\ clients' = clients \ {d}
                        /\ DropDead(d) \/ ReadThrows(d)
  <2>1. ASSUME NEW d \in Conn, Visit(d)
        PROVE  (DropDead(d) \/ ReadThrows(d)) /\ d \in clients /\ clients' = clients \ {d}
    BY <2>1 DEF Visit, DropDead, ReadThrows, SkipClient, ReadWaits, ReadTakes, Keep,
                Reading, Visiting, RemoveConnection, TypeOK
  <2>2. \E d \in Conn : Visit(d)
    BY DEF Next, Peer, PeerConnect, PeerSend, PeerClose, PeerReset, AcceptThread,
       AcceptStart,
           Accept, AcceptFail, AcceptLock, PushBack, AcceptUnlock, MainThread, ServerOpen,
           Open, Spawn, OpenWait, OpenDone, Loop, NetPoll, CheckIncoming, LockIncoming,
           AddConnection, AddDone, ClearIncoming, UnlockIncoming, CheckClients, Poll,
           CheckDone, Exit, Interrupt, Done, vars, listVars
  <2>. QED
    BY <2>1, <2>2
<1>2. d = c
  BY <1>1
<1>3. CASE net[c] = "open"
  <2>1. Refers(fdOf[c]) = c
    BY <1>3 DEF HoldInv, Refers, TypeOK
  <2>2. CASE DropDead(c)
    BY <2>2 DEF DropDead
  <2>3. CASE ReadThrows(c)
    BY <2>1, <2>3 DEF ReadThrows, TypeOK
  <2>. QED
    BY <1>1, <1>2, <2>2, <2>3
<1>4. net[c] \in {"open", "closed"}
  BY DEF HolderInv, Accepted
<1>. QED
  BY <1>3, <1>4

\* Only superseded clients and ended connections leave the list.
THEOREM HealthyClientsStay == Spec => NoHealthyDrop
<1>1. IInv /\ HoldInv /\ [Next]_vars
        => [\A c \in clients :
              c \notin clients' => c \in dead \cup fin \/ net[c] = "closed"]_vars
  BY DropStep
<1>. QED
  BY InductiveInvariant, HoldInvariant, <1>1, PTL DEF Spec, NoHealthyDrop
=============================================================================

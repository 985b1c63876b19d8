---------------------------- MODULE SearchQueue ----------------------------
(***************************************************************************)
(* The searches of the clients of one server (search.cc:300-422): a        *)
(* request waits in SearchQueue, is answered from the server's own files,  *)
(* and goes on to one linked server if these were too few.  The file       *)
(* stands under "#if 0" at this commit and is specified as written.        *)
(*                                                                         *)
(* A search that was forwarded is noted twice: Client::RemoteSearch is the *)
(* linked server, and RemoteServer::ActiveSearches holds the client.       *)
(***************************************************************************)
EXTENDS Sequences, Integers, FiniteSets, SequencesExt

CONSTANTS Searchers, Peers,
          ForwardSearches,   \* forward when results are few, not just none
          NoPeer             \* the null pointer

ASSUME QueueAssumption == NoPeer \notin Peers

VARIABLES search,         \* search[c]: c has a Search object
          searchQueue,    \* SearchQueue
          remoteSearch,   \* Client::RemoteSearch
          activeSearches, \* RemoteServer::ActiveSearches
          alive           \* peers that are LOGGED_ON with a fresh heartbeat

queueVars == <<search, searchQueue, remoteSearch, activeSearches, alive>>

QueueTypeOK ==
  /\ search \in [Searchers -> BOOLEAN]
  /\ searchQueue \in Seq(Searchers)
  /\ remoteSearch \in [Searchers -> Peers \cup {NoPeer}]
  /\ activeSearches \in [Peers -> SUBSET Searchers]
  /\ alive \subseteq Peers

QueueInit ==
  /\ search = [c \in Searchers |-> FALSE]
  /\ searchQueue = <<>>
  /\ remoteSearch = [c \in Searchers |-> NoPeer]
  /\ activeSearches = [p \in Peers |-> {}]
  /\ alive = Peers

-----------------------------------------------------------------------------
Waiting(c) == \E i \in DOMAIN searchQueue : searchQueue[i] = c

Unlink(c) ==
  /\ remoteSearch' = [remoteSearch EXCEPT ![c] = NoPeer]
  /\ activeSearches' = [p \in Peers |-> IF p = remoteSearch[c] THEN activeSearches[p] \ {c}
                                        ELSE activeSearches[p]]

(* A mutant of SearchRequest: a search at a linked server stays there      *)
SearchRequestKeepsPeer(c, loads) ==
  /\ ~ Waiting(c)
  /\ search' = [search EXCEPT ![c] = loads]
  /\ searchQueue' = IF loads THEN Append(searchQueue, c) ELSE searchQueue
  /\ UNCHANGED <<remoteSearch, activeSearches, alive>>

(* SearchRequest.  A request of a client that is in the queue deletes the  *)
(* search that waits there and its first place in the queue, and is itself *)
(* forgotten: nothing is said to the client, which keeps waiting, although *)
(* the comment at search.cc:388 means to "honor the most recent, but       *)
(* maintain queue position".  Another one takes the place of whatever      *)
(* search is still at a linked server; one that cannot be loaded (as it    *)
(* stands none can: the call that fills terms is commented out at          *)
(* search.cc:89) is completed at once.                                     *)
SearchRequest(c, loads) ==
  /\ IF Waiting(c)
       THEN /\ search' = [search EXCEPT ![c] = FALSE]
            /\ \E i \in DOMAIN searchQueue :
                 /\ searchQueue[i] = c /\ \A j \in 1..(i - 1) : searchQueue[j] # c
                 /\ searchQueue' = RemoveAt(searchQueue, i)
            /\ UNCHANGED <<remoteSearch, activeSearches>>
       ELSE /\ Unlink(c)
            /\ search' = [search EXCEPT ![c] = loads]
            /\ searchQueue' = IF loads THEN Append(searchQueue, c) ELSE searchQueue
  /\ UNCHANGED alive

(* Server::Search for the client at the head of the queue (taken off it by *)
(* the main loop, external); hits tells how much of what was asked for its *)
(* own files gave.  It goes to the first peer that is there, if the client *)
(* does not ask for local files only and peers may be searched.            *)
Search(c, hits, onlyLocal) ==
  /\ searchQueue # <<>> /\ Head(searchQueue) = c
  /\ searchQueue' = Tail(searchQueue)
  /\ IF /\ ~ onlyLocal /\ alive # {}
        /\ hits = "none" \/ (ForwardSearches /\ hits = "few")
       THEN \E p \in alive :
              /\ remoteSearch' = [remoteSearch EXCEPT ![c] = p]
              /\ activeSearches' = [q \in Peers |->
                   CASE q = p -> activeSearches[q] \cup {c}
                     [] q = remoteSearch[c] /\ q # p -> activeSearches[q] \ {c}
                     [] OTHER -> activeSearches[q]]
              /\ UNCHANGED search
       ELSE /\ Unlink(c)
            /\ search' = [search EXCEPT ![c] = FALSE]
  /\ UNCHANGED alive

(* External: the peer has answered for a client that it searches for; a    *)
(* peer goes and those that wait for it are completed, or comes back       *)
PeerAnswers(p, c) ==
  /\ p \in alive /\ c \in activeSearches[p]
  /\ Unlink(c)
  /\ search' = [search EXCEPT ![c] = FALSE]
  /\ UNCHANGED <<searchQueue, alive>>

PeerGoes(p) ==
  /\ p \in alive
  /\ alive' = alive \ {p}
  /\ remoteSearch' = [c \in Searchers |-> IF c \in activeSearches[p] THEN NoPeer ELSE remoteSearch[c]]
  /\ search' = [c \in Searchers |-> search[c] /\ c \notin activeSearches[p]]
  /\ activeSearches' = [activeSearches EXCEPT ![p] = {}]
  /\ UNCHANGED searchQueue

PeerComes(p) ==
  /\ p \notin alive
  /\ alive' = alive \cup {p}
  /\ UNCHANGED <<search, searchQueue, remoteSearch, activeSearches>>

QueueStep(c) == \E hits \in {"none", "few", "enough"}, l \in BOOLEAN : Search(c, hits, l)

QueueNext ==
  \/ \E c \in Searchers : QueueStep(c) \/ \E loads \in BOOLEAN : SearchRequest(c, loads)
  \/ \E p \in Peers : PeerGoes(p) \/ PeerComes(p) \/ \E c \in Searchers : PeerAnswers(p, c)

QueueSpec == QueueInit /\ [][QueueNext]_queueVars

-----------------------------------------------------------------------------
(* Every search object is reachable from exactly one place that will       *)
(* finish it: its client stands in the queue once, or one linked server    *)
(* has the client on its list and the client that server.  A client        *)
(* without a search is in neither.                                         *)
OnePlacePerSearch ==
  \A c \in Searchers :
    /\ Cardinality({i \in DOMAIN searchQueue : searchQueue[i] = c})
         + Cardinality({p \in Peers : c \in activeSearches[p]}) = IF search[c] THEN 1 ELSE 0
    /\ \A p \in Peers : c \in activeSearches[p] <=> remoteSearch[c] = p

(* Every search has one place, and the two notes of a forwarded one agree  *)
(* (search.cc:300-422).                                                    *)
QueueSound == QueueTypeOK /\ OnePlacePerSearch
=============================================================================

---------------------------- MODULE WalksProofs ----------------------------
(***************************************************************************)
(* The links that follow the table of servers, the queue of searches and   *)
(* one search, for any table, peers, clients and files; and the passes of  *)
(* the scheduler.                                                          *)
(***************************************************************************)
EXTENDS Links, Search, SearchQueue, Scheduler, FiniteSetTheorems, TLAPS

(***************************************************************************)
(* Links                                                                   *)
(***************************************************************************)
LEMMA LinksStart == LinksInit => LinksSound
<1> SUFFICES ASSUME LinksInit PROVE LinksSound
  OBVIOUS
<1> USE LinksAssumption DEF LinksInit, LoadRemotes
<1>1. cluster \in Clusters \cup {NotLinked}
  OBVIOUS
<1>2. \A a \in Rows : remotes[a] = "linked" => cluster # NotLinked
  OBVIOUS
<1>3. LinksTypeOK
  BY <1>1, <1>2 DEF LinksTypeOK, LinkStatus
<1>4. NoLinkOfAFormerCluster /\ LinkedOnce
  BY DEF NoLinkOfAFormerCluster, LinkedOnce
<1> QED BY <1>3, <1>4 DEF LinksSound

(* The job: after a change of cluster nothing of the former one is linked  *)
(* or queued, and without one only rows that are in neither are linked.    *)
LEMMA ReloadKeeps ==
  ASSUME LinksSound, ReloadServers PROVE LinksSound'
<1> USE LinksAssumption DEF LinksSound, LinksTypeOK, LinkStatus
<1> DEFINE changed == ClusterRead # cluster
           st == IF changed THEN Shut ELSE remotes
           q == IF changed THEN {} ELSE queue
           now == IF ClusterKept = NotLinked THEN st ELSE Linked(st, q, ClusterKept)
<1>1. /\ cluster' = ClusterKept /\ remotes' = now /\ queue' = q
      /\ bornIn' = [a \in Rows |-> IF now[a] # st[a] THEN ClusterKept ELSE bornIn[a]]
      /\ UNCHANGED <<myRow, row, edits>>
  BY DEF ReloadServers
<1>2. ClusterKept \in Clusters \cup {NotLinked}
      /\ (ClusterKept # NotLinked => ClusterRead = ClusterKept)
  BY DEF ClusterKept, ClusterRead
<1>3. st \in [Rows -> LinkStatus] /\ (changed => \A a \in Rows : st[a] # "linked")
  BY DEF Shut
<1>4. /\ now \in [Rows -> LinkStatus]
      /\ \A a \in Rows : now[a] # st[a] =>
           ClusterKept # NotLinked /\ now[a] = "linked" /\ st[a] = "none" /\ a \notin q
  BY <1>3 DEF Linked
<1>5. LinksTypeOK'
  <2>1. bornIn' \in [Rows -> Clusters]
    BY <1>1, <1>2, <1>4
  <2>2. q \subseteq Rows
    OBVIOUS
  <2> QED BY <1>1, <1>2, <1>4, <2>1, <2>2
<1>6. LinkedOnce'
  BY <1>1, <1>4 DEF LinkedOnce
<1>7. NoLinkOfAFormerCluster'
  <2> SUFFICES ASSUME ClusterKept # NotLinked, NEW a \in Rows,
                      now[a] = "linked" \/ a \in q
               PROVE  bornIn'[a] = ClusterKept
    BY <1>1 DEF NoLinkOfAFormerCluster
  <2>1. CASE now[a] # st[a]
    BY <2>1, <1>1
  <2>2. CASE now[a] = st[a]
    <3>1. ~ changed
      BY <2>2, <1>3
    <3>2. bornIn'[a] = bornIn[a] /\ cluster = ClusterKept /\ (remotes[a] = "linked" \/ a \in queue)
      BY <1>1, <1>2, <2>2, <3>1
    <3> QED BY <3>2 DEF NoLinkOfAFormerCluster
  <2> QED BY <2>1, <2>2
<1> QED BY <1>5, <1>6, <1>7

LEMMA ReconnectKeeps ==
  ASSUME LinksSound, ReconnectServers PROVE LinksSound'
BY LinksAssumption
   DEF LinksSound, LinksTypeOK, LinkStatus, ReconnectServers, NoLinkOfAFormerCluster, LinkedOnce

LEMMA BreakOrSweepKeeps ==
  ASSUME LinksSound, NEW a \in Rows, Break(a) \/ Sweep(a) PROVE LinksSound'
<1> USE DEF LinksSound, LinksTypeOK, LinkStatus, NoLinkOfAFormerCluster, LinkedOnce
<1>1. CASE Break(a)
  BY <1>1 DEF Break
<1>2. CASE Sweep(a)
  BY <1>2 DEF Sweep
<1> QED BY <1>1, <1>2

LEMMA EditKeeps ==
  ASSUME LinksSound, Edit PROVE LinksSound'
BY LinksAssumption
   DEF LinksSound, LinksTypeOK, LinkStatus, Edit, NoLinkOfAFormerCluster, LinkedOnce

(* While the server is in a cluster, no link and no queued reconnect       *)
(* belongs to one it was in before, and nobody is linked twice, however    *)
(* the table is edited between two runs of the job (db.cc:621-634,         *)
(* 740-782).                                                               *)
THEOREM LinksFollowTheTable == LinksSpec => []LinksSound
<1>1. LinksSound /\ [LinksNext]_linkVars => LinksSound'
  <2> SUFFICES ASSUME LinksSound, [LinksNext]_linkVars PROVE LinksSound'
    OBVIOUS
  <2>1. CASE UNCHANGED linkVars
    BY <2>1 DEF linkVars, LinksSound, LinksTypeOK, NoLinkOfAFormerCluster, LinkedOnce
  <2>2. CASE LinksNext
    BY <2>2, ReloadKeeps, ReconnectKeeps, BreakOrSweepKeeps, EditKeeps DEF LinksNext
  <2> QED BY <2>1, <2>2
<1> QED BY <1>1, LinksStart, PTL DEF LinksSpec

(***************************************************************************)
(* The queue of searches                                                   *)
(***************************************************************************)
WaitsIn(q, c) == \E i \in 1..Len(q) : q[i] = c
OnceIn(q) == \A i, j \in 1..Len(q) : q[i] = q[j] => i = j

(* A search object is there exactly if its client waits or a peer searches *)
(* for it, never both, and client and peer agree on the latter.            *)
PlacesAgree ==
  \A c \in Searchers :
    /\ search[c] <=> WaitsIn(searchQueue, c) \/ remoteSearch[c] # NoPeer
    /\ ~ (WaitsIn(searchQueue, c) /\ remoteSearch[c] # NoPeer)
    /\ \A p \in Peers : c \in activeSearches[p] <=> remoteSearch[c] = p

QueueInv == QueueTypeOK /\ OnceIn(searchQueue) /\ PlacesAgree

LEMMA AppendOnce ==
  ASSUME NEW S, NEW q \in Seq(S), NEW c \in S, OnceIn(q), ~ WaitsIn(q, c)
  PROVE  /\ Append(q, c) \in Seq(S) /\ OnceIn(Append(q, c))
         /\ \A d : WaitsIn(Append(q, c), d) <=> WaitsIn(q, d) \/ d = c
<1> DEFINE r == Append(q, c)
<1>1. /\ r \in Seq(S) /\ Len(r) = Len(q) + 1 /\ Len(q) \in Nat
      /\ r[Len(q) + 1] = c /\ \A i \in 1..Len(q) : r[i] = q[i]
  OBVIOUS
<1> QED BY <1>1 DEF OnceIn, WaitsIn

LEMMA WithoutOne ==
  ASSUME NEW S, NEW q \in Seq(S), NEW i \in 1..Len(q), NEW r \in Seq(S),
         OnceIn(q), Len(r) = Len(q) - 1,
         \A j \in 1..Len(r) : r[j] = IF j < i THEN q[j] ELSE q[j + 1]
  PROVE  OnceIn(r) /\ \A d : WaitsIn(r, d) <=> WaitsIn(q, d) /\ d # q[i]
<1>1. Len(q) \in Nat
  OBVIOUS
<1>2. OnceIn(r)
  BY <1>1 DEF OnceIn
<1>3. ASSUME NEW j \in 1..Len(r) PROVE WaitsIn(q, r[j]) /\ r[j] # q[i]
  <2>1. CASE j < i
    <3>1. j \in 1..Len(q) /\ j # i /\ r[j] = q[j]
      BY <1>1, <2>1
    <3> QED BY <3>1 DEF OnceIn, WaitsIn
  <2>2. CASE j >= i
    <3>1. j + 1 \in 1..Len(q) /\ j + 1 # i /\ r[j] = q[j + 1]
      BY <1>1, <2>2
    <3> QED BY <3>1 DEF OnceIn, WaitsIn
  <2> QED BY <1>1, <2>1, <2>2
<1>4. ASSUME NEW j \in 1..Len(q), j # i PROVE WaitsIn(r, q[j])
  <2>1. CASE j < i
    <3>1. j \in 1..Len(r) /\ r[j] = q[j]
      BY <1>1, <2>1
    <3> QED BY <3>1 DEF WaitsIn
  <2>2. CASE j > i
    <3>1. j - 1 \in 1..Len(r) /\ r[j - 1] = q[j]
      BY <1>1, <2>2
    <3> QED BY <3>1 DEF WaitsIn
  <2> QED BY <1>4, <2>1, <2>2
<1>5. ASSUME NEW d, WaitsIn(r, d) PROVE WaitsIn(q, d) /\ d # q[i]
  BY <1>3, <1>5 DEF WaitsIn
<1>6. ASSUME NEW d, WaitsIn(q, d), d # q[i] PROVE WaitsIn(r, d)
  BY <1>4, <1>6 DEF WaitsIn
<1> QED BY <1>2, <1>5, <1>6

LEMMA RemoveAtOnce ==
  ASSUME NEW S, NEW q \in Seq(S), NEW i \in 1..Len(q), OnceIn(q)
  PROVE  /\ RemoveAt(q, i) \in Seq(S) /\ OnceIn(RemoveAt(q, i))
         /\ \A d : WaitsIn(RemoveAt(q, i), d) <=> WaitsIn(q, d) /\ d # q[i]
<1> DEFINE a == SubSeq(q, 1, i - 1)
           b == SubSeq(q, i + 1, Len(q))
           r == RemoveAt(q, i)
<1>0. Len(q) \in Nat
  OBVIOUS
<1>1. a \in Seq(S) /\ Len(a) = i - 1 /\ \A j \in 1..(i - 1) : a[j] = q[j]
  OBVIOUS
<1>2. b \in Seq(S) /\ Len(b) = Len(q) - i /\ \A j \in 1..(Len(q) - i) : b[j] = q[i + j]
  OBVIOUS
<1>3. r = a \o b
  BY DEF RemoveAt
<1> HIDE DEF a, b, r
<1>4. r \in Seq(S) /\ Len(r) = Len(q) - 1
  BY <1>1, <1>2, <1>3, <1>0
<1>5. ASSUME NEW j \in 1..Len(r) PROVE r[j] = IF j < i THEN q[j] ELSE q[j + 1]
  <2>1. CASE j < i
    <3>1. j \in 1..Len(a)
      BY <1>1, <2>1
    <3>2. r[j] = a[j]
      BY <1>1, <1>2, <1>3, <3>1
    <3> QED BY <1>1, <2>1, <3>2
  <2>2. CASE j >= i
    <3>1. j - Len(a) \in 1..Len(b) /\ i + (j - Len(a)) = j + 1 /\ j \notin 1..Len(a)
      BY <1>0, <1>1, <1>2, <1>4, <2>2
    <3>2. r[j] = b[j - Len(a)]
      BY <1>1, <1>2, <1>3, <3>1
    <3> QED BY <1>1, <1>2, <2>2, <3>1, <3>2
  <2> QED BY <1>0, <1>4, <2>1, <2>2
<1> QED BY <1>4, <1>5, WithoutOne DEF r

LEMMA TailOnce ==
  ASSUME NEW S, NEW q \in Seq(S), q # <<>>, OnceIn(q)
  PROVE  /\ Tail(q) \in Seq(S) /\ OnceIn(Tail(q)) /\ WaitsIn(q, Head(q))
         /\ \A d : WaitsIn(Tail(q), d) <=> WaitsIn(q, d) /\ d # Head(q)
<1> DEFINE r == Tail(q)
<1>1. /\ r \in Seq(S) /\ Len(r) = Len(q) - 1 /\ 1 \in 1..Len(q) /\ Head(q) = q[1]
      /\ \A j \in 1..Len(r) : r[j] = q[j + 1]
  OBVIOUS
<1> HIDE DEF r
<1>2. \A j \in 1..Len(r) : r[j] = IF j < 1 THEN q[j] ELSE q[j + 1]
  BY <1>1
<1>3. WaitsIn(q, Head(q))
  BY <1>1 DEF WaitsIn
<1>4. OnceIn(r) /\ \A d : WaitsIn(r, d) <=> WaitsIn(q, d) /\ d # q[1]
  BY <1>1, <1>2, WithoutOne
<1> QED BY <1>1, <1>3, <1>4 DEF r

(* Taking a client off the list of its peer takes it off every list. *)
LEMMA UnlinkLeaves ==
  ASSUME QueueInv, NEW c \in Searchers, Unlink(c)
  PROVE  /\ remoteSearch' \in [Searchers -> Peers \cup {NoPeer}]
         /\ activeSearches' \in [Peers -> SUBSET Searchers]
         /\ \A d \in Searchers : remoteSearch'[d] = IF d = c THEN NoPeer ELSE remoteSearch[d]
         /\ \A d \in Searchers, p \in Peers : d \in activeSearches'[p] <=> remoteSearch'[d] = p
<1> USE QueueAssumption DEF QueueInv, QueueTypeOK
<1>1. /\ remoteSearch' \in [Searchers -> Peers \cup {NoPeer}]
      /\ activeSearches' \in [Peers -> SUBSET Searchers]
      /\ \A d \in Searchers : remoteSearch'[d] = IF d = c THEN NoPeer ELSE remoteSearch[d]
  BY DEF Unlink
<1>2. ASSUME NEW d \in Searchers, NEW p \in Peers
      PROVE  d \in activeSearches'[p] <=> remoteSearch'[d] = p
  <2>1. d \in activeSearches[p] <=> remoteSearch[d] = p
    BY DEF PlacesAgree
  <2>2. activeSearches'[p] = IF p = remoteSearch[c] THEN activeSearches[p] \ {c} ELSE activeSearches[p]
    BY DEF Unlink
  <2> QED BY <2>1, <2>2, <1>1
<1> QED BY <1>1, <1>2

LEMMA RequestKeeps ==
  ASSUME QueueInv, NEW c \in Searchers, NEW loads \in BOOLEAN, SearchRequest(c, loads)
  PROVE  QueueInv'
<1> USE DEF QueueInv
<1>1. Waiting(c) <=> WaitsIn(searchQueue, c)
  BY DEF Waiting, WaitsIn, QueueTypeOK
<1>2. CASE WaitsIn(searchQueue, c)
  <2>1. PICK i \in 1..Len(searchQueue) :
          searchQueue[i] = c /\ searchQueue' = RemoveAt(searchQueue, i)
    BY <1>1, <1>2 DEF SearchRequest, QueueTypeOK
  <2>2. /\ search' = [search EXCEPT ![c] = FALSE]
        /\ UNCHANGED <<remoteSearch, activeSearches, alive>>
    BY <1>1, <1>2 DEF SearchRequest
  <2>3. /\ searchQueue' \in Seq(Searchers) /\ OnceIn(searchQueue')
        /\ \A d : WaitsIn(searchQueue', d) <=> WaitsIn(searchQueue, d) /\ d # c
    BY <2>1, RemoveAtOnce DEF QueueTypeOK
  <2>4. QueueTypeOK'
    BY <2>2, <2>3 DEF QueueTypeOK
  <2>5. PlacesAgree'
    <3> SUFFICES ASSUME NEW d \in Searchers
                 PROVE  /\ search'[d] <=> WaitsIn(searchQueue', d) \/ remoteSearch[d] # NoPeer
                        /\ ~ (WaitsIn(searchQueue', d) /\ remoteSearch[d] # NoPeer)
                        /\ \A p \in Peers : d \in activeSearches[p] <=> remoteSearch[d] = p
      BY <2>2 DEF PlacesAgree
    <3>1. search'[d] = IF d = c THEN FALSE ELSE search[d]
      BY <2>2 DEF QueueTypeOK
    <3> QED BY <1>2, <2>3, <3>1 DEF PlacesAgree
  <2> QED BY <2>3, <2>4, <2>5
<1>3. CASE ~ WaitsIn(searchQueue, c)
  <2>1. /\ Unlink(c)
        /\ search' = [search EXCEPT ![c] = loads]
        /\ searchQueue' = IF loads THEN Append(searchQueue, c) ELSE searchQueue
        /\ alive' = alive
    BY <1>1, <1>3 DEF SearchRequest
  <2>2. /\ searchQueue' \in Seq(Searchers) /\ OnceIn(searchQueue')
        /\ \A d : WaitsIn(searchQueue', d) <=> WaitsIn(searchQueue, d) \/ (loads /\ d = c)
    BY <1>3, <2>1, AppendOnce DEF QueueTypeOK
  <2>3. QueueTypeOK'
    BY <2>1, <2>2, UnlinkLeaves DEF QueueTypeOK
  <2>4. PlacesAgree'
    <3> SUFFICES ASSUME NEW d \in Searchers
                 PROVE  /\ search'[d] <=> WaitsIn(searchQueue', d) \/ remoteSearch'[d] # NoPeer
                        /\ ~ (WaitsIn(searchQueue', d) /\ remoteSearch'[d] # NoPeer)
      BY <2>1, UnlinkLeaves DEF PlacesAgree
    <3>1. search'[d] = IF d = c THEN loads ELSE search[d]
      BY <2>1 DEF QueueTypeOK
    <3>2. remoteSearch'[d] = IF d = c THEN NoPeer ELSE remoteSearch[d]
      BY <2>1, UnlinkLeaves
    <3> QED BY <1>3, <2>2, <3>1, <3>2 DEF PlacesAgree
  <2> QED BY <2>2, <2>3, <2>4
<1> QED BY <1>2, <1>3

LEMMA SearchKeeps ==
  ASSUME QueueInv, NEW c \in Searchers, NEW hits, NEW l \in BOOLEAN, Search(c, hits, l)
  PROVE  QueueInv'
<1> USE QueueAssumption DEF QueueInv
<1>1. /\ searchQueue # <<>> /\ c = Head(searchQueue) /\ searchQueue' = Tail(searchQueue)
      /\ alive' = alive
  BY DEF Search
<1>2. /\ searchQueue' \in Seq(Searchers) /\ OnceIn(searchQueue') /\ WaitsIn(searchQueue, c)
      /\ \A d : WaitsIn(searchQueue', d) <=> WaitsIn(searchQueue, d) /\ d # c
  BY <1>1, TailOnce DEF QueueTypeOK
<1>3. search[c] /\ remoteSearch[c] = NoPeer
  BY <1>2 DEF PlacesAgree
<1>4. ASSUME NEW p \in alive,
             remoteSearch' = [remoteSearch EXCEPT ![c] = p],
             activeSearches' = [q \in Peers |->
                   CASE q = p -> activeSearches[q] \cup {c}
                     [] q = remoteSearch[c] /\ q # p -> activeSearches[q] \ {c}
                     [] OTHER -> activeSearches[q]],
             UNCHANGED search
      PROVE  QueueInv'
  <2>1. p \in Peers
    BY DEF QueueTypeOK
  <2>2. activeSearches' = [q \in Peers |->
          IF q = p THEN activeSearches[q] \cup {c} ELSE activeSearches[q]]
    BY <1>3, <1>4
  <2>3. QueueTypeOK'
    BY <1>1, <1>2, <1>4, <2>1, <2>2 DEF QueueTypeOK
  <2>4. PlacesAgree'
    <3> SUFFICES ASSUME NEW d \in Searchers
                 PROVE  /\ search[d] <=> WaitsIn(searchQueue', d) \/ remoteSearch'[d] # NoPeer
                        /\ ~ (WaitsIn(searchQueue', d) /\ remoteSearch'[d] # NoPeer)
                        /\ \A q \in Peers : d \in activeSearches'[q] <=> remoteSearch'[d] = q
      BY <1>4 DEF PlacesAgree
    <3>1. remoteSearch'[d] = IF d = c THEN p ELSE remoteSearch[d]
      BY <1>4 DEF QueueTypeOK
    <3>2. \A q \in Peers : d \in activeSearches[q] <=> remoteSearch[d] = q
      BY DEF PlacesAgree
    <3>3. \A q \in Peers : d \in activeSearches'[q] <=> d \in activeSearches[q] \/ (q = p /\ d = c)
      BY <2>2
    <3> QED BY <1>2, <1>3, <2>1, <3>1, <3>2, <3>3 DEF PlacesAgree
  <2> QED BY <1>2, <2>3, <2>4
<1>5. ASSUME Unlink(c), search' = [search EXCEPT ![c] = FALSE]
      PROVE  QueueInv'
  <2>1. QueueTypeOK'
    BY <1>1, <1>2, <1>5, UnlinkLeaves DEF QueueTypeOK
  <2>2. PlacesAgree'
    <3> SUFFICES ASSUME NEW d \in Searchers
                 PROVE  /\ search'[d] <=> WaitsIn(searchQueue', d) \/ remoteSearch'[d] # NoPeer
                        /\ ~ (WaitsIn(searchQueue', d) /\ remoteSearch'[d] # NoPeer)
      BY <1>5, UnlinkLeaves DEF PlacesAgree
    <3>1. search'[d] = IF d = c THEN FALSE ELSE search[d]
      BY <1>5 DEF QueueTypeOK
    <3>2. remoteSearch'[d] = IF d = c THEN NoPeer ELSE remoteSearch[d]
      BY <1>5, UnlinkLeaves
    <3> QED BY <1>2, <3>1, <3>2 DEF PlacesAgree
  <2> QED BY <1>2, <2>1, <2>2
<1> QED BY <1>4, <1>5 DEF Search

LEMMA PeerAnswersKeeps ==
  ASSUME QueueInv, NEW p \in Peers, NEW c \in Searchers, PeerAnswers(p, c)
  PROVE  QueueInv'
<1> USE QueueAssumption DEF QueueInv
<1>1. /\ c \in activeSearches[p] /\ Unlink(c)
      /\ search' = [search EXCEPT ![c] = FALSE]
      /\ UNCHANGED <<searchQueue, alive>>
  BY DEF PeerAnswers
<1>2. remoteSearch[c] # NoPeer /\ ~ WaitsIn(searchQueue, c)
  BY <1>1 DEF PlacesAgree
<1>3. QueueTypeOK'
  BY <1>1, UnlinkLeaves DEF QueueTypeOK
<1>4. PlacesAgree'
  <2> SUFFICES ASSUME NEW d \in Searchers
               PROVE  /\ search'[d] <=> WaitsIn(searchQueue, d) \/ remoteSearch'[d] # NoPeer
                      /\ ~ (WaitsIn(searchQueue, d) /\ remoteSearch'[d] # NoPeer)
    BY <1>1, UnlinkLeaves DEF PlacesAgree, WaitsIn
  <2>1. search'[d] = IF d = c THEN FALSE ELSE search[d]
    BY <1>1 DEF QueueTypeOK
  <2>2. remoteSearch'[d] = IF d = c THEN NoPeer ELSE remoteSearch[d]
    BY <1>1, UnlinkLeaves
  <2> QED BY <1>2, <2>1, <2>2 DEF PlacesAgree
<1> QED BY <1>1, <1>3, <1>4 DEF OnceIn

LEMMA PeerGoesKeeps ==
  ASSUME QueueInv, NEW p \in Peers, PeerGoes(p)
  PROVE  QueueInv'
<1> USE QueueAssumption DEF QueueInv
<1>1. /\ alive' = alive \ {p}
      /\ remoteSearch' = [c \in Searchers |-> IF c \in activeSearches[p] THEN NoPeer ELSE remoteSearch[c]]
      /\ search' = [c \in Searchers |-> search[c] /\ c \notin activeSearches[p]]
      /\ activeSearches' = [activeSearches EXCEPT ![p] = {}]
      /\ UNCHANGED searchQueue
  BY DEF PeerGoes
<1>2. QueueTypeOK'
  BY <1>1 DEF QueueTypeOK
<1>3. PlacesAgree'
  <2> SUFFICES ASSUME NEW d \in Searchers
               PROVE  /\ search'[d] <=> WaitsIn(searchQueue, d) \/ remoteSearch'[d] # NoPeer
                      /\ ~ (WaitsIn(searchQueue, d) /\ remoteSearch'[d] # NoPeer)
                      /\ \A q \in Peers : d \in activeSearches'[q] <=> remoteSearch'[d] = q
    BY <1>1 DEF PlacesAgree, WaitsIn
  <2>1. \A q \in Peers : d \in activeSearches[q] <=> remoteSearch[d] = q
    BY DEF PlacesAgree
  <2>2. /\ search'[d] <=> search[d] /\ remoteSearch[d] # p
        /\ remoteSearch'[d] = IF remoteSearch[d] = p THEN NoPeer ELSE remoteSearch[d]
    BY <1>1, <2>1
  <2>3. \A q \in Peers : activeSearches'[q] = IF q = p THEN {} ELSE activeSearches[q]
    BY <1>1 DEF QueueTypeOK
  <2> QED BY <2>1, <2>2, <2>3 DEF PlacesAgree
<1> QED BY <1>1, <1>2, <1>3 DEF OnceIn

(* One place in the queue or one peer, counted. *)
LEMMA PlacesAreOne == QueueInv => QueueSound
<1> SUFFICES ASSUME QueueInv, NEW c \in Searchers
             PROVE  Cardinality({i \in DOMAIN searchQueue : searchQueue[i] = c})
                      + Cardinality({p \in Peers : c \in activeSearches[p]}) = IF search[c] THEN 1 ELSE 0
  BY DEF QueueSound, OnePlacePerSearch, QueueInv, PlacesAgree
<1> USE QueueAssumption DEF QueueInv
<1> DEFINE I == {i \in DOMAIN searchQueue : searchQueue[i] = c}
           P == {p \in Peers : c \in activeSearches[p]}
<1>1. DOMAIN searchQueue = 1..Len(searchQueue)
  BY DEF QueueTypeOK
<1>2. Cardinality(I) = IF WaitsIn(searchQueue, c) THEN 1 ELSE 0
  <2>1. CASE WaitsIn(searchQueue, c)
    <3>1. PICK i \in 1..Len(searchQueue) : searchQueue[i] = c
      BY <2>1 DEF WaitsIn
    <3>2. I = {i}
      BY <1>1, <3>1 DEF OnceIn
    <3> QED BY <2>1, <3>2, FS_Singleton
  <2>2. CASE ~ WaitsIn(searchQueue, c)
    <3>1. I = {}
      BY <1>1, <2>2 DEF WaitsIn
    <3> QED BY <2>2, <3>1, FS_EmptySet
  <2> QED BY <2>1, <2>2
<1>3. Cardinality(P) = IF remoteSearch[c] # NoPeer THEN 1 ELSE 0
  <2>1. CASE remoteSearch[c] # NoPeer
    <3>1. P = {remoteSearch[c]}
      BY <2>1 DEF PlacesAgree, QueueTypeOK
    <3> QED BY <2>1, <3>1, FS_Singleton
  <2>2. CASE remoteSearch[c] = NoPeer
    <3>1. P = {}
      BY <2>2 DEF PlacesAgree
    <3> QED BY <2>2, <3>1, FS_EmptySet
  <2> QED BY <2>1, <2>2
<1> HIDE DEF I, P
<1>4. /\ search[c] <=> WaitsIn(searchQueue, c) \/ remoteSearch[c] # NoPeer
      /\ ~ (WaitsIn(searchQueue, c) /\ remoteSearch[c] # NoPeer)
  BY DEF PlacesAgree
<1>5. Cardinality(I) + Cardinality(P) = IF search[c] THEN 1 ELSE 0
  BY <1>2, <1>3, <1>4
<1> QED BY <1>5 DEF I, P

(* A search object always has one place that will finish it, and the       *)
(* client and the linked server that looks for it agree about it, whatever *)
(* is asked again and whichever server goes (search.cc:300-422).           *)
THEOREM SearchesHaveOnePlace == QueueSpec => []QueueSound
<1>1. QueueInit => QueueInv
  <2> SUFFICES ASSUME QueueInit PROVE QueueInv
    OBVIOUS
  <2>1. \A c : ~ WaitsIn(searchQueue, c)
    BY DEF QueueInit, WaitsIn
  <2> QED BY <2>1, QueueAssumption DEF QueueInit, QueueInv, QueueTypeOK, OnceIn, PlacesAgree
<1>2. QueueInv /\ [QueueNext]_queueVars => QueueInv'
  <2> SUFFICES ASSUME QueueInv, [QueueNext]_queueVars PROVE QueueInv'
    OBVIOUS
  <2>1. CASE UNCHANGED queueVars
    BY <2>1 DEF queueVars, QueueInv, QueueTypeOK, OnceIn, PlacesAgree, WaitsIn
  <2>2. ASSUME NEW p \in Peers, PeerComes(p) PROVE QueueInv'
    BY <2>2 DEF PeerComes, QueueInv, QueueTypeOK, OnceIn, PlacesAgree, WaitsIn
  <2>3. CASE QueueNext
    BY <2>2, <2>3, RequestKeeps, SearchKeeps, PeerAnswersKeeps, PeerGoesKeeps DEF QueueNext, QueueStep
  <2> QED BY <2>1, <2>3
<1> QED BY <1>1, <1>2, PlacesAreOne, PTL DEF QueueSpec

(***************************************************************************)
(* One search                                                              *)
(***************************************************************************)
(* Of n sets in turn, the one k rounds before the i-th. *)
Back(n, i, k) == IF i > k THEN i - k ELSE i - k + n

Hits == {f \in Addresses : Eligible(f)}

(* How far the walk has come: what a search should return is found up to   *)
(* there, and the limit is not reached.                                    *)
FoundSoFar ==
  /\ found = {f \in Hits : f < curval \/ (Len(require) = 1 /\ f = curval)}
  /\ found = {} \/ Cardinality(found) < maxMatches

(* A run of matches is a run of sets that have curval. *)
RunIsOfCurval ==
  Len(require) > 1 =>
    /\ iter \in 1..Len(require) /\ matches < Len(require)
    /\ \A k \in 1..matches : curval \in require[Back(Len(require), iter, k)]

SearchInv ==
  /\ SearchTypeOK /\ SearchIsRight /\ IsFiniteSet(found)
  /\ phase = "load" => found = {} /\ curval = 0 /\ matches = 0 /\ iter = 1
  /\ phase = "merge" => Len(require) > 0 /\ FoundSoFar /\ RunIsOfCurval

(* After a round that leaves the sets and the limit alone the answer may   *)
(* be judged by Hits.                                                      *)
Same == UNCHANGED <<require, excluded, maxMatches>>

LEMMA SameHits ==
  ASSUME Same
  PROVE  /\ \A f : (Eligible(f)' <=> Eligible(f)) /\ (Passes(f)' <=> Passes(f))
         /\ Hits' = Hits
<1>1. \A f : (Eligible(f)' <=> Eligible(f)) /\ (Passes(f)' <=> Passes(f))
  BY DEF Same, Eligible, Passes, Suits
<1> QED BY <1>1 DEF Hits

(* A search that ends is right if it has found all hits up to some point,  *)
(* and is full or has found them all.                                      *)
LEMMA DoneIsRight ==
  ASSUME SearchTypeOK', Same, Len(require) > 0, NEW n \in Nat,
         found' = {f \in Hits : f < n}, IsFiniteSet(found'),
         Cardinality(found') <= maxMatches \/ Cardinality(found') <= 1,
         \/ Cardinality(found') = IF maxMatches = 0 THEN 1 ELSE maxMatches
         \/ found' = Hits
  PROVE  SearchIsRight'
<1> USE SearchAssumption
<1> DEFINE most == IF maxMatches = 0 THEN 1 ELSE maxMatches
<1>1. maxMatches \in Nat /\ Cardinality(found') \in Nat
  BY FS_CardinalityType DEF SearchTypeOK, Same
<1>2. Cardinality(found') <= most
  BY <1>1
<1>3. \A f \in found' : Eligible(f)' /\ f < n /\ f \in Nat
  BY SameHits DEF Hits
<1>4. \A f \in found', g \in Addresses : g < f /\ Eligible(g)' => g \in found'
  <2> SUFFICES ASSUME NEW f \in found', NEW g \in Addresses, g < f, Eligible(g)'
               PROVE  g \in found'
    OBVIOUS
  <2>1. g \in Hits
    BY SameHits DEF Hits
  <2>2. g < n
    BY <1>3
  <2> QED BY <2>1, <2>2
<1>5. Len(require)' > 0
  BY DEF Same
<1>6. \/ Cardinality(found') = most
      \/ \A g \in Addresses : Eligible(g)' => g \in found'
  BY SameHits DEF Hits
<1>7. most' = most
  BY DEF Same
<1> HIDE DEF most
<1>8. /\ \A f \in found' : Len(require)' > 0 /\ Eligible(f)'
      /\ \A f \in found', g \in Addresses : g < f /\ Eligible(g)' => g \in found'
      /\ Cardinality(found') <= most
      /\ \/ Len(require)' = 0 \/ Cardinality(found') = most
         \/ \A g \in Addresses : Eligible(g)' => g \in found'
  BY <1>2, <1>3, <1>4, <1>5, <1>6
<1> QED BY <1>7, <1>8 DEF SearchIsRight, most

(* A file that is a hit if it passes goes to the list, and the search ends *)
(* exactly when that makes the list full.                                  *)
LEMMA TakeFinds ==
  ASSUME SearchInv, Same, phase = "merge", NEW f \in Addresses, f \notin found,
         Passes(f) <=> Eligible(f), found' = IF Passes(f) THEN found \cup {f} ELSE found
  PROVE  /\ found' \subseteq Addresses /\ IsFiniteSet(found')
         /\ found' = found \cup {g \in Hits : g = f}
         /\ Cardinality(found') <= maxMatches \/ Cardinality(found') <= 1
         /\ Passes(f) /\ Cardinality(found) + 1 >= maxMatches =>
              Cardinality(found') = IF maxMatches = 0 THEN 1 ELSE maxMatches
         /\ ~ (Passes(f) /\ Cardinality(found) + 1 >= maxMatches) =>
              found' = {} \/ Cardinality(found') < maxMatches
<1> USE DEF SearchInv
<1> DEFINE n == Cardinality(found)
           now == Cardinality(found')
<1>1. found' = found \cup {g \in Hits : g = f} /\ found' \subseteq Addresses
  BY DEF Hits, SearchTypeOK
<1>2. n \in Nat /\ maxMatches \in Nat /\ (found = {} => n = 0)
  BY FS_CardinalityType, FS_EmptySet DEF SearchTypeOK
<1>3. IsFiniteSet(found') /\ now = IF Passes(f) THEN n + 1 ELSE n
  BY FS_AddElement
<1>4. found = {} \/ n < maxMatches
  BY DEF FoundSoFar
<1>5. ~ Passes(f) => found' = found
  OBVIOUS
<1> HIDE DEF n, now
<1>6. now <= maxMatches \/ now <= 1
  BY <1>2, <1>3, <1>4
<1>7. Passes(f) /\ n + 1 >= maxMatches => now = IF maxMatches = 0 THEN 1 ELSE maxMatches
  BY <1>2, <1>3, <1>4
<1>8. ~ (Passes(f) /\ n + 1 >= maxMatches) => found' = {} \/ now < maxMatches
  BY <1>2, <1>3, <1>4, <1>5
<1> QED BY <1>1, <1>3, <1>6, <1>7, <1>8 DEF n, now

LEMMA StopIsRight ==
  ASSUME SearchInv, phase = "merge", Stop,
         \A f \in Hits : f < curval \/ (Len(require) = 1 /\ f = curval)
  PROVE  SearchInv'
<1> USE SearchAssumption DEF SearchInv
<1>1. Same /\ found' = found /\ phase' = "done" /\ SearchTypeOK'
  BY DEF Stop, Same, SearchTypeOK
<1>2. found' = Hits
  BY <1>1 DEF FoundSoFar
<1>3. curval + 1 \in Nat /\ \A f \in Hits : f < curval + 1
  BY DEF SearchTypeOK, Hits
<1>4. found' = {f \in Hits : f < curval + 1}
  BY <1>2, <1>3
<1>5. Cardinality(found') <= maxMatches \/ Cardinality(found') <= 1
  <2>1. /\ Cardinality(found) \in Nat /\ maxMatches \in Nat
        /\ found = {} => Cardinality(found) = 0
    BY FS_CardinalityType, FS_EmptySet DEF SearchTypeOK
  <2>2. found = {} \/ Cardinality(found) < maxMatches
    BY DEF FoundSoFar
  <2>3. Cardinality(found) <= maxMatches \/ Cardinality(found) <= 1
    BY <2>1, <2>2
  <2> QED BY <1>1, <2>3
<1>6. SearchIsRight'
  BY <1>1, <1>2, <1>3, <1>4, <1>5, DoneIsRight
<1> QED BY <1>1, <1>6

LEMMA WalkKeeps == ASSUME SearchInv, Walk PROVE SearchInv'
<1> USE SearchAssumption DEF SearchInv
<1>0. phase = "merge" /\ Len(require) = 1 /\ FoundSoFar
  BY DEF Walk
<1>1. /\ phase = "merge" /\ Len(require) = 1 /\ FoundSoFar
      /\ \A f \in Hits : f \in require[1] /\ f \in Nat
      /\ require[1] \subseteq Addresses /\ curval \in Nat
  <2>1. require[1] \subseteq Addresses /\ curval \in Nat
    <3>1. require \in Seq(SUBSET Addresses) /\ 1 \in 1..Len(require)
      BY <1>0 DEF SearchTypeOK
    <3>2. require[1] \in SUBSET Addresses
      BY <3>1
    <3>3. curval \in Nat
      BY DEF SearchTypeOK
    <3> QED BY <3>2, <3>3
  <2>2. ASSUME NEW f \in Hits PROVE f \in require[1] /\ f \in Nat
    <3>1. f \in Addresses /\ f \in Nat
      BY <2>2 DEF Hits
    <3>2. Eligible(f) /\ 1 \in 1..Len(require)
      BY <1>0, <2>2 DEF Hits
    <3>3. f \in require[1]
      BY <3>2 DEF Eligible
    <3> QED BY <3>1, <3>3
  <2> QED BY <1>0, <2>1, <2>2
<1>2. CASE (\A f \in require[1] : f <= curval) /\ Stop
  <2>1. \A f \in Hits : f < curval \/ (Len(require) = 1 /\ f = curval)
    BY <1>1, <1>2
  <2> QED BY <1>1, <1>2, <2>1, StopIsRight
<1>3. ASSUME NEW f \in require[1], IsFirstFrom(require[1], curval + 1, f), curval' = f, Take(f),
             UNCHANGED <<require, excluded, maxMatches, iter, matches>>
      PROVE  SearchInv'
  <2>0. Same
    BY <1>3 DEF Same
  <2>1. Same /\ f \in Addresses /\ f > curval /\ f \in Nat
    <3>1. f \in Addresses /\ f \in Nat
      BY <1>1
    <3> QED BY <1>1, <1>3, <2>0, <3>1 DEF IsFirstFrom
  <2>2. \A g \in Hits : g <= curval \/ g >= f
    BY <1>1, <1>3 DEF IsFirstFrom
  <2>3. f \notin found /\ (Passes(f) <=> Eligible(f))
    BY <1>1, <2>1 DEF FoundSoFar, Eligible
  <2>4. found' = IF Passes(f) THEN found \cup {f} ELSE found
    BY <1>3 DEF Take
  <2>5. /\ found' \subseteq Addresses /\ IsFiniteSet(found')
        /\ found' = found \cup {g \in Hits : g = f}
        /\ Cardinality(found') <= maxMatches \/ Cardinality(found') <= 1
        /\ Passes(f) /\ Cardinality(found) + 1 >= maxMatches =>
             Cardinality(found') = IF maxMatches = 0 THEN 1 ELSE maxMatches
        /\ ~ (Passes(f) /\ Cardinality(found) + 1 >= maxMatches) =>
             found' = {} \/ Cardinality(found') < maxMatches
    BY <1>1, <2>1, <2>3, <2>4, TakeFinds
  <2>6. found = {g \in Hits : g <= curval}
    BY <1>1 DEF FoundSoFar
  <2>7. found' = {g \in Hits : g <= f}
    BY <1>1, <2>1, <2>2, <2>5, <2>6
  <2>8. SearchTypeOK'
    BY <1>1, <1>3, <2>1, <2>5 DEF SearchTypeOK, Take
  <2>9. CASE Passes(f) /\ Cardinality(found) + 1 >= maxMatches
    <3>1. phase' = "done"
      BY <1>3, <2>9 DEF Take
    <3>2. found' = {g \in Hits : g < f + 1}
      BY <1>1, <2>1, <2>7
    <3>3. f + 1 \in Nat
      BY <2>1
    <3>4. SearchIsRight'
      BY <1>1, <2>1, <2>5, <2>8, <2>9, <3>2, <3>3, DoneIsRight
    <3> QED BY <2>5, <2>8, <3>1, <3>4
  <2>10. CASE ~ (Passes(f) /\ Cardinality(found) + 1 >= maxMatches)
    <3>1. phase' = "merge" /\ Len(require)' = 1 /\ maxMatches' = maxMatches /\ curval' = f
      BY <1>1, <1>3, <2>10 DEF Take
    <3>2. FoundSoFar'
      <4>1. found' = {g \in Hits' : g < curval' \/ (Len(require)' = 1 /\ g = curval')}
        BY <1>1, <2>1, <2>7, <3>1, SameHits
      <4> QED BY <2>5, <2>10, <3>1, <4>1 DEF FoundSoFar
    <3>3. SearchIsRight'
      BY <3>1 DEF SearchIsRight
    <3>4. RunIsOfCurval'
      BY <3>1 DEF RunIsOfCurval
    <3> QED BY <2>5, <2>8, <3>1, <3>2, <3>3, <3>4
  <2> QED BY <2>9, <2>10
<1> QED BY <1>2, <1>3 DEF Walk

(* One round further, what was k rounds ago is k + 1 rounds ago, and the   *)
(* set just looked at is one round ago.                                    *)
LEMMA BackOneRound ==
  ASSUME NEW n \in Nat, NEW i \in 1..n
  PROVE  LET j == IF i = n THEN 1 ELSE i + 1
         IN  /\ j \in 1..n /\ Back(n, j, 1) = i
             /\ \A k \in 1..(n - 1) : Back(n, j, k + 1) = Back(n, i, k)
BY DEF Back

LEMMA BackIsAll ==
  ASSUME NEW n \in Nat, NEW i \in 1..n, NEW j \in 1..n
  PROVE  j = i \/ \E k \in 1..(n - 1) : Back(n, i, k) = j
<1>1. CASE j < i
  <2>1. i - j \in 1..(n - 1) /\ Back(n, i, i - j) = j
    BY <1>1 DEF Back
  <2> QED BY <2>1
<1>2. CASE j > i
  <2>1. i - j + n \in 1..(n - 1) /\ Back(n, i, i - j + n) = j
    BY <1>2 DEF Back
  <2> QED BY <2>1
<1> QED BY <1>1, <1>2

(* A full run is a file that is in every set. *)
LEMMA FullRunIsInAll ==
  ASSUME SearchInv, phase = "merge", Len(require) > 1, curval \in require[iter],
         matches + 1 = Len(require)
  PROVE  Passes(curval) <=> Eligible(curval)
<1>1. /\ iter \in 1..Len(require) /\ Len(require) \in Nat
      /\ \A k \in 1..(Len(require) - 1) : curval \in require[Back(Len(require), iter, k)]
  BY DEF SearchInv, SearchTypeOK, RunIsOfCurval
<1>2. ASSUME NEW j \in 1..Len(require) PROVE curval \in require[j]
  <2>1. j = iter \/ \E k \in 1..(Len(require) - 1) : Back(Len(require), iter, k) = j
    BY <1>1, BackIsAll
  <2> QED BY <1>1, <2>1
<1> QED BY <1>2 DEF Eligible

LEMMA MergeKeeps == ASSUME SearchInv, Merge PROVE SearchInv'
<1> USE SearchAssumption DEF SearchInv
<1> DEFINE s == require[iter]
           run == (matches + 1) % CharSize
           L == Len(require)
<1>1. phase = "merge" /\ L > 1 /\ FoundSoFar /\ RunIsOfCurval
  BY DEF Merge
<1>2. L \in Nat /\ iter \in 1..L /\ matches \in Nat /\ matches < L /\ matches < CharSize
  BY <1>1 DEF SearchTypeOK, RunIsOfCurval
<1>3. s \subseteq Addresses /\ curval \in Nat /\ maxMatches \in Nat
  <2>1. require \in Seq(SUBSET Addresses)
    BY DEF SearchTypeOK
  <2>2. s \in SUBSET Addresses
    BY <1>2, <2>1
  <2>3. curval \in Nat /\ maxMatches \in Nat
    BY DEF SearchTypeOK
  <2> QED BY <2>2, <2>3
<1>4. \A f \in Hits : f \in s /\ f \in Nat
  BY <1>2, <1>3 DEF Hits, Eligible
<1>5. found = {f \in Hits : f < curval}
  <2> HIDE DEF L
  <2>1. L # 1
    BY <1>1, <1>2
  <2>2. found = {f \in Hits : f < curval \/ (L = 1 /\ f = curval)}
    BY <1>1 DEF FoundSoFar, L
  <2> QED BY <2>1, <2>2
<1>6. \A g \in Hits :
         /\ g <= curval <=> g < curval \/ g = curval
         /\ g <= curval <=> g < curval + 1
  BY <1>3, <1>4
<1>7. run \in 0..(CharSize - 1) /\ (run = 0 \/ run = matches + 1)
  <2>1. CASE matches + 1 < CharSize
    BY <1>2, <2>1
  <2>2. CASE matches + 1 = CharSize
    BY <1>2, <2>2
  <2> QED BY <1>2, <2>1, <2>2
<1>8. NextList \in 1..L /\ Back(L, NextList, 1) = iter
      /\ \A k \in 1..(L - 1) : Back(L, NextList, k + 1) = Back(L, iter, k)
  BY <1>2, BackOneRound DEF NextList
<1> HIDE DEF s, run
<1>9. CASE (\A f \in s : f < curval) /\ Stop
  <2>1. \A f \in Hits : f < curval \/ (Len(require) = 1 /\ f = curval)
    BY <1>4, <1>9
  <2> QED BY <1>1, <1>9, <2>1, StopIsRight
<1>10. ASSUME NEW f \in s, f # curval, IsFirstFrom(s, curval, f),
             curval' = f, matches' = 1, iter' = NextList,
             UNCHANGED <<phase, require, excluded, maxMatches, found>>
      PROVE  SearchInv'
  <2>1. Same /\ f \in Addresses /\ f \in Nat /\ f > curval
    <3>1. f \in Addresses /\ f \in Nat /\ f >= curval
      BY <1>3, <1>10 DEF IsFirstFrom
    <3> QED BY <1>3, <1>10, <3>1 DEF Same
  <2>2. SearchTypeOK'
    BY <1>8, <1>10, <2>1 DEF SearchTypeOK
  <2>3. \A g \in Hits : g < f <=> g < curval
    BY <1>3, <1>4, <1>10, <2>1 DEF IsFirstFrom
  <2>4. FoundSoFar'
    <3> HIDE DEF L
    <3>1. found' = {g \in Hits : g < f}
      BY <1>5, <1>10, <2>3
    <3>2. L' # 1 /\ Hits' = Hits
      <4>1. L' = L
        BY <1>10 DEF L
      <4>2. L # 1
        BY <1>1, <1>2
      <4>3. Hits' = Hits
        BY <2>1, SameHits
      <4> QED BY <4>1, <4>2, <4>3
    <3>3. found' = {g \in Hits' : g < curval' \/ (L' = 1 /\ g = curval')}
      BY <1>10, <3>1, <3>2
    <3> QED BY <1>1, <1>10, <3>3 DEF FoundSoFar, L
  <2>5. RunIsOfCurval'
    <3>1. /\ iter' \in 1..Len(require') /\ matches' < Len(require')
          /\ \A k \in 1..matches' : curval' \in require'[Back(Len(require'), iter', k)]
      BY <1>1, <1>2, <1>8, <1>10 DEF s
    <3> QED BY <3>1 DEF RunIsOfCurval
  <2>6. phase' = "merge" /\ Len(require)' > 0 /\ IsFiniteSet(found')
    BY <1>1, <1>10
  <2> QED BY <2>2, <2>4, <2>5, <2>6 DEF SearchIsRight
<1>11. ASSUME curval \in s, run # L, matches' = run, iter' = NextList,
              UNCHANGED <<phase, require, excluded, maxMatches, curval, found>>
       PROVE  SearchInv'
  <2>1. Same
    BY <1>11 DEF Same
  <2>2. SearchTypeOK'
    BY <1>7, <1>8, <1>11 DEF SearchTypeOK
  <2>3. FoundSoFar'
    BY <1>1, <1>11, <2>1, SameHits DEF FoundSoFar
  <2>4. ASSUME NEW k \in 1..run PROVE curval \in require[Back(L, NextList, k)]
    <3>1. CASE k = 1
      BY <1>8, <1>11, <3>1 DEF s
    <3>2. CASE k > 1
      <4>1. k - 1 \in 1..matches /\ k - 1 \in 1..(L - 1)
        BY <1>2, <1>7, <3>2
      <4>2. Back(L, NextList, k) = Back(L, iter, k - 1)
        <5>1. Back(L, NextList, (k - 1) + 1) = Back(L, iter, k - 1)
          BY <1>8, <4>1
        <5> QED BY <5>1, <1>7
      <4> QED BY <1>1, <4>1, <4>2 DEF RunIsOfCurval
    <3> QED BY <1>7, <3>1, <3>2
  <2>5. run < L
    BY <1>2, <1>7, <1>11
  <2>6. RunIsOfCurval'
    <3>1. /\ iter' \in 1..Len(require') /\ matches' < Len(require')
          /\ \A k \in 1..matches' : curval' \in require'[Back(Len(require'), iter', k)]
      BY <1>8, <1>11, <2>4, <2>5
    <3> QED BY <3>1 DEF RunIsOfCurval
  <2>7. phase' = "merge" /\ Len(require)' > 0 /\ IsFiniteSet(found')
    BY <1>1, <1>11
  <2>8. SearchIsRight'
    BY <2>7 DEF SearchIsRight
  <2> HIDE DEF SearchInv
  <2> QED BY <2>2, <2>3, <2>6, <2>7, <2>8 DEF SearchInv
<1>12. ASSUME curval \in s, run = L,
              found' = IF Passes(curval) THEN found \cup {curval} ELSE found,
              UNCHANGED <<require, excluded, maxMatches>>
       PROVE  /\ Same /\ curval \in Addresses
              /\ found' \subseteq Addresses /\ IsFiniteSet(found')
              /\ found' = {g \in Hits : g <= curval}
              /\ Cardinality(found') <= maxMatches \/ Cardinality(found') <= 1
              /\ Passes(curval) /\ Cardinality(found) + 1 >= maxMatches =>
                   Cardinality(found') = IF maxMatches = 0 THEN 1 ELSE maxMatches
              /\ ~ (Passes(curval) /\ Cardinality(found) + 1 >= maxMatches) =>
                   found' = {} \/ Cardinality(found') < maxMatches
  <2>1. Same /\ curval \in Addresses /\ curval \notin found
    BY <1>3, <1>5, <1>12 DEF Same
  <2>2. matches + 1 = L
    BY <1>1, <1>2, <1>7, <1>12
  <2>3. Passes(curval) <=> Eligible(curval)
    BY <1>1, <1>12, <2>2, FullRunIsInAll DEF s
  <2>4. /\ found' \subseteq Addresses /\ IsFiniteSet(found')
        /\ found' = found \cup {g \in Hits : g = curval}
        /\ Cardinality(found') <= maxMatches \/ Cardinality(found') <= 1
        /\ Passes(curval) /\ Cardinality(found) + 1 >= maxMatches =>
             Cardinality(found') = IF maxMatches = 0 THEN 1 ELSE maxMatches
        /\ ~ (Passes(curval) /\ Cardinality(found) + 1 >= maxMatches) =>
             found' = {} \/ Cardinality(found') < maxMatches
    BY <1>1, <1>12, <2>1, <2>3, TakeFinds
  <2>5. found' = {g \in Hits : g <= curval}
    <3>1. \A g : g \in found' <=> g \in Hits /\ g <= curval
      BY <1>5, <1>6, <2>4
    <3> QED BY <3>1
  <2> QED BY <2>1, <2>4, <2>5
<1>13. ASSUME curval \in s, run = L, \A f \in s : f <= curval,
              found' = IF Passes(curval) THEN found \cup {curval} ELSE found,
              phase' = "done", UNCHANGED <<curval, matches, iter>>,
              UNCHANGED <<require, excluded, maxMatches>>
       PROVE  SearchInv'
  <2>1. /\ Same /\ found' \subseteq Addresses /\ IsFiniteSet(found')
        /\ found' = {g \in Hits : g <= curval}
        /\ Cardinality(found') <= maxMatches \/ Cardinality(found') <= 1
    BY <1>12, <1>13
  <2>2. SearchTypeOK'
    BY <1>13, <2>1 DEF SearchTypeOK
  <2>3. found' = Hits
    BY <1>4, <1>13, <2>1
  <2>4. found' = {g \in Hits : g < curval + 1} /\ curval + 1 \in Nat
    <3>1. \A g : g \in found' <=> g \in Hits /\ g < curval + 1
      BY <1>6, <2>1
    <3> QED BY <1>3, <3>1
  <2>5. SearchIsRight'
    BY <1>1, <2>1, <2>2, <2>3, <2>4, DoneIsRight
  <2> QED BY <1>13, <2>1, <2>2, <2>5
<1>14. ASSUME curval \in s, run = L, NEW f \in s, IsFirstFrom(s, curval + 1, f),
              Take(curval), curval' = f, matches' = 1, iter' = NextList,
              UNCHANGED <<require, excluded, maxMatches>>
       PROVE  SearchInv'
  <2>0. found' = IF Passes(curval) THEN found \cup {curval} ELSE found
    BY <1>14 DEF Take
  <2>1. /\ Same /\ found' \subseteq Addresses /\ IsFiniteSet(found')
        /\ found' = {g \in Hits : g <= curval}
        /\ Cardinality(found') <= maxMatches \/ Cardinality(found') <= 1
        /\ Passes(curval) /\ Cardinality(found) + 1 >= maxMatches =>
             Cardinality(found') = IF maxMatches = 0 THEN 1 ELSE maxMatches
        /\ ~ (Passes(curval) /\ Cardinality(found) + 1 >= maxMatches) =>
             found' = {} \/ Cardinality(found') < maxMatches
    BY <1>12, <1>14, <2>0
  <2>2. f \in Addresses /\ f \in Nat /\ f > curval
    <3>1. f \in Addresses /\ f \in Nat /\ f >= curval + 1
      BY <1>3, <1>14 DEF IsFirstFrom
    <3> QED BY <1>3, <3>1
  <2>3. SearchTypeOK'
    BY <1>1, <1>8, <1>14, <2>1, <2>2 DEF SearchTypeOK, Take
  <2>4. CASE Passes(curval) /\ Cardinality(found) + 1 >= maxMatches
    <3>1. phase' = "done"
      BY <1>14, <2>4 DEF Take
    <3>2. found' = {g \in Hits : g < curval + 1} /\ curval + 1 \in Nat
      <4>1. \A g : g \in found' <=> g \in Hits /\ g < curval + 1
        BY <1>6, <2>1
      <4> QED BY <1>3, <4>1
    <3>3. SearchIsRight'
      BY <1>1, <2>1, <2>3, <2>4, <3>2, DoneIsRight
    <3> QED BY <2>1, <2>3, <3>1, <3>3
  <2>5. CASE ~ (Passes(curval) /\ Cardinality(found) + 1 >= maxMatches)
    <3>1. /\ phase' = "merge" /\ Len(require)' > 0 /\ Len(require)' > 1
          /\ maxMatches' = maxMatches /\ curval' = f
      BY <1>1, <1>14, <2>5 DEF Take
    <3>2. \A g \in Hits : g <= curval <=> g < f
      BY <1>3, <1>4, <1>14, <2>2 DEF IsFirstFrom
    <3>3. FoundSoFar'
      <4> HIDE DEF L
      <4>1. found' = {g \in Hits : g < f}
        BY <2>1, <3>2
      <4>2. L' # 1 /\ Hits' = Hits
        BY <1>1, <1>2, <1>14, <2>1, SameHits DEF L
      <4>3. found' = {g \in Hits' : g < curval' \/ (L' = 1 /\ g = curval')}
        BY <1>14, <4>1, <4>2
      <4> QED BY <2>1, <2>5, <3>1, <4>3 DEF FoundSoFar, L
    <3>4. RunIsOfCurval'
      <4>1. /\ iter' \in 1..Len(require') /\ matches' < Len(require')
            /\ \A k \in 1..matches' : curval' \in require'[Back(Len(require'), iter', k)]
        BY <1>1, <1>2, <1>8, <1>14 DEF s
      <4> QED BY <4>1 DEF RunIsOfCurval
    <3>5. SearchIsRight'
      BY <3>1 DEF SearchIsRight
    <3> HIDE DEF SearchInv
    <3> QED BY <2>1, <2>3, <3>1, <3>3, <3>4, <3>5 DEF SearchInv
  <2> QED BY <2>4, <2>5
<1> QED BY <1>9, <1>10, <1>11, <1>13, <1>14 DEF Merge, s, run

LEMMA GoKeeps == ASSUME SearchInv, Go PROVE SearchInv'
<1> USE SearchAssumption
<1>1. PICK n \in 0..MaxTerms : /\ require' \in [1..n -> SUBSET Addresses \ {{}}]
                               /\ phase' = IF n = 0 THEN "done" ELSE "merge"
  BY DEF Go
<1>2. /\ phase = "load" /\ excluded' \in SUBSET Addresses
      /\ \E limit \in SearchLimits, asked \in {0, 1} : maxMatches' = ResultLimit(limit, asked)
      /\ UNCHANGED <<iter, curval, matches, found>>
  BY DEF Go
<1>3. found' = {} /\ curval' = 0 /\ matches' = 0 /\ iter' = 1 /\ IsFiniteSet(found')
  BY <1>2 DEF SearchInv
<1>4. n \in Nat /\ require' \in Seq(SUBSET Addresses) /\ Len(require') = n
  BY <1>1
<1>5. maxMatches' \in Nat
  BY <1>2 DEF ResultLimit
<1>6. SearchTypeOK'
  BY <1>1, <1>2, <1>3, <1>4, <1>5 DEF SearchTypeOK
<1>7. SearchIsRight'
  <2>1. CASE n = 0
    <3>1. Len(require)' = 0 /\ Cardinality(found') = 0
      BY <1>3, <1>4, <2>1, FS_EmptySet
    <3> QED BY <1>3, <1>5, <3>1 DEF SearchIsRight
  <2>2. CASE n # 0
    BY <1>1, <2>2 DEF SearchIsRight
  <2> QED BY <2>1, <2>2
<1>8. ASSUME phase' = "merge" PROVE Len(require)' > 0 /\ FoundSoFar' /\ RunIsOfCurval'
  <2>1. n > 0
    BY <1>1, <1>4, <1>8
  <2>2. FoundSoFar'
    <3>1. \A f \in Hits' : f \in Nat /\ f > 0
      BY DEF Hits
    <3>2. {f \in Hits' : f < curval' \/ (Len(require)' = 1 /\ f = curval')} = {}
      BY <1>3, <3>1
    <3> QED BY <1>3, <3>2 DEF FoundSoFar
  <2>3. RunIsOfCurval'
    BY <1>3, <1>4, <2>1 DEF RunIsOfCurval
  <2> QED BY <1>4, <2>1, <2>2, <2>3
<1>9. phase' # "load"
  BY <1>1
<1> QED BY <1>3, <1>6, <1>7, <1>8, <1>9 DEF SearchInv

(* A search that is done has found the files that are in every set and     *)
(* pass, the first ones up to the limit, however the sets lie to one       *)
(* another: nothing is leapt over and no run of matches is miscounted,     *)
(* the overflow of its counter included (search.cc:207-296).               *)
THEOREM SearchFindsWhatItShould == SearchSpec => []SearchSound
<1>1. SearchInit => SearchInv
  <2> SUFFICES ASSUME SearchInit PROVE SearchInv
    OBVIOUS
  <2>1. SearchTypeOK
    BY SearchAssumption DEF SearchInit, SearchTypeOK
  <2> QED BY <2>1, FS_EmptySet DEF SearchInit, SearchInv, SearchIsRight
<1>2. SearchInv /\ [SearchNext]_searchVars => SearchInv'
  <2> SUFFICES ASSUME SearchInv, [SearchNext]_searchVars PROVE SearchInv'
    OBVIOUS
  <2>1. CASE UNCHANGED searchVars
    <3>1. Same /\ UNCHANGED <<phase, iter, curval, matches, found>>
      BY <2>1 DEF searchVars, Same
    <3>2. SearchTypeOK'
      BY <2>1 DEF searchVars, SearchInv, SearchTypeOK
    <3>3. SearchIsRight'
      BY <3>1, SameHits DEF Same, SearchInv, SearchIsRight
    <3>4. FoundSoFar' <=> FoundSoFar
      BY <3>1, SameHits DEF Same, FoundSoFar
    <3>5. RunIsOfCurval' <=> RunIsOfCurval
      BY <3>1 DEF Same, RunIsOfCurval, Back
    <3> QED BY <3>1, <3>2, <3>3, <3>4, <3>5 DEF Same, SearchInv
  <2> QED BY <2>1, GoKeeps, WalkKeeps, MergeKeeps DEF SearchNext
<1>3. SearchInv => SearchSound
  BY DEF SearchInv, SearchSound
<1> QED BY <1>1, <1>2, <1>3, PTL DEF SearchSpec

(***************************************************************************)
(* The scheduler                                                           *)
(* For every number of events, frequency, interval, calling gap and length *)
(* of a pass.  The clocks hang together by one inductive invariant: an     *)
(* event that the running pass has visited is not overdue by more than the *)
(* age of the pass, one that it has yet to visit by no more than a round   *)
(* on top of it.                                                           *)
(***************************************************************************)
Over(e) == elapsed[e] - frequency[e]

\* The scheduler's own clocks.
Rounds ==
  /\ Idle => sinceRun <= LongestRound - Gap + waited
  /\ ~Idle => sinceRun <= PassTime /\ waited = 0

\* The event at position i of the list.
OnTime(i) ==
  /\ frequency[events[i]] > 0
  /\ Idle => Over(events[i]) <= sinceRun
  /\ pos > i => Over(events[i]) < sinceRun
  /\ ~Idle => Over(events[i]) <= sinceRun + LongestRound

IInv ==
  /\ TypeOK
  /\ ListIsAllocated
  /\ Rounds
  /\ \A i \in 1 .. Len(events) : OnTime(i)

\* A round is a number of ticks, and holds a pass and an interval.
LEMMA RoundSize ==
  /\ LongestRound - Gap \in Int /\ LongestRound \in Int
  /\ LongestRound - Gap >= PassTime /\ LongestRound - Gap >= Interval - 1
  /\ LongestRound - Gap >= 0
  /\ Gap \in Nat /\ PassTime \in Nat /\ Interval \in Nat /\ Freq \subseteq Nat
BY SchedulerAssumption DEF LongestRound

LEMMA InitIInv == Init => IInv
<1>1. SUFFICES ASSUME Init PROVE IInv
  OBVIOUS
<1>2. (CHOOSE l \in Label : TRUE) \in Label
  BY SchedulerAssumption
<1>3. TypeOK
  <2>1. events = <<>> /\ Len(events) = 0 /\ events \in Seq(Event)
    BY <1>1 DEF Init
  <2>2. label \in [Event -> Label]
    BY <1>1, <1>2 DEF Init
  <2>3. waited \in 0 .. Gap /\ pos \in 0 .. Len(events) + 1
    BY <1>1, <2>1, RoundSize DEF Init
  <2>. QED
    BY <1>1, <2>1, <2>2, <2>3 DEF Init, TypeOK
<1>. QED
  BY <1>1, <1>3, RoundSize DEF Init, IInv, ListIsAllocated, Listed, Rounds, Idle, OnTime

LEMMA NextIInv == IInv /\ [Next]_vars => IInv'
<1>. SUFFICES ASSUME IInv, [Next]_vars PROVE IInv'
  OBVIOUS
<1>a. TypeOK /\ ListIsAllocated /\ Rounds /\ \A i \in 1 .. Len(events) : OnTime(i)
  BY DEF IInv
<1>. USE RoundSize
<1>1. CASE Tick
  <2>. USE <1>1 DEF Tick
  <2>1. TypeOK'
    <3>1. waited' \in 0 .. Gap
      BY <1>a DEF TypeOK, Idle
    <3>2. elapsed' \in [Event -> Nat] /\ grace' \in [Event -> Nat]
      BY <1>a DEF TypeOK
    <3>. QED
      BY <1>a, <3>1, <3>2 DEF TypeOK
  <2>2. ListIsAllocated'
    BY <1>a DEF ListIsAllocated, Listed
  <2>3. Rounds'
    BY <1>a DEF TypeOK, Rounds, Idle
  <2>4. ASSUME NEW i \in 1 .. Len(events') PROVE OnTime(i)'
    <3>1. i \in 1 .. Len(events) /\ OnTime(i) /\ events'[i] = events[i]
      BY <1>a
    <3>2. events[i] \in Event /\ events[i] \in Listed
      BY <1>a, <3>1 DEF TypeOK, Listed
    <3>3. /\ elapsed'[events[i]] = elapsed[events[i]] + 1 /\ sinceRun' = sinceRun + 1
          /\ frequency' = frequency /\ pos' = pos
      BY <3>2
    <3>4. elapsed[events[i]] \in Nat /\ frequency[events[i]] \in Nat /\ sinceRun \in Nat /\ pos \in Int
      BY <1>a, <3>2 DEF TypeOK
    <3>. QED
      <4>. DEFINE over == elapsed[events[i]] - frequency[events[i]]
      <4>1. /\ frequency[events[i]] > 0
            /\ pos = 0 => over <= sinceRun
            /\ pos > i => over < sinceRun
            /\ pos # 0 => over <= sinceRun + LongestRound
        BY <3>1 DEF OnTime, Over, Idle
      <4>2. over \in Int /\ elapsed'[events'[i]] - frequency'[events'[i]] = over + 1
        BY <3>1, <3>3, <3>4
      <4>. HIDE DEF over
      <4>. QED
        BY <3>1, <3>3, <3>4, <4>1, <4>2 DEF OnTime, Over, Idle
  <2>. QED
    BY <2>1, <2>2, <2>3, <2>4 DEF IInv
<1>2. ASSUME NEW e \in Event, NEW l \in Label, NEW t \in Freq, NEW runfirst \in BOOLEAN,
             Add(e, l, t, runfirst)
      PROVE IInv'
  <2>. USE <1>2 DEF Add
  <2>1. events \in Seq(Event) /\ events' = Append(events, e) /\ t \in Nat /\ t > 0
    BY <1>a DEF TypeOK
  <2>2. /\ events' \in Seq(Event) /\ Len(events') = Len(events) + 1
        /\ events'[Len(events) + 1] = e
        /\ \A i \in 1 .. Len(events) : events'[i] = events[i]
    BY <2>1
  <2>3. \A i \in 1 .. Len(events) : events[i] \in heap /\ events[i] # e /\ events[i] \in Event
    BY <1>a, <2>1 DEF ListIsAllocated, Listed
  <2>4. TypeOK'
    <3>1. pos' \in 0 .. Len(events') + 1
      BY <1>a, <2>2 DEF TypeOK, Idle
    <3>2. elapsed' \in [Event -> Nat] /\ grace' \in [Event -> Nat] /\ frequency' \in [Event -> Nat]
      BY <1>a, <2>1 DEF TypeOK
    <3>. QED
      BY <1>a, <2>2, <3>1, <3>2 DEF TypeOK
  <2>5. ListIsAllocated'
    <3>1. Listed' \subseteq heap'
      <4>1. ASSUME NEW i \in 1 .. Len(events') PROVE events'[i] \in heap'
        <5>1. i = Len(events) + 1 \/ i \in 1 .. Len(events)
          BY <2>1, <2>2
        <5>. QED
          BY <5>1, <2>2, <2>3
      <4>. QED
        BY <4>1 DEF Listed
    <3>2. ASSUME NEW i \in 1 .. Len(events'), NEW j \in 1 .. Len(events'),
                 events'[i] = events'[j]
          PROVE i = j
      <4>1. i = Len(events) + 1 \/ i \in 1 .. Len(events)
        BY <2>1, <2>2
      <4>2. j = Len(events) + 1 \/ j \in 1 .. Len(events)
        BY <2>1, <2>2
      <4>. QED
        BY <4>1, <4>2, <3>2, <2>2, <2>3, <1>a DEF ListIsAllocated
    <3>. QED
      BY <3>1, <3>2 DEF ListIsAllocated
  <2>6. Rounds'
    BY <1>a DEF Rounds, Idle
  <2>7. ASSUME NEW i \in 1 .. Len(events') PROVE OnTime(i)'
    <3>1. sinceRun' = sinceRun /\ sinceRun \in Nat /\ pos' = 0 /\ pos = 0
      BY <1>a DEF TypeOK, Idle
    <3>2. i = Len(events) + 1 \/ i \in 1 .. Len(events)
      BY <2>1, <2>2
    <3>3. CASE i = Len(events) + 1
      <4>1. elapsed'[e] = t /\ frequency'[e] = t /\ events'[i] = e
        BY <1>a, <2>2, <3>3 DEF TypeOK
      <4>. QED
        BY <2>1, <3>1, <4>1, i \in Nat DEF OnTime, Over, Idle
    <3>4. CASE i \in 1 .. Len(events)
      <4>1. OnTime(i) /\ events'[i] = events[i] /\ events[i] # e /\ events[i] \in Event
        BY <1>a, <2>2, <2>3, <3>4
      <4>2. elapsed'[events[i]] = elapsed[events[i]] /\ frequency'[events[i]] = frequency[events[i]]
        BY <1>a, <4>1 DEF TypeOK
      <4>. QED
        BY <3>1, <4>1, <4>2 DEF OnTime, Over, Idle
    <3>. QED
      BY <3>2, <3>3, <3>4
  <2>. QED
    BY <2>4, <2>5, <2>6, <2>7 DEF IInv
<1>3. ASSUME NEW l \in Label, RemoveLabel(l) PROVE IInv'
  <2>1. PICK k \in 1 .. Len(events) :
          events' = [j \in 1 .. Len(events) - 1 |-> IF j < k THEN events[j] ELSE events[j + 1]]
    BY <1>3 DEF RemoveLabel
  <2>2. UNCHANGED <<heap, eventVars, elapsed, sinceRun, pos, failed, waited>> /\ pos = 0
    BY <1>3 DEF RemoveLabel, Idle
  <2>3. events \in Seq(Event) /\ Len(events) \in Nat /\ Len(events) - 1 \in Nat
    BY <1>a DEF TypeOK
  <2>4. \A j \in 1 .. Len(events) : events[j] \in Event
    BY <2>3
  <2>5. Len(events') = Len(events) - 1 /\ events' \in Seq(Event)
    BY <2>1, <2>3, <2>4
  <2>6. ASSUME NEW i \in 1 .. Len(events')
        PROVE \E j \in 1 .. Len(events) :
                events'[i] = events[j] /\ j = IF i < k THEN i ELSE i + 1
    BY <2>1, <2>3, <2>5
  <2>7. TypeOK'
    <3>1. pos' \in 0 .. Len(events') + 1
      BY <2>2, <2>3, <2>5
    <3>. QED
      BY <1>a, <2>2, <2>5, <3>1 DEF TypeOK, eventVars
  <2>8. ListIsAllocated'
    <3>1. ASSUME NEW i \in 1 .. Len(events') PROVE events'[i] \in heap'
      <4>1. PICK j \in 1 .. Len(events) : events'[i] = events[j]
        BY <2>6
      <4>. QED
        BY <1>a, <2>2, <4>1 DEF Listed, ListIsAllocated
    <3>2. ASSUME NEW i \in 1 .. Len(events'), NEW j \in 1 .. Len(events'),
                 events'[i] = events'[j]
          PROVE i = j
      <4>1. PICK i1 \in 1 .. Len(events) :
              events'[i] = events[i1] /\ i1 = IF i < k THEN i ELSE i + 1
        BY <2>6
      <4>2. PICK j1 \in 1 .. Len(events) :
              events'[j] = events[j1] /\ j1 = IF j < k THEN j ELSE j + 1
        BY <2>6
      <4>3. i1 = j1
        BY <1>a, <3>2, <4>1, <4>2 DEF ListIsAllocated
      <4>4. i \in Int /\ j \in Int /\ k \in Int
        BY <2>3, <2>5
      <4>. QED
        BY <4>1, <4>2, <4>3, <4>4
    <3>. QED
      BY <3>1, <3>2 DEF ListIsAllocated, Listed
  <2>9. Rounds'
    BY <1>a, <2>2 DEF Rounds, Idle
  <2>10. ASSUME NEW i \in 1 .. Len(events') PROVE OnTime(i)'
    <3>1. PICK j \in 1 .. Len(events) : events'[i] = events[j]
      BY <2>6
    <3>2. OnTime(j)
      BY <1>a
    <3>3. ~(pos' > i)
      BY <2>2, <2>5, <2>3
    <3>4. UNCHANGED <<elapsed, frequency, sinceRun, pos>>
      BY <2>2 DEF eventVars
    <3>. QED
      BY <3>1, <3>2, <3>3, <3>4 DEF OnTime, Over, Idle
  <2>. QED
    BY <2>7, <2>8, <2>9, <2>10 DEF IInv
<1>4. CASE Clear
  <2>. USE <1>4 DEF Clear
  <2>1. events' = <<>> /\ Len(events') = 0 /\ events' \in Seq(Event)
    OBVIOUS
  <2>2. TypeOK'
    BY <1>a, <2>1 DEF TypeOK, Idle, eventVars
  <2>3. ListIsAllocated' /\ Rounds' /\ \A i \in 1 .. Len(events') : OnTime(i)'
    BY <1>a, <2>1 DEF ListIsAllocated, Listed, Rounds, Idle
  <2>. QED
    BY <2>2, <2>3 DEF IInv
<1>b. ASSUME events' = events, heap' = heap PROVE ListIsAllocated'
  BY <1>a, <1>b DEF ListIsAllocated, Listed
<1>c. ASSUME NEW i \in 1 .. Len(events)
      PROVE /\ OnTime(i) /\ events[i] \in Event /\ i \in Nat
            /\ elapsed[events[i]] \in Nat /\ frequency[events[i]] \in Nat
            /\ sinceRun \in Nat /\ pos \in Nat
  BY <1>a DEF TypeOK
<1>5. CASE RunTooSoon
  <2>. USE <1>5 DEF RunTooSoon, eventVars
  <2>1. TypeOK'
    BY <1>a DEF TypeOK
  <2>2. Rounds'
    BY <1>a DEF Rounds, Idle, TypeOK
  <2>3. ASSUME NEW i \in 1 .. Len(events') PROVE OnTime(i)'
    BY <1>c DEF OnTime, Over, Idle
  <2>. QED
    BY <1>b, <2>1, <2>2, <2>3 DEF IInv
<1>6. CASE RunStart
  <2>. USE <1>6 DEF RunStart, eventVars
  <2>0. waited' \in 0 .. Gap
    OBVIOUS
  <2>a. pos' \in 0 .. Len(events) + 1
    <3>1. Len(events) \in Nat
      BY <1>a DEF TypeOK
    <3>. QED
      BY <3>1
  <2>1. TypeOK'
    BY <1>a, <2>0, <2>a DEF TypeOK
  <2>2. Rounds'
    BY <1>a DEF Rounds, Idle, TypeOK
  <2>3. ASSUME NEW i \in 1 .. Len(events') PROVE OnTime(i)'
    <3>1. i \in 1 .. Len(events) /\ sinceRun <= LongestRound
      BY <1>a DEF Rounds, TypeOK
    <3>. QED
      BY <1>c, <3>1 DEF OnTime, Over, Idle
  <2>. QED
    BY <1>b, <2>1, <2>2, <2>3 DEF IInv
<1>7. ASSUME NEW ok \in BOOLEAN, RunEvent(ok) PROVE IInv'
  <2>. USE <1>7 DEF RunEvent, eventVars
  <2>0. pos \in 1 .. Len(events) /\ Len(events) \in Nat
    BY <1>a DEF Visiting, TypeOK
  <2>1. TypeOK'
    BY <1>a, <1>c, <2>0 DEF TypeOK
  <2>2. Rounds'
    BY <1>a, <2>0 DEF Rounds, Idle
  <2>3. ASSUME NEW i \in 1 .. Len(events') PROVE OnTime(i)'
    <3>1. /\ OnTime(i) /\ events[i] \in Event /\ i \in Nat
          /\ elapsed[events[i]] \in Nat /\ frequency[events[i]] \in Nat
          /\ sinceRun \in Nat /\ pos \in Nat /\ pos # 0
      BY <1>c, <2>0
    <3>2. elapsed'[events[i]] = IF events[i] = events[pos] THEN 0 ELSE elapsed[events[i]]
      BY <1>a, <3>1 DEF TypeOK
    <3>3. PICK f, x, t : f = frequency[events[i]] /\ x = elapsed[events[i]] /\ t = sinceRun
      OBVIOUS
    <3>4. PICK y : y = IF events[i] = events[pos] THEN 0 ELSE x
      OBVIOUS
    <3>5. /\ f \in Nat /\ x \in Nat /\ t \in Nat /\ i \in Nat /\ pos \in Nat /\ pos # 0
          /\ f > 0 /\ x - f <= t + LongestRound /\ (pos > i => x - f < t)
      BY <3>1, <3>3 DEF OnTime, Over, Idle
    <3>6. /\ events' = events /\ frequency'[events[i]] = f /\ elapsed'[events[i]] = y
          /\ sinceRun' = t /\ pos' = pos + 1
      BY <3>2, <3>3, <3>4
    <3>7. y - f <= t + LongestRound /\ (pos + 1 > i => y - f < t)
      <4>1. CASE y = 0
        BY <3>5, <4>1, RoundSize
      <4>2. CASE y # 0
        <5>1. y = x /\ i # pos
          BY <3>4, <4>2
        <5>. QED
          BY <3>5, <5>1
      <4>. QED
        BY <4>1, <4>2
    <3>. HIDE <1>7 DEF RunEvent, eventVars
    <3>. QED
      BY <3>5, <3>6, <3>7 DEF OnTime, Over, Idle
  <2>. QED
    BY <1>b, <2>1, <2>2, <2>3 DEF IInv
<1>8. CASE SkipEvent
  <2>. USE <1>8 DEF SkipEvent, eventVars
  <2>0. pos \in 1 .. Len(events) /\ Len(events) \in Nat
    BY <1>a DEF Visiting, TypeOK
  <2>1. TypeOK'
    BY <1>a, <2>0 DEF TypeOK
  <2>2. Rounds'
    BY <1>a, <2>0 DEF Rounds, Idle
  <2>3. ASSUME NEW i \in 1 .. Len(events') PROVE OnTime(i)'
    <3>1. i \in 1 .. Len(events) /\ elapsed[events[pos]] < frequency[events[pos]]
      BY <1>c, <2>0 DEF Ready
    <3>2. PICK f, x, t : f = frequency[events[i]] /\ x = elapsed[events[i]] /\ t = sinceRun
      OBVIOUS
    <3>3. /\ f \in Nat /\ x \in Nat /\ t \in Nat /\ i \in Nat /\ pos \in Nat /\ pos # 0
          /\ f > 0 /\ x - f <= t + LongestRound /\ (pos > i => x - f < t)
      BY <1>c, <2>0, <3>1, <3>2 DEF OnTime, Over, Idle
    <3>4. /\ events' = events /\ frequency'[events[i]] = f /\ elapsed'[events[i]] = x
          /\ sinceRun' = t /\ pos' = pos + 1
      BY <3>2
    <3>5. pos + 1 > i => x - f < t
      <4>1. CASE i = pos
        BY <3>1, <3>2, <3>3, <4>1
      <4>2. CASE i # pos
        BY <3>3, <4>2
      <4>. QED
        BY <4>1, <4>2
    <3>. HIDE <1>8 DEF SkipEvent, eventVars
    <3>. QED
      BY <3>3, <3>4, <3>5 DEF OnTime, Over, Idle
  <2>. QED
    BY <1>b, <2>1, <2>2, <2>3 DEF IInv
<1>9. CASE RunEnd
  <2>. USE <1>9 DEF RunEnd, eventVars
  <2>0. Len(events) \in Nat /\ pos # 0
    BY <1>a DEF TypeOK
  <2>1. TypeOK'
    BY <1>a, <2>0 DEF TypeOK
  <2>2. Rounds'
    BY <1>a, <2>0 DEF Rounds, Idle, TypeOK
  <2>3. ASSUME NEW i \in 1 .. Len(events') PROVE OnTime(i)'
    <3>1. i \in 1 .. Len(events) /\ pos > i
      BY <2>0
    <3>. QED
      BY <1>c, <3>1 DEF OnTime, Over, Idle
  <2>. QED
    BY <1>b, <2>1, <2>2, <2>3 DEF IInv
<1>10. CASE UNCHANGED vars
  <2>1. TypeOK' /\ Rounds' /\ ListIsAllocated'
    BY <1>10, <1>a, <1>b DEF vars, eventVars, TypeOK, Rounds, Idle
  <2>2. ASSUME NEW i \in 1 .. Len(events') PROVE OnTime(i)'
    BY <1>10, <1>c DEF vars, eventVars, OnTime, Over, Idle
  <2>. QED
    BY <2>1, <2>2 DEF IInv
<1>. QED
  BY <1>1, <1>2, <1>3, <1>4, <1>5, <1>6, <1>7, <1>8, <1>9, <1>10 DEF Next

THEOREM Invariance == Spec => []IInv
<1>1. Init => IInv
  BY InitIInv
<1>2. IInv /\ [Next]_vars => IInv'
  BY NextIInv
<1>. QED
  BY <1>1, <1>2, PTL DEF Spec

\* NotLate for any number of events and any frequencies: in a scheduler whose user keeps its
\* two promises no event waits longer than its frequency, a round and a pass.
THEOREM Timely == Spec => []NotLate
<1>1. IInv => NotLate
  <2>1. SUFFICES ASSUME IInv, NEW i \in 1 .. Len(events)
                 PROVE elapsed[events[i]] <= frequency[events[i]] + LongestRound + PassTime
    BY DEF NotLate
  <2>2. OnTime(i) /\ Rounds /\ events[i] \in Event
    BY <2>1 DEF IInv, TypeOK
  <2>3. /\ elapsed[events[i]] \in Nat /\ frequency[events[i]] \in Nat
        /\ sinceRun \in Nat /\ waited \in Nat /\ waited <= Gap
    BY <2>1, <2>2, RoundSize DEF IInv, TypeOK
  <2>4. CASE Idle
    BY <2>2, <2>3, <2>4, RoundSize DEF OnTime, Rounds, Over
  <2>5. CASE ~Idle
    BY <2>2, <2>3, <2>5, RoundSize DEF OnTime, Rounds, Over
  <2>. QED
    BY <2>4, <2>5
<1>. QED
  BY <1>1, Invariance, PTL

\* PassServesAll: whatever the handlers take and return, a pass leaves no event unserved
\* that was due when it began.
THEOREM PassIsComplete == Spec => []PassServesAll
<1>1. IInv => PassServesAll
  <2>1. SUFFICES ASSUME IInv, pos = Len(events) + 1, NEW i \in 1 .. Len(events)
                 PROVE elapsed[events[i]] - sinceRun < frequency[events[i]]
    BY DEF PassServesAll
  <2>2. OnTime(i) /\ events[i] \in Event
    BY <2>1 DEF IInv, TypeOK
  <2>. QED
    <3>1. pos > i /\ elapsed[events[i]] \in Nat /\ frequency[events[i]] \in Nat /\ sinceRun \in Nat
      BY <2>1, <2>2 DEF IInv, TypeOK
    <3>. QED
      BY <2>2, <3>1 DEF OnTime, Over
<1>. QED
  BY <1>1, Invariance, PTL

\* ListIsAllocated and TypeOK: the list never refers to a deleted object, or twice to one.
THEOREM NothingDangles == Spec => [](TypeOK /\ ListIsAllocated)
<1>1. IInv => TypeOK /\ ListIsAllocated
  BY DEF IInv
<1>. QED
  BY <1>1, Invariance, PTL
=============================================================================

------------------------------- MODULE Links -------------------------------
(***************************************************************************)
(* Which other servers a server links to: Server::CheckLinking,            *)
(* LoadRemotes and ReloadRemotes (db.cc:586-796) with the jobs             *)
(* ReloadServers and ReconnectServers (scheduled.cc:41-55).  All of it     *)
(* stands under "#if 0" at this commit and is specified as written.        *)
(*                                                                         *)
(* The table of servers is edited by hand while the server runs, and the   *)
(* job compares it with what is linked.  A link that is told to shut down  *)
(* becomes OFFLINE and stays in RemoteServers until it is swept.           *)
(*                                                                         *)
(* A row lists ports; every port is an address of its own here, with the   *)
(* empty token that ", " leaves between two ports among them.              *)
(***************************************************************************)
EXTENDS Integers, FiniteSets

CONSTANTS Rows,        \* the addresses of the other servers of the table
          Clusters,    \* the clusters a row can name; 0 means none
          NotLinked,   \* the cluster -1
          MaxEdits     \* bound on the changes of the table

ASSUME LinksAssumption ==
  /\ Clusters \subseteq Nat /\ 0 \in Clusters
  /\ NotLinked \notin Nat /\ MaxEdits \in Nat

VARIABLES cluster,         \* Server::r_cluster
          myRow,           \* the cluster of the own row; NotLinked: no row
          row,             \* row[a]: the cluster of the row of a
          remotes,         \* RemoteServers: status of each address in it
          queue,           \* ReconnectQueue: addresses
          bornIn,          \* bornIn[a]: the cluster a's entry was made for
          edits            \* history: changes of the table so far

linkVars == <<cluster, myRow, row, remotes, queue, bornIn, edits>>

LinkStatus == {"none", "linked", "offline"}

LinksTypeOK ==
  /\ cluster \in Clusters \cup {NotLinked}
  /\ myRow \in Clusters \cup {NotLinked}
  /\ row \in [Rows -> Clusters]
  /\ remotes \in [Rows -> LinkStatus]
  /\ queue \subseteq Rows
  /\ bornIn \in [Rows -> Clusters]
  /\ edits \in 0..MaxEdits

-----------------------------------------------------------------------------
(* CheckLinking.  Only a row that was found can change the cluster before  *)
(* the links are looked at; that the row is gone, or names cluster 0, is   *)
(* seen afterwards.                                                        *)
ClusterRead == IF myRow = NotLinked THEN cluster ELSE myRow
ClusterKept == IF myRow \in {NotLinked, 0} THEN NotLinked ELSE myRow

Shut == [a \in Rows |-> IF remotes[a] = "linked" THEN "offline" ELSE remotes[a]]

(* A mutant of Linked: the queue is not looked at                          *)
LinkedQueuedToo(st, q, c) ==
  [a \in Rows |-> IF row[a] = c /\ st[a] = "none" THEN "linked" ELSE st[a]]

(* ReloadRemotes: an entry for every row of the cluster that has none      *)
Linked(st, q, c) ==
  [a \in Rows |-> IF row[a] = c /\ st[a] = "none" /\ a \notin q THEN "linked" ELSE st[a]]

(* The start: CheckLinking, and LoadRemotes makes an entry for every row   *)
(* of the cluster                                                          *)
LoadRemotes(c) ==
  [a \in Rows |-> IF c # NotLinked /\ row[a] = c THEN "linked" ELSE "none"]

LinksInit ==
  /\ myRow \in Clusters \cup {NotLinked} /\ row \in [Rows -> Clusters]
  /\ cluster = IF myRow = 0 THEN NotLinked ELSE myRow
  /\ remotes = LoadRemotes(cluster)
  /\ bornIn = [a \in Rows |-> IF remotes[a] = "linked" THEN cluster ELSE 0]
  /\ queue = {} /\ edits = 0

(* Mutants of ReloadServers: the queue survives a change of cluster; links *)
(* only at a change                                                        *)
ReloadServersKeepsQueue ==
  LET st == IF ClusterRead # cluster THEN Shut ELSE remotes
      now == IF ClusterKept = NotLinked THEN st ELSE Linked(st, queue, ClusterKept)
  IN /\ cluster' = ClusterKept /\ remotes' = now
     /\ bornIn' = [a \in Rows |-> IF now[a] # st[a] THEN ClusterKept ELSE bornIn[a]]
     /\ UNCHANGED <<myRow, row, queue, edits>>

ReloadServersAtChange ==
  LET now == IF ClusterKept = NotLinked THEN Shut ELSE Linked(Shut, {}, ClusterKept)
  IN IF ClusterRead = cluster THEN UNCHANGED linkVars
     ELSE /\ cluster' = ClusterKept /\ remotes' = now /\ queue' = {}
          /\ bornIn' = [a \in Rows |-> IF now[a] # Shut[a] THEN ClusterKept ELSE bornIn[a]]
          /\ UNCHANGED <<myRow, row, edits>>

(* The job ReloadServers: CheckLinking, then ReloadRemotes if it says so   *)
ReloadServers ==
  LET changed == ClusterRead # cluster
      st == IF changed THEN Shut ELSE remotes
      q == IF changed THEN {} ELSE queue
      now == IF ClusterKept = NotLinked THEN st ELSE Linked(st, q, ClusterKept)
  IN /\ cluster' = ClusterKept
     /\ remotes' = now
     /\ queue' = q
     /\ bornIn' = [a \in Rows |-> IF now[a] # st[a] THEN ClusterKept ELSE bornIn[a]]
     /\ UNCHANGED <<myRow, row, edits>>

(* External: a link that broke waits in the queue; the job                 *)
(* ReconnectServers (InitRemotes) connects it again; a link that was told  *)
(* to shut down is swept.                                                  *)
Break(a) ==
  /\ remotes[a] = "linked"
  /\ remotes' = [remotes EXCEPT ![a] = "none"]
  /\ queue' = queue \cup {a}
  /\ UNCHANGED <<cluster, myRow, row, bornIn, edits>>

ReconnectServers ==
  /\ queue # {}
  /\ remotes' = [a \in Rows |-> IF a \in queue THEN "linked" ELSE remotes[a]]
  /\ queue' = {}
  /\ UNCHANGED <<cluster, myRow, row, bornIn, edits>>

Sweep(a) ==
  /\ remotes[a] = "offline"
  /\ remotes' = [remotes EXCEPT ![a] = "none"]
  /\ UNCHANGED <<cluster, myRow, row, queue, bornIn, edits>>

(* External: somebody edits the table *)
Edit ==
  /\ edits < MaxEdits
  /\ edits' = edits + 1
  /\ \/ \E c \in Clusters \cup {NotLinked} : myRow' = c /\ UNCHANGED row
     \/ \E a \in Rows, c \in Clusters : row' = [row EXCEPT ![a] = c] /\ UNCHANGED myRow
  /\ UNCHANGED <<cluster, remotes, queue, bornIn>>

LinksNext ==
  \/ ReloadServers \/ ReconnectServers \/ Edit
  \/ \E a \in Rows : Break(a) \/ Sweep(a)

(* The scheduler runs the job again and again, and what is OFFLINE is      *)
(* swept                                                                   *)
LinksFairness == WF_linkVars(ReloadServers) /\ \A a \in Rows : WF_linkVars(Sweep(a))

LinksSpec == LinksInit /\ [][LinksNext]_linkVars /\ LinksFairness

-----------------------------------------------------------------------------
(* While the server links at all, no link and no entry of the queue is     *)
(* left from a cluster it was in before, however often its own row changed *)
(* or disappeared in between.                                              *)
NoLinkOfAFormerCluster ==
  cluster # NotLinked =>
    \A a \in Rows : remotes[a] = "linked" \/ a \in queue => bornIn[a] = cluster

(* No server is both linked and about to be connected a second time. *)
LinkedOnce == \A a \in queue : remotes[a] = "none"

(* Once nobody edits the table any more, every server that has a row in    *)
(* our cluster gets linked or queued, also those whose link had to be shut *)
(* down first and was not yet swept when the job ran.                      *)
ClusterGetsLinked ==
  \A a \in Rows :
    (edits = MaxEdits /\ myRow \notin {NotLinked, 0} /\ row[a] = myRow)
      ~> (remotes[a] = "linked" \/ a \in queue)

(* A change of cluster leaves no link and no reconnect behind, and no      *)
(* server is linked and queued at once (db.cc:621-634, 740-782).           *)
LinksSound == LinksTypeOK /\ NoLinkOfAFormerCluster /\ LinkedOnce
=============================================================================

------------------------------ MODULE MCWalks -------------------------------
(***************************************************************************)
(* The components whose work takes many steps and must come to an end: the *)
(* walk down a tree, the links that follow a table, a search, the queue of *)
(* searches.  They share no variable: a behaviour chooses the one that     *)
(* moves at its start, and the others stay as they begin.  Fairness is     *)
(* asked of the steps of the component that moves.                         *)
(***************************************************************************)
EXTENDS TernaryTree, Links, Search, SearchQueue, TLC

VARIABLE part   \* the component that moves

allVars == <<treeVars, linkVars, searchVars, queueVars, part>>

WalksInit ==
  /\ part \in {"tree", "links", "search", "queue"}
  /\ TreeInit /\ LinksInit /\ SearchInit /\ QueueInit
  /\ part # "links" => myRow = NotLinked /\ row = [a \in Rows |-> 0]

\* A search that is done stops.
Ended == part = "search" /\ phase = "done" /\ UNCHANGED allVars

WalksNext ==
  \/ /\ part = "tree" /\ TreeNext
     /\ UNCHANGED <<part, linkVars, searchVars, queueVars>>
  \/ /\ part = "links" /\ LinksNext
     /\ UNCHANGED <<part, treeVars, searchVars, queueVars>>
  \/ /\ part = "search" /\ SearchNext
     /\ UNCHANGED <<part, treeVars, linkVars, queueVars>>
  \/ /\ part = "queue" /\ QueueNext
     /\ UNCHANGED <<part, treeVars, linkVars, searchVars>>
  \/ Ended

WalksSpec ==
  /\ WalksInit /\ [][WalksNext]_allVars
  /\ WF_treeVars(Step)
  /\ WF_linkVars(part = "links" /\ ReloadServers)
  /\ \A a \in Rows : WF_linkVars(Sweep(a))
  /\ WF_searchVars(part = "search" /\ SearchNext)

-----------------------------------------------------------------------------
CONSTANTS v1, v2

\* The empty word, three one-letter words and two that share a prefix with another.
MCKeys == {<<0>>, <<1, 0>>, <<2, 0>>, <<3, 0>>, <<2, 1, 0>>, <<2, 2, 0>>}

\* One word has two values.
MCEntries == (MCKeys \X {v1}) \cup {<<<<2, 0>>, v2>>}

NoCluster == -1

MCWanted == [bitrate |-> [value |-> 2, option |-> "AT LEAST"]]

\* All are good enough: what is refused is the caller's own file and what is excluded, so
\* that two files are left to find in several sets, and one before them to leap over.
MCHas == [f \in {1, 2, 3} |-> [bitrate |-> 2]]

-----------------------------------------------------------------------------
\* What is begun comes to its end: a call of the tree returns (ternary.hh:29-200), a server of
\* the own cluster is linked or queued once the table rests (db.cc:686-796), and a search stops
\* unless its terms are more than the counter counts (search.cc:207-296).
WalksEnd == CallsReturn /\ ClusterGetsLinked /\ SearchEnds
=============================================================================

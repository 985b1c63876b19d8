---------------------------- MODULE TernaryTree ----------------------------
(***************************************************************************)
(* The ternary search tree of ternary.hh.  A node holds one character; the *)
(* words that go on with this character are below its eq link, those that  *)
(* have a lesser or a greater one in its place below lo and hi.  A word    *)
(* ends in the terminating 0, whose node has the word's values.            *)
(*                                                                         *)
(* The loops of insert and erase are steps; the straight code between them *)
(* is one.  `new` may return any free address: here the node made for a    *)
(* prefix of a word gets this prefix as its address (OnePerPrefix says     *)
(* that it is then free), which makes p->c the last character of p.        *)
(***************************************************************************)
EXTENDS Integers, Sequences

CONSTANTS
  Key,    \* the words: sequences of characters, ending in 0
  Value,
  Entry,  \* the pairs of them that the user inserts and erases
  Null    \* NULL; no call

PrefixesOf(K) == UNION {{SubSeq(k, 1, j) : j \in 1 .. Len(k)} : k \in K}

Node == PrefixesOf(Key)
Pointer == Node \cup {Null}

ASSUME TreeAssumption ==
  /\ Key \subseteq Seq(Nat) /\ Entry \subseteq Key \X Value
  /\ \A k \in Key : k # <<>> /\ \A j \in 1 .. Len(k) : k[j] = 0 <=> j = Len(k)
  /\ Null \notin Node \cup [op : {"insert", "erase"}, key : Key, value : Value]

VARIABLES
  root,
  heap,  \* the nodes that are allocated
  node,  \* their fields
  call,  \* the call under way, or Null
  \* the locals of insert and erase
  at,    \* the position of key (s in insert) in the word
  slot,  \* insert's pp: the link it looks at, as the node it is in and the field
  p,
  pp,
  lb,    \* the last node on the way that had a lo or a hi, or was one,
  lbp,   \* and its parent
  dt     \* the chain that is to be deleted

locals == <<at, slot, p, pp, lb, lbp, dt>>
treeVars == <<root, heap, node, call, locals>>

NodeFields == [lo : Pointer, eq : Pointer, hi : Pointer, values : SUBSET Value]

\* A node as its constructor leaves it; what is free has no other fields.
NewNode == [lo |-> Null, eq |-> Null, hi |-> Null, values |-> {}]

Links == {"lo", "eq", "hi"}

Char(n) == n[Len(n)]

\* Which way a walk for the character x leaves node n.
Way(x, n) == IF x = Char(n) THEN "eq" ELSE IF x < Char(n) THEN "lo" ELSE "hi"

TreeInit ==
  /\ root = Null
  /\ heap = {}
  /\ node = [n \in Node |-> NewNode]
  /\ call = Null
  /\ at = 1 /\ slot = <<Null, "root">>
  /\ p = Null /\ pp = Null /\ lb = Null /\ lbp = Null /\ dt = Null

Return ==
  /\ call' = Null
  /\ at' = 1 /\ slot' = <<Null, "root">>
  /\ p' = Null /\ pp' = Null /\ lb' = Null /\ lbp' = Null /\ dt' = Null

Symbol == call.key[at]

-----------------------------------------------------------------------------
(* find                                                                    *)

\* The node that find(k) stops at: that of k's terminating 0, or Null.
FindNode(k) ==
  LET walk[s \in Pointer \X (1 .. Len(k))] ==
        LET n == s[1]
            j == s[2]
            way == Way(k[j], n)
        IN IF n = Null \/ (way = "eq" /\ k[j] = 0) THEN n
           ELSE walk[<<node[n][way], IF way = "eq" THEN j + 1 ELSE j>>]
  IN walk[<<root, 1>>]

Find(k) == IF FindNode(k) = Null THEN {} ELSE node[FindNode(k)].values

-----------------------------------------------------------------------------
(* insert                                                                  *)

Inserting == call # Null /\ call.op = "insert"

InsertStart(k, v) ==
  /\ call = Null
  /\ call' = [op |-> "insert", key |-> k, value |-> v]
  /\ UNCHANGED <<root, heap, node, locals>>

Deref(s) == IF s[1] = Null THEN root ELSE node[s[1]][s[2]]

\* while ((p = *pp)) ...
InsertWalk ==
  LET n == Deref(slot)
      way == Way(Symbol, n)
  IN /\ Inserting /\ n # Null
     /\ \/ /\ Symbol = 0 /\ way = "eq"
           /\ node' = [node EXCEPT ![n].values = @ \cup {call.value}]
           /\ Return
        \/ /\ ~(Symbol = 0 /\ way = "eq")
           /\ slot' = <<n, way>>
           /\ at' = IF way = "eq" THEN at + 1 ELSE at
           /\ UNCHANGED <<node, call, p, pp, lb, lbp, dt>>
     /\ UNCHANGED <<root, heap>>

\* do { p = *pp = new Node ... } while (*s++)
InsertBuild ==
  LET n == SubSeq(call.key, 1, at)
      made == [NewNode EXCEPT !.values = IF Symbol = 0 THEN {call.value} ELSE {}]
  IN /\ Inserting /\ Deref(slot) = Null
     /\ heap' = heap \cup {n}
     /\ root' = IF slot[1] = Null THEN n ELSE root
     /\ node' = [m \in Node |->
                   IF m = n THEN made
                   ELSE IF m = slot[1] THEN [node[m] EXCEPT ![slot[2]] = n]
                   ELSE node[m]]
     /\ IF Symbol = 0 THEN Return
        ELSE /\ slot' = <<n, "eq">> /\ at' = at + 1
             /\ UNCHANGED <<call, p, pp, lb, lbp, dt>>

-----------------------------------------------------------------------------
(* erase                                                                   *)

Erasing == call # Null /\ call.op = "erase"

EraseStart(k, v) ==
  /\ call = Null
  /\ call' = [op |-> "erase", key |-> k, value |-> v]
  /\ p' = root
  /\ UNCHANGED <<root, heap, node, at, slot, pp, lb, lbp, dt>>

\* Mutant: a hi alone is not taken for a branch.
LesserOnly(n) == node[n].lo # Null

Branches(n) == node[n].lo # Null \/ node[n].hi # Null

\* The walk is at the node of the word's terminating 0.
EraseFound == Erasing /\ dt = Null /\ p # Null /\ Symbol = 0 /\ Char(p) = 0

EraseWalk ==
  LET way == Way(Symbol, p)
      next == node[p][way]
  IN /\ Erasing /\ dt = Null /\ p # Null /\ ~EraseFound
     /\ p' = next
     /\ pp' = p
     /\ IF way = "eq"
        THEN /\ at' = at + 1
             /\ lb' = IF Branches(p) THEN p ELSE lb
             /\ lbp' = IF Branches(p) THEN pp ELSE lbp
        ELSE /\ lb' = next /\ lbp' = p
             /\ UNCHANGED at
     /\ UNCHANGED <<root, heap, node, call, slot, dt>>

EraseMiss ==
  /\ Erasing /\ dt = Null /\ p = Null
  /\ Return
  /\ UNCHANGED <<root, heap, node>>

\* Mutant: all values go, and the word stays.
EraseClears ==
  /\ EraseFound /\ node[p].values # {call.value}
  /\ node' = [node EXCEPT ![p].values = {}]
  /\ Return
  /\ UNCHANGED <<root, heap>>

\* The word has other values: its nodes stay.
EraseInUse ==
  LET rest == node[p].values \ {call.value}
  IN /\ EraseFound /\ rest # {}
     /\ node' = [node EXCEPT ![p].values = rest]
     /\ Return
     /\ UNCHANGED <<root, heap>>

\* Mutant: the lo goes below the heir itself, whatever is there.
HeirItself(n) == n

LeftEnd(n) ==
  LET end[m \in Node] == IF node[m].lo = Null THEN m ELSE end[node[m].lo] IN end[n]

\* The last value is gone: the chain from the last branch node down to the
\* terminating 0 is cut out, and a lo or a hi of the branch takes its place.
EraseCut ==
  LET branch == IF Branches(p) THEN p ELSE lb
      parent == IF Branches(p) THEN pp ELSE lbp
      less   == node[branch].lo
      more   == node[branch].hi
      heir   == IF more # Null THEN more ELSE less   \* lbr
      link   == IF node[parent].lo = branch THEN "lo"
                ELSE IF node[parent].hi = branch THEN "hi" ELSE "eq"
      emptied  == [node EXCEPT ![p].values = {}]
      relinked == IF branch = Null \/ parent = Null THEN emptied
                  ELSE [emptied EXCEPT ![parent][link] = heir]
  IN /\ EraseFound /\ node[p].values \subseteq {call.value}
     /\ root' = IF branch = Null THEN Null ELSE IF parent = Null THEN heir ELSE root
     /\ node' = IF branch # Null /\ less # Null /\ more # Null
                THEN [relinked EXCEPT ![LeftEnd(more)].lo = less]  \* lbdc
                ELSE relinked
     /\ dt' = IF branch = Null THEN root ELSE branch
     /\ lb' = branch /\ lbp' = parent
     /\ UNCHANGED <<heap, call, at, slot, p, pp>>

\* Mutant: only the first node of the chain is deleted.
EraseFreeHead ==
  /\ Erasing /\ dt # Null
  /\ heap' = heap \ {dt}
  /\ node' = [node EXCEPT ![dt] = NewNode]
  /\ Return
  /\ UNCHANGED root

\* Mutant: dt does not move on.
EraseFreeAgain ==
  /\ Erasing /\ dt # Null
  /\ heap' = heap \ {dt}
  /\ IF node[dt].eq = Null THEN Return
     ELSE p' = dt /\ UNCHANGED <<call, at, slot, pp, lb, lbp, dt>>
  /\ UNCHANGED <<root, node>>

\* do { p = dt; dt = p->eq; delete p; } while (dt)
EraseFree ==
  /\ Erasing /\ dt # Null
  /\ heap' = heap \ {dt}
  /\ node' = [node EXCEPT ![dt] = NewNode]
  /\ IF node[dt].eq = Null THEN Return
     ELSE /\ dt' = node[dt].eq /\ p' = dt
          /\ UNCHANGED <<call, at, slot, pp, lb, lbp>>
  /\ UNCHANGED root

-----------------------------------------------------------------------------
Step == InsertWalk \/ InsertBuild \/ EraseWalk \/ EraseMiss \/ EraseInUse \/ EraseCut \/ EraseFree

TreeNext == (\E e \in Entry : InsertStart(e[1], e[2]) \/ EraseStart(e[1], e[2])) \/ Step

\* A call that was made runs on.
TreeSpec == TreeInit /\ [][TreeNext]_treeVars /\ WF_treeVars(Step)

-----------------------------------------------------------------------------
(* Properties.                                                             *)

TreeTypeOK ==
  /\ root \in Pointer
  /\ heap \subseteq Node
  /\ node \in [Node -> NodeFields]
  /\ call \in [op : {"insert", "erase"}, key : Key, value : Value] \cup {Null}
  /\ slot \in Pointer \X (Links \cup {"root"})
  /\ {p, pp, lb, lbp, dt} \subseteq Pointer
  /\ call # Null => at \in 1 .. Len(call.key)

\* insert, find and erase behave like a set of values for each word, whatever nodes the
\* words share and in whatever order they come and go: erase cuts out nothing that
\* another word is found by, insert hides nothing.
Words == INSTANCE WordSets WITH Word <- Key, NoCall <- Null, sets <- [k \in Key |-> Find(k)]
RefinesWords == Words!WordsSpec

Stored == {k \in Key : Find(k) # {}}

\* Between calls the tree has the nodes that the prefixes of its words need and no other:
\* erase leaves neither a node nor an empty word behind, so find answers NULL for a word
\* without values (ternary.cc's test looks for this at the root).
NoLeftovers ==
  call = Null => /\ heap = PrefixesOf(Stored)
                 /\ \A k \in Key : FindNode(k) = Null <=> Find(k) = {}

\* The chain that erase has cut out and not yet deleted.
Detached == IF dt = Null THEN {} ELSE {SubSeq(call.key, 1, j) : j \in Len(dt) .. Len(call.key)}

InTheTree == heap \ Detached

\* The links of the tree that lead to n.
LinksTo(n) ==
  {l \in InTheTree \X Links : node[l[1]][l[2]] = n} \cup {l \in {<<Null, "root">>} : root = n}

\* At every step a node of the tree has one parent, and no link leads from the tree to a
\* node that is deleted or about to be: also while erase relinks around what it deletes,
\* whose own lo and hi still point into the tree.
OneParent ==
  /\ Detached \subseteq heap
  /\ \A n \in Node : IF n \in InTheTree THEN \E l \in LinksTo(n) : LinksTo(n) = {l}
                                         ELSE LinksTo(n) = {}

\* insert never makes a second node for a prefix that has one.
OnePerPrefix ==
  [][InsertBuild => SubSeq(call.key, 1, at) \notin heap]_treeVars

\* Every call returns: no walk goes in circles, no deletion loses its chain.
CallsReturn == (call # Null) ~> (call = Null)

\* The tree is one at every step, and between calls has no node too many
\* (ternary.hh:29-155).
TreeSound == TreeTypeOK /\ OneParent /\ NoLeftovers

\* The tree is a set of values for each word, made of one node for each prefix
\* (ternary.hh:29-200).
TreeIsASet == RefinesWords /\ OnePerPrefix
=============================================================================

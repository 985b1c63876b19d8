----------------------------- MODULE TreeProofs -----------------------------
(***************************************************************************)
(* The ternary tree, for all words and values.  erase takes a word out by  *)
(* cutting at the last branch above it; the proof that nothing else is     *)
(* lost, leaks or is found in a wrong place rests on this: on a level the  *)
(* characters whose walk comes to a node form an interval, these intervals *)
(* are nested along lo and hi, and the walk for a character has one end.   *)
(***************************************************************************)
EXTENDS TernaryTree, SequenceLemmas, FiniteSetTheorems, TLAPS

(***************************************************************************)
(* Words, prefixes and nodes                                               *)
(***************************************************************************)
(* The first j characters of a word, and a node's prefix without its last. *)
Upto(s, j) == SubSeq(s, 1, j)

(* What precedes the last character of a node.                             *)
Stem(n) == SubSeq(n, 1, Len(n) - 1)

(* A prefix has the characters of what it is one of.                       *)
LEMMA Beginning ==
  ASSUME NEW S, NEW s \in Seq(S), NEW j \in 0..Len(s)
  PROVE  /\ Upto(s, j) \in Seq(S) /\ Len(Upto(s, j)) = j
         /\ \A i \in 1..j : Upto(s, j)[i] = s[i]
BY DEF Upto

(* Sequences are equal if they are so character by character.              *)
LEMMA SameElements ==
  ASSUME NEW S, NEW s \in Seq(S), NEW u \in Seq(S), Len(s) = Len(u),
         \A i \in 1..Len(s) : s[i] = u[i]
  PROVE  s = u
OBVIOUS

(* What the words are.                                                     *)
LEMMA KeyIs ==
  ASSUME NEW k \in Key
  PROVE  /\ k \in Seq(Nat) /\ Len(k) \in Nat \ {0}
         /\ \A j \in 1..Len(k) : k[j] \in Nat /\ (k[j] = 0 <=> j = Len(k))
<1>1. k \in Seq(Nat) /\ k # <<>> /\ \A j \in 1..Len(k) : k[j] = 0 <=> j = Len(k)
  BY TreeAssumption
<1>2. Len(k) \in Nat /\ \A j \in 1..Len(k) : k[j] \in Nat
  BY <1>1
<1>3. Len(k) # 0
  BY <1>1
<1> QED BY <1>1, <1>2, <1>3

(* The prefixes of a word are nodes.                                       *)
LEMMA PrefixIs ==
  ASSUME NEW k \in Key, NEW j \in 1..Len(k)
  PROVE  /\ Upto(k, j) \in Node /\ Len(Upto(k, j)) = j
         /\ \A i \in 1..j : Upto(k, j)[i] = k[i]
         /\ Stem(Upto(k, j)) = Upto(k, j - 1) /\ Char(Upto(k, j)) = k[j]
<1>1. k \in Seq(Nat) /\ Len(k) \in Nat
  BY KeyIs
<1>2. PICK u : u = Upto(k, j)
  OBVIOUS
<1>3. u \in Seq(Nat) /\ Len(u) = j /\ \A i \in 1..j : u[i] = k[i]
  BY <1>1, <1>2, Beginning
<1>4. u \in Node
  BY <1>2 DEF Node, PrefixesOf, Upto
<1>5. Stem(u) = Upto(k, j - 1)
  <2>1. PICK a, b : a = Upto(u, j - 1) /\ b = Upto(k, j - 1)
    OBVIOUS
  <2>0. j - 1 \in 0..Len(u) /\ j - 1 \in 0..Len(k)
    BY <1>1, <1>3
  <2>2. a \in Seq(Nat) /\ Len(a) = j - 1 /\ \A i \in 1..(j - 1) : a[i] = u[i]
    BY <1>3, <2>0, <2>1, Beginning
  <2>3. b \in Seq(Nat) /\ Len(b) = j - 1 /\ \A i \in 1..(j - 1) : b[i] = k[i]
    BY <1>1, <2>0, <2>1, Beginning
  <2>4. a = b
    <3>1. \A i \in 1..(j - 1) : i \in 1..j
      BY <1>1
    <3>2. Len(a) = Len(b) /\ \A i \in 1..Len(a) : a[i] = b[i]
      BY <1>3, <2>2, <2>3, <3>1
    <3> QED BY <2>2, <2>3, <3>2, SameElements
  <2> QED BY <1>3, <2>1, <2>4 DEF Stem, Upto
<1> QED BY <1>2, <1>3, <1>4, <1>5 DEF Char

(* What a node is: a prefix of a word that is not empty.                   *)
LEMMA NodeIs ==
  ASSUME NEW n \in Node
  PROVE  /\ n \in Seq(Nat) /\ Len(n) \in Nat \ {0} /\ n # <<>> /\ n # Null
         /\ Char(n) \in Nat /\ Char(n) = n[Len(n)]
         /\ \E k \in Key : Len(n) <= Len(k) /\ n = Upto(k, Len(n))
<1>0. PICK k \in Key : \E i \in 1..Len(k) : n = Upto(k, i)
  BY DEF Node, PrefixesOf, Upto
<1>1. PICK j \in 1..Len(k) : n = Upto(k, j)
  BY <1>0
<1>2. n \in Seq(Nat) /\ Len(n) = j /\ n[j] = k[j] /\ k[j] \in Nat /\ Len(k) \in Nat
  BY <1>1, KeyIs, Beginning
<1>3. j \in Nat \ {0} /\ j <= Len(k)
  BY <1>2
<1>4. n # <<>>
  BY <1>2, <1>3
<1> QED BY <1>1, <1>2, <1>3, <1>4, TreeAssumption DEF Char

(* What comes before the last character of a node.                         *)
LEMMA StemIs ==
  ASSUME NEW n \in Node
  PROVE  /\ Stem(n) \in Seq(Nat) /\ Len(Stem(n)) = Len(n) - 1
         /\ \A i \in 1..(Len(n) - 1) : Stem(n)[i] = n[i]
<1>1. PICK j : j = Len(n)
  OBVIOUS
<1>2. n \in Seq(Nat) /\ j \in Nat \ {0} /\ j - 1 \in 0..Len(n)
  BY <1>1, NodeIs
<1>3. PICK a : a = Upto(n, j - 1)
  OBVIOUS
<1>4. a \in Seq(Nat) /\ Len(a) = j - 1 /\ \A i \in 1..(j - 1) : a[i] = n[i]
  BY <1>2, <1>3, Beginning
<1> QED BY <1>1, <1>3, <1>4 DEF Stem, Upto

(* A node is what comes before its last character, and this character.     *)
LEMMA StemAndChar ==
  ASSUME NEW m \in Node, NEW n \in Node, Stem(m) = Stem(n), Char(m) = Char(n)
  PROVE  m = n
<1>1. PICK i, j, s : i = Len(m) /\ j = Len(n) /\ s = Stem(m)
  OBVIOUS
<1>2. /\ m \in Seq(Nat) /\ n \in Seq(Nat) /\ i \in Nat \ {0} /\ j \in Nat \ {0}
      /\ Len(s) = i - 1 /\ Len(s) = j - 1
      /\ \A x \in 1..(i - 1) : s[x] = m[x]
      /\ \A x \in 1..(j - 1) : s[x] = n[x]
      /\ m[i] = n[j]
  BY <1>1, NodeIs, StemIs DEF Char
<1>3. i = j
  BY <1>2
<1>4. \A x \in 1..Len(m) : m[x] = n[x]
  BY <1>1, <1>2, <1>3
<1> QED BY <1>1, <1>2, <1>3, <1>4, SameElements

(* The terminating 0 is at the end of a word and nowhere else.             *)
LEMMA ZeroEnds ==
  ASSUME NEW n \in Node
  PROVE  /\ Char(n) = 0 => n \in Key
         /\ \A i \in 1..(Len(n) - 1) : n[i] # 0
<1>1. PICK k \in Key : Len(n) <= Len(k) /\ n = Upto(k, Len(n))
  BY NodeIs
<1>2. PICK j : j = Len(n)
  OBVIOUS
<1>3. /\ j \in 1..Len(k) /\ Len(k) \in Nat /\ k \in Seq(Nat) /\ n \in Seq(Nat)
      /\ n = Upto(k, j) /\ \A i \in 1..Len(k) : k[i] = 0 <=> i = Len(k)
  BY <1>1, <1>2, NodeIs, KeyIs
<1>4. Char(n) = k[j] /\ \A i \in 1..j : n[i] = k[i]
  BY <1>3, PrefixIs
<1>5. ASSUME Char(n) = 0 PROVE n = k
  <2>1. j = Len(k)
    BY <1>3, <1>4, <1>5
  <2> QED BY <1>2, <1>3, <1>4, <2>1, SameElements
<1>6. ASSUME NEW i \in 1..(j - 1) PROVE n[i] # 0
  <2>1. i \in 1..j /\ i \in 1..Len(k) /\ i # Len(k)
    BY <1>3
  <2> QED BY <1>3, <1>4, <2>1
<1> QED BY <1>2, <1>5, <1>6

(* A node below another.                                                   *)
LEMMA BelowIs ==
  ASSUME NEW n \in Node, Stem(n) # <<>>
  PROVE  /\ Stem(n) \in Node /\ Char(Stem(n)) # 0
<1>1. PICK k \in Key : Len(n) <= Len(k) /\ n = Upto(k, Len(n))
  BY NodeIs
<1>2. PICK j : j = Len(n)
  OBVIOUS
<1>3. j \in 1..Len(k) /\ Len(k) \in Nat /\ n = Upto(k, j) /\ Len(Stem(n)) = j - 1 /\ Stem(n) \in Seq(Nat)
  BY <1>1, <1>2, NodeIs, KeyIs, StemIs
<1>4. j # 1
  <2>1. Len(Stem(n)) # 0
    BY <1>3
  <2> QED BY <1>3, <2>1
<1>5. j - 1 \in 1..Len(k) /\ j - 1 # Len(k)
  BY <1>3, <1>4
<1>6. Stem(n) = Upto(k, j - 1)
  BY <1>3, PrefixIs
<1>7. Stem(n) \in Node /\ Char(Stem(n)) = k[j - 1]
  BY <1>5, <1>6, PrefixIs
<1> QED BY <1>5, <1>7, KeyIs

(* The whole of a word is its longest prefix, and no word has the empty    *)
(* one.                                                                    *)
LEMMA WholeWord ==
  ASSUME NEW k \in Key
  PROVE  Upto(k, Len(k)) = k /\ k \in Node /\ Upto(k, 0) = <<>>
<1>1. /\ k \in Seq(Nat) /\ Len(k) \in Nat \ {0}
      /\ Len(k) \in 1..Len(k) /\ Len(k) \in 0..Len(k) /\ 0 \in 0..Len(k)
  BY KeyIs
<1>2. PICK u : u = Upto(k, Len(k))
  OBVIOUS
<1>3. u \in Seq(Nat) /\ Len(u) = Len(k) /\ (\A i \in 1..Len(k) : u[i] = k[i]) /\ u \in Node
  BY <1>1, <1>2, Beginning, PrefixIs
<1>4. u = k
  BY <1>1, <1>3, SameElements
<1>5. Upto(k, 0) = <<>>
  <2>1. PICK e : e = Upto(k, 0)
    OBVIOUS
  <2>2. e \in Seq(Nat) /\ Len(e) = 0
    BY <1>1, <2>1, Beginning
  <2> QED BY <2>1, <2>2
<1> QED BY <1>2, <1>3, <1>4, <1>5

(* A node that agrees with a word so far is a prefix of it.                *)
LEMMA AgreesIs ==
  ASSUME NEW n \in Node, NEW k \in Key, Len(n) <= Len(k), \A i \in 1..Len(n) : n[i] = k[i]
  PROVE  n = Upto(k, Len(n))
<1>1. PICK j : j = Len(n)
  OBVIOUS
<1>2. PICK u : u = Upto(k, j)
  OBVIOUS
<1>3. n \in Seq(Nat) /\ j \in 1..Len(k) /\ k \in Seq(Nat)
  BY <1>1, NodeIs, KeyIs
<1>4. j \in 0..Len(k)
  BY <1>3
<1>5. u \in Seq(Nat) /\ Len(u) = j /\ \A i \in 1..j : u[i] = k[i]
  BY <1>2, <1>3, <1>4, Beginning
<1>6. n = u
  BY <1>1, <1>3, <1>5, SameElements
<1> QED BY <1>1, <1>2, <1>6

(***************************************************************************)
(* The tree                                                                *)
(* What the links say of a tree T, where D tells the target of a link. The *)
(* proof gives every node a set of characters, cover[n]: those whose walk  *)
(* on this level comes to n. Nothing in the program keeps it.              *)
(***************************************************************************)
(* A link is a node and one of its fields, or the root's.                  *)
RootLink == <<Null, "root">>

(* All that there may be.                                                  *)
LinkAt == (Node \X Links) \cup {RootLink}

(* The links of a tree.                                                    *)
LinksFrom(T) == (T \X Links) \cup {RootLink}

(* What a walk has read of its word when it takes link l: the nodes of one *)
(* level share it.                                                         *)
StemAt(l) == IF l[1] = Null THEN <<>> ELSE IF l[2] = "eq" THEN l[1] ELSE Stem(l[1])

(* The characters whose walk takes link l.                                 *)
CoverAt(l, cover) ==
  IF l[1] = Null \/ l[2] = "eq" THEN Nat
  ELSE IF l[2] = "lo" THEN {c \in cover[l[1]] : c < Char(l[1])}
                      ELSE {c \in cover[l[1]] : c > Char(l[1])}

(* The link that leads to the level of node n.                             *)
TopOf(n) == IF Stem(n) = <<>> THEN RootLink ELSE <<Stem(n), "eq">>

(* The walk for c on the level of n ends at n, if it comes there.          *)
Ends(c, n, D) == c = Char(n) \/ D[<<n, Way(c, n)>>] = Null

(* No character is missing between two of S.                               *)
Convex(S) == \A a, c \in S : \A x \in Nat : a <= x /\ x <= c => x \in S

(* A link leads to a node of its level, and the walks that take it come to *)
(* it.                                                                     *)
Targets(T, D, cover) ==
  \A l \in LinksFrom(T) : D[l] # Null =>
    D[l] \in T /\ Stem(D[l]) = StemAt(l) /\ cover[D[l]] = CoverAt(l, cover)

(* The walk for its own character comes to a node, and no character        *)
(* between two that come to it goes elsewhere.                             *)
Covers(T, cover) ==
  /\ cover \in [Node -> SUBSET Nat]
  /\ \A n \in T : Char(n) \in cover[n] /\ Convex(cover[n])

(* A level has a first node.                                               *)
Topped(T, D) == \A n \in T : TopOf(n) \in LinksFrom(T) /\ D[TopOf(n)] # Null

(* On a level the walk for a character has one end: so no two nodes have   *)
(* one character.                                                          *)
OneEnd(T, D, cover) ==
  \A m, n \in T : Stem(m) = Stem(n) =>
    \A c \in cover[m] \cap cover[n] : Ends(c, m, D) /\ Ends(c, n, D) => m = n

(* One link leads to each node, and to no node a second one.               *)
OneLink(T, D) ==
  /\ \A n \in T : \E l \in LinksFrom(T) : D[l] = n
  /\ \A l, m \in LinksFrom(T) : D[l] = D[m] /\ D[l] # Null => l = m

(* The tree: all of them.                                                  *)
Tree(T, D, cover) ==
  /\ T \subseteq Node /\ IsFiniteSet(T) /\ D \in [LinkAt -> Pointer]
  /\ Targets(T, D, cover) /\ Covers(T, cover) /\ Topped(T, D)
  /\ OneEnd(T, D, cover) /\ OneLink(T, D)

(* What a link is.                                                         *)
LEMMA LinkKinds ==
  ASSUME NEW T \in SUBSET Node, NEW l \in LinksFrom(T)
  PROVE  /\ l \in LinkAt /\ l = <<l[1], l[2]>>
         /\ \/ l = RootLink /\ l[1] = Null /\ l[2] = "root"
            \/ l[1] \in T /\ l[1] # Null /\ l[2] \in Links
<1>1. Null \notin Node
  BY NodeIs
<1> QED BY <1>1 DEF LinksFrom, LinkAt, RootLink

(* Both sides of a character are convex if the whole is.                   *)
LEMMA PartsConvex ==
  ASSUME NEW S \in SUBSET Nat, Convex(S), NEW b \in Nat
  PROVE  /\ {c \in S : c < b} \in SUBSET Nat /\ {c \in S : c > b} \in SUBSET Nat
         /\ Convex({c \in S : c < b}) /\ Convex({c \in S : c > b})
<1>1. \A a, c \in S : \A x \in Nat : a <= x /\ x <= c => x \in S
  BY DEF Convex
<1>2. Convex({c \in S : c < b})
  BY <1>1 DEF Convex
<1>3. Convex({c \in S : c > b})
  BY <1>1 DEF Convex
<1> QED BY <1>2, <1>3

(* What takes a link is a convex set of characters.                        *)
LEMMA CoverKinds ==
  ASSUME NEW T \in SUBSET Node, NEW cover, Covers(T, cover), NEW l \in LinksFrom(T)
  PROVE  CoverAt(l, cover) \in SUBSET Nat /\ Convex(CoverAt(l, cover))
<1>1. CASE l[1] = Null \/ l[2] = "eq"
  BY <1>1 DEF CoverAt, Convex
<1>2. CASE ~(l[1] = Null \/ l[2] = "eq")
  <2>1. l[1] \in T /\ l[1] \in Node
    BY <1>2, LinkKinds
  <2>2. PICK q, S : q = l[1] /\ S = cover[q]
    OBVIOUS
  <2>3. S \in SUBSET Nat /\ Convex(S) /\ Char(q) \in Nat
    BY <2>1, <2>2, NodeIs DEF Covers
  <2>4. CoverAt(l, cover) = {c \in S : c < Char(q)} \/ CoverAt(l, cover) = {c \in S : c > Char(q)}
    BY <1>2, <2>2 DEF CoverAt
  <2> QED BY <2>3, <2>4, PartsConvex
<1> QED BY <1>1, <1>2

(* A walk leaves a node by one of its links.                               *)
LEMMA WayKinds ==
  ASSUME NEW n \in Node, NEW c \in Nat
  PROVE  /\ Way(c, n) \in Links
         /\ Way(c, n) = "eq" <=> c = Char(n)
         /\ Way(c, n) = "lo" <=> c < Char(n)
         /\ Way(c, n) = "hi" <=> c > Char(n)
<1>1. Char(n) \in Nat
  BY NodeIs
<1> QED BY <1>1 DEF Way, Links

(* A leaf that is hung where a walk for its character ends.                *)
LEMMA LeafIsHung ==
  ASSUME NEW T, NEW D, NEW cover, Tree(T, D, cover), NEW s \in LinksFrom(T), D[s] = Null,
         NEW x \in Node, x \notin T, Stem(x) = StemAt(s), Char(x) \in CoverAt(s, cover),
         \A w \in Links : D[<<x, w>>] = Null
  PROVE  Tree(T \cup {x}, [D EXCEPT ![s] = x], [cover EXCEPT ![x] = CoverAt(s, cover)])
<1> DEFINE U == T \cup {x}
           E == [D EXCEPT ![s] = x]
           cov == [cover EXCEPT ![x] = CoverAt(s, cover)]
<1>1. /\ T \in SUBSET Node /\ IsFiniteSet(T) /\ D \in [LinkAt -> Pointer] /\ x # Null
      /\ cover \in [Node -> SUBSET Nat] /\ CoverAt(s, cover) \in SUBSET Nat
      /\ Convex(CoverAt(s, cover)) /\ s \in LinkAt /\ Null \notin Node
  BY CoverKinds, LinkKinds, NodeIs DEF Tree, Covers
<1>2. /\ E \in [LinkAt -> Pointer] /\ E[s] = x
      /\ \A l \in LinkAt : l # s => E[l] = D[l]
  BY <1>1 DEF Pointer
<1>3. /\ cov \in [Node -> SUBSET Nat] /\ cov[x] = CoverAt(s, cover)
      /\ \A n \in T : cov[n] = cover[n] /\ n # x
  BY <1>1
<1>4. /\ LinksFrom(U) = LinksFrom(T) \cup {<<x, w>> : w \in Links}
      /\ \A w \in Links : <<x, w>> # s /\ <<x, w>> \in LinkAt /\ E[<<x, w>>] = Null
  <2>1. \A w \in Links : <<x, w>> # s
    BY <1>1, LinkKinds
  <2>2. \A w \in Links : <<x, w>> \in LinkAt
    BY <1>1 DEF LinkAt
  <2>3. LinksFrom(U) = LinksFrom(T) \cup {<<x, w>> : w \in Links}
    BY DEF LinksFrom
  <2> QED BY <1>2, <2>1, <2>2, <2>3
<1>5. \A l \in LinksFrom(T) : CoverAt(l, cov) = CoverAt(l, cover) /\ l \in LinkAt
  BY <1>1, <1>3, LinkKinds DEF CoverAt
<1> HIDE DEF E, cov
<1>6. U \subseteq Node /\ IsFiniteSet(U)
  BY <1>1, FS_AddElement
<1>7. Targets(U, E, cov)
  <2> SUFFICES ASSUME NEW l \in LinksFrom(U), E[l] # Null
               PROVE  E[l] \in U /\ Stem(E[l]) = StemAt(l) /\ cov[E[l]] = CoverAt(l, cov)
    BY DEF Targets
  <2>1. l \in LinksFrom(T)
    <3>1. l \in LinksFrom(T) \/ l \in {<<x, w>> : w \in Links}
      BY <1>4
    <3>2. \A w \in Links : l # <<x, w>>
      BY <1>4
    <3> QED BY <3>1, <3>2
  <2>2. CASE l = s
    BY <1>2, <1>3, <1>5, <2>1, <2>2
  <2>3. CASE l # s
    <3>1. E[l] = D[l]
      BY <1>2, <1>5, <2>1, <2>3
    <3> QED BY <1>3, <1>5, <2>1, <3>1 DEF Tree, Targets
  <2> QED BY <2>2, <2>3
<1>8. Covers(U, cov)
  BY <1>1, <1>3 DEF Covers, Tree
<1>9. Topped(U, E)
  <2>1. \A n \in T : TopOf(n) \in LinksFrom(U) /\ E[TopOf(n)] # Null
    BY <1>1, <1>2, <1>4, <1>5 DEF Tree, Topped
  <2>2. TopOf(x) \in LinksFrom(U) /\ E[TopOf(x)] # Null
    <3>1. CASE s = RootLink
      <4>1. s[1] = Null
        BY <3>1 DEF RootLink
      <4>2. TopOf(x) = s
        BY <3>1, <4>1 DEF StemAt, TopOf
      <4> QED BY <1>1, <1>2, <1>4, <4>2
    <3>2. CASE s[1] \in T /\ s[2] = "eq"
      <4>1. Stem(x) = s[1] /\ s[1] # <<>> /\ s = <<s[1], s[2]>>
        BY <1>1, <3>2, NodeIs, LinkKinds DEF StemAt
      <4> QED BY <1>1, <1>2, <1>4, <3>2, <4>1 DEF TopOf
    <3>3. CASE s[1] \in T /\ s[2] # "eq"
      <4>1. Stem(x) = Stem(s[1])
        BY <1>1, <3>3 DEF StemAt
      <4> QED BY <2>1, <3>3, <4>1 DEF TopOf
    <3> QED BY <1>1, <3>1, <3>2, <3>3, LinkKinds
  <2> QED BY <2>1, <2>2 DEF Topped
<1>10. OneEnd(U, E, cov)
  <2>1. \A n \in T : \A c \in Nat : Ends(c, n, E) => Ends(c, n, D)
    <3> SUFFICES ASSUME NEW n \in T, NEW c \in Nat, Ends(c, n, E) PROVE Ends(c, n, D)
      OBVIOUS
    <3>1. <<n, Way(c, n)>> \in LinkAt
      BY <1>1, WayKinds DEF LinkAt
    <3> QED BY <1>1, <1>2, <3>1 DEF Ends
  <2>2. ASSUME NEW m \in T, Stem(m) = Stem(x), NEW c \in cov[m] \cap cov[x], Ends(c, m, E)
        PROVE  FALSE
    <3>1. c \in cover[m] /\ c \in CoverAt(s, cover) /\ c \in Nat /\ Ends(c, m, D)
      BY <1>1, <1>3, <2>1, <2>2
    <3>2. CASE s[1] = Null \/ s[2] = "eq"
      <4>1. TopOf(m) = s
        <5>1. CASE s = RootLink
          BY <1>1, <2>2, <5>1 DEF StemAt, RootLink, TopOf
        <5>2. CASE s[1] \in T /\ s[2] = "eq"
          <6>1. Stem(x) = s[1] /\ s[1] # <<>> /\ s = <<s[1], s[2]>>
            BY <1>1, <5>2, NodeIs, LinkKinds DEF StemAt
          <6> QED BY <2>2, <5>2, <6>1 DEF TopOf
        <5> QED BY <1>1, <3>2, <5>1, <5>2, LinkKinds
      <4> QED BY <4>1 DEF Tree, Topped
    <3>3. CASE ~(s[1] = Null \/ s[2] = "eq")
      <4>1. PICK q : q = s[1]
        OBVIOUS
      <4>2. /\ q \in T /\ q \in Node /\ s = <<q, s[2]>> /\ s[2] \in {"lo", "hi"}
            /\ Stem(q) = Stem(m)
        BY <1>1, <2>2, <3>3, <4>1, LinkKinds DEF StemAt, Links
      <4>3. c \in cover[q] /\ Way(c, q) = s[2] /\ c # Char(q)
        <5>1. Char(q) \in Nat
          BY <4>2, NodeIs
        <5>2. (s[2] = "lo" /\ c \in cover[q] /\ c < Char(q)) \/ (s[2] = "hi" /\ c \in cover[q] /\ c > Char(q))
          BY <3>1, <3>3, <4>1, <4>2 DEF CoverAt
        <5> QED BY <3>1, <4>2, <5>1, <5>2, WayKinds
      <4>4. Ends(c, q, D)
        BY <4>2, <4>3 DEF Ends
      <4>5. m = q
        BY <3>1, <4>2, <4>3, <4>4 DEF Tree, OneEnd
      <4> QED BY <1>1, <1>2, <2>2, <4>2, <4>3, <4>5 DEF Ends
    <3> QED BY <3>2, <3>3
  <2> SUFFICES ASSUME NEW m \in U, NEW n \in U, Stem(m) = Stem(n),
                      NEW c \in cov[m] \cap cov[n], Ends(c, m, E), Ends(c, n, E)
               PROVE  m = n
    BY DEF OneEnd
  <2>3. CASE m \in T /\ n \in T
    <3>1. c \in cover[m] \cap cover[n] /\ c \in Nat
      BY <1>1, <1>3, <2>3
    <3> QED BY <2>1, <2>3, <3>1 DEF Tree, OneEnd
  <2>4. m = x /\ n # x => FALSE
    BY <2>2
  <2>5. n = x /\ m # x => FALSE
    BY <2>2
  <2> QED BY <2>3, <2>4, <2>5
<1>11. OneLink(U, E)
  <2>1. ASSUME NEW n \in U PROVE \E l \in LinksFrom(U) : E[l] = n
    <3>1. CASE n = x
      BY <1>2, <1>4, <3>1
    <3>2. CASE n \in T
      <4>1. PICK l \in LinksFrom(T) : D[l] = n
        BY <3>2 DEF Tree, OneLink
      <4>2. l # s
        BY <1>1, <3>2, <4>1
      <4> QED BY <1>2, <1>4, <1>5, <4>1, <4>2
    <3> QED BY <3>1, <3>2
  <2>2. ASSUME NEW l \in LinksFrom(U), NEW m \in LinksFrom(U), E[l] = E[m], E[l] # Null
        PROVE  l = m
    <3>1. l \in LinksFrom(T) /\ m \in LinksFrom(T)
      BY <1>4, <2>2
    <3>2. \A k \in LinksFrom(T) : D[k] # x
      BY <1>1 DEF Tree, Targets
    <3>3. \A k \in LinksFrom(T) : k # s => E[k] = D[k]
      BY <1>2, <1>5
    <3> QED BY <1>2, <2>2, <3>1, <3>2, <3>3 DEF Tree, OneLink
  <2> QED BY <2>1, <2>2 DEF OneLink
<1> QED BY <1>2, <1>6, <1>7, <1>8, <1>9, <1>10, <1>11 DEF Tree, E, cov

(***************************************************************************)
(* Cutting a node out of its level                                         *)
(* hi, or else lo, takes the place of the node, and lo is hung at the left *)
(* end of hi: the walks that ended at the node now end at one of these     *)
(* ends, whose covers grow.                                                *)
(***************************************************************************)
(* A cover that borders on b from above gains the characters low, one from *)
(* below the characters high.                                              *)
Widened(A, b, low, high) ==
  A \cup (IF b + 1 \in A /\ b \notin A THEN low ELSE {})
    \cup (IF b - 1 \in A /\ b \notin A THEN high ELSE {})

(* What a widened cover has.                                               *)
LEMMA WidenedHas ==
  ASSUME NEW A, NEW b, NEW low, NEW high, NEW c
  PROVE  c \in Widened(A, b, low, high) <=>
           \/ c \in A
           \/ c \in low /\ b + 1 \in A /\ b \notin A
           \/ c \in high /\ b - 1 \in A /\ b \notin A
BY DEF Widened

(* A cover with b in it does not border on b.                              *)
LEMMA WidenedNot ==
  ASSUME NEW A, NEW b, b \in A, NEW low, NEW high
  PROVE  Widened(A, b, low, high) = A
BY DEF Widened

(* Widening goes down with the cover to the lesser side of another node,   *)
LEMMA WidenedBelow ==
  ASSUME NEW A \in SUBSET Nat, Convex(A), NEW b \in Nat, NEW low, NEW high,
         \A c \in low : c \in Nat /\ c <= b, \A c \in high : c \in Nat /\ c >= b,
         NEW a \in A, a # b, NEW d \in A, d < a
  PROVE  {c \in Widened(A, b, low, high) : c < a} = Widened({c \in A : c < a}, b, low, high)
<1> DEFINE M == {c \in A : c < a}
<1>1. \A x, z \in A : \A y \in Nat : x <= y /\ y <= z => y \in A
  BY DEF Convex
<1>2. a \in Nat /\ d \in Nat
  OBVIOUS
<1>3. b + 1 \in M /\ b \notin M <=> b + 1 \in A /\ b \notin A
  <2>1. ASSUME b + 1 \in M, b \notin M PROVE b \notin A
    BY <1>2, <2>1
  <2>2. ASSUME b + 1 \in A, b \notin A PROVE b + 1 \in M
    <3>1. ~(a <= b)
      BY <1>1, <1>2, <2>2
    <3>2. ~(d <= b)
      BY <1>1, <1>2, <2>2
    <3>3. b + 1 < a
      BY <1>2, <3>1, <3>2
    <3> QED BY <2>2, <3>3
  <2> QED BY <2>1, <2>2
<1>4. ASSUME b - 1 \in M, b \notin M PROVE b - 1 \in A /\ b \notin A /\ FALSE
  <2>1. b - 1 \in A /\ b - 1 < a /\ b < a
    BY <1>2, <1>4
  <2>2. b \in A
    BY <1>1, <1>2, <2>1
  <2> QED BY <1>4, <2>1, <2>2
<1>5. ASSUME NEW c \in high, b - 1 \in A, b \notin A, c < a PROVE FALSE
  <2>1. b < a
    BY <1>2, <1>5
  <2> QED BY <1>1, <1>2, <1>5, <2>1
<1>6. ASSUME NEW c \in low, b + 1 \in A, b \notin A PROVE c < a
  <2>1. b + 1 < a
    BY <1>3, <1>6
  <2> QED BY <1>2, <2>1
<1> HIDE DEF M
<1>7. \A c : c \in Widened(M, b, low, high) <=> c \in Widened(A, b, low, high) /\ c < a
  <2> SUFFICES ASSUME NEW c PROVE c \in Widened(M, b, low, high)
                                  <=> c \in Widened(A, b, low, high) /\ c < a
    OBVIOUS
  <2>1. c \in M <=> c \in A /\ c < a
    BY DEF M
  <2> QED BY <1>3, <1>4, <1>5, <1>6, <2>1, WidenedHas
<1>8. Widened(M, b, low, high) = {c \in Widened(A, b, low, high) : c < a}
  BY <1>7
<1> QED BY <1>8 DEF M

(* and to the greater side.                                                *)
LEMMA WidenedAbove ==
  ASSUME NEW A \in SUBSET Nat, Convex(A), NEW b \in Nat, NEW low, NEW high,
         \A c \in low : c \in Nat /\ c <= b, \A c \in high : c \in Nat /\ c >= b,
         NEW a \in A, a # b, NEW d \in A, d > a
  PROVE  {c \in Widened(A, b, low, high) : c > a} = Widened({c \in A : c > a}, b, low, high)
<1> DEFINE M == {c \in A : c > a}
<1>1. \A x, z \in A : \A y \in Nat : x <= y /\ y <= z => y \in A
  BY DEF Convex
<1>2. a \in Nat /\ d \in Nat
  OBVIOUS
<1>3. b - 1 \in M /\ b \notin M <=> b - 1 \in A /\ b \notin A
  <2>1. ASSUME b - 1 \in M, b \notin M PROVE b \notin A
    BY <1>2, <2>1
  <2>2. ASSUME b - 1 \in A, b \notin A PROVE b - 1 \in M
    <3>1. ~(a >= b)
      BY <1>1, <1>2, <2>2
    <3>2. ~(d >= b)
      BY <1>1, <1>2, <2>2
    <3>3. b - 1 > a
      BY <1>2, <3>1, <3>2
    <3> QED BY <2>2, <3>3
  <2> QED BY <2>1, <2>2
<1>4. ASSUME b + 1 \in M, b \notin M PROVE b + 1 \in A /\ b \notin A /\ FALSE
  <2>1. b + 1 \in A /\ b > a
    BY <1>2, <1>4
  <2>2. b \in A
    BY <1>1, <1>2, <2>1
  <2> QED BY <1>4, <2>1, <2>2
<1>5. ASSUME NEW c \in low, b + 1 \in A, b \notin A, c > a PROVE FALSE
  <2>1. b > a
    BY <1>2, <1>5
  <2> QED BY <1>1, <1>2, <1>5, <2>1
<1>6. ASSUME NEW c \in high, b - 1 \in A, b \notin A PROVE c > a
  <2>1. b - 1 > a
    BY <1>3, <1>6
  <2> QED BY <1>2, <2>1
<1> HIDE DEF M
<1>7. \A c : c \in Widened(M, b, low, high) <=> c \in Widened(A, b, low, high) /\ c > a
  <2> SUFFICES ASSUME NEW c PROVE c \in Widened(M, b, low, high)
                                  <=> c \in Widened(A, b, low, high) /\ c > a
    OBVIOUS
  <2>1. c \in M <=> c \in A /\ c > a
    BY DEF M
  <2> QED BY <1>3, <1>4, <1>5, <1>6, <2>1, WidenedHas
<1>8. Widened(M, b, low, high) = {c \in Widened(A, b, low, high) : c > a}
  BY <1>7
<1> QED BY <1>8 DEF M

(* A widened cover is convex.                                              *)
LEMMA WidenedConvex ==
  ASSUME NEW A \in SUBSET Nat, Convex(A), NEW b \in Nat, NEW low, NEW high,
         \A c \in low : c \in Nat /\ c <= b, \A c \in high : c \in Nat /\ c >= b,
         Convex(low), low # {} => b \in low, Convex(high), high # {} => b \in high
  PROVE  Widened(A, b, low, high) \in SUBSET Nat /\ Convex(Widened(A, b, low, high))
<1>1. \A x, z \in A : \A y \in Nat : x <= y /\ y <= z => y \in A
  BY DEF Convex
<1>2. \A x, z \in low : \A y \in Nat : x <= y /\ y <= z => y \in low
  BY DEF Convex
<1>3. \A x, z \in high : \A y \in Nat : x <= y /\ y <= z => y \in high
  BY DEF Convex
<1>4. CASE b + 1 \in A /\ b \notin A
  <2>1. b - 1 \notin A
    BY <1>1, <1>4
  <2>2. PICK V : V = Widened(A, b, low, high)
    OBVIOUS
  <2>3. \A c : c \in V <=> c \in A \/ c \in low
    BY <1>4, <2>1, <2>2, WidenedHas
  <2>4. \A c \in A : c > b
    BY <1>1, <1>4
  <2>5. ASSUME NEW x \in V, NEW z \in V, NEW y \in Nat, x <= y, y <= z PROVE y \in V
    <3>1. CASE x \in A /\ z \in A
      BY <1>1, <2>3, <2>5, <3>1
    <3>2. CASE x \in low /\ z \in low
      BY <1>2, <2>3, <2>5, <3>2
    <3>3. CASE x \in low /\ z \in A
      <4>1. CASE y <= b
        BY <1>2, <2>3, <2>5, <3>3, <4>1
      <4>2. CASE y > b
        BY <1>1, <1>4, <2>3, <2>5, <3>3, <4>2
      <4> QED BY <4>1, <4>2
    <3>4. CASE x \in A /\ z \in low
      BY <2>4, <2>5, <3>4
    <3> QED BY <2>3, <2>5, <3>1, <3>2, <3>3, <3>4
  <2>6. V \in SUBSET Nat
    BY <2>3
  <2> QED BY <2>2, <2>5, <2>6 DEF Convex
<1>5. CASE b - 1 \in A /\ b \notin A
  <2>1. b + 1 \notin A
    BY <1>1, <1>5
  <2>2. PICK V : V = Widened(A, b, low, high)
    OBVIOUS
  <2>3. \A c : c \in V <=> c \in A \/ c \in high
    BY <1>5, <2>1, <2>2, WidenedHas
  <2>4. \A c \in A : c < b
    BY <1>1, <1>5
  <2>5. ASSUME NEW x \in V, NEW z \in V, NEW y \in Nat, x <= y, y <= z PROVE y \in V
    <3>1. CASE x \in A /\ z \in A
      BY <1>1, <2>3, <2>5, <3>1
    <3>2. CASE x \in high /\ z \in high
      BY <1>3, <2>3, <2>5, <3>2
    <3>3. CASE x \in A /\ z \in high
      <4>1. CASE y >= b
        BY <1>3, <2>3, <2>5, <3>3, <4>1
      <4>2. CASE y < b
        <5>1. y <= b - 1
          BY <4>2
        <5> QED BY <1>1, <1>5, <2>3, <2>5, <3>3, <5>1
      <4> QED BY <4>1, <4>2
    <3>4. CASE x \in high /\ z \in A
      BY <2>4, <2>5, <3>4
    <3> QED BY <2>3, <2>5, <3>1, <3>2, <3>3, <3>4
  <2>6. V \in SUBSET Nat
    BY <2>3
  <2> QED BY <2>2, <2>5, <2>6 DEF Convex
<1>6. CASE ~(b + 1 \in A /\ b \notin A) /\ ~(b - 1 \in A /\ b \notin A)
  <2>1. Widened(A, b, low, high) = A
    BY <1>6 DEF Widened
  <2> QED BY <2>1
<1> QED BY <1>4, <1>5, <1>6

(* What the two sides of b gain.                                           *)
LEMMA WidenedLess ==
  ASSUME NEW K \in SUBSET Nat, Convex(K), NEW b \in K, NEW low, NEW high, NEW d \in K, d < b
  PROVE  Widened({c \in K : c < b}, b, low, high) = {c \in K : c < b} \cup high
<1>1. b - 1 \in Nat /\ d <= b - 1 /\ b - 1 <= b
  OBVIOUS
<1>2. b - 1 \in K
  BY <1>1 DEF Convex
<1> QED BY <1>1, <1>2 DEF Widened

(* And what the greater one gains.                                         *)
LEMMA WidenedMore ==
  ASSUME NEW K \in SUBSET Nat, Convex(K), NEW b \in K, NEW low, NEW high, NEW d \in K, d > b
  PROVE  Widened({c \in K : c > b}, b, low, high) = {c \in K : c > b} \cup low
<1>1. b + 1 \in Nat /\ d >= b + 1 /\ b + 1 >= b
  OBVIOUS
<1>2. b + 1 \in K
  BY <1>1 DEF Convex
<1> QED BY <1>1, <1>2 DEF Widened

(* A chain C, whose first node b may have a lo and a hi and whose others   *)
(* have none, leaves the tree: link y now leads to heir, and the lo of e,  *)
(* the left end of b's hi, to b's lo. E are the links then. The first      *)
(* conditions say that C is a chain and that nothing else is below it.     *)
CutHere(T, D, cover, C, b, y, less, more, heir, e, E) ==
  /\ C \in SUBSET T /\ b \in C /\ y \in LinksFrom(T \ C) /\ D[y] = b
  /\ less = D[<<b, "lo">>] /\ more = D[<<b, "hi">>]
  /\ heir = IF more # Null THEN more ELSE less
  /\ \A n \in C : n # b => \E m \in C : D[<<m, "eq">>] = n
  /\ \A n \in C : /\ D[<<n, "eq">>] \in C \cup {Null}
                  /\ n # b => D[<<n, "lo">>] = Null /\ D[<<n, "hi">>] = Null
  /\ \A n \in T \ C : Stem(n) \notin C
  /\ y[1] = Null \/ y[2] = "eq" => heir # Null
  /\ less # Null /\ more # Null =>
       /\ e \in T \ C /\ Stem(e) = Stem(b) /\ D[<<e, "lo">>] = Null
       /\ cover[e] \subseteq cover[more] /\ Char(b) + 1 \in cover[e]
  /\ E \in [LinkAt -> Pointer]
  /\ \A l \in LinksFrom(T \ C) :
       E[l] = IF less # Null /\ more # Null /\ l = <<e, "lo">> THEN less
              ELSE IF l = y THEN heir ELSE D[l]

(* What is left is a tree: ternary.hh:158-184.                             *)
LEMMA BranchIsCut ==
  ASSUME NEW T, NEW D, NEW cover, Tree(T, D, cover),
         NEW C, NEW b, NEW y, NEW less, NEW more, NEW heir, NEW e, NEW E,
         CutHere(T, D, cover, C, b, y, less, more, heir, e, E)
  PROVE  \E cov : Tree(T \ C, E, cov)
<1> USE DEF CutHere
<1> DEFINE U == T \ C
           both == less # Null /\ more # Null
           B == Char(b)
           K == cover[b]
           low == IF more # Null THEN {c \in K : c <= B} ELSE {}
           high == IF less # Null THEN {c \in K : c >= B /\ (more # Null => c < Char(e))} ELSE {}
           cov == [n \in Node |-> IF Stem(n) = Stem(b) THEN Widened(cover[n], B, low, high)
                                                       ELSE cover[n]]
<1>1. /\ T \in SUBSET Node /\ U \in SUBSET Node /\ U \subseteq T /\ b \in T /\ b \in Node
      /\ b \notin U /\ IsFiniteSet(U) /\ D \in [LinkAt -> Pointer]
      /\ cover \in [Node -> SUBSET Nat] /\ b # Null /\ Null \notin Node
  <2>1. IsFiniteSet(U)
    BY FS_Difference DEF Tree
  <2> QED BY <2>1, NodeIs DEF Tree, Covers
<1>2. /\ B \in Nat /\ B \in K /\ K \in SUBSET Nat /\ Convex(K)
  BY <1>1, NodeIs DEF Tree, Covers
<1>3. \A n \in T : /\ n \in Node /\ Char(n) \in Nat /\ cover[n] \in SUBSET Nat
                   /\ Char(n) \in cover[n] /\ Convex(cover[n])
  BY <1>1, NodeIs DEF Tree, Covers
<1>4. \A l \in LinksFrom(U) : l \in LinksFrom(T) /\ l \in LinkAt
  BY <1>1, LinkKinds DEF LinksFrom
<1>5. ASSUME NEW l \in LinksFrom(T), D[l] \in C
      PROVE  l = y \/ (l[1] \in C /\ l[2] = "eq" /\ D[l] # b)
  <2>1. CASE D[l] = b
    BY <1>1, <1>4, <1>5, <2>1 DEF Tree, OneLink
  <2>2. CASE D[l] # b
    <3>1. PICK m \in C : D[<<m, "eq">>] = D[l]
      BY <1>5, <2>2
    <3>2. <<m, "eq">> \in LinksFrom(T)
      BY <1>1, <3>1 DEF LinksFrom, Links
    <3>3. D[l] # Null
      BY <1>1, <1>5
    <3>4. l = <<m, "eq">>
      BY <1>5, <3>1, <3>2, <3>3 DEF Tree, OneLink
    <3> QED BY <2>2, <3>1, <3>4
  <2> QED BY <2>1, <2>2
<1>6. \A l \in LinksFrom(U) : D[l] \in C => l = y
  <2>1. \A l \in LinksFrom(U) : l[1] \notin C
    BY <1>1, LinkKinds
  <2> QED BY <1>4, <1>5, <2>1
<1>7. ASSUME NEW w \in {"lo", "hi"}, NEW m, m = D[<<b, w>>], m # Null
      PROVE  m \in U /\ Stem(m) = Stem(b) /\ cover[m] = CoverAt(<<b, w>>, cover)
  <2>1. <<b, w>> \in LinksFrom(T) /\ <<b, w>>[1] = b /\ <<b, w>>[2] = w /\ w # "eq"
    BY <1>1 DEF LinksFrom, Links
  <2>2. m \in T /\ Stem(m) = Stem(b) /\ cover[m] = CoverAt(<<b, w>>, cover)
    BY <1>1, <1>7, <2>1 DEF Tree, Targets, StemAt
  <2>3. <<b, w>> # y
    <3>1. y[1] \notin C
      BY <1>1, LinkKinds
    <3> QED BY <2>1, <3>1
  <2>4. m \notin C
    BY <1>5, <1>7, <2>1, <2>3
  <2> QED BY <2>2, <2>4
<1>8. less # Null => /\ less \in U /\ Stem(less) = Stem(b) /\ cover[less] = {c \in K : c < B}
                     /\ \E d \in K : d < B
  <2> SUFFICES ASSUME less # Null PROVE /\ less \in U /\ Stem(less) = Stem(b)
                                        /\ cover[less] = {c \in K : c < B} /\ \E d \in K : d < B
    OBVIOUS
  <2>1. less \in U /\ Stem(less) = Stem(b) /\ cover[less] = CoverAt(<<b, "lo">>, cover)
    BY <1>7
  <2>2. cover[less] = {c \in K : c < B}
    BY <1>1, <2>1 DEF CoverAt
  <2> QED BY <1>1, <1>3, <2>1, <2>2
<1>9. more # Null => /\ more \in U /\ Stem(more) = Stem(b) /\ cover[more] = {c \in K : c > B}
                     /\ \E d \in K : d > B
  <2> SUFFICES ASSUME more # Null PROVE /\ more \in U /\ Stem(more) = Stem(b)
                                        /\ cover[more] = {c \in K : c > B} /\ \E d \in K : d > B
    OBVIOUS
  <2>1. more \in U /\ Stem(more) = Stem(b) /\ cover[more] = CoverAt(<<b, "hi">>, cover)
    BY <1>7
  <2>2. cover[more] = {c \in K : c > B}
    BY <1>1, <2>1 DEF CoverAt
  <2> QED BY <1>1, <1>3, <2>1, <2>2
<1>10. both => /\ e \in U /\ Stem(e) = Stem(b) /\ D[<<e, "lo">>] = Null /\ B + 1 \in cover[e]
               /\ (\A c \in cover[e] : c \in K /\ c > B) /\ Char(e) > B /\ Char(e) \in K
               /\ B \notin cover[e] /\ B - 1 \notin cover[e] /\ <<e, "lo">> \in LinksFrom(U)
               /\ <<e, "lo">> # y
  <2> SUFFICES ASSUME both PROVE <1>10!2
    OBVIOUS
  <2>1. e \in U /\ Stem(e) = Stem(b) /\ D[<<e, "lo">>] = Null /\ B + 1 \in cover[e]
    OBVIOUS
  <2>2. \A c \in cover[e] : c \in K /\ c > B
    BY <1>9
  <2>3. Char(e) \in cover[e]
    BY <1>1, <1>3, <2>1
  <2>4. <<e, "lo">> \in LinksFrom(U)
    BY <2>1 DEF LinksFrom, Links
  <2> QED BY <1>1, <1>2, <2>1, <2>2, <2>3, <2>4
<1>11. /\ \A c \in low : c \in Nat /\ c <= B
       /\ \A c \in high : c \in Nat /\ c >= B
       /\ Convex(low) /\ (low # {} => B \in low)
       /\ Convex(high) /\ (high # {} => B \in high)
       /\ \A c \in low \cup high : c \in K
       /\ low # {} => more # Null
       /\ high # {} => less # Null
       /\ both => \A c \in high : c < Char(e)
  <2>1. \A x, z \in K : \A i \in Nat : x <= i /\ i <= z => i \in K
    BY <1>2 DEF Convex
  <2>2. Convex(low)
    BY <1>2, <2>1 DEF Convex
  <2>3. Convex(high)
    <3>1. CASE more = Null
      BY <1>2, <2>1, <3>1 DEF Convex
    <3>2. CASE more # Null /\ less # Null
      <4>1. PICK d : d = Char(e)
        OBVIOUS
      <4>2. d \in Nat
        BY <1>2, <1>10, <3>2, <4>1
      <4>3. high = {c \in K : c >= B /\ c < d}
        BY <3>2, <4>1
      <4> HIDE DEF high
      <4> QED BY <1>2, <2>1, <4>2, <4>3 DEF Convex
    <3>3. CASE less = Null
      BY <3>3 DEF Convex
    <3> QED BY <3>1, <3>2, <3>3
  <2>4. high # {} => B \in high
    BY <1>2, <1>10
  <2> QED BY <1>2, <2>2, <2>3, <2>4
<1>12. /\ \A n \in Node : cov[n] = IF Stem(n) = Stem(b) THEN Widened(cover[n], B, low, high)
                                                        ELSE cover[n]
       /\ \A n \in U : B \in cover[n] => cov[n] = cover[n]
  <2>1. \A n \in Node : cov[n] = IF Stem(n) = Stem(b) THEN Widened(cover[n], B, low, high)
                                                      ELSE cover[n]
    OBVIOUS
  <2> HIDE DEF cov, low, high
  <2> QED BY <1>1, <2>1, WidenedNot
<1>13. /\ less # Null => {c \in K : c < B} \cup high = Widened(cover[less], B, low, high)
       /\ more # Null => {c \in K : c > B} \cup low = Widened(cover[more], B, low, high)
  <2> HIDE DEF low, high
  <2> QED BY <1>2, <1>8, <1>9, WidenedLess, WidenedMore
<1>14. /\ StemAt(y) = Stem(b) /\ CoverAt(y, cover) = K /\ CoverAt(y, cov) = K
       /\ y[1] = Null \/ y[2] = "eq" \/ (y[1] \in U /\ Stem(y[1]) = Stem(b) /\ y[2] \in {"lo", "hi"})
  <2>1. StemAt(y) = Stem(b) /\ CoverAt(y, cover) = K
    BY <1>1, <1>4 DEF Tree, Targets
  <2>2. CASE y[1] = Null \/ y[2] = "eq"
    BY <2>1, <2>2 DEF CoverAt
  <2>3. CASE ~(y[1] = Null \/ y[2] = "eq")
    <3>1. PICK q : q = y[1]
      OBVIOUS
    <3>2. q \in U /\ q # Null /\ y[2] \in {"lo", "hi"} /\ Stem(q) = Stem(b)
      BY <1>1, <2>1, <2>3, <3>1, LinkKinds DEF StemAt, Links
    <3>3. K \subseteq cover[q]
      BY <2>1, <2>3, <3>1 DEF CoverAt
    <3>4. cov[q] = cover[q]
      BY <1>2, <1>12, <3>2, <3>3
    <3>5. CoverAt(y, cov) = CoverAt(y, cover)
      <4> HIDE DEF cov
      <4> QED BY <2>3, <3>1, <3>4 DEF CoverAt
    <3> QED BY <2>1, <3>1, <3>2, <3>5
  <2> QED BY <2>2, <2>3
<1>15. heir # Null => heir \in U /\ Stem(heir) = Stem(b) /\ cov[heir] = K
  <2>1. CASE more # Null
    <3>1. low = {c \in K : c <= B}
      BY <2>1
    <3>2. cov[more] = {c \in K : c > B} \cup low
      BY <1>1, <1>9, <1>12, <1>13, <2>1
    <3>3. cov[more] = K
      <4> HIDE DEF cov, low
      <4>1. \A c : c \in cov[more] <=> c \in K
        BY <1>2, <3>1, <3>2
      <4> QED BY <4>1
    <3> QED BY <1>9, <2>1, <3>3
  <2>2. CASE more = Null /\ less # Null
    <3>1. high = {c \in K : c >= B}
      BY <2>2
    <3>2. cov[less] = {c \in K : c < B} \cup high
      BY <1>1, <1>8, <1>12, <1>13, <2>2
    <3>3. cov[less] = K
      <4> HIDE DEF cov, high
      <4>1. \A c : c \in cov[less] <=> c \in K
        BY <1>2, <3>1, <3>2
      <4> QED BY <4>1
    <3> QED BY <1>8, <2>2, <3>3
  <2> QED BY <2>1, <2>2
<1>16. both => cov[less] = CoverAt(<<e, "lo">>, cov)
  <2> SUFFICES ASSUME both PROVE cov[less] = CoverAt(<<e, "lo">>, cov)
    OBVIOUS
  <2>1. PICK d : d = Char(e)
    OBVIOUS
  <2>2. d \in Nat /\ d > B /\ d \in cover[e] /\ B + 1 \in cover[e] /\ Convex(cover[e])
    BY <1>2, <1>3, <1>10, <2>1
  <2>3. low = {c \in K : c <= B} /\ high = {c \in K : c >= B /\ c < d}
    BY <2>1
  <2>4. cov[less] = {c \in K : c < B} \cup high
    BY <1>1, <1>8, <1>12, <1>13
  <2>5. cov[e] = cover[e] \cup low
    BY <1>1, <1>10, <1>12 DEF Widened
  <2> HIDE DEF cov, low, high
  <2>6. \A c : c \in cov[less] <=> c \in K /\ c < d
    BY <1>2, <2>2, <2>3, <2>4
  <2>7. \A c \in K : c > B /\ c < d => c \in cover[e]
    <3>1. \A c \in K : c > B => c >= B + 1 /\ c \in Nat
      BY <1>2
    <3> QED BY <2>2, <3>1 DEF Convex
  <2>8. \A c : c \in cov[e] /\ c < d <=> c \in K /\ c < d
    BY <1>2, <1>10, <2>2, <2>3, <2>5, <2>7
  <2>9. e # Null /\ CoverAt(<<e, "lo">>, cov) = {c \in cov[e] : c < d}
    BY <1>1, <1>10, <2>1 DEF CoverAt
  <2> QED BY <2>6, <2>8, <2>9
<1> HIDE DEF cov, low, high
<1>17. ASSUME NEW l \in LinksFrom(U), D[l] # Null, l # y
       PROVE  D[l] \in U /\ Stem(D[l]) = StemAt(l) /\ cov[D[l]] = CoverAt(l, cov)
  <2>1. PICK m : m = D[l]
    OBVIOUS
  <2>2. m \in U /\ Stem(m) = StemAt(l) /\ cover[m] = CoverAt(l, cover)
    <3>1. m \in T /\ Stem(m) = StemAt(l) /\ cover[m] = CoverAt(l, cover)
      BY <1>4, <1>17, <2>1 DEF Tree, Targets
    <3> QED BY <1>6, <1>17, <2>1, <3>1
  <2>3. CASE l[1] = Null \/ l[2] = "eq"
    <3>1. cover[m] = Nat /\ CoverAt(l, cov) = Nat
      BY <2>2, <2>3 DEF CoverAt
    <3> QED BY <1>2, <1>12, <2>1, <2>2, <3>1
  <2>4. CASE ~(l[1] = Null \/ l[2] = "eq")
    <3>1. PICK n : n = l[1]
      OBVIOUS
    <3>2. n \in U /\ n # Null /\ l[2] \in {"lo", "hi"} /\ Stem(n) = Stem(m)
      BY <1>1, <2>2, <2>4, <3>1, LinkKinds DEF StemAt, Links
    <3>3. PICK A, a, d : A = cover[n] /\ a = Char(n) /\ d = Char(m)
      OBVIOUS
    <3>4. /\ A \in SUBSET Nat /\ Convex(A) /\ a \in A /\ d \in cover[m]
      BY <1>1, <1>3, <2>2, <3>2, <3>3
    <3>5. CASE Stem(n) # Stem(b)
      <4>1. cov[n] = cover[n] /\ cov[m] = cover[m]
        BY <1>1, <1>12, <2>2, <3>2, <3>5
      <4> QED BY <2>1, <2>2, <2>4, <3>1, <4>1 DEF CoverAt
    <3>6. CASE Stem(n) = Stem(b)
      <4>1. cov[n] = Widened(A, B, low, high) /\ cov[m] = Widened(cover[m], B, low, high)
        BY <1>1, <1>12, <2>2, <3>2, <3>3, <3>6
      <4>2. a # B
        BY <1>1, <3>2, <3>3, <3>6, StemAndChar
      <4>3. CASE l[2] = "lo"
        <5>1. cover[m] = {c \in A : c < a} /\ CoverAt(l, cov) = {c \in cov[n] : c < a}
          BY <2>2, <2>4, <3>1, <3>3, <4>3 DEF CoverAt
        <5>2. d \in A /\ d < a
          BY <3>4, <5>1
        <5> QED BY <1>2, <1>11, <2>1, <2>2, <3>4, <4>1, <4>2, <5>1, <5>2, WidenedBelow
      <4>4. CASE l[2] = "hi"
        <5>1. cover[m] = {c \in A : c > a} /\ CoverAt(l, cov) = {c \in cov[n] : c > a}
          BY <2>2, <2>4, <3>1, <3>3, <4>4 DEF CoverAt
        <5>2. d \in A /\ d > a
          BY <3>4, <5>1
        <5> QED BY <1>2, <1>11, <2>1, <2>2, <3>4, <4>1, <4>2, <5>1, <5>2, WidenedAbove
      <4> QED BY <3>2, <4>3, <4>4
    <3> QED BY <3>5, <3>6
  <2> QED BY <2>3, <2>4
<1>18. /\ y \in LinksFrom(U) /\ E[y] = heir /\ (both => E[<<e, "lo">>] = less)
       /\ \A l \in LinksFrom(U) : l # y /\ ~(both /\ l = <<e, "lo">>) => E[l] = D[l]
  BY <1>10
<1>19. Targets(U, E, cov)
  <2> SUFFICES ASSUME NEW l \in LinksFrom(U), E[l] # Null
               PROVE  E[l] \in U /\ Stem(E[l]) = StemAt(l) /\ cov[E[l]] = CoverAt(l, cov)
    BY DEF Targets
  <2>1. CASE l = y
    BY <1>14, <1>15, <1>18, <2>1
  <2>2. CASE both /\ l = <<e, "lo">>
    <3>1. StemAt(l) = Stem(b)
      BY <1>1, <1>10, <2>2 DEF StemAt
    <3> QED BY <1>8, <1>16, <1>18, <2>2, <3>1
  <2>3. CASE l # y /\ ~(both /\ l = <<e, "lo">>)
    BY <1>17, <1>18, <2>3
  <2> QED BY <2>1, <2>2, <2>3
<1>20. Covers(U, cov)
  <2>1. ASSUME NEW n \in Node, Stem(n) = Stem(b)
        PROVE  cov[n] \in SUBSET Nat
    <3>1. \A c \in cov[n] : c \in cover[n] \/ c \in low \/ c \in high
      BY <1>12, <2>1, WidenedHas
    <3>2. cover[n] \in SUBSET Nat
      BY <1>1
    <3> QED BY <1>11, <3>1, <3>2
  <2>2. \A n \in Node : cov[n] \in SUBSET Nat
    BY <1>1, <1>12, <2>1
  <2>3. cov \in [Node -> SUBSET Nat]
    <3>1. cov = [n \in Node |-> cov[n]]
      BY DEF cov
    <3> QED BY <2>2, <3>1
  <2>4. ASSUME NEW n \in U PROVE Char(n) \in cov[n] /\ Convex(cov[n])
    <3>1. CASE Stem(n) # Stem(b)
      BY <1>1, <1>3, <1>12, <3>1
    <3>2. CASE Stem(n) = Stem(b)
      <4>1. PICK A : A = cover[n]
        OBVIOUS
      <4>2. A \in SUBSET Nat /\ Convex(A) /\ Char(n) \in A /\ cov[n] = Widened(A, B, low, high)
        BY <1>1, <1>3, <1>12, <3>2, <4>1
      <4>3. Convex(cov[n])
        BY <1>2, <1>11, <4>2, WidenedConvex
      <4> QED BY <4>2, <4>3, WidenedHas
    <3> QED BY <3>1, <3>2
  <2> QED BY <2>3, <2>4 DEF Covers
<1>21. Topped(U, E)
  <2> SUFFICES ASSUME NEW n \in U PROVE TopOf(n) \in LinksFrom(U) /\ E[TopOf(n)] # Null
    BY DEF Topped
  <2>1. PICK l : l = TopOf(n)
    OBVIOUS
  <2>2. l \in LinksFrom(T) /\ D[l] # Null
    BY <1>1, <2>1 DEF Tree, Topped
  <2>3. l = RootLink \/ (l = <<Stem(n), "eq">> /\ Stem(n) \notin C)
    BY <2>1 DEF TopOf
  <2>4. l \in LinksFrom(U) /\ (l[1] = Null \/ l[2] = "eq")
    BY <2>2, <2>3 DEF LinksFrom, RootLink
  <2>5. ~(both /\ l = <<e, "lo">>)
    BY <1>1, <1>10, <2>4
  <2> QED BY <1>18, <2>1, <2>2, <2>4, <2>5
<1>22. OneLink(U, E)
  <2>1. ASSUME NEW n \in U PROVE \E l \in LinksFrom(U) : E[l] = n
    <3>1. PICK l \in LinksFrom(T) : D[l] = n
      BY <1>1 DEF Tree, OneLink
    <3>2. CASE l[1] \in C
      <4>1. l = <<l[1], l[2]>> /\ l[2] \in Links /\ n # Null /\ n \notin C
        BY <1>1, <3>2, LinkKinds
      <4>2. n = less \/ n = more
        <5>1. D[<<l[1], l[2]>>] = n
          BY <3>1, <4>1
        <5>2. l[2] = "eq" => D[<<l[1], "eq">>] \in C \cup {Null}
          BY <3>2
        <5>3. l[1] # b => D[<<l[1], "lo">>] = Null /\ D[<<l[1], "hi">>] = Null
          BY <3>2
        <5> QED BY <4>1, <5>1, <5>2, <5>3 DEF Links
      <4> QED BY <1>10, <1>18, <4>1, <4>2
    <3>3. CASE l[1] \notin C
      <4>1. l \in LinksFrom(U)
        BY <1>1, <3>3, LinkKinds DEF LinksFrom
      <4>2. l # y /\ ~(both /\ l = <<e, "lo">>)
        BY <1>1, <1>10, <3>1
      <4> QED BY <1>18, <3>1, <4>1, <4>2
    <3> QED BY <3>2, <3>3
  <2>2. ASSUME NEW l \in LinksFrom(U), D[l] # Null PROVE D[l] # less /\ D[l] # more
    <3>1. /\ <<b, "lo">> \in LinksFrom(T) /\ <<b, "hi">> \in LinksFrom(T)
          /\ <<b, "lo">>[1] = b /\ <<b, "hi">>[1] = b
      BY <1>1 DEF LinksFrom, Links
    <3>2. l[1] # b
      BY <1>1, LinkKinds
    <3> QED BY <1>4, <2>2, <3>1, <3>2 DEF Tree, OneLink
  <2>3. both => less # more
    <3>1. <<b, "lo">> \in LinksFrom(T) /\ <<b, "hi">> \in LinksFrom(T) /\ <<b, "lo">> # <<b, "hi">>
      BY <1>1 DEF LinksFrom, Links
    <3> QED BY <3>1 DEF Tree, OneLink
  <2>4. ASSUME NEW l \in LinksFrom(U), NEW m \in LinksFrom(U), E[l] = E[m], E[l] # Null
        PROVE  l = m
    <3>1. ASSUME NEW k \in LinksFrom(U)
          PROVE  (k = y /\ E[k] = heir) \/ (both /\ k = <<e, "lo">> /\ E[k] = less) \/ E[k] = D[k]
      BY <1>18
    <3>2. D[l] = D[m] /\ D[l] # Null => l = m
      BY <1>4 DEF Tree, OneLink
    <3>3. (heir = less \/ heir = more) /\ (both => heir # less)
      BY <2>3
    <3>4. ASSUME NEW k \in LinksFrom(U), E[k] # Null
          PROVE  \/ E[k] = D[k] /\ E[k] # less /\ E[k] # more
                 \/ k = y /\ E[k] = heir
                 \/ both /\ k = <<e, "lo">> /\ E[k] = less
      <4>1. CASE E[k] = D[k]
        <5>1. D[k] # less /\ D[k] # more
          BY <2>2, <3>4, <4>1
        <5> QED BY <4>1, <5>1
      <4>2. CASE E[k] # D[k]
        BY <3>1, <4>2
      <4> QED BY <4>1, <4>2
    <3>5. \/ E[l] = D[l] /\ E[l] # less /\ E[l] # more
          \/ l = y /\ E[l] = heir
          \/ both /\ l = <<e, "lo">> /\ E[l] = less
      BY <2>4, <3>4
    <3>6. \/ E[m] = D[m] /\ E[m] # less /\ E[m] # more
          \/ m = y /\ E[m] = heir
          \/ both /\ m = <<e, "lo">> /\ E[m] = less
      BY <2>4, <3>4
    <3> HIDE DEF both, CutHere
    <3> QED BY <2>4, <3>2, <3>3, <3>5, <3>6
  <2> QED BY <2>1, <2>4 DEF OneLink
<1>23. ASSUME NEW m \in T, NEW n \in T, Stem(m) = Stem(n), NEW c \in cover[m], c \in cover[n],
              Ends(c, m, D), Ends(c, n, D)
       PROVE  m = n
  BY <1>23 DEF Tree, OneEnd
<1>24. ASSUME NEW n \in U, NEW c \in Nat, Ends(c, n, E)
       PROVE  /\ Ends(c, n, D) \/ (heir = Null /\ <<n, Way(c, n)>> = y)
              /\ both /\ n = e => ~(c < Char(e))
  <2>1. PICK l : l = <<n, Way(c, n)>>
    OBVIOUS
  <2>2. l \in LinksFrom(U) /\ l[1] = n /\ l[2] = Way(c, n) /\ n \in Node /\ Char(n) \in Nat
    BY <1>1, <1>3, <2>1, WayKinds DEF LinksFrom
  <2>3. CASE c = Char(n)
    BY <2>2, <2>3 DEF Ends
  <2>4. CASE E[l] = Null
    <3>1. ~(both /\ l = <<e, "lo">>)
      BY <1>18, <2>4
    <3>2. l # y => D[l] = Null
      BY <1>18, <2>2, <2>4, <3>1
    <3>3. l = y => heir = Null
      BY <1>18, <2>4
    <3>4. n = e /\ c < Char(e) => l = <<e, "lo">>
      BY <2>1, <2>2, WayKinds
    <3> QED BY <2>1, <3>1, <3>2, <3>3, <3>4 DEF Ends
  <2> QED BY <1>24, <2>1, <2>3, <2>4 DEF Ends
<1>25. ASSUME heir # Null, NEW n \in U, Stem(n) = Stem(b), NEW c \in low, B + 1 \in cover[n],
              B \notin cover[n], Ends(c, n, E)
       PROVE  Ends(B + 1, n, D) /\ less = Null
  <2>1. c \in Nat /\ c <= B /\ more # Null /\ n \in T /\ n \in Node /\ Char(n) \in Nat
    BY <1>1, <1>3, <1>11
  <2>2. Char(n) >= B + 1
    <3>1. ~(Char(n) <= B)
      BY <1>2, <1>3, <1>25, <2>1 DEF Convex
    <3> QED BY <1>2, <2>1, <3>1
  <2>3. D[<<n, "lo">>] = Null
    <3>1. Ends(c, n, D)
      BY <1>24, <1>25, <2>1
    <3>2. c # Char(n) /\ Way(c, n) = "lo"
      BY <1>2, <2>1, <2>2, WayKinds
    <3> QED BY <3>1, <3>2 DEF Ends
  <2>4. Ends(B + 1, n, D)
    <3>1. B + 1 = Char(n) \/ Way(B + 1, n) = "lo"
      BY <1>2, <2>1, <2>2, WayKinds
    <3> QED BY <2>3, <3>1 DEF Ends
  <2>5. ASSUME less # Null PROVE FALSE
    <3>1. e \in U /\ e \in T /\ e \in Node /\ D[<<e, "lo">>] = Null /\ B + 1 \in cover[e] /\ Char(e) > B
          /\ Char(e) \in Nat /\ Stem(e) = Stem(n)
      BY <1>1, <1>3, <1>10, <1>25, <2>1, <2>5
    <3>2. B + 1 = Char(e) \/ Way(B + 1, e) = "lo"
      BY <1>2, <3>1, WayKinds
    <3>3. Ends(B + 1, e, D)
      BY <3>1, <3>2 DEF Ends
    <3>4. n = e
      BY <1>23, <1>25, <2>1, <2>4, <3>1, <3>3
    <3>5. c < Char(e)
      BY <1>2, <2>1, <3>1
    <3> QED BY <1>24, <1>25, <2>1, <2>5, <3>4, <3>5
  <2> QED BY <2>4, <2>5
<1>26. ASSUME heir # Null, NEW n \in U, Stem(n) = Stem(b), NEW c \in high, B - 1 \in cover[n],
              B \notin cover[n], Ends(c, n, E)
       PROVE  Ends(B - 1, n, D)
  <2>1. /\ c \in Nat /\ c >= B /\ n \in T /\ n \in Node /\ Char(n) \in Nat
        /\ B - 1 \in Nat
    BY <1>1, <1>3, <1>11, <1>26
  <2>2. Char(n) <= B - 1
    <3>1. ~(Char(n) >= B)
      BY <1>2, <1>3, <1>26, <2>1 DEF Convex
    <3> QED BY <1>2, <2>1, <3>1
  <2>3. D[<<n, "hi">>] = Null
    <3>1. Ends(c, n, D)
      BY <1>24, <1>26, <2>1
    <3>2. c # Char(n) /\ Way(c, n) = "hi"
      BY <1>2, <2>1, <2>2, WayKinds
    <3> QED BY <3>1, <3>2 DEF Ends
  <2>4. B - 1 = Char(n) \/ Way(B - 1, n) = "hi"
    BY <1>2, <2>1, <2>2, WayKinds
  <2> QED BY <2>3, <2>4 DEF Ends
<1>27. ASSUME heir # Null, NEW n \in U, Stem(n) = Stem(b), NEW c \in cover[n], Ends(c, n, E),
              c \in high \/ (c \in low /\ less = Null)
       PROVE  FALSE
  <2>1. c \in Nat /\ c \in K /\ n \in T /\ n # b /\ Ends(c, n, D)
    BY <1>1, <1>3, <1>11, <1>24, <1>27
  <2>2. ~Ends(c, b, D)
    BY <1>1, <1>23, <1>27, <2>1
  <2>3. c # B /\ (c < B => less # Null) /\ (c > B => more # Null)
    BY <1>1, <1>2, <2>1, <2>2, WayKinds DEF Ends
  <2>4. c > B /\ both
    BY <1>2, <1>11, <1>27, <2>1, <2>3
  <2>5. /\ e \in U /\ e \in T /\ e \in Node /\ D[<<e, "lo">>] = Null /\ B + 1 \in cover[e]
        /\ Char(e) \in cover[e] /\ Char(e) \in Nat /\ Stem(e) = Stem(n) /\ c < Char(e)
        /\ c >= B + 1
    BY <1>1, <1>2, <1>3, <1>10, <1>11, <1>27, <2>1, <2>4
  <2>6. c \in cover[e]
    BY <1>3, <2>1, <2>5 DEF Convex
  <2>7. Way(c, e) = "lo"
    BY <2>1, <2>5, WayKinds
  <2>8. n = e
    BY <1>23, <1>27, <2>1, <2>5, <2>6, <2>7 DEF Ends
  <2> QED BY <1>24, <1>27, <2>1, <2>4, <2>5, <2>8
<1>28. ASSUME NEW m \in U, NEW n \in U, Stem(m) = Stem(n), NEW c \in cov[m], c \in cov[n],
              Ends(c, m, E), Ends(c, n, E)
       PROVE  m = n
  <2>1. m \in T /\ n \in T /\ m \in Node /\ n \in Node /\ c \in Nat
    BY <1>1, <1>20 DEF Covers
  <2>2. CASE Stem(m) # Stem(b)
    <3>1. c \in cover[m] /\ c \in cover[n]
      BY <1>12, <1>28, <2>1, <2>2
    <3>2. (y # <<m, Way(c, m)>> /\ y # <<n, Way(c, n)>>) \/ heir # Null
      BY <1>1, <1>14, <1>28, <2>1, <2>2
    <3> QED BY <1>23, <1>24, <1>28, <2>1, <3>1, <3>2
  <2>3. CASE Stem(m) = Stem(b) /\ heir # Null
    <3>1. ASSUME NEW k \in {m, n}
          PROVE  \/ c \in cover[k]
                 \/ c \in low /\ B + 1 \in cover[k] /\ B \notin cover[k]
                 \/ c \in high /\ B - 1 \in cover[k] /\ B \notin cover[k]
      <4>1. cov[k] = Widened(cover[k], B, low, high) /\ c \in cov[k]
        BY <1>12, <1>28, <2>1, <2>3
      <4> QED BY <4>1, WidenedHas
    <3>2. CASE c \in cover[m] /\ c \in cover[n]
      BY <1>23, <1>24, <1>28, <2>1, <2>3, <3>2
    <3>3. CASE c \in cover[m] /\ c \notin cover[n]
      BY <1>25, <1>27, <1>28, <2>3, <3>1, <3>3
    <3>4. CASE c \notin cover[m] /\ c \in cover[n]
      BY <1>25, <1>27, <1>28, <2>3, <3>1, <3>4
    <3>5. CASE c \notin cover[m] /\ c \notin cover[n]
      <4>1. less = Null \/ ~(c \in low /\ B + 1 \in cover[m] /\ B \notin cover[m])
        BY <1>25, <1>28, <2>3
      <4>2. less = Null \/ ~(c \in low /\ B + 1 \in cover[n] /\ B \notin cover[n])
        BY <1>25, <1>28, <2>3
      <4>3. CASE less = Null
        <5>1. c \in low /\ B + 1 \in cover[m] /\ B + 1 \in cover[n]
              /\ B \notin cover[m] /\ B \notin cover[n]
          BY <1>11, <3>1, <3>5, <4>3
        <5>2. Ends(B + 1, m, D) /\ Ends(B + 1, n, D)
          BY <1>25, <1>28, <2>3, <5>1
        <5> QED BY <1>23, <1>28, <2>1, <5>1, <5>2
      <4>4. CASE less # Null
        <5>1. c \in high /\ B - 1 \in cover[m] /\ B - 1 \in cover[n]
              /\ B \notin cover[m] /\ B \notin cover[n]
          BY <3>1, <3>5, <4>1, <4>2, <4>4
        <5>2. Ends(B - 1, m, D) /\ Ends(B - 1, n, D)
          BY <1>26, <1>28, <2>3, <5>1
        <5> QED BY <1>23, <1>28, <2>1, <5>1, <5>2
      <4> QED BY <4>3, <4>4
    <3> QED BY <3>2, <3>3, <3>4, <3>5
  <2>4. CASE Stem(m) = Stem(b) /\ heir = Null
    <3>1. less = Null /\ more = Null /\ low = {} /\ high = {}
      BY <1>11, <2>4
    <3>2. c \in cover[m] /\ c \in cover[n]
      BY <1>12, <1>28, <2>1, <2>4, <3>1, WidenedHas
    <3>3. ASSUME NEW k \in {m, n}, <<k, Way(c, k)>> = y PROVE c \in K /\ Ends(c, b, D)
      <4>1. y[1] = k /\ y[2] = Way(c, k) /\ k # Null /\ y[2] # "eq" /\ k \in Node
        BY <1>1, <2>1, <2>4, <3>3
      <4>2. c \in CoverAt(y, cover)
        BY <2>1, <3>2, <4>1, WayKinds DEF CoverAt, Links
      <4>3. c \in K
        BY <1>14, <4>2
      <4>4. Way(c, b) = "eq" \/ D[<<b, Way(c, b)>>] = Null
        BY <1>1, <2>1, <3>1, WayKinds DEF Links
      <4>5. Ends(c, b, D)
        BY <1>1, <2>1, <4>4, WayKinds DEF Ends
      <4> QED BY <4>3, <4>5
    <3>4. CASE <<m, Way(c, m)>> = y /\ <<n, Way(c, n)>> = y
      BY <3>4
    <3>5. CASE <<m, Way(c, m)>> = y /\ <<n, Way(c, n)>> # y
      <4>1. Ends(c, n, D)
        BY <1>24, <1>28, <2>1, <3>5
      <4>2. n = b
        BY <1>1, <1>23, <1>28, <2>1, <2>4, <3>2, <3>3, <3>5, <4>1
      <4> QED BY <1>1, <4>2
    <3>6. CASE <<m, Way(c, m)>> # y /\ <<n, Way(c, n)>> = y
      <4>1. Ends(c, m, D)
        BY <1>24, <1>28, <2>1, <3>6
      <4>2. m = b
        BY <1>1, <1>23, <1>28, <2>1, <2>4, <3>2, <3>3, <3>6, <4>1
      <4> QED BY <1>1, <4>2
    <3>7. CASE <<m, Way(c, m)>> # y /\ <<n, Way(c, n)>> # y
      BY <1>23, <1>24, <1>28, <2>1, <3>2, <3>7
    <3> QED BY <3>4, <3>5, <3>6, <3>7
  <2> QED BY <2>2, <2>3, <2>4
<1>29. OneEnd(U, E, cov)
  BY <1>28 DEF OneEnd
<1>30. Tree(U, E, cov)
  BY <1>1, <1>19, <1>20, <1>21, <1>22, <1>29 DEF Tree
<1> QED BY <1>30

(***************************************************************************)
(* Functions that call themselves at most once                             *)
(* The library has no theorem for them that the provers could use: here a  *)
(* rank that falls with each call shows that there is such a function, and *)
(* what it returns.                                                        *)
(***************************************************************************)
(* f calls itself for next[s] unless s is a stop, where it returns res[s]; *)
Onward(f, S, stop, next, res) == [s \in S |-> IF s \in stop THEN res[s] ELSE f[next[s]]]

(* each call lowers the rank.                                              *)
Nears(S, stop, next, N, rank) ==
  /\ stop \in SUBSET S /\ next \in [S -> S] /\ N \in Nat /\ rank \in [S -> 0..N]
  /\ \A s \in S \ stop : rank[next[s]] < rank[s]

(* There is such a function.                                               *)
LEMMA Recursion ==
  ASSUME NEW S, NEW stop, NEW next, NEW res, NEW N, NEW rank, Nears(S, stop, next, N, rank)
  PROVE  \E f : f = Onward(f, S, stop, next, res)
<1> USE DEF Nears
<1> DEFINE V == {res[s] : s \in S}
           Fits(f, i) == \A s \in S : rank[s] < i =>
                           f[s] = IF s \in stop THEN res[s] ELSE f[next[s]]
           D == {i \in 1..(N + 1) : \E f \in [S -> V] : Fits(f, i)}
<1>0. N \in Nat /\ \A s \in S : rank[s] \in Nat /\ rank[s] <= N /\ next[s] \in S
  OBVIOUS
<1>1. 1 \in D
  <2> DEFINE f == [s \in S |-> res[s]]
  <2>1. Fits(f, 1)
    <3> SUFFICES ASSUME NEW s \in S, rank[s] < 1 PROVE s \in stop
      OBVIOUS
    <3> QED BY <1>0
  <2>2. f \in [S -> V] /\ 1 \in 1..(N + 1)
    BY <1>0
  <2> HIDE DEF f, Fits
  <2> QED BY <2>1, <2>2
<1>2. ASSUME NEW i \in 1..(N + 1), i \in D, i < N + 1 PROVE i + 1 \in D
  <2>1. PICK f \in [S -> V] : Fits(f, i)
    BY <1>2
  <2> DEFINE g == [s \in S |-> IF s \in stop THEN res[s] ELSE f[next[s]]]
  <2>2. g \in [S -> V]
    OBVIOUS
  <2>3. ASSUME NEW s \in S, rank[s] < i + 1
        PROVE  g[s] = IF s \in stop THEN res[s] ELSE g[next[s]]
    <3>1. CASE s \in stop
      BY <3>1
    <3>2. CASE s \notin stop
      <4>1. PICK t \in S : t = next[s]
        BY <1>0
      <4>2. rank[t] < i
        BY <1>0, <2>3, <3>2, <4>1
      <4>3. f[t] = g[t]
        BY <2>1, <4>2
      <4>4. g[s] = f[t]
        BY <3>2, <4>1
      <4> HIDE DEF g
      <4> QED BY <3>2, <4>1, <4>3, <4>4
    <3> QED BY <3>1, <3>2
  <2>4. i + 1 \in 1..(N + 1)
    BY <1>2
  <2> HIDE DEF g
  <2> QED BY <2>2, <2>3, <2>4
<1>3. N + 1 \in D
  <2> HIDE DEF D
  <2>1. \A i \in 1..(N + 1) : i \in D
    <3>1. N + 1 \in Nat
      BY <1>0
    <3> QED BY <1>1, <1>2, <3>1, UpTo
  <2> QED BY <2>1
<1>4. PICK f \in [S -> V] : Fits(f, N + 1)
  <2> HIDE DEF Fits
  <2> QED BY <1>3
<1>5. \A s \in S : f[s] = IF s \in stop THEN res[s] ELSE f[next[s]]
  <2> SUFFICES ASSUME NEW s \in S PROVE rank[s] < N + 1
    BY <1>4
  <2> QED BY <1>0
<1> QED BY <1>5 DEF Onward

(* What holds from step to step holds where such a function stops.         *)
LEMMA Arrives ==
  ASSUME NEW S, NEW stop, NEW next, NEW res, NEW N, NEW rank, Nears(S, stop, next, N, rank),
         NEW f, f = Onward(f, S, stop, next, res),
         NEW Good \in SUBSET S, \A s \in Good \ stop : next[s] \in Good
  PROVE  \A s \in Good : \E t \in Good \cap stop : f[s] = res[t]
<1> USE DEF Nears
<1> DEFINE There(s) == \E t \in Good \cap stop : f[s] = res[t]
           D == {i \in 1..(N + 1) : \A s \in Good : rank[s] < i => There(s)}
<1>0. N \in Nat /\ \A s \in S : rank[s] \in Nat /\ rank[s] <= N
                   /\ f[s] = IF s \in stop THEN res[s] ELSE f[next[s]]
  BY DEF Onward
<1>1. ASSUME NEW s \in Good, s \in stop PROVE There(s)
  BY <1>0, <1>1
<1>2. 1 \in D
  <2> SUFFICES ASSUME NEW s \in Good, rank[s] < 1 PROVE s \in stop
    BY <1>1
  <2> QED BY <1>0
<1>3. ASSUME NEW i \in 1..(N + 1), i \in D, i < N + 1 PROVE i + 1 \in D
  <2> SUFFICES ASSUME NEW s \in Good, rank[s] < i + 1, s \notin stop PROVE There(s)
    BY <1>1, <1>3
  <2>1. PICK t \in Good : t = next[s]
    OBVIOUS
  <2>2. rank[t] < i
    BY <1>0, <2>1
  <2>3. There(t)
    BY <1>3, <2>2
  <2> QED BY <1>0, <2>1, <2>3
<1>4. N + 1 \in D
  <2> HIDE DEF D
  <2>1. \A i \in 1..(N + 1) : i \in D
    <3>1. N + 1 \in Nat
      BY <1>0
    <3> QED BY <1>2, <1>3, <3>1, UpTo
  <2> QED BY <2>1
<1> QED BY <1>0, <1>4

(* The rank falls along lo and hi.                                         *)
Descends(r, N, D) ==
  /\ N \in Nat /\ r \in [Pointer -> 0..N]
  /\ \A n \in Node : \A w \in {"lo", "hi"} : r[D[<<n, w>>]] < r[n]

(* There is such a rank in a tree, whose nodes have ever smaller covers,   *)
(* and in the nodes X that have been cut out of one, from which lo and hi  *)
(* lead back into it.                                                      *)
LEMMA LevelsEnd ==
  ASSUME NEW T, NEW D, NEW cover, Tree(T, D, cover), NEW X \in SUBSET Node,
         \A n \in X : \A w \in {"lo", "hi"} : D[<<n, w>>] \in T \cup {Null},
         \A n \in Node \ (T \cup X) : \A w \in Links : D[<<n, w>>] = Null
  PROVE  \E N \in Nat : \E r \in [Pointer -> 0..N] : Descends(r, N, D)
<1> DEFINE In(n) == {x \in T : Stem(x) = Stem(n) /\ Char(x) \in cover[n]}
           M == Cardinality(T)
           r == [n \in Pointer |-> IF n \in T THEN Cardinality(In(n)) + 1
                                   ELSE IF n \in X THEN M + 2
                                   ELSE IF n \in Node THEN 1 ELSE 0]
<1>1. T \in SUBSET Node /\ IsFiniteSet(T) /\ M \in Nat /\ Null \notin Node
  BY NodeIs, FS_CardinalityType DEF Tree
<1>2. \A n \in T : IsFiniteSet(In(n)) /\ Cardinality(In(n)) \in Nat /\ Cardinality(In(n)) <= M
  <2> SUFFICES ASSUME NEW n \in T
               PROVE  IsFiniteSet(In(n)) /\ Cardinality(In(n)) \in Nat /\ Cardinality(In(n)) <= M
    OBVIOUS
  <2>1. In(n) \in SUBSET T
    OBVIOUS
  <2> HIDE DEF In
  <2> QED BY <1>1, <2>1, FS_Subset, FS_CardinalityType
<1>3. ASSUME NEW n \in T, NEW w \in {"lo", "hi"}, NEW m \in T, m = D[<<n, w>>]
      PROVE  Cardinality(In(m)) < Cardinality(In(n))
  <2>1. <<n, w>> \in LinksFrom(T) /\ m # Null /\ n # Null /\ n \in Node
        /\ <<n, w>>[1] = n /\ <<n, w>>[2] = w /\ w # "eq"
    BY <1>1 DEF LinksFrom, Links
  <2>2. Stem(m) = Stem(n) /\ cover[m] = CoverAt(<<n, w>>, cover)
    BY <1>3, <2>1 DEF Tree, Targets, StemAt
  <2>3. cover[m] = {c \in cover[n] : c < Char(n)} \/ cover[m] = {c \in cover[n] : c > Char(n)}
    BY <2>1, <2>2 DEF CoverAt
  <2>4. Char(n) \in Nat /\ Char(n) \in cover[n]
    BY <2>1, NodeIs DEF Tree, Covers
  <2>5. In(m) \in SUBSET In(n) /\ n \in In(n) /\ n \notin In(m)
    BY <2>2, <2>3, <2>4
  <2>6. PICK A, B : A = In(m) /\ B = In(n)
    OBVIOUS
  <2>7. Cardinality(A) <= Cardinality(B) /\ Cardinality(A) # Cardinality(B)
    BY <1>2, <2>5, <2>6, FS_Subset
  <2>8. Cardinality(A) \in Nat /\ Cardinality(B) \in Nat
    BY <1>2, <2>6
  <2> QED BY <2>6, <2>7, <2>8
<1> HIDE DEF In
<1>4. \A n \in Pointer : r[n] \in Nat /\ r[n] <= M + 2
  BY <1>1, <1>2
<1>5. r \in [Pointer -> 0..(M + 2)]
  <2>1. \A n \in Pointer : r[n] \in 0..(M + 2)
    BY <1>1, <1>4
  <2>2. r = [n \in Pointer |-> r[n]]
    OBVIOUS
  <2> HIDE DEF r
  <2> QED BY <2>1, <2>2
<1>6. ASSUME NEW n \in Node, NEW w \in {"lo", "hi"} PROVE r[D[<<n, w>>]] < r[n]
  <2>1. PICK m : m = D[<<n, w>>]
    OBVIOUS
  <2>2. /\ n \in Pointer /\ Null \in Pointer /\ r[Null] = 0 /\ r[n] \in Nat
        /\ r[n] > 0
    BY <1>1, <1>2, <1>4 DEF Pointer
  <2>3. <<n, w>> \in LinkAt /\ w \in Links
    BY DEF LinkAt, Links
  <2>4. CASE m = Null
    BY <2>1, <2>2, <2>4
  <2>5. CASE m # Null /\ n \in T
    <3>1. <<n, w>> \in LinksFrom(T)
      BY <2>3, <2>5 DEF LinksFrom
    <3>2. m \in T /\ m \in Pointer
      BY <1>1, <2>1, <2>5, <3>1 DEF Tree, Targets, Pointer
    <3>3. r[m] = Cardinality(In(m)) + 1 /\ r[n] = Cardinality(In(n)) + 1
      BY <2>2, <2>5, <3>2
    <3>4. Cardinality(In(m)) < Cardinality(In(n))
      BY <1>3, <2>1, <2>5, <3>2
    <3> HIDE DEF r
    <3> QED BY <1>2, <2>1, <2>5, <3>2, <3>3, <3>4
  <2>6. CASE m # Null /\ n \notin T
    <3>1. n \in X /\ m \in T /\ m \in Pointer
      BY <1>1, <2>1, <2>3, <2>6 DEF Pointer
    <3>2. r[m] = Cardinality(In(m)) + 1 /\ r[n] = M + 2
      BY <2>2, <2>6, <3>1
    <3> HIDE DEF r
    <3> QED BY <1>1, <1>2, <2>1, <3>1, <3>2
  <2> QED BY <2>4, <2>5, <2>6
<1>7. M + 2 \in Nat
  BY <1>1
<1> HIDE DEF r
<1> QED BY <1>5, <1>6, <1>7 DEF Descends

(***************************************************************************)
(* The walks of find, insert and erase                                     *)
(***************************************************************************)
(* The walk for the word k is at n, about to look at its j-th character.   *)
Reaches(n, k, j, T, cover) ==
  IF n = Null THEN Upto(k, j) \notin T
  ELSE n \in T /\ Stem(n) = Upto(k, j - 1) /\ k[j] \in cover[n]

(* At the root a walk is at the first character.                           *)
LEMMA RootIsReached ==
  ASSUME NEW T, NEW D, NEW cover, Tree(T, D, cover), NEW k \in Key
  PROVE  Reaches(D[RootLink], k, 1, T, cover) /\ D[RootLink] \in Pointer
<1>1. PICK u : u = Upto(k, 1)
  OBVIOUS
<1>2. 1 \in 1..Len(k) /\ k[1] \in Nat
  BY KeyIs
<1>3. Stem(u) = <<>> /\ Upto(k, 1 - 1) = <<>>
  <2>1. Stem(u) = Upto(k, 1 - 1)
    BY <1>1, <1>2, PrefixIs
  <2>2. 1 - 1 = 0
    OBVIOUS
  <2>3. Upto(k, 0) = <<>>
    BY WholeWord
  <2> QED BY <2>1, <2>2, <2>3
<1>4. RootLink \in LinksFrom(T) /\ RootLink \in LinkAt /\ RootLink[1] = Null
  BY DEF LinksFrom, LinkAt, RootLink
<1>5. CASE D[RootLink] = Null
  <2>1. u \notin T
    BY <1>3, <1>5 DEF Tree, Topped, TopOf
  <2> QED BY <1>1, <1>5, <2>1 DEF Reaches, Pointer
<1>6. CASE D[RootLink] # Null
  <2>1. D[RootLink] \in T /\ Stem(D[RootLink]) = <<>> /\ cover[D[RootLink]] = Nat
    BY <1>4, <1>6 DEF Tree, Targets, StemAt, CoverAt
  <2>2. D[RootLink] \in Pointer
    BY <2>1 DEF Tree, Pointer
  <2> QED BY <1>2, <1>3, <1>6, <2>1, <2>2 DEF Reaches
<1> QED BY <1>5, <1>6

(* From node to node a walk is where it should be.                         *)
LEMMA StepIsReached ==
  ASSUME NEW T, NEW D, NEW cover, Tree(T, D, cover), NEW k \in Key, NEW j \in 1..Len(k),
         NEW n \in T, Reaches(n, k, j, T, cover), NEW way, way = Way(k[j], n),
         way = "eq" => k[j] # 0
  PROVE  LET i == IF way = "eq" THEN j + 1 ELSE j
         IN  i \in 1..Len(k) /\ Reaches(D[<<n, way>>], k, i, T, cover)
<1>1. /\ T \in SUBSET Node /\ n \in Node /\ n # Null /\ n # <<>> /\ Char(n) \in Nat
      /\ k[j] \in Nat /\ Len(k) \in Nat /\ (k[j] = 0 <=> j = Len(k))
  BY NodeIs, KeyIs DEF Tree
<1>2. Stem(n) = Upto(k, j - 1) /\ k[j] \in cover[n]
  BY <1>1 DEF Reaches
<1>3. /\ way \in Links /\ (way = "eq" <=> k[j] = Char(n))
      /\ (way = "lo" <=> k[j] < Char(n)) /\ (way = "hi" <=> k[j] > Char(n))
      /\ <<n, way>> \in LinksFrom(T)
  BY <1>1, WayKinds DEF LinksFrom
<1>4. PICK m, u : m = D[<<n, way>>] /\ u = Upto(k, j)
  OBVIOUS
<1>5. Stem(u) = Upto(k, j - 1) /\ Char(u) = k[j] /\ u \in Node
  BY <1>4, PrefixIs
<1>6. m # Null => m \in T /\ Stem(m) = StemAt(<<n, way>>) /\ cover[m] = CoverAt(<<n, way>>, cover)
  BY <1>3, <1>4 DEF Tree, Targets
<1>7. CASE way = "eq"
  <2>1. n = u
    BY <1>1, <1>2, <1>3, <1>5, <1>7, StemAndChar
  <2>2. j + 1 \in 1..Len(k) /\ (j + 1) - 1 = j /\ k[j + 1] \in Nat
    <3>1. j # Len(k)
      BY <1>1, <1>7
    <3>2. j + 1 \in 1..Len(k)
      BY <1>1, <3>1
    <3> QED BY <3>2, KeyIs
  <2>3. CASE m # Null
    <3>1. Stem(m) = n /\ cover[m] = Nat
      BY <1>1, <1>6, <1>7, <2>3 DEF StemAt, CoverAt
    <3> QED BY <1>4, <1>6, <1>7, <2>1, <2>2, <2>3, <3>1 DEF Reaches
  <2>4. CASE m = Null
    <3>1. PICK x : x = Upto(k, j + 1)
      OBVIOUS
    <3>2. Stem(x) = u
      BY <1>4, <2>2, <3>1, PrefixIs
    <3>3. x \notin T
      BY <1>1, <1>4, <1>7, <2>1, <2>4, <3>2 DEF Tree, Topped, TopOf
    <3> QED BY <1>4, <1>7, <2>2, <2>4, <3>1, <3>3 DEF Reaches
  <2> QED BY <2>3, <2>4
<1>8. CASE way # "eq"
  <2>1. CASE m # Null
    <3>1. Stem(m) = Stem(n) /\ k[j] \in cover[m]
      BY <1>1, <1>2, <1>3, <1>6, <1>8, <2>1 DEF StemAt, CoverAt, Links
    <3> QED BY <1>2, <1>4, <1>6, <1>8, <2>1, <3>1 DEF Reaches
  <2>2. CASE m = Null
    <3>1. Ends(k[j], n, D) /\ Ends(k[j], u, D)
      BY <1>3, <1>4, <1>5, <2>2 DEF Ends
    <3>2. ASSUME u \in T PROVE FALSE
      <4>1. k[j] \in cover[u]
        BY <1>5, <3>2 DEF Tree, Covers
      <4>2. u = n
        BY <1>2, <1>5, <3>1, <3>2, <4>1 DEF Tree, OneEnd
      <4> QED BY <1>3, <1>5, <1>8, <4>2
    <3> QED BY <1>4, <1>8, <2>2, <3>2 DEF Reaches
  <2> QED BY <2>1, <2>2
<1> QED BY <1>7, <1>8

(* With a node, all the prefixes of it are in the tree.                    *)
LEMMA PrefixesThere ==
  ASSUME NEW T, NEW D, NEW cover, Tree(T, D, cover), NEW k \in Key, NEW j \in 1..Len(k),
         Upto(k, j) \in T
  PROVE  \A i \in 1..j : Upto(k, i) \in T
<1> DEFINE F == {i \in 1..j : Upto(k, j - i + 1) \in T}
<1>0. Len(k) \in Nat /\ j \in Nat /\ j >= 1 /\ j <= Len(k)
  BY KeyIs
<1>1. 1 \in F
  <2>1. j - 1 + 1 = j
    BY <1>0
  <2> QED BY <1>0, <2>1
<1>2. ASSUME NEW i \in 1..j, i \in F, i < j PROVE i + 1 \in F
  <2>1. PICK x \in 2..Len(k) : x = j - i + 1
    BY <1>0, <1>2
  <2>2. Upto(k, x) \in T /\ x \in 1..Len(k) /\ x - 1 \in 1..Len(k) /\ x - 1 = j - (i + 1) + 1
        /\ i + 1 \in 1..j
    BY <1>0, <1>2, <2>1
  <2>3. PICK u, v : u = Upto(k, x) /\ v = Upto(k, x - 1)
    OBVIOUS
  <2>4. Stem(u) = v
    BY <2>2, <2>3, PrefixIs
  <2>5. v \in Node
    BY <2>2, <2>3, PrefixIs
  <2>6. v # <<>> /\ v # Null /\ T \in SUBSET Node /\ <<v, "eq">>[1] = v
    BY <2>5, NodeIs DEF Tree
  <2>7. <<v, "eq">> \in LinksFrom(T)
    BY <2>2, <2>3, <2>4, <2>6 DEF Tree, Topped, TopOf
  <2>8. v \in T
    BY <2>6, <2>7, LinkKinds DEF RootLink
  <2> QED BY <2>2, <2>3, <2>8
<1>3. \A i \in 1..j : i \in F
  <2> HIDE DEF F
  <2> QED BY <1>0, <1>1, <1>2, UpTo
<1> SUFFICES ASSUME NEW i \in 1..j PROVE Upto(k, i) \in T
  OBVIOUS
<1>4. j - i + 1 \in 1..j /\ j - (j - i + 1) + 1 = i
  BY <1>0
<1>5. j - i + 1 \in F
  BY <1>3, <1>4
<1> QED BY <1>4, <1>5

(* One step of the walk of find, and where the walk ends.                  *)
WalkPlaces(k) == Pointer \X (1..Len(k))

(* It stops at Null, or at the node of the terminating 0.                  *)
WalkStops(s, k) == s[1] = Null \/ (Way(k[s[2]], s[1]) = "eq" /\ k[s[2]] = 0)

(* Where it goes from s.                                                   *)
WalkNext(s, k, D) ==
  <<D[<<s[1], Way(k[s[2]], s[1])>>], IF Way(k[s[2]], s[1]) = "eq" THEN s[2] + 1 ELSE s[2]>>

(* The function that find computes.                                        *)
WalkFrom(walk, k, D) ==
  [s \in WalkPlaces(k) |-> IF WalkStops(s, k) THEN s[1] ELSE walk[WalkNext(s, k, D)]]

(* Pairs in lexical order as numbers: fewer characters left come first.    *)
LEMMA LessAfterMore ==
  ASSUME NEW a \in Nat, NEW b \in Nat, NEW N \in Nat, NEW x \in 0..N, NEW z \in 0..N, a > b
  PROVE  b * (N + 1) + x < a * (N + 1) + z /\ b * (N + 1) + x \in Nat
<1>1. PICK d \in Nat : a = b + 1 + d
  <2>1. a - b - 1 \in Nat /\ a = b + 1 + (a - b - 1)
    OBVIOUS
  <2> QED BY <2>1
<1>2. a * (N + 1) = b * (N + 1) + (N + 1) + d * (N + 1)
  BY <1>1
<1>3. d * (N + 1) \in Nat /\ b * (N + 1) \in Nat
  OBVIOUS
<1>4. PICK P, Q : P = b * (N + 1) /\ Q = d * (N + 1)
  OBVIOUS
<1>5. P \in Nat /\ Q \in Nat /\ a * (N + 1) = P + (N + 1) + Q
  BY <1>2, <1>3, <1>4
<1>6. P + x < P + (N + 1) + Q + z /\ P + x \in Nat
  BY <1>5
<1> QED BY <1>4, <1>5, <1>6

(* The walk for a word ends, at its node or at Null.                       *)
LEMMA WalkEnds ==
  ASSUME NEW T, NEW D, NEW cover, Tree(T, D, cover), NEW N, NEW r, Descends(r, N, D),
         NEW k \in Key
  PROVE  /\ \E walk : walk = WalkFrom(walk, k, D)
         /\ \A walk : walk = WalkFrom(walk, k, D) =>
              walk[<<D[RootLink], 1>>] = IF k \in T THEN k ELSE Null
<1> DEFINE L == Len(k)
           S == WalkPlaces(k)
           stop == {s \in S : WalkStops(s, k)}
           next == [s \in S |-> IF s \in stop THEN s ELSE WalkNext(s, k, D)]
           res == [s \in S |-> s[1]]
           rank == [s \in S |-> (L - s[2]) * (N + 1) + r[s[1]]]
           Good == {s \in S : Reaches(s[1], k, s[2], T, cover)}
<1>1. /\ k \in Seq(Nat) /\ L \in Nat \ {0} /\ N \in Nat /\ r \in [Pointer -> 0..N]
      /\ \A j \in 1..L : k[j] \in Nat /\ (k[j] = 0 <=> j = L)
      /\ D \in [LinkAt -> Pointer] /\ Null \notin Node
  BY KeyIs, NodeIs DEF Descends, Tree
<1>2. ASSUME NEW s \in S, s \notin stop
      PROVE  LET way == Way(k[s[2]], s[1])
                 i == IF way = "eq" THEN s[2] + 1 ELSE s[2]
             IN  /\ s[1] \in Node /\ s[2] \in 1..L /\ way \in Links /\ <<s[1], way>> \in LinkAt
                 /\ i \in 1..L /\ D[<<s[1], way>>] \in Pointer
                 /\ next[s] = <<D[<<s[1], way>>], i>> /\ next[s] \in S
                 /\ (way = "eq" => k[s[2]] # 0)
  <2>1. PICK n, j : n = s[1] /\ j = s[2]
    OBVIOUS
  <2>2. n \in Node /\ j \in 1..L /\ ~(Way(k[j], n) = "eq" /\ k[j] = 0)
    BY <1>2, <2>1 DEF WalkPlaces, WalkStops, Pointer
  <2>3. Way(k[j], n) \in Links /\ <<n, Way(k[j], n)>> \in LinkAt
    BY <1>1, <2>2, WayKinds DEF LinkAt
  <2>4. D[<<n, Way(k[j], n)>>] \in Pointer
    BY <1>1, <2>3
  <2>5. Way(k[j], n) = "eq" => j + 1 \in 1..L
    <3>1. Way(k[j], n) = "eq" => j # L
      BY <1>1, <2>2
    <3> QED BY <1>1, <2>2, <3>1
  <2>6. next[s] = WalkNext(s, k, D)
    BY <1>2
  <2> QED BY <2>1, <2>2, <2>3, <2>4, <2>5, <2>6 DEF WalkNext, WalkPlaces
<1>3. next \in [S -> S]
  <2>1. \A s \in S : next[s] \in S
    <3> SUFFICES ASSUME NEW s \in S PROVE next[s] \in S
      OBVIOUS
    <3>1. CASE s \in stop
      BY <3>1
    <3>2. CASE s \notin stop
      BY <1>2, <3>2
    <3> QED BY <3>1, <3>2
  <2>2. next = [s \in S |-> next[s]]
    OBVIOUS
  <2> HIDE DEF next
  <2> QED BY <2>1, <2>2
<1>4. stop \in SUBSET S /\ res \in [S -> Pointer] /\ \A s \in S : res[s] = s[1]
  BY DEF WalkPlaces
<1>5. PICK M \in Nat : M = L * (N + 1) + N
  BY <1>1
<1>13. M \in Nat
  OBVIOUS
<1>6. rank \in [S -> 0..M]
  <2>1. ASSUME NEW s \in S PROVE rank[s] \in 0..M
    <3>1. PICK j, x : j = L - s[2] /\ x = r[s[1]]
      OBVIOUS
    <3>2. j \in Nat /\ x \in 0..N /\ j < L /\ rank[s] = j * (N + 1) + x
      BY <1>1, <3>1 DEF WalkPlaces
    <3> HIDE DEF rank, L
    <3>3. N \in 0..N /\ L \in Nat
      BY <1>1
    <3>4. j * (N + 1) + x < M /\ j * (N + 1) + x \in Nat
      BY <1>1, <1>5, <3>2, <3>3, LessAfterMore
    <3>5. rank[s] \in Nat /\ rank[s] < M
      BY <3>2, <3>4
    <3> QED BY <3>5
  <2>2. rank = [s \in S |-> rank[s]]
    OBVIOUS
  <2> HIDE DEF rank
  <2> QED BY <2>1, <2>2
<1>7. ASSUME NEW s \in S \ stop PROVE rank[next[s]] < rank[s]
  <2>1. PICK way, n, j, i, m : /\ n = s[1] /\ j = s[2] /\ way = Way(k[j], n)
                               /\ i = IF way = "eq" THEN j + 1 ELSE j
                               /\ m = D[<<n, way>>]
    OBVIOUS
  <2>2. /\ n \in Node /\ j \in 1..L /\ way \in Links /\ i \in 1..L /\ m \in Pointer
        /\ next[s] = <<m, i>> /\ next[s] \in S
    BY <1>2, <2>1
  <2>3. rank[s] = (L - j) * (N + 1) + r[n] /\ rank[next[s]] = (L - i) * (N + 1) + r[m]
    <3> HIDE DEF next
    <3> QED BY <2>1, <2>2
  <2>4. r[n] \in 0..N /\ r[m] \in 0..N
    BY <1>1, <2>2 DEF Pointer
  <2> HIDE DEF rank, next, L
  <2>5. CASE way = "eq"
    <3>1. L - i \in Nat /\ L - j \in Nat /\ L - j > L - i
      BY <1>1, <2>1, <2>2, <2>5
    <3>2. (L - i) * (N + 1) + r[m] < (L - j) * (N + 1) + r[n]
      BY <1>1, <2>4, <3>1, LessAfterMore
    <3> QED BY <2>3, <3>2
  <2>6. CASE way # "eq"
    <3>1. r[m] < r[n] /\ i = j
      BY <2>1, <2>2, <2>6 DEF Descends, Links
    <3>2. PICK P : P = (L - j) * (N + 1)
      OBVIOUS
    <3>3. P \in Int
      BY <1>1, <2>2, <3>2
    <3> QED BY <2>3, <2>4, <3>1, <3>2, <3>3
  <2> QED BY <2>5, <2>6
<1>14. Nears(S, stop, next, M, rank)
  <2> HIDE DEF S, stop, next, rank
  <2> QED BY <1>3, <1>4, <1>13, <1>6, <1>7 DEF Nears
<1>8. \A walk : walk = WalkFrom(walk, k, D) <=> walk = Onward(walk, S, stop, next, res)
  <2> SUFFICES ASSUME NEW walk
               PROVE  WalkFrom(walk, k, D) = Onward(walk, S, stop, next, res)
    OBVIOUS
  <2>1. \A s \in S : (IF WalkStops(s, k) THEN s[1] ELSE walk[WalkNext(s, k, D)])
                     = IF s \in stop THEN res[s] ELSE walk[next[s]]
    OBVIOUS
  <2> QED BY <2>1 DEF WalkFrom, Onward
<1>9. \E walk : walk = WalkFrom(walk, k, D)
  <2>1. \E walk : walk = Onward(walk, S, stop, next, res)
    <3> HIDE DEF S, stop, next, res, rank
    <3> QED BY <1>14, Recursion
  <2> QED BY <1>8, <2>1
<1>10. Good \in SUBSET S /\ \A s \in Good \ stop : next[s] \in Good
  <2> SUFFICES ASSUME NEW s \in Good, s \notin stop PROVE next[s] \in Good
    OBVIOUS
  <2>1. PICK way, n, j, i, m : /\ n = s[1] /\ j = s[2] /\ way = Way(k[j], n)
                               /\ i = IF way = "eq" THEN j + 1 ELSE j
                               /\ m = D[<<n, way>>]
    OBVIOUS
  <2>2. /\ n \in Node /\ j \in 1..L /\ next[s] = <<m, i>> /\ next[s] \in S
        /\ (way = "eq" => k[j] # 0) /\ n # Null /\ Reaches(n, k, j, T, cover)
    BY <1>1, <1>2, <2>1
  <2>3. n \in T
    BY <2>2 DEF Reaches
  <2>4. Reaches(m, k, i, T, cover)
    BY <2>1, <2>2, <2>3, StepIsReached
  <2> HIDE DEF next
  <2> QED BY <2>2, <2>4
<1>11. <<D[RootLink], 1>> \in Good
  BY <1>1, RootIsReached DEF WalkPlaces
<1>12. ASSUME NEW walk, walk = WalkFrom(walk, k, D)
       PROVE  walk[<<D[RootLink], 1>>] = IF k \in T THEN k ELSE Null
  <2>1. PICK t \in Good \cap stop : walk[<<D[RootLink], 1>>] = res[t]
    <3>1. walk = Onward(walk, S, stop, next, res)
      BY <1>8, <1>12
    <3> HIDE DEF S, stop, next, res, rank, L, Good
    <3>2. \A s \in Good : \E t \in Good \cap stop : walk[s] = res[t]
      BY <1>10, <1>14, <3>1, Arrives
    <3> QED BY <1>11, <3>2
  <2>2. PICK n, j : n = t[1] /\ j = t[2]
    OBVIOUS
  <2>3. /\ walk[<<D[RootLink], 1>>] = n /\ n \in Pointer /\ j \in 1..L
        /\ Reaches(n, k, j, T, cover)
        /\ (n = Null \/ (Way(k[j], n) = "eq" /\ k[j] = 0))
    BY <1>4, <2>1, <2>2 DEF WalkStops, WalkPlaces
  <2>4. CASE n = Null
    <3>1. Upto(k, j) \notin T
      BY <2>3, <2>4 DEF Reaches
    <3>2. k \notin T
      <4>1. L \in 1..L /\ Upto(k, L) = k
        BY <1>1, WholeWord
      <4> QED BY <2>3, <3>1, <4>1, PrefixesThere
    <3> QED BY <2>3, <2>4, <3>2
  <2>5. CASE n # Null
    <3>1. n \in T /\ Stem(n) = Upto(k, j - 1) /\ n \in Node /\ j = L
      BY <1>1, <2>3, <2>5 DEF Reaches, Tree
    <3>2. Char(n) = k[j]
      BY <1>1, <2>3, <2>5, <3>1, WayKinds
    <3>3. n = Upto(k, j)
      BY <2>3, <3>1, <3>2, PrefixIs, StemAndChar
    <3>4. n = k
      BY <3>1, <3>3, WholeWord
    <3> QED BY <2>3, <3>1, <3>4
  <2> QED BY <2>4, <2>5
<1> QED BY <1>9, <1>12

(***************************************************************************)
(* The left end below a node                                               *)
(***************************************************************************)
(* The node at which the loop along the lo links ends that starts at m.    *)
LeftFrom(f, D) ==
  [m \in Node |-> IF D[<<m, "lo">>] = Null THEN m ELSE f[D[<<m, "lo">>]]]

(* From a node on whose walk the least character is z it ends at a node of *)
(* this level, where the walk for z ends.                                  *)
LEMMA LeftEnds ==
  ASSUME NEW T, NEW D, NEW cover, Tree(T, D, cover), NEW N, NEW r, Descends(r, N, D),
         NEW more \in T, NEW z \in cover[more], \A c \in cover[more] : c >= z
  PROVE  /\ \E f : f = LeftFrom(f, D)
         /\ \A f : f = LeftFrom(f, D) =>
              /\ f[more] \in T /\ Stem(f[more]) = Stem(more) /\ D[<<f[more], "lo">>] = Null
              /\ cover[f[more]] \subseteq cover[more] /\ z \in cover[f[more]]
<1> DEFINE stop == {m \in Node : D[<<m, "lo">>] = Null}
           next == [m \in Node |-> IF m \in stop THEN m ELSE D[<<m, "lo">>]]
           res == [m \in Node |-> m]
           rank == [m \in Node |-> r[m]]
           Good == {m \in T : /\ Stem(m) = Stem(more) /\ cover[m] \subseteq cover[more]
                              /\ z \in cover[m]}
<1>1. /\ T \in SUBSET Node /\ N \in Nat /\ r \in [Pointer -> 0..N] /\ D \in [LinkAt -> Pointer]
      /\ Null \notin Node /\ z \in Nat
  BY NodeIs DEF Descends, Tree, Covers
<1>2. \A m \in Node : D[<<m, "lo">>] \in Pointer
  BY <1>1 DEF LinkAt, Links
<1>3. next \in [Node -> Node]
  <2>1. \A m \in Node : next[m] \in Node
    BY <1>2 DEF Pointer
  <2> QED BY <2>1
<1>4. rank \in [Node -> 0..N]
  BY <1>1 DEF Pointer
<1>5. ASSUME NEW m \in Node, m \notin stop PROVE rank[next[m]] < rank[m]
  <2>1. next[m] = D[<<m, "lo">>] /\ next[m] \in Node
    BY <1>3, <1>5
  <2>2. rank[next[m]] = r[next[m]] /\ rank[m] = r[m]
    BY <2>1
  <2>3. r[D[<<m, "lo">>]] < r[m]
    BY DEF Descends
  <2> HIDE DEF next, rank
  <2> QED BY <2>1, <2>2, <2>3
<1>6. Nears(Node, stop, next, N, rank)
  <2>1. stop \in SUBSET Node
    OBVIOUS
  <2> HIDE DEF stop, next, rank
  <2> QED BY <1>1, <1>3, <1>4, <1>5, <2>1 DEF Nears
<1>7. ASSUME NEW f PROVE LeftFrom(f, D) = Onward(f, Node, stop, next, res)
  <2>1. ASSUME NEW m \in Node
        PROVE  (IF D[<<m, "lo">>] = Null THEN m ELSE f[D[<<m, "lo">>]])
               = IF m \in stop THEN res[m] ELSE f[next[m]]
    OBVIOUS
  <2> QED BY <2>1 DEF LeftFrom, Onward
<1>8. \E f : f = LeftFrom(f, D)
  <2>1. \E f : f = Onward(f, Node, stop, next, res)
    <3> HIDE DEF stop, next, res, rank
    <3> QED BY <1>6, Recursion
  <2> QED BY <1>7, <2>1
<1>9. ASSUME NEW m \in Good, m \notin stop PROVE next[m] \in Good
  <2>1. PICK h : h = D[<<m, "lo">>]
    OBVIOUS
  <2>2. /\ m \in T /\ m \in Node /\ m # Null /\ h # Null /\ next[m] = h
        /\ <<m, "lo">> \in LinksFrom(T) /\ Char(m) \in Nat
    BY <1>1, <1>9, <2>1, NodeIs DEF LinksFrom, Links
  <2>3. h \in T /\ Stem(h) = Stem(m) /\ cover[h] = {c \in cover[m] : c < Char(m)}
    BY <2>1, <2>2 DEF Tree, Targets, StemAt, CoverAt
  <2>4. Char(h) \in cover[h] /\ Char(h) \in Nat
    BY <1>1, <2>3, NodeIs DEF Tree, Covers
  <2>5. z <= Char(h) /\ Char(h) < Char(m)
    BY <1>9, <2>3, <2>4
  <2>6. z \in cover[h]
    BY <1>1, <1>9, <2>2, <2>3, <2>4, <2>5
  <2> HIDE DEF next
  <2> QED BY <1>9, <2>2, <2>3, <2>6
<1>10. ASSUME NEW f, f = LeftFrom(f, D)
       PROVE  /\ f[more] \in T /\ Stem(f[more]) = Stem(more) /\ D[<<f[more], "lo">>] = Null
              /\ cover[f[more]] \subseteq cover[more] /\ z \in cover[f[more]]
  <2>1. Good \in SUBSET Node /\ more \in Good
    BY <1>1
  <2>2. PICK t \in Good \cap stop : f[more] = res[t]
    <3>1. f = Onward(f, Node, stop, next, res)
      BY <1>7, <1>10
    <3>2. \A m \in Good \ stop : next[m] \in Good
      BY <1>9
    <3> HIDE DEF stop, next, res, rank, Good
    <3>3. \A m \in Good : \E t \in Good \cap stop : f[m] = res[t]
      BY <1>6, <2>1, <3>1, <3>2, Arrives
    <3> QED BY <2>1, <3>3
  <2>3. f[more] = t
    BY <1>1, <2>2
  <2> QED BY <2>2, <2>3
<1> QED BY <1>8, <1>10

(***************************************************************************)
(* insert                                                                  *)
(***************************************************************************)
(* insert looks at link s for the j-th character of k: it came by the walk *)
(* for k.                                                                  *)
InsertIsAt(s, k, j, T, cover) ==
  IF s[1] = Null THEN s = RootLink /\ j = 1
  ELSE \E i \in 1..Len(k) :
         /\ Reaches(s[1], k, i, T, cover)
         /\ s = <<s[1], Way(k[i], s[1])>>
         /\ j = IF s[2] = "eq" THEN i + 1 ELSE i

(* The link is in the tree, and the walk for k takes it.                   *)
LEMMA InsertLooks ==
  ASSUME NEW T, NEW D, NEW cover, Tree(T, D, cover), NEW k \in Key, NEW j \in 1..Len(k),
         NEW s, InsertIsAt(s, k, j, T, cover)
  PROVE  /\ s \in LinksFrom(T) /\ Reaches(D[s], k, j, T, cover)
         /\ Stem(Upto(k, j)) = StemAt(s) /\ k[j] \in CoverAt(s, cover)
<1>1. T \in SUBSET Node /\ k[j] \in Nat /\ Stem(Upto(k, j)) = Upto(k, j - 1) /\ Null \notin Node
  BY KeyIs, PrefixIs, NodeIs DEF Tree
<1>2. CASE s[1] = Null
  <2>1. s = RootLink /\ j = 1 /\ s \in LinksFrom(T)
    BY <1>2 DEF InsertIsAt, LinksFrom
  <2>2. Upto(k, j - 1) = <<>>
    <3>1. j - 1 = 0
      BY <2>1
    <3> QED BY <3>1, WholeWord
  <2> QED BY <1>1, <1>2, <2>1, <2>2, RootIsReached DEF StemAt, CoverAt
<1>3. CASE s[1] # Null
  <2>1. PICK q, w : q = s[1] /\ w = s[2]
    OBVIOUS
  <2>2. PICK i \in 1..Len(k) : /\ Reaches(q, k, i, T, cover) /\ s = <<q, w>> /\ w = Way(k[i], q)
                               /\ j = IF w = "eq" THEN i + 1 ELSE i
    BY <1>3, <2>1 DEF InsertIsAt
  <2>3. /\ q \in T /\ q \in Node /\ q # Null /\ Stem(q) = Upto(k, i - 1) /\ k[i] \in cover[q]
        /\ Len(k) \in Nat /\ k[i] \in Nat /\ (k[i] = 0 <=> i = Len(k)) /\ Char(q) \in Nat
    BY <1>1, <1>3, <2>1, <2>2, KeyIs, NodeIs DEF Reaches
  <2>4. w = "eq" => k[i] # 0
    BY <2>2, <2>3
  <2>5. s \in LinksFrom(T) /\ Reaches(D[s], k, j, T, cover)
    <3>1. w \in Links
      BY <2>2, <2>3, WayKinds
    <3>2. s \in LinksFrom(T)
      BY <2>2, <2>3, <3>1 DEF LinksFrom
    <3> QED BY <2>2, <2>3, <2>4, <3>2, StepIsReached
  <2>6. CASE w = "eq"
    <3>1. Char(q) = k[i] /\ j - 1 = i
      <4>1. i \in Nat /\ j = i + 1
        BY <2>2, <2>6
      <4>2. Char(q) = k[i]
        BY <2>2, <2>3, <2>6, WayKinds
      <4> QED BY <4>1, <4>2
    <3>2. q = Upto(k, i)
      BY <2>3, <3>1, PrefixIs, StemAndChar
    <3> QED BY <1>1, <2>1, <2>3, <2>5, <2>6, <3>1, <3>2 DEF StemAt, CoverAt
  <2>7. CASE w # "eq"
    <3>1. j = i /\ ((w = "lo" /\ k[i] < Char(q)) \/ (w = "hi" /\ k[i] > Char(q)))
      BY <2>2, <2>3, <2>7, WayKinds DEF Links
    <3> QED BY <1>1, <2>1, <2>3, <2>5, <2>7, <3>1 DEF StemAt, CoverAt
  <2> QED BY <2>6, <2>7
<1> QED BY <1>2, <1>3

(* A step of the walk.                                                     *)
LEMMA InsertGoesOn ==
  ASSUME NEW T, NEW D, NEW cover, Tree(T, D, cover), NEW k \in Key, NEW j \in 1..Len(k),
         NEW s, InsertIsAt(s, k, j, T, cover), NEW n, n = D[s], n # Null,
         NEW w, w = Way(k[j], n), ~(k[j] = 0 /\ w = "eq")
  PROVE  /\ n \in T /\ w \in Links /\ (IF w = "eq" THEN j + 1 ELSE j) \in 1..Len(k)
         /\ InsertIsAt(<<n, w>>, k, IF w = "eq" THEN j + 1 ELSE j, T, cover)
<1>1. Reaches(n, k, j, T, cover)
  BY InsertLooks
<1>2. n \in T /\ n \in Node
  BY <1>1 DEF Reaches, Tree
<1>3. w \in Links /\ (IF w = "eq" THEN j + 1 ELSE j) \in 1..Len(k)
  <2>1. w = "eq" => j # Len(k)
    BY KeyIs
  <2>2. Len(k) \in Nat /\ k[j] \in Nat
    BY KeyIs
  <2> QED BY <1>2, <2>1, <2>2, WayKinds
<1>4. <<n, w>>[1] = n /\ <<n, w>>[2] = w
  OBVIOUS
<1> QED BY <1>1, <1>2, <1>3, <1>4 DEF InsertIsAt

(* The links with one more, which leads to x.                              *)
Hung(D, s, x) == [D EXCEPT ![s] = x]

(* x is the next prefix of the word; if it is no node, it has no links.    *)
NextPrefix(T, D, k, j, x) ==
  x = Upto(k, j) /\ (x \notin T => \A w \in Links : D[<<x, w>>] = Null)

(* What insert makes of a tree that it hangs x in.                         *)
Grown(T, D, k, j, s, x) ==
  /\ x \in Node /\ x \notin T /\ s \in LinksFrom(T)
  /\ k[j] = 0 => x = k
  /\ \E cov : /\ Tree(T \cup {x}, Hung(D, s, x), cov)
              /\ k[j] # 0 => /\ j + 1 \in 1..Len(k)
                             /\ InsertIsAt(<<x, "eq">>, k, j + 1, T \cup {x}, cov)

(* A node hung where the walk found nothing makes a tree of one node more. *)
LEMMA InsertGrows ==
  ASSUME NEW T, NEW D, NEW cover, Tree(T, D, cover), NEW k \in Key, NEW j \in 1..Len(k),
         NEW s, InsertIsAt(s, k, j, T, cover), D[s] = Null,
         NEW x, NextPrefix(T, D, k, j, x)
  PROVE  Grown(T, D, k, j, s, x)
<1>0. x = Upto(k, j) /\ (x \notin T => \A w \in Links : D[<<x, w>>] = Null)
  BY DEF NextPrefix
<1>1. /\ s \in LinksFrom(T) /\ Stem(x) = StemAt(s) /\ k[j] \in CoverAt(s, cover)
      /\ x \in Node /\ Char(x) = k[j] /\ x \notin T /\ k[j] \in Nat /\ Len(k) \in Nat
      /\ (k[j] = 0 <=> j = Len(k))
  BY <1>0, InsertLooks, PrefixIs, KeyIs DEF Reaches
<1> DEFINE cov == [cover EXCEPT ![x] = CoverAt(s, cover)]
           U == T \cup {x}
<1>2. Tree(U, Hung(D, s, x), cov)
  BY <1>0, <1>1, LeafIsHung DEF Hung
<1>3. ASSUME k[j] # 0 PROVE j + 1 \in 1..Len(k) /\ InsertIsAt(<<x, "eq">>, k, j + 1, U, cov)
  <2>1. j + 1 \in 1..Len(k)
    BY <1>1, <1>3
  <2>2. cov[x] = CoverAt(s, cover)
    BY <1>1 DEF Tree, Covers
  <2>3. Reaches(x, k, j, U, cov) /\ x # Null
    BY <1>0, <1>1, <2>2, PrefixIs, NodeIs DEF Reaches
  <2>4. Way(k[j], x) = "eq"
    BY <1>1, WayKinds
  <2>5. <<x, "eq">>[1] = x /\ <<x, "eq">>[2] = "eq"
    OBVIOUS
  <2> HIDE DEF cov, U
  <2> QED BY <2>1, <2>3, <2>4, <2>5 DEF InsertIsAt
<1>4. k[j] = 0 => x = k
  BY <1>0, <1>1, WholeWord
<1> HIDE DEF cov
<1> QED BY <1>1, <1>2, <1>3, <1>4 DEF Grown

(***************************************************************************)
(* erase: the walk                                                         *)
(***************************************************************************)
(* lo or hi leads on from n.                                               *)
Branched(n, D) == D[<<n, "lo">>] # Null \/ D[<<n, "hi">>] # Null

(* What shares the first i characters with the word k shares all before    *)
(* the j-th: the chain that hangs below the first i leads to k alone.      *)
OnlyKey(k, i, j, T) ==
  \A n \in T : i <= Len(n) /\ (\A x \in 1..i : n[x] = k[x])
                 => \A x \in 1..Len(n) : x < j => n[x] = k[x]

(* The link w of m is the one to n.                                        *)
Held(n, m, w, T, D) == <<m, w>> \in LinksFrom(T) /\ D[<<m, w>>] = n

(* erase has come by the walk for k to node q, whose parent is qq. Node b, *)
(* whose parent is bb, is the last on the way that had a branch, or that a *)
(* lo or hi led to: since then the tree was a single chain.                *)
(* ternary.hh:107-135.                                                     *)
EraseIsAt(q, qq, b, bb, k, j, T, D, cover) ==
  /\ Reaches(q, k, j, T, cover)
  /\ q # Null =>
      /\ \E w \in Links \cup {"root"} : Held(q, qq, w, T, D)
      /\ b # q => cover[q] = Nat
      /\ b # Null =>
           /\ b \in T /\ Len(b) <= j
           /\ b # q => Len(b) < j /\ b = Upto(k, Len(b))
           /\ \E w \in Links \cup {"root"} :
                Held(b, bb, w, T, D) /\ (w \in {"lo", "hi"} \/ Branched(b, D))
      /\ OnlyKey(k, IF b = Null THEN 0 ELSE Len(b), j, T)

(* A node whose walk is its level's and that has no branches is alone      *)
(* there.                                                                  *)
LEMMA AloneThere ==
  ASSUME NEW T, NEW D, NEW cover, Tree(T, D, cover), NEW q \in T, cover[q] = Nat,
         ~Branched(q, D), NEW u \in T, Stem(u) = Stem(q)
  PROVE  u = q
<1>1. u \in Node /\ q \in Node /\ Char(u) \in Nat /\ Char(u) \in cover[u]
  BY NodeIs DEF Tree, Covers
<1>2. Ends(Char(u), u, D)
  BY DEF Ends
<1>3. Ends(Char(u), q, D)
  <2>1. Char(u) = Char(q) \/ Way(Char(u), q) \in {"lo", "hi"}
    BY <1>1, WayKinds DEF Links
  <2> QED BY <2>1 DEF Ends, Branched
<1> QED BY <1>1, <1>2, <1>3 DEF Tree, OneEnd

(* A node of the tree that agrees with a word before the j-th character is *)
(* below a node of the tree for what they share.                           *)
LEMMA SharedPrefix ==
  ASSUME NEW T, NEW D, NEW cover, Tree(T, D, cover), NEW k \in Key, NEW j \in 1..Len(k),
         NEW n \in T, j <= Len(n), \A x \in 1..(j - 1) : n[x] = k[x]
  PROVE  \E u \in T : Stem(u) = Upto(k, j - 1) /\ Char(u) = n[j]
<1>1. n \in Node /\ n \in Seq(Nat) /\ Len(n) \in Nat \ {0}
  BY NodeIs DEF Tree
<1>2. PICK h \in Key : Len(n) <= Len(h) /\ n = Upto(h, Len(n))
  BY <1>1, NodeIs
<1>3. PICK i : i = Len(n)
  OBVIOUS
<1>4. /\ i \in 1..Len(h) /\ j \in 1..i /\ j \in 1..Len(h) /\ Len(h) \in Nat /\ n = Upto(h, i)
      /\ h \in Seq(Nat) /\ k \in Seq(Nat) /\ Len(k) \in Nat
  BY <1>1, <1>2, <1>3, KeyIs
<1>5. \A x \in 1..i : n[x] = h[x]
  BY <1>4, PrefixIs
<1>6. PICK u : u = Upto(h, j)
  OBVIOUS
<1>7. u \in T /\ Stem(u) = Upto(h, j - 1) /\ Char(u) = h[j]
  BY <1>4, <1>6, PrefixesThere, PrefixIs
<1>8. Upto(h, j - 1) = Upto(k, j - 1)
  <2>1. PICK a, b : a = Upto(h, j - 1) /\ b = Upto(k, j - 1)
    OBVIOUS
  <2>2. j - 1 \in 0..Len(h) /\ j - 1 \in 0..Len(k)
    BY <1>4
  <2>3. a \in Seq(Nat) /\ Len(a) = j - 1 /\ \A x \in 1..(j - 1) : a[x] = h[x]
    BY <1>4, <2>1, <2>2, Beginning
  <2>4. b \in Seq(Nat) /\ Len(b) = j - 1 /\ \A x \in 1..(j - 1) : b[x] = k[x]
    BY <1>4, <2>1, <2>2, Beginning
  <2>5. \A x \in 1..(j - 1) : x \in 1..i
    BY <1>4
  <2>6. \A x \in 1..(j - 1) : a[x] = b[x]
    BY <1>5, <2>3, <2>4, <2>5
  <2>7. a = b
    BY <2>3, <2>4, <2>6, SameElements
  <2> QED BY <2>1, <2>7
<1> QED BY <1>4, <1>5, <1>7, <1>8

(* At the root.                                                            *)
LEMMA EraseBegins ==
  ASSUME NEW T, NEW D, NEW cover, Tree(T, D, cover), NEW k \in Key
  PROVE  EraseIsAt(D[RootLink], Null, Null, Null, k, 1, T, D, cover)
<1>1. Reaches(D[RootLink], k, 1, T, cover)
  BY RootIsReached
<1>2. PICK q : q = D[RootLink]
  OBVIOUS
<1>3. ASSUME q # Null
      PROVE  cover[q] = Nat /\ Held(q, Null, "root", T, D) /\ OnlyKey(k, 0, 1, T)
  <2>1. RootLink \in LinksFrom(T) /\ RootLink[1] = Null /\ RootLink = <<Null, "root">>
    BY DEF LinksFrom, RootLink
  <2>2. cover[q] = Nat
    BY <1>2, <1>3, <2>1 DEF Tree, Targets, CoverAt
  <2>3. OnlyKey(k, 0, 1, T)
    BY DEF OnlyKey
  <2> QED BY <1>2, <2>1, <2>2, <2>3 DEF Held
<1> QED BY <1>1, <1>2, <1>3 DEF EraseIsAt

(* A step of the walk, with what it does to lb and lbp.                    *)
LEMMA EraseGoesOn ==
  ASSUME NEW T, NEW D, NEW cover, Tree(T, D, cover), NEW k \in Key, NEW j \in 1..Len(k),
         NEW q, NEW qq, NEW b, NEW bb, EraseIsAt(q, qq, b, bb, k, j, T, D, cover), q # Null,
         NEW way, way = Way(k[j], q), ~(k[j] = 0 /\ way = "eq"), NEW m, m = D[<<q, way>>]
  PROVE  /\ way = "eq" => /\ j + 1 \in 1..Len(k)
                          /\ EraseIsAt(m, q, IF Branched(q, D) THEN q ELSE b,
                                     IF Branched(q, D) THEN qq ELSE bb, k, j + 1, T, D, cover)
         /\ way # "eq" => EraseIsAt(m, q, m, q, k, j, T, D, cover)
<1>1. /\ q \in T /\ q \in Node /\ Stem(q) = Upto(k, j - 1) /\ k[j] \in cover[q] /\ T \in SUBSET Node
      /\ k[j] \in Nat /\ Len(k) \in Nat /\ Char(q) \in Nat /\ Null \notin Node
      /\ Len(q) = j
  <2>1. q \in T /\ q \in Node /\ Stem(q) = Upto(k, j - 1) /\ k[j] \in cover[q]
    BY DEF EraseIsAt, Reaches, Tree
  <2>2. Len(q) = j
    <3>1. PICK i, s : i = Len(q) /\ s = Stem(q)
      OBVIOUS
    <3>2. Len(s) = i - 1 /\ i \in Nat
      BY <2>1, <3>1, StemIs, NodeIs
    <3>3. j - 1 \in 0..Len(k) /\ k \in Seq(Nat)
      BY KeyIs
    <3>4. Len(s) = j - 1
      BY <2>1, <3>1, <3>3, Beginning
    <3> QED BY <3>1, <3>2, <3>4
  <2> QED BY <2>1, <2>2, KeyIs, NodeIs DEF Tree
<1>2. /\ way \in Links /\ (way = "eq" <=> k[j] = Char(q)) /\ (way = "eq" => k[j] # 0)
      /\ <<q, way>> \in LinksFrom(T) /\ <<q, way>>[1] = q /\ <<q, way>>[2] = way
  BY <1>1, WayKinds DEF LinksFrom
<1>3. LET i == IF way = "eq" THEN j + 1 ELSE j IN i \in 1..Len(k) /\ Reaches(m, k, i, T, cover)
  BY <1>1, <1>2, StepIsReached DEF EraseIsAt
<1>4. m # Null => m \in T /\ cover[m] = CoverAt(<<q, way>>, cover) /\ Stem(m) = StemAt(<<q, way>>)
  BY <1>2 DEF Tree, Targets
<1>5. Held(m, q, way, T, D) /\ way \in Links \cup {"root"}
  BY <1>2 DEF Held
<1>6. ASSUME way = "eq"
      PROVE  /\ j + 1 \in 1..Len(k)
             /\ EraseIsAt(m, q, IF Branched(q, D) THEN q ELSE b,
                        IF Branched(q, D) THEN qq ELSE bb, k, j + 1, T, D, cover)
  <2>1. q = Upto(k, j)
    BY <1>1, <1>2, <1>6, PrefixIs, StemAndChar
  <2>2. m # Null => cover[m] = Nat
    BY <1>1, <1>2, <1>4, <1>6 DEF CoverAt
  <2>3. j + 1 \in 1..Len(k) /\ Reaches(m, k, j + 1, T, cover)
    BY <1>3, <1>6
  <2>4. ASSUME NEW n \in T, j <= Len(n), \A x \in 1..j : n[x] = k[x]
        PROVE  \A x \in 1..Len(n) : x < j + 1 => n[x] = k[x]
    <3>1. \A x \in 1..Len(n) : x < j + 1 => x \in 1..j
      OBVIOUS
    <3> QED BY <2>4, <3>1
  <2>5. CASE Branched(q, D)
    <3>1. OnlyKey(k, Len(q), j + 1, T)
      BY <1>1, <2>4 DEF OnlyKey
    <3>2. Len(q) <= j + 1 /\ Len(q) < j + 1
      BY <1>1
    <3>3. \E w \in Links \cup {"root"} : Held(q, qq, w, T, D)
      BY DEF EraseIsAt
    <3> QED BY <1>1, <1>5, <2>1, <2>2, <2>3, <2>5, <3>1, <3>2, <3>3 DEF EraseIsAt
  <2>6. CASE ~Branched(q, D)
    <3>1. b # Null => /\ b \in T /\ Len(b) \in Nat /\ Len(b) <= j + 1 /\ Len(b) < j + 1
                      /\ b = Upto(k, Len(b))
                      /\ \E w \in Links \cup {"root"} :
                           Held(b, bb, w, T, D) /\ (w \in {"lo", "hi"} \/ Branched(b, D))
      <4> SUFFICES ASSUME b # Null
                   PROVE  /\ b \in T /\ Len(b) \in Nat /\ Len(b) <= j + 1 /\ Len(b) < j + 1
                          /\ b = Upto(k, Len(b))
                          /\ \E w \in Links \cup {"root"} :
                               Held(b, bb, w, T, D) /\ (w \in {"lo", "hi"} \/ Branched(b, D))
        OBVIOUS
      <4>1. /\ b \in T /\ Len(b) <= j
            /\ \E w \in Links \cup {"root"} :
                 Held(b, bb, w, T, D) /\ (w \in {"lo", "hi"} \/ Branched(b, D))
        BY DEF EraseIsAt
      <4>2. Len(b) \in Nat
        BY <1>1, <4>1, NodeIs
      <4>3. b = Upto(k, Len(b))
        <5>1. CASE b = q
          BY <1>1, <2>1, <5>1
        <5>2. CASE b # q
          BY <5>2 DEF EraseIsAt
        <5> QED BY <5>1, <5>2
      <4>4. Len(b) <= j + 1 /\ Len(b) < j + 1
        <5>1. PICK i : i = Len(b)
          OBVIOUS
        <5>2. i \in Nat /\ i <= j
          BY <4>1, <4>2, <5>1
        <5> QED BY <5>1, <5>2
      <4> QED BY <4>1, <4>2, <4>3, <4>4
    <3>2. OnlyKey(k, IF b = Null THEN 0 ELSE Len(b), j + 1, T)
      <4>1. CASE b = q
        BY <1>1, <2>4, <4>1 DEF OnlyKey
      <4>2. CASE b # q
        <5>1. PICK i \in Nat : i = IF b = Null THEN 0 ELSE Len(b)
          BY <3>1
        <5>2. cover[q] = Nat /\ OnlyKey(k, i, j, T)
          BY <4>2, <5>1 DEF EraseIsAt
        <5>3. ASSUME NEW n \in T, i <= Len(n), \A x \in 1..i : n[x] = k[x],
                     NEW x \in 1..Len(n), x < j + 1
              PROVE  n[x] = k[x]
          <6>1. \A z \in 1..Len(n) : z < j => n[z] = k[z]
            BY <5>2, <5>3 DEF OnlyKey
          <6>2. CASE x < j
            BY <6>1, <6>2
          <6>3. CASE x = j
            <7>1. n \in Node /\ Len(n) \in Nat /\ j <= Len(n)
              BY <1>1, <5>3, <6>3, NodeIs
            <7>2. \A z \in 1..(j - 1) : n[z] = k[z]
              BY <6>1, <7>1
            <7>3. PICK u \in T : Stem(u) = Upto(k, j - 1) /\ Char(u) = n[j]
              BY <7>1, <7>2, SharedPrefix
            <7>4. u = q
              BY <1>1, <2>6, <5>2, <7>3, AloneThere
            <7> QED BY <1>2, <1>6, <6>3, <7>3, <7>4
          <6> QED BY <5>3, <6>2, <6>3
        <5>4. OnlyKey(k, i, j + 1, T)
          BY <5>3 DEF OnlyKey
        <5> QED BY <5>1, <5>4
      <4> QED BY <4>1, <4>2
    <3> QED BY <1>5, <2>2, <2>3, <2>6, <3>1, <3>2 DEF EraseIsAt
  <2> QED BY <2>3, <2>5, <2>6
<1>7. ASSUME way # "eq" PROVE EraseIsAt(m, q, m, q, k, j, T, D, cover)
  <2>1. Reaches(m, k, j, T, cover) /\ way \in {"lo", "hi"}
    BY <1>2, <1>3, <1>7 DEF Links
  <2>2. ASSUME m # Null PROVE Len(m) = j
    <3>1. Stem(m) = Stem(q) /\ m \in Node
      BY <1>1, <1>2, <1>4, <1>7, <2>2 DEF StemAt
    <3>2. PICK i, s : i = Len(m) /\ s = Stem(m)
      OBVIOUS
    <3>3. Len(s) = i - 1 /\ Len(s) = j - 1 /\ i \in Nat
      BY <1>1, <3>1, <3>2, StemIs, NodeIs
    <3> QED BY <3>2, <3>3
  <2>3. ASSUME m # Null PROVE OnlyKey(k, Len(m), j, T)
    <3>1. \A n \in T : \A x \in 1..Len(n) : x < j => x \in 1..j
      OBVIOUS
    <3>2. Len(m) = j
      BY <2>2, <2>3
    <3> QED BY <3>1, <3>2 DEF OnlyKey
  <2> QED BY <1>4, <1>5, <2>1, <2>2, <2>3 DEF EraseIsAt
<1> QED BY <1>6, <1>7

(***************************************************************************)
(* erase: the chain that is cut out                                        *)
(***************************************************************************)
(* The nodes of a word from its i-th character on.                         *)
Chain(k, i) == {Upto(k, j) : j \in i..Len(k)}

(* A node is longer by one than what comes before its last character.      *)
LEMMA StemLength ==
  ASSUME NEW n \in Node, NEW k \in Key, NEW j \in 0..Len(k), Stem(n) = Upto(k, j)
  PROVE  Len(n) = j + 1 /\ \A x \in 1..j : n[x] = k[x]
<1>1. PICK i, s : i = Len(n) /\ s = Stem(n)
  OBVIOUS
<1>2. k \in Seq(Nat) /\ i \in Nat \ {0} /\ j \in Nat
  BY <1>1, KeyIs, NodeIs
<1>3. Len(s) = i - 1 /\ \A x \in 1..(i - 1) : s[x] = n[x]
  BY <1>1, StemIs
<1>4. Len(s) = j /\ \A x \in 1..j : s[x] = k[x]
  BY <1>1, <1>2, Beginning
<1> QED BY <1>1, <1>2, <1>3, <1>4

(* What is below the chain that erase is going to cut out: the chain       *)
(* itself.                                                                 *)
LEMMA ChainIs ==
  ASSUME NEW T, NEW D, NEW cover, Tree(T, D, cover), NEW k \in Key, k \in T,
         NEW i \in 1..Len(k), NEW z \in 0..i, OnlyKey(k, z, Len(k), T),
         i < Len(k) => cover[k] = Nat /\ ~Branched(k, D)
  PROVE  /\ \A j \in i..Len(k) :
              /\ Upto(k, j) \in T
              /\ D[<<Upto(k, j), "eq">>] = IF j = Len(k) THEN Null ELSE Upto(k, j + 1)
              /\ j > i => ~Branched(Upto(k, j), D)
         /\ \A n \in T, j \in i..Len(k) : Stem(n) = Upto(k, j) => j < Len(k) /\ n = Upto(k, j + 1)
<1>1. PICK L : L = Len(k)
  OBVIOUS
<1>2. /\ L \in Nat \ {0} /\ i \in 1..L /\ T \in SUBSET Node /\ Null \notin Node
      /\ \A j \in i..L : j \in 1..L /\ j \in 0..L /\ j \in Nat
  BY <1>1, KeyIs, NodeIs DEF Tree
<1>3. /\ Upto(k, L) = k /\ k \in Node /\ Char(k) = 0
      /\ \A j \in 1..L : Upto(k, j) \in T /\ Upto(k, j) \in Node
  <2>1. Upto(k, L) = k /\ L \in 1..Len(k)
    BY <1>1, <1>2, WholeWord
  <2>2. k[L] = 0
    BY <1>1, <2>1, KeyIs
  <2>3. \A j \in 1..L : Upto(k, j) \in T
    BY <1>1, <2>1, PrefixesThere
  <2> QED BY <1>1, <1>2, <2>1, <2>2, <2>3, PrefixIs
<1>4. ASSUME NEW n \in T, NEW j \in i..L, Stem(n) = Upto(k, j)
      PROVE  j < L /\ n = Upto(k, j + 1)
  <2>1. Len(n) = j + 1 /\ (\A x \in 1..j : n[x] = k[x]) /\ n \in Node
    <3>1. n \in Node /\ j \in 0..Len(k)
      BY <1>1, <1>2
    <3> QED BY <1>4, <3>1, StemLength
  <2>2. j # L
    <3> SUFFICES ASSUME j = L PROVE FALSE
      OBVIOUS
    <3>1. Stem(n) = k /\ k # <<>>
      BY <1>3, <1>4, NodeIs
    <3> QED BY <1>3, <2>1, <3>1, BelowIs
  <2>3. j < L /\ j + 1 \in 1..L
    BY <1>2, <2>2
  <2>4. CASE j + 1 < L
    <3>1. \A x \in 1..(j + 1) : n[x] = k[x]
      <4>1. z <= Len(n) /\ \A x \in 1..z : x \in 1..j
        BY <1>2, <2>1
      <4>2. \A x \in 1..Len(n) : x < L => n[x] = k[x]
        BY <1>1, <2>1, <4>1 DEF OnlyKey
      <4> QED BY <1>2, <2>1, <2>4, <4>2
    <3> QED BY <1>1, <2>1, <2>3, <3>1, AgreesIs
  <2>5. CASE j + 1 = L
    <3>1. i < Len(k) /\ (j + 1) - 1 = j
      BY <1>1, <1>2, <2>5
    <3>2. Stem(k) = Upto(k, j)
      <4>1. j + 1 \in 1..Len(k) /\ Upto(k, j + 1) = k
        BY <1>1, <1>3, <2>3, <2>5
      <4>2. Stem(Upto(k, j + 1)) = Upto(k, (j + 1) - 1)
        BY <4>1, PrefixIs
      <4> QED BY <3>1, <4>1, <4>2
    <3>3. n = k
      BY <1>4, <3>1, <3>2, AloneThere
    <3> QED BY <1>3, <2>3, <2>5, <3>3
  <2> QED BY <1>2, <2>3, <2>4, <2>5
<1>5. ASSUME NEW j \in i..L
      PROVE  D[<<Upto(k, j), "eq">>] = IF j = L THEN Null ELSE Upto(k, j + 1)
  <2>1. PICK n, m : n = Upto(k, j) /\ m = D[<<n, "eq">>]
    OBVIOUS
  <2>2. n \in T /\ n \in Node /\ n # Null /\ n # <<>> /\ <<n, "eq">> \in LinksFrom(T)
    BY <1>2, <1>3, <2>1, NodeIs DEF LinksFrom, Links
  <2>3. m # Null => m \in T /\ Stem(m) = n
    BY <2>1, <2>2 DEF Tree, Targets, StemAt
  <2>4. m # Null => j < L /\ m = Upto(k, j + 1)
    BY <1>4, <2>1, <2>3
  <2>5. ASSUME j < L PROVE m # Null
    <3>1. PICK u : u = Upto(k, j + 1)
      OBVIOUS
    <3>2. j + 1 \in 1..L /\ (j + 1) - 1 = j
      BY <1>2, <2>5
    <3>3. u \in T /\ Stem(u) = n
      BY <1>1, <1>3, <2>1, <3>1, <3>2, PrefixIs
    <3> QED BY <2>1, <2>2, <3>3 DEF Tree, Topped, TopOf
  <2>6. j < L \/ j = L
    BY <1>2
  <2> QED BY <2>1, <2>4, <2>5, <2>6
<1>6. ASSUME NEW j \in i..L, j > i PROVE ~Branched(Upto(k, j), D)
  <2> SUFFICES ASSUME NEW w \in {"lo", "hi"}, D[<<Upto(k, j), w>>] # Null PROVE FALSE
    BY DEF Branched
  <2>1. PICK n, m : n = Upto(k, j) /\ m = D[<<n, w>>]
    OBVIOUS
  <2>2. n \in T /\ n \in Node /\ n # Null /\ <<n, w>> \in LinksFrom(T) /\ Char(n) \in Nat
    BY <1>2, <1>3, <2>1, NodeIs DEF LinksFrom, Links
  <2>3. m \in T /\ Stem(m) = Stem(n) /\ cover[m] = CoverAt(<<n, w>>, cover)
    BY <2>1, <2>2 DEF Tree, Targets, StemAt
  <2>4. Char(m) \in cover[m]
    BY <2>3 DEF Tree, Covers
  <2>5. Char(m) # Char(n)
    BY <2>2, <2>3, <2>4 DEF CoverAt
  <2>6. j - 1 \in i..L /\ (j - 1) + 1 = j /\ Stem(n) = Upto(k, j - 1)
    BY <1>1, <1>2, <1>6, <2>1, PrefixIs
  <2>7. m = n
    BY <1>4, <2>1, <2>3, <2>6
  <2> QED BY <2>5, <2>7
<1> QED BY <1>1, <1>2, <1>3, <1>4, <1>5, <1>6

(* Without a branch on the way the word is the only one of the tree.       *)
LEMMA WordIsAlone ==
  ASSUME NEW T, NEW D, NEW cover, Tree(T, D, cover), NEW k \in Key, k \in T,
         OnlyKey(k, 0, Len(k), T), cover[k] = Nat, ~Branched(k, D)
  PROVE  T = Chain(k, 1) /\ D[RootLink] = Upto(k, 1)
<1>1. PICK L : L = Len(k)
  OBVIOUS
<1>2. /\ L \in Nat \ {0} /\ T \in SUBSET Node /\ Null \notin Node /\ L \in 1..L /\ 1 \in 1..L
      /\ 0 \in 0..L
  BY <1>1, KeyIs, NodeIs DEF Tree
<1>3. /\ Upto(k, L) = k /\ k \in Node /\ k[L] = 0
      /\ \A j \in 1..L : Upto(k, j) \in T
  BY <1>1, <1>2, WholeWord, KeyIs, PrefixesThere
<1>4. ASSUME NEW n \in T PROVE \E j \in 1..L : n = Upto(k, j)
  <2>1. PICK j : j = Len(n)
    OBVIOUS
  <2>2. j \in Nat \ {0} /\ n \in Node
    BY <1>2, <2>1, NodeIs
  <2>3. \A x \in 1..j : x < L => n[x] = k[x]
    <3>1. 0 <= Len(n) /\ \A x \in 1..0 : n[x] = k[x]
      BY <2>1, <2>2
    <3> QED BY <1>1, <2>1, <3>1 DEF OnlyKey
  <2>4. CASE j < L
    <3>1. j \in 1..L /\ j <= L /\ \A x \in 1..j : n[x] = k[x]
      BY <1>2, <2>2, <2>3, <2>4
    <3>2. n = Upto(k, j)
      BY <1>1, <2>1, <2>2, <3>1, AgreesIs
    <3> QED BY <3>1, <3>2
  <2>5. CASE j >= L
    <3>1. L <= Len(n) /\ \A x \in 1..(L - 1) : n[x] = k[x]
      BY <1>2, <2>1, <2>2, <2>3, <2>5
    <3>2. PICK u \in T : Stem(u) = Upto(k, L - 1) /\ Char(u) = n[L]
      BY <1>1, <1>2, <3>1, SharedPrefix
    <3>3. Stem(k) = Upto(k, L - 1) /\ Char(k) = k[L]
      BY <1>1, <1>2, <1>3, PrefixIs
    <3>4. u = k
      BY <3>2, <3>3, AloneThere
    <3>5. n[L] = 0
      BY <1>3, <3>2, <3>3, <3>4
    <3>6. j = L
      <4>1. \A x \in 1..(j - 1) : n[x] # 0
        BY <2>1, <2>2, ZeroEnds
      <4> QED BY <1>2, <2>2, <2>5, <3>5, <4>1
    <3>7. \A x \in 1..L : n[x] = k[x]
      BY <1>2, <1>3, <2>3, <3>5, <3>6
    <3>8. n = Upto(k, L)
      <4>1. Len(n) = L /\ Len(n) <= Len(k) /\ \A x \in 1..Len(n) : n[x] = k[x]
        BY <1>1, <1>2, <2>1, <3>6, <3>7
      <4> QED BY <2>2, <4>1, AgreesIs
    <3> QED BY <1>2, <3>8
  <2> QED BY <1>2, <2>2, <2>4, <2>5
<1>5. T = Chain(k, 1)
  BY <1>1, <1>3, <1>4 DEF Chain
<1>6. D[RootLink] = Upto(k, 1)
  <2>1. PICK r, u : r = D[RootLink] /\ u = Upto(k, 1)
    OBVIOUS
  <2>2. u \in T /\ Stem(u) = <<>>
    <3>1. Stem(u) = Upto(k, 1 - 1) /\ 1 - 1 = 0
      BY <1>1, <1>2, <2>1, PrefixIs
    <3> QED BY <1>2, <1>3, <2>1, <3>1, WholeWord
  <2>3. r # Null
    BY <2>1, <2>2 DEF Tree, Topped, TopOf
  <2>4. RootLink \in LinksFrom(T) /\ RootLink[1] = Null
    BY DEF LinksFrom, RootLink
  <2>5. r \in T /\ Stem(r) = Upto(k, 0) /\ r \in Node
    BY <1>2, <2>1, <2>3, <2>4, WholeWord DEF Tree, Targets, StemAt
  <2>6. PICK j \in 1..L : r = Upto(k, j)
    BY <1>4, <2>5
  <2>7. Len(r) = 0 + 1 /\ Len(r) = j
    BY <1>1, <1>2, <2>5, <2>6, StemLength, PrefixIs
  <2> QED BY <2>1, <2>6, <2>7
<1> QED BY <1>5, <1>6

(* A walk that is at a terminating 0 for a terminating 0 has found its     *)
(* word.                                                                   *)
LEMMA WordIsFound ==
  ASSUME NEW T, NEW D, NEW cover, Tree(T, D, cover), NEW k \in Key, NEW j \in 1..Len(k),
         NEW q, q # Null, Reaches(q, k, j, T, cover), k[j] = 0, Char(q) = 0
  PROVE  j = Len(k) /\ q = k /\ k \in T /\ k \in Node
<1>1. q \in T /\ q \in Node /\ Stem(q) = Upto(k, j - 1)
  BY DEF Reaches, Tree
<1>2. q = Upto(k, j)
  BY <1>1, PrefixIs, StemAndChar
<1>3. j = Len(k)
  BY KeyIs
<1>4. q = k
  BY <1>2, <1>3, WholeWord
<1> QED BY <1>1, <1>3, <1>4

(* Where erase cuts: what BranchIsCut asks for.                            *)
CutReady(T, D, k, br, pa, i, C) ==
  /\ i \in 1..Len(k) /\ br = Upto(k, i) /\ C \in SUBSET T /\ br \in C
  /\ \A x \in i..Len(k) :
       /\ Upto(k, x) \in T
       /\ D[<<Upto(k, x), "eq">>] = IF x = Len(k) THEN Null ELSE Upto(k, x + 1)
       /\ x > i => ~Branched(Upto(k, x), D)
  /\ \A n \in T, x \in i..Len(k) : Stem(n) = Upto(k, x) => x < Len(k) /\ n = Upto(k, x + 1)
  /\ \E w \in Links \cup {"root"} :
       /\ <<pa, w>> \in LinksFrom(T \ C) /\ D[<<pa, w>>] = br
       /\ w \in {"lo", "hi"} \/ Branched(br, D)

(* It is given where erase has found the word.                             *)
LEMMA CutIsReady ==
  ASSUME NEW T, NEW D, NEW cover, Tree(T, D, cover), NEW k \in Key, NEW j \in 1..Len(k),
         NEW q, NEW qq, NEW b, NEW bb, EraseIsAt(q, qq, b, bb, k, j, T, D, cover),
         q # Null, k[j] = 0, Char(q) = 0,
         NEW br, br = IF Branched(q, D) THEN q ELSE b, br # Null,
         NEW pa, pa = IF Branched(q, D) THEN qq ELSE bb,
         NEW i, i = Len(br), NEW C, C = Chain(k, i)
  PROVE  CutReady(T, D, k, br, pa, i, C)
<1>1. /\ j = Len(k) /\ q = k /\ k \in T /\ T \in SUBSET Node /\ Null \notin Node
      /\ Len(k) \in Nat \ {0} /\ Upto(k, Len(k)) = k /\ Len(k) \in 1..Len(k)
  <2>1. Reaches(q, k, j, T, cover)
    BY DEF EraseIsAt
  <2>2. j = Len(k) /\ q = k /\ k \in T
    BY <2>1, WordIsFound
  <2>3. Len(k) \in Nat \ {0}
    BY KeyIs
  <2>4. Len(k) \in 1..Len(k)
    BY <2>3
  <2>5. Upto(k, Len(k)) = k
    BY WholeWord
  <2>6. T \in SUBSET Node
    BY DEF Tree
  <2>7. Null \notin Node
    BY NodeIs
  <2> QED BY <2>2, <2>3, <2>4, <2>5, <2>6, <2>7
<1>2. br \in T /\ br \in Node /\ i \in 1..Len(k) /\ br = Upto(k, i)
  <2>1. CASE br = q
    BY <1>1, <2>1
  <2>2. CASE br # q
    <3>1. br = b /\ b \in T /\ i \in Nat \ {0} /\ i <= j /\ br = Upto(k, i)
      <4>1. br = b
        BY <2>2
      <4>2. b \in T /\ Len(b) <= j /\ b = Upto(k, Len(b))
        BY <2>2, <4>1 DEF EraseIsAt
      <4> QED BY <1>1, <4>1, <4>2, NodeIs
    <3> QED BY <1>1, <3>1
  <2> QED BY <2>1, <2>2
<1>3. PICK z \in 0..i : OnlyKey(k, z, Len(k), T)
  <2>1. PICK z : z = IF b = Null THEN 0 ELSE Len(b)
    OBVIOUS
  <2>2. OnlyKey(k, z, Len(k), T)
    BY <1>1, <2>1 DEF EraseIsAt
  <2>3. z \in 0..i
    <3>1. CASE b = Null
      BY <1>2, <2>1, <3>1
    <3>2. CASE b # Null
      <4>1. b \in T /\ Len(b) <= j /\ Len(b) \in Nat
        BY <1>1, <3>2, NodeIs DEF EraseIsAt
      <4>2. i = Len(k) \/ i = Len(b)
        BY <1>1
      <4> QED BY <1>1, <1>2, <2>1, <3>2, <4>1, <4>2
    <3> QED BY <3>1, <3>2
  <2> QED BY <2>2, <2>3
<1>4. i < Len(k) => cover[k] = Nat /\ ~Branched(k, D)
  <2> SUFFICES ASSUME i < Len(k) PROVE cover[k] = Nat /\ ~Branched(k, D)
    OBVIOUS
  <2>1. br # q
    BY <1>1, <1>2
  <2> QED BY <1>1, <2>1 DEF EraseIsAt
<1>5. /\ \A x \in i..Len(k) :
           /\ Upto(k, x) \in T
           /\ D[<<Upto(k, x), "eq">>] = IF x = Len(k) THEN Null ELSE Upto(k, x + 1)
           /\ x > i => ~Branched(Upto(k, x), D)
      /\ \A n \in T, x \in i..Len(k) : Stem(n) = Upto(k, x) => x < Len(k) /\ n = Upto(k, x + 1)
  BY <1>1, <1>2, <1>3, <1>4, ChainIs
<1>6. C \in SUBSET T /\ br \in C
  <2>1. i \in i..Len(k)
    BY <1>1, <1>2
  <2>2. \A x \in i..Len(k) : Upto(k, x) \in T
    BY <1>5
  <2> QED BY <1>2, <2>1, <2>2 DEF Chain
<1>7. PICK w \in Links \cup {"root"} : /\ <<pa, w>> \in LinksFrom(T) /\ D[<<pa, w>>] = br
                                       /\ w \in {"lo", "hi"} \/ Branched(br, D)
  <2>1. CASE Branched(q, D)
    BY <2>1 DEF EraseIsAt, Held
  <2>2. CASE ~Branched(q, D)
    BY <2>2 DEF EraseIsAt, Held
  <2> QED BY <2>1, <2>2
<1>8. pa \notin C
  <2> SUFFICES ASSUME pa \in C PROVE FALSE
    OBVIOUS
  <2>1. PICK x \in i..Len(k) : pa = Upto(k, x)
    BY DEF Chain
  <2>2. x \in 1..Len(k) /\ i \in Nat /\ x \in Nat /\ x >= i
    BY <1>1, <1>2
  <2>3. /\ pa \in T /\ pa \in Node /\ pa # Null /\ <<pa, w>>[1] = pa /\ <<pa, w>>[2] = w
        /\ Char(pa) \in Nat /\ w \in Links
    BY <1>1, <1>6, <1>7, LinkKinds, NodeIs DEF RootLink
  <2>4. w # "eq"
    <3> SUFFICES ASSUME w = "eq" PROVE FALSE
      OBVIOUS
    <3>1. br = Upto(k, x + 1) /\ x < Len(k)
      BY <1>1, <1>5, <1>7, <2>1, <2>2
    <3>2. Len(br) = x + 1
      BY <1>1, <2>2, <3>1, PrefixIs
    <3> QED BY <2>2, <3>2
  <2>5. x = i
    <3>1. Branched(pa, D)
      BY <1>1, <1>2, <1>7, <2>3, <2>4 DEF Branched, Links
    <3>2. ~(x > i)
      BY <1>5, <2>1, <3>1
    <3> QED BY <2>2, <3>2
  <2>6. pa = br
    BY <1>2, <2>1, <2>5
  <2>7. cover[br] = CoverAt(<<br, w>>, cover)
    BY <1>1, <1>2, <1>7, <2>6 DEF Tree, Targets
  <2>8. Char(br) \in cover[br]
    BY <1>2 DEF Tree, Covers
  <2> QED BY <2>3, <2>4, <2>6, <2>7, <2>8 DEF CoverAt
<1>9. <<pa, w>> \in LinksFrom(T \ C)
  BY <1>7, <1>8 DEF LinksFrom
<1> QED BY <1>2, <1>5, <1>6, <1>7, <1>9 DEF CutReady

(* What erase does at its cut,                                             *)
CutDone(T, D, k, br, pa, w, i, C, less, more, heir, f, e, E) ==
  /\ i = Len(br) /\ C = Chain(k, i)
  /\ <<pa, w>> \in LinksFrom(T \ C) /\ D[<<pa, w>>] = br
  /\ w \in {"lo", "hi"} \/ Branched(br, D)
  /\ less = D[<<br, "lo">>] /\ more = D[<<br, "hi">>]
  /\ heir = IF more # Null THEN more ELSE less
  /\ (\E g : g = LeftFrom(g, D)) => f = LeftFrom(f, D)
  /\ e = f[more]
  /\ E \in [LinkAt -> Pointer]
  /\ \A l \in LinksFrom(T \ C) :
       E[l] = IF less # Null /\ more # Null /\ l = <<e, "lo">> THEN less
              ELSE IF l = <<pa, w>> THEN heir ELSE D[l]

(* what it leaves,                                                         *)
CutLeaves(T, C, less, more, e, E) ==
  /\ \E cov : Tree(T \ C, E, cov)
  /\ less # Null /\ more # Null => e \in T

(* and that it leaves this.                                                *)
LEMMA EraseCuts ==
  ASSUME NEW T, NEW D, NEW cover, Tree(T, D, cover), NEW k \in Key, NEW j \in 1..Len(k),
         NEW q, NEW qq, NEW b, NEW bb, EraseIsAt(q, qq, b, bb, k, j, T, D, cover),
         q # Null, k[j] = 0, Char(q) = 0,
         NEW br, br = IF Branched(q, D) THEN q ELSE b, br # Null,
         NEW pa, pa = IF Branched(q, D) THEN qq ELSE bb,
         NEW N, NEW r, Descends(r, N, D),
         NEW w, NEW i, NEW C, NEW less, NEW more, NEW heir, NEW f, NEW e, NEW E,
         CutDone(T, D, k, br, pa, w, i, C, less, more, heir, f, e, E)
  PROVE  CutLeaves(T, C, less, more, e, E)
<1> USE DEF CutDone
<1>1. /\ i \in 1..Len(k) /\ br = Upto(k, i) /\ C \in SUBSET T /\ br \in C
      /\ \A x \in i..Len(k) :
           /\ Upto(k, x) \in T
           /\ D[<<Upto(k, x), "eq">>] = IF x = Len(k) THEN Null ELSE Upto(k, x + 1)
           /\ x > i => ~Branched(Upto(k, x), D)
      /\ \A n \in T, x \in i..Len(k) : Stem(n) = Upto(k, x) => x < Len(k) /\ n = Upto(k, x + 1)
  <2>1. CutReady(T, D, k, br, pa, i, C)
    BY CutIsReady
  <2> QED BY <2>1 DEF CutReady
<1>2. PICK L : L = Len(k)
  OBVIOUS
<1>3. /\ T \in SUBSET Node /\ Null \notin Node /\ L \in Nat \ {0} /\ i \in 1..L
      /\ \A x \in i..L : x \in 1..L
  BY <1>1, <1>2, KeyIs, NodeIs DEF Tree
<1>4. ASSUME NEW n \in C PROVE \E x \in i..L : n = Upto(k, x) /\ (n # br => x > i)
  BY <1>1, <1>2, <1>3 DEF Chain
<1>5. \A n \in C : n # br => \E m \in C : D[<<m, "eq">>] = n
  <2> SUFFICES ASSUME NEW n \in C, n # br PROVE \E m \in C : D[<<m, "eq">>] = n
    OBVIOUS
  <2>1. PICK x \in i..L : n = Upto(k, x) /\ x > i
    BY <1>4
  <2>2. x - 1 \in i..L /\ x - 1 # L /\ (x - 1) + 1 = x
    BY <1>3, <2>1
  <2>3. D[<<Upto(k, x - 1), "eq">>] = n /\ Upto(k, x - 1) \in C
    BY <1>1, <1>2, <2>1, <2>2 DEF Chain
  <2> QED BY <2>3
<1>6. \A n \in C : /\ D[<<n, "eq">>] \in C \cup {Null}
                   /\ n # br => D[<<n, "lo">>] = Null /\ D[<<n, "hi">>] = Null
  <2> SUFFICES ASSUME NEW n \in C
               PROVE  /\ D[<<n, "eq">>] \in C \cup {Null}
                      /\ n # br => D[<<n, "lo">>] = Null /\ D[<<n, "hi">>] = Null
    OBVIOUS
  <2>1. PICK x \in i..L : n = Upto(k, x) /\ (n # br => x > i)
    BY <1>4
  <2>2. D[<<n, "eq">>] \in C \cup {Null}
    <3>1. CASE x = L
      BY <1>1, <1>2, <2>1, <3>1
    <3>2. CASE x # L
      <4>1. x + 1 \in i..L /\ D[<<n, "eq">>] = Upto(k, x + 1)
        BY <1>1, <1>2, <1>3, <2>1, <3>2
      <4> QED BY <1>2, <4>1 DEF Chain
    <3> QED BY <3>1, <3>2
  <2>3. n # br => ~Branched(n, D)
    BY <1>1, <1>2, <2>1
  <2> QED BY <2>2, <2>3 DEF Branched
<1>7. \A n \in T \ C : Stem(n) \notin C
  <2> SUFFICES ASSUME NEW n \in T \ C, Stem(n) \in C PROVE FALSE
    OBVIOUS
  <2>1. PICK x \in i..L : Stem(n) = Upto(k, x)
    BY <1>4
  <2>2. x < L /\ n = Upto(k, x + 1)
    BY <1>1, <1>2, <2>1
  <2>3. x + 1 \in i..L
    BY <1>3, <2>2
  <2> QED BY <1>2, <2>2, <2>3 DEF Chain
<1>8. PICK y : y = <<pa, w>> /\ y[1] = pa /\ y[2] = w
  OBVIOUS
<1>9. y[1] = Null \/ y[2] = "eq" => heir # Null
  <2>1. y \in LinksFrom(T \ C) /\ T \ C \in SUBSET Node
    BY <1>3, <1>8
  <2>2. y[1] = Null => w \notin {"lo", "hi"}
    BY <1>3, <1>8, <2>1, LinkKinds
  <2> QED BY <1>8, <2>2 DEF Branched
<1>10. less # Null /\ more # Null =>
         /\ e \in T \ C /\ Stem(e) = Stem(br) /\ D[<<e, "lo">>] = Null
         /\ cover[e] \subseteq cover[more] /\ Char(br) + 1 \in cover[e]
  <2> SUFFICES ASSUME more # Null
               PROVE  /\ e \in T \ C /\ Stem(e) = Stem(br) /\ D[<<e, "lo">>] = Null
                      /\ cover[e] \subseteq cover[more] /\ Char(br) + 1 \in cover[e]
    OBVIOUS
  <2>1. PICK K, B : K = cover[br] /\ B = Char(br)
    OBVIOUS
  <2>2. /\ br \in T /\ br \in Node /\ br # Null /\ B \in Nat /\ K \in SUBSET Nat /\ Convex(K)
        /\ B \in K /\ <<br, "hi">> \in LinksFrom(T)
    BY <1>1, <1>3, <2>1, NodeIs DEF Tree, Covers, LinksFrom, Links
  <2>3. more \in T /\ Stem(more) = Stem(br) /\ cover[more] = {c \in K : c > B}
    BY <2>1, <2>2 DEF Tree, Targets, StemAt, CoverAt
  <2>4. PICK M : M \in K /\ M > B
    <3>1. Char(more) \in cover[more]
      BY <2>3 DEF Tree, Covers
    <3> QED BY <2>3, <3>1
  <2>5. B + 1 \in cover[more] /\ \A c \in cover[more] : c >= B + 1
    <3>1. \A a, c \in K : \A x \in Nat : a <= x /\ x <= c => x \in K
      BY <2>2 DEF Convex
    <3>2. B + 1 \in Nat /\ B <= B + 1 /\ B + 1 <= M /\ B + 1 > B
      BY <2>2, <2>4
    <3>3. B + 1 \in K
      BY <2>2, <2>4, <3>1, <3>2
    <3>4. \A c \in K : c > B => c >= B + 1
      <4>1. B \in Nat /\ K \in SUBSET Nat
        BY <2>2
      <4> QED BY <4>1
    <3> QED BY <2>3, <3>2, <3>3, <3>4
  <2>6. /\ e \in T /\ Stem(e) = Stem(more) /\ D[<<e, "lo">>] = Null
        /\ cover[e] \subseteq cover[more] /\ B + 1 \in cover[e]
    <3>1. \E g : g = LeftFrom(g, D)
      BY <2>3, <2>5, LeftEnds
    <3>2. f = LeftFrom(f, D)
      BY <3>1
    <3> QED BY <2>3, <2>5, <3>2, LeftEnds
  <2>7. e \notin C
    <3> SUFFICES ASSUME e \in C PROVE FALSE
      OBVIOUS
    <3>1. PICK x \in i..L : e = Upto(k, x)
      BY <1>4
    <3>2. Len(e) = x /\ Len(br) = i
      BY <1>1, <1>2, <1>3, <3>1, PrefixIs
    <3>3. PICK s : s = Stem(e)
      OBVIOUS
    <3>4. Len(s) = x - 1 /\ Len(s) = i - 1
      BY <1>3, <2>2, <2>3, <2>6, <3>2, <3>3, StemIs
    <3>5. e = br
      BY <1>1, <1>3, <3>1, <3>4
    <3>6. B \in cover[more]
      BY <2>1, <2>2, <2>6, <3>5
    <3> QED BY <2>2, <2>3, <3>6
  <2> QED BY <2>1, <2>3, <2>6, <2>7
<1>11. \A l \in LinksFrom(T \ C) :
         E[l] = IF less # Null /\ more # Null /\ l = <<e, "lo">> THEN less
                ELSE IF l = y THEN heir ELSE D[l]
  BY <1>8
<1>12. CutHere(T, D, cover, C, br, y, less, more, heir, e, E)
  BY <1>1, <1>5, <1>6, <1>7, <1>8, <1>9, <1>10, <1>11 DEF CutHere
<1>13. \E cov : Tree(T \ C, E, cov)
  BY <1>12, BranchIsCut
<1> QED BY <1>10, <1>13 DEF CutLeaves

(* A node is the prefix of a word of the tree,                             *)
Stays(n, T) == \E h \in Key : h \in T /\ Len(n) <= Len(h) /\ n = Upto(h, Len(n))

(* and it stays one if a word is cut out at its last branch.               *)
LEMMA OthersKept ==
  ASSUME NEW T, NEW D, NEW cover, Tree(T, D, cover), NEW k \in Key, NEW i \in 1..Len(k),
         NEW C, C = Chain(k, i), NEW br \in C, br = Upto(k, i), C \in SUBSET T,
         NEW pa, NEW w, <<pa, w>> \in LinksFrom(T \ C), D[<<pa, w>>] = br,
         w \in {"lo", "hi"} \/ Branched(br, D),
         \A n \in T : Stays(n, T),
         NEW n \in T \ C
  PROVE  Stays(n, T \ C)
<1> USE DEF Stays
<1>1. PICK L : L = Len(k)
  OBVIOUS
<1>2. /\ T \in SUBSET Node /\ Null \notin Node /\ L \in Nat \ {0} /\ i \in 1..L /\ L \in 1..L
      /\ br \in Node /\ br \in T /\ br # Null /\ Len(br) = i /\ Upto(k, L) = k /\ i \in Nat
  <2>1. L \in Nat \ {0}
    BY <1>1, KeyIs
  <2>2. i \in 1..L /\ L \in 1..L /\ i \in Nat
    BY <1>1, <2>1
  <2>3. Null \notin Node
    BY NodeIs
  <2>4. br \in Node /\ Len(br) = i
    BY PrefixIs
  <2>5. Upto(k, L) = k
    BY <1>1, WholeWord
  <2>6. T \in SUBSET Node
    BY DEF Tree
  <2> QED BY <2>1, <2>2, <2>3, <2>4, <2>5, <2>6
<1>3. ASSUME NEW h \in Key, h \in C PROVE h = k
  <2>1. PICK x \in i..L : h = Upto(k, x)
    BY <1>1, <1>3 DEF Chain
  <2>2. x \in 1..L
    BY <1>2
  <2>3. Char(h) = k[x]
    BY <1>1, <2>1, <2>2, PrefixIs
  <2>4. Char(h) = 0
    <3>1. Len(h) \in Nat \ {0} /\ \A y \in 1..Len(h) : h[y] = 0 <=> y = Len(h)
      BY KeyIs
    <3>2. Len(h) \in 1..Len(h)
      BY <3>1
    <3> QED BY <3>1, <3>2 DEF Char
  <2>5. x = L
    BY <1>1, <2>2, <2>3, <2>4, KeyIs
  <2> QED BY <1>2, <2>1, <2>5
<1>4. PICK h \in Key : h \in T /\ Len(n) <= Len(h) /\ n = Upto(h, Len(n))
  OBVIOUS
<1>5. CASE h \notin C
  BY <1>4, <1>5
<1>6. CASE h \in C
  <2>1. PICK m : m = Len(n)
    OBVIOUS
  <2>2. h = k /\ m \in Nat \ {0} /\ m <= L /\ n = Upto(k, m)
    BY <1>1, <1>2, <1>3, <1>4, <1>6, <2>1, NodeIs
  <2>3. m < i
    <3>1. ~(m \in i..L)
      BY <1>1, <2>2 DEF Chain
    <3> QED BY <1>2, <2>2, <3>1
  <2>4. PICK g \in T : Stem(g) = Stem(br) /\ g # br
    <3>1. ASSUME NEW v \in {"lo", "hi"}, D[<<br, v>>] # Null
          PROVE  \E g \in T : Stem(g) = Stem(br) /\ g # br
      <4>1. PICK g : g = D[<<br, v>>]
        OBVIOUS
      <4>2. <<br, v>> \in LinksFrom(T)
        BY <1>2 DEF LinksFrom, Links
      <4>3. g \in T /\ Stem(g) = Stem(br) /\ cover[g] = CoverAt(<<br, v>>, cover)
        BY <1>2, <3>1, <4>1, <4>2 DEF Tree, Targets, StemAt
      <4>4. Char(g) \in cover[g] /\ Char(br) \in Nat
        BY <1>2, <4>3, NodeIs DEF Tree, Covers
      <4>5. Char(g) # Char(br)
        <5>1. PICK z, y : z = Char(br) /\ y = Char(g)
          OBVIOUS
        <5>2. cover[g] = {c \in cover[br] : c < z} \/ cover[g] = {c \in cover[br] : c > z}
          BY <1>2, <4>3, <5>1 DEF CoverAt
        <5>3. y \in cover[g] /\ y \in Nat /\ z \in Nat
          BY <4>3, <4>4, <5>1, NodeIs DEF Tree
        <5>4. y < z \/ y > z
          BY <5>2, <5>3
        <5>5. y # z
          BY <5>3, <5>4
        <5> QED BY <5>1, <5>5
      <4> QED BY <4>3, <4>5
    <3>2. ASSUME w \in {"lo", "hi"} PROVE \E g \in T : Stem(g) = Stem(br) /\ g # br
      <4>1. <<pa, w>>[1] = pa /\ <<pa, w>>[2] = w /\ T \ C \in SUBSET Node
        BY <1>2
      <4>2. pa \in T \ C /\ pa # Null
        BY <3>2, <4>1, LinkKinds
      <4>3. Stem(br) = StemAt(<<pa, w>>)
        <5>1. <<pa, w>> \in LinksFrom(T)
          BY DEF LinksFrom
        <5> QED BY <1>2, <5>1 DEF Tree, Targets
      <4>4. Stem(br) = Stem(pa)
        BY <3>2, <4>1, <4>2, <4>3 DEF StemAt
      <4> QED BY <4>2, <4>4
    <3> QED BY <3>1, <3>2 DEF Branched
  <2>5. PICK h2 \in Key : h2 \in T /\ Len(g) <= Len(h2) /\ g = Upto(h2, Len(g))
    OBVIOUS
  <2>6. g \in Node /\ Len(g) = i /\ i <= Len(h2) /\ g = Upto(h2, i) /\ Len(h2) \in Nat
        /\ i \in 1..Len(h2)
    <3>1. PICK x, s : x = Len(g) /\ s = Stem(g)
      OBVIOUS
    <3>2. Len(s) = x - 1 /\ Len(s) = i - 1 /\ x \in Nat
      BY <1>2, <2>4, <3>1, StemIs, NodeIs
    <3>3. x = i
      BY <1>2, <3>2
    <3> QED BY <1>2, <2>5, <3>1, <3>3, KeyIs
  <2>7. h2 \notin C
    <3> SUFFICES ASSUME h2 \in C PROVE FALSE
      OBVIOUS
    <3>1. h2 = k
      BY <1>3
    <3> QED BY <2>4, <2>6, <3>1
  <2>8. n = Upto(h2, m)
    <3>1. \A x \in 1..m : x \in 1..(i - 1) /\ x \in 1..i /\ x \in 1..m
      BY <1>2, <2>2, <2>3
    <3>0. m \in 1..Len(k)
      BY <1>1, <1>2, <2>2
    <3>2. \A x \in 1..m : n[x] = k[x]
      BY <2>2, <3>0, PrefixIs
    <3>3. \A x \in 1..i : br[x] = k[x]
      <4>1. \A x \in 1..i : Upto(k, i)[x] = k[x]
        BY PrefixIs
      <4> QED BY <4>1
    <3>7. \A x \in 1..i : g[x] = h2[x]
      <4>1. \A x \in 1..i : Upto(h2, i)[x] = h2[x]
        BY <2>6, PrefixIs
      <4> QED BY <2>6, <4>1
    <3>4. \A x \in 1..(i - 1) : br[x] = g[x]
      <4>1. PICK s : s = Stem(br) /\ s = Stem(g)
        BY <2>4
      <4>2. \A x \in 1..(i - 1) : s[x] = br[x]
        BY <1>2, <4>1, StemIs
      <4>3. \A x \in 1..(i - 1) : s[x] = g[x]
        BY <2>6, <4>1, StemIs
      <4> QED BY <4>2, <4>3
    <3>5. \A x \in 1..m : n[x] = h2[x]
      BY <3>1, <3>2, <3>3, <3>4, <3>7
    <3>6. m <= Len(h2)
      BY <1>2, <2>2, <2>3, <2>6
    <3> QED BY <1>2, <2>1, <3>5, <3>6, AgreesIs
  <2>9. m <= Len(h2)
    BY <1>2, <2>2, <2>3, <2>6
  <2> QED BY <2>1, <2>5, <2>7, <2>8, <2>9
<1> QED BY <1>5, <1>6

(* A lo or a hi of the chain leads back into the tree.                     *)
LEMMA BesidesChain ==
  ASSUME NEW T, NEW D, NEW cover, Tree(T, D, cover), NEW k \in Key, NEW i \in 1..Len(k),
         NEW C \in SUBSET T, C = Chain(k, i), NEW n \in C, NEW v \in {"lo", "hi"}
  PROVE  D[<<n, v>>] \in (T \ C) \cup {Null}
<1>1. PICK m : m = D[<<n, v>>]
  OBVIOUS
<1> SUFFICES ASSUME m # Null, m \in C PROVE FALSE
  <2>1. /\ n \in T /\ <<n, v>> \in LinksFrom(T)
    BY DEF LinksFrom, Links
  <2>2. m # Null => m \in T
    BY <1>1, <2>1 DEF Tree, Targets
  <2> QED BY <1>1, <2>2
<1>2. /\ n \in T /\ n \in Node /\ n # Null /\ <<n, v>> \in LinksFrom(T) /\ Char(n) \in Nat
      /\ m \in Node
  <2>1. T \in SUBSET Node
    BY DEF Tree
  <2> QED BY <2>1, NodeIs DEF LinksFrom, Links
<1>3. m \in T /\ Stem(m) = Stem(n) /\ cover[m] = CoverAt(<<n, v>>, cover)
  BY <1>1, <1>2 DEF Tree, Targets, StemAt
<1>4. PICK x \in i..Len(k), y \in i..Len(k) : n = Upto(k, x) /\ m = Upto(k, y)
  BY DEF Chain
<1>5. Len(n) = x /\ Len(m) = y
  <2>1. x \in 1..Len(k) /\ y \in 1..Len(k)
    BY KeyIs
  <2> QED BY <1>4, <2>1, PrefixIs
<1>6. PICK s : s = Stem(n)
  OBVIOUS
<1>7. Len(s) = x - 1 /\ Len(s) = y - 1 /\ x \in Nat /\ y \in Nat
  BY <1>2, <1>3, <1>5, <1>6, StemIs, KeyIs
<1>8. m = n
  BY <1>4, <1>7
<1>9. Char(n) \in cover[n]
  BY <1>2 DEF Tree, Covers
<1> QED BY <1>2, <1>3, <1>8, <1>9 DEF CoverAt

(* The nodes of a tree that nothing else is changed about.                 *)
LEMMA SameTree ==
  ASSUME NEW T, NEW D, NEW cover, Tree(T, D, cover), NEW E \in [LinkAt -> Pointer],
         \A l \in LinksFrom(T) : E[l] = D[l]
  PROVE  Tree(T, E, cover)
<1>1. /\ T \in SUBSET Node /\ Null \notin Node /\ cover \in [Node -> SUBSET Nat]
  BY NodeIs DEF Tree, Covers
<1>2. Targets(T, E, cover) /\ Topped(T, E) /\ OneLink(T, E)
  BY DEF Tree, Targets, Topped, OneLink
<1>3. ASSUME NEW n \in T, NEW c \in cover[n] PROVE Ends(c, n, E) <=> Ends(c, n, D)
  <2>1. Way(c, n) \in Links
    BY <1>1, WayKinds
  <2>2. <<n, Way(c, n)>> \in LinksFrom(T)
    BY <2>1 DEF LinksFrom
  <2> QED BY <2>2 DEF Ends
<1>4. OneEnd(T, E, cover)
  BY <1>3 DEF Tree, OneEnd
<1> QED BY <1>2, <1>4 DEF Tree

(***************************************************************************)
(* The inductive invariant, and the first steps                            *)
(***************************************************************************)
(* Where the links of a root and a node function lead.                     *)
TargetOf(r, f) == [l \in LinkAt |-> IF l[1] = Null THEN r ELSE f[l[1]][l[2]]]

(* The links of the tree as it is.                                         *)
Target == TargetOf(root, node)

(* Each node is the prefix of a word of the tree or of one of the others.  *)
KeptIn(T, others) ==
  \A n \in T : \E h \in Key : Len(n) <= Len(h) /\ n = Upto(h, Len(n)) /\ (h \in T \/ h \in others)

(* Each node is the prefix of a word of the tree or of the word that       *)
(* comes.                                                                  *)
Kept == KeptIn(InTheTree, IF Inserting THEN {call.key} ELSE {})

(* A word in the tree has values.                                          *)
Filled == \A k \in Key : k \in InTheTree => node[k].values # {}

(* Free nodes have no fields.                                              *)
Bare == \A n \in Node \ heap : node[n] = NewNode

(* Between calls the locals are unset.                                     *)
AtRest ==
  call = Null =>
    /\ at = 1 /\ slot = RootLink
    /\ p = Null /\ pp = Null /\ lb = Null /\ lbp = Null /\ dt = Null

(* The nodes of k from its i-th character on are linked in a row.          *)
ChainLinks(k, i, f) ==
  \A x \in i..Len(k) : f[Upto(k, x)].eq = IF x = Len(k) THEN Null ELSE Upto(k, x + 1)

(* While the chain is being deleted: dt is its next node, the nodes that   *)
(* are in no tree are those of the chain, and their lo and hi, which       *)
(* `delete` does not follow, lead into the tree.                           *)
Chained ==
  dt # Null =>
    /\ Erasing /\ Len(dt) \in 1..Len(call.key) /\ dt = Upto(call.key, Len(dt))
    /\ Detached = Chain(call.key, Len(dt)) /\ Detached \subseteq heap
    /\ ChainLinks(call.key, Len(dt), node)
    /\ \A n \in Detached : \A w \in {"lo", "hi"} : node[n][w] \in InTheTree \cup {Null}

(* The tree is one, for some covers, and the call is where its walk should *)
(* be.                                                                     *)
Sits ==
  \E cover : /\ Tree(InTheTree, Target, cover)
             /\ Inserting => InsertIsAt(slot, call.key, at, InTheTree, cover)
             /\ Erasing /\ dt = Null =>
                  EraseIsAt(p, pp, lb, lbp, call.key, at, InTheTree, Target, cover)

(* The inductive invariant.                                                *)
TreeInv == TreeTypeOK /\ Bare /\ AtRest /\ Chained /\ Kept /\ Filled /\ Sits

(* Where the links lead.                                                   *)
LEMMA TargetIs ==
  ASSUME NEW r \in Pointer, NEW f \in [Node -> NodeFields]
  PROVE  /\ TargetOf(r, f) \in [LinkAt -> Pointer]
         /\ TargetOf(r, f)[RootLink] = r
         /\ \A n \in Node : \A w \in Links :
              TargetOf(r, f)[<<n, w>>] = f[n][w] /\ f[n][w] \in Pointer
<1>1. Null \notin Node
  BY NodeIs
<1>2. ASSUME NEW n \in Node, NEW w \in Links PROVE f[n][w] \in Pointer
  <2>1. f[n] \in NodeFields
    OBVIOUS
  <2> QED BY <2>1 DEF NodeFields, Links
<1>3. ASSUME NEW l \in LinkAt PROVE (IF l[1] = Null THEN r ELSE f[l[1]][l[2]]) \in Pointer
  <2>1. l = RootLink \/ (l[1] \in Node /\ l[2] \in Links)
    BY DEF LinkAt
  <2> QED BY <1>2, <2>1 DEF RootLink
<1>4. RootLink \in LinkAt /\ RootLink[1] = Null
  BY DEF LinkAt, RootLink
<1>5. ASSUME NEW n \in Node, NEW w \in Links
      PROVE  <<n, w>> \in LinkAt /\ n # Null
  BY <1>1 DEF LinkAt
<1> QED BY <1>2, <1>3, <1>4, <1>5 DEF TargetOf

(* A tree without nodes.                                                   *)
LEMMA NoTree ==
  ASSUME NEW D \in [LinkAt -> Pointer], D[RootLink] = Null
  PROVE  \E cover : Tree({}, D, cover)
<1> DEFINE cov == [n \in Node |-> {}]
<1>1. LinksFrom({}) = {RootLink}
  BY DEF LinksFrom
<1>2. cov \in [Node -> SUBSET Nat]
  OBVIOUS
<1>3. Targets({}, D, cov) /\ Covers({}, cov) /\ Topped({}, D) /\ OneEnd({}, D, cov) /\ OneLink({}, D)
  BY <1>1, <1>2 DEF Targets, Covers, Topped, OneEnd, OneLink
<1>4. IsFiniteSet({})
  BY FS_EmptySet
<1> QED BY <1>3, <1>4 DEF Tree

(* The empty tree.                                                         *)
LEMMA TreeStarts == TreeInit => TreeInv
<1> SUFFICES ASSUME TreeInit PROVE TreeInv
  OBVIOUS
<1> USE DEF TreeInit
<1>1. TreeTypeOK
  BY DEF TreeTypeOK, Pointer, NodeFields, NewNode, Links
<1>2. InTheTree = {} /\ ~Inserting /\ ~Erasing
  BY DEF InTheTree, Inserting, Erasing
<1>3. Target \in [LinkAt -> Pointer] /\ Target[RootLink] = Null
  BY <1>1, TargetIs DEF TreeTypeOK, Target
<1>4. Sits
  BY <1>2, <1>3, NoTree DEF Sits
<1>5. Bare /\ AtRest /\ Chained /\ Kept /\ Filled
  BY <1>2 DEF Bare, AtRest, Chained, Kept, KeptIn, Filled, RootLink
<1> QED BY <1>1, <1>4, <1>5 DEF TreeInv

(* Between calls, and in the walks of the calls, nothing is detached.      *)
LEMMA AllThere ==
  ASSUME TreeInv
  PROVE  /\ dt = Null => Detached = {} /\ InTheTree = heap
         /\ Inserting => dt = Null /\ ~Erasing
         /\ call = Null => dt = Null /\ ~Erasing /\ ~Inserting
         /\ InTheTree \subseteq heap /\ heap \subseteq Node
BY DEF TreeInv, AtRest, Chained, Detached, InTheTree, Inserting, Erasing, TreeTypeOK

(* What a call is.                                                         *)
LEMMA CallIs ==
  ASSUME TreeInv, call # Null
  PROVE  /\ call \in [op : {"insert", "erase"}, key : Key, value : Value]
         /\ call.key \in Key /\ call.value \in Value /\ at \in 1..Len(call.key)
         /\ call.op \in {"insert", "erase"}
BY DEF TreeInv, TreeTypeOK

(* insert begins.                                                          *)
LEMMA InsertStartKeeps ==
  ASSUME TreeInv, NEW e \in Entry, InsertStart(e[1], e[2])
  PROVE  TreeInv'
<1>1. /\ e[1] \in Key /\ e[2] \in Value
      /\ call' = [op |-> "insert", key |-> e[1], value |-> e[2]] /\ call = Null
      /\ UNCHANGED <<root, heap, node, at, slot, p, pp, lb, lbp, dt>>
  BY TreeAssumption DEF InsertStart, locals
<1>2. /\ call' \in [op : {"insert", "erase"}, key : Key, value : Value] /\ call'.key = e[1]
      /\ call'.op = "insert"
  BY <1>1
<1>3. call' # Null
  BY <1>2, TreeAssumption
<1>4. /\ at = 1 /\ slot = RootLink /\ dt = Null /\ ~Inserting /\ ~Erasing /\ Inserting' /\ ~Erasing'
      /\ InTheTree' = InTheTree /\ Target' = Target
  <2>1. at = 1 /\ slot = RootLink /\ dt = Null /\ ~Inserting /\ ~Erasing
    BY <1>1, AllThere DEF TreeInv, AtRest
  <2>2. Inserting' /\ ~Erasing'
    BY <1>2, <1>3 DEF Inserting, Erasing
  <2>3. InTheTree' = InTheTree
    BY <1>1, <2>1 DEF InTheTree, Detached
  <2> QED BY <1>1, <2>1, <2>2, <2>3 DEF Target
<1>5. TreeTypeOK'
  <2>1. 1 \in 1..Len(e[1])
    BY <1>1, KeyIs
  <2> QED BY <1>1, <1>2, <1>4, <2>1 DEF TreeInv, TreeTypeOK
<1>6. Bare' /\ AtRest' /\ Chained' /\ Filled'
  BY <1>1, <1>3, <1>4 DEF TreeInv, Bare, AtRest, Chained, Filled
<1>7. Kept'
  BY <1>4 DEF TreeInv, Kept, KeptIn
<1>8. Sits'
  BY <1>1, <1>4 DEF TreeInv, Sits, InsertIsAt, RootLink
<1> QED BY <1>5, <1>6, <1>7, <1>8 DEF TreeInv

(* erase begins.                                                           *)
LEMMA EraseStartKeeps ==
  ASSUME TreeInv, NEW e \in Entry, EraseStart(e[1], e[2])
  PROVE  TreeInv'
<1>1. /\ e[1] \in Key /\ e[2] \in Value
      /\ call' = [op |-> "erase", key |-> e[1], value |-> e[2]] /\ call = Null /\ p' = root
      /\ UNCHANGED <<root, heap, node, at, slot, pp, lb, lbp, dt>>
  BY TreeAssumption DEF EraseStart
<1>2. /\ call' \in [op : {"insert", "erase"}, key : Key, value : Value] /\ call'.key = e[1]
      /\ call'.op = "erase"
  BY <1>1
<1>3. call' # Null
  BY <1>2, TreeAssumption
<1>4. /\ at = 1 /\ pp = Null /\ lb = Null /\ lbp = Null /\ dt = Null
      /\ ~Inserting /\ ~Erasing /\ ~Inserting' /\ Erasing'
      /\ InTheTree' = InTheTree /\ Target' = Target
  <2>1. at = 1 /\ pp = Null /\ lb = Null /\ lbp = Null /\ dt = Null /\ ~Inserting /\ ~Erasing
    BY <1>1, AllThere DEF TreeInv, AtRest
  <2>2. ~Inserting' /\ Erasing'
    BY <1>2, <1>3 DEF Inserting, Erasing
  <2>3. InTheTree' = InTheTree
    BY <1>1, <2>1 DEF InTheTree, Detached
  <2> QED BY <1>1, <2>1, <2>2, <2>3 DEF Target
<1>5. TreeTypeOK'
  <2>1. 1 \in 1..Len(e[1])
    BY <1>1, KeyIs
  <2> QED BY <1>1, <1>2, <1>4, <2>1 DEF TreeInv, TreeTypeOK
<1>6. Bare' /\ AtRest' /\ Chained' /\ Filled'
  BY <1>1, <1>3, <1>4 DEF TreeInv, Bare, AtRest, Chained, Filled
<1>7. Kept'
  BY <1>4 DEF TreeInv, Kept, KeptIn
<1>8. Sits'
  <2>1. PICK cover : Tree(InTheTree, Target, cover)
    BY DEF TreeInv, Sits
  <2>2. Target[RootLink] = root
    BY TargetIs DEF TreeInv, TreeTypeOK, Target
  <2>3. EraseIsAt(root, Null, Null, Null, e[1], 1, InTheTree, Target, cover)
    BY <1>1, <2>1, <2>2, EraseBegins
  <2> QED BY <1>1, <1>2, <1>4, <2>1, <2>3 DEF Sits
<1> QED BY <1>5, <1>6, <1>7, <1>8 DEF TreeInv

(***************************************************************************)
(* The steps of insert and erase keep it                                   *)
(***************************************************************************)
(* What a call that walks the tree is at.                                  *)
LEMMA WalkingIs ==
  ASSUME TreeInv, call # Null, dt = Null
  PROVE  /\ root \in Pointer /\ node \in [Node -> NodeFields] /\ InTheTree = heap
         /\ heap \subseteq Node /\ Null \notin Node
         /\ Target \in [LinkAt -> Pointer] /\ Target[RootLink] = root
         /\ \A n \in Node : \A w \in Links : Target[<<n, w>>] = node[n][w] /\ node[n][w] \in Pointer
         /\ call \in [op : {"insert", "erase"}, key : Key, value : Value]
         /\ call.key \in Key /\ at \in 1..Len(call.key)
BY TargetIs, AllThere, CallIs, NodeIs DEF TreeInv, TreeTypeOK, Target

(* *pp is the target of the link that pp points to.                        *)
LEMMA DerefIs ==
  ASSUME TreeInv, slot \in LinksFrom(InTheTree)
  PROVE  Deref(slot) = Target[slot]
<1>1. slot \in LinkAt
  BY LinkKinds, AllThere DEF LinksFrom, LinkAt
<1> QED BY <1>1 DEF Target, TargetOf, Deref

(* Values do not matter for the links.                                     *)
LEMMA ValuesAside ==
  ASSUME TreeInv, root' = root, NEW V \in SUBSET Value, NEW n \in Node,
         node' = [node EXCEPT ![n].values = V]
  PROVE  /\ Target' = Target /\ node' \in [Node -> NodeFields]
         /\ node'[n].values = V /\ \A m \in Node : m # n => node'[m] = node[m]
<1>1. node \in [Node -> NodeFields] /\ root \in Pointer
  BY DEF TreeInv, TreeTypeOK
<1>2. node' \in [Node -> NodeFields]
  BY <1>1 DEF NodeFields
<1>3. ASSUME NEW m \in Node, NEW w \in Links PROVE node'[m][w] = node[m][w]
  BY <1>1 DEF NodeFields, Links
<1>4. ASSUME NEW l \in LinkAt
      PROVE  (IF l[1] = Null THEN root' ELSE node'[l[1]][l[2]])
             = (IF l[1] = Null THEN root ELSE node[l[1]][l[2]])
  <2>1. l = RootLink \/ (l[1] \in Node /\ l[2] \in Links)
    BY DEF LinkAt
  <2> QED BY <1>3, <2>1 DEF RootLink
<1>5. Target' = Target
  BY <1>4 DEF Target, TargetOf
<1>6. node'[n].values = V /\ \A m \in Node : m # n => node'[m] = node[m]
  BY <1>1 DEF NodeFields
<1> QED BY <1>2, <1>5, <1>6

(* The call ends and the tree's links are as they were.                    *)
LEMMA ReturnKeeps ==
  ASSUME TreeInv, call # Null, dt = Null, Return, UNCHANGED <<root, heap>>, Target' = Target,
         node' \in [Node -> NodeFields], \A n \in Node \ heap : node'[n] = node[n],
         \A k \in Key : k \in InTheTree => node'[k].values # {},
         Inserting => call.key \in InTheTree
  PROVE  TreeInv'
<1>1. call' = Null /\ dt' = Null /\ at' = 1 /\ slot' = RootLink
      /\ p' = Null /\ pp' = Null /\ lb' = Null /\ lbp' = Null
  BY DEF Return, RootLink
<1>2. InTheTree' = InTheTree /\ ~Inserting' /\ ~Erasing'
  BY <1>1 DEF InTheTree, Detached, Inserting, Erasing
<1>3. TreeTypeOK'
  BY <1>1 DEF TreeInv, TreeTypeOK, RootLink, Pointer
<1>4. Bare' /\ AtRest' /\ Chained' /\ Filled'
  BY <1>1, <1>2 DEF TreeInv, Bare, AtRest, Chained, Filled
<1>5. Kept'
  BY <1>2 DEF TreeInv, Kept, KeptIn
<1>6. Sits'
  BY <1>2 DEF TreeInv, Sits
<1> QED BY <1>3, <1>4, <1>5, <1>6 DEF TreeInv

(* insert comes to the node of the word's terminating 0.                   *)
LEMMA InsertFoundIs ==
  ASSUME TreeInv, Inserting, Deref(slot) # Null, Symbol = 0, Way(Symbol, Deref(slot)) = "eq"
  PROVE  Deref(slot) = call.key /\ call.key \in heap
<1>1. Inserting /\ dt = Null /\ ~Erasing /\ call # Null
  BY AllThere DEF Inserting
<1>2. PICK cover : /\ Tree(InTheTree, Target, cover)
                   /\ InsertIsAt(slot, call.key, at, InTheTree, cover)
  BY <1>1 DEF TreeInv, Sits
<1>3. PICK T, D, k, j, s, n : T = InTheTree /\ D = Target /\ k = call.key /\ j = at /\ s = slot
                              /\ n = Deref(slot)
  OBVIOUS
<1>4. k \in Key /\ j \in 1..Len(k) /\ Tree(T, D, cover) /\ InsertIsAt(s, k, j, T, cover) /\ T = heap
      /\ heap \subseteq Node /\ Null \notin Node
  BY <1>1, <1>2, <1>3, WalkingIs
<1>5. s \in LinksFrom(T) /\ Reaches(D[s], k, j, T, cover)
  BY <1>4, InsertLooks
<1>6. n = D[s] /\ n # Null /\ k[j] = 0 /\ Way(0, n) = "eq"
  BY <1>3, <1>5, DerefIs DEF Symbol
<1>7. n \in T /\ n \in Node
  BY <1>4, <1>5, <1>6 DEF Reaches
<1>8. Char(n) = 0
  BY <1>6, <1>7, WayKinds
<1>9. n = k /\ k \in T
  BY <1>4, <1>5, <1>6, <1>8, WordIsFound
<1> QED BY <1>3, <1>4, <1>9

(* insert walks, and adds the value to a word that it finds.               *)
LEMMA InsertWalkKeeps ==
  ASSUME TreeInv, InsertWalk
  PROVE  TreeInv'
<1>1. Inserting /\ dt = Null /\ ~Erasing /\ call # Null
  BY AllThere DEF InsertWalk, Inserting
<1>2. PICK cover : /\ Tree(InTheTree, Target, cover)
                   /\ InsertIsAt(slot, call.key, at, InTheTree, cover)
  BY <1>1 DEF TreeInv, Sits
<1>3. PICK T, D, k, j, s, n, w : T = InTheTree /\ D = Target /\ k = call.key /\ j = at /\ s = slot
                                 /\ n = Deref(slot) /\ w = Way(call.key[at], Deref(slot))
  OBVIOUS
<1>4. k \in Key /\ j \in 1..Len(k) /\ Tree(T, D, cover) /\ InsertIsAt(s, k, j, T, cover) /\ T = heap
      /\ heap \subseteq Node /\ Null \notin Node
  BY <1>1, <1>2, <1>3, WalkingIs
<1>5. s \in LinksFrom(T) /\ Reaches(D[s], k, j, T, cover)
  BY <1>4, InsertLooks
<1>6. n = D[s] /\ n # Null
  BY <1>3, <1>5, DerefIs DEF InsertWalk
<1>7. n \in T /\ n \in Node
  BY <1>4, <1>5, <1>6 DEF Reaches
<1>8. CASE k[j] = 0 /\ w = "eq"
  <2>1. node' = [node EXCEPT ![n].values = @ \cup {call.value}] /\ Return /\ UNCHANGED <<root, heap>>
    BY <1>3, <1>8 DEF InsertWalk, Symbol
  <2>3. n = k /\ k \in T
    BY <1>1, <1>3, <1>4, <1>6, <1>8, InsertFoundIs DEF Symbol
  <2>4. PICK V : V = node[n].values \cup {call.value}
    OBVIOUS
  <2>5. V \in SUBSET Value /\ V # {}
    <3>1. node[n].values \in SUBSET Value /\ call.value \in Value
      <4>1. node[n] \in NodeFields
        BY <1>7 DEF TreeInv, TreeTypeOK
      <4> QED BY <1>1, <4>1, CallIs DEF NodeFields
    <3> QED BY <2>4, <3>1
  <2>6. node' = [node EXCEPT ![n].values = V]
    BY <2>1, <2>4
  <2>7. /\ Target' = Target /\ node' \in [Node -> NodeFields]
        /\ node'[n].values = V /\ \A m \in Node : m # n => node'[m] = node[m]
    BY <1>7, <2>1, <2>5, <2>6, ValuesAside
  <2>8. \A h \in Key : h \in InTheTree => node'[h].values # {}
    BY <1>3, <1>4, <2>5, <2>7 DEF TreeInv, Filled
  <2>9. \A m \in Node \ heap : node'[m] = node[m]
    BY <1>4, <1>7, <2>7
  <2> QED BY <1>1, <1>3, <2>1, <2>3, <2>7, <2>8, <2>9, ReturnKeeps
<1>9. CASE ~(k[j] = 0 /\ w = "eq")
  <2>1. /\ slot' = <<n, w>> /\ at' = IF w = "eq" THEN j + 1 ELSE j
        /\ UNCHANGED <<root, heap, node, call, p, pp, lb, lbp, dt>>
    BY <1>3, <1>9 DEF InsertWalk, Symbol
  <2>2. /\ w \in Links /\ (IF w = "eq" THEN j + 1 ELSE j) \in 1..Len(k)
        /\ InsertIsAt(<<n, w>>, k, IF w = "eq" THEN j + 1 ELSE j, T, cover)
    <3>1. w = Way(k[j], n)
      BY <1>3
    <3> QED BY <1>4, <1>6, <1>9, <3>1, InsertGoesOn
  <2>3. /\ InTheTree' = InTheTree /\ Target' = Target /\ Inserting' /\ ~Erasing'
    BY <1>1, <2>1 DEF InTheTree, Detached, Target, Inserting, Erasing
  <2>4. TreeTypeOK'
    <3>1. slot' \in Pointer \X (Links \cup {"root"})
      BY <1>7, <2>1, <2>2 DEF Pointer
    <3>2. call' # Null => at' \in 1..Len(call'.key)
      BY <1>3, <2>1, <2>2
    <3> QED BY <2>1, <3>1, <3>2 DEF TreeInv, TreeTypeOK
  <2>5. Bare' /\ AtRest' /\ Chained' /\ Filled' /\ Kept'
    BY <1>1, <2>1, <2>3 DEF TreeInv, Bare, AtRest, Chained, Filled, Kept, KeptIn
  <2>6. Sits'
    BY <1>2, <1>3, <2>1, <2>2, <2>3 DEF Sits
  <2> QED BY <2>4, <2>5, <2>6 DEF TreeInv
<1> QED BY <1>8, <1>9

(* erase finds no such word.                                               *)
LEMMA EraseMissKeeps ==
  ASSUME TreeInv, EraseMiss
  PROVE  TreeInv'
<1>1. /\ call # Null /\ dt = Null /\ Return /\ UNCHANGED <<root, heap, node>> /\ ~Inserting
  BY AllThere DEF EraseMiss, Erasing, Inserting
<1>2. Target' = Target /\ node' \in [Node -> NodeFields]
  BY <1>1 DEF Target, TreeInv, TreeTypeOK
<1>3. \A k \in Key : k \in InTheTree => node'[k].values # {}
  BY <1>1 DEF TreeInv, Filled
<1> QED BY <1>1, <1>2, <1>3, ReturnKeeps

(* Where erase is when its walk has ended at the word.                     *)
LEMMA FoundIs ==
  ASSUME TreeInv, EraseFound
  PROVE  /\ call # Null /\ Erasing /\ dt = Null /\ ~Inserting /\ p # Null
         /\ p = call.key /\ at = Len(call.key) /\ call.key \in Key /\ call.key \in heap
         /\ p \in Node /\ node[p].values \in SUBSET Value
<1>1. Erasing /\ call # Null /\ dt = Null /\ ~Inserting
  BY AllThere DEF EraseFound, Erasing, Inserting
<1>2. PICK cover : /\ Tree(InTheTree, Target, cover)
                   /\ EraseIsAt(p, pp, lb, lbp, call.key, at, InTheTree, Target, cover)
  BY <1>1 DEF TreeInv, Sits
<1>3. PICK T, D, k, j, q : T = InTheTree /\ D = Target /\ k = call.key /\ j = at /\ q = p
  OBVIOUS
<1>4. k \in Key /\ j \in 1..Len(k) /\ Tree(T, D, cover) /\ Reaches(q, k, j, T, cover) /\ T = heap
  BY <1>1, <1>2, <1>3, WalkingIs DEF EraseIsAt
<1>5. q # Null /\ k[j] = 0 /\ Char(q) = 0
  BY <1>3 DEF EraseFound, Symbol
<1>6. j = Len(k) /\ q = k /\ k \in T /\ k \in Node
  BY <1>4, <1>5, WordIsFound
<1>7. node[k].values \in SUBSET Value
  <2>1. node[k] \in NodeFields
    BY <1>6 DEF TreeInv, TreeTypeOK
  <2> QED BY <2>1 DEF NodeFields
<1> QED BY <1>1, <1>3, <1>4, <1>5, <1>6, <1>7

(* erase leaves a word that has other values.                              *)
LEMMA EraseInUseKeeps ==
  ASSUME TreeInv, EraseInUse
  PROVE  TreeInv'
<1>1. /\ EraseFound /\ Return /\ UNCHANGED <<root, heap>>
  BY DEF EraseInUse
<1>2. PICK V : V = node[p].values \ {call.value}
  OBVIOUS
<1>3. V # {} /\ node' = [node EXCEPT ![p].values = V]
  BY <1>2 DEF EraseInUse
<1>4. PICK n : n = p
  OBVIOUS
<1>5. n \in Node /\ V \in SUBSET Value /\ n \in heap /\ n = call.key
      /\ call # Null /\ dt = Null /\ ~Inserting
  BY <1>1, <1>2, <1>4, FoundIs
<1>6. node' = [node EXCEPT ![n].values = V]
  BY <1>3, <1>4
<1>7. /\ Target' = Target /\ node' \in [Node -> NodeFields]
      /\ node'[n].values = V /\ \A m \in Node : m # n => node'[m] = node[m]
  BY <1>1, <1>5, <1>6, ValuesAside
<1>8. \A h \in Key : h \in InTheTree => node'[h].values # {}
  <2>1. InTheTree \subseteq Node
    BY AllThere
  <2> QED BY <1>3, <1>7, <2>1 DEF TreeInv, Filled
<1>9. \A m \in Node \ heap : node'[m] = node[m]
  BY <1>5, <1>7
<1> QED BY <1>1, <1>5, <1>7, <1>8, <1>9, ReturnKeeps

(* erase walks.                                                            *)
LEMMA EraseWalkKeeps ==
  ASSUME TreeInv, EraseWalk
  PROVE  TreeInv'
<1>1. Erasing /\ dt = Null /\ ~Inserting /\ call # Null /\ p # Null
  BY AllThere DEF EraseWalk, Erasing, Inserting
<1>2. PICK cover : /\ Tree(InTheTree, Target, cover)
                   /\ EraseIsAt(p, pp, lb, lbp, call.key, at, InTheTree, Target, cover)
  BY <1>1 DEF TreeInv, Sits
<1>3. PICK T, D, k, j, q, qq, b, bb, w : /\ T = InTheTree /\ D = Target /\ k = call.key /\ j = at
                                          /\ q = p /\ qq = pp /\ b = lb /\ bb = lbp
                                          /\ w = Way(call.key[at], p)
  OBVIOUS
<1>4. /\ k \in Key /\ j \in 1..Len(k) /\ Tree(T, D, cover) /\ T = heap
      /\ heap \subseteq Node /\ Null \notin Node /\ EraseIsAt(q, qq, b, bb, k, j, T, D, cover)
      /\ \A n \in Node : \A v \in Links : D[<<n, v>>] = node[n][v] /\ node[n][v] \in Pointer
  BY <1>1, <1>2, <1>3, WalkingIs
<1>5. q \in T /\ q \in Node /\ q # Null
  <2>1. Reaches(q, k, j, T, cover)
    BY <1>4 DEF EraseIsAt
  <2> QED BY <1>1, <1>3, <1>4, <2>1 DEF Reaches
<1>6. k[j] \in Nat /\ Char(q) \in Nat
  BY <1>4, <1>5, KeyIs, NodeIs
<1>7. w \in Links /\ w = Way(k[j], q) /\ (w = "eq" <=> k[j] = Char(q))
  BY <1>3, <1>5, <1>6, WayKinds
<1>8. ~(k[j] = 0 /\ w = "eq")
  BY <1>1, <1>3, <1>7 DEF EraseWalk, EraseFound, Symbol
<1>9. PICK m : m = D[<<q, w>>]
  OBVIOUS
<1>10. m = node[p][w] /\ m \in Pointer /\ (Branches(p) <=> Branched(q, D))
  BY <1>3, <1>4, <1>5, <1>7, <1>9 DEF Branches, Branched, Links
<1>11. /\ p' = m /\ pp' = q
       /\ w = "eq" => /\ at' = j + 1
                      /\ lb' = IF Branched(q, D) THEN q ELSE b
                      /\ lbp' = IF Branched(q, D) THEN qq ELSE bb
       /\ w # "eq" => lb' = m /\ lbp' = q /\ at' = j
       /\ UNCHANGED <<root, heap, node, call, slot, dt>>
  BY <1>3, <1>10 DEF EraseWalk, Symbol
<1>12. /\ w = "eq" => /\ j + 1 \in 1..Len(k)
                      /\ EraseIsAt(m, q, IF Branched(q, D) THEN q ELSE b,
                                 IF Branched(q, D) THEN qq ELSE bb, k, j + 1, T, D, cover)
       /\ w # "eq" => EraseIsAt(m, q, m, q, k, j, T, D, cover)
  BY <1>4, <1>5, <1>7, <1>8, <1>9, EraseGoesOn
<1>13. at' \in 1..Len(k) /\ EraseIsAt(p', pp', lb', lbp', k, at', T, D, cover)
  BY <1>4, <1>11, <1>12
<1>14. InTheTree' = InTheTree /\ Target' = Target /\ ~Inserting' /\ Erasing' /\ dt' = Null /\ call' # Null
  BY <1>1, <1>11 DEF InTheTree, Detached, Target, Inserting, Erasing
<1>15. TreeTypeOK'
  <2>1. {p, pp, lb, lbp, dt} \subseteq Pointer
    BY DEF TreeInv, TreeTypeOK
  <2>2. {p', pp', lb', lbp', dt'} \subseteq Pointer
    BY <1>3, <1>10, <1>11, <2>1
  <2>3. call' # Null => at' \in 1..Len(call'.key)
    BY <1>3, <1>11, <1>13
  <2> QED BY <1>11, <2>2, <2>3 DEF TreeInv, TreeTypeOK
<1>16. Bare' /\ AtRest' /\ Chained' /\ Filled' /\ Kept'
  BY <1>1, <1>11, <1>14 DEF TreeInv, Bare, AtRest, Chained, Filled, Kept, KeptIn
<1>17. Sits'
  BY <1>3, <1>4, <1>11, <1>13, <1>14 DEF Sits
<1> QED BY <1>15, <1>16, <1>17 DEF TreeInv

(* Where the link of a node leads.                                         *)
LEMMA TargetOn ==
  ASSUME NEW r \in Pointer, NEW f \in [Node -> NodeFields], NEW n \in Node, NEW w \in Links
  PROVE  TargetOf(r, f)[<<n, w>>] = f[n][w]
BY TargetIs

(* Hanging a node in: the links of the node that it hangs in.              *)
HangsIn(s, x, made, r, f, rr, g) ==
  /\ rr = IF s[1] = Null THEN x ELSE r
  /\ g = [m \in Node |-> IF m = x THEN made
                         ELSE IF m = s[1] THEN [f[m] EXCEPT ![s[2]] = x] ELSE f[m]]

(* This is what it does to the links.                                      *)
LEMMA HungIs ==
  ASSUME NEW r \in Pointer, NEW f \in [Node -> NodeFields], NEW s \in LinkAt, NEW x \in Node,
         s[1] # x, NEW made \in NodeFields, made.lo = Null, made.eq = Null, made.hi = Null,
         \A w \in Links : f[x][w] = Null,
         NEW rr, NEW g, HangsIn(s, x, made, r, f, rr, g)
  PROVE  /\ rr \in Pointer /\ g \in [Node -> NodeFields] /\ g[x] = made
         /\ \A m \in Node : m # x => g[m].values = f[m].values
         /\ \A m \in Node : m # x /\ m # s[1] => g[m] = f[m]
         /\ TargetOf(rr, g) = Hung(TargetOf(r, f), s, x)
<1>0. /\ rr = IF s[1] = Null THEN x ELSE r
      /\ \A m \in Node : g[m] = IF m = x THEN made
                                ELSE IF m = s[1] THEN [f[m] EXCEPT ![s[2]] = x] ELSE f[m]
      /\ g = [m \in Node |-> g[m]]
  BY DEF HangsIn
<1>1. Null \notin Node /\ rr \in Pointer
  BY <1>0, NodeIs DEF Pointer
<1>2. s = RootLink \/ (s[1] \in Node /\ s[2] \in Links /\ s = <<s[1], s[2]>>)
  BY DEF LinkAt
<1>3. ASSUME NEW m \in Node, m # x, m = s[1]
      PROVE  /\ g[m] \in NodeFields /\ g[m].values = f[m].values /\ g[m][s[2]] = x
             /\ \A w \in Links : w # s[2] => g[m][w] = f[m][w]
  <2>1. s[2] \in Links /\ f[m] \in NodeFields /\ x \in Pointer
    BY <1>1, <1>2, <1>3 DEF RootLink, Pointer
  <2>2. g[m] = [f[m] EXCEPT ![s[2]] = x]
    BY <1>0, <1>3
  <2>3. CASE s[2] = "lo"
    BY <2>1, <2>2, <2>3 DEF NodeFields, Links
  <2>4. CASE s[2] = "eq"
    BY <2>1, <2>2, <2>4 DEF NodeFields, Links
  <2>5. CASE s[2] = "hi"
    BY <2>1, <2>2, <2>5 DEF NodeFields, Links
  <2> QED BY <2>1, <2>3, <2>4, <2>5 DEF Links
<1>4. g[x] = made /\ \A m \in Node : m # x /\ m # s[1] => g[m] = f[m]
  BY <1>0
<1>5. g \in [Node -> NodeFields]
  <2>1. \A m \in Node : g[m] \in NodeFields
    BY <1>3, <1>4
  <2> QED BY <1>0, <2>1
<1>6. \A m \in Node : m # x => g[m].values = f[m].values
  BY <1>3, <1>4
<1>10. \A n \in Node : \A w \in Links : TargetOf(rr, g)[<<n, w>>] = g[n][w]
  BY <1>1, <1>5, TargetOn
<1>11. \A n \in Node : \A w \in Links : TargetOf(r, f)[<<n, w>>] = f[n][w]
  BY TargetOn
<1>7. ASSUME NEW l \in LinkAt
      PROVE  TargetOf(rr, g)[l] = IF l = s THEN x ELSE TargetOf(r, f)[l]
  <2>1. CASE l = RootLink
    <3>1. TargetOf(rr, g)[l] = rr /\ TargetOf(r, f)[l] = r
      BY <1>1, <1>5, <2>1, TargetIs
    <3>2. l = s <=> s[1] = Null
      BY <1>1, <1>2, <2>1 DEF RootLink
    <3> QED BY <1>0, <3>1, <3>2
  <2>2. ASSUME NEW n \in Node, NEW w \in Links, l = <<n, w>>
        PROVE  TargetOf(rr, g)[l] = IF l = s THEN x ELSE TargetOf(r, f)[l]
    <3>1. TargetOf(rr, g)[l] = g[n][w] /\ TargetOf(r, f)[l] = f[n][w]
      BY <1>10, <1>11, <2>2
    <3>2. CASE n = x
      <4>1. g[n][w] = Null /\ f[n][w] = Null
        BY <1>4, <3>2 DEF Links
      <4>2. l # s
        BY <2>2, <3>2
      <4> QED BY <3>1, <4>1, <4>2
    <3>3. CASE n # x /\ n = s[1]
      <4>1. l = s <=> w = s[2]
        BY <1>1, <1>2, <2>2, <3>3 DEF RootLink
      <4> QED BY <1>3, <3>1, <3>3, <4>1
    <3>4. CASE n # x /\ n # s[1]
      BY <1>4, <2>2, <3>1, <3>4
    <3> QED BY <3>2, <3>3, <3>4
  <2> QED BY <2>1, <2>2 DEF LinkAt
<1>8. TargetOf(rr, g) \in [LinkAt -> Pointer] /\ TargetOf(r, f) \in [LinkAt -> Pointer]
  BY <1>1, <1>5, TargetIs
<1>9. TargetOf(rr, g) = Hung(TargetOf(r, f), s, x)
  BY <1>7, <1>8 DEF Hung
<1> QED BY <1>1, <1>4, <1>5, <1>6, <1>9

(* insert makes a node: the address is free, as the proof needs and        *)
(* OnePerPrefix says.                                                      *)
LEMMA InsertBuildKeeps ==
  ASSUME TreeInv, InsertBuild
  PROVE  /\ TreeInv' /\ SubSeq(call.key, 1, at) \notin heap
         /\ InTheTree' = InTheTree \cup {Upto(call.key, at)}
         /\ \A m \in Node : m # Upto(call.key, at) => node'[m].values = node[m].values
         /\ Symbol = 0 => /\ Upto(call.key, at) = call.key /\ call.key \notin InTheTree
                          /\ node'[call.key].values = {call.value}
         /\ Symbol # 0 => Upto(call.key, at) \notin Key
<1>1. Inserting /\ dt = Null /\ ~Erasing /\ call # Null
  BY AllThere DEF InsertBuild, Inserting
<1>2. PICK cover : /\ Tree(InTheTree, Target, cover)
                   /\ InsertIsAt(slot, call.key, at, InTheTree, cover)
  BY <1>1 DEF TreeInv, Sits
<1>3. PICK T, D, k, j, s, x : T = InTheTree /\ D = Target /\ k = call.key /\ j = at /\ s = slot
                              /\ x = Upto(call.key, at)
  OBVIOUS
<1>4. /\ k \in Key /\ j \in 1..Len(k) /\ Tree(T, D, cover) /\ InsertIsAt(s, k, j, T, cover)
      /\ T = heap /\ heap \subseteq Node /\ Null \notin Node
      /\ root \in Pointer /\ node \in [Node -> NodeFields]
      /\ \A n \in Node : \A w \in Links : D[<<n, w>>] = node[n][w] /\ node[n][w] \in Pointer
  BY <1>1, <1>2, <1>3, WalkingIs
<1>5. s \in LinksFrom(T) /\ s \in LinkAt
  <2>1. T \in SUBSET Node
    BY <1>4
  <2>2. s \in LinksFrom(T)
    BY <1>4, InsertLooks
  <2> QED BY <2>1, <2>2, LinkKinds
<1>6. D[s] = Null
  BY <1>3, <1>5, DerefIs DEF InsertBuild
<1>7. x \in Node /\ Len(x) = j /\ Char(x) = k[j] /\ x = Upto(k, j)
  BY <1>3, <1>4, PrefixIs
<1>8. x \notin T => \A w \in Links : D[<<x, w>>] = Null
  <2> SUFFICES ASSUME NEW w \in Links, x \notin T PROVE D[<<x, w>>] = Null
    OBVIOUS
  <2>1. node[x] = NewNode
    BY <1>4, <1>7 DEF TreeInv, Bare
  <2>2. D[<<x, w>>] = node[x][w]
    BY <1>4, <1>7
  <2> QED BY <2>1, <2>2 DEF NewNode, Links
<1>26. Grown(T, D, k, j, s, x)
  <2>1. NextPrefix(T, D, k, j, x)
    BY <1>7, <1>8 DEF NextPrefix
  <2> QED BY <1>4, <1>6, <2>1, InsertGrows
<1>9. /\ x \notin T /\ (k[j] = 0 => x = k)
      /\ \E cov : /\ Tree(T \cup {x}, Hung(D, s, x), cov)
                  /\ k[j] # 0 => /\ j + 1 \in 1..Len(k)
                                 /\ InsertIsAt(<<x, "eq">>, k, j + 1, T \cup {x}, cov)
  BY <1>26 DEF Grown
<1>10. PICK made : made = [NewNode EXCEPT !.values = IF Symbol = 0 THEN {call.value} ELSE {}]
  OBVIOUS
<1>11. /\ made \in NodeFields /\ made.lo = Null /\ made.eq = Null /\ made.hi = Null
       /\ k[j] = 0 => made.values # {} /\ made.values = {call.value}
  <2>1. call.value \in Value
    BY <1>1, CallIs
  <2> QED BY <1>3, <1>10, <2>1 DEF NewNode, NodeFields, Pointer, Symbol
<1>12. s[1] # x
  BY <1>5, <1>7, <1>9, NodeIs DEF LinksFrom, RootLink
<1>13. /\ heap' = T \cup {x}
       /\ root' = IF s[1] = Null THEN x ELSE root
       /\ node' = [m \in Node |-> IF m = x THEN made
                                  ELSE IF m = s[1] THEN [node[m] EXCEPT ![s[2]] = x] ELSE node[m]]
       /\ k[j] = 0 => Return
       /\ k[j] # 0 => slot' = <<x, "eq">> /\ at' = j + 1 /\ UNCHANGED <<call, p, pp, lb, lbp, dt>>
  BY <1>3, <1>4, <1>10 DEF InsertBuild, Symbol, Upto
<1>25. HangsIn(s, x, made, root, node, root', node')
  BY <1>13 DEF HangsIn
<1>14. \A w \in Links : node[x][w] = Null
  BY <1>4, <1>7, <1>8, <1>9
<1>15. /\ root' \in Pointer /\ node' \in [Node -> NodeFields] /\ node'[x] = made
       /\ \A m \in Node : m # x => node'[m].values = node[m].values
       /\ \A m \in Node : m # x /\ m # s[1] => node'[m] = node[m]
       /\ TargetOf(root', node') = Hung(TargetOf(root, node), s, x)
  BY <1>4, <1>5, <1>7, <1>11, <1>12, <1>14, <1>25, HungIs
<1>16. Target' = Hung(D, s, x)
  BY <1>3, <1>15 DEF Target
<1>17. dt' = Null /\ InTheTree' = T \cup {x} /\ ~Erasing' /\ (k[j] # 0 => Inserting' /\ call' = call)
  <2>1. dt' = Null /\ ~Erasing' /\ (k[j] # 0 => Inserting' /\ call' = call)
    BY <1>1, <1>13 DEF Return, Erasing, Inserting
  <2> QED BY <1>13, <2>1 DEF InTheTree, Detached
<1>18. TreeTypeOK'
  <2>1. CASE k[j] = 0
    BY <1>4, <1>7, <1>13, <1>15, <2>1 DEF Return, TreeTypeOK, Pointer
  <2>2. CASE k[j] # 0
    <3>1. slot' \in Pointer \X (Links \cup {"root"})
      BY <1>7, <1>13, <2>2 DEF Pointer, Links
    <3>2. at' \in 1..Len(k) /\ call' = call
      BY <1>9, <1>13, <2>2
    <3> QED BY <1>3, <1>4, <1>7, <1>13, <1>15, <2>2, <3>1, <3>2 DEF TreeInv, TreeTypeOK
  <2> QED BY <2>1, <2>2
<1>19. Bare'
  <2>1. \A m \in Node \ heap' : m # x /\ m # s[1] /\ m \notin heap
    BY <1>4, <1>5, <1>13 DEF LinksFrom, RootLink
  <2> QED BY <1>15, <2>1 DEF TreeInv, Bare
<1>20. AtRest'
  BY <1>1, <1>13 DEF AtRest, Return, RootLink
<1>21. Chained'
  BY <1>17 DEF Chained
<1>22. Kept'
  <2>1. ASSUME NEW n \in T \cup {x}
        PROVE  \E h \in Key : /\ Len(n) <= Len(h) /\ n = Upto(h, Len(n))
                              /\ h \in T \cup {x} \/ (Inserting' /\ h = call'.key)
    <3>1. k \in T \cup {x} \/ (Inserting' /\ k = call'.key)
      BY <1>3, <1>9, <1>17
    <3>2. CASE n = x
      <4>1. Len(x) <= Len(k) /\ x = Upto(k, Len(x))
        BY <1>4, <1>7
      <4> QED BY <1>4, <3>1, <3>2, <4>1
    <3>3. CASE n \in T
      <4>1. PICK h \in Key : Len(n) <= Len(h) /\ n = Upto(h, Len(n)) /\ (h \in T \/ h = k)
        BY <1>1, <1>3, <3>3 DEF TreeInv, Kept, KeptIn
      <4> QED BY <3>1, <4>1
    <3> QED BY <3>2, <3>3
  <2> QED BY <1>17, <2>1 DEF Kept, KeptIn
<1>23. Filled'
  <2> SUFFICES ASSUME NEW h \in Key, h \in T \cup {x} PROVE node'[h].values # {}
    BY <1>17 DEF Filled
  <2>1. CASE h = x
    <3>1. k[j] = 0
      <4>1. Len(h) \in 1..Len(h)
        BY KeyIs
      <4>2. h[Len(h)] = 0
        BY <4>1, KeyIs
      <4> QED BY <1>7, <2>1, <4>2 DEF Char
    <3> QED BY <1>11, <1>15, <2>1, <3>1
  <2>2. CASE h # x
    BY <1>3, <1>4, <1>15, <2>2 DEF TreeInv, Filled
  <2> QED BY <2>1, <2>2
<1>24. Sits'
  <2>1. CASE k[j] = 0
    BY <1>9, <1>13, <1>16, <1>17, <2>1 DEF Sits, Return, Inserting
  <2>2. CASE k[j] # 0
    BY <1>3, <1>9, <1>13, <1>16, <1>17, <2>2 DEF Sits
  <2> QED BY <2>1, <2>2
<1>27. TreeInv'
  BY <1>18, <1>19, <1>20, <1>21, <1>22, <1>23, <1>24 DEF TreeInv
<1>28. ASSUME k[j] # 0 PROVE x \notin Key
  <2> SUFFICES ASSUME x \in Key PROVE FALSE
    OBVIOUS
  <2>1. Len(x) \in 1..Len(x)
    BY KeyIs
  <2>2. x[Len(x)] = 0
    BY <2>1, KeyIs
  <2> QED BY <1>7, <1>28, <2>2 DEF Char
<1>29. k[j] = 0 => x = k /\ node'[k].values = {call.value}
  BY <1>9, <1>11, <1>15
<1>30. SubSeq(call.key, 1, at) = x
  BY <1>3 DEF Upto
<1> QED BY <1>3, <1>4, <1>9, <1>15, <1>17, <1>27, <1>28, <1>29, <1>30 DEF Symbol

(***************************************************************************)
(* What the cut assigns                                                    *)
(***************************************************************************)
(* The nodes when one link of one of them is changed.                      *)
SetLink(f, a, w, m) == [f EXCEPT ![a][w] = m]

(* Only link w of a leads elsewhere, to m.                                 *)
LinkIsSet(f, g, a, w, m) ==
  /\ g \in [Node -> NodeFields]
  /\ \A n \in Node : /\ g[n].values = f[n].values
                     /\ n # a => g[n] = f[n]
                     /\ \A v \in Links : g[n][v] = IF n = a /\ v = w THEN m ELSE f[n][v]

(* All else is as it was.                                                  *)
LEMMA SetLinkIs ==
  ASSUME NEW f \in [Node -> NodeFields], NEW a, NEW w \in Links, NEW m \in Pointer
  PROVE  LinkIsSet(f, SetLink(f, a, w, m), a, w, m)
<1>1. PICK g : g = SetLink(f, a, w, m)
  OBVIOUS
<1>2. /\ \A n \in Node : n # a => g[n] = f[n]
      /\ a \in Node => g[a] = [f[a] EXCEPT ![w] = m]
      /\ g = [n \in Node |-> g[n]]
  BY <1>1 DEF SetLink
<1>3. ASSUME NEW n \in Node, n = a
      PROVE  /\ g[n] \in NodeFields /\ g[n].values = f[n].values
             /\ \A v \in Links : g[n][v] = IF v = w THEN m ELSE f[n][v]
  <2>1. f[n] \in NodeFields /\ g[n] = [f[n] EXCEPT ![w] = m]
    BY <1>2, <1>3
  <2>2. CASE w = "lo"
    BY <2>1, <2>2 DEF NodeFields, Links
  <2>3. CASE w = "eq"
    BY <2>1, <2>3 DEF NodeFields, Links
  <2>4. CASE w = "hi"
    BY <2>1, <2>4 DEF NodeFields, Links
  <2> QED BY <2>2, <2>3, <2>4 DEF Links
<1>4. \A n \in Node : /\ g[n] \in NodeFields /\ g[n].values = f[n].values
                      /\ n # a => g[n] = f[n]
                      /\ \A v \in Links : g[n][v] = IF n = a /\ v = w THEN m ELSE f[n][v]
  BY <1>2, <1>3
<1>5. g \in [Node -> NodeFields]
  BY <1>2, <1>4
<1> QED BY <1>1, <1>4, <1>5 DEF LinkIsSet

(* The nodes without the values of one of them.                            *)
Emptied(f, q) == [f EXCEPT ![q].values = {}]

(* No link changes.                                                        *)
LEMMA EmptiedIs ==
  ASSUME NEW f \in [Node -> NodeFields], NEW q \in Node
  PROVE  /\ Emptied(f, q) \in [Node -> NodeFields]
         /\ \A n \in Node : n # q => Emptied(f, q)[n] = f[n]
         /\ \A n \in Node : \A v \in Links : Emptied(f, q)[n][v] = f[n][v]
<1>1. PICK g : g = Emptied(f, q)
  OBVIOUS
<1>2. /\ \A n \in Node : n # q => g[n] = f[n]
      /\ g[q] = [f[q] EXCEPT !.values = {}]
      /\ g = [n \in Node |-> g[n]] /\ f[q] \in NodeFields
  BY <1>1 DEF Emptied
<1>3. g[q] \in NodeFields /\ \A v \in Links : g[q][v] = f[q][v]
  BY <1>2 DEF NodeFields, Links
<1>4. g \in [Node -> NodeFields]
  BY <1>2, <1>3
<1> QED BY <1>1, <1>2, <1>3, <1>4

(* What erase makes of the nodes.                                          *)
Relinked(f, q, br, pa, link, heir) ==
  IF br = Null \/ pa = Null THEN Emptied(f, q) ELSE SetLink(Emptied(f, q), pa, link, heir)

(* The cut with the lo of the branch hung at the left end e of its hi.     *)
Rehung(f, q, br, pa, link, heir, less, more, e) ==
  IF br # Null /\ less # Null /\ more # Null
  THEN SetLink(Relinked(f, q, br, pa, link, heir), e, "lo", less)
  ELSE Relinked(f, q, br, pa, link, heir)

(* The same, told field by field.                                          *)
RehungTo(f, q, br, pa, link, heir, less, more, e, g) ==
  /\ g \in [Node -> NodeFields]
  /\ \A n \in Node :
       /\ n # q => g[n].values = f[n].values
       /\ n # q /\ (br # Null => n # pa)
            /\ (br # Null /\ less # Null /\ more # Null => n # e) => g[n] = f[n]
       /\ \A v \in Links :
            g[n][v] = IF br # Null /\ less # Null /\ more # Null /\ n = e /\ v = "lo" THEN less
                      ELSE IF br # Null /\ pa # Null /\ n = pa /\ v = link THEN heir
                      ELSE f[n][v]

(* Field by field.                                                         *)
LEMMA RehungIs ==
  ASSUME NEW f \in [Node -> NodeFields], NEW q \in Node, NEW br, NEW pa, NEW link \in Links,
         NEW heir \in Pointer, NEW less \in Pointer, NEW more, NEW e,
         NEW g, g = Rehung(f, q, br, pa, link, heir, less, more, e)
  PROVE  RehungTo(f, q, br, pa, link, heir, less, more, e, g)
<1>1. PICK f1, f2 : f1 = Emptied(f, q) /\ f2 = Relinked(f, q, br, pa, link, heir)
  OBVIOUS
<1>2. /\ f1 \in [Node -> NodeFields]
      /\ \A n \in Node : n # q => f1[n] = f[n]
      /\ \A n \in Node : \A v \in Links : f1[n][v] = f[n][v]
  BY <1>1, EmptiedIs
<1>3. /\ f2 \in [Node -> NodeFields]
      /\ \A n \in Node :
           /\ f2[n].values = f1[n].values
           /\ (br # Null => n # pa) => f2[n] = f1[n]
           /\ \A v \in Links : f2[n][v] = IF br # Null /\ pa # Null /\ n = pa /\ v = link THEN heir
                                          ELSE f1[n][v]
  <2>1. CASE br = Null \/ pa = Null
    BY <1>1, <1>2, <2>1 DEF Relinked
  <2>2. CASE ~(br = Null \/ pa = Null)
    <3>1. f2 = SetLink(f1, pa, link, heir)
      BY <1>1, <2>2 DEF Relinked
    <3>2. LinkIsSet(f1, f2, pa, link, heir)
      BY <1>2, <3>1, SetLinkIs
    <3> QED BY <2>2, <3>2 DEF LinkIsSet
  <2> QED BY <2>1, <2>2
<1>4. "lo" \in Links
  BY DEF Links
<1>5. /\ g \in [Node -> NodeFields]
      /\ \A n \in Node :
           /\ g[n].values = f2[n].values
           /\ (br # Null /\ less # Null /\ more # Null => n # e) => g[n] = f2[n]
           /\ \A v \in Links :
                g[n][v] = IF br # Null /\ less # Null /\ more # Null /\ n = e /\ v = "lo" THEN less
                          ELSE f2[n][v]
  <2>1. CASE ~(br # Null /\ less # Null /\ more # Null)
    BY <1>1, <1>3, <2>1 DEF Rehung
  <2>2. CASE br # Null /\ less # Null /\ more # Null
    <3>1. g = SetLink(f2, e, "lo", less)
      BY <1>1, <2>2 DEF Rehung
    <3>2. LinkIsSet(f2, g, e, "lo", less)
      BY <1>3, <1>4, <3>1, SetLinkIs
    <3> QED BY <2>2, <3>2 DEF LinkIsSet
  <2> QED BY <2>1, <2>2
<1> QED BY <1>2, <1>3, <1>5 DEF RehungTo

(***************************************************************************)
(* EraseCut and EraseFree keep it                                          *)
(***************************************************************************)
(* The loop along the lo links is the function above.                      *)
LEMMA LeftEndIs ==
  ASSUME TreeInv, call # Null, dt = Null, NEW more
  PROVE  \E f : /\ (\E g : g = LeftFrom(g, Target)) => f = LeftFrom(f, Target)
                /\ LeftEnd(more) = f[more]
<1> DEFINE F(g) == [m \in Node |-> IF node[m].lo = Null THEN m ELSE g[node[m].lo]]
<1>1. ASSUME NEW g PROVE LeftFrom(g, Target) = F(g)
  <2>1. \A m \in Node : Target[<<m, "lo">>] = node[m].lo
    BY WalkingIs DEF Links
  <2> QED BY <2>1 DEF LeftFrom
<1>2. PICK f : f = CHOOSE g : g = F(g)
  OBVIOUS
<1>3. LeftEnd(more) = f[more]
  BY <1>2 DEF LeftEnd
<1>4. (\E g : g = F(g)) => f = F(f)
  <2> HIDE DEF F
  <2> QED BY <1>2
<1> HIDE DEF F
<1> QED BY <1>1, <1>3, <1>4

(* The link that erase takes to be the one of the branch is the one.       *)
LEMMA LinkIsIt ==
  ASSUME NEW T, NEW D, NEW cover, Tree(T, D, cover), NEW pa \in T, NEW br, br # Null,
         NEW w, <<pa, w>> \in LinksFrom(T), D[<<pa, w>>] = br,
         NEW link, link = IF D[<<pa, "lo">>] = br THEN "lo"
                          ELSE IF D[<<pa, "hi">>] = br THEN "hi" ELSE "eq"
  PROVE  link = w /\ w \in Links
<1>1. w \in Links
  <2>1. pa # Null
    BY NodeIs DEF Tree
  <2> QED BY <2>1 DEF LinksFrom, RootLink
<1>2. \A v \in Links : D[<<pa, v>>] = br => v = w
  <2> SUFFICES ASSUME NEW v \in Links, D[<<pa, v>>] = br PROVE v = w
    OBVIOUS
  <2>1. <<pa, v>> \in LinksFrom(T)
    BY DEF LinksFrom
  <2>2. <<pa, v>> = <<pa, w>>
    BY <2>1 DEF Tree, OneLink
  <2> QED BY <2>2
<1> QED BY <1>1, <1>2 DEF Links

(* When the chain is cut out: what all of the cuts have in common.         *)
CutTo(T, k, i, f, g) ==
  /\ i \in 1..Len(k) /\ Chain(k, i) \subseteq T /\ k \in Chain(k, i)
  /\ dt' = Upto(k, i) /\ dt' \in Pointer /\ lb' \in Pointer /\ lbp' \in Pointer
  /\ ChainLinks(k, i, g)
  /\ \A n \in Chain(k, i) : \A w \in {"lo", "hi"} : g[n][w] \in (T \ Chain(k, i)) \cup {Null}
  /\ \A n \in Node \ {k} : g[n].values = f[n].values
  /\ \A n \in Node \ T : g[n] = f[n]
  /\ \A n \in T \ Chain(k, i) : \E h \in Key : /\ h \in T \ Chain(k, i)
                                               /\ Len(n) <= Len(h) /\ n = Upto(h, Len(n))
  /\ root' \in Pointer /\ g \in [Node -> NodeFields]
  /\ \E cov : Tree(T \ Chain(k, i), TargetOf(root', g), cov)

(* What any of them keeps.                                                 *)
LEMMA CutKeeps ==
  ASSUME TreeInv, EraseFound, UNCHANGED <<heap, call, at, slot, p, pp>>,
         NEW i, CutTo(heap, call.key, i, node, node')
  PROVE  TreeInv' /\ InTheTree' = heap \ Chain(call.key, i)
<1>1. PICK k, C : k = call.key /\ C = Chain(call.key, i)
  OBVIOUS
<1>2. /\ call # Null /\ Erasing /\ ~Inserting /\ dt = Null /\ k \in Key
      /\ InTheTree = heap /\ heap \subseteq Node /\ Null \notin Node
  BY <1>1, FoundIs, WalkingIs
<1>3. /\ i \in 1..Len(k) /\ C \subseteq heap /\ k \in C
      /\ dt' = Upto(k, i) /\ dt' \in Pointer /\ lb' \in Pointer /\ lbp' \in Pointer
      /\ ChainLinks(k, i, node')
      /\ \A n \in C : \A w \in {"lo", "hi"} : node'[n][w] \in (heap \ C) \cup {Null}
      /\ \A n \in Node \ {k} : node'[n].values = node[n].values
      /\ \A n \in Node \ heap : node'[n] = node[n]
      /\ \A n \in heap \ C : \E h \in Key : /\ h \in heap \ C
                                            /\ Len(n) <= Len(h) /\ n = Upto(h, Len(n))
      /\ root' \in Pointer /\ node' \in [Node -> NodeFields]
      /\ \E cov : Tree(heap \ C, TargetOf(root', node'), cov)
  BY <1>1 DEF CutTo
<1>4. dt' \in Node /\ dt' # Null /\ Len(dt') = i
  BY <1>2, <1>3, PrefixIs
<1>5. Detached' = C /\ InTheTree' = heap \ C /\ Erasing' /\ ~Inserting' /\ call' = call
  <2>1. Erasing' /\ ~Inserting' /\ call' = call
    BY <1>2 DEF Erasing, Inserting
  <2>2. Detached' = C
    BY <1>1, <1>4, <2>1 DEF Detached, Chain, Upto
  <2> QED BY <2>1, <2>2 DEF InTheTree
<1>6. TreeTypeOK'
  BY <1>3, <1>5 DEF TreeInv, TreeTypeOK
<1>7. Bare'
  BY <1>3 DEF TreeInv, Bare
<1>8. AtRest'
  BY <1>2, <1>5 DEF AtRest
<1>9. Chained'
  BY <1>1, <1>3, <1>4, <1>5 DEF Chained
<1>10. Kept'
  BY <1>3, <1>5 DEF Kept, KeptIn
<1>11. Filled'
  BY <1>2, <1>3, <1>5 DEF TreeInv, Filled
<1>12. Sits'
  BY <1>3, <1>4, <1>5 DEF Sits, Target
<1> QED BY <1>1, <1>5, <1>6, <1>7, <1>8, <1>9, <1>10, <1>11, <1>12 DEF TreeInv

(* The word is the only one: all that there is is cut out.                 *)
LEMMA CutAll ==
  ASSUME NEW T, NEW D, NEW cover, Tree(T, D, cover), NEW k \in Key,
         NEW q, NEW qq, NEW bb, EraseIsAt(q, qq, Null, bb, k, Len(k), T, D, cover),
         q = k, k \in T, ~Branched(k, D)
  PROVE  /\ Chain(k, 1) = T /\ D[RootLink] = Upto(k, 1) /\ 1 \in 1..Len(k)
         /\ \A x \in 1..Len(k) :
              D[<<Upto(k, x), "eq">>] = IF x = Len(k) THEN Null ELSE Upto(k, x + 1)
         /\ \A n \in T : \A w \in {"lo", "hi"} : D[<<n, w>>] = Null
<1>1. /\ k # Null /\ Len(k) \in Nat \ {0} /\ 1 \in 1..Len(k) /\ 0 \in 0..1
  <2>1. k # Null
    BY NodeIs DEF Tree
  <2>2. Len(k) \in Nat \ {0}
    BY KeyIs
  <2> QED BY <2>1, <2>2
<1>2. cover[k] = Nat /\ OnlyKey(k, 0, Len(k), T)
  BY <1>1 DEF EraseIsAt
<1>3. T = Chain(k, 1) /\ D[RootLink] = Upto(k, 1)
  BY <1>2, WordIsAlone
<1>4. \A x \in 1..Len(k) :
        D[<<Upto(k, x), "eq">>] = IF x = Len(k) THEN Null ELSE Upto(k, x + 1)
  BY <1>1, <1>2, ChainIs
<1>5. ASSUME NEW n \in T, NEW w \in {"lo", "hi"} PROVE D[<<n, w>>] = Null
  <2>1. PICK C : C = Chain(k, 1)
    OBVIOUS
  <2>2. C \in SUBSET T /\ n \in C /\ T \ C = {}
    BY <1>3, <2>1
  <2>3. D[<<n, w>>] \in (T \ C) \cup {Null}
    BY <1>1, <2>1, <2>2, BesidesChain
  <2> QED BY <2>2, <2>3
<1> QED BY <1>1, <1>3, <1>4, <1>5

(* EraseCut cuts a chain out of the tree.                                  *)
LEMMA EraseCutIs ==
  ASSUME TreeInv, EraseCut
  PROVE  \E i : CutTo(heap, call.key, i, node, node')
<1>1. EraseFound /\ UNCHANGED <<heap, call, at, slot, p, pp>>
  BY DEF EraseCut
<1>2. PICK k : k = call.key
  OBVIOUS
<1>3. /\ call # Null /\ Erasing /\ ~Inserting /\ dt = Null /\ p = k /\ p # Null /\ at = Len(k)
      /\ k \in Key /\ k \in heap /\ k \in Node /\ InTheTree = heap /\ heap \subseteq Node
      /\ Null \notin Node /\ root \in Pointer /\ node \in [Node -> NodeFields]
      /\ node[p].values \in SUBSET Value
  BY <1>1, <1>2, FoundIs, WalkingIs
<1>4. PICK cover : /\ Tree(InTheTree, Target, cover)
                   /\ EraseIsAt(p, pp, lb, lbp, call.key, at, InTheTree, Target, cover)
  BY <1>3 DEF TreeInv, Sits
<1>5. PICK T, D, qq, b, bb : T = InTheTree /\ D = Target /\ qq = pp /\ b = lb /\ bb = lbp
  OBVIOUS
<1>6. /\ Tree(T, D, cover) /\ EraseIsAt(k, qq, b, bb, k, Len(k), T, D, cover) /\ T = heap /\ k \in T
      /\ D[RootLink] = root
      /\ \A n \in Node : \A w \in Links : D[<<n, w>>] = node[n][w] /\ node[n][w] \in Pointer
  BY <1>2, <1>3, <1>4, <1>5, WalkingIs
<1>7. PICK br, pa : /\ br = IF Branches(p) THEN p ELSE lb
                    /\ pa = IF Branches(p) THEN pp ELSE lbp
  OBVIOUS
<1>8. Branches(p) <=> Branched(k, D)
  BY <1>3, <1>6 DEF Branches, Branched, Links
<1>9. br = (IF Branched(k, D) THEN k ELSE b) /\ pa = IF Branched(k, D) THEN qq ELSE bb
  BY <1>3, <1>5, <1>7, <1>8
<1>10. /\ dt' = IF br = Null THEN root ELSE br
       /\ lb' = br /\ lbp' = pa /\ br \in Pointer /\ pa \in Pointer
  <2>1. {p, pp, lb, lbp} \subseteq Pointer
    BY DEF TreeInv, TreeTypeOK
  <2> QED BY <1>7, <2>1 DEF EraseCut
<1>11. CASE br = Null
  <2>1. root' = Null /\ node' = Emptied(node, k) /\ dt' = root
    BY <1>3, <1>7, <1>10, <1>11 DEF EraseCut, Emptied
  <2>2. b = Null /\ ~Branched(k, D)
    BY <1>3, <1>9, <1>11
  <2>3. /\ Chain(k, 1) = T /\ D[RootLink] = Upto(k, 1) /\ 1 \in 1..Len(k)
        /\ \A x \in 1..Len(k) :
             D[<<Upto(k, x), "eq">>] = IF x = Len(k) THEN Null ELSE Upto(k, x + 1)
        /\ \A n \in T : \A w \in {"lo", "hi"} : D[<<n, w>>] = Null
    BY <1>3, <1>6, <2>2, CutAll
  <2>4. /\ node' \in [Node -> NodeFields]
        /\ \A n \in Node : n # k => node'[n] = node[n]
        /\ \A n \in Node : \A v \in Links : node'[n][v] = node[n][v]
    BY <1>3, <2>1, EmptiedIs
  <2>5. ChainLinks(k, 1, node')
    <3>1. ASSUME NEW x \in 1..Len(k)
          PROVE node'[Upto(k, x)].eq = IF x = Len(k) THEN Null ELSE Upto(k, x + 1)
      <4>1. Upto(k, x) \in Node
        BY <1>3, PrefixIs
      <4>2. node'[Upto(k, x)].eq = D[<<Upto(k, x), "eq">>]
        BY <1>6, <2>4, <4>1 DEF Links
      <4> QED BY <2>3, <4>2
    <3> QED BY <3>1 DEF ChainLinks
  <2>6. \A n \in T : \A w \in {"lo", "hi"} : node'[n][w] = Null
    <3>1. T \subseteq Node
      BY <1>3, <1>6
    <3>2. ASSUME NEW n \in T, NEW w \in {"lo", "hi"} PROVE node'[n][w] = Null
      <4>1. n \in Node /\ w \in Links
        BY <3>1 DEF Links
      <4>2. node'[n][w] = D[<<n, w>>]
        BY <1>6, <2>4, <4>1
      <4> QED BY <2>3, <4>2
    <3> QED BY <3>2
  <2>7. \E cov : Tree({}, TargetOf(root', node'), cov)
    <3>1. root' \in Pointer
      BY <2>1 DEF Pointer
    <3>2. TargetOf(root', node') \in [LinkAt -> Pointer] /\ TargetOf(root', node')[RootLink] = root'
      BY <2>4, <3>1, TargetIs
    <3> QED BY <2>1, <3>2, NoTree
  <2>8. T \ Chain(k, 1) = {} /\ root \in Pointer /\ root' \in Pointer
    BY <1>3, <2>1, <2>3 DEF Pointer
  <2>9. CutTo(T, k, 1, node, node')
    BY <1>3, <1>6, <1>10, <2>1, <2>3, <2>4, <2>5, <2>6, <2>7, <2>8 DEF CutTo
  <2> QED BY <1>2, <1>6, <2>9
<1>12. CASE br # Null
  <2>1. PICK i, C : i = Len(br) /\ C = Chain(k, i)
    OBVIOUS
  <2>2. k # Null /\ Char(k) = 0 /\ k[Len(k)] = 0 /\ Len(k) \in 1..Len(k)
    <3>1. Len(k) \in 1..Len(k)
      BY <1>3, KeyIs
    <3>2. k[Len(k)] = 0
      BY <1>3, <3>1, KeyIs
    <3> QED BY <1>3, <3>1, <3>2 DEF Char
  <2>3. /\ i \in 1..Len(k) /\ br = Upto(k, i) /\ C \in SUBSET T /\ br \in C
        /\ \A x \in i..Len(k) :
             /\ Upto(k, x) \in T
             /\ D[<<Upto(k, x), "eq">>] = IF x = Len(k) THEN Null ELSE Upto(k, x + 1)
             /\ x > i => ~Branched(Upto(k, x), D)
        /\ \E w \in Links \cup {"root"} :
             /\ <<pa, w>> \in LinksFrom(T \ C) /\ D[<<pa, w>>] = br
             /\ w \in {"lo", "hi"} \/ Branched(br, D)
    <3>1. CutReady(T, D, k, br, pa, i, C)
      BY <1>3, <1>6, <1>9, <1>12, <2>1, <2>2, CutIsReady
    <3> QED BY <3>1 DEF CutReady
  <2>4. PICK w \in Links \cup {"root"} :
             /\ <<pa, w>> \in LinksFrom(T \ C) /\ D[<<pa, w>>] = br
             /\ w \in {"lo", "hi"} \/ Branched(br, D)
    BY <2>3
  <2>5. PICK less, more, heir : /\ less = D[<<br, "lo">>] /\ more = D[<<br, "hi">>]
                                /\ heir = IF more # Null THEN more ELSE less
    OBVIOUS
  <2>6. /\ br \in T /\ br \in Node /\ T \in SUBSET Node
        /\ less = node[br].lo /\ more = node[br].hi
        /\ less \in Pointer /\ more \in Pointer /\ heir \in Pointer
    BY <1>3, <1>6, <2>3, <2>5 DEF Links
  <2>7. PICK link : link = IF D[<<pa, "lo">>] = br THEN "lo"
                           ELSE IF D[<<pa, "hi">>] = br THEN "hi" ELSE "eq"
    OBVIOUS
  <2>8. link \in Links /\ (pa # Null => link = w /\ pa \in T /\ pa \in Node /\ pa \notin C)
        /\ (pa = Null => <<pa, w>> = RootLink)
    <3>1. link \in Links
      BY <2>7 DEF Links
    <3>2. pa = Null => <<pa, w>> = RootLink
      BY <1>3, <2>4, <2>6 DEF LinksFrom
    <3>3. ASSUME pa # Null PROVE link = w /\ pa \in T /\ pa \in Node /\ pa \notin C
      <4>1. pa \in T \ C /\ <<pa, w>> \in LinksFrom(T)
        BY <2>4, <3>3 DEF LinksFrom, RootLink
      <4>2. link = w
        BY <1>6, <1>12, <2>4, <2>7, <4>1, LinkIsIt
      <4> QED BY <2>6, <4>1, <4>2
    <3> QED BY <3>1, <3>2, <3>3
  <2>9. PICK f, e : /\ (\E g : g = LeftFrom(g, D)) => f = LeftFrom(f, D)
                    /\ e = f[more] /\ e = LeftEnd(more)
    BY <1>3, <1>5, LeftEndIs
  <2>10. /\ root' = IF pa = Null THEN heir ELSE root
         /\ dt' = br
         /\ node' = Rehung(node, k, br, pa, link, heir, less, more, e)
    <3>1. root' = IF pa = Null THEN heir ELSE root
      BY <1>7, <1>12, <2>5, <2>6 DEF EraseCut
    <3>2. pa # Null => link = IF node[pa].lo = br THEN "lo" ELSE IF node[pa].hi = br THEN "hi" ELSE "eq"
      BY <1>6, <2>7, <2>8 DEF Links
    <3> DEFINE Br == IF Branches(p) THEN p ELSE lb
               Pa == IF Branches(p) THEN pp ELSE lbp
               Less == node[Br].lo
               More == node[Br].hi
               Heir == IF More # Null THEN More ELSE Less
               Link == IF node[Pa].lo = Br THEN "lo" ELSE IF node[Pa].hi = Br THEN "hi" ELSE "eq"
    <3>3. node' = Rehung(node, p, Br, Pa, Link, Heir, Less, More, LeftEnd(More))
      BY DEF EraseCut, Rehung, Relinked, SetLink, Emptied
    <3>4. Br = br /\ Pa = pa
      BY <1>7
    <3>5. Less = less /\ More = more /\ Heir = heir
      BY <2>5, <2>6, <3>4
    <3>6. pa # Null => Link = link
      BY <3>2, <3>4
    <3>7. PICK link2 : link2 = Link /\ (pa # Null => link2 = link)
      BY <3>6
    <3> HIDE DEF Br, Pa, Less, More, Heir, Link
    <3>8. node' = Rehung(node, k, br, pa, link2, heir, less, more, e)
      BY <1>3, <2>9, <3>3, <3>4, <3>5, <3>7
    <3>9. Relinked(node, k, br, pa, link2, heir) = Relinked(node, k, br, pa, link, heir)
      BY <3>7 DEF Relinked
    <3>10. node' = Rehung(node, k, br, pa, link, heir, less, more, e)
      BY <3>8, <3>9 DEF Rehung
    <3> QED BY <1>10, <1>12, <3>1, <3>10
  <2>11. PICK E : E = TargetOf(root', node')
    OBVIOUS
  <2>12. /\ node' \in [Node -> NodeFields]
         /\ \A n \in Node :
              /\ n # k => node'[n].values = node[n].values
              /\ n # k /\ n # pa /\ (less # Null /\ more # Null => n # e) => node'[n] = node[n]
              /\ \A v \in Links :
                   node'[n][v] = IF less # Null /\ more # Null /\ n = e /\ v = "lo" THEN less
                                 ELSE IF pa # Null /\ n = pa /\ v = link THEN heir
                                 ELSE node[n][v]
    <3>1. RehungTo(node, k, br, pa, link, heir, less, more, e, node')
      BY <1>3, <2>6, <2>8, <2>10, RehungIs
    <3> QED BY <1>12, <3>1 DEF RehungTo
  <2>13. root' \in Pointer
    BY <1>3, <2>6, <2>10
  <2>14. /\ E \in [LinkAt -> Pointer] /\ E[RootLink] = root'
         /\ \A n \in Node : \A v \in Links : E[<<n, v>>] = node'[n][v]
    BY <2>11, <2>12, <2>13, TargetIs
  <2>15. ASSUME NEW l \in LinksFrom(T \ C)
         PROVE  E[l] = IF less # Null /\ more # Null /\ l = <<e, "lo">> THEN less
                       ELSE IF l = <<pa, w>> THEN heir ELSE D[l]
    <3>1. CASE l = RootLink
      <4>1. l # <<e, "lo">>
        BY <3>1 DEF RootLink
      <4>2. l = <<pa, w>> <=> pa = Null
        BY <2>8, <3>1 DEF RootLink
      <4> QED BY <1>6, <2>10, <2>14, <3>1, <4>1, <4>2
    <3>2. ASSUME NEW n \in T \ C, NEW v \in Links, l = <<n, v>>
          PROVE  E[l] = IF less # Null /\ more # Null /\ l = <<e, "lo">> THEN less
                        ELSE IF l = <<pa, w>> THEN heir ELSE D[l]
      <4>1. n \in Node /\ n # Null
        BY <1>3, <2>6
      <4>2. E[l] = node'[n][v] /\ D[l] = node[n][v]
        BY <1>6, <2>14, <3>2, <4>1
      <4>3. l = <<e, "lo">> <=> n = e /\ v = "lo"
        BY <3>2
      <4>4. l = <<pa, w>> <=> pa # Null /\ n = pa /\ v = link
        BY <2>8, <3>2, <4>1
      <4> QED BY <2>12, <4>1, <4>2, <4>3, <4>4
    <3> QED BY <3>1, <3>2 DEF LinksFrom
  <2>16. PICK N \in Nat : \E r \in [Pointer -> 0..N] : Descends(r, N, D)
    <3>1. \A n \in Node \ T : \A v \in Links : D[<<n, v>>] = Null
      <4> SUFFICES ASSUME NEW n \in Node \ T, NEW v \in Links PROVE D[<<n, v>>] = Null
        OBVIOUS
      <4>1. node[n] = NewNode
        BY <1>6 DEF TreeInv, Bare
      <4>2. D[<<n, v>>] = node[n][v]
        BY <1>6
      <4> QED BY <4>1, <4>2 DEF NewNode, Links
    <3>2. PICK X : X = {}
      OBVIOUS
    <3>3. /\ X \in SUBSET Node
          /\ \A n \in X : \A v \in {"lo", "hi"} : D[<<n, v>>] \in T \cup {Null}
          /\ \A n \in Node \ (T \cup X) : \A v \in Links : D[<<n, v>>] = Null
      BY <3>1, <3>2
    <3> QED BY <1>6, <3>3, LevelsEnd
  <2>17. PICK r : Descends(r, N, D)
    BY <2>16
  <2>18. (\E cov : Tree(T \ C, E, cov)) /\ (less # Null /\ more # Null => e \in T)
    <3>1. Len(k) \in 1..Len(k) /\ k[Len(k)] = 0 /\ Char(k) = 0 /\ k # Null
      BY <2>2
    <3>2. CutDone(T, D, k, br, pa, w, i, C, less, more, heir, f, e, E)
      BY <2>1, <2>4, <2>5, <2>9, <2>14, <2>15 DEF CutDone
    <3>3. CutLeaves(T, C, less, more, e, E)
      BY <1>3, <1>6, <1>9, <1>12, <2>17, <3>1, <3>2, EraseCuts
    <3> QED BY <3>3 DEF CutLeaves
  <2>19. ChainLinks(k, i, node')
    <3>1. ASSUME NEW x \in i..Len(k)
          PROVE  node'[Upto(k, x)].eq = IF x = Len(k) THEN Null ELSE Upto(k, x + 1)
      <4>1. Upto(k, x) \in T /\ Upto(k, x) \in C /\ Upto(k, x) \in Node
        BY <2>1, <2>3, <2>6 DEF Chain
      <4>2. Upto(k, x) # pa \/ pa = Null
        BY <2>8, <4>1
      <4>3. node'[Upto(k, x)].eq = node[Upto(k, x)].eq
        BY <2>12, <4>1, <4>2 DEF Links
      <4>4. node[Upto(k, x)].eq = D[<<Upto(k, x), "eq">>]
        BY <1>6, <4>1 DEF Links
      <4> QED BY <2>3, <4>3, <4>4
    <3> QED BY <3>1 DEF ChainLinks
  <2>20. ASSUME NEW n \in C, NEW v \in {"lo", "hi"} PROVE node'[n][v] \in (T \ C) \cup {Null}
    <3>1. C \in SUBSET T /\ C = Chain(k, i) /\ br \in C /\ i \in 1..Len(k) /\ k \in Key
          /\ Tree(T, D, cover)
      BY <1>3, <1>6, <2>1, <2>3
    <3>2. D[<<n, v>>] \in (T \ C) \cup {Null}
      BY <3>1, BesidesChain
    <3>6. D[<<br, "lo">>] \in (T \ C) \cup {Null}
      BY <3>1, BesidesChain
    <3>3. n \in Node /\ v \in Links
      BY <2>3, <2>6 DEF Links
    <3>4. node'[n][v] = less \/ node'[n][v] = node[n][v]
      BY <2>8, <2>12, <3>3
    <3>5. node[n][v] = D[<<n, v>>]
      BY <1>6, <3>3
    <3> QED BY <2>5, <3>2, <3>4, <3>5, <3>6
  <2>21. \A n \in Node \ T : node'[n] = node[n]
    BY <1>3, <1>6, <2>8, <2>12, <2>18
  <2>22. ASSUME NEW n \in T \ C
         PROVE  \E h \in Key : h \in T \ C /\ Len(n) <= Len(h) /\ n = Upto(h, Len(n))
    <3>1. \A m \in T : Stays(m, T)
      BY <1>3, <1>5 DEF TreeInv, Kept, KeptIn, Stays
    <3>2. Stays(n, T \ C)
      BY <1>3, <1>6, <2>1, <2>3, <2>4, <3>1, OthersKept
    <3> QED BY <3>2 DEF Stays
  <2>23. k \in C
    <3>1. Upto(k, Len(k)) = k /\ Len(k) \in i..Len(k)
      <4>1. Len(k) \in Nat
        BY <1>3, KeyIs
      <4> QED BY <1>3, <2>3, <4>1, WholeWord
    <3> QED BY <2>1, <3>1 DEF Chain
  <2>24. \A n \in Node \ {k} : node'[n].values = node[n].values
    BY <2>12
  <2>25. CutTo(T, k, i, node, node')
    BY <1>10, <2>1, <2>3, <2>10, <2>11, <2>12, <2>13, <2>18, <2>19, <2>20, <2>21, <2>22, <2>23, <2>24
       DEF CutTo
  <2> QED BY <1>2, <1>6, <2>25
<1> QED BY <1>11, <1>12

(* The chain is cut out.                                                   *)
LEMMA EraseCutKeeps ==
  ASSUME TreeInv, EraseCut
  PROVE  TreeInv'
<1>1. EraseFound /\ UNCHANGED <<heap, call, at, slot, p, pp>>
  BY DEF EraseCut
<1>2. PICK i : CutTo(heap, call.key, i, node, node')
  BY EraseCutIs
<1> QED BY <1>1, <1>2, CutKeeps

(* The chain without its head.                                             *)
LEMMA ChainGoesOn ==
  ASSUME NEW k \in Key, NEW i \in 1..Len(k)
  PROVE  /\ i = Len(k) => Chain(k, i) = {Upto(k, i)}
         /\ i # Len(k) => /\ i + 1 \in 1..Len(k) /\ Len(Upto(k, i + 1)) = i + 1
                          /\ Chain(k, i + 1) = Chain(k, i) \ {Upto(k, i)}
         /\ Upto(k, i) \in Chain(k, i)
<1>1. PICK L : L = Len(k)
  OBVIOUS
<1>2. L \in Nat \ {0} /\ i \in 1..L /\ i \in Nat
  BY <1>1, KeyIs
<1>3. \A x \in 1..L : Len(Upto(k, x)) = x
  BY <1>1, PrefixIs
<1>4. i = L => i..L = {i}
  BY <1>2
<1>5. ASSUME i # L PROVE i + 1 \in 1..L /\ \A x : x \in (i + 1)..L <=> x \in i..L /\ x # i
  BY <1>2, <1>5
<1>6. ASSUME i # L PROVE Chain(k, i + 1) = Chain(k, i) \ {Upto(k, i)}
  <2>1. \A x \in i..L : x \in 1..L
    BY <1>2
  <2>2. \A x \in i..L : Upto(k, x) = Upto(k, i) => x = i
    BY <1>2, <1>3, <2>1
  <2> QED BY <1>1, <1>5, <1>6, <2>2 DEF Chain
<1>7. i \in i..L
  BY <1>2
<1> QED BY <1>1, <1>3, <1>4, <1>5, <1>6, <1>7 DEF Chain

(* A word in a chain is the word that the chain is of.                     *)
LEMMA ChainKey ==
  ASSUME NEW k \in Key, NEW i \in 1..Len(k), NEW h \in Key, h \in Chain(k, i)
  PROVE  h = k
<1>1. PICK L : L = Len(k)
  OBVIOUS
<1>2. L \in Nat \ {0} /\ i \in 1..L /\ i \in Nat
  BY <1>1, KeyIs
<1>3. PICK x \in i..L : h = Upto(k, x)
  BY <1>1 DEF Chain
<1>4. x \in 1..L
  BY <1>2
<1>5. Char(h) = k[x]
  BY <1>1, <1>3, <1>4, PrefixIs
<1>6. Char(h) = 0
  <2>1. Len(h) \in Nat \ {0} /\ \A y \in 1..Len(h) : h[y] = 0 <=> y = Len(h)
    BY KeyIs
  <2>2. Len(h) \in 1..Len(h)
    BY <2>1
  <2> QED BY <2>1, <2>2 DEF Char
<1>7. x = L
  BY <1>1, <1>4, <1>5, <1>6, KeyIs
<1> QED BY <1>1, <1>3, <1>7, WholeWord

(* A node of the chain is deleted.                                         *)
LEMMA EraseFreeKeeps ==
  ASSUME TreeInv, EraseFree
  PROVE  TreeInv' /\ InTheTree' = InTheTree /\ \A n \in InTheTree : node'[n] = node[n]
<1>1. PICK k, i, C, T : k = call.key /\ i = Len(dt) /\ C = Chain(k, i) /\ T = InTheTree
  OBVIOUS
<1>2. /\ Erasing /\ dt # Null /\ call # Null /\ ~Inserting
      /\ heap' = heap \ {dt} /\ node' = [node EXCEPT ![dt] = NewNode] /\ root' = root
  BY DEF EraseFree, Erasing, Inserting
<1>3. /\ k \in Key /\ i \in 1..Len(k) /\ dt = Upto(k, i) /\ Detached = C /\ C \subseteq heap
      /\ ChainLinks(k, i, node)
      /\ \A n \in C : \A w \in {"lo", "hi"} : node[n][w] \in T \cup {Null}
      /\ T = heap \ C
  BY <1>1, <1>2, CallIs DEF TreeInv, Chained, InTheTree
<1>4. /\ dt \in Node /\ dt \in C /\ dt \notin T /\ heap \subseteq Node /\ Null \notin Node
      /\ root \in Pointer /\ node \in [Node -> NodeFields]
  <2>1. dt \in C
    BY <1>1, <1>3, ChainGoesOn
  <2>2. heap \subseteq Node /\ root \in Pointer /\ node \in [Node -> NodeFields]
    BY DEF TreeInv, TreeTypeOK
  <2> QED BY <1>3, <2>1, <2>2, NodeIs
<1>5. /\ NewNode \in NodeFields /\ node' \in [Node -> NodeFields] /\ node'[dt] = NewNode
      /\ \A n \in Node : n # dt => node'[n] = node[n]
  <2>1. NewNode \in NodeFields
    BY DEF NewNode, NodeFields, Pointer
  <2> QED BY <1>2, <1>4, <2>1
<1>6. node[dt].eq = IF i = Len(k) THEN Null ELSE Upto(k, i + 1)
  <2>1. i \in i..Len(k)
    BY <1>3, KeyIs
  <2> QED BY <1>3, <2>1 DEF ChainLinks
<1>7. /\ i = Len(k) => Return
      /\ i # Len(k) => /\ dt' = Upto(k, i + 1) /\ p' = dt
                       /\ UNCHANGED <<call, at, slot, pp, lb, lbp>>
  <2>1. i # Len(k) => Upto(k, i + 1) # Null
    <3>1. i # Len(k) => i + 1 \in 1..Len(k)
      BY <1>3, ChainGoesOn
    <3> QED BY <1>3, <1>4, <3>1, PrefixIs
  <2> QED BY <1>6, <2>1 DEF EraseFree
<1>8. \E cover : Tree(T, Target', cover)
  <2>1. PICK cover : Tree(T, Target, cover)
    BY <1>1 DEF TreeInv, Sits
  <2>2. PICK D, E : D = Target /\ E = Target'
    OBVIOUS
  <2>3. E \in [LinkAt -> Pointer] /\ E[RootLink] = root'
        /\ \A n \in Node : \A w \in Links : E[<<n, w>>] = node'[n][w]
    <3>1. E = TargetOf(root', node') /\ root' \in Pointer
      BY <1>2, <1>4, <2>2 DEF Target
    <3>2. /\ TargetOf(root', node') \in [LinkAt -> Pointer]
          /\ TargetOf(root', node')[RootLink] = root'
      BY <1>5, <3>1, TargetIs
    <3>3. \A n \in Node : \A w \in Links : TargetOf(root', node')[<<n, w>>] = node'[n][w]
      BY <1>5, <3>1, TargetOn
    <3> QED BY <3>1, <3>2, <3>3
  <2>4. D[RootLink] = root /\ \A n \in Node : \A w \in Links : D[<<n, w>>] = node[n][w]
    BY <1>4, <2>2, TargetIs DEF Target
  <2>5. \A l \in LinksFrom(T) : E[l] = D[l]
    <3>1. \A n \in T : n \in Node /\ n # dt
      BY <1>3, <1>4
    <3> QED BY <1>2, <1>5, <2>3, <2>4, <3>1 DEF LinksFrom
  <2>6. Tree(T, E, cover)
    BY <2>1, <2>2, <2>3, <2>5, SameTree
  <2> QED BY <2>2, <2>6
<1>9. CASE i = Len(k)
  <2>1. call' = Null /\ dt' = Null /\ at' = 1 /\ slot' = RootLink
        /\ p' = Null /\ pp' = Null /\ lb' = Null /\ lbp' = Null
    BY <1>7, <1>9 DEF Return, RootLink
  <2>2. InTheTree' = T /\ ~Inserting' /\ ~Erasing'
    <3>1. C = {dt}
      BY <1>1, <1>3, <1>9, ChainGoesOn
    <3> QED BY <1>2, <1>3, <2>1, <3>1 DEF InTheTree, Detached, Inserting, Erasing
  <2>3. TreeTypeOK'
    BY <1>2, <1>4, <1>5, <2>1 DEF TreeTypeOK, RootLink, Pointer
  <2>4. Bare'
    BY <1>2, <1>5 DEF TreeInv, Bare
  <2>5. AtRest' /\ Chained'
    BY <2>1 DEF AtRest, Chained
  <2>6. Kept'
    BY <1>1, <1>2, <2>2 DEF TreeInv, Kept, KeptIn
  <2>7. Filled'
    BY <1>1, <1>3, <1>4, <1>5, <2>2 DEF TreeInv, Filled
  <2>8. Sits'
    BY <1>8, <2>2 DEF Sits
  <2> QED BY <1>1, <1>3, <1>4, <1>5, <2>2, <2>3, <2>4, <2>5, <2>6, <2>7, <2>8 DEF TreeInv
<1>10. CASE i # Len(k)
  <2>1. PICK C2 : C2 = Chain(k, i + 1)
    OBVIOUS
  <2>2. i + 1 \in 1..Len(k) /\ C2 = C \ {dt}
    BY <1>1, <1>3, <1>10, <2>1, ChainGoesOn
  <2>3. dt' \in Node /\ dt' # Null /\ Len(dt') = i + 1 /\ dt' = Upto(k, i + 1)
        /\ p' = dt /\ UNCHANGED <<call, at, slot, pp, lb, lbp>>
    <3>1. dt' = Upto(k, i + 1) /\ p' = dt /\ UNCHANGED <<call, at, slot, pp, lb, lbp>>
      BY <1>7, <1>10
    <3> QED BY <1>3, <1>4, <2>2, <3>1, PrefixIs
  <2>4. Detached' = C2 /\ InTheTree' = T /\ ~Inserting' /\ Erasing'
    <3>1. Detached' = C2
      BY <1>1, <2>1, <2>3 DEF Detached, Chain, Upto
    <3>2. InTheTree' = T
      BY <1>2, <1>3, <1>4, <2>2, <3>1 DEF InTheTree
    <3> QED BY <1>2, <2>3, <3>1, <3>2 DEF Inserting, Erasing
  <2>5. TreeTypeOK'
    <3>1. {p, pp, lb, lbp, dt} \subseteq Pointer
      BY DEF TreeInv, TreeTypeOK
    <3>2. {p', pp', lb', lbp', dt'} \subseteq Pointer
      BY <1>4, <2>3, <3>1 DEF Pointer
    <3> QED BY <1>2, <1>4, <1>5, <2>3, <3>2 DEF TreeInv, TreeTypeOK
  <2>6. Bare'
    BY <1>2, <1>5 DEF TreeInv, Bare
  <2>7. AtRest'
    BY <1>2, <2>3 DEF AtRest
  <2>8. Chained'
    <3>1. ChainLinks(k, i + 1, node')
      <4>1. ASSUME NEW x \in (i + 1)..Len(k)
            PROVE  node'[Upto(k, x)].eq = IF x = Len(k) THEN Null ELSE Upto(k, x + 1)
        <5>1. x \in i..Len(k) /\ x \in 1..Len(k)
          BY <1>3, <2>2
        <5>2. Upto(k, x) \in C2 /\ Upto(k, x) \in Node
          BY <1>3, <2>1, <5>1, PrefixIs DEF Chain
        <5>3. node'[Upto(k, x)] = node[Upto(k, x)]
          BY <1>5, <2>2, <5>2
        <5> QED BY <1>3, <5>1, <5>3 DEF ChainLinks
      <4> QED BY <4>1 DEF ChainLinks
    <3>2. \A n \in C2 : \A w \in {"lo", "hi"} : node'[n][w] \in T \cup {Null}
      BY <1>3, <1>4, <1>5, <2>2
    <3>3. C2 \subseteq heap'
      BY <1>2, <1>3, <2>2
    <3>4. call'.key = k /\ Erasing' /\ Len(dt') = i + 1
      BY <1>1, <2>3, <2>4
    <3> QED BY <2>1, <2>2, <2>3, <2>4, <3>1, <3>2, <3>3, <3>4 DEF Chained
  <2>9. Kept'
    BY <1>1, <1>2, <2>4 DEF TreeInv, Kept, KeptIn
  <2>10. Filled'
    BY <1>1, <1>3, <1>4, <1>5, <2>4 DEF TreeInv, Filled
  <2>11. Sits'
    BY <1>8, <2>3, <2>4 DEF Sits
  <2> QED BY <1>1, <1>3, <1>4, <1>5, <2>4, <2>5, <2>6, <2>7, <2>8, <2>9, <2>10, <2>11 DEF TreeInv
<1> QED BY <1>9, <1>10

(***************************************************************************)
(* The tree stays sound                                                    *)
(***************************************************************************)
(* Every step.                                                             *)
LEMMA StepKeeps ==
  ASSUME TreeInv, [TreeNext]_treeVars
  PROVE  TreeInv'
<1>1. CASE UNCHANGED treeVars
  <2> USE <1>1 DEF treeVars, locals
  <2>1. InTheTree' = InTheTree /\ Detached' = Detached /\ Inserting' = Inserting /\ Erasing' = Erasing
        /\ Target' = Target
    BY DEF InTheTree, Detached, Inserting, Erasing, Target
  <2>2. TreeTypeOK' /\ Bare' /\ AtRest'
    BY DEF TreeInv, TreeTypeOK, Bare, AtRest
  <2>3. Chained' /\ Kept' /\ Filled'
    BY <2>1 DEF TreeInv, Chained, Kept, KeptIn, Filled
  <2>4. Sits'
    BY <2>1 DEF TreeInv, Sits
  <2> QED BY <2>2, <2>3, <2>4 DEF TreeInv
<1>2. CASE TreeNext
  BY <1>2, InsertStartKeeps, EraseStartKeeps, InsertWalkKeeps, InsertBuildKeeps, EraseWalkKeeps,
     EraseMissKeeps, EraseInUseKeeps, EraseCutKeeps, EraseFreeKeeps DEF TreeNext, Step
<1> QED BY <1>1, <1>2

(* The walk of find ends at the word's node, if it has one.                *)
LEMMA FindIs ==
  ASSUME TreeInv, NEW k \in Key
  PROVE  FindNode(k) = IF k \in InTheTree THEN k ELSE Null
<1>1. PICK T, D, X : T = InTheTree /\ D = Target /\ X = Detached
  OBVIOUS
<1>2. PICK cover : Tree(T, D, cover)
  BY <1>1 DEF TreeInv, Sits
<1>3. /\ D \in [LinkAt -> Pointer] /\ D[RootLink] = root /\ Null \notin Node
      /\ heap \subseteq Node /\ T = heap \ X /\ node \in [Node -> NodeFields]
  BY <1>1, TargetIs, NodeIs DEF TreeInv, TreeTypeOK, Target, InTheTree
<1>4. \A n \in Node : \A w \in Links : D[<<n, w>>] = node[n][w]
  BY <1>1, TargetOn DEF TreeInv, TreeTypeOK, Target
<1>5. X \subseteq heap /\ \A n \in X : \A w \in {"lo", "hi"} : node[n][w] \in T \cup {Null}
  BY <1>1 DEF TreeInv, Chained, Detached
<1>6. \E N \in Nat : \E r \in [Pointer -> 0..N] : Descends(r, N, D)
  <2>1. ASSUME NEW n \in X, NEW w \in {"lo", "hi"} PROVE D[<<n, w>>] \in T \cup {Null}
    BY <1>3, <1>4, <1>5 DEF Links
  <2>2. ASSUME NEW n \in Node \ (T \cup X), NEW w \in Links PROVE D[<<n, w>>] = Null
    <3>1. node[n] = NewNode
      BY <1>3 DEF TreeInv, Bare
    <3>2. D[<<n, w>>] = node[n][w]
      BY <1>4
    <3> QED BY <3>1, <3>2 DEF NewNode, Links
  <2>3. X \in SUBSET Node
    BY <1>3, <1>5
  <2> QED BY <1>2, <2>1, <2>2, <2>3, LevelsEnd
<1>7. /\ \E walk : walk = WalkFrom(walk, k, D)
      /\ \A walk : walk = WalkFrom(walk, k, D) =>
           walk[<<D[RootLink], 1>>] = IF k \in T THEN k ELSE Null
  BY <1>2, <1>6, WalkEnds
<1> DEFINE F(walk) == [s \in Pointer \X (1..Len(k)) |->
                         LET n == s[1]
                             j == s[2]
                             way == Way(k[j], n)
                         IN IF n = Null \/ (way = "eq" /\ k[j] = 0) THEN n
                            ELSE walk[<<node[n][way], IF way = "eq" THEN j + 1 ELSE j>>]]
<1>8. ASSUME NEW walk PROVE F(walk) = WalkFrom(walk, k, D)
  <2>1. ASSUME NEW s \in Pointer \X (1..Len(k)), ~WalkStops(s, k)
        PROVE  WalkNext(s, k, D) =
                 <<node[s[1]][Way(k[s[2]], s[1])],
                   IF Way(k[s[2]], s[1]) = "eq" THEN s[2] + 1 ELSE s[2]>>
    <3>1. s[1] \in Node
      BY <2>1 DEF WalkStops, Pointer
    <3>2. k[s[2]] \in Nat
      BY KeyIs
    <3>3. Way(k[s[2]], s[1]) \in Links
      BY <3>1, <3>2, WayKinds
    <3> QED BY <1>4, <3>1, <3>3 DEF WalkNext
  <2>2. \A s \in Pointer \X (1..Len(k)) :
          F(walk)[s] = IF WalkStops(s, k) THEN s[1] ELSE walk[WalkNext(s, k, D)]
    BY <2>1 DEF WalkStops
  <2>3. F(walk) = [s \in Pointer \X (1..Len(k)) |-> F(walk)[s]]
    OBVIOUS
  <2> HIDE DEF F
  <2> QED BY <2>2, <2>3 DEF WalkFrom, WalkPlaces
<1>9. PICK walk : walk = CHOOSE g : g = F(g)
  OBVIOUS
<1>10. FindNode(k) = walk[<<root, 1>>]
  BY <1>9 DEF FindNode
<1>11. walk = F(walk)
  <2>1. \E g : g = F(g)
    <3> HIDE DEF F
    <3> QED BY <1>7, <1>8
  <2> HIDE DEF F
  <2> QED BY <1>9, <2>1
<1> HIDE DEF F
<1> QED BY <1>1, <1>3, <1>7, <1>8, <1>10, <1>11

(* What find returns.                                                      *)
SetsAre == \A k \in Key : /\ FindNode(k) = IF k \in InTheTree THEN k ELSE Null
                          /\ Find(k) = IF k \in InTheTree THEN node[k].values ELSE {}

(* For every word.                                                         *)
LEMMA FindsSets == TreeInv => SetsAre
<1> SUFFICES ASSUME TreeInv, NEW k \in Key
             PROVE  /\ FindNode(k) = IF k \in InTheTree THEN k ELSE Null
                    /\ Find(k) = IF k \in InTheTree THEN node[k].values ELSE {}
  BY DEF SetsAre
<1>1. FindNode(k) = IF k \in InTheTree THEN k ELSE Null
  BY FindIs
<1>2. k # Null
  BY WholeWord, NodeIs
<1> QED BY <1>1, <1>2 DEF Find

(* What the invariant says of the tree between calls and during them.      *)
LEMMA InvIsSound == TreeInv => TreeSound
<1> SUFFICES ASSUME TreeInv PROVE TreeSound
  OBVIOUS
<1>1. PICK T, D : T = InTheTree /\ D = Target
  OBVIOUS
<1>2. PICK cover : Tree(T, D, cover)
  BY <1>1 DEF TreeInv, Sits
<1>3. /\ D[RootLink] = root /\ Null \notin Node /\ T \subseteq Node
      /\ heap \subseteq Node
      /\ \A n \in Node : \A w \in Links : D[<<n, w>>] = node[n][w]
  BY <1>1, <1>2, TargetIs, NodeIs DEF TreeInv, TreeTypeOK, Target, Tree
<1>4. OneParent
  <2>1. Detached \subseteq heap
    BY DEF TreeInv, Chained, Detached
  <2>2. \A n : LinksTo(n) = {l \in LinksFrom(T) : D[l] = n}
    <3>1. \A l \in T \X Links : D[l] = node[l[1]][l[2]]
      BY <1>3
    <3> QED BY <1>1, <1>3, <3>1 DEF LinksTo, LinksFrom, RootLink
  <2>3. ASSUME NEW n \in Node, n \in T PROVE \E l \in LinksTo(n) : LinksTo(n) = {l}
    <3>1. PICK l \in LinksFrom(T) : D[l] = n
      BY <1>2, <2>3 DEF Tree, OneLink
    <3>2. \A m \in LinksFrom(T) : D[m] = n => m = l
      BY <1>2, <1>3, <3>1 DEF Tree, OneLink
    <3> QED BY <2>2, <3>1, <3>2
  <2>4. ASSUME NEW n \in Node, n \notin T PROVE LinksTo(n) = {}
    <3>1. \A l \in LinksFrom(T) : D[l] # n
      BY <1>2, <1>3, <2>4 DEF Tree, Targets
    <3> QED BY <2>2, <3>1
  <2> QED BY <1>1, <2>1, <2>3, <2>4 DEF OneParent
<1>5. NoLeftovers
  <2> SUFFICES ASSUME call = Null
               PROVE  /\ heap = PrefixesOf(Stored)
                      /\ \A k \in Key : FindNode(k) = Null <=> Find(k) = {}
    BY DEF NoLeftovers
  <2>1. T = heap /\ ~Inserting
    BY <1>1, AllThere
  <2>2. \A k \in Key : k # Null /\ k \in Node
    BY <1>3, WholeWord
  <2>3. SetsAre
    BY FindsSets
  <2>4. \A k \in Key : (Find(k) # {} <=> k \in T) /\ (FindNode(k) = Null <=> k \notin T)
    BY <1>1, <2>2, <2>3 DEF SetsAre, TreeInv, Filled
  <2>5. \A k \in Key : k \in Stored <=> k \in T
    BY <2>4 DEF Stored
  <2>6. ASSUME NEW n \in T PROVE n \in PrefixesOf(Stored)
    <3>1. PICK h \in Key : Len(n) <= Len(h) /\ n = Upto(h, Len(n)) /\ h \in T
      BY <1>1, <2>1 DEF TreeInv, Kept, KeptIn
    <3>2. Len(n) \in 1..Len(h) /\ h \in Stored
      <4>1. Len(n) \in Nat \ {0} /\ Len(h) \in Nat
        BY <1>3, NodeIs, KeyIs
      <4> QED BY <2>5, <3>1, <4>1
    <3>3. PICK j \in 1..Len(h) : n = SubSeq(h, 1, j)
      BY <3>1, <3>2 DEF Upto
    <3> QED BY <3>2, <3>3 DEF PrefixesOf
  <2>7. ASSUME NEW n \in PrefixesOf(Stored) PROVE n \in T
    <3>1. PICK h \in Stored : \E j \in 1..Len(h) : n = Upto(h, j)
      BY DEF PrefixesOf, Upto
    <3>2. h \in Key /\ h \in T /\ Upto(h, Len(h)) = h /\ Len(h) \in 1..Len(h)
      <4>1. h \in Key
        BY DEF Stored
      <4>2. Len(h) \in 1..Len(h)
        BY <4>1, KeyIs
      <4> QED BY <2>5, <4>1, <4>2, WholeWord
    <3>3. \A j \in 1..Len(h) : Upto(h, j) \in T
      BY <1>2, <3>2, PrefixesThere
    <3> QED BY <3>1, <3>3
  <2>8. heap = PrefixesOf(Stored)
    BY <2>1, <2>6, <2>7
  <2> QED BY <2>4, <2>8
<1> QED BY <1>4, <1>5 DEF TreeSound, TreeInv

(* At every moment of insert and erase one link leads to each node of the  *)
(* tree and none to a free one or to one being deleted, and after them no  *)
(* node is left over that is on the way to no word (ternary.hh:29-64,      *)
(* 101-200), for every finite or infinite set of words and values.         *)
THEOREM TreeStaysSound == TreeSpec => []TreeSound
<1>1. TreeInit => TreeInv
  BY TreeStarts
<1>2. TreeInv /\ [TreeNext]_treeVars => TreeInv'
  BY StepKeeps
<1>3. TreeInv => TreeSound
  BY InvIsSound
<1> QED BY <1>1, <1>2, <1>3, PTL DEF TreeSpec

(***************************************************************************)
(* The tree keeps sets                                                     *)
(***************************************************************************)
(* How the steps change what find returns.                                 *)
SetsNow == [k \in Key |-> Find(k)]

(* If only word k changes,                                                 *)
LEMMA NowIs ==
  ASSUME SetsAre, SetsAre', NEW k \in Key, NEW S,
         k \in InTheTree' => node'[k].values = S, k \notin InTheTree' => S = {},
         \A h \in Key : h # k => /\ h \in InTheTree' <=> h \in InTheTree
                                 /\ h \in InTheTree => node'[h].values = node[h].values
  PROVE  SetsNow' = [SetsNow EXCEPT ![k] = S]
<1>1. \A h \in Key : Find(h)' = IF h = k THEN S ELSE Find(h)
  BY DEF SetsAre
<1> QED BY <1>1 DEF SetsNow

(* or does not,                                                            *)
LEMMA SameSets ==
  ASSUME SetsAre, NEW k \in Key, NEW S,
         k \in InTheTree => S = node[k].values, k \notin InTheTree => S = {}
  PROVE  [SetsNow EXCEPT ![k] = S] = SetsNow
BY DEF SetsNow, SetsAre

(* or only its values do.                                                  *)
LEMMA ValuesRefine ==
  ASSUME TreeInv, SetsAre, SetsAre', call # Null, dt = Null, dt' = Null, heap' = heap,
         NEW k, k = call.key, k \in heap, NEW V, node'[k].values = V,
         \A m \in Node : m # k => node'[m] = node[m]
  PROVE  SetsNow' = [SetsNow EXCEPT ![k] = V]
<1>1. InTheTree = heap /\ InTheTree' = heap /\ k \in Key
  BY AllThere, CallIs DEF InTheTree, Detached
<1>2. \A h \in Key : h \in Node
  BY WholeWord
<1>3. \A h \in Key : h # k => node'[h] = node[h]
  BY <1>2
<1> QED BY <1>1, <1>3, NowIs

(* After the call that is under way.                                       *)
LEMMA AfterIs ==
  ASSUME TreeInv, SetsAre, call # Null
  PROVE  /\ call.key \in Key /\ call.op \in {"insert", "erase"}
         /\ call.op = "insert" =>
              Words!After(call) = [SetsNow EXCEPT ![call.key] = Find(call.key) \cup {call.value}]
         /\ call.op = "erase" =>
              Words!After(call) = [SetsNow EXCEPT ![call.key] = Find(call.key) \ {call.value}]
<1>1. call.key \in Key /\ call.op \in {"insert", "erase"}
  BY CallIs
<1>2. SetsNow[call.key] = Find(call.key)
  BY <1>1 DEF SetsNow
<1> QED BY <1>1, <1>2 DEF Words!After, SetsNow

(* What does not touch the nodes changes no set.                           *)
LEMMA SetsStay ==
  ASSUME UNCHANGED <<root, node>>
  PROVE  SetsNow' = SetsNow
BY DEF SetsNow, Find, FindNode

(* A word that is being deleted is not found.                              *)
LEMMA DeletedIs ==
  ASSUME TreeInv, dt # Null
  PROVE  call # Null /\ Erasing /\ call.key \in Key /\ call.key \notin InTheTree
<1>1. Erasing /\ call # Null /\ call.key \in Key
  BY CallIs DEF TreeInv, Chained, Erasing
<1>2. PICK k, i : k = call.key /\ i = Len(dt)
  OBVIOUS
<1>3. i \in 1..Len(k) /\ Detached = Chain(k, i)
  BY <1>2 DEF TreeInv, Chained
<1>4. Len(k) \in i..Len(k) /\ Upto(k, Len(k)) = k
  <2>1. Len(k) \in Nat
    BY <1>1, <1>2, KeyIs
  <2> QED BY <1>1, <1>2, <1>3, <2>1, WholeWord
<1> QED BY <1>1, <1>2, <1>3, <1>4 DEF Chain, InTheTree

(* Each step begins a call, has its effect, ends it, or changes nothing    *)
(* that is seen.                                                           *)
LEMMA StartRefines ==
  ASSUME NEW e \in Entry, InsertStart(e[1], e[2]) \/ EraseStart(e[1], e[2])
  PROVE  call = Null /\ call' \in Words!Call /\ SetsNow' = SetsNow
<1>1. e[1] \in Key /\ e[2] \in Value
  BY TreeAssumption
<1>2. call = Null /\ call' \in Words!Call /\ UNCHANGED <<root, node>>
  BY <1>1 DEF InsertStart, EraseStart, Words!Call
<1> QED BY <1>2, SetsStay

(* insert adds the value to a word that it finds,                          *)
LEMMA InsertWalkRefines ==
  ASSUME TreeInv, SetsAre, SetsAre', InsertWalk
  PROVE  \/ call # Null /\ SetsNow' = Words!After(call) /\ call' = Null
         \/ SetsNow' = SetsNow /\ call' = call
<1>1. Inserting /\ call # Null /\ dt = Null /\ Deref(slot) # Null /\ heap' = heap
      /\ InTheTree = heap
  BY AllThere DEF InsertWalk, Inserting
<1>2. PICK k, n, w : k = call.key /\ n = Deref(slot) /\ w = Way(Symbol, Deref(slot))
  OBVIOUS
<1>3. CASE Symbol = 0 /\ w = "eq"
  <2>1. PICK V : V = node[n].values \cup {call.value}
    OBVIOUS
  <2>2. n = k /\ k \in heap /\ k \in Key
    BY <1>1, <1>2, <1>3, InsertFoundIs, CallIs
  <2>3. node' = [node EXCEPT ![n].values = V] /\ Return
    BY <1>2, <1>3, <2>1 DEF InsertWalk
  <2>4. call' = Null /\ dt' = Null
    BY <2>3 DEF Return
  <2>5. node'[n].values = V /\ \A m \in Node : m # n => node'[m] = node[m]
    <3>1. node \in [Node -> NodeFields] /\ n \in Node
      BY <2>2, WholeWord DEF TreeInv, TreeTypeOK
    <3>2. /\ node'[n] = [node[n] EXCEPT !.values = V] /\ node[n] \in NodeFields
          /\ \A m \in Node : m # n => node'[m] = node[m]
      BY <2>3, <3>1
    <3> QED BY <3>2 DEF NodeFields
  <2>6. SetsNow' = [SetsNow EXCEPT ![k] = V]
    BY <1>1, <1>2, <2>2, <2>4, <2>5, ValuesRefine
  <2>7. V = Find(k) \cup {call.value}
    BY <1>1, <2>1, <2>2 DEF SetsAre
  <2>8. call.op = "insert"
    BY <1>1 DEF Inserting
  <2>9. Words!After(call) = [SetsNow EXCEPT ![k] = V]
    BY <1>1, <1>2, <2>7, <2>8, AfterIs
  <2> QED BY <1>1, <2>4, <2>6, <2>9
<1>4. CASE ~(Symbol = 0 /\ w = "eq")
  <2>1. UNCHANGED <<root, node>> /\ call' = call
    BY <1>2, <1>4 DEF InsertWalk
  <2> QED BY <2>1, SetsStay
<1> QED BY <1>3, <1>4

(* or with the node of the terminating 0.                                  *)
LEMMA InsertBuildRefines ==
  ASSUME TreeInv, SetsAre, SetsAre', InsertBuild
  PROVE  \/ call # Null /\ SetsNow' = Words!After(call) /\ call' = Null
         \/ SetsNow' = SetsNow /\ call' = call
<1>1. Inserting /\ call # Null /\ call.key \in Key /\ call.op = "insert"
  BY CallIs DEF InsertBuild, Inserting
<1>2. PICK k, x : k = call.key /\ x = Upto(call.key, at)
  OBVIOUS
<1>3. /\ InTheTree' = InTheTree \cup {x}
      /\ \A m \in Node : m # x => node'[m].values = node[m].values
      /\ Symbol = 0 => x = k /\ k \notin InTheTree /\ node'[k].values = {call.value}
      /\ Symbol # 0 => x \notin Key
  BY <1>2, InsertBuildKeeps
<1>4. \A h \in Key : h \in Node
  BY WholeWord
<1>5. CASE Symbol = 0
  <2>1. call' = Null
    BY <1>5 DEF InsertBuild, Return
  <2>2. PICK V : V = {call.value}
    OBVIOUS
  <2>3. SetsNow' = [SetsNow EXCEPT ![k] = V]
    BY <1>1, <1>2, <1>3, <1>4, <1>5, <2>2, NowIs
  <2>4. Find(k) = {}
    BY <1>1, <1>2, <1>3, <1>5 DEF SetsAre
  <2>5. Words!After(call) = [SetsNow EXCEPT ![k] = Find(k) \cup {call.value}]
    BY <1>1, <1>2, AfterIs
  <2> QED BY <1>1, <2>1, <2>2, <2>3, <2>4, <2>5
<1>6. CASE Symbol # 0
  <2>1. call' = call
    BY <1>6 DEF InsertBuild
  <2>2. \A h \in Key : /\ h \in InTheTree' <=> h \in InTheTree
                      /\ node'[h].values = node[h].values
    BY <1>3, <1>4, <1>6
  <2>3. \A h \in Key : Find(h)' = Find(h)
    BY <2>2 DEF SetsAre
  <2> QED BY <2>1, <2>3 DEF SetsNow
<1> QED BY <1>5, <1>6

(* A word that is not there has no values.                                 *)
LEMMA EraseMissRefines ==
  ASSUME TreeInv, SetsAre, EraseMiss
  PROVE  call # Null /\ SetsNow' = Words!After(call) /\ call' = Null
<1>1. /\ Erasing /\ call # Null /\ call.op = "erase" /\ dt = Null /\ p = Null /\ call' = Null
      /\ UNCHANGED <<root, node>>
  BY DEF EraseMiss, Erasing, Return
<1>2. PICK T, D, k, j : T = InTheTree /\ D = Target /\ k = call.key /\ j = at
  OBVIOUS
<1>3. PICK cover : /\ Tree(T, D, cover)
                   /\ EraseIsAt(p, pp, lb, lbp, k, j, T, D, cover)
  BY <1>1, <1>2 DEF TreeInv, Sits
<1>4. k \in Key /\ j \in 1..Len(k)
  BY <1>1, <1>2, CallIs
<1>5. Upto(k, j) \notin T
  BY <1>1, <1>3 DEF EraseIsAt, Reaches
<1>6. k \notin T
  <2> SUFFICES ASSUME k \in T PROVE FALSE
    OBVIOUS
  <2>1. Len(k) \in 1..Len(k) /\ Upto(k, Len(k)) = k
    BY <1>4, KeyIs, WholeWord
  <2>2. \A i \in 1..Len(k) : Upto(k, i) \in T
    BY <1>3, <1>4, <2>1, PrefixesThere
  <2> QED BY <1>4, <1>5, <2>2
<1>7. Find(k) = {}
  BY <1>2, <1>4, <1>6 DEF SetsAre
<1>8. PICK S : S = Find(k) \ {call.value}
  OBVIOUS
<1>9. S = {}
  BY <1>7, <1>8
<1>10. [SetsNow EXCEPT ![k] = S] = SetsNow
  BY <1>2, <1>4, <1>6, <1>9, SameSets
<1>11. Words!After(call) = [SetsNow EXCEPT ![k] = S]
  BY <1>1, <1>2, <1>8, AfterIs
<1>12. SetsNow' = SetsNow
  BY <1>1, SetsStay
<1> QED BY <1>1, <1>10, <1>11, <1>12

(* erase takes one of several values,                                      *)
LEMMA EraseInUseRefines ==
  ASSUME TreeInv, SetsAre, SetsAre', EraseInUse
  PROVE  call # Null /\ SetsNow' = Words!After(call) /\ call' = Null
<1>1. EraseFound /\ Return /\ heap' = heap /\ call' = Null /\ dt' = Null
  BY DEF EraseInUse, Return
<1>2. PICK k, V : k = call.key /\ V = node[p].values \ {call.value}
  OBVIOUS
<1>3. /\ call # Null /\ call.op = "erase" /\ dt = Null /\ p = k /\ k \in Key /\ k \in heap /\ k \in Node
      /\ InTheTree = heap
  BY <1>1, <1>2, FoundIs, AllThere DEF Erasing
<1>4. node' = [node EXCEPT ![k].values = V]
  BY <1>2, <1>3 DEF EraseInUse
<1>5. node'[k].values = V /\ \A m \in Node : m # k => node'[m] = node[m]
  <2>1. node \in [Node -> NodeFields]
    BY DEF TreeInv, TreeTypeOK
  <2>2. /\ node'[k] = [node[k] EXCEPT !.values = V] /\ node[k] \in NodeFields
        /\ \A m \in Node : m # k => node'[m] = node[m]
    BY <1>3, <1>4, <2>1
  <2> QED BY <2>2 DEF NodeFields
<1>6. SetsNow' = [SetsNow EXCEPT ![k] = V]
  BY <1>1, <1>2, <1>3, <1>5, ValuesRefine
<1>7. V = Find(k) \ {call.value}
  BY <1>2, <1>3 DEF SetsAre
<1>8. Words!After(call) = [SetsNow EXCEPT ![k] = V]
  BY <1>2, <1>3, <1>7, AfterIs
<1> QED BY <1>1, <1>3, <1>6, <1>8

(* or the last, and with it the word,                                      *)
LEMMA EraseCutRefines ==
  ASSUME TreeInv, SetsAre, SetsAre', EraseCut
  PROVE  call # Null /\ SetsNow' = Words!After(call) /\ call' = call
<1>1. /\ EraseFound /\ UNCHANGED <<heap, call, at, slot, p, pp>>
      /\ node[p].values \subseteq {call.value}
  BY DEF EraseCut
<1>2. PICK k : k = call.key
  OBVIOUS
<1>3. /\ call # Null /\ call.op = "erase" /\ p = k /\ k \in Key /\ k \in heap /\ k \in Node
      /\ InTheTree = heap
  BY <1>1, <1>2, FoundIs, AllThere DEF Erasing
<1>4. PICK i : CutTo(heap, k, i, node, node')
  BY <1>2, EraseCutIs
<1>5. PICK C : C = Chain(k, i)
  OBVIOUS
<1>6. InTheTree' = heap \ C
  BY <1>1, <1>2, <1>4, <1>5, CutKeeps
<1>7. i \in 1..Len(k) /\ k \in C /\ \A n \in Node \ {k} : node'[n].values = node[n].values
  BY <1>4, <1>5 DEF CutTo
<1>8. ASSUME NEW h \in Key, h # k
      PROVE  h \notin C /\ node'[h].values = node[h].values
  <2>1. h \in Node
    BY WholeWord
  <2>2. h \notin C
    BY <1>3, <1>5, <1>7, <1>8, ChainKey
  <2> QED BY <1>7, <1>8, <2>1, <2>2
<1>9. PICK S : S = Find(k) \ {call.value}
  OBVIOUS
<1>10. S = {}
  BY <1>1, <1>3, <1>9 DEF SetsAre
<1>11. SetsNow' = [SetsNow EXCEPT ![k] = S]
  BY <1>3, <1>6, <1>7, <1>8, <1>10, NowIs
<1>12. Words!After(call) = [SetsNow EXCEPT ![k] = S]
  BY <1>2, <1>3, <1>9, AfterIs
<1> QED BY <1>1, <1>3, <1>11, <1>12

(* and returns when the chain is deleted.                                  *)
LEMMA EraseFreeRefines ==
  ASSUME TreeInv, SetsAre, SetsAre', EraseFree
  PROVE  \/ call # Null /\ SetsNow' = Words!After(call) /\ call' = Null
         \/ SetsNow' = SetsNow /\ call' = call
<1>1. call # Null /\ Erasing /\ call.key \in Key /\ call.key \notin InTheTree /\ call.op = "erase"
  BY DeletedIs DEF EraseFree, Erasing
<1>2. InTheTree' = InTheTree /\ \A n \in InTheTree : node'[n] = node[n]
  BY EraseFreeKeeps
<1>3. \A h \in Key : Find(h)' = Find(h)
  BY <1>2 DEF SetsAre
<1>4. SetsNow' = SetsNow
  BY <1>3 DEF SetsNow
<1>5. call' = Null \/ call' = call
  BY DEF EraseFree, Return
<1>6. PICK k, S : k = call.key /\ S = Find(k) \ {call.value}
  OBVIOUS
<1>7. S = {}
  BY <1>1, <1>6 DEF SetsAre
<1>8. [SetsNow EXCEPT ![k] = S] = SetsNow
  BY <1>1, <1>6, <1>7, SameSets
<1>9. Words!After(call) = [SetsNow EXCEPT ![k] = S]
  BY <1>1, <1>6, AfterIs
<1> QED BY <1>1, <1>4, <1>5, <1>8, <1>9

(* Every step is one of the sets, or none.                                 *)
LEMMA StepRefines ==
  ASSUME TreeInv, SetsAre, SetsAre', [TreeNext]_treeVars
  PROVE  [Words!WordsNext]_Words!wordVars
<1>0. SetsNow = [k \in Key |-> Find(k)] /\ SetsNow' = [k \in Key |-> Find(k)]'
  BY DEF SetsNow
<1>1. \/ call = Null /\ call' \in Words!Call /\ SetsNow' = SetsNow
      \/ call # Null /\ SetsNow' = Words!After(call) /\ (call' = Null \/ call' = call)
      \/ SetsNow' = SetsNow /\ call' = call
  <2>1. CASE UNCHANGED treeVars
    BY <2>1, SetsStay DEF treeVars
  <2>2. ASSUME NEW e \in Entry, InsertStart(e[1], e[2]) \/ EraseStart(e[1], e[2])
        PROVE  call = Null /\ call' \in Words!Call /\ SetsNow' = SetsNow
    BY <2>2, StartRefines
  <2>3. CASE InsertWalk
    BY <2>3, InsertWalkRefines
  <2>4. CASE InsertBuild
    BY <2>4, InsertBuildRefines
  <2>5. CASE EraseWalk
    BY <2>5, SetsStay DEF EraseWalk
  <2>6. CASE EraseMiss
    BY <2>6, EraseMissRefines
  <2>7. CASE EraseInUse
    BY <2>7, EraseInUseRefines
  <2>8. CASE EraseCut
    BY <2>8, EraseCutRefines
  <2>9. CASE EraseFree
    BY <2>9, EraseFreeRefines
  <2> QED BY <2>1, <2>2, <2>3, <2>4, <2>5, <2>6, <2>7, <2>8, <2>9 DEF TreeNext, Step
<1> QED BY <1>0, <1>1 DEF Words!WordsNext, Words!wordVars, Words!Begin, Words!Effect, Words!Return

(* All sets are empty at first.                                            *)
LEMMA InitRefines == TreeInit => Words!WordsInit
<1> SUFFICES ASSUME TreeInit PROVE Words!WordsInit
  OBVIOUS
<1>1. SetsAre
  BY TreeStarts, FindsSets
<1>2. InTheTree = {} /\ call = Null
  BY DEF TreeInit, InTheTree
<1>3. \A k \in Key : Find(k) = {}
  BY <1>1, <1>2 DEF SetsAre
<1> QED BY <1>2, <1>3 DEF Words!WordsInit

(* Whatever is inserted and erased, find returns the set of values that a  *)
(* plain map of sets would hold (ternary.hh:29-87, 101-200): the step at   *)
(* which a call takes effect is that of the abstract one. And no two nodes *)
(* are made for one prefix of the words.                                   *)
THEOREM TreeKeepsSets == TreeSpec => TreeIsASet
<1>1. TreeInit => TreeInv
  BY TreeStarts
<1>2. TreeInv /\ [TreeNext]_treeVars => TreeInv'
  BY StepKeeps
<1>3. TreeInv => SetsAre
  BY FindsSets
<1>4. TreeInit => Words!WordsInit
  BY InitRefines
<1>5. TreeInv /\ SetsAre /\ SetsAre' /\ [TreeNext]_treeVars => [Words!WordsNext]_Words!wordVars
  BY StepRefines
<1>6. TreeInv /\ [TreeNext]_treeVars =>
        [InsertBuild => SubSeq(call.key, 1, at) \notin heap]_treeVars
  BY InsertBuildKeeps
<1>7. TreeSpec => RefinesWords
  BY <1>1, <1>2, <1>3, <1>4, <1>5, PTL DEF TreeSpec, RefinesWords, Words!WordsSpec
<1>8. TreeSpec => OnePerPrefix
  BY <1>1, <1>2, <1>6, PTL DEF TreeSpec, OnePerPrefix
<1> QED BY <1>7, <1>8 DEF TreeIsASet
=============================================================================

--------------------------- MODULE SequenceLemmas ---------------------------
(***************************************************************************)
(* What the proofs need of numbers and sequences: the least place of a     *)
(* set, hence induction along the places of a sequence, and what stands    *)
(* where when sequences are put in a row.                                  *)
(***************************************************************************)
EXTENDS Integers, Sequences, SequencesExt, WellFoundedInduction, TLAPS

(* Every set of numbers has a least one.                                   *)
LEMMA OneIsLeast ==
  ASSUME NEW D \in SUBSET Nat, D # {}
  PROVE  \E m \in D : \A j \in D : m <= j
<1> DEFINE R == {ss \in Nat \X Nat : ss[1] < ss[2]}
<1>1. PICK m \in D : \A j \in D : <<j, m>> \notin R
  <2>1. IsWellFoundedOn(R, Nat)
    BY NatLessThanWellFounded DEF OpToRel
  <2> HIDE DEF R
  <2> QED BY <2>1, WFMin
<1>2. ASSUME NEW j \in D PROVE m <= j
  <2>1. j \in Nat /\ m \in Nat /\ <<j, m>> \in Nat \X Nat
    OBVIOUS
  <2>2. j < m => <<j, m>> \in R
    BY <2>1
  <2> QED BY <1>1, <2>1, <2>2
<1> QED BY <1>2

(* One of finitely many places is the last.                                *)
LEMMA OneIsLast ==
  ASSUME NEW n \in Nat, NEW D \in SUBSET (1..n), D # {}
  PROVE  \E m \in D : \A j \in D : j <= m
<1> DEFINE Behind == {k \in Nat : n - k \in D}
<1>1. \A j \in D : j \in 1..n /\ n - j \in Nat /\ n - (n - j) = j
  OBVIOUS
<1>2. Behind \in SUBSET Nat /\ Behind # {}
  BY <1>1
<1>3. PICK k \in Behind : \A i \in Behind : k <= i
  <2> HIDE DEF Behind
  <2> QED BY <1>2, OneIsLeast
<1>4. ASSUME NEW j \in D PROVE j <= n - k
  <2>1. n - j \in Behind /\ k \in Nat /\ j \in Nat
    BY <1>1
  <2>2. k <= n - j
    BY <1>3, <2>1
  <2> QED BY <2>1, <2>2
<1> QED BY <1>3, <1>4

(* What holds of the first place and, with every place, of the next one,   *)
(* holds of all; D is where it holds.                                      *)
LEMMA UpTo ==
  ASSUME NEW n \in Nat, NEW D, n > 0 => 1 \in D,
         \A i \in 1..n : i \in D /\ i < n => i + 1 \in D
  PROVE  \A i \in 1..n : i \in D
<1> DEFINE Missing == (1..n) \ D
<1>1. SUFFICES ASSUME Missing # {} PROVE FALSE
  OBVIOUS
<1>2. Missing \in SUBSET Nat
  OBVIOUS
<1>3. PICK m \in Missing : \A j \in Missing : m <= j
  <2> HIDE DEF Missing
  <2> QED BY <1>1, <1>2, OneIsLeast
<1>4. m \in 1..n /\ m \notin D /\ m # 1
  OBVIOUS
<1>5. m - 1 \in 1..n /\ m - 1 < n /\ (m - 1) + 1 = m
  BY <1>4
<1>6. m - 1 \in D
  BY <1>3, <1>5
<1> QED BY <1>4, <1>5, <1>6

(* What never falls from one place to the next never falls. *)
LEMMA Climbs ==
  ASSUME NEW n \in Nat, NEW st \in [0..n -> Nat], \A i \in 1..n : st[i - 1] <= st[i]
  PROVE  \A i \in 1..n : \A j \in 0..i : st[j] <= st[i]
<1> DEFINE D == {i \in 1..n : \A j \in 0..i : st[j] <= st[i]}
<1>1. ASSUME NEW i \in 1..n, \A j \in 0..(i - 1) : st[j] <= st[i - 1] PROVE i \in D
  <2> SUFFICES ASSUME NEW j \in 0..i PROVE st[j] <= st[i]
    OBVIOUS
  <2>1. CASE j = i
    BY <2>1
  <2>2. CASE j # i
    <3>1. j \in 0..(i - 1) /\ j \in 0..n /\ i - 1 \in 0..n /\ i \in 0..n
      BY <2>2
    <3>2. PICK x \in Nat, y \in Nat, z \in Nat :
            x = st[j] /\ y = st[i - 1] /\ z = st[i] /\ x <= y /\ y <= z
      BY <1>1, <3>1
    <3> QED BY <3>2
  <2> QED BY <2>1, <2>2
<1>2. n > 0 => 1 \in D
  <2> SUFFICES ASSUME n > 0 PROVE 1 \in D
    OBVIOUS
  <2>1. 1 \in 1..n /\ 1 - 1 = 0 /\ 0 \in 0..n
    OBVIOUS
  <2>2. \A j \in 0..(1 - 1) : st[j] <= st[1 - 1]
    BY <2>1
  <2> HIDE DEF D
  <2> QED BY <1>1, <2>1, <2>2
<1>3. ASSUME NEW i \in 1..n, i \in D, i < n PROVE i + 1 \in D
  <2>1. i + 1 \in 1..n /\ (i + 1) - 1 = i
    BY <1>3
  <2>2. \A j \in 0..((i + 1) - 1) : st[j] <= st[(i + 1) - 1]
    BY <1>3, <2>1
  <2> HIDE DEF D
  <2> QED BY <1>1, <2>1, <2>2
<1>4. \A i \in 1..n : i \in D
  <2> HIDE DEF D
  <2> QED BY <1>2, <1>3, UpTo
<1> QED BY <1>4

(* A function that is defined step by step exists.                         *)
Follows(f, n, first, next) ==
  f[0] = first /\ \A i \in 1..n : f[i] = next[i][f[i - 1]]

LEMMA StepByStep ==
  ASSUME NEW S, NEW n \in Nat, NEW first \in S, NEW next \in [1..n -> [S -> S]]
  PROVE  \E f \in [0..n -> S] : Follows(f, n, first, next)
<1> DEFINE Steps(f, k) == f[0] = first /\ \A i \in 1..k : f[i] = next[i][f[i - 1]]
           D == {k \in 1..n : \E f \in [0..k -> S] : Steps(f, k)}
<1>1. ASSUME NEW k \in 0..n, k < n, NEW f \in [0..k -> S], Steps(f, k)
      PROVE  \E h \in [0..(k + 1) -> S] : Steps(h, k + 1)
  <2> DEFINE h == [i \in 0..(k + 1) |-> IF i = k + 1 THEN next[k + 1][f[k]] ELSE f[i]]
  <2>1. next[k + 1] \in [S -> S] /\ f[k] \in S
    <3>1. k \in 0..k /\ k + 1 \in 1..n
      BY <1>1
    <3> QED BY <3>1
  <2>2. h \in [0..(k + 1) -> S]
    <3>1. next[k + 1][f[k]] \in S
      BY <2>1
    <3> QED BY <3>1
  <2>3. h[0] = first
    BY <1>1
  <2>4. ASSUME NEW i \in 1..(k + 1) PROVE h[i] = next[i][h[i - 1]]
    <3>1. i - 1 \in 0..(k + 1) /\ i \in 0..(k + 1) /\ i - 1 # k + 1 /\ h[i - 1] = f[i - 1]
      OBVIOUS
    <3>2. CASE i = k + 1
      <4>1. i - 1 = k
        BY <3>2
      <4>2. h[i] = next[k + 1][f[k]]
        BY <3>1, <3>2
      <4> HIDE DEF h
      <4> QED BY <3>1, <3>2, <4>1, <4>2
    <3>3. CASE i # k + 1
      <4>1. i \in 1..k /\ h[i] = f[i]
        BY <3>1, <3>3
      <4> HIDE DEF h
      <4> QED BY <1>1, <3>1, <4>1
    <3> QED BY <3>2, <3>3
  <2> HIDE DEF h
  <2> QED BY <2>2, <2>3, <2>4
<1>2. \E f \in [0..0 -> S] : Steps(f, 0)
  <2> DEFINE f == [i \in 0..0 |-> first]
  <2>1. f \in [0..0 -> S] /\ f[0] = first /\ 1..0 = {}
    OBVIOUS
  <2> HIDE DEF f
  <2> QED BY <2>1
<1>3. CASE n = 0
  BY <1>2, <1>3 DEF Follows
<1>4. CASE n > 0
  <2>1. 1 \in D
    <3>1. 0 \in 0..n /\ 0 < n /\ 1 \in 1..n /\ 0 + 1 = 1
      BY <1>4
    <3> HIDE DEF Steps
    <3>2. \E h \in [0..(0 + 1) -> S] : Steps(h, 0 + 1)
      BY <1>1, <1>2, <3>1
    <3> QED BY <3>1, <3>2
  <2>2. \A k \in 1..n : k \in D /\ k < n => k + 1 \in D
    <3> SUFFICES ASSUME NEW k \in 1..n, k \in D, k < n PROVE k + 1 \in D
      OBVIOUS
    <3>1. k \in 0..n /\ k + 1 \in 1..n
      OBVIOUS
    <3> HIDE DEF Steps
    <3>2. \E f \in [0..k -> S] : Steps(f, k)
      OBVIOUS
    <3>3. \E h \in [0..(k + 1) -> S] : Steps(h, k + 1)
      BY <1>1, <3>1, <3>2
    <3> QED BY <3>1, <3>3
  <2>3. n \in 1..n
    BY <1>4
  <2>4. n \in D
    <3> HIDE DEF D
    <3>1. \A k \in 1..n : k \in D
      BY <2>1, <2>2, UpTo
    <3> QED BY <2>3, <3>1
  <2> QED BY <2>4 DEF Follows
<1> QED BY <1>3, <1>4 DEF Follows

(* The sums of amounts, one after the other. *)
SumsOf(f, n, amount) == f[0] = 0 /\ \A i \in 1..n : f[i] = f[i - 1] + amount[i]

LEMMA SumsAre ==
  ASSUME NEW n \in Nat, NEW amount \in [1..n -> Nat]
  PROVE  \E f \in [0..n -> Nat] : SumsOf(f, n, amount)
<1> DEFINE next == [i \in 1..n |-> [s \in Nat |-> s + amount[i]]]
<1>1. next \in [1..n -> [Nat -> Nat]]
  <2>1. \A i \in 1..n, s \in Nat : s + amount[i] \in Nat
    OBVIOUS
  <2> QED BY <2>1
<1>2. PICK f \in [0..n -> Nat] : Follows(f, n, 0, next)
  <2> HIDE DEF next
  <2> QED BY <1>1, StepByStep
<1>3. f[0] = 0 /\ \A i \in 1..n : f[i] = next[i][f[i - 1]]
  <2> HIDE DEF next
  <2> QED BY <1>2 DEF Follows
<1>4. \A i \in 1..n : f[i] = f[i - 1] + amount[i]
  <2> SUFFICES ASSUME NEW i \in 1..n PROVE f[i] = f[i - 1] + amount[i]
    OBVIOUS
  <2>1. i - 1 \in 0..n
    OBVIOUS
  <2>2. f[i - 1] \in Nat
    BY <2>1
  <2>3. next[i][f[i - 1]] = f[i - 1] + amount[i]
    BY <2>2
  <2> QED BY <1>3, <2>3
<1> QED BY <1>2, <1>3, <1>4 DEF SumsOf

(* One that takes those steps stays in S.                                  *)
LEMMA StaysInside ==
  ASSUME NEW S, NEW n \in Nat, NEW g, NEW next \in [1..n -> [S -> S]],
         g = [i \in 0..n |-> g[i]], g[0] \in S,
         \A i \in 1..n : g[i - 1] \in S => g[i] = next[i][g[i - 1]]
  PROVE  g \in [0..n -> S]
<1> DEFINE E == {i \in 1..n : g[i] \in S}
<1>1. ASSUME NEW i \in 1..n, g[i - 1] \in S PROVE i \in E
  <2>1. g[i] = next[i][g[i - 1]] /\ next[i] \in [S -> S]
    BY <1>1
  <2> QED BY <1>1, <2>1
<1>2. n > 0 => 1 \in E
  <2>1. n > 0 => 1 \in 1..n /\ 1 - 1 = 0
    OBVIOUS
  <2> QED BY <1>1, <2>1
<1>3. \A i \in 1..n : i \in E /\ i < n => i + 1 \in E
  <2> SUFFICES ASSUME NEW i \in 1..n, i \in E, i < n PROVE i + 1 \in E
    OBVIOUS
  <2>1. i + 1 \in 1..n /\ (i + 1) - 1 = i /\ g[i] \in S
    OBVIOUS
  <2> HIDE DEF E
  <2> QED BY <1>1, <2>1
<1>4. \A i \in 1..n : i \in E
  <2> HIDE DEF E
  <2> QED BY <1>2, <1>3, UpTo
<1>5. \A i \in 0..n : g[i] \in S
  <2>1. \A i \in 0..n : i = 0 \/ i \in 1..n
    OBVIOUS
  <2> QED BY <1>4, <2>1
<1> QED BY <1>5

(* A sequence of sequences in a row: f holds the rows of its beginnings.   *)
Beginnings(f, n, seqs) ==
  /\ f[1] = seqs[1]
  /\ \A i \in 1..n : i < n => f[i + 1] = f[i] \o seqs[i + 1]

(* FlattenSeq is the last of the rows, each a sequence longer than the one before. *)
LEMMA FlattenInSteps ==
  ASSUME NEW S, NEW n \in Nat \ {0}, NEW seqs \in [1..n -> Seq(S)]
  PROVE  \E f \in [1..n -> Seq(S)] : Beginnings(f, n, seqs) /\ f[n] = FlattenSeq(seqs)
<1> DEFINE Steps(f, k) == /\ f[1] = seqs[1]
                          /\ \A i \in 1..k : i < k => f[i + 1] = f[i] \o seqs[i + 1]
           D == {k \in 1..n : \E f \in [1..k -> Seq(S)] : Steps(f, k)}
           Flat(f) == [i \in 1..n |-> IF i = 1 THEN seqs[i] ELSE f[i - 1] \o seqs[i]]
<1>1. 1 \in D
  <2> DEFINE f == [i \in 1..1 |-> seqs[i]]
  <2>1. 1 \in 1..n /\ f \in [1..1 -> Seq(S)] /\ f[1] = seqs[1]
    OBVIOUS
  <2>2. \A i \in 1..1 : ~ (i < 1)
    OBVIOUS
  <2> HIDE DEF f
  <2> QED BY <2>1, <2>2
<1>2. ASSUME NEW k \in 1..n, k \in D, k < n PROVE k + 1 \in D
  <2>1. PICK f \in [1..k -> Seq(S)] : Steps(f, k)
    BY <1>2
  <2> DEFINE g == [i \in 1..(k + 1) |-> IF i = k + 1 THEN f[k] \o seqs[k + 1] ELSE f[i]]
  <2>2. f[k] \in Seq(S) /\ seqs[k + 1] \in Seq(S) /\ f[k] \o seqs[k + 1] \in Seq(S)
    BY <1>2
  <2>3. g \in [1..(k + 1) -> Seq(S)]
    BY <2>2
  <2>4. g[1] = seqs[1]
    BY <2>1
  <2>5. ASSUME NEW i \in 1..(k + 1), i < k + 1 PROVE g[i + 1] = g[i] \o seqs[i + 1]
    <3>1. i \in 1..k /\ g[i] = f[i]
      BY <2>5
    <3>2. CASE i = k
      <4>1. g[i + 1] = f[k] \o seqs[k + 1]
        BY <3>2
      <4> QED BY <3>1, <3>2, <4>1
    <3>3. CASE i < k
      <4>1. i + 1 \in 1..(k + 1) /\ i + 1 # k + 1 /\ g[i + 1] = f[i + 1]
        BY <3>1, <3>3
      <4> HIDE DEF g
      <4> QED BY <2>1, <3>1, <3>3, <4>1
    <3>4. i = k \/ i < k
      BY <3>1
    <3> HIDE DEF g
    <3> QED BY <3>2, <3>3, <3>4
  <2>6. Steps(g, k + 1)
    BY <2>4, <2>5
  <2> HIDE DEF g, Steps
  <2> QED BY <1>2, <2>3, <2>6
<1>3. n \in D
  <2> HIDE DEF D
  <2>1. \A i \in 1..n : i \in D /\ i < n => i + 1 \in D
    BY <1>2
  <2>2. \A i \in 1..n : i \in D
    BY <1>1, <2>1, UpTo
  <2> QED BY <2>2
<1>4. PICK f \in [1..n -> Seq(S)] : Steps(f, n)
  BY <1>3
<1>5. f = Flat(f)
  <2>1. ASSUME NEW i \in 1..n PROVE f[i] = Flat(f)[i]
    <3>1. CASE i = 1
      BY <1>4, <3>1
    <3>2. CASE i # 1
      <4>1. i - 1 \in 1..n /\ i - 1 < n /\ (i - 1) + 1 = i
        BY <3>2
      <4>2. f[(i - 1) + 1] = f[i - 1] \o seqs[(i - 1) + 1]
        BY <1>4, <4>1
      <4> QED BY <3>2, <4>1, <4>2
    <3> QED BY <3>1, <3>2
  <2> QED BY <2>1
<1>6. Len(seqs) = n
  OBVIOUS
<1> DEFINE g == CHOOSE h : h = Flat(h)
<1>7. FlattenSeq(seqs) = g[n]
  BY <1>6 DEF FlattenSeq
<1>8. g = Flat(g)
  BY <1>5
<1>9. \A i \in 1..n : g[i] = f[i]
  <2> DEFINE E == {i \in 1..n : g[i] = f[i]}
  <2>1. 1 \in E
    <3> HIDE DEF g
    <3>1. 1 \in 1..n /\ g[1] = seqs[1]
      BY <1>8
    <3> QED BY <1>4, <3>1
  <2>2. ASSUME NEW i \in 1..n, i \in E, i < n PROVE i + 1 \in E
    <3> HIDE DEF g
    <3>1. i + 1 \in 1..n /\ i + 1 # 1 /\ (i + 1) - 1 = i
      BY <2>2
    <3>2. g[i + 1] = g[i] \o seqs[i + 1]
      BY <1>8, <3>1
    <3>3. f[i + 1] = f[i] \o seqs[i + 1]
      BY <1>4, <2>2
    <3> QED BY <2>2, <3>1, <3>2, <3>3
  <2> HIDE DEF E
  <2>3. \A i \in 1..n : i \in E /\ i < n => i + 1 \in E
    BY <2>2
  <2>4. \A i \in 1..n : i \in E
    BY <2>1, <2>3, UpTo
  <2> QED BY <2>4 DEF E
<1> HIDE DEF g
<1>10. n \in 1..n /\ f[n] = FlattenSeq(seqs)
  BY <1>7, <1>9
<1> QED BY <1>4, <1>10 DEF Beginnings

LEMMA OneElement ==
  ASSUME NEW S, NEW c \in S
  PROVE  <<c>> \in Seq(S) /\ Len(<<c>>) = 1 /\ <<c>>[1] = c
OBVIOUS

(* Each element of two sequences in a row is one of the first or the second.         *)
LEMMA TwoInARow ==
  ASSUME NEW S, NEW a \in Seq(S), NEW b \in Seq(S)
  PROVE  /\ a \o b \in Seq(S) /\ Len(a \o b) = Len(a) + Len(b)
         /\ \A j \in 1..Len(a) : (a \o b)[j] = a[j]
         /\ \A j \in 1..Len(b) : (a \o b)[Len(a) + j] = b[j]
         /\ \A j \in 1..Len(a \o b) : j \in 1..Len(a) \/ \E k \in 1..Len(b) : j = Len(a) + k
<1>1. /\ a \o b \in Seq(S) /\ Len(a \o b) = Len(a) + Len(b) /\ Len(a) \in Nat /\ Len(b) \in Nat
      /\ \A j \in 1..(Len(a) + Len(b)) :
           (a \o b)[j] = IF j <= Len(a) THEN a[j] ELSE b[j - Len(a)]
  OBVIOUS
<1> DEFINE c == a \o b
           m == Len(a)
           n == Len(b)
<1>2. \A j \in 1..m : j \in 1..(m + n) /\ j <= m
  BY <1>1
<1>3. \A j \in 1..n : m + j \in 1..(m + n) /\ ~ (m + j <= m) /\ (m + j) - m = j
  BY <1>1
<1>4. \A j \in 1..(m + n) : j \in 1..m \/ (j - m \in 1..n /\ j = m + (j - m))
  BY <1>1
<1> HIDE DEF c, m, n
<1>5. c \in Seq(S) /\ Len(c) = m + n /\ \A j \in 1..(m + n) : c[j] = IF j <= m THEN a[j] ELSE b[j - m]
  BY <1>1 DEF c, m, n
<1>6. \A j \in 1..m : c[j] = a[j]
  BY <1>2, <1>5
<1>7. \A j \in 1..n : c[m + j] = b[j]
  BY <1>3, <1>5
<1> QED BY <1>4, <1>5, <1>6, <1>7 DEF c, m, n

(* Each of the sequences takes up where the one before it ends, and each   *)
(* element stands where P wants it: so it does in the row.                 *)
TakeUp(seqs, n, st) == \A i \in 1..n : st[i + 1] = st[i] + Len(seqs[i])
StandsAt(P, s, p) == \A k \in 1..Len(s) : <<s[k], p + k>> \in P

(* Two sequences, the second taking up where the first ends. *)
LEMMA JoinedStand ==
  ASSUME NEW S, NEW P, NEW a \in Seq(S), NEW b \in Seq(S), NEW p \in Nat,
         StandsAt(P, a, p), StandsAt(P, b, p + Len(a))
  PROVE  StandsAt(P, a \o b, p)
<1> DEFINE m == Len(a)
           c == a \o b
<1>1. \A j \in 1..Len(c) : j \in 1..m \/ \E k \in 1..Len(b) : j = m + k
  BY TwoInARow
<1>2. ASSUME NEW j \in 1..m PROVE <<c[j], p + j>> \in P
  <2>1. c[j] = a[j]
    BY TwoInARow
  <2> QED BY <2>1 DEF StandsAt
<1>3. ASSUME NEW k \in 1..Len(b) PROVE <<c[m + k], p + (m + k)>> \in P
  <2>1. c[m + k] = b[k]
    BY TwoInARow
  <2>2. <<b[k], (p + m) + k>> \in P
    BY DEF StandsAt
  <2>4. m \in Nat /\ k \in Nat
    OBVIOUS
  <2>3. (p + m) + k = p + (m + k)
    BY <2>4
  <2> QED BY <2>1, <2>2, <2>3
<1> HIDE DEF c, m
<1>4. StandsAt(P, c, p)
  BY <1>1, <1>2, <1>3 DEF StandsAt
<1> QED BY <1>4 DEF c

(* Any number of them, as long in all as from the first to behind the last. *)
LEMMA RowStands ==
  ASSUME NEW S, NEW P, NEW n \in Nat, NEW seqs \in [1..n -> Seq(S)],
         NEW st \in [1..(n + 1) -> Nat], TakeUp(seqs, n, st),
         \A i \in 1..n : StandsAt(P, seqs[i], st[i])
  PROVE  /\ FlattenSeq(seqs) \in Seq(S) /\ Len(FlattenSeq(seqs)) = st[n + 1] - st[1]
         /\ StandsAt(P, FlattenSeq(seqs), st[1])
<1>1. CASE n = 0
  <2>1. Len(seqs) = 0 /\ seqs \in Seq(S)
    BY <1>1
  <2>2. FlattenSeq(seqs) = seqs
    BY <2>1 DEF FlattenSeq
  <2> QED BY <1>1, <2>1, <2>2 DEF StandsAt
<1>2. CASE n > 0
  <2> HIDE DEF TakeUp, StandsAt
  <2>1. PICK f \in [1..n -> Seq(S)] :
          /\ f[1] = seqs[1] /\ f[n] = FlattenSeq(seqs)
          /\ \A i \in 1..n : i < n => f[i + 1] = f[i] \o seqs[i + 1]
    <3>1. \E f \in [1..n -> Seq(S)] : Beginnings(f, n, seqs) /\ f[n] = FlattenSeq(seqs)
      BY <1>2, FlattenInSteps
    <3> QED BY <3>1 DEF Beginnings
  <2> DEFINE InPlace(s, e) == Len(s) = e - st[1] /\ StandsAt(P, s, st[1])
             D == {i \in 1..n : InPlace(f[i], st[i + 1])}
  <2>2. 1 \in D
    <3>1. 1 \in 1..n /\ st[1] \in Nat /\ Len(seqs[1]) \in Nat
      BY <1>2
    <3> QED BY <2>1, <3>1 DEF TakeUp
  <2>3. ASSUME NEW i \in 1..n, i \in D, i < n PROVE i + 1 \in D
    <3>1. i + 1 \in 1..n /\ i + 1 \in 1..(n + 1)
      BY <2>3
    <3>2. f[i + 1] = f[i] \o seqs[i + 1]
      BY <2>1, <2>3
    <3>3. PICK p \in Nat, q \in Nat, r \in Nat : p = st[1] /\ q = st[i + 1] /\ r = st[(i + 1) + 1]
      <4>1. st[1] \in Nat /\ st[i + 1] \in Nat /\ st[(i + 1) + 1] \in Nat
        BY <3>1
      <4> QED BY <4>1
    <3>4. PICK a \in Seq(S), b \in Seq(S) : a = f[i] /\ b = seqs[i + 1]
      BY <3>1
    <3>5. Len(a) = q - p /\ StandsAt(P, a, p) /\ r = q + Len(b) /\ StandsAt(P, b, q)
      BY <2>3, <3>1, <3>3, <3>4 DEF TakeUp
    <3>6. Len(a) \in Nat /\ p + Len(a) = q
      BY <3>5
    <3>7. StandsAt(P, a \o b, p) /\ Len(a \o b) = Len(a) + Len(b)
      BY <3>5, <3>6, JoinedStand, TwoInARow
    <3>8. Len(a \o b) = r - p
      BY <3>5, <3>6, <3>7
    <3> QED BY <3>1, <3>2, <3>3, <3>4, <3>7, <3>8
  <2>4. InPlace(f[n], st[n + 1])
    <3> HIDE DEF D
    <3>1. \A i \in 1..n : i \in D /\ i < n => i + 1 \in D
      BY <2>3
    <3>2. n \in 1..n
      BY <1>2
    <3>3. \A i \in 1..n : i \in D
      BY <2>2, <3>1, UpTo
    <3> QED BY <3>2, <3>3 DEF D
  <2>5. f[n] \in Seq(S)
    BY <1>2, <2>1
  <2> QED BY <2>1, <2>4, <2>5
<1> QED BY <1>1, <1>2

(* Each element of each of them stands in the row where its sequence       *)
(* begins, and so many places on.                                          *)
RowHasUpTo(row, seqs, st, i) ==
  /\ Len(row) = st[i + 1] - st[1]
  /\ \A h \in 1..i : \A k \in 1..Len(seqs[h]) :
       (st[h] - st[1]) + k \in 1..Len(row) /\ row[(st[h] - st[1]) + k] = seqs[h][k]

LEMMA RowHolds ==
  ASSUME NEW S, NEW n \in Nat \ {0}, NEW seqs \in [1..n -> Seq(S)],
         NEW st \in [1..(n + 1) -> Nat], TakeUp(seqs, n, st)
  PROVE  FlattenSeq(seqs) \in Seq(S) /\ RowHasUpTo(FlattenSeq(seqs), seqs, st, n)
<1> HIDE DEF TakeUp
<1>1. PICK f \in [1..n -> Seq(S)] : Beginnings(f, n, seqs) /\ f[n] = FlattenSeq(seqs)
  BY FlattenInSteps
<1> DEFINE D == {i \in 1..n : RowHasUpTo(f[i], seqs, st, i)}
<1>2. 1 \in D
  <2>1. 1 \in 1..n /\ f[1] = seqs[1] /\ Len(seqs[1]) \in Nat /\ st[1] \in Nat
    BY <1>1 DEF Beginnings
  <2>2. st[1 + 1] = st[1] + Len(seqs[1])
    BY <2>1 DEF TakeUp
  <2> QED BY <2>1, <2>2 DEF RowHasUpTo
<1>3. ASSUME NEW i \in 1..n, i \in D, i < n PROVE i + 1 \in D
  <2>1. i + 1 \in 1..n /\ i + 1 \in 1..(n + 1) /\ (i + 1) + 1 \in 1..(n + 1) /\ 1 \in 1..(n + 1)
    BY <1>3
  <2>2. PICK a \in Seq(S), b \in Seq(S) : a = f[i] /\ b = seqs[i + 1] /\ f[i + 1] = a \o b
    BY <1>1, <1>3, <2>1 DEF Beginnings
  <2>3. PICK p \in Nat, q \in Nat, r \in Nat : p = st[1] /\ q = st[i + 1] /\ r = st[(i + 1) + 1]
    <3>1. st[1] \in Nat /\ st[i + 1] \in Nat /\ st[(i + 1) + 1] \in Nat
      BY <2>1
    <3> QED BY <3>1
  <2>4. r = q + Len(b)
    BY <2>1, <2>2, <2>3 DEF TakeUp
  <2>5. Len(a) = q - p /\ Len(a) \in Nat /\ Len(b) \in Nat
    <3>1. RowHasUpTo(f[i], seqs, st, i)
      BY <1>3
    <3>2. Len(f[i]) = st[i + 1] - st[1]
      BY <3>1 DEF RowHasUpTo
    <3> QED BY <2>2, <2>3, <3>2
  <2>6. Len(a \o b) = Len(a) + Len(b) /\ a \o b \in Seq(S)
    BY TwoInARow
  <2>7. Len(a \o b) = r - p
    BY <2>4, <2>5, <2>6
  <2>8. ASSUME NEW h \in 1..(i + 1), NEW k \in 1..Len(seqs[h])
        PROVE  (st[h] - p) + k \in 1..Len(a \o b) /\ (a \o b)[(st[h] - p) + k] = seqs[h][k]
    <3>1. CASE h = i + 1
      <4>1. seqs[h] = b /\ st[h] - p = Len(a)
        BY <2>2, <2>3, <2>5, <3>1
      <4>2. k \in 1..Len(b) /\ k \in Nat
        BY <4>1
      <4>3. Len(a) + k \in 1..(Len(a) + Len(b))
        BY <2>5, <4>2
      <4>4. (a \o b)[Len(a) + k] = b[k]
        BY <4>2, TwoInARow
      <4> QED BY <2>6, <4>1, <4>3, <4>4
    <3>2. CASE h # i + 1
      <4>1. h \in 1..i
        BY <3>2
      <4>2. PICK j : j = (st[h] - p) + k
        OBVIOUS
      <4>3. j \in 1..Len(a) /\ a[j] = seqs[h][k]
        <5>1. \A g \in 1..i : \A l \in 1..Len(seqs[g]) :
                (st[g] - st[1]) + l \in 1..Len(f[i]) /\ f[i][(st[g] - st[1]) + l] = seqs[g][l]
          BY <1>3 DEF RowHasUpTo
        <5> HIDE DEF D
        <5>2. (st[h] - st[1]) + k \in 1..Len(f[i]) /\ f[i][(st[h] - st[1]) + k] = seqs[h][k]
          BY <4>1, <5>1, Zenon
        <5> QED BY <2>2, <2>3, <4>2, <5>2
      <4>4. (a \o b)[j] = a[j] /\ j \in 1..Len(a \o b)
        <5>1. j \in 1..(Len(a) + Len(b))
          BY <2>5, <4>3
        <5> QED BY <2>6, <4>3, <5>1, TwoInARow
      <4> QED BY <4>2, <4>3, <4>4
    <3> QED BY <3>1, <3>2
  <2>9. RowHasUpTo(f[i + 1], seqs, st, i + 1)
    BY <2>2, <2>3, <2>7, <2>8 DEF RowHasUpTo
  <2> QED BY <2>1, <2>9
<1>4. \A i \in 1..n : i \in D
  <2> HIDE DEF D
  <2>1. \A i \in 1..n : i \in D /\ i < n => i + 1 \in D
    BY <1>3
  <2> QED BY <1>2, <2>1, UpTo
<1>5. n \in 1..n
  OBVIOUS
<1> QED BY <1>1, <1>4, <1>5
=============================================================================

--------------------------- MODULE CodecsProofs -----------------------------
(***************************************************************************)
(* What the certificates and the commands write is read back: for any      *)
(* number of fields and arguments, any texts and characters, and any width *)
(* of the numbers in which the lengths are kept.                           *)
(***************************************************************************)
EXTENDS Codecs, FiniteSetTheorems, SequenceLemmas, TLAPS

(***************************************************************************)
(* Certificates                                                            *)
(***************************************************************************)
TextValues == CertTexts \cup {<<>>, NULL}

IsSongCert(c) ==
  /\ c = [version |-> c.version, id |-> c.id, texts |-> c.texts, signature |-> c.signature]
  /\ c.version \in Versions /\ c.id \in CertIds /\ c.texts \in [Places -> TextValues]

SignedFiles ==
  [version : Versions, id : CertIds, turned : BOOLEAN,
   signature : {Unsigned} \cup {<<x>> : x \in {0} \X CertIds \X BOOLEAN}]

(* The memory holds what was written there, and a FileCert is sent signed. *)
CertsInv ==
  /\ IsSongCert(song) /\ IsSongCert(copied)
  /\ memory # <<>> => memory = Written(copied)
  /\ file \in SignedFiles /\ sent \in SignedFiles
  /\ sent.signature # Unsigned => FileValid(sent)

Letters == {"a", "b"}

LEMMA ContentIsText ==
  ASSUME NEW t \in TextValues
  PROVE  /\ Content(t) \in Seq(Letters) /\ Len(Content(t)) \in Nat
         /\ Content(t) \in TextValues /\ Content(Content(t)) = Content(t)
<1>1. NULL \notin Seq(Letters)
  <2>1. NULL = <<"NULL">> /\ Len(NULL) = 1 /\ NULL[1] = "NULL"
    BY DEF NULL
  <2>2. "NULL" \notin Letters
    BY DEF Letters
  <2>3. ASSUME NULL \in Seq(Letters) PROVE FALSE
    <3>1. NULL[1] \in Letters
      BY <2>1, <2>3
    <3> QED BY <2>1, <2>2, <3>1
  <2> QED BY <2>3
<1>2. <<>> \in Seq(Letters)
  OBVIOUS
<1>3. CASE t = NULL
  BY <1>1, <1>2, <1>3 DEF Content, TextValues
<1>4. CASE t # NULL
  <2>1. t \in Seq(Letters)
    BY <1>2, <1>4, CertsAssumption DEF TextValues, Letters
  <2>2. Content(t) = t
    BY <1>4 DEF Content
  <2> QED BY <2>1, <2>2
<1> QED BY <1>3, <1>4

(* Where the texts of a certificate begin: behind the cell before st[i].   *)
LaidOut(c, st) ==
  /\ st \in [1..(Fields + 1) -> Nat] /\ st[1] = HEAD
  /\ \A i \in Places : st[i + 1] = st[i] + (Len(Content(c.texts[i])) + 1)

LEMMA OneIsLaidOut ==
  ASSUME NEW c, IsSongCert(c) PROVE \E st : LaidOut(c, st)
<1> DEFINE next == [i \in 1..Fields |-> [p \in Nat |-> p + (Len(Content(c.texts[i])) + 1)]]
<1>1. \A i \in Places : Len(Content(c.texts[i])) \in Nat
  BY ContentIsText DEF IsSongCert
<1>2. next \in [1..Fields -> [Nat -> Nat]] /\ HEAD \in Nat /\ Fields \in Nat
  BY <1>1, CertsAssumption DEF HEAD, Places
<1>3. PICK f \in [0..Fields -> Nat] :
        f[0] = HEAD /\ \A i \in 1..Fields : f[i] = next[i][f[i - 1]]
  <2> HIDE DEF next
  <2>1. \E f \in [0..Fields -> Nat] : Follows(f, Fields, HEAD, next)
    BY <1>2, StepByStep
  <2> QED BY <2>1 DEF Follows
<1> DEFINE st == [i \in 1..(Fields + 1) |-> f[i - 1]]
<1>4. \A i \in 1..(Fields + 1) : i - 1 \in 0..Fields
  BY <1>2
<1>5. st \in [1..(Fields + 1) -> Nat] /\ st[1] = HEAD
  BY <1>2, <1>3, <1>4
<1>6. ASSUME NEW i \in Places PROVE st[i + 1] = st[i] + (Len(Content(c.texts[i])) + 1)
  <2>1. i \in 1..Fields /\ i \in 1..(Fields + 1) /\ i + 1 \in 1..(Fields + 1) /\ (i + 1) - 1 = i
        /\ i - 1 \in 0..Fields
    BY <1>2 DEF Places
  <2>2. f[i - 1] \in Nat /\ f[i] = next[i][f[i - 1]]
    BY <1>3, <2>1
  <2> QED BY <2>1, <2>2
<1> QED BY <1>5, <1>6 DEF LaidOut

(* getByteSize counts up to the end of the last text.                      *)
LEMMA SizeIsLaidOut ==
  ASSUME NEW c, IsSongCert(c), NEW st, LaidOut(c, st)
  PROVE  ByteSize(c) = st[Fields + 1] + SIGNATURE
<1> DEFINE F(r) == [i \in 0..Fields |-> IF i = 0 THEN HEAD + SIGNATURE
                                           ELSE r[i - 1] + Len(Content(c.texts[i])) + 1]
           f == [i \in 0..Fields |-> st[i + 1] + SIGNATURE]
           g == CHOOSE r : r = F(r)
<1>1. Fields \in Nat /\ Fields \in 1..Fields /\ HEAD \in Nat /\ SIGNATURE \in Nat
  BY CertsAssumption DEF HEAD, SIGNATURE
<1>2. ASSUME NEW i \in Places
      PROVE  /\ i \in 0..Fields /\ i - 1 \in 0..Fields /\ i # 0 /\ (i - 1) + 1 = i
             /\ st[i] \in Nat /\ st[i + 1] \in Nat /\ Len(Content(c.texts[i])) \in Nat
             /\ st[i + 1] = st[i] + (Len(Content(c.texts[i])) + 1)
  <2>1. i \in 1..Fields /\ i \in 1..(Fields + 1) /\ i + 1 \in 1..(Fields + 1)
    BY <1>1 DEF Places
  <2> QED BY <1>1, <2>1, ContentIsText DEF LaidOut, IsSongCert
<1>3. f = F(f)
  <2>1. ASSUME NEW i \in 0..Fields PROVE f[i] = F(f)[i]
    <3>1. CASE i = 0
      BY <1>1, <3>1 DEF LaidOut
    <3>2. CASE i # 0
      <4>1. i \in Places
        BY <1>1, <3>2 DEF Places
      <4>2. f[i] = st[i + 1] + SIGNATURE /\ f[i - 1] = st[i] + SIGNATURE
        BY <1>2, <4>1
      <4>3. F(f)[i] = f[i - 1] + Len(Content(c.texts[i])) + 1
        BY <3>2
      <4>4. PICK a \in Nat, l \in Nat : a = st[i] /\ l = Len(Content(c.texts[i]))
        BY <1>2, <4>1
      <4>5. st[i + 1] = a + (l + 1)
        BY <1>2, <4>1, <4>4
      <4> HIDE DEF f, F
      <4>6. f[i] = (a + SIGNATURE) + l + 1
        <5>1. SIGNATURE \in Nat
          BY <1>1
        <5>2. (a + (l + 1)) + SIGNATURE = (a + SIGNATURE) + l + 1
          BY <5>1
        <5> QED BY <4>2, <4>5, <5>2
      <4> QED BY <4>2, <4>3, <4>4, <4>6
    <3> QED BY <3>1, <3>2
  <2> QED BY <2>1
<1>4. g = F(g)
  <2> HIDE DEF f, F
  <2> QED BY <1>3
<1>5. ByteSize(c) = g[Fields]
  BY DEF ByteSize
<1> HIDE DEF g
<1> DEFINE E == {i \in 1..Fields : g[i] = st[i + 1] + SIGNATURE}
<1>6. ASSUME NEW i \in Places, g[i - 1] = st[i] + SIGNATURE
      PROVE  i \in E
  <2>1. g[i] = g[i - 1] + Len(Content(c.texts[i])) + 1
    BY <1>2, <1>4
  <2>2. PICK a \in Nat, l \in Nat : a = st[i] /\ l = Len(Content(c.texts[i]))
    BY <1>2
  <2>3. st[i + 1] = a + (l + 1) /\ g[i] = (a + SIGNATURE) + l + 1
    BY <1>2, <1>6, <2>1, <2>2
  <2>4. g[i] = st[i + 1] + SIGNATURE
    BY <1>1, <2>3
  <2> QED BY <2>4 DEF Places
<1>7. g[0] = st[1] + SIGNATURE
  BY <1>1, <1>4 DEF LaidOut
<1>8. 1 \in Places /\ 1 - 1 = 0
  BY CertsAssumption DEF Places
<1>9. \A i \in 1..Fields : i \in E /\ i < Fields => i + 1 \in E
  <2> SUFFICES ASSUME NEW i \in 1..Fields, i \in E, i < Fields PROVE i + 1 \in E
    OBVIOUS
  <2>1. i + 1 \in Places /\ (i + 1) - 1 = i /\ g[i] = st[i + 1] + SIGNATURE
    BY <1>1 DEF Places
  <2> QED BY <1>6, <2>1
<1>10. 1 \in E
  BY <1>6, <1>7, <1>8
<1>11. \A i \in 1..Fields : i \in E
  <2> HIDE DEF E
  <2> QED BY <1>1, <1>9, <1>10, UpTo
<1> QED BY <1>1, <1>5, <1>11

(* What copyToBytes has written, cell by cell.                             *)
CellsAre(m, c, st) ==
  /\ m # <<>> /\ Len(m) \in Nat /\ Len(m) = st[Fields + 1] + 1 /\ DOMAIN m = 1..Len(m)
  /\ m[1] = <<0, c.id>> /\ m[st[Fields + 1] + 1] = SongSignature(Fresh(c))
  /\ \A i \in Places :
       /\ st[i + 1] \in 1..Len(m) /\ m[st[i + 1]] = NUL
       /\ \A k \in 1..Len(Content(c.texts[i])) :
            st[i] + k \in 1..Len(m) /\ m[st[i] + k] = Content(c.texts[i])[k]

LEMMA FreshIsCert ==
  ASSUME NEW c, IsSongCert(c)
  PROVE  /\ IsSongCert(Fresh(c)) /\ Fresh(c).version = 0 /\ Fresh(c).id = c.id
         /\ Fresh(c).texts = c.texts /\ Written(Fresh(c)) = Written(c)
<1>1. /\ Fresh(c) = [version |-> 0, id |-> c.id, texts |-> c.texts, signature |-> c.signature]
  BY DEF IsSongCert, Fresh
<1>2. IsSongCert(Fresh(c)) /\ Fresh(c).version = 0 /\ Fresh(c).id = c.id /\ Fresh(c).texts = c.texts
  BY <1>1, CertsAssumption DEF IsSongCert
<1>3. Fresh(Fresh(c)) = Fresh(c)
  BY <1>1 DEF Fresh
<1>4. TextCells(Fresh(c)) = TextCells(c)
  BY <1>2 DEF TextCells
<1> QED BY <1>2, <1>3, <1>4 DEF Written

LEMMA TextsAreCells ==
  ASSUME NEW c, IsSongCert(c), NEW st, LaidOut(c, st)
  PROVE  /\ TextCells(c) \in Seq(Letters \cup {NUL}) /\ Len(TextCells(c)) = st[Fields + 1] - HEAD
         /\ \A i \in Places :
              /\ st[i + 1] - HEAD \in 1..Len(TextCells(c)) /\ TextCells(c)[st[i + 1] - HEAD] = NUL
              /\ \A k \in 1..Len(Content(c.texts[i])) :
                   /\ (st[i] - HEAD) + k \in 1..Len(TextCells(c))
                   /\ TextCells(c)[(st[i] - HEAD) + k] = Content(c.texts[i])[k]
<1> DEFINE S == Letters \cup {NUL}
           t(i) == Content(c.texts[i])
           seqs == [i \in Places |-> Append(Content(c.texts[i]), NUL)]
<1>1. Fields \in Nat \ {0} /\ Places = 1..Fields
  BY CertsAssumption DEF Places
<1>2. ASSUME NEW i \in Places
      PROVE  /\ t(i) \in Seq(S) /\ Len(t(i)) \in Nat /\ Append(t(i), NUL) \in Seq(S)
             /\ Len(Append(t(i), NUL)) = Len(t(i)) + 1 /\ Append(t(i), NUL)[Len(t(i)) + 1] = NUL
             /\ \A k \in 1..Len(t(i)) : Append(t(i), NUL)[k] = t(i)[k]
  <2>1. c.texts[i] \in TextValues
    BY DEF IsSongCert
  <2>2. t(i) \in Seq(Letters)
    BY <2>1, ContentIsText
  <2>3. PICK x \in Seq(S) : x = t(i)
    BY <2>2
  <2> HIDE DEF t
  <2>4. /\ Len(x) \in Nat /\ Append(x, NUL) \in Seq(S) /\ Len(Append(x, NUL)) = Len(x) + 1
        /\ Append(x, NUL)[Len(x) + 1] = NUL /\ \A k \in 1..Len(x) : Append(x, NUL)[k] = x[k]
    <3> HIDE DEF S
    <3>1. NUL \in S
      BY DEF S
    <3> QED BY <3>1
  <2> QED BY <2>3, <2>4
<1>3. seqs \in [1..Fields -> Seq(S)]
  BY <1>1, <1>2
<1>4. TakeUp(seqs, Fields, st) /\ st \in [1..(Fields + 1) -> Nat] /\ st[1] = HEAD
  BY <1>1, <1>2 DEF TakeUp, LaidOut
<1>5. TextCells(c) = FlattenSeq(seqs)
  BY DEF TextCells
<1>6. TextCells(c) \in Seq(S) /\ RowHasUpTo(TextCells(c), seqs, st, Fields)
  <2> HIDE DEF S, seqs
  <2> QED BY <1>1, <1>3, <1>4, <1>5, RowHolds
<1>7. Len(TextCells(c)) = st[Fields + 1] - HEAD
  BY <1>4, <1>6 DEF RowHasUpTo
<1>8. ASSUME NEW i \in Places
      PROVE  \A k \in 1..Len(seqs[i]) :
               /\ (st[i] - HEAD) + k \in 1..Len(TextCells(c))
               /\ TextCells(c)[(st[i] - HEAD) + k] = seqs[i][k]
  <2> HIDE DEF seqs
  <2> QED BY <1>1, <1>4, <1>6 DEF RowHasUpTo
<1>9. ASSUME NEW i \in Places
      PROVE  /\ st[i + 1] - HEAD \in 1..Len(TextCells(c)) /\ TextCells(c)[st[i + 1] - HEAD] = NUL
             /\ \A k \in 1..Len(t(i)) :
                  /\ (st[i] - HEAD) + k \in 1..Len(TextCells(c))
                  /\ TextCells(c)[(st[i] - HEAD) + k] = t(i)[k]
  <2>1. seqs[i] = Append(t(i), NUL)
    OBVIOUS
  <2>2. i \in 1..(Fields + 1) /\ i + 1 \in 1..(Fields + 1) /\ HEAD \in Nat
    BY <1>1 DEF HEAD
  <2>3. st[i] \in Nat /\ st[i + 1] = st[i] + (Len(t(i)) + 1)
    BY <1>4, <2>2 DEF LaidOut
  <2> HIDE DEF t, seqs
  <2>4. (st[i] - HEAD) + (Len(t(i)) + 1) = st[i + 1] - HEAD /\ Len(t(i)) + 1 \in 1..(Len(t(i)) + 1)
        /\ \A k \in 1..Len(t(i)) : k \in 1..(Len(t(i)) + 1)
    BY <1>2, <2>2, <2>3
  <2> QED BY <1>2, <1>8, <2>1, <2>4
<1> QED BY <1>6, <1>7, <1>9
LEMMA WrittenIsCells ==
  ASSUME NEW c, IsSongCert(c), NEW st, LaidOut(c, st)
  PROVE  CellsAre(Written(c), c, st)
<1> DEFINE t == TextCells(c)
           n == Len(TextCells(c))
           h == <<0, c.id>>
           z == SongSignature(Fresh(c))
           S == Letters \cup {NUL} \cup {h, z}
           m == Written(c)
<1>1. PICK a \in Seq(S), b \in Seq(S), d \in Seq(S) : a = <<h>> /\ b = t /\ d = <<z>>
  <2>1. <<h>> \in Seq(S) /\ <<z>> \in Seq(S)
    <3> HIDE DEF h, z
    <3> QED OBVIOUS
  <2>2. t \in Seq(S)
    BY TextsAreCells
  <2> HIDE DEF h, z, S, t
  <2> QED BY <2>1, <2>2
<1>2. m = (a \o b) \o d
  <2>1. m = Head1(Fresh(c)) \o TextCells(c) \o << SongSignature(Fresh(c)) >>
    BY DEF Written
  <2>2. Head1(Fresh(c)) = <<h>>
    BY FreshIsCert DEF Head1
  <2> QED BY <1>1, <2>1, <2>2
<1>3. Len(a) = 1 /\ a[1] = h /\ Len(d) = 1 /\ d[1] = z
  <2> HIDE DEF h, z, S
  <2> QED BY <1>1
<1>4. Len(b) = n /\ n \in Nat
  BY <1>1
<1> HIDE DEF S, h, z, m, n
<1>5. a \o b \in Seq(S) /\ Len(a \o b) = 1 + n
  <2>1. a \o b \in Seq(S) /\ Len(a \o b) = Len(a) + Len(b)
    BY TwoInARow
  <2> QED BY <1>3, <1>4, <2>1
<1>6. /\ (a \o b) \o d \in Seq(S) /\ Len((a \o b) \o d) = (1 + n) + 1
      /\ ((a \o b) \o d)[(1 + n) + 1] = z
  <2>1. /\ (a \o b) \o d \in Seq(S) /\ Len((a \o b) \o d) = Len(a \o b) + Len(d)
        /\ 1 \in 1..Len(d)
    <3>1. (a \o b) \o d \in Seq(S) /\ Len((a \o b) \o d) = Len(a \o b) + Len(d)
      BY <1>5, TwoInARow
    <3> QED BY <1>3, <3>1
  <2>2. ((a \o b) \o d)[Len(a \o b) + 1] = d[1]
    BY <1>5, <2>1, TwoInARow
  <2> QED BY <1>3, <1>5, <2>1, <2>2
<1>7. ASSUME NEW j \in 1..n
      PROVE  1 + j \in 1..Len(m) /\ m[1 + j] = t[j]
  <2>1. (a \o b)[Len(a) + j] = b[j]
    BY <1>4, TwoInARow
  <2>2. 1 + j \in 1..Len(a \o b) /\ 1 + j \in 1..((1 + n) + 1)
    BY <1>4, <1>5
  <2>3. ((a \o b) \o d)[1 + j] = (a \o b)[1 + j]
    BY <1>5, <2>2, TwoInARow
  <2> QED BY <1>1, <1>2, <1>3, <1>6, <2>1, <2>2, <2>3
<1>8. m[1] = h
  <2>1. 1 \in 1..Len(a) /\ 1 \in 1..Len(a \o b)
    BY <1>3, <1>4, <1>5
  <2>2. (a \o b)[1] = a[1] /\ ((a \o b) \o d)[1] = (a \o b)[1]
    BY <1>5, <2>1, TwoInARow
  <2> QED BY <1>2, <1>3, <2>2
<1>9. HEAD = 1 /\ Fields + 1 \in 1..(Fields + 1) /\ n = st[Fields + 1] - HEAD
  BY CertsAssumption, TextsAreCells DEF HEAD, n
<1>10. st[Fields + 1] \in Nat /\ st[Fields + 1] = 1 + n
  <2>1. st[Fields + 1] \in Nat
    BY <1>9 DEF LaidOut
  <2> QED BY <1>4, <1>9, <2>1
<1>11. /\ m # <<>> /\ Len(m) \in Nat /\ Len(m) = st[Fields + 1] + 1 /\ DOMAIN m = 1..Len(m)
       /\ m[1] = h /\ m[st[Fields + 1] + 1] = z
  <2>1. m \in Seq(S) /\ Len(m) = (1 + n) + 1
    BY <1>2, <1>6
  <2>2. m # <<>> /\ DOMAIN m = 1..Len(m)
    <3>1. Len(m) # 0
      BY <1>4, <2>1
    <3> QED BY <2>1, <3>1
  <2> QED BY <1>2, <1>4, <1>6, <1>8, <1>10, <2>1, <2>2
<1>12. ASSUME NEW i \in Places
       PROVE  /\ st[i + 1] \in 1..Len(m) /\ m[st[i + 1]] = NUL
              /\ \A k \in 1..Len(Content(c.texts[i])) :
                   st[i] + k \in 1..Len(m) /\ m[st[i] + k] = Content(c.texts[i])[k]
  <2>1. i \in 1..(Fields + 1) /\ i + 1 \in 1..(Fields + 1)
    BY CertsAssumption DEF Places
  <2>2. st[i] \in Nat /\ st[i + 1] \in Nat
    BY <2>1 DEF LaidOut
  <2>3. 1 + (st[i + 1] - HEAD) = st[i + 1]
    BY <1>9, <2>2
  <2>4. st[i + 1] - HEAD \in 1..n /\ t[st[i + 1] - HEAD] = NUL
    BY TextsAreCells DEF n
  <2>5. ASSUME NEW k \in 1..Len(Content(c.texts[i]))
        PROVE  st[i] + k \in 1..Len(m) /\ m[st[i] + k] = Content(c.texts[i])[k]
    <3>1. (st[i] - HEAD) + k \in 1..n /\ t[(st[i] - HEAD) + k] = Content(c.texts[i])[k]
      BY TextsAreCells DEF n
    <3>2. 1 + ((st[i] - HEAD) + k) = st[i] + k
      BY <1>9, <2>2
    <3> HIDE DEF t
    <3> QED BY <1>7, <3>1, <3>2
  <2> HIDE DEF t
  <2> QED BY <1>7, <2>3, <2>4, <2>5
<1> QED BY <1>11, <1>12 DEF CellsAre, m, h, z

(* The reader finds the end of each text: no character of one is a NUL.    *)
LEMMA NulsAreLaidOut ==
  ASSUME NEW c, IsSongCert(c), NEW st, LaidOut(c, st), NEW m, CellsAre(m, c, st)
  PROVE  \A i \in 0..Fields : NulAt(m)[i] = st[i + 1]
<1> DEFINE Ends(p, e) == Cell(m, e) = NUL /\ \A g \in (p + 1)..(e - 1) : Cell(m, g) # NUL
           Next(p) == CHOOSE e \in (p + 1)..(p + 1 + Len(m)) :
                        /\ Cell(m, e) = NUL
                        /\ \A g \in (p + 1)..(e - 1) : Cell(m, g) # NUL
           F(nul) == [i \in 0..Fields |-> IF i = 0 THEN HEAD ELSE Next(nul[i - 1])]
           f == [i \in 0..Fields |-> st[i + 1]]
           g == CHOOSE nul : nul = F(nul)
<1>1. Fields \in Nat \ {0} /\ Places = 1..Fields /\ HEAD \in Nat /\ Len(m) \in Nat
  BY CertsAssumption DEF Places, HEAD, CellsAre
<1>2. ASSUME NEW i \in Places PROVE Next(st[i]) = st[i + 1]
  <2>1. i \in 1..(Fields + 1) /\ i + 1 \in 1..(Fields + 1)
    BY <1>1
  <2>2. PICK p \in Nat, e \in Nat, l \in Nat :
          p = st[i] /\ e = st[i + 1] /\ l = Len(Content(c.texts[i])) /\ e = p + (l + 1)
    BY <2>1, ContentIsText DEF LaidOut, IsSongCert
  <2>3. e \in 1..Len(m) /\ Cell(m, e) = NUL
    BY <2>2 DEF CellsAre, Cell
  <2>4. ASSUME NEW x \in (p + 1)..(e - 1) PROVE Cell(m, x) # NUL
    <3>1. x - p \in 1..l /\ p + (x - p) = x
      BY <2>2
    <3>2. x \in 1..Len(m) /\ m[x] = Content(c.texts[i])[x - p]
      BY <2>2, <3>1 DEF CellsAre
    <3>3. Content(c.texts[i])[x - p] \in Letters
      BY <2>2, <3>1, ContentIsText DEF IsSongCert
    <3>4. NUL \notin Letters
      BY DEF NUL, Letters
    <3> QED BY <3>2, <3>3, <3>4 DEF Cell, CellsAre
  <2>5. e \in (p + 1)..(p + 1 + Len(m))
    BY <1>1, <2>2, <2>3
  <2>6. ASSUME NEW x \in (p + 1)..(p + 1 + Len(m)), Ends(p, x) PROVE x = e
    <3>1. x < e => FALSE
      <4>1. x < e => x \in (p + 1)..(e - 1)
        BY <1>1, <2>2
      <4> QED BY <2>4, <2>6, <4>1
    <3>2. x > e => FALSE
      <4>1. x > e => e \in (p + 1)..(x - 1)
        BY <1>1, <2>2
      <4> QED BY <2>3, <2>6, <4>1
    <3>3. x \in Int /\ e \in Int
      BY <1>1
    <3> QED BY <3>1, <3>2, <3>3
  <2>7. Ends(p, e)
    BY <2>3, <2>4
  <2>8. Next(p) = CHOOSE x \in (p + 1)..(p + 1 + Len(m)) : Ends(p, x)
    OBVIOUS
  <2> HIDE DEF Ends, Next
  <2> QED BY <2>2, <2>5, <2>6, <2>7, <2>8
<1>3. NulAt(m) = g
  BY DEF NulAt
<1> HIDE DEF Next
<1>4. \A i \in Places : i \in 0..Fields /\ i - 1 \in 0..Fields /\ i # 0 /\ (i - 1) + 1 = i
  BY <1>1
<1>5. f = F(f)
  <2>1. ASSUME NEW i \in 0..Fields PROVE f[i] = F(f)[i]
    <3>1. CASE i = 0
      BY <1>1, <3>1 DEF LaidOut
    <3>2. CASE i # 0
      <4>1. i \in Places
        BY <1>1, <3>2
      <4> QED BY <1>2, <1>4, <3>2, <4>1
    <3> QED BY <3>1, <3>2
  <2> QED BY <2>1
<1>6. g = F(g)
  <2> HIDE DEF f, F
  <2> QED BY <1>5
<1> HIDE DEF g
<1>7. g[0] = st[0 + 1]
  BY <1>1, <1>6 DEF LaidOut
<1>8. \A i \in Places : g[i] = Next(g[i - 1])
  BY <1>4, <1>6
<1> DEFINE E == {i \in 1..Fields : g[i] = st[i + 1]}
<1>9. 1 \in E
  <2>1. 1 \in Places /\ 1 - 1 = 0 /\ 0 + 1 = 1
    BY <1>1
  <2> QED BY <1>1, <1>2, <1>7, <1>8, <2>1
<1>10. \A i \in 1..Fields : i \in E /\ i < Fields => i + 1 \in E
  <2> SUFFICES ASSUME NEW i \in 1..Fields, i \in E, i < Fields PROVE i + 1 \in E
    OBVIOUS
  <2>1. i + 1 \in Places /\ (i + 1) - 1 = i
    BY <1>1
  <2> QED BY <1>1, <1>2, <1>8, <2>1
<1>11. \A i \in 1..Fields : i \in E
  <2> HIDE DEF E
  <2> QED BY <1>1, <1>9, <1>10, UpTo
<1>12. ASSUME NEW i \in 0..Fields PROVE g[i] = st[i + 1]
  <2>1. i = 0 \/ i \in 1..Fields
    BY <1>1
  <2> QED BY <1>7, <1>11, <2>1
<1> QED BY <1>3, <1>12

LEMMA ReadsBack ==
  ASSUME NEW c, IsSongCert(c)
  PROVE  LET r == ReadBack(Written(c))
         IN  /\ IsSongCert(r) /\ r.version = 0 /\ r.id = c.id /\ SongValid(r)
             /\ r.texts = [i \in Places |-> Content(c.texts[i])]
             /\ Len(Written(c)) = ByteSize(c) /\ Written(c) # <<>>
             /\ NulAt(Written(c))[Fields] + SIGNATURE = ByteSize(c)
<1> DEFINE m == Written(c)
           r == ReadBack(Written(c))
           texts == [i \in Places |-> Content(c.texts[i])]
<1>1. PICK st : LaidOut(c, st)
  BY OneIsLaidOut
<1>2. CellsAre(m, c, st) /\ ByteSize(c) = st[Fields + 1] + SIGNATURE
  BY <1>1, WrittenIsCells, SizeIsLaidOut
<1>3. \A i \in 0..Fields : NulAt(m)[i] = st[i + 1]
  BY <1>1, <1>2, NulsAreLaidOut
<1>4. Fields \in 0..Fields /\ Fields \in Nat /\ Places = 1..Fields
  BY CertsAssumption DEF Places
<1>5. m # <<>> /\ Len(m) = ByteSize(c) /\ NulAt(m)[Fields] + SIGNATURE = ByteSize(c)
  BY <1>2, <1>3, <1>4 DEF CellsAre, SIGNATURE
<1>6. Cell(m, NulAt(m)[Fields] + 1) = SongSignature(Fresh(c))
  <2>1. st[Fields + 1] + 1 \in DOMAIN m
    <3>1. Fields + 1 \in 1..(Fields + 1)
      BY <1>4
    <3>2. st[Fields + 1] \in Nat
      BY <1>1, <3>1 DEF LaidOut
    <3> QED BY <1>2, <3>2 DEF CellsAre
  <2> QED BY <1>2, <1>3, <1>4, <2>1 DEF CellsAre, Cell
<1>7. ASSUME NEW i \in Places
      PROVE  SubSeq(m, NulAt(m)[i - 1] + 1, NulAt(m)[i] - 1) = Content(c.texts[i])
  <2>1. i - 1 \in 0..Fields /\ i \in 0..Fields /\ (i - 1) + 1 = i
        /\ i \in 1..(Fields + 1) /\ i + 1 \in 1..(Fields + 1)
    BY <1>4
  <2>2. PICK p \in Nat, e \in Nat, l \in Nat, t \in Seq(Letters) :
          /\ p = st[i] /\ e = st[i + 1] /\ t = Content(c.texts[i]) /\ l = Len(t) /\ e = p + (l + 1)
    BY <1>1, <2>1, ContentIsText DEF LaidOut, IsSongCert
  <2>3. NulAt(m)[i - 1] = p /\ NulAt(m)[i] = e
    BY <1>3, <2>1, <2>2
  <2>4. \A k \in 1..l : p + k \in 1..Len(m) /\ m[p + k] = t[k]
    BY <1>2, <2>2 DEF CellsAre
  <2>5. SubSeq(m, p + 1, e - 1) = [k \in 1..l |-> m[p + k]]
    <3>1. SubSeq(m, p + 1, e - 1) = [k \in 1..((e - 1) - (p + 1) + 1) |-> m[k + (p + 1) - 1]]
      OBVIOUS
    <3>2. (e - 1) - (p + 1) + 1 = l /\ \A k \in 1..l : k + (p + 1) - 1 = p + k
      BY <2>2
    <3> QED BY <3>1, <3>2
  <2>6. [k \in 1..l |-> m[p + k]] = [k \in 1..l |-> t[k]]
    BY <2>4
  <2>7. t = [k \in 1..l |-> t[k]]
    BY <2>2
  <2> QED BY <2>2, <2>3, <2>5, <2>6, <2>7
<1>8. r = [version |-> 0, id |-> c.id, texts |-> texts, signature |-> <<SongSignature(Fresh(c))>>]
  <2>1. m[1][1] = 0 /\ m[1][2] = c.id
    BY <1>2 DEF CellsAre
  <2>2. [i \in Places |-> SubSeq(m, NulAt(m)[i - 1] + 1, NulAt(m)[i] - 1)] = texts
    BY <1>7
  <2> HIDE DEF texts, m
  <2> QED BY <1>6, <2>1, <2>2 DEF ReadBack, m
<1>9. texts \in [Places -> TextValues] /\ \A i \in Places : Content(texts[i]) = Content(c.texts[i])
  BY ContentIsText DEF IsSongCert
<1>10. SongValid(r)
  <2>1. TextCells(r) = TextCells(Fresh(c))
    <3>1. [i \in Places |-> Append(Content(r.texts[i]), NUL)]
            = [i \in Places |-> Append(Content(Fresh(c).texts[i]), NUL)]
      <4>1. \A i \in Places : Content(r.texts[i]) = Content(Fresh(c).texts[i])
        BY <1>8, <1>9, FreshIsCert
      <4> QED BY <4>1
    <3> QED BY <3>1 DEF TextCells
  <2>2. Head1(r) = Head1(Fresh(c))
    BY <1>8, FreshIsCert DEF Head1
  <2>3. r.signature = << SongSignature(Fresh(c)) >>
    BY <1>8
  <2> HIDE DEF r
  <2> QED BY <2>1, <2>2, <2>3 DEF SongValid, SongSignature
<1>11. IsSongCert(r)
  <2>1. c.id \in CertIds
    BY DEF IsSongCert
  <2> HIDE DEF r, texts
  <2> QED BY <1>8, <1>9, <2>1, CertsAssumption DEF IsSongCert
<1>12. r.version = 0 /\ r.id = c.id /\ r.texts = texts
  <2> HIDE DEF texts
  <2> QED BY <1>8
<1> QED BY <1>5, <1>10, <1>11, <1>12
LEMMA CertsInitInv == CertsInit => CertsInv
<1> SUFFICES ASSUME NEW id \in CertIds, song = NewSong(id), copied = NewSong(id), memory = <<>>,
                    file = NewFile(id), sent = NewFile(id)
             PROVE  CertsInv
  BY DEF CertsInit
<1>1. IsSongCert(NewSong(id))
  BY CertsAssumption DEF NewSong, IsSongCert, TextValues
<1>2. NewFile(id) \in SignedFiles /\ NewFile(id).signature = Unsigned
  BY CertsAssumption DEF NewFile, SignedFiles
<1> QED BY <1>1, <1>2 DEF CertsInv

LEMMA FileSignedIsValid ==
  ASSUME NEW f \in SignedFiles
  PROVE  FileSigned(f) \in SignedFiles /\ FileValid(FileSigned(f))
<1>1. FileSigned(f) = [version |-> 0, id |-> f.id, turned |-> f.turned,
                       signature |-> << <<0, f.id, f.turned>> >>]
  <2>1. f = [version |-> f.version, id |-> f.id, turned |-> f.turned, signature |-> f.signature]
    BY DEF SignedFiles
  <2>2. PICK x : x = << <<0, f.id, f.turned>> >>
    OBVIOUS
  <2>3. FileSigned(f) = [f EXCEPT !.version = 0, !.signature = x]
    BY <2>2 DEF FileSigned
  <2> QED BY <2>1, <2>2, <2>3
<1>2. f.id \in CertIds /\ f.turned \in BOOLEAN /\ <<0, f.id, f.turned>> \in {0} \X CertIds \X BOOLEAN
  BY DEF SignedFiles
<1>3. FileSigned(f) \in SignedFiles
  BY <1>1, <1>2, CertsAssumption DEF SignedFiles
<1> QED BY <1>1, <1>3 DEF FileValid, FileContent

LEMMA CertsNextKeeps ==
  ASSUME CertsInv, [CertsNext]_certVars PROVE CertsInv'
<1> USE DEF CertsInv
<1>1. CASE UNCHANGED certVars
  BY <1>1 DEF certVars, FileValid, FileContent
<1>2. CASE \E r \in Sizes : SongCopyToBytes(r)
  <2>1. /\ song' = Fresh(song) /\ copied' = Fresh(song) /\ memory' = Written(song)
        /\ UNCHANGED <<file, sent>>
    BY <1>2 DEF SongCopyToBytes
  <2>2. IsSongCert(Fresh(song)) /\ Written(Fresh(song)) = Written(song)
    BY FreshIsCert
  <2>3. IsSongCert(song') /\ IsSongCert(copied') /\ memory' = Written(copied')
    BY <2>1, <2>2
  <2> QED BY <2>1, <2>3 DEF FileValid, FileContent
<1>3. CASE \E r \in Sizes : SongGetFromBytes(r)
  <2>1. /\ memory # <<>> /\ song' = ReadBack(memory) /\ UNCHANGED <<memory, copied, file, sent>>
    BY <1>3 DEF SongGetFromBytes
  <2>2. IsSongCert(ReadBack(memory))
    BY <2>1, ReadsBack
  <2> QED BY <2>1, <2>2 DEF FileValid, FileContent
<1>4. CASE \E i \in Places, text \in CertTexts : SetText(i, text)
  <2>1. PICK i \in Places, text \in CertTexts :
          /\ song' = [song EXCEPT !.texts[i] = text] /\ UNCHANGED <<memory, copied, file, sent>>
    BY <1>4 DEF SetText
  <2>2. PICK t \in [Places -> TextValues] : t = song.texts
    BY DEF IsSongCert
  <2>3. [t EXCEPT ![i] = text] \in [Places -> TextValues]
    BY DEF TextValues
  <2>4. song' = [version |-> song.version, id |-> song.id, texts |-> [t EXCEPT ![i] = text],
                 signature |-> song.signature]
    BY <2>1, <2>2 DEF IsSongCert
  <2>5. IsSongCert(song')
    BY <2>3, <2>4 DEF IsSongCert
  <2> QED BY <2>1, <2>5 DEF FileValid, FileContent
<1>5. CASE \E v \in Versions, id \in CertIds : SetHead(v, id)
  <2>1. PICK v \in Versions, id \in CertIds :
          /\ song' = [song EXCEPT !.version = v, !.id = id] /\ UNCHANGED <<memory, copied, file, sent>>
    BY <1>5 DEF SetHead
  <2>2. song' = [version |-> v, id |-> id, texts |-> song.texts, signature |-> song.signature]
    BY <2>1 DEF IsSongCert
  <2>3. IsSongCert(song')
    BY <2>2 DEF IsSongCert
  <2> QED BY <2>1, <2>3 DEF FileValid, FileContent
<1>6. CASE \E v \in Versions, id \in CertIds : FileSet(v, id)
  <2>1. UNCHANGED <<song, memory, copied, sent>> /\ file' \in SignedFiles
    BY <1>6 DEF FileSet, SignedFiles
  <2> QED BY <2>1 DEF FileValid, FileContent
<1>7. CASE FileCopyToBytes
  <2>1. /\ file' = FileSigned(file) /\ sent' = FileSigned(file) /\ UNCHANGED <<song, memory, copied>>
    BY <1>7 DEF FileCopyToBytes
  <2>2. file' \in SignedFiles /\ sent' \in SignedFiles /\ FileValid(sent')
    BY <2>1, FileSignedIsValid
  <2> QED BY <2>1, <2>2 DEF FileValid, FileContent
<1>8. CASE FileGetFromBytes
  BY <1>8 DEF FileGetFromBytes, FileValid, FileContent
<1>9. CASE FileNtoh
  <2>1. UNCHANGED <<song, memory, copied, sent>> /\ file' \in SignedFiles
    BY <1>9 DEF FileNtoh, SignedFiles
  <2> QED BY <2>1 DEF FileValid, FileContent
<1> QED BY <1>1, <1>2, <1>3, <1>4, <1>5, <1>6, <1>7, <1>8, <1>9 DEF CertsNext

(* Two song certificates of one signature have the same head and texts, so *)
(* the same is written for both and read back.                             *)
LEMMA SignedAlike ==
  ASSUME NEW c, IsSongCert(c), NEW d, IsSongCert(d), SongSignature(c) = SongSignature(d)
  PROVE  \A i \in Places : Content(c.texts[i]) = Content(d.texts[i])
<1> DEFINE S == Letters \cup {NUL} \cup {<<c.version, c.id>>, <<d.version, d.id>>}
<1>1. TextCells(c) \in Seq(S) /\ TextCells(d) \in Seq(S)
  BY OneIsLaidOut, TextsAreCells
<1>2. PICK x \in Seq(S), y \in Seq(S), p \in Seq(S), q \in Seq(S) :
        x = TextCells(c) /\ y = TextCells(d) /\ p = Head1(c) /\ q = Head1(d)
  <2>1. Head1(c) \in Seq(S) /\ Head1(d) \in Seq(S)
    <3>1. \A e : e \in S => <<e>> \in Seq(S)
      <4> HIDE DEF S
      <4> QED OBVIOUS
    <3> QED BY <3>1 DEF Head1
  <2> QED BY <1>1, <2>1
<1>3. Len(p) = 1 /\ Len(q) = 1 /\ p[1] = <<c.version, c.id>> /\ q[1] = <<d.version, d.id>>
  BY <1>2 DEF Head1
<1>4. p \o x = q \o y
  BY <1>2 DEF SongSignature
<1> HIDE DEF S
<1>5. /\ Len(p \o x) = Len(p) + Len(x) /\ Len(q \o y) = Len(q) + Len(y)
      /\ Len(x) \in Nat /\ Len(y) \in Nat
  BY TwoInARow
<1>6. Len(x) = Len(y)
  BY <1>3, <1>4, <1>5
<1>7. ASSUME NEW j \in 1..Len(x) PROVE x[j] = y[j]
  <2>1. (p \o x)[Len(p) + j] = x[j] /\ (q \o y)[Len(q) + j] = y[j]
    BY <1>6, TwoInARow
  <2> QED BY <1>3, <1>4, <2>1
<1>8. x = y
  BY <1>6, <1>7
<1>9. p[1] = q[1]
  <2>1. 1 \in 1..Len(p) /\ 1 \in 1..Len(q)
    BY <1>3
  <2>2. (p \o x)[1] = p[1] /\ (q \o y)[1] = q[1]
    BY <2>1, TwoInARow
  <2> QED BY <1>4, <2>2
<1>10. c.id = d.id
  BY <1>3, <1>9
<1>11. SongSignature(Fresh(c)) = SongSignature(Fresh(d)) /\ Head1(Fresh(c)) = Head1(Fresh(d))
  <2>1. TextCells(Fresh(c)) = TextCells(c) /\ TextCells(Fresh(d)) = TextCells(d)
    BY FreshIsCert DEF TextCells
  <2>2. Head1(Fresh(c)) = Head1(Fresh(d))
    BY <1>10, FreshIsCert DEF Head1
  <2> QED BY <1>2, <1>8, <2>1, <2>2 DEF SongSignature
<1>12. Written(c) = Written(d)
  BY <1>2, <1>8, <1>11 DEF Written
<1>13. /\ ReadBack(Written(c)).texts = [i \in Places |-> Content(c.texts[i])]
       /\ ReadBack(Written(d)).texts = [i \in Places |-> Content(d.texts[i])]
  BY ReadsBack
<1>14. [i \in Places |-> Content(c.texts[i])] = [i \in Places |-> Content(d.texts[i])]
  BY <1>12, <1>13
<1> QED
  <2> SUFFICES ASSUME NEW i \in Places PROVE Content(c.texts[i]) = Content(d.texts[i])
    OBVIOUS
  <2>1. /\ Content(c.texts[i]) = [j \in Places |-> Content(c.texts[j])][i]
        /\ Content(d.texts[i]) = [j \in Places |-> Content(d.texts[j])][i]
    OBVIOUS
  <2> QED BY <1>14, <2>1

LEMMA CertsInvIsSound == CertsInv => CertsSound
<1> SUFFICES ASSUME CertsInv PROVE CertsSound
  OBVIOUS
<1>1. CertsTypeOK
  BY DEF CertsInv, IsSongCert, TextValues, SignedFiles, CertsTypeOK
<1>2. SizeIsExact
  BY ReadsBack DEF CertsInv, SizeIsExact
<1>3. CertRoundTrip
  <2>1. ASSUME memory # <<>>
        PROVE  /\ SongValid(ReadBack(memory)) /\ ReadBack(memory).id = copied.id
               /\ \A i \in Places : ReadBack(memory).texts[i] = Content(copied.texts[i])
    <3>1. memory = Written(copied) /\ IsSongCert(copied)
      BY <2>1 DEF CertsInv
    <3>2. /\ SongValid(ReadBack(memory)) /\ ReadBack(memory).id = copied.id
          /\ ReadBack(memory).texts = [i \in Places |-> Content(copied.texts[i])]
      BY <3>1, ReadsBack
    <3> QED BY <3>2
  <2> QED BY <2>1 DEF CertsInv, CertRoundTrip
<1>4. SignatureTells
  BY SignedAlike DEF CertsInv, SignatureTells
<1> QED BY <1>1, <1>2, <1>3, <1>4 DEF CertsSound

(* For any number of texts of any length, set in any order: a buffer of    *)
(* the size that is computed holds what is written to the cell, what is    *)
(* read back is what was written and validly signed, and two certificates  *)
(* of one signature have the same texts (filecert.cc:129-330).             *)
THEOREM CertificatesReadBack == CertsSpec => []CertsSound
<1>1. CertsInv /\ [CertsNext]_certVars => CertsInv'
  BY CertsNextKeeps
<1> QED BY <1>1, CertsInitInv, CertsInvIsSound, PTL DEF CertsSpec

-----------------------------------------------------------------------------
(***************************************************************************)
(* Commands                                                                *)
(***************************************************************************)
(* Those of the arguments whose sizes Arg::size holds. *)
Narrowed(args) == {a \in args : Wide(a) < SizeMod}
Args == Narrowed(TextArg) \cup Narrowed(BinaryArg)
ArgsOfKind == IF kind = "text" THEN Narrowed(TextArg) ELSE Narrowed(BinaryArg)

(* A step that packs no wider one. *)
NarrowNext ==
  \/ \E a \in ArgsOfKind : Push(a)
  \/ Flush
  \/ ReadHere \/ Receive \/ Copy
  \/ UnshiftNothing \/ UnshiftText \/ UnshiftWild
  \/ \E t \in Type : UnshiftBinary(t)

(* The cells of a buffer. *)
Cells ==
  Char \cup {Nul, Blank, Quote, Unset, Rest}
  \cup {<<"int", b>> : b \in Seq(Char)} \cup {<<"head", n, t>> : n \in Nat, t \in Type}

(* A buffer that is there ends with a NUL, which is what strings are read  *)
(* up to, and has room for one behind what is used.                        *)
BufferInv ==
  /\ data \in Seq(Cells)
  /\ data = <<>> => size = 0
  /\ data # <<>> => size < Len(data) /\ data[Len(data)] = Nul
  /\ (kind = "text" /\ offset = Wild) \/ offset \in 0 .. Len(data)
  /\ kind = "text" /\ offset # Wild /\ data # <<>> => offset < Len(data)

CommandTypes ==
  /\ kind \in {"text", "binary"} /\ stage \in {"pack", "unpack", "received", "crashed"}
  /\ size \in 0 .. SizeMod - 1 /\ total \in Nat /\ overflow = FALSE
  /\ writer \in Seq(ArgsOfKind) /\ packed \in Seq(ArgsOfKind)
  /\ asked \in Seq(Type) /\ \E S : results \in Seq(S)
  /\ Len(asked) = Len(results) /\ Len(results) <= Len(packed)
  /\ stage = "pack" => offset = 0 /\ results = <<>>
  /\ BufferInv

(* What the arguments are. *)
LEMMA ArgsAre ==
  ASSUME NEW a \in Args
  PROVE  /\ a = [type |-> a.type, body |-> a.body] /\ a.type \in Type
         /\ a.body \in Seq(Char) /\ a.body \in Seq(Cells) /\ Len(a.body) \in Nat
         /\ a.type = "INTEGER" => Len(a.body) \in 1 .. 11 /\ a.body \in Seq(Numeral)
         /\ a.type # "DATA" => \A i \in 1 .. Len(a.body) : a.body[i] # Nul
         /\ ArgSize(a) = Wide(a) /\ ArgSize(a) \in Nat
<1>0. a \in TextArg \cup BinaryArg /\ Wide(a) < SizeMod
  BY DEF Args, Narrowed
<1>1. a \in [type : Type, body : Seq(Char)]
  BY <1>0, CommandAssumption
<1>2. a.type \in Type /\ a.body \in Seq(Char) /\ a = [type |-> a.type, body |-> a.body]
  BY <1>1
<1>3. a.body \in Seq(Cells) /\ Len(a.body) \in Nat
  <2>1. PICK b \in Seq(Char) : b = a.body
    BY <1>2
  <2>2. b \in Seq(Cells)
    BY DEF Cells
  <2> QED BY <2>1, <2>2
<1>4. ArgSize(a) = Wide(a) /\ ArgSize(a) \in Nat
  <2>1. Wide(a) \in Nat
    BY <1>2, <1>3 DEF Wide, Type, IntBytes
  <2>2. PICK w \in Nat, n \in Nat \ {0} : w = Wide(a) /\ n = SizeMod /\ w < n
    BY <1>0, <2>1, CommandAssumption
  <2>3. w % n = w
    BY <2>2
  <2> QED BY <2>2, <2>3 DEF ArgSize
<1> QED BY <1>0, <1>2, <1>3, <1>4, CommandAssumption

LEMMA ShownIs ==
  ASSUME NEW a \in Args, a.type # "DATA"
  PROVE  /\ Shown(a) \in Seq(Cells) /\ Len(Shown(a)) \in Nat
         /\ Len(Shown(a)) + 1 <= Room(a) /\ Room(a) \in Nat
         /\ ~ Quoted(a) => Shown(a) = a.body
         /\ Quoted(a) =>
              /\ Len(Shown(a)) = Len(a.body) + 2
              /\ Shown(a)[1] = Quote /\ Shown(a)[Len(a.body) + 2] = Quote
              /\ \A k \in 1 .. Len(a.body) : Shown(a)[1 + k] = a.body[k]
<1>1. PICK b \in Seq(Cells) : b = a.body
  BY ArgsAre
<1>2. Len(b) \in Nat
  OBVIOUS
<1>3. a.type \in {"INTEGER", "STRING"}
  BY ArgsAre DEF Type
<1>4. /\ Room(a) \in Nat
      /\ Len(b) + 3 <= Room(a) \/ (a.type = "INTEGER" /\ Len(b) + 1 <= Room(a))
  <2>1. CASE a.type = "INTEGER"
    <3>1. Len(b) \in 1 .. 11
      BY <1>1, <2>1, ArgsAre
    <3>2. Room(a) = 12
      BY <2>1, ArgsAre DEF Room, Wide, HeadBytes, IntBytes
    <3>3. PICK n \in 1 .. 11 : n = Len(b)
      BY <3>1
    <3>4. n + 1 <= 12
      OBVIOUS
    <3> QED BY <2>1, <3>2, <3>3, <3>4
  <2>2. CASE a.type = "STRING"
    BY <1>1, <1>2, <2>2, ArgsAre DEF Room, Wide, HeadBytes
  <2> QED BY <1>3, <2>1, <2>2
<1>5. CASE ~ Quoted(a)
  <2>1. Shown(a) = b
    BY <1>1, <1>5 DEF Shown
  <2> QED BY <1>1, <1>2, <1>4, <1>5, <2>1
<1>6. CASE Quoted(a)
  <2>1. Shown(a) = (<<Quote>> \o b) \o <<Quote>>
    BY <1>1, <1>6 DEF Shown
  <2>2. Quote \in Cells
    BY DEF Cells
  <2>3. PICK q \in Seq(Cells) : q = <<Quote>> /\ Len(q) = 1 /\ q[1] = Quote
    BY <2>2, OneElement
  <2>4. q \o b \in Seq(Cells) /\ Len(q \o b) = Len(q) + Len(b)
    BY TwoInARow
  <2>5. (q \o b) \o q \in Seq(Cells) /\ Len((q \o b) \o q) = Len(q \o b) + Len(q)
    BY <2>4, TwoInARow
  <2>6. ((q \o b) \o q)[Len(q \o b) + 1] = q[1]
    BY <2>3, <2>4, TwoInARow
  <2>7. \A j \in 1 .. Len(q \o b) : ((q \o b) \o q)[j] = (q \o b)[j]
    BY <2>4, TwoInARow
  <2>8. (q \o b)[1] = q[1] /\ \A k \in 1 .. Len(b) : (q \o b)[Len(q) + k] = b[k]
    BY <2>3, TwoInARow
  <2>9. PICK n \in Nat : n = Len(b)
    BY <1>2
  <2>10. Len(q \o b) = 1 + n /\ Len((q \o b) \o q) = n + 2 /\ Len(q) = 1
    BY <2>3, <2>4, <2>5, <2>9
  <2>11. 1 \in 1 .. 1 + n /\ (1 + n) + 1 = n + 2 /\ \A k \in 1 .. n : 1 + k \in 1 .. 1 + n
    OBVIOUS
  <2>12. \A k \in 1 .. n : ((q \o b) \o q)[1 + k] = b[k]
    BY <2>7, <2>8, <2>9, <2>10, <2>11
  <2>13. ((q \o b) \o q)[1] = Quote /\ ((q \o b) \o q)[n + 2] = Quote
    BY <2>3, <2>6, <2>7, <2>8, <2>10, <2>11
  <2>14. a.type = "STRING"
    BY <1>6 DEF Quoted
  <2>15. n + 2 + 1 <= Room(a) /\ Room(a) \in Nat
    BY <1>4, <2>9, <2>14
  <2>16. Shown(a) = (q \o b) \o q
    BY <2>1, <2>3
  <2>17. Len(Shown(a)) = Len(a.body) + 2 /\ Len(a.body) + 2 = n + 2
    BY <1>1, <2>9, <2>10, <2>16
  <2>18. Len(Shown(a)) \in Nat /\ Len(Shown(a)) + 1 <= Room(a)
    BY <2>15, <2>17
  <2> HIDE DEF Cells
  <2> QED BY <1>1, <1>6, <2>5, <2>9, <2>12, <2>13, <2>15, <2>16, <2>17, <2>18
<1> QED BY <1>5, <1>6

LEMMA AllOfIt ==
  ASSUME NEW S, NEW s \in Seq(S) PROVE SubSeq(s, 1, Len(s)) = s
OBVIOUS

LEMMA BodyIs ==
  ASSUME NEW a \in Args
  PROVE  /\ Body(a) \in Seq(Cells) /\ Len(Body(a)) = ArgSize(a) /\ ArgSize(a) \in Nat
         /\ ArgHead(a) \in Seq(Cells) /\ Len(ArgHead(a)) = HeadBytes
         /\ ArgHead(a)[1] = <<"head", ArgSize(a), a.type>>
         /\ a.type = "INTEGER" => ArgSize(a) = IntBytes /\ Body(a)[1] = <<"int", a.body>>
         /\ a.type = "STRING" => /\ ArgSize(a) = Len(a.body) + 1 /\ Body(a)[ArgSize(a)] = Nul
                                 /\ \A k \in 1 .. Len(a.body) : Body(a)[k] = a.body[k]
         /\ a.type = "DATA" => Body(a) = a.body
         /\ Room(a) = HeadBytes + ArgSize(a) + 4
<1>1. /\ Nul \in Cells /\ Rest \in Cells /\ <<"int", a.body>> \in Cells
      /\ <<"head", ArgSize(a), a.type>> \in Cells
  <2>1. a.body \in Seq(Char) /\ ArgSize(a) \in Nat /\ a.type \in Type
    BY ArgsAre
  <2>2. /\ <<"int", a.body>> \in {<<"int", b>> : b \in Seq(Char)}
        /\ <<"head", ArgSize(a), a.type>> \in {<<"head", n, t>> : n \in Nat, t \in Type}
    BY <2>1
  <2> QED BY <2>2 DEF Cells
<1>2. a.type \in Type /\ ArgSize(a) \in Nat
  BY ArgsAre
<1>3. \A c \in Cells, d \in Cells :
        LET q == <<c, d, d, d>> IN q \in Seq(Cells) /\ Len(q) = 4 /\ q[1] = c
  <2> HIDE DEF Cells
  <2> QED OBVIOUS
<1>4. /\ ArgHead(a) \in Seq(Cells) /\ Len(ArgHead(a)) = HeadBytes
      /\ ArgHead(a)[1] = <<"head", ArgSize(a), a.type>>
  BY <1>1, <1>3 DEF ArgHead, HeadBytes
<1>5. Room(a) = HeadBytes + ArgSize(a) + 4
  BY DEF Room
<1>6. CASE a.type = "INTEGER"
  <2>1. /\ Body(a) \in Seq(Cells) /\ Len(Body(a)) = 4 /\ Body(a)[1] = <<"int", a.body>>
    <3>1. Body(a) = <<<<"int", a.body>>, Rest, Rest, Rest>>
      BY <1>6 DEF Body
    <3> QED BY <1>1, <1>3, <3>1
  <2>2. ArgSize(a) = 4
    BY <1>6, ArgsAre DEF Wide, IntBytes
  <2> QED BY <1>2, <1>4, <1>5, <1>6, <2>1, <2>2 DEF IntBytes
<1>7. CASE a.type = "STRING"
  <2>1. PICK b \in Seq(Cells), q \in Seq(Cells) :
          b = a.body /\ q = <<Nul>> /\ Len(q) = 1 /\ q[1] = Nul
    BY <1>1, ArgsAre, OneElement
  <2>3. PICK n \in Nat : n = Len(b)
    OBVIOUS
  <2>4. b \o q \in Seq(Cells) /\ Len(b \o q) = Len(b) + Len(q)
    BY TwoInARow
  <2>5. (b \o q)[Len(b) + 1] = q[1] /\ \A k \in 1 .. Len(b) : (b \o q)[k] = b[k]
    BY <2>1, TwoInARow
  <2>6. ArgSize(a) = n + 1
    BY <1>7, <2>1, <2>3, ArgsAre DEF Wide
  <2>7. Len(b \o q) = n + 1
    BY <2>1, <2>3, <2>4
  <2>2. Body(a) = b \o q
    <3>1. Body(a) = SubSeq(b \o q, 1, ArgSize(a))
      BY <1>7, <2>1 DEF Body
    <3> QED BY <2>4, <2>6, <2>7, <3>1, AllOfIt
  <2> HIDE DEF Cells
  <2> QED BY <1>2, <1>4, <1>5, <1>7, <2>1, <2>2, <2>3, <2>4, <2>5, <2>6, <2>7
<1>8. CASE a.type = "DATA"
  <2>1. Body(a) = a.body /\ ArgSize(a) = Len(a.body)
    <3>1. PICK b \in Seq(Cells) : b = a.body
      BY ArgsAre
    <3>2. ArgSize(a) = Len(b)
      BY <1>8, <3>1, ArgsAre DEF Wide
    <3>3. Body(a) = SubSeq(b, 1, ArgSize(a))
      BY <1>8, <3>1 DEF Body
    <3> QED BY <3>1, <3>2, <3>3, AllOfIt
  <2> QED BY <1>2, <1>4, <1>5, <1>8, <2>1, ArgsAre
<1> QED BY <1>2, <1>6, <1>7, <1>8 DEF Type

LEMMA UsedIs ==
  ASSUME CommandTypes
  PROVE  /\ Used \in Seq(Cells) /\ Len(Used) = size /\ size \in Nat
         /\ \A k \in 1 .. size : Used[k] = data[k] /\ k \in 1 .. Len(data)
<1>1. PICK d \in Seq(Cells) : d = data
  BY DEF CommandTypes, BufferInv
<1>2. size \in Nat
  BY CommandAssumption DEF CommandTypes
<1>3. size <= Len(d)
  <2>1. d = <<>> => size = 0
    BY <1>1 DEF CommandTypes, BufferInv
  <2>2. d # <<>> => size < Len(d)
    BY <1>1 DEF CommandTypes, BufferInv
  <2>3. Len(d) \in Nat
    OBVIOUS
  <2> QED BY <1>2, <2>1, <2>2, <2>3
<1>4. /\ SubSeq(d, 1, size) \in Seq(Cells) /\ Len(SubSeq(d, 1, size)) = size
      /\ \A k \in 1 .. size : SubSeq(d, 1, size)[k] = d[k]
  <2> HIDE DEF Cells
  <2> QED BY <1>2, <1>3
<1>5. \A k \in 1 .. size : k \in 1 .. Len(d)
  BY <1>2, <1>3
<1> QED BY <1>1, <1>2, <1>4, <1>5 DEF Used

(* The three sums of a flush, step by step. *)
EstimateGrows(e) ==
  /\ e[0] = size
  /\ \A i \in 1 .. Len(writer) : e[i] = e[i - 1] + Room(writer[i])
TextGrows(t) ==
  /\ t[0] = Used
  /\ \A i \in 1 .. Len(writer) : t[i] = Joined(t[i - 1], writer[i])
BytesGrow(b) ==
  /\ b[0] = Used
  /\ \A i \in 1 .. Len(writer) : b[i] = b[i - 1] \o ArgHead(writer[i]) \o Body(writer[i])

LEMMA WriterIs ==
  ASSUME CommandTypes
  PROVE  /\ Len(writer) \in Nat /\ \A i \in 1 .. Len(writer) : writer[i] \in Args
         /\ kind = "text" => \A i \in 1 .. Len(writer) : writer[i].type # "DATA"
         /\ Len(packed) \in Nat /\ \A i \in 1 .. Len(packed) : packed[i] \in Args
         /\ kind = "text" => \A i \in 1 .. Len(packed) : packed[i].type # "DATA"
<1>1. ArgsOfKind \subseteq Args /\ (kind = "text" => ArgsOfKind = Narrowed(TextArg))
  BY DEF ArgsOfKind, Args
<1>2. writer \in Seq(ArgsOfKind) /\ packed \in Seq(ArgsOfKind)
  BY DEF CommandTypes
<1>3. \A a \in Narrowed(TextArg) : a.type # "DATA"
  BY CommandAssumption DEF Narrowed
<1> QED BY <1>1, <1>2, <1>3

LEMMA EstimateInSteps ==
  ASSUME CommandTypes
  PROVE  \E e \in [0 .. Len(writer) -> Nat] : EstimateGrows(e) /\ Estimate = e[Len(writer)]
<1> DEFINE n == Len(writer)
           F(e) == [i \in 0 .. n |-> IF i = 0 THEN size ELSE e[i - 1] + Room(writer[i])]
           next == [i \in 1 .. n |-> [s \in Nat |-> s + Room(writer[i])]]
           g == CHOOSE s : s = F(s)
<1>1. n \in Nat /\ size \in Nat /\ \A i \in 1 .. n : Room(writer[i]) \in Nat
  <2>1. \A a \in Args : Room(a) \in Nat
    <3> SUFFICES ASSUME NEW a \in Args PROVE Room(a) \in Nat
      OBVIOUS
    <3>1. ArgSize(a) \in Nat
      BY ArgsAre
    <3> QED BY <3>1 DEF Room, HeadBytes
  <2> QED BY <2>1, WriterIs, UsedIs
<1>2. next \in [1 .. n -> [Nat -> Nat]]
  BY <1>1
<1>3. PICK f \in [0 .. n -> Nat] : f[0] = size /\ \A i \in 1 .. n : f[i] = next[i][f[i - 1]]
  <2> HIDE DEF next, n
  <2>1. \E f \in [0 .. n -> Nat] : Follows(f, n, size, next)
    BY <1>1, <1>2, StepByStep
  <2> QED BY <2>1 DEF Follows
<1>4. \A i \in 1 .. n : i - 1 \in 0 .. n /\ i \in 0 .. n /\ i # 0
  BY <1>1
<1>5. \A i \in 1 .. n : f[i] = f[i - 1] + Room(writer[i])
  BY <1>3, <1>4
<1>6. f = F(f)
  <2>1. \A i \in 0 .. n : i = 0 \/ i \in 1 .. n
    BY <1>1
  <2>2. ASSUME NEW i \in 0 .. n PROVE f[i] = F(f)[i]
    BY <1>3, <1>5, <2>1
  <2> QED BY <2>2
<1>7. g = F(g)
  <2> HIDE DEF F
  <2> QED BY <1>6
<1>8. Estimate = g[n]
  BY DEF Estimate
<1> HIDE DEF g, next, n
<1>9. g = [i \in 0 .. n |-> g[i]] /\ g[0] = size /\ \A i \in 1 .. n : g[i] = g[i - 1] + Room(writer[i])
  <2>1. g = [i \in 0 .. n |-> g[i]]
    BY <1>7
  <2>2. g[0] = size
    BY <1>1, <1>7
  <2>3. \A i \in 1 .. n : g[i] = g[i - 1] + Room(writer[i])
    BY <1>4, <1>7
  <2> QED BY <2>1, <2>2, <2>3
<1>10. \A i \in 1 .. n : g[i - 1] \in Nat => g[i] = next[i][g[i - 1]]
  BY <1>9 DEF next
<1>11. g \in [0 .. n -> Nat]
  BY <1>1, <1>2, <1>9, <1>10, StaysInside
<1>12. EstimateGrows(g)
  BY <1>9 DEF EstimateGrows, n
<1> QED BY <1>8, <1>11, <1>12 DEF n
LEMMA TextInSteps ==
  ASSUME CommandTypes, kind = "text"
  PROVE  \E t \in [0 .. Len(writer) -> Seq(Cells)] : TextGrows(t) /\ Text = t[Len(writer)]
<1> DEFINE n == Len(writer)
           F(t) == [i \in 0 .. n |-> IF i = 0 THEN Used ELSE Joined(t[i - 1], writer[i])]
           next == [i \in 1 .. n |-> [s \in Seq(Cells) |-> Joined(s, writer[i])]]
           g == CHOOSE s : s = F(s)
<1>1. n \in Nat /\ Used \in Seq(Cells)
  BY WriterIs, UsedIs
<1>2. next \in [1 .. n -> [Seq(Cells) -> Seq(Cells)]]
  <2> SUFFICES ASSUME NEW i \in 1 .. n, NEW s \in Seq(Cells) PROVE Joined(s, writer[i]) \in Seq(Cells)
    OBVIOUS
  <2>1. writer[i] \in Args /\ writer[i].type # "DATA"
    BY WriterIs
  <2>2. PICK a \in Seq(Cells) : a = Shown(writer[i])
    BY <2>1, ShownIs
  <2>3. Blank \in Cells
    BY DEF Cells
  <2>4. PICK q \in Seq(Cells) : q = <<Blank>>
    BY <2>3, OneElement
  <2>5. s \o q \in Seq(Cells) /\ (s \o q) \o a \in Seq(Cells)
    BY TwoInARow
  <2> QED BY <2>2, <2>4, <2>5 DEF Joined
<1>3. PICK f \in [0 .. n -> Seq(Cells)] : f[0] = Used /\ \A i \in 1 .. n : f[i] = next[i][f[i - 1]]
  <2> HIDE DEF next, n
  <2>1. \E f \in [0 .. n -> Seq(Cells)] : Follows(f, n, Used, next)
    BY <1>1, <1>2, StepByStep
  <2> QED BY <2>1 DEF Follows
<1>4. \A i \in 1 .. n : i - 1 \in 0 .. n /\ i \in 0 .. n /\ i # 0
  BY <1>1
<1>5. \A i \in 1 .. n : f[i] = Joined(f[i - 1], writer[i])
  BY <1>3, <1>4
<1>6. f = F(f)
  <2>1. \A i \in 0 .. n : i = 0 \/ i \in 1 .. n
    BY <1>1
  <2>2. ASSUME NEW i \in 0 .. n PROVE f[i] = F(f)[i]
    BY <1>3, <1>5, <2>1
  <2> QED BY <2>2
<1>7. g = F(g)
  <2> HIDE DEF F
  <2> QED BY <1>6
<1>8. Text = g[n]
  BY DEF Text
<1> HIDE DEF g, next, n
<1>9. g = [i \in 0 .. n |-> g[i]] /\ g[0] = Used /\ \A i \in 1 .. n : g[i] = Joined(g[i - 1], writer[i])
  <2>1. g = [i \in 0 .. n |-> g[i]]
    BY <1>7
  <2>2. g[0] = Used
    BY <1>1, <1>7
  <2>3. \A i \in 1 .. n : g[i] = Joined(g[i - 1], writer[i])
    BY <1>4, <1>7
  <2> QED BY <2>1, <2>2, <2>3
<1>10. \A i \in 1 .. n : g[i - 1] \in Seq(Cells) => g[i] = next[i][g[i - 1]]
  BY <1>9 DEF next
<1>11. g \in [0 .. n -> Seq(Cells)]
  BY <1>1, <1>2, <1>9, <1>10, StaysInside
<1>12. TextGrows(g)
  BY <1>9 DEF TextGrows, n
<1> QED BY <1>8, <1>11, <1>12 DEF n

LEMMA BytesInSteps ==
  ASSUME CommandTypes
  PROVE  \E t \in [0 .. Len(writer) -> Seq(Cells)] : BytesGrow(t) /\ Bytes = t[Len(writer)]
<1> DEFINE n == Len(writer)
           F(t) == [i \in 0 .. n |-> IF i = 0 THEN Used ELSE t[i - 1] \o ArgHead(writer[i]) \o Body(writer[i])]
           next == [i \in 1 .. n |-> [s \in Seq(Cells) |-> s \o ArgHead(writer[i]) \o Body(writer[i])]]
           g == CHOOSE s : s = F(s)
<1>1. n \in Nat /\ Used \in Seq(Cells)
  BY WriterIs, UsedIs
<1>2. next \in [1 .. n -> [Seq(Cells) -> Seq(Cells)]]
  <2> SUFFICES ASSUME NEW i \in 1 .. n, NEW s \in Seq(Cells) PROVE s \o ArgHead(writer[i]) \o Body(writer[i]) \in Seq(Cells)
    OBVIOUS
  <2>1. writer[i] \in Args
    BY WriterIs
  <2>2. PICK a \in Seq(Cells), b \in Seq(Cells) : a = ArgHead(writer[i]) /\ b = Body(writer[i])
    BY <2>1, BodyIs
  <2>3. s \o a \in Seq(Cells) /\ (s \o a) \o b \in Seq(Cells)
    BY TwoInARow
  <2> QED BY <2>2, <2>3
<1>3. PICK f \in [0 .. n -> Seq(Cells)] : f[0] = Used /\ \A i \in 1 .. n : f[i] = next[i][f[i - 1]]
  <2> HIDE DEF next, n
  <2>1. \E f \in [0 .. n -> Seq(Cells)] : Follows(f, n, Used, next)
    BY <1>1, <1>2, StepByStep
  <2> QED BY <2>1 DEF Follows
<1>4. \A i \in 1 .. n : i - 1 \in 0 .. n /\ i \in 0 .. n /\ i # 0
  BY <1>1
<1>5. \A i \in 1 .. n : f[i] = f[i - 1] \o ArgHead(writer[i]) \o Body(writer[i])
  BY <1>3, <1>4
<1>6. f = F(f)
  <2>1. \A i \in 0 .. n : i = 0 \/ i \in 1 .. n
    BY <1>1
  <2>2. ASSUME NEW i \in 0 .. n PROVE f[i] = F(f)[i]
    BY <1>3, <1>5, <2>1
  <2> QED BY <2>2
<1>7. g = F(g)
  <2> HIDE DEF F
  <2> QED BY <1>6
<1>8. Bytes = g[n]
  BY DEF Bytes
<1> HIDE DEF g, next, n
<1>9. g = [i \in 0 .. n |-> g[i]] /\ g[0] = Used /\ \A i \in 1 .. n : g[i] = g[i - 1] \o ArgHead(writer[i]) \o Body(writer[i])
  <2>1. g = [i \in 0 .. n |-> g[i]]
    BY <1>7
  <2>2. g[0] = Used
    BY <1>1, <1>7
  <2>3. \A i \in 1 .. n : g[i] = g[i - 1] \o ArgHead(writer[i]) \o Body(writer[i])
    BY <1>4, <1>7
  <2> QED BY <2>1, <2>2, <2>3
<1>10. \A i \in 1 .. n : g[i - 1] \in Seq(Cells) => g[i] = next[i][g[i - 1]]
  BY <1>9 DEF next
<1>11. g \in [0 .. n -> Seq(Cells)]
  BY <1>1, <1>2, <1>9, <1>10, StaysInside
<1>12. BytesGrow(g)
  BY <1>9 DEF BytesGrow, n
<1> QED BY <1>8, <1>11, <1>12 DEF n
LEMMA EstimateIs ==
  ASSUME CommandTypes
  PROVE  /\ Estimate \in Nat /\ size <= Estimate
         /\ writer = <<>> => Estimate = size
         /\ writer # <<>> => Estimate > size
<1> DEFINE n == Len(writer)
<1>1. PICK e \in [0 .. n -> Nat] : EstimateGrows(e) /\ Estimate = e[n]
  BY EstimateInSteps
<1>2. n \in Nat /\ size \in Nat /\ (writer = <<>> <=> n = 0)
  BY WriterIs, UsedIs DEF CommandTypes
<1>3. \A i \in 1 .. n : Room(writer[i]) \in Nat /\ Room(writer[i]) > 0
  <2> SUFFICES ASSUME NEW a \in Args PROVE Room(a) \in Nat /\ Room(a) > 0
    BY WriterIs
  <2>1. ArgSize(a) \in Nat
    BY ArgsAre
  <2> QED BY <2>1 DEF Room, HeadBytes
<1> DEFINE E == {i \in 1 .. n : size < e[i]}
<1> HIDE DEF n
<1>4. ASSUME NEW i \in 1 .. n, size <= e[i - 1] PROVE i \in E
  <2>1. i - 1 \in 0 .. n /\ i \in 0 .. n
    BY <1>2
  <2>2. PICK a \in Nat, r \in Nat : a = e[i - 1] /\ r = Room(writer[i]) /\ r > 0
    BY <1>3, <2>1
  <2>3. e[i] = a + r
    BY <1>1, <2>2 DEF EstimateGrows, n
  <2> QED BY <1>2, <1>4, <2>2, <2>3
<1>5. n > 0 => 1 \in E
  <2>1. n > 0 => 1 \in 1 .. n /\ 1 - 1 = 0
    BY <1>2
  <2> QED BY <1>1, <1>2, <1>4, <2>1 DEF EstimateGrows
<1>6. \A i \in 1 .. n : i \in E /\ i < n => i + 1 \in E
  <2> SUFFICES ASSUME NEW i \in 1 .. n, i \in E, i < n PROVE i + 1 \in E
    OBVIOUS
  <2>1. i + 1 \in 1 .. n /\ (i + 1) - 1 = i /\ i \in 0 .. n
    BY <1>2
  <2>2. size <= e[i] /\ e[i] \in Nat
    BY <1>2, <2>1
  <2> HIDE DEF E
  <2> QED BY <1>4, <2>1, <2>2
<1>7. \A i \in 1 .. n : i \in E
  <2> HIDE DEF E
  <2> QED BY <1>2, <1>5, <1>6, UpTo
<1>8. n = 0 => Estimate = size
  BY <1>1 DEF EstimateGrows
<1>9. n > 0 => Estimate > size
  <2>1. n > 0 => n \in 1 .. n
    BY <1>2
  <2> QED BY <1>1, <1>2, <1>7, <2>1
<1>10. Estimate \in Nat
  BY <1>1, <1>2
<1> QED BY <1>2, <1>8, <1>9, <1>10

(* The text is never longer than the room made for it: a number with its   *)
(* blank takes all of its own.                                             *)
LEMMA TextFits ==
  ASSUME CommandTypes, kind = "text"
  PROVE  /\ Text \in Seq(Cells) /\ Len(Text) \in Nat /\ Len(Text) <= Estimate
         /\ writer = <<>> => Text = Used
<1> DEFINE n == Len(writer)
<1>1. PICK e \in [0 .. n -> Nat] : EstimateGrows(e) /\ Estimate = e[n]
  BY EstimateInSteps
<1>2. PICK t \in [0 .. n -> Seq(Cells)] : TextGrows(t) /\ Text = t[n]
  BY TextInSteps
<1>3. n \in Nat /\ size \in Nat /\ (writer = <<>> => n = 0)
  BY WriterIs, UsedIs
<1> DEFINE E == {i \in 1 .. n : Len(t[i]) <= e[i]}
<1> HIDE DEF n
<1>4. ASSUME NEW i \in 1 .. n, Len(t[i - 1]) <= e[i - 1] PROVE i \in E
  <2>1. i - 1 \in 0 .. n /\ i \in 0 .. n
    BY <1>3
  <2>2. writer[i] \in Args /\ writer[i].type # "DATA"
    BY WriterIs DEF n
  <2>3. PICK a \in Seq(Cells), l \in Nat, r \in Nat :
          a = Shown(writer[i]) /\ l = Len(a) /\ r = Room(writer[i]) /\ l + 1 <= r
    BY <2>2, ShownIs
  <2>4. PICK x \in Seq(Cells), m \in Nat, b \in Nat : x = t[i - 1] /\ m = Len(x) /\ b = e[i - 1]
    BY <2>1
  <2>5. PICK q \in Seq(Cells) : q = <<Blank>> /\ Len(q) = 1
    <3>1. Blank \in Cells
      BY DEF Cells
    <3> QED BY <3>1, OneElement
  <2>6. x \o q \in Seq(Cells) /\ Len(x \o q) = Len(x) + Len(q)
    BY TwoInARow
  <2>7. Len((x \o q) \o a) = Len(x \o q) + Len(a)
    BY <2>6, TwoInARow
  <2>8. Len((x \o q) \o a) = m + 1 + l
    BY <2>3, <2>4, <2>5, <2>6, <2>7
  <2>9. Len(Joined(x, writer[i])) <= m + 1 + l
    BY <2>3, <2>5, <2>8 DEF Joined
  <2>10. Len(Joined(x, writer[i])) \in Nat
    BY <2>3, <2>5, <2>8 DEF Joined
  <2>11. t[i] = Joined(x, writer[i]) /\ e[i] = b + r
    BY <1>1, <1>2, <2>3, <2>4 DEF EstimateGrows, TextGrows, n
  <2>12. m <= b
    BY <1>4, <2>4
  <2>13. PICK k \in Nat : k = Len(Joined(x, writer[i]))
    BY <2>10
  <2>14. k <= b + r
    BY <2>3, <2>9, <2>12, <2>13
  <2> QED BY <2>11, <2>13, <2>14
<1>5. Len(t[0]) <= e[0]
  BY <1>1, <1>2, <1>3, UsedIs DEF EstimateGrows, TextGrows
<1>6. n > 0 => 1 \in E
  <2>1. n > 0 => 1 \in 1 .. n /\ 1 - 1 = 0
    BY <1>3
  <2> QED BY <1>4, <1>5, <2>1
<1>7. \A i \in 1 .. n : i \in E /\ i < n => i + 1 \in E
  <2> SUFFICES ASSUME NEW i \in 1 .. n, i \in E, i < n PROVE i + 1 \in E
    OBVIOUS
  <2>1. i + 1 \in 1 .. n /\ (i + 1) - 1 = i
    BY <1>3
  <2>2. Len(t[i]) <= e[i]
    OBVIOUS
  <2> HIDE DEF E
  <2> QED BY <1>4, <2>1, <2>2
<1>8. \A i \in 1 .. n : i \in E
  <2> HIDE DEF E
  <2> QED BY <1>3, <1>6, <1>7, UpTo
<1>9. n \in 0 .. n /\ (n = 0 \/ n \in 1 .. n)
  BY <1>3
<1>10. Len(t[n]) <= e[n]
  BY <1>5, <1>8, <1>9
<1>11. t[n] \in Seq(Cells)
  BY <1>9
<1> QED BY <1>1, <1>2, <1>3, <1>10, <1>11 DEF TextGrows

LEMMA BytesFit ==
  ASSUME CommandTypes
  PROVE  /\ Bytes \in Seq(Cells) /\ Len(Bytes) \in Nat /\ Len(Bytes) <= Estimate
         /\ writer = <<>> => Bytes = Used
<1> DEFINE n == Len(writer)
<1>1. PICK e \in [0 .. n -> Nat] : EstimateGrows(e) /\ Estimate = e[n]
  BY EstimateInSteps
<1>2. PICK t \in [0 .. n -> Seq(Cells)] : BytesGrow(t) /\ Bytes = t[n]
  BY BytesInSteps
<1>3. n \in Nat /\ size \in Nat /\ (writer = <<>> => n = 0)
  BY WriterIs, UsedIs
<1> DEFINE E == {i \in 1 .. n : Len(t[i]) <= e[i]}
<1> HIDE DEF n
<1>4. ASSUME NEW i \in 1 .. n, Len(t[i - 1]) <= e[i - 1] PROVE i \in E
  <2>1. i - 1 \in 0 .. n /\ i \in 0 .. n
    BY <1>3
  <2>2. writer[i] \in Args
    BY WriterIs DEF n
  <2>3. PICK h \in Seq(Cells), a \in Seq(Cells), l \in Nat :
          h = ArgHead(writer[i]) /\ a = Body(writer[i]) /\ Len(h) = 4 /\ Len(a) = l
          /\ Room(writer[i]) = 4 + l + 4
    BY <2>2, BodyIs DEF HeadBytes
  <2>4. PICK x \in Seq(Cells), m \in Nat, b \in Nat : x = t[i - 1] /\ m = Len(x) /\ b = e[i - 1]
    BY <2>1
  <2>5. x \o h \in Seq(Cells) /\ Len(x \o h) = Len(x) + Len(h)
    BY TwoInARow
  <2>6. Len((x \o h) \o a) = Len(x \o h) + Len(a)
    BY <2>5, TwoInARow
  <2>7. t[i] = (x \o h) \o a /\ e[i] = b + (4 + l + 4)
    BY <1>1, <1>2, <2>3, <2>4 DEF EstimateGrows, BytesGrow, n
  <2>8. m <= b /\ Len(t[i]) = m + 4 + l
    BY <1>4, <2>3, <2>4, <2>5, <2>6, <2>7
  <2>9. m + 4 + l <= b + (4 + l + 4)
    BY <2>8
  <2> QED BY <2>7, <2>8, <2>9
<1>5. Len(t[0]) <= e[0]
  BY <1>1, <1>2, <1>3, UsedIs DEF EstimateGrows, BytesGrow
<1>6. n > 0 => 1 \in E
  <2>1. n > 0 => 1 \in 1 .. n /\ 1 - 1 = 0
    BY <1>3
  <2> QED BY <1>4, <1>5, <2>1
<1>7. \A i \in 1 .. n : i \in E /\ i < n => i + 1 \in E
  <2> SUFFICES ASSUME NEW i \in 1 .. n, i \in E, i < n PROVE i + 1 \in E
    OBVIOUS
  <2>1. i + 1 \in 1 .. n /\ (i + 1) - 1 = i
    BY <1>3
  <2>2. Len(t[i]) <= e[i]
    OBVIOUS
  <2> HIDE DEF E
  <2> QED BY <1>4, <2>1, <2>2
<1>8. \A i \in 1 .. n : i \in E
  <2> HIDE DEF E
  <2> QED BY <1>3, <1>6, <1>7, UpTo
<1>9. n \in 0 .. n /\ (n = 0 \/ n \in 1 .. n)
  BY <1>3
<1>10. Len(t[n]) <= e[n]
  BY <1>5, <1>8, <1>9
<1>11. t[n] \in Seq(Cells)
  BY <1>9
<1> QED BY <1>1, <1>2, <1>3, <1>10, <1>11 DEF BytesGrow

(* A buffer that grows holds what was written and ends with a NUL. *)
LEMMA GrowIs ==
  ASSUME CommandTypes, NEW t \in Seq(Cells), NEW s \in Nat, Len(t) <= s + 1,
         Len(t) = s + 1 => t[s + 1] = Nul, ~ (data # <<>> /\ s <= size)
  PROVE  /\ Grow(s, t) \in Seq(Cells) /\ Len(Grow(s, t)) = s + 1 /\ Grow(s, t) # <<>>
         /\ Grow(s, t)[s + 1] = Nul
         /\ \A i \in 1 .. Len(t) : Grow(s, t)[i] = t[i] /\ i \in 1 .. s + 1
         /\ \A i \in 1 .. s + 1 : i > Len(t) => Grow(s, t)[i] \in {Nul, Unset}
<1> DEFINE c(i) == IF i <= Len(t) THEN t[i] ELSE IF i = s + 1 THEN Nul ELSE Unset
           g == [i \in 1 .. s + 1 |-> c(i)]
<1>1. Grow(s, t) = g
  BY DEF Grow
<1>2. PICK l \in Nat : l = Len(t)
  OBVIOUS
<1>3. \A i \in 1 .. s + 1 : c(i) \in Cells
  <2> SUFFICES ASSUME NEW i \in 1 .. s + 1 PROVE c(i) \in Cells
    OBVIOUS
  <2>1. CASE i <= l
    <3>1. i \in 1 .. l
      BY <2>1
    <3>2. t[i] \in Cells
      BY <1>2, <3>1
    <3> QED BY <1>2, <2>1, <3>2
  <2>2. CASE ~ i <= l
    BY <1>2, <2>2 DEF Cells
  <2> QED BY <2>1, <2>2
<1>4. g \in Seq(Cells) /\ Len(g) = s + 1 /\ g # <<>>
  <2>1. PICK n \in Nat : n = s + 1 /\ n # 0
    OBVIOUS
  <2>2. g \in [1 .. n -> Cells]
    BY <1>3, <2>1
  <2> HIDE DEF g
  <2> QED BY <2>1, <2>2
<1>5. \A i \in 1 .. l : g[i] = t[i] /\ i \in 1 .. s + 1
  BY <1>2
<1>6. \A i \in 1 .. s + 1 : i > l => g[i] \in {Nul, Unset}
  BY <1>2
<1>7. g[s + 1] = Nul
  <2>1. s + 1 \in 1 .. s + 1
    OBVIOUS
  <2> QED BY <1>2, <2>1
<1> HIDE DEF g, c
<1> QED BY <1>1, <1>2, <1>4, <1>5, <1>6, <1>7
LEMMA Remainder ==
  ASSUME NEW n \in Nat \ {0}, NEW m \in Nat
  PROVE  m % n \in 0 .. n - 1 /\ m % n <= m /\ (m < n => m % n = m)
OBVIOUS

LEMMA TotalIs ==
  ASSUME NEW m \in Nat, NEW n \in Nat
  PROVE  Max({m, n}) \in Nat /\ m <= Max({m, n}) /\ n <= Max({m, n})
<1>1. \E x \in {m, n} : \A y \in {m, n} : x >= y
  OBVIOUS
<1>2. Max({m, n}) \in {m, n} /\ \A y \in {m, n} : Max({m, n}) >= y
  BY <1>1 DEF Max
<1> QED BY <1>2

(* What is flushed, text or binary, and where it ends.                     *)
Flushing == IF kind = "text" THEN Text ELSE Bytes
Ended == IF kind = "text" /\ writer # <<>> THEN Append(Text, Nul) ELSE Flushing

(* A flush leaves either the buffer as it was, when nothing waited, or a   *)
(* new one with all that was in it and was waiting, in its place.          *)
LEMMA FlushIs ==
  ASSUME CommandTypes, Flush
  PROVE  /\ UNCHANGED <<kind, offset, stage, packed, asked, results>>
         /\ writer' = <<>> /\ stage = "pack" /\ overflow' = FALSE
         /\ Flushing \in Seq(Cells) /\ Len(Flushing) \in Nat /\ Len(Flushing) <= Estimate
         /\ writer = <<>> => Flushing = Used
         /\ Estimate \in Nat
         /\ data' \in Seq(Cells) /\ data' # <<>> /\ data'[Len(data')] = Nul
         /\ \A i \in 1 .. Len(Flushing) : i \in 1 .. Len(data') /\ data'[i] = Flushing[i]
         /\ writer # <<>> =>
              /\ Len(data') = Estimate + 1
              /\ \A i \in 1 .. Len(data') : i > Len(Flushing) => data'[i] \in {Nul, Unset}
              /\ kind = "text" => data'[Len(Flushing) + 1] = Nul
         /\ writer = <<>> => IF data = <<>> THEN data' = <<Nul>> ELSE data' = data
         /\ total' \in Nat /\ total <= total' /\ size' \in 0 .. SizeMod - 1 /\ size' < Len(data')
         /\ IF kind = "text" THEN size' = Len(Flushing) % SizeMod /\ Len(Flushing) <= total'
                             ELSE size' = Estimate % SizeMod /\ Estimate <= total'
<1> DEFINE e == Estimate
           t == Ended
           f == Flushing
           m == IF kind = "text" THEN Len(f) ELSE e
<1>1. /\ UNCHANGED <<kind, offset, stage, packed, asked, results>>
      /\ writer' = <<>> /\ stage = "pack"
      /\ data' = Grow(e, t) /\ size' = m % SizeMod /\ total' = Max({total, m})
      /\ overflow' = (overflow \/ IF kind = "text" THEN Len(f) + 1 > Len(data') ELSE Len(f) > Len(data'))
  <2>1. kind \in {"text", "binary"}
    BY DEF CommandTypes
  <2> QED BY <2>1 DEF Flush, FlushText, FlushBinary, Ended, Flushing
<1>2. f \in Seq(Cells) /\ Len(f) \in Nat /\ Len(f) <= e /\ (writer = <<>> => f = Used)
  BY TextFits, BytesFit DEF Flushing
<1>3. /\ e \in Nat /\ size <= e /\ (writer = <<>> => e = size) /\ (writer # <<>> => e > size)
      /\ size \in Nat
  BY EstimateIs, UsedIs
<1>4. PICK n \in Nat : n = Len(f)
  BY <1>2
<1>5. PICK k \in Nat : k = m /\ k <= e
  BY <1>2, <1>3
<1>6. size' \in 0 .. SizeMod - 1 /\ size' <= k
  BY <1>1, <1>5, Remainder, CommandAssumption
<1>7. total \in Nat /\ overflow = FALSE
  BY DEF CommandTypes
<1>8. total' \in Nat /\ total <= total' /\ k <= total'
  BY <1>1, <1>5, <1>7, TotalIs
<1> HIDE DEF e, t, f, m
<1>9. ASSUME data # <<>>, writer = <<>>
      PROVE  /\ data' = data /\ data \in Seq(Cells) /\ data[Len(data)] = Nul /\ e < Len(data)
             /\ Len(data) \in Nat
             /\ \A i \in 1 .. n : i \in 1 .. Len(data) /\ data[i] = f[i]
  <2>1. data' = data
    BY <1>1, <1>3, <1>9 DEF Grow
  <2>2. data \in Seq(Cells) /\ data[Len(data)] = Nul /\ size < Len(data)
    BY <1>9 DEF CommandTypes, BufferInv
  <2>3. n = size /\ \A i \in 1 .. size : f[i] = data[i] /\ i \in 1 .. Len(data)
    BY <1>2, <1>4, <1>9, UsedIs
  <2> QED BY <1>3, <1>9, <2>1, <2>2, <2>3
<1>10. ASSUME data = <<>> \/ writer # <<>>
       PROVE  /\ data' \in Seq(Cells) /\ Len(data') = e + 1 /\ data' # <<>> /\ data'[e + 1] = Nul
              /\ \A i \in 1 .. n : i \in 1 .. e + 1 /\ data'[i] = f[i]
              /\ \A i \in 1 .. e + 1 : i > n => data'[i] \in {Nul, Unset}
              /\ kind = "text" /\ writer # <<>> => data'[n + 1] = Nul
  <2>1. /\ t \in Seq(Cells) /\ Len(t) <= e + 1 /\ (Len(t) = e + 1 => t[e + 1] = Nul)
        /\ Len(t) \in {n, n + 1} /\ (Len(t) = n + 1 => t[n + 1] = Nul)
        /\ \A i \in 1 .. n : t[i] = f[i] /\ i \in 1 .. Len(t)
        /\ (kind = "text" /\ writer # <<>> => Len(t) = n + 1)
    <3>1. CASE kind = "text" /\ writer # <<>>
      <4>1. t = Append(f, Nul)
        BY <3>1 DEF t, f, Ended, Flushing
      <4>2. Nul \in Cells
        BY DEF Cells
      <4>3. PICK g \in Seq(Cells) : g = f
        BY <1>2
      <4>4. /\ Append(g, Nul) \in Seq(Cells) /\ Len(Append(g, Nul)) = Len(g) + 1
            /\ Append(g, Nul)[Len(g) + 1] = Nul
            /\ \A i \in 1 .. Len(g) : Append(g, Nul)[i] = g[i]
        <5> HIDE DEF Cells
        <5> QED BY <4>2
      <4>5. /\ t \in Seq(Cells) /\ Len(t) = n + 1 /\ t[n + 1] = Nul /\ n <= e
            /\ \A i \in 1 .. n : t[i] = f[i]
        BY <1>2, <1>4, <4>1, <4>3, <4>4
      <4>6. \A i \in 1 .. n : i \in 1 .. n + 1
        OBVIOUS
      <4>7. n + 1 <= e + 1 /\ (n + 1 = e + 1 => n = e)
        BY <1>3, <4>5
      <4> HIDE DEF Cells
      <4> QED BY <3>1, <4>5, <4>6, <4>7
    <3>2. CASE ~ (kind = "text" /\ writer # <<>>)
      <4>1. t = f
        BY <3>2 DEF t, f, Ended, Flushing
      <4>2. n <= e + 1 /\ n # e + 1 /\ n # n + 1
        BY <1>2, <1>3, <1>4
      <4> QED BY <1>2, <1>4, <3>2, <4>1, <4>2
    <3> QED BY <3>1, <3>2
  <2>2. ~ (data # <<>> /\ e <= size)
    BY <1>3, <1>10
  <2>3. /\ Grow(e, t) \in Seq(Cells) /\ Len(Grow(e, t)) = e + 1 /\ Grow(e, t) # <<>>
        /\ Grow(e, t)[e + 1] = Nul
        /\ \A i \in 1 .. Len(t) : Grow(e, t)[i] = t[i] /\ i \in 1 .. e + 1
        /\ \A i \in 1 .. e + 1 : i > Len(t) => Grow(e, t)[i] \in {Nul, Unset}
    BY <1>3, <2>1, <2>2, GrowIs
  <2>4. PICK l \in {n, n + 1} : l = Len(t)
    BY <2>1
  <2>5. \A i \in 1 .. n : i \in 1 .. e + 1 /\ data'[i] = f[i]
    BY <1>1, <2>1, <2>3
  <2>6. \A i \in 1 .. e + 1 : i > n => data'[i] \in {Nul, Unset}
    <3> SUFFICES ASSUME NEW i \in 1 .. e + 1, i > n PROVE data'[i] \in {Nul, Unset}
      OBVIOUS
    <3>1. i > l \/ (l = n + 1 /\ i = n + 1)
      BY <1>3, <2>4
    <3>2. CASE i > l
      BY <1>1, <2>3, <2>4, <3>2
    <3>3. CASE l = n + 1 /\ i = n + 1
      <4>1. i \in 1 .. l
        BY <3>3
      <4> QED BY <1>1, <2>1, <2>3, <2>4, <3>3, <4>1
    <3> QED BY <3>1, <3>2, <3>3
  <2>7. ASSUME kind = "text", writer # <<>> PROVE data'[n + 1] = Nul
    <3>1. Len(t) = n + 1 /\ n + 1 \in 1 .. n + 1
      BY <2>1, <2>7
    <3> QED BY <1>1, <2>1, <2>3, <3>1
  <2> HIDE DEF Cells
  <2> QED BY <1>1, <2>3, <2>5, <2>6, <2>7
<1>11. ASSUME data = <<>>, writer = <<>> PROVE data' = <<Nul>>
  <2>1. size = 0 /\ e = 0
    BY <1>3, <1>11 DEF CommandTypes, BufferInv
  <2>2. n = 0
    BY <1>2, <1>3, <1>4, <2>1
  <2>3. t = f
    BY <1>11 DEF t, f, Ended, Flushing
  <2>4. Grow(e, t) = [i \in 1 .. 0 + 1 |-> Nul]
    <3>1. Grow(e, t) = [i \in 1 .. e + 1 |-> IF i <= Len(t) THEN t[i] ELSE IF i = e + 1 THEN Nul ELSE Unset]
      BY <1>11 DEF Grow
    <3>2. \A i \in 1 .. 0 + 1 : ~ (i <= 0) /\ i = 0 + 1
      OBVIOUS
    <3>3. e = 0 /\ Len(t) = 0
      BY <1>4, <2>1, <2>2, <2>3
    <3>4. [i \in 1 .. 0 + 1 |-> IF i <= 0 THEN t[i] ELSE IF i = 0 + 1 THEN Nul ELSE Unset]
            = [i \in 1 .. 0 + 1 |-> Nul]
      BY <3>2
    <3> QED BY <3>1, <3>3, <3>4
  <2>5. [i \in 1 .. 0 + 1 |-> Nul] = <<Nul>>
    OBVIOUS
  <2> QED BY <1>1, <2>4, <2>5
<1>12. size' < Len(data') /\ Len(data') \in Nat
  <2>1. CASE data # <<>> /\ writer = <<>>
    BY <1>3, <1>5, <1>6, <1>9, <2>1
  <2>2. CASE data = <<>> \/ writer # <<>>
    BY <1>3, <1>5, <1>6, <1>10, <2>2
  <2> QED BY <2>1, <2>2
<1>13. overflow' = FALSE
  <2>1. CASE data # <<>> /\ writer = <<>>
    <3>1. n <= e /\ e < Len(data') /\ Len(data') \in Nat
      BY <1>2, <1>4, <1>9, <2>1
    <3>2. ~ (n + 1 > Len(data')) /\ ~ (n > Len(data'))
      BY <1>3, <3>1
    <3> QED BY <1>1, <1>4, <1>7, <3>2
  <2>2. CASE data = <<>> \/ writer # <<>>
    <3>1. n <= e /\ Len(data') = e + 1
      BY <1>2, <1>4, <1>10, <2>2
    <3>2. ~ (n + 1 > e + 1) /\ ~ (n > e + 1)
      BY <1>3, <3>1
    <3> QED BY <1>1, <1>4, <1>7, <3>1, <3>2
  <2> QED BY <2>1, <2>2
<1>14. /\ data' \in Seq(Cells) /\ data' # <<>> /\ data'[Len(data')] = Nul
       /\ \A i \in 1 .. n : i \in 1 .. Len(data') /\ data'[i] = f[i]
  <2>1. CASE data # <<>> /\ writer = <<>>
    BY <1>9, <2>1
  <2>2. CASE data = <<>> \/ writer # <<>>
    BY <1>10, <2>2
  <2> QED BY <2>1, <2>2
<1>15. IF kind = "text" THEN size' = n % SizeMod /\ n <= total' ELSE size' = e % SizeMod /\ e <= total'
  BY <1>1, <1>4, <1>5, <1>8 DEF m
<1> HIDE DEF Cells
<1> QED BY <1>1, <1>2, <1>3, <1>4, <1>6, <1>8, <1>9, <1>10, <1>11, <1>12, <1>13, <1>14, <1>15 DEF e, f
-----------------------------------------------------------------------------
(* Reading.  A buffer that ends with a NUL can be searched from any place. *)
Ending(buf) ==
  buf \in Seq(Cells) /\ buf # <<>> /\ Len(buf) \in Nat /\ buf[Len(buf)] = Nul

LEMMA MarksDiffer ==
  /\ Nul # Blank /\ Nul # Quote /\ Blank # Quote /\ Unset # Nul /\ Unset # Blank /\ Unset # Quote
BY DEF Nul, Blank, Quote, Unset

LEMMA StrchrIs ==
  ASSUME NEW buf, Ending(buf), NEW i \in 1 .. Len(buf), NEW x
  PROVE  LET r == Strchr(buf, i, x)
         IN  \/ r = 0 /\ \A j \in i .. Len(buf) : buf[j] = x => \E k \in i .. j - 1 : buf[k] = Nul
             \/ /\ r \in i .. Len(buf) /\ buf[r] = x /\ r # 0
                /\ \A k \in i .. r - 1 : buf[k] # Nul /\ buf[k] # x
<1> DEFINE found == {j \in i .. Len(buf) : buf[j] = x /\ \A k \in i .. j - 1 : buf[k] # Nul}
<1>1. Strchr(buf, i, x) = IF found = {} THEN 0 ELSE Min(found)
  BY DEF Strchr
<1>2. Len(buf) \in Nat
  BY DEF Ending
<1>3. CASE found = {}
  <2>1. \A j \in i .. Len(buf) : buf[j] = x => \E k \in i .. j - 1 : buf[k] = Nul
    BY <1>3
  <2> QED BY <1>1, <1>3, <2>1
<1>4. CASE found # {}
  <2>1. found \in SUBSET Nat
    BY <1>2
  <2>2. PICK r \in found : \A j \in found : r <= j
    <3> HIDE DEF found
    <3> QED BY <1>4, <2>1, OneIsLeast
  <2>3. Min(found) \in found /\ \A j \in found : Min(found) <= j
    <3> HIDE DEF found
    <3> QED BY <2>2 DEF Min
  <2>4. PICK m \in found : m = Min(found) /\ \A j \in found : m <= j
    BY <2>3
  <2>5. ASSUME NEW k \in i .. m - 1 PROVE buf[k] # Nul /\ buf[k] # x
    <3>1. m \in i .. Len(buf) /\ k \in i .. Len(buf) /\ ~ (m <= k)
      BY <1>2, <2>5
    <3>2. buf[k] # Nul
      OBVIOUS
    <3>3. \A l \in i .. k - 1 : l \in i .. m - 1
      BY <1>2, <3>1
    <3>4. \A l \in i .. k - 1 : buf[l] # Nul
      BY <3>3
    <3>5. k \notin found
      BY <2>4, <3>1
    <3> QED BY <3>1, <3>2, <3>4, <3>5
  <2>6. m \in i .. Len(buf) /\ buf[m] = x /\ m # 0
    BY <1>2
  <2>7. Strchr(buf, i, x) = m
    BY <1>1, <1>4, <2>4
  <2> QED BY <2>5, <2>6, <2>7
<1> QED BY <1>3, <1>4

LEMMA SkipBlanksIs ==
  ASSUME NEW buf, Ending(buf), NEW i \in 1 .. Len(buf)
  PROVE  LET r == SkipBlanks(buf, i)
         IN  /\ r \in i .. Len(buf) /\ buf[r] # Blank /\ \A k \in i .. r - 1 : buf[k] = Blank
             /\ buf[i] # Blank => r = i
<1> DEFINE T == {j \in i .. Len(buf) : buf[j] # Blank}
           Is(j) == buf[j] # Blank /\ \A k \in i .. j - 1 : buf[k] = Blank
           r == SkipBlanks(buf, i)
<1>1. Len(buf) \in Nat /\ Len(buf) \in T
  BY MarksDiffer DEF Ending
<1>2. PICK m \in T : \A j \in T : m <= j
  <2>1. T \in SUBSET Nat /\ T # {}
    BY <1>1
  <2> HIDE DEF T
  <2> QED BY <2>1, OneIsLeast
<1>3. m \in i .. Len(buf) /\ Is(m)
  <2>1. \A k \in i .. m - 1 : k \in i .. Len(buf) /\ ~ (m <= k)
    BY <1>1
  <2> QED BY <1>2, <2>1
<1>4. r \in i .. Len(buf) /\ Is(r)
  <2>1. r = CHOOSE j \in i .. Len(buf) : Is(j)
    BY DEF SkipBlanks
  <2> HIDE DEF r, Is
  <2> QED BY <1>3, <2>1
<1>5. buf[i] # Blank => r = i
  <2>1. r # i => i \in i .. r - 1
    BY <1>1, <1>4
  <2> QED BY <1>4, <2>1
<1> QED BY <1>4, <1>5

LEMMA ReplaceAtIs ==
  ASSUME NEW buf, Ending(buf), NEW i
  PROVE  /\ Ending(ReplaceAt(buf, i, Nul)) /\ Len(ReplaceAt(buf, i, Nul)) = Len(buf)
         /\ i \in 1 .. Len(buf) => ReplaceAt(buf, i, Nul)[i] = Nul
         /\ \A j \in 1 .. Len(buf) : j # i => ReplaceAt(buf, i, Nul)[j] = buf[j]
<1>1. PICK b \in Seq(Cells), n \in Nat : b = buf /\ n = Len(b) /\ b[n] = Nul /\ n # 0
  BY DEF Ending
<1>2. b \in [1 .. n -> Cells]
  BY <1>1
<1>3. Nul \in Cells
  BY DEF Cells
<1> DEFINE c == [b EXCEPT ![i] = Nul]
<1>4. /\ c \in [1 .. n -> Cells] /\ (i \in 1 .. n => c[i] = Nul)
      /\ \A j \in 1 .. n : j # i => c[j] = b[j]
  <2> HIDE DEF Cells
  <2> QED BY <1>2, <1>3
<1>5. c[n] = Nul
  <2>1. n \in 1 .. n
    BY <1>1
  <2> HIDE DEF c
  <2> QED BY <1>1, <1>4, <2>1
<1>6. ReplaceAt(buf, i, Nul) = c
  BY <1>1 DEF ReplaceAt
<1> HIDE DEF c, Cells
<1>7. c \in Seq(Cells) /\ Len(c) = n /\ c # <<>>
  BY <1>1, <1>4
<1> QED BY <1>1, <1>4, <1>5, <1>6, <1>7 DEF Ending

(* Whatever the text, the reader stays in it or becomes NULL. *)
LEMMA NextStaysInside ==
  ASSUME NEW buf, Ending(buf), NEW src \in 1 .. Len(buf), buf[src] # Nul
  PROVE  LET next == GetNextArgument(buf, src)
         IN  /\ Ending(next.buf) /\ Len(next.buf) = Len(buf)
             /\ next.src = Wild \/ next.src \in 1 .. Len(buf)
<1> DEFINE next == GetNextArgument(buf, src)
           blank == Strchr(buf, src, Blank)
           quote == Strchr(buf, src + 1, Quote)
<1>1. Len(buf) \in Nat /\ buf[Len(buf)] = Nul /\ src + 1 \in 1 .. Len(buf)
  BY DEF Ending
<1>2. CASE blank # 0
  <2>1. next = NextOfMany(buf, src)
    BY <1>2 DEF GetNextArgument
  <2>2. blank \in src .. Len(buf) /\ buf[blank] = Blank
    BY <1>2, StrchrIs
  <2>3. blank + 1 \in 1 .. Len(buf)
    BY <1>1, <2>2, MarksDiffer
  <2>4. CASE buf[src] # Quote
    <3>1. next.buf = ReplaceAt(buf, blank, Nul) /\ next.src = SkipBlanks(buf, blank + 1)
      BY <2>1, <2>4 DEF NextOfMany
    <3>2. SkipBlanks(buf, blank + 1) \in 1 .. Len(buf)
      <4>1. SkipBlanks(buf, blank + 1) \in (blank + 1) .. Len(buf)
        BY <2>3, SkipBlanksIs
      <4> QED BY <1>1, <2>3, <4>1
    <3> QED BY <3>1, <3>2, ReplaceAtIs
  <2>5. CASE buf[src] = Quote /\ quote # 0
    <3>1. quote \in (src + 1) .. Len(buf) /\ buf[quote] = Quote
      BY <1>1, <2>5, StrchrIs
    <3>2. quote + 1 \in 1 .. Len(buf)
      BY <1>1, <3>1, MarksDiffer
    <3>3. next.buf = ReplaceAt(buf, quote, Nul) /\ next.src = SkipBlanks(buf, quote + 1)
      BY <2>1, <2>5 DEF NextOfMany
    <3>4. SkipBlanks(buf, quote + 1) \in 1 .. Len(buf)
      <4>1. SkipBlanks(buf, quote + 1) \in (quote + 1) .. Len(buf)
        BY <3>2, SkipBlanksIs
      <4> QED BY <1>1, <3>2, <4>1
    <3> QED BY <3>3, <3>4, ReplaceAtIs
  <2>6. CASE buf[src] = Quote /\ quote = 0
    <3>1. next.buf = buf /\ next.src = Wild
      BY <2>1, <2>6 DEF NextOfMany
    <3> QED BY <3>1
  <2> QED BY <2>4, <2>5, <2>6
<1>3. CASE blank = 0
  <2>1. next = LastOfAll(buf, src)
    BY <1>3 DEF GetNextArgument
  <2>2. /\ next.buf = buf \/ \E i : next.buf = ReplaceAt(buf, i, Nul)
        /\ next.src \in {Wild, src + 1}
    <3> DEFINE end == End(buf, src)
               quotes == {j \in src + 1 + 1 .. end - 1 : buf[j] = Quote}
    <3>1. CASE buf[src] # Quote
      BY <2>1, <3>1 DEF LastOfAll
    <3>2. CASE buf[src] = Quote /\ src + 1 = end
      BY <2>1, <3>2 DEF LastOfAll
    <3>3. CASE buf[src] = Quote /\ src + 1 # end /\ quotes = {}
      BY <2>1, <3>3 DEF LastOfAll
    <3>4. CASE buf[src] = Quote /\ src + 1 # end /\ quotes # {}
      <4> DEFINE cut == ReplaceAt(buf, Max(quotes), Nul)
      <4>1. next = [buf |-> cut, src |-> Wild, begin |-> src + 1, ok |-> cut[src + 1] # Nul]
        BY <2>1, <3>4 DEF LastOfAll
      <4>2. next.buf = cut /\ next.src = Wild
        BY <4>1
      <4> QED BY <4>2
    <3> QED BY <3>1, <3>2, <3>3, <3>4
  <2>3. CASE next.buf = buf
    BY <1>1, <2>2, <2>3
  <2>4. CASE next.buf # buf
    <3>1. PICK i : next.buf = ReplaceAt(buf, i, Nul)
      BY <2>2, <2>4
    <3>2. Ending(ReplaceAt(buf, i, Nul)) /\ Len(ReplaceAt(buf, i, Nul)) = Len(buf)
      BY ReplaceAtIs
    <3> QED BY <1>1, <2>2, <3>1, <3>2
  <2> QED BY <2>3, <2>4
<1> QED BY <1>2, <1>3
LEMMA AppendIs ==
  ASSUME NEW S, NEW r \in Seq(S), NEW y
  PROVE  /\ Append(r, y) \in Seq(S \cup {y}) /\ Len(Append(r, y)) = Len(r) + 1 /\ Len(r) \in Nat
         /\ \A i \in 1 .. Len(r) : Append(r, y)[i] = r[i]
         /\ Append(r, y)[Len(r) + 1] = y
<1>1. r \in Seq(S \cup {y}) /\ y \in S \cup {y}
  OBVIOUS
<1> DEFINE T == S \cup {y}
<1> HIDE DEF T
<1>2. r \in Seq(T) /\ y \in T
  BY <1>1 DEF T
<1>3. Append(r, y) \in Seq(T) /\ Len(Append(r, y)) = Len(r) + 1 /\ Len(r) \in Nat
  BY <1>2
<1>4. \A i \in 1 .. Len(r) : Append(r, y)[i] = r[i]
  BY <1>2
<1>5. Append(r, y)[Len(r) + 1] = y
  BY <1>2
<1> QED BY <1>3, <1>4, <1>5 DEF T

(* One more answer. *)
LEMMA AnswerIs ==
  ASSUME CommandTypes, Reading, NEW t \in Type, NEW y, Answer(t, y)
  PROVE  /\ asked' \in Seq(Type) /\ (\E S : results' \in Seq(S)) /\ Len(asked') = Len(results')
         /\ Len(results') = Len(results) + 1 /\ Len(results') <= Len(packed)
         /\ Len(results) \in Nat
         /\ \A i \in 1 .. Len(results) : results'[i] = results[i] /\ asked'[i] = asked[i]
         /\ results'[Len(results) + 1] = y /\ asked'[Len(results) + 1] = t
<1>1. PICK S : results \in Seq(S)
  BY DEF CommandTypes
<1>2. asked \in Seq(Type) /\ Len(asked) = Len(results) /\ Len(results) < Len(packed)
  BY DEF CommandTypes, Reading
<1>3. asked' = Append(asked, t) /\ results' = Append(results, y)
  BY DEF Answer
<1>4. Type \cup {t} = Type
  OBVIOUS
<1>5. asked' \in Seq(Type) /\ Len(asked') = Len(asked) + 1 /\ asked'[Len(asked) + 1] = t
      /\ \A i \in 1 .. Len(asked) : asked'[i] = asked[i]
  BY <1>2, <1>3, <1>4, AppendIs
<1>6. /\ results' \in Seq(S \cup {y}) /\ Len(results') = Len(results) + 1 /\ Len(results) \in Nat
      /\ results'[Len(results) + 1] = y /\ \A i \in 1 .. Len(results) : results'[i] = results[i]
  BY <1>1, <1>3, AppendIs
<1>7. Len(packed) \in Nat
  BY WriterIs
<1> QED BY <1>2, <1>5, <1>6, <1>7

LEMMA PushIs ==
  ASSUME CommandTypes, NEW a \in ArgsOfKind, Push(a)
  PROVE  /\ CommandTypes'
         /\ Len(packed') = Len(packed) + 1 /\ Len(writer') = Len(writer) + 1
         /\ writer'[Len(writer) + 1] = a /\ packed'[Len(packed) + 1] = a
         /\ \A i \in 1 .. Len(writer) : writer'[i] = writer[i]
         /\ \A i \in 1 .. Len(packed) : packed'[i] = packed[i]
         /\ Len(packed) \in Nat /\ Len(writer) \in Nat
         /\ UNCHANGED <<kind, data, size, offset, stage, asked, results, total, overflow>>
<1>1. /\ stage = "pack" /\ writer' = Append(writer, a) /\ packed' = Append(packed, a)
      /\ UNCHANGED <<kind, data, size, offset, stage, asked, results, total, overflow>>
  BY DEF Push
<1>2. writer \in Seq(ArgsOfKind) /\ packed \in Seq(ArgsOfKind) /\ ArgsOfKind \cup {a} = ArgsOfKind
  BY DEF CommandTypes
<1>3. /\ writer' \in Seq(ArgsOfKind) /\ Len(writer') = Len(writer) + 1 /\ Len(writer) \in Nat
      /\ writer'[Len(writer) + 1] = a /\ \A i \in 1 .. Len(writer) : writer'[i] = writer[i]
  BY <1>1, <1>2, AppendIs
<1>4. /\ packed' \in Seq(ArgsOfKind) /\ Len(packed') = Len(packed) + 1 /\ Len(packed) \in Nat
      /\ packed'[Len(packed) + 1] = a /\ \A i \in 1 .. Len(packed) : packed'[i] = packed[i]
  BY <1>1, <1>2, AppendIs
<1>5. ArgsOfKind' = ArgsOfKind
  BY <1>1 DEF ArgsOfKind
<1>6. BufferInv'
  BY <1>1 DEF CommandTypes, BufferInv
<1>7. /\ Len(results) <= Len(packed) /\ Len(results) \in Nat
      /\ Len(asked') = Len(results') /\ asked' \in Seq(Type) /\ \E S : results' \in Seq(S)
  BY <1>1 DEF CommandTypes
<1>8. Len(results') <= Len(packed')
  BY <1>1, <1>4, <1>7
<1>9. /\ kind' \in {"text", "binary"} /\ stage' \in {"pack", "unpack", "received", "crashed"}
      /\ size' \in 0 .. SizeMod - 1 /\ total' \in Nat /\ overflow' = FALSE
      /\ stage' = "pack" => offset' = 0 /\ results' = <<>>
  BY <1>1 DEF CommandTypes
<1>10. CommandTypes'
  BY <1>3, <1>4, <1>5, <1>6, <1>7, <1>8, <1>9 DEF CommandTypes
<1> QED BY <1>1, <1>3, <1>4, <1>10

LEMMA FlushKeepsTypes ==
  ASSUME CommandTypes, Flush PROVE CommandTypes'
<1>1. /\ UNCHANGED <<kind, offset, stage, packed, asked, results>>
      /\ writer' = <<>> /\ overflow' = FALSE /\ stage = "pack"
      /\ data' \in Seq(Cells) /\ data' # <<>> /\ data'[Len(data')] = Nul
      /\ total' \in Nat /\ size' \in 0 .. SizeMod - 1 /\ size' < Len(data')
  BY FlushIs
<1>2. offset = 0 /\ results = <<>>
  BY <1>1 DEF CommandTypes
<1>3. 0 \in 0 .. Len(data') /\ 0 < Len(data')
  <2>1. size' \in Nat /\ Len(data') \in Nat
    BY <1>1, CommandAssumption
  <2> QED BY <1>1, <2>1
<1>4. BufferInv'
  <2> HIDE DEF Cells
  <2> QED BY <1>1, <1>2, <1>3 DEF BufferInv
<1>5. ArgsOfKind' = ArgsOfKind
  BY <1>1 DEF ArgsOfKind
<1> QED BY <1>1, <1>4, <1>5 DEF CommandTypes

(* The command is read where it is, or what is used of it goes elsewhere.  *)
LEMMA HandOverIs ==
  ASSUME CommandTypes, ReadHere \/ Receive \/ Copy
  PROVE  /\ CommandTypes' /\ offset' = 0
         /\ UNCHANGED <<kind, size, writer, history>> /\ Flushed /\ results = <<>>
         /\ data' = <<>> => size = 0
         /\ data' # <<>> =>
              /\ \A k \in 1 .. size : data'[k] = data[k] /\ k \in 1 .. Len(data')
              /\ data' # data => data'[size + 1] = Nul
                                 /\ \A k \in 1 .. Len(data') : k > size => data'[k] = Nul
<1>1. /\ stage = "pack" /\ offset = 0 /\ results = <<>> /\ data # <<>>
      /\ UNCHANGED <<kind, size, writer, history>> /\ Flushed /\ offset' = 0
      /\ stage' \in {"unpack", "received"}
  BY DEF CommandTypes, ReadHere, Receive, Copy, Flushed
<1>2. PICK u \in Seq(Cells) : /\ u = Used /\ Len(u) = size
                              /\ \A k \in 1 .. size : u[k] = data[k] /\ k \in 1 .. Len(data)
  BY UsedIs
<1>3. size \in Nat /\ Nul \in Cells
  BY UsedIs DEF Cells
<1>4. ASSUME data' = data
      PROVE  /\ BufferInv' /\ data' # <<>>
             /\ \A k \in 1 .. size : data'[k] = data[k] /\ k \in 1 .. Len(data')
  BY <1>1, <1>2, <1>4 DEF CommandTypes, BufferInv
<1>5. ASSUME NEW z \in {<<Nul>>, <<Nul, Nul>>}, data' = u \o z
      PROVE  /\ BufferInv' /\ data' # <<>> /\ data'[size + 1] = Nul
             /\ \A k \in 1 .. Len(data') : k > size => data'[k] = Nul
             /\ \A k \in 1 .. size : data'[k] = data[k] /\ k \in 1 .. Len(data')
  <2>1. z \in Seq(Cells) /\ Len(z) \in {1, 2} /\ \A k \in 1 .. Len(z) : z[k] = Nul
    <3> HIDE DEF Cells
    <3>1. CASE z = <<Nul>>
      <4>1. z \in Seq(Cells) /\ Len(z) = 1 /\ z[1] = Nul
        BY <1>3, <3>1
      <4> QED BY <4>1
    <3>2. CASE z = <<Nul, Nul>>
      <4>1. z \in Seq(Cells) /\ Len(z) = 2 /\ z[1] = Nul /\ z[2] = Nul
        BY <1>3, <3>2
      <4> QED BY <4>1
    <3> QED BY <3>1, <3>2
  <2>2. PICK m \in {1, 2} : m = Len(z)
    BY <2>1
  <2>3. /\ u \o z \in Seq(Cells) /\ Len(u \o z) = size + m
        /\ \A k \in 1 .. size : (u \o z)[k] = u[k]
        /\ \A k \in 1 .. m : (u \o z)[size + k] = z[k]
    <3> HIDE DEF Cells
    <3>0. z \in Seq(Cells) /\ u \in Seq(Cells)
      BY <2>1
    <3>1. u \o z \in Seq(Cells) /\ Len(u \o z) = Len(u) + Len(z)
      BY <3>0, TwoInARow
    <3>2. \A k \in 1 .. Len(u) : (u \o z)[k] = u[k]
      BY <3>0, TwoInARow
    <3>3. \A k \in 1 .. Len(z) : (u \o z)[Len(u) + k] = z[k]
      BY <3>0, TwoInARow
    <3> QED BY <1>2, <2>2, <3>1, <3>2, <3>3
  <2>4. \A k \in 1 .. size + m : k > size => data'[k] = Nul
    <3> SUFFICES ASSUME NEW k \in 1 .. size + m, k > size PROVE data'[k] = Nul
      OBVIOUS
    <3>1. k - size \in 1 .. m /\ size + (k - size) = k
      BY <1>3
    <3> QED BY <1>5, <2>1, <2>2, <2>3, <3>1
  <2>5. size + 1 \in 1 .. size + m /\ size + m \in 1 .. size + m /\ size + m > size /\ size + 1 > size
    BY <1>3
  <2>6. data'[size + m] = Nul /\ data'[size + 1] = Nul
    BY <2>4, <2>5
  <2>7. data' # <<>>
    <3>1. Len(data') # 0
      BY <1>3, <1>5, <2>3
    <3> QED BY <3>1
  <2>8. 0 \in 0 .. size + m /\ 0 < size + m
    BY <1>3
  <2>9. BufferInv'
    <3> HIDE DEF Cells
    <3> QED BY <1>1, <1>5, <2>3, <2>5, <2>6, <2>7, <2>8 DEF BufferInv
  <2>10. \A k \in 1 .. size : k \in 1 .. size + m
    BY <1>3
  <2> QED BY <1>2, <1>5, <2>3, <2>4, <2>6, <2>7, <2>9, <2>10
<1>6. ASSUME data' = <<>>, size = 0 PROVE BufferInv'
  <2>1. data' \in Seq(Cells) /\ 0 \in 0 .. Len(data')
    BY <1>6
  <2> HIDE DEF Cells
  <2> QED BY <1>1, <1>6, <2>1 DEF BufferInv
<1>7. \/ data' = data
      \/ \E z \in {<<Nul>>, <<Nul, Nul>>} : data' = u \o z
      \/ data' = <<>> /\ size = 0
  <2>1. CASE ReadHere
    BY <2>1 DEF ReadHere
  <2>2. CASE Receive
    <3>1. Append(u, Nul) = u \o <<Nul>>
      <4> HIDE DEF Cells
      <4> QED BY <1>3
    <3> QED BY <1>2, <2>2, <3>1 DEF Receive
  <2>3. CASE Copy
    BY <1>2, <2>3 DEF Copy
  <2> QED BY <2>1, <2>2, <2>3
<1>8. BufferInv' /\ (data' = <<>> => size = 0)
  BY <1>4, <1>5, <1>6, <1>7
<1>9. CommandTypes'
  <2>1. ArgsOfKind' = ArgsOfKind
    BY <1>1 DEF ArgsOfKind
  <2> QED BY <1>1, <1>8, <2>1 DEF CommandTypes, history
<1>10. ASSUME data' # <<>>
       PROVE  /\ \A k \in 1 .. size : data'[k] = data[k] /\ k \in 1 .. Len(data')
              /\ data' # data => data'[size + 1] = Nul
                                 /\ \A k \in 1 .. Len(data') : k > size => data'[k] = Nul
  BY <1>4, <1>5, <1>7, <1>10
<1> QED BY <1>1, <1>8, <1>9, <1>10

(* What is asked for next.                                                 *)
LEMMA NextTypeIs ==
  ASSUME CommandTypes, Reading
  PROVE  /\ Len(results) \in Nat /\ Len(results) + 1 \in 1 .. Len(packed)
         /\ packed[Len(results) + 1] \in Args /\ NextType \in Type
         /\ kind = "text" => NextType \in {"STRING", "INTEGER"}
<1>1. Len(results) \in Nat /\ Len(packed) \in Nat
  BY WriterIs DEF CommandTypes
<1>2. Len(results) + 1 \in 1 .. Len(packed)
  BY <1>1 DEF Reading
<1>3. packed[Len(results) + 1] \in Args
  BY <1>2, WriterIs
<1>4. NextType \in Type
  BY <1>3, ArgsAre DEF NextType
<1>5. kind = "text" => NextType # "DATA"
  BY <1>2, WriterIs DEF NextType
<1> QED BY <1>1, <1>2, <1>3, <1>4, <1>5 DEF Type

(* What a step keeps of the types when it changes neither the arguments nor *)
(* the stage.                                                               *)
LEMMA ReadingKeepsTypes ==
  ASSUME CommandTypes, Reading, UNCHANGED <<kind, size, writer, stage, packed, total, overflow>>,
         NEW t \in Type, NEW y, Answer(t, y), BufferInv'
  PROVE  CommandTypes'
<1>1. /\ asked' \in Seq(Type) /\ (\E S : results' \in Seq(S)) /\ Len(asked') = Len(results')
      /\ Len(results') <= Len(packed)
  BY AnswerIs
<1>2. ArgsOfKind' = ArgsOfKind
  BY DEF ArgsOfKind
<1>3. /\ kind' \in {"text", "binary"} /\ stage' \in {"pack", "unpack", "received", "crashed"}
      /\ size' \in 0 .. SizeMod - 1 /\ total' \in Nat /\ overflow' = FALSE
      /\ writer' \in Seq(ArgsOfKind) /\ packed' \in Seq(ArgsOfKind)
  BY DEF CommandTypes
<1>4. stage' # "pack"
  BY DEF Reading
<1>5. Len(results') <= Len(packed')
  BY <1>1
<1> QED BY <1>1, <1>2, <1>3, <1>4, <1>5 DEF CommandTypes

(* A text that is there, from a place of which is read.                     *)
LEMMA OnTextIs ==
  ASSUME CommandTypes, kind = "text", OnText
  PROVE  Ending(data) /\ offset \in Nat /\ offset + 1 \in 1 .. Len(data)
<1>1. data \in Seq(Cells) /\ data # <<>> /\ Len(data) \in Nat /\ data[Len(data)] = Nul
  BY DEF CommandTypes, BufferInv, OnText
<1>2. offset \in 0 .. Len(data) /\ offset < Len(data)
  BY DEF CommandTypes, BufferInv, OnText
<1>3. offset \in Nat /\ offset + 1 \in 1 .. Len(data)
  BY <1>1, <1>2
<1> QED BY <1>1, <1>3 DEF Ending

LEMMA UnshiftNothingKeepsTypes ==
  ASSUME CommandTypes, UnshiftNothing PROVE CommandTypes'
<1>1. /\ Reading /\ Answer(NextType, Untouched)
      /\ UNCHANGED <<kind, data, size, offset, writer, stage, packed, total, overflow>>
  BY DEF UnshiftNothing
<1>2. NextType \in Type
  BY <1>1, NextTypeIs
<1>3. BufferInv'
  BY <1>1 DEF CommandTypes, BufferInv
<1> QED BY <1>1, <1>2, <1>3, ReadingKeepsTypes

LEMMA UnshiftTextKeepsTypes ==
  ASSUME CommandTypes, UnshiftText PROVE CommandTypes'
<1> DEFINE next == GetNextArgument(data, offset + 1)
<1>1. /\ Reading /\ kind = "text" /\ OnText /\ data[offset + 1] # Nul
      /\ data' = next.buf /\ offset' = IF next.src = Wild THEN Wild ELSE next.src - 1
      /\ \E y : Answer(NextType, y)
      /\ UNCHANGED <<kind, size, writer, stage, packed, total, overflow>>
  BY DEF UnshiftText
<1>2. Ending(data) /\ offset + 1 \in 1 .. Len(data)
  BY <1>1, OnTextIs
<1>3. /\ Ending(next.buf) /\ Len(next.buf) = Len(data)
      /\ next.src = Wild \/ next.src \in 1 .. Len(data)
  BY <1>1, <1>2, NextStaysInside
<1> HIDE DEF next
<1>4. Len(data) \in Nat /\ size < Len(data)
  BY <1>1, <1>2 DEF CommandTypes, BufferInv, OnText, Ending
<1>5. offset' = Wild \/ (offset' \in 0 .. Len(data) /\ offset' < Len(data))
  BY <1>1, <1>3, <1>4
<1>6. BufferInv'
  <2> HIDE DEF Cells
  <2> QED BY <1>1, <1>3, <1>4, <1>5 DEF BufferInv, Ending
<1>7. NextType \in Type
  BY <1>1, NextTypeIs
<1> QED BY <1>1, <1>6, <1>7, ReadingKeepsTypes

(* A cell of three is the head of an argument.                              *)
LEMMA HeadIs ==
  ASSUME NEW c \in Cells, Len(c) = 3
  PROVE  \E n \in Nat, t \in Type : c = <<"head", n, t>>
<1>1. c \notin Char
  <2>1. \A d \in Char : Len(d) = 1
    BY CommandAssumption
  <2>2. 1 # 3
    OBVIOUS
  <2> QED BY ONLY <2>1, <2>2, Len(c) = 3
<1>2. c \notin {Nul, Blank, Quote, Unset, Rest}
  <2>1. \A d : Len(<<d>>) = 1
    OBVIOUS
  <2>2. 1 # 3
    OBVIOUS
  <2>3. Len(Nul) # 3 /\ Len(Blank) # 3 /\ Len(Quote) # 3 /\ Len(Unset) # 3 /\ Len(Rest) # 3
    BY <2>1, <2>2 DEF Nul, Blank, Quote, Unset, Rest
  <2> QED BY <2>3
<1>3. c \notin {<<"int", b>> : b \in Seq(Char)}
  OBVIOUS
<1> QED BY <1>1, <1>2, <1>3 DEF Cells

LEMMA OnArgumentIs ==
  ASSUME CommandTypes, kind = "binary", OnArgument
  PROVE  /\ offset \in Nat /\ offset + 1 \in 1 .. Len(data) /\ Len(data) \in Nat
         /\ \E n \in Nat, t \in Type : data[offset + 1] = <<"head", n, t>>
                                       /\ offset + HeadBytes + n \in 0 .. Len(data)
<1>1. data \in Seq(Cells) /\ offset \in 0 .. Len(data)
  BY DEF CommandTypes, BufferInv
<1>2. Len(data) \in Nat /\ offset < Len(data)
  BY <1>1 DEF OnArgument
<1>3. offset \in Nat /\ offset + 1 \in 1 .. Len(data)
  BY <1>1, <1>2
<1>4. data[offset + 1] \in Cells /\ Len(data[offset + 1]) = 3
  BY <1>1, <1>3 DEF OnArgument
<1>5. PICK n \in Nat, t \in Type : data[offset + 1] = <<"head", n, t>>
  BY <1>4, HeadIs
<1>6. offset + HeadBytes + n <= Len(data)
  <2>1. data[offset + 1][2] = n
    BY <1>5
  <2> QED BY <2>1 DEF OnArgument
<1>7. offset + HeadBytes + n \in 0 .. Len(data)
  BY <1>2, <1>3, <1>6 DEF HeadBytes
<1> QED BY <1>2, <1>3, <1>5, <1>7

LEMMA UnshiftBinaryKeepsTypes ==
  ASSUME CommandTypes, NEW t \in Type, UnshiftBinary(t) PROVE CommandTypes'
<1>1. /\ Reading /\ kind = "binary" /\ OnArgument /\ \E y : Answer(t, y)
      /\ offset' = offset \/ offset' = offset + HeadBytes + data[offset + 1][2]
      /\ UNCHANGED <<kind, data, size, writer, stage, packed, total, overflow>>
  BY DEF UnshiftBinary
<1>2. PICK n \in Nat, u \in Type : data[offset + 1] = <<"head", n, u>>
                                   /\ offset + HeadBytes + n \in 0 .. Len(data)
  BY <1>1, OnArgumentIs
<1>3. data[offset + 1][2] = n
  BY <1>2
<1>4. BufferInv'
  BY <1>1, <1>2, <1>3 DEF CommandTypes, BufferInv
<1> QED BY <1>1, <1>4, ReadingKeepsTypes

LEMMA UnshiftWildKeepsTypes ==
  ASSUME CommandTypes, UnshiftWild PROVE CommandTypes'
<1>1. stage' = "crashed" /\ UNCHANGED <<kind, data, size, offset, writer, history>>
  BY DEF UnshiftWild
<1>2. ArgsOfKind' = ArgsOfKind /\ BufferInv'
  BY <1>1 DEF ArgsOfKind, CommandTypes, BufferInv
<1> QED BY <1>1, <1>2 DEF CommandTypes, history

LEMMA CommandTypesKept ==
  ASSUME CommandTypes, [NarrowNext]_commandVars PROVE CommandTypes'
<1>1. CASE UNCHANGED commandVars
  <2>1. ArgsOfKind' = ArgsOfKind /\ BufferInv'
    BY <1>1 DEF ArgsOfKind, CommandTypes, BufferInv, commandVars
  <2> QED BY <1>1, <2>1 DEF CommandTypes, commandVars, history
<1>2. ASSUME NEW a \in ArgsOfKind, Push(a) PROVE CommandTypes'
  BY <1>2, PushIs
<1>3. CASE Flush
  BY <1>3, FlushKeepsTypes
<1>4. CASE ReadHere \/ Receive \/ Copy
  BY <1>4, HandOverIs
<1>5. CASE UnshiftNothing
  BY <1>5, UnshiftNothingKeepsTypes
<1>6. CASE UnshiftText
  BY <1>6, UnshiftTextKeepsTypes
<1>7. CASE UnshiftWild
  BY <1>7, UnshiftWildKeepsTypes
<1>8. ASSUME NEW t \in Type, UnshiftBinary(t) PROVE CommandTypes'
  BY <1>8, UnshiftBinaryKeepsTypes
<1> QED BY <1>1, <1>2, <1>3, <1>4, <1>5, <1>6, <1>7, <1>8 DEF NarrowNext

LEMMA CommandTypesFirst ==
  ASSUME CommandInit PROVE CommandTypes
<1>1. /\ kind \in {"text", "binary"} /\ data = <<>> /\ size = 0 /\ offset = 0 /\ writer = <<>>
      /\ packed = <<>> /\ asked = <<>> /\ results = <<>> /\ total = 0 /\ overflow = FALSE
      /\ stage = "pack"
  BY DEF CommandInit
<1>2. BufferInv
  BY <1>1 DEF BufferInv
<1>3. size \in 0 .. SizeMod - 1
  BY <1>1, CommandAssumption
<1>4. writer \in Seq(ArgsOfKind) /\ packed \in Seq(ArgsOfKind) /\ asked \in Seq(Type)
      /\ results \in Seq({}) /\ Len(results) <= Len(packed)
  BY <1>1
<1> QED BY <1>1, <1>2, <1>3, <1>4 DEF CommandTypes

-----------------------------------------------------------------------------
(* What is unpacked.  A part of a sequence.                                *)
LEMMA PartIs ==
  ASSUME NEW S, NEW s \in Seq(S), NEW b \in Seq(S), NEW o \in Nat, o + Len(b) <= Len(s),
         \A k \in 1 .. Len(b) : s[o + k] = b[k]
  PROVE  SubSeq(s, o + 1, o + Len(b)) = b
<1>1. PICK n \in Nat : n = Len(b)
  OBVIOUS
<1>2. Len(s) \in Nat /\ o + n <= Len(s)
  BY <1>1
<1> DEFINE c == SubSeq(s, o + 1, o + n)
<1>3. c \in Seq(S) /\ Len(c) = n /\ \A k \in 1 .. n : c[k] = s[o + k]
  <2>1. (o + n) - (o + 1) + 1 = n /\ o + 1 \in 1 .. Len(s) + 1 /\ o + n \in 0 .. Len(s)
    BY <1>2
  <2>2. \A k \in 1 .. n : k + (o + 1) - 1 = o + k
    OBVIOUS
  <2> QED BY <1>2, <2>1, <2>2
<1> HIDE DEF c
<1>4. \A k \in 1 .. n : c[k] = b[k]
  BY <1>1, <1>3
<1>5. c = b
  <2>1. c \in [1 .. n -> S] /\ b \in [1 .. n -> S]
    BY <1>1, <1>3
  <2> QED BY <1>4, <2>1
<1> QED BY <1>1, <1>5 DEF c

LEMMA CStringIs ==
  ASSUME NEW buf, Ending(buf), NEW o \in Nat, NEW b \in Seq(Cells),
         o + Len(b) + 1 \in 1 .. Len(buf), buf[o + Len(b) + 1] = Nul,
         \A k \in 1 .. Len(b) : buf[o + k] = b[k] /\ b[k] # Nul
  PROVE  CString(buf, o + 1) = b
<1>1. PICK n \in Nat : n = Len(b)
  OBVIOUS
<1>2. Len(buf) \in Nat /\ o + n + 1 \in (o + 1) .. Len(buf) /\ buf[o + n + 1] = Nul
      /\ \A k \in 1 .. n : buf[o + k] # Nul
  BY <1>1 DEF Ending
<1> DEFINE Is(j) == buf[j] = Nul /\ \A k \in (o + 1) .. j - 1 : buf[k] # Nul
<1>3. Is(o + n + 1)
  <2>1. ASSUME NEW k \in (o + 1) .. (o + n + 1) - 1 PROVE buf[k] # Nul
    <3>1. k - o \in 1 .. n /\ o + (k - o) = k
      OBVIOUS
    <3> QED BY <1>2, <3>1
  <2> QED BY <1>2, <2>1
<1>4. ASSUME NEW j \in (o + 1) .. Len(buf), Is(j) PROVE j = o + n + 1
  <2>1. CASE j < o + n + 1
    <3>1. j \in (o + 1) .. (o + n + 1) - 1
      BY <1>2, <2>1
    <3> QED BY <1>3, <1>4, <3>1
  <2>2. CASE j > o + n + 1
    <3>1. o + n + 1 \in (o + 1) .. j - 1
      BY <1>2, <2>2
    <3> QED BY <1>3, <1>4, <3>1
  <2> QED BY <1>2, <2>1, <2>2
<1>5. End(buf, o + 1) = o + n + 1
  <2>1. End(buf, o + 1) = CHOOSE j \in (o + 1) .. Len(buf) : Is(j)
    BY DEF End
  <2> HIDE DEF Is
  <2> QED BY <1>2, <1>3, <1>4, <2>1
<1>6. CString(buf, o + 1) = SubSeq(buf, o + 1, o + n)
  <2>1. (o + n + 1) - 1 = o + n
    OBVIOUS
  <2> QED BY <1>5, <2>1 DEF CString
<1>7. buf \in Seq(Cells) /\ o + Len(b) <= Len(buf)
  BY <1>1, <1>2 DEF Ending
<1> HIDE DEF Cells
<1> QED BY <1>1, <1>6, <1>7, PartIs

(* What a text argument shows when the format can carry it.                *)
LEMMA FaithfulIs ==
  ASSUME kind = "text", NEW a \in Args, a.type # "DATA", Faithful(a)
  PROVE  /\ Len(Shown(a)) \in Nat \ {0} /\ Shown(a)[1] # Blank /\ Shown(a)[1] # Nul
         /\ ~ Quoted(a) => /\ Shown(a)[1] # Quote
                           /\ \A k \in 1 .. Len(a.body) : a.body[k] # Blank
         /\ Quoted(a) => \A k \in 1 .. Len(a.body) : a.body[k] # Quote
         /\ \A k \in 1 .. Len(a.body) : a.body[k] # Nul
<1>1. PICK b \in Seq(Cells), n \in Nat : b = a.body /\ n = Len(b)
  BY ArgsAre
<1>2. \A k \in 1 .. n : b[k] # Nul
  BY <1>1, ArgsAre
<1>3. a.type \in {"INTEGER", "STRING"}
  BY ArgsAre DEF Type
<1>4. n > 0
  <2>1. CASE a.type = "INTEGER"
    <3>1. Len(a.body) \in 1 .. 11
      BY <2>1, ArgsAre
    <3>2. n \in 1 .. 11
      BY <1>1, <3>1
    <3> QED BY <3>2
  <2>2. CASE a.type = "STRING"
    <3>1. a.body # <<>>
      BY <2>2 DEF Faithful
    <3> HIDE DEF Cells
    <3> QED BY <1>1, <3>1
  <2> QED BY <1>3, <2>1, <2>2
<1>5. CASE Quoted(a)
  <2>1. a.type = "STRING" /\ Has(a.body, Blank)
    BY <1>5 DEF Quoted
  <2>2. ~ Has(a.body, Quote)
    BY <2>1 DEF Faithful
  <2>3. \A k \in 1 .. n : b[k] # Quote
    BY <1>1, <2>2 DEF Has
  <2>4. Shown(a)[1] = Quote /\ Len(Shown(a)) = n + 2
    BY <1>1, <1>5, ShownIs
  <2>5. n + 2 \in Nat \ {0}
    OBVIOUS
  <2> QED BY <1>1, <1>2, <1>5, <2>3, <2>4, <2>5, MarksDiffer
<1>6. CASE ~ Quoted(a)
  <2>1. Shown(a) = b /\ 1 \in 1 .. n
    BY <1>1, <1>4, <1>6, ShownIs
  <2>2. \A k \in 1 .. n : b[k] # Blank
    <3>1. CASE a.type = "INTEGER"
      <4>1. b \in Seq(Numeral) /\ Blank \notin Numeral
        BY <1>1, <3>1, ArgsAre, CommandAssumption
      <4>2. \A k \in 1 .. n : b[k] \in Numeral
        BY <1>1, <4>1
      <4> QED BY <4>1, <4>2
    <3>2. CASE a.type = "STRING"
      BY <1>1, <1>6, <3>2 DEF Quoted, Has
    <3> QED BY <1>3, <3>1, <3>2
  <2>3. b[1] # Quote
    <3>1. CASE a.type = "INTEGER"
      <4>1. b \in Seq(Numeral) /\ Quote \notin Numeral
        BY <1>1, <3>1, ArgsAre, CommandAssumption
      <4>2. b[1] \in Numeral
        BY <1>1, <2>1, <4>1
      <4> QED BY <4>1, <4>2
    <3>2. CASE a.type = "STRING"
      <4>1. ~ Has(a.body, Blank)
        BY <1>6, <3>2 DEF Quoted
      <4> QED BY <1>1, <3>2, <4>1 DEF Faithful
    <3> QED BY <1>3, <3>1, <3>2
  <2>4. n \in Nat \ {0}
    BY <1>4
  <2> QED BY <1>1, <1>2, <1>6, <2>1, <2>2, <2>3, <2>4
<1> QED BY <1>5, <1>6

LEMMA StrtoulIs ==
  ASSUME NEW a \in Args, a.type = "INTEGER"
  PROVE  Strtoul(a.body) = a.body
<1>1. a.body \in Seq(Numeral)
  BY ArgsAre
<1>2. \A i \in 1 .. Len(a.body) : a.body[i] \in Numeral
  BY <1>1
<1>3. {i \in 1 .. Len(a.body) : a.body[i] \notin Numeral} = {}
  BY <1>2
<1> QED BY <1>3 DEF Strtoul

(* An argument lies in a buffer behind place o.                            *)
Lies(buf, o, a) ==
  /\ o + Len(Shown(a)) + 1 \in 1 .. Len(buf)
  /\ \A k \in 1 .. Len(Shown(a)) : buf[o + k] = Shown(a)[k]
  /\ LET e == o + Len(Shown(a)) + 1
     IN  /\ buf[e] \in {Blank, Nul}
         /\ buf[e] = Blank => e + 1 \in 1 .. Len(buf) /\ buf[e + 1] # Blank

(* Then the reader stores it and stands behind it.                         *)
IsRead(buf, o, a) ==
  LET next == GetNextArgument(buf, o + 1)
      e == o + Len(Shown(a)) + 1
  IN  /\ next.ok /\ CString(next.buf, next.begin) = a.body
      /\ buf[e] = Blank => next.src = e + 1
      /\ \A j \in 1 .. Len(buf) : j > e => next.buf[j] = buf[j]

LEMMA SkipsOne ==
  ASSUME NEW buf, Ending(buf), NEW i \in 1 .. Len(buf), buf[i] = Blank,
         i + 1 \in 1 .. Len(buf), buf[i + 1] # Blank
  PROVE  SkipBlanks(buf, i) = i + 1
<1>1. PICK r : /\ r = SkipBlanks(buf, i) /\ r \in i .. Len(buf) /\ buf[r] # Blank
               /\ \A k \in i .. r - 1 : buf[k] = Blank
  BY SkipBlanksIs
<1>2. Len(buf) \in Nat /\ r # i
  BY <1>1 DEF Ending
<1>3. r > i + 1 => i + 1 \in i .. r - 1
  BY <1>1, <1>2
<1> QED BY <1>1, <1>2, <1>3

LEMMA QuotedIsRead ==
  ASSUME kind = "text", NEW a \in Args, a.type # "DATA", Faithful(a), Quoted(a),
         NEW buf, Ending(buf), NEW o \in Nat, Lies(buf, o, a)
  PROVE  IsRead(buf, o, a)
<1>1. PICK b \in Seq(Cells), n \in Nat : b = a.body /\ n = Len(b)
  BY ArgsAre
<1> DEFINE q == o + n + 2
           e == o + n + 3
           next == GetNextArgument(buf, o + 1)
<1>2. /\ Len(Shown(a)) = n + 2 /\ Shown(a)[1] = Quote /\ Shown(a)[n + 2] = Quote
      /\ \A k \in 1 .. n : Shown(a)[1 + k] = b[k]
  BY <1>1, ShownIs
<1>3. e = o + Len(Shown(a)) + 1 /\ Len(buf) \in Nat
  <2>1. e = o + (n + 2) + 1
    OBVIOUS
  <2> QED BY <1>2, <2>1 DEF Ending
<1>4. /\ e \in 1 .. Len(buf) /\ buf[e] \in {Blank, Nul}
      /\ buf[e] = Blank => e + 1 \in 1 .. Len(buf) /\ buf[e + 1] # Blank
  BY <1>3 DEF Lies
<1>5. /\ buf[o + 1] = Quote /\ buf[q] = Quote
      /\ \A k \in 1 .. n : buf[(o + 1) + k] = b[k] /\ b[k] # Nul /\ b[k] # Quote
  <2>1. \A k \in 1 .. n + 2 : buf[o + k] = Shown(a)[k]
    BY <1>2 DEF Lies
  <2>2. 1 \in 1 .. n + 2 /\ n + 2 \in 1 .. n + 2 /\ o + (n + 2) = q
    OBVIOUS
  <2>3. \A k \in 1 .. n : 1 + k \in 1 .. n + 2 /\ o + (1 + k) = (o + 1) + k
    OBVIOUS
  <2>4. \A k \in 1 .. n : b[k] # Nul /\ b[k] # Quote
    BY <1>1, FaithfulIs
  <2> HIDE DEF q
  <2> QED BY <1>2, <2>1, <2>2, <2>3, <2>4
<1>6. \A j \in (o + 1) .. q : j \in 1 .. Len(buf) /\ buf[j] # Nul /\ (j \in (o + 2) .. q - 1 => buf[j] # Quote)
  <2> SUFFICES ASSUME NEW j \in (o + 1) .. q
               PROVE  j \in 1 .. Len(buf) /\ buf[j] # Nul /\ (j \in (o + 2) .. q - 1 => buf[j] # Quote)
    OBVIOUS
  <2>1. j \in 1 .. Len(buf)
    BY <1>3, <1>4
  <2>2. CASE j = o + 1 \/ j = q
    BY <1>5, <2>1, <2>2, MarksDiffer
  <2>3. CASE j # o + 1 /\ j # q
    <3>1. j - (o + 1) \in 1 .. n /\ (o + 1) + (j - (o + 1)) = j
      BY <2>3
    <3> QED BY <1>5, <2>1, <3>1
  <2> QED BY <2>2, <2>3
<1>7. Strchr(buf, o + 1, Blank) # 0
  <2>1. o + 1 \in 1 .. Len(buf)
    BY <1>6
  <2>2. PICK k \in 1 .. n : b[k] = Blank
    BY <1>1 DEF Quoted, Has
  <2>3. (o + 1) + k \in (o + 1) .. Len(buf) /\ buf[(o + 1) + k] = Blank
    <3>1. (o + 1) + k \in (o + 1) .. q
      OBVIOUS
    <3>2. (o + 1) + k \in 1 .. Len(buf)
      BY <1>6, <3>1
    <3> QED BY <1>5, <2>2, <3>2
  <2>4. \A j \in (o + 1) .. ((o + 1) + k) - 1 : buf[j] # Nul
    <3>1. \A j \in (o + 1) .. ((o + 1) + k) - 1 : j \in (o + 1) .. q
      OBVIOUS
    <3> QED BY <1>6, <3>1
  <2> QED BY <2>1, <2>3, <2>4, StrchrIs
<1>8. Strchr(buf, o + 2, Quote) = q /\ q # 0
  <2>1. o + 2 \in 1 .. Len(buf) /\ q \in (o + 2) .. Len(buf) /\ q # 0
    BY <1>3, <1>4
  <2>2. PICK r : /\ r = Strchr(buf, o + 2, Quote)
                 /\ \/ r = 0 /\ \A j \in (o + 2) .. Len(buf) : buf[j] = Quote =>
                                   \E k \in (o + 2) .. j - 1 : buf[k] = Nul
                    \/ /\ r \in (o + 2) .. Len(buf) /\ buf[r] = Quote /\ r # 0
                       /\ \A k \in (o + 2) .. r - 1 : buf[k] # Nul /\ buf[k] # Quote
    BY <2>1, StrchrIs
  <2>3. \A k \in (o + 2) .. q - 1 : buf[k] # Nul
    <3>1. \A k \in (o + 2) .. q - 1 : k \in (o + 1) .. q
      OBVIOUS
    <3> QED BY <1>6, <3>1
  <2>4. /\ r \in (o + 2) .. Len(buf) /\ buf[r] = Quote
        /\ \A k \in (o + 2) .. r - 1 : buf[k] # Nul /\ buf[k] # Quote
    <3> HIDE DEF q
    <3> QED BY <1>5, <2>1, <2>2, <2>3
  <2>5. r <= q
    <3>1. r > q => q \in (o + 2) .. r - 1
      BY <1>3, <2>1, <2>4
    <3> QED BY <1>3, <1>5, <2>1, <2>4, <3>1
  <2>6. r >= q
    <3>1. r < q => r \in (o + 2) .. q - 1 /\ r \in (o + 1) .. q
      BY <1>3, <2>1, <2>4
    <3> QED BY <1>3, <1>6, <2>1, <2>4, <3>1
  <2> QED BY <1>3, <2>1, <2>2, <2>4, <2>5, <2>6
<1>9. next = [buf |-> ReplaceAt(buf, q, Nul), src |-> SkipBlanks(buf, e), begin |-> o + 2, ok |-> TRUE]
  <2>1. (o + 1) + 1 = o + 2 /\ q + 1 = e
    OBVIOUS
  <2>2. next = NextOfMany(buf, o + 1)
    BY <1>7 DEF GetNextArgument
  <2> HIDE DEF q, e, next
  <2> QED BY <1>5, <1>8, <2>1, <2>2 DEF NextOfMany
<1>10. /\ next.ok /\ next.begin = o + 2 /\ next.src = SkipBlanks(buf, e)
       /\ next.buf = ReplaceAt(buf, q, Nul)
  <2> HIDE DEF next, q, e
  <2> QED BY <1>9
<1>11. /\ Ending(next.buf) /\ Len(next.buf) = Len(buf) /\ next.buf[q] = Nul
       /\ \A j \in 1 .. Len(buf) : j # q => next.buf[j] = buf[j]
  <2>1. q \in 1 .. Len(buf)
    BY <1>6
  <2>2. LET c == ReplaceAt(buf, q, Nul)
        IN  /\ Ending(c) /\ Len(c) = Len(buf) /\ c[q] = Nul
            /\ \A j \in 1 .. Len(buf) : j # q => c[j] = buf[j]
    <3> HIDE DEF q
    <3> QED BY <2>1, ReplaceAtIs
  <2> HIDE DEF next, q
  <2> QED BY <1>10, <2>2
<1>12. CString(next.buf, (o + 1) + 1) = b
  <2>1. o + 1 \in Nat /\ (o + 1) + n + 1 = q
    OBVIOUS
  <2>2. \A k \in 1 .. n : next.buf[(o + 1) + k] = b[k] /\ b[k] # Nul
    <3>1. \A k \in 1 .. n : (o + 1) + k \in (o + 1) .. q /\ (o + 1) + k # q
      OBVIOUS
    <3>2. \A k \in 1 .. n : (o + 1) + k \in 1 .. Len(buf)
      BY <1>6, <3>1
    <3> HIDE DEF next, q
    <3> QED BY <1>5, <1>11, <3>1, <3>2
  <2>3. q \in 1 .. Len(buf)
    BY <1>6
  <2> HIDE DEF next, q
  <2>4. PICK c : c = next.buf
    OBVIOUS
  <2>5. /\ Ending(c) /\ (o + 1) + Len(b) + 1 \in 1 .. Len(c) /\ c[(o + 1) + Len(b) + 1] = Nul
        /\ \A k \in 1 .. Len(b) : c[(o + 1) + k] = b[k] /\ b[k] # Nul
    BY <1>1, <1>11, <2>1, <2>2, <2>3, <2>4
  <2>6. CString(c, (o + 1) + 1) = b
    BY <2>1, <2>5, CStringIs
  <2> QED BY <2>4, <2>6
<1>13. buf[e] = Blank => next.src = e + 1
  <2> HIDE DEF next, e
  <2> QED BY <1>4, <1>10, SkipsOne
<1>14. \A j \in 1 .. Len(buf) : j > e => next.buf[j] = buf[j]
  <2>1. \A j \in 1 .. Len(buf) : j > e => j # q
    BY <1>3
  <2> HIDE DEF next, e, q
  <2> QED BY <1>11, <2>1
<1>15. CString(next.buf, next.begin) = a.body
  <2>1. (o + 1) + 1 = o + 2
    OBVIOUS
  <2> HIDE DEF next
  <2> QED BY <1>1, <1>10, <1>12, <2>1
<1> HIDE DEF e
<1> QED BY <1>3, <1>10, <1>13, <1>14, <1>15 DEF IsRead

LEMMA PlainIsRead ==
  ASSUME kind = "text", NEW a \in Args, a.type # "DATA", Faithful(a), ~ Quoted(a),
         NEW buf, Ending(buf), NEW o \in Nat, Lies(buf, o, a)
  PROVE  IsRead(buf, o, a)
<1>1. PICK b \in Seq(Cells), n \in Nat \ {0} : b = a.body /\ n = Len(b) /\ b = Shown(a)
  <2>1. Shown(a) = a.body /\ Len(Shown(a)) \in Nat \ {0}
    BY ShownIs, FaithfulIs
  <2> QED BY <2>1, ArgsAre
<1> DEFINE e == o + n + 1
           next == GetNextArgument(buf, o + 1)
<1>2. e = o + Len(Shown(a)) + 1 /\ Len(buf) \in Nat
  BY <1>1 DEF Ending
<1>3. /\ e \in 1 .. Len(buf) /\ buf[e] \in {Blank, Nul}
      /\ buf[e] = Blank => e + 1 \in 1 .. Len(buf) /\ buf[e + 1] # Blank
      /\ \A k \in 1 .. n : buf[o + k] = b[k]
  BY <1>1, <1>2 DEF Lies
<1>4. b[1] # Quote /\ \A k \in 1 .. n : b[k] # Nul /\ b[k] # Blank
  BY <1>1, FaithfulIs
<1>5. \A j \in (o + 1) .. e - 1 : j \in 1 .. Len(buf) /\ buf[j] # Nul /\ buf[j] # Blank
  <2> SUFFICES ASSUME NEW j \in (o + 1) .. e - 1
               PROVE  j \in 1 .. Len(buf) /\ buf[j] # Nul /\ buf[j] # Blank
    OBVIOUS
  <2>1. j \in 1 .. Len(buf)
    BY <1>2, <1>3
  <2>2. j - o \in 1 .. n /\ o + (j - o) = j
    OBVIOUS
  <2> QED BY <1>3, <1>4, <2>1, <2>2
<1>6. o + 1 \in (o + 1) .. e - 1 /\ o + 1 \in 1 .. Len(buf) /\ buf[o + 1] # Quote /\ buf[o + 1] # Nul
  <2>1. 1 \in 1 .. n /\ o + 1 \in (o + 1) .. e - 1
    OBVIOUS
  <2>2. buf[o + 1] = b[1]
    BY <1>3, <2>1
  <2> QED BY <1>4, <1>5, <2>1, <2>2
<1>7. PICK r : /\ r = Strchr(buf, o + 1, Blank)
               /\ \/ r = 0 /\ \A j \in (o + 1) .. Len(buf) : buf[j] = Blank =>
                                 \E k \in (o + 1) .. j - 1 : buf[k] = Nul
                  \/ /\ r \in (o + 1) .. Len(buf) /\ buf[r] = Blank /\ r # 0
                     /\ \A k \in (o + 1) .. r - 1 : buf[k] # Nul /\ buf[k] # Blank
  BY <1>6, StrchrIs
<1>8. e \in (o + 1) .. Len(buf) /\ e # 0
  BY <1>2, <1>3
<1>9. CASE buf[e] = Blank
  <2>1. r # 0
    <3> HIDE DEF e
    <3> QED BY <1>5, <1>7, <1>8, <1>9
  <2>2. r \in (o + 1) .. Len(buf) /\ buf[r] = Blank
        /\ \A k \in (o + 1) .. r - 1 : buf[k] # Nul /\ buf[k] # Blank
    BY <1>7, <2>1
  <2>3. r = e
    <3>1. r > e => e \in (o + 1) .. r - 1
      BY <1>2, <1>8, <2>2
    <3>2. r < e => r \in (o + 1) .. e - 1
      BY <1>2, <1>8, <2>2
    <3>3. ~ (r > e) /\ ~ (r < e)
      BY <1>5, <1>9, <2>2, <3>1, <3>2
    <3> QED BY <1>2, <1>8, <2>2, <3>3
  <2>4. next = [buf |-> ReplaceAt(buf, e, Nul), src |-> SkipBlanks(buf, e + 1), begin |-> o + 1, ok |-> TRUE]
    <3>1. next = NextOfMany(buf, o + 1)
      BY <1>7, <2>1 DEF GetNextArgument
    <3> HIDE DEF next, e
    <3> QED BY <1>6, <1>7, <2>3, <3>1 DEF NextOfMany
  <2>5. /\ next.ok /\ next.begin = o + 1 /\ next.src = SkipBlanks(buf, e + 1)
        /\ next.buf = ReplaceAt(buf, e, Nul)
    <3> HIDE DEF next, e
    <3> QED BY <2>4
  <2>6. /\ Ending(next.buf) /\ Len(next.buf) = Len(buf) /\ next.buf[e] = Nul
        /\ \A j \in 1 .. Len(buf) : j # e => next.buf[j] = buf[j]
    <3>1. LET c == ReplaceAt(buf, e, Nul)
          IN  /\ Ending(c) /\ Len(c) = Len(buf) /\ c[e] = Nul
              /\ \A j \in 1 .. Len(buf) : j # e => c[j] = buf[j]
      <4> HIDE DEF e
      <4> QED BY <1>3, ReplaceAtIs
    <3> HIDE DEF next, e
    <3> QED BY <2>5, <3>1
  <2>7. CString(next.buf, o + 1) = b
    <3>1. \A k \in 1 .. n : o + k \in (o + 1) .. e - 1 /\ o + k # e
      OBVIOUS
    <3>2. \A k \in 1 .. n : o + k \in 1 .. Len(buf)
      BY <1>5, <3>1
    <3>3. \A k \in 1 .. n : next.buf[o + k] = b[k] /\ b[k] # Nul
      <4> HIDE DEF next, e
      <4> QED BY <1>3, <1>4, <2>6, <3>1, <3>2
    <3>4. e = o + Len(b) + 1
      BY <1>1
    <3> HIDE DEF next, e
    <3> QED BY <1>1, <1>3, <2>6, <3>3, <3>4, CStringIs
  <2>8. next.src = e + 1
    <3>1. SkipBlanks(buf, e + 1) = e + 1
      <4> HIDE DEF e
      <4> QED BY <1>3, <1>9, SkipBlanksIs
    <3> HIDE DEF next, e
    <3> QED BY <2>5, <3>1
  <2>9. \A j \in 1 .. Len(buf) : j > e => next.buf[j] = buf[j]
    <3>1. \A j \in 1 .. Len(buf) : j > e => j # e
      BY <1>2
    <3> HIDE DEF next, e
    <3> QED BY <2>6, <3>1
  <2> HIDE DEF e
  <2> QED BY <1>1, <1>2, <2>5, <2>7, <2>8, <2>9 DEF IsRead
<1>10. CASE buf[e] = Nul
  <2>1. r = 0
    <3>1. SUFFICES ASSUME r # 0 PROVE FALSE
      OBVIOUS
    <3>2. r \in (o + 1) .. Len(buf) /\ buf[r] = Blank /\ \A k \in (o + 1) .. r - 1 : buf[k] # Nul
      BY <1>7, <3>1
    <3>3. r > e => e \in (o + 1) .. r - 1
      BY <1>2, <1>8, <3>2
    <3>4. r < e => r \in (o + 1) .. e - 1
      BY <1>2, <1>8, <3>2
    <3>5. ~ (r > e) /\ ~ (r < e) /\ r # e
      BY <1>5, <1>10, <3>2, <3>3, <3>4, MarksDiffer
    <3> QED BY <1>2, <1>8, <3>2, <3>5
  <2>2. next = [buf |-> buf, src |-> Wild, begin |-> o + 1, ok |-> TRUE]
    <3>1. next = LastOfAll(buf, o + 1)
      BY <1>7, <2>1 DEF GetNextArgument
    <3> HIDE DEF next
    <3> QED BY <1>6, <3>1 DEF LastOfAll
  <2>3. next.ok /\ next.buf = buf /\ next.begin = o + 1
    <3> HIDE DEF next
    <3> QED BY <2>2
  <2>4. CString(buf, o + 1) = b
    <3>1. e = o + Len(b) + 1
      BY <1>1
    <3> HIDE DEF e
    <3> QED BY <1>1, <1>3, <1>4, <1>10, <3>1, CStringIs
  <2> HIDE DEF e, next
  <2>5. CString(next.buf, next.begin) = a.body
    BY <1>1, <2>3, <2>4
  <2> QED BY <1>2, <1>10, <2>3, <2>5, MarksDiffer DEF IsRead, next
<1> QED BY <1>3, <1>9, <1>10

LEMMA ArgumentIsRead ==
  ASSUME kind = "text", NEW a \in Args, a.type # "DATA", Faithful(a),
         NEW buf, Ending(buf), NEW o \in Nat, Lies(buf, o, a)
  PROVE  IsRead(buf, o, a)
BY QuotedIsRead, PlainIsRead

-----------------------------------------------------------------------------
(* The arguments that are written are the first ones, the others wait.     *)
Placed == Len(packed) - Len(writer)

WriterInv ==
  /\ Placed \in 0 .. Len(packed)
  /\ \A i \in 1 .. Len(writer) : Placed + i \in 1 .. Len(packed) /\ writer[i] = packed[Placed + i]
  /\ stage # "pack" => writer = <<>>

LEMMA PushKeepsWriter ==
  ASSUME CommandTypes, WriterInv, NEW a \in ArgsOfKind, Push(a) PROVE WriterInv'
<1>1. /\ Len(packed') = Len(packed) + 1 /\ Len(writer') = Len(writer) + 1
      /\ writer'[Len(writer) + 1] = a /\ packed'[Len(packed) + 1] = a
      /\ \A i \in 1 .. Len(writer) : writer'[i] = writer[i]
      /\ \A i \in 1 .. Len(packed) : packed'[i] = packed[i]
      /\ Len(packed) \in Nat /\ Len(writer) \in Nat
  <2>1. writer' = Append(writer, a) /\ packed' = Append(packed, a)
    BY DEF Push
  <2>2. writer \in Seq(ArgsOfKind) /\ packed \in Seq(ArgsOfKind)
    BY DEF CommandTypes
  <2>3. /\ Len(writer') = Len(writer) + 1 /\ Len(writer) \in Nat
        /\ writer'[Len(writer) + 1] = a /\ \A i \in 1 .. Len(writer) : writer'[i] = writer[i]
    BY <2>1, <2>2, AppendIs
  <2>4. /\ Len(packed') = Len(packed) + 1 /\ Len(packed) \in Nat
        /\ packed'[Len(packed) + 1] = a /\ \A i \in 1 .. Len(packed) : packed'[i] = packed[i]
    BY <2>1, <2>2, AppendIs
  <2> QED BY <2>3, <2>4
<1>2. stage' = "pack"
  BY DEF Push
<1>3. PICK n \in Nat, m \in Nat : n = Len(packed) /\ m = Len(writer)
  BY <1>1
<1>4. n - m \in 0 .. n /\ \A i \in 1 .. m : (n - m) + i \in 1 .. n /\ writer[i] = packed[(n - m) + i]
  BY <1>3 DEF WriterInv, Placed
<1>5. Placed' = n - m
  BY <1>1, <1>3 DEF Placed
<1>6. ASSUME NEW i \in 1 .. m + 1
      PROVE  (n - m) + i \in 1 .. n + 1 /\ writer'[i] = packed'[(n - m) + i]
  <2>1. CASE i = m + 1
    <3>1. (n - m) + i = n + 1
      BY <2>1
    <3> QED BY <1>1, <1>3, <2>1, <3>1
  <2>2. CASE i # m + 1
    <3>1. i \in 1 .. m /\ \A j \in 1 .. n : j \in 1 .. n + 1
      BY <2>2
    <3> QED BY <1>1, <1>3, <1>4, <3>1
  <2> QED BY <2>1, <2>2
<1>7. n - m \in 0 .. n + 1
  BY <1>4
<1> QED BY <1>1, <1>3, <1>5, <1>6, <1>7, <1>2 DEF WriterInv

LEMMA WriterInvKept ==
  ASSUME CommandTypes, WriterInv, [NarrowNext]_commandVars PROVE WriterInv'
<1>1. CASE UNCHANGED <<writer, packed>> /\ (stage' # "pack" => writer = <<>>)
  BY <1>1 DEF WriterInv, Placed
<1>2. CASE UNCHANGED commandVars
  BY <1>2 DEF WriterInv, Placed, commandVars, history
<1>3. ASSUME NEW a \in ArgsOfKind, Push(a) PROVE WriterInv'
  BY <1>3, PushKeepsWriter
<1>4. ASSUME Flush PROVE WriterInv'
  <2>1. writer' = <<>> /\ packed' = packed
    BY <1>4 DEF Flush
  <2>2. Len(packed) \in Nat /\ Len(writer') = 0
    BY <2>1, WriterIs
  <2>3. Placed' = Len(packed) /\ Len(packed) \in 0 .. Len(packed)
    BY <2>1, <2>2 DEF Placed
  <2> QED BY <2>1, <2>2, <2>3 DEF WriterInv
<1>5. ASSUME ReadHere \/ Receive \/ Copy PROVE WriterInv'
  <2>1. UNCHANGED <<writer, packed>> /\ writer = <<>>
    BY <1>5 DEF ReadHere, Receive, Copy, Flushed, history
  <2> QED BY <1>1, <2>1
<1>6. ASSUME UnshiftNothing \/ UnshiftText \/ UnshiftWild \/ \E t \in Type : UnshiftBinary(t)
      PROVE  WriterInv'
  <2>1. UNCHANGED <<writer, packed>> /\ stage \in {"unpack", "received"}
    BY <1>6 DEF UnshiftNothing, UnshiftText, UnshiftWild, UnshiftBinary, Reading, history
  <2>2. writer = <<>>
    BY <2>1 DEF WriterInv
  <2> QED BY <1>1, <2>1, <2>2
<1> QED BY <1>2, <1>3, <1>4, <1>5, <1>6 DEF NarrowNext

-----------------------------------------------------------------------------
(* Where the arguments of a text lie: behind each is a blank or the NUL.   *)
Starts(st, p) ==
  st[0] = 0 /\ \A i \in 1 .. Len(p) : st[i] = st[i - 1] + Len(Shown(p[i])) + 1

TextAsks == kind = "text" /\ total < SizeMod /\ \A i \in 1 .. Len(packed) : Faithful(packed[i])

StandsIn(cells, st, i) ==
  \A k \in 1 .. Len(Shown(packed[i])) : cells[st[i - 1] + k] = Shown(packed[i])[k]

TextIs(st) ==
  /\ size = IF Placed = 0 THEN 0 ELSE st[Placed] - 1
  /\ Placed > 0 => data # <<>>
  /\ \A i \in 1 .. Placed : i > Len(results) =>
       StandsIn(data, st, i) /\ data[st[i]] = IF i < Placed THEN Blank ELSE Nul
  /\ Len(results) < Placed => offset = st[Len(results)]
  /\ \A i \in 1 .. Len(results) : results[i] = packed[i].body /\ asked[i] = packed[i].type
  /\ stage # "crashed"

TextInv == TextAsks => \A st \in [0 .. Len(packed) -> Nat] : Starts(st, packed) => TextIs(st)

LEMMA StartsAre ==
  ASSUME CommandTypes, kind = "text"
  PROVE  \E st \in [0 .. Len(packed) -> Nat] : Starts(st, packed)
<1> DEFINE n == Len(packed)
           amount == [i \in 1 .. n |-> Len(Shown(packed[i])) + 1]
<1>1. n \in Nat /\ \A i \in 1 .. n : Len(Shown(packed[i])) \in Nat
  BY WriterIs, ShownIs
<1>2. amount \in [1 .. n -> Nat]
  BY <1>1
<1>3. PICK f \in [0 .. n -> Nat] : SumsOf(f, n, amount)
  <2> HIDE DEF n, amount
  <2> QED BY <1>1, <1>2, SumsAre
<1>4. f[0] = 0 /\ \A i \in 1 .. n : f[i] = f[i - 1] + amount[i]
  <2> HIDE DEF amount
  <2> QED BY <1>3 DEF SumsOf
<1>5. \A i \in 1 .. n : f[i] = f[i - 1] + Len(Shown(packed[i])) + 1
  <2> SUFFICES ASSUME NEW i \in 1 .. n PROVE f[i] = f[i - 1] + Len(Shown(packed[i])) + 1
    OBVIOUS
  <2>1. i - 1 \in 0 .. n
    BY <1>1
  <2>2. f[i - 1] \in Nat /\ Len(Shown(packed[i])) \in Nat
    BY <1>1, <2>1
  <2>3. f[i] = f[i - 1] + (Len(Shown(packed[i])) + 1)
    BY <1>4
  <2> QED BY <2>2, <2>3
<1> QED BY <1>4, <1>5 DEF Starts

(* One after the other. *)
LEMMA StartsGrow ==
  ASSUME CommandTypes, TextAsks, NEW st \in [0 .. Len(packed) -> Nat], Starts(st, packed)
  PROVE  /\ Len(packed) \in Nat
         /\ \A i \in 1 .. Len(packed) :
              /\ i - 1 \in 0 .. Len(packed) /\ st[i - 1] \in Nat /\ st[i] \in Nat
              /\ packed[i] \in Args /\ packed[i].type # "DATA" /\ Faithful(packed[i])
              /\ Len(Shown(packed[i])) \in Nat \ {0}
              /\ st[i] = st[i - 1] + Len(Shown(packed[i])) + 1
              /\ \A j \in 0 .. i : st[j] <= st[i]
<1> DEFINE n == Len(packed)
           L(i) == Len(Shown(packed[i]))
<1>1. n \in Nat /\ \A i \in 1 .. n : packed[i] \in Args /\ packed[i].type # "DATA" /\ Faithful(packed[i])
  BY WriterIs DEF TextAsks
<1>2. \A i \in 1 .. n : L(i) \in Nat \ {0}
  BY <1>1, FaithfulIs DEF TextAsks
<1>3. \A i \in 1 .. n : /\ i - 1 \in 0 .. n /\ i \in 0 .. n /\ st[i - 1] \in Nat /\ st[i] \in Nat
                        /\ st[i] = st[i - 1] + L(i) + 1
  <2>1. \A i \in 1 .. n : i - 1 \in 0 .. n /\ i \in 0 .. n
    BY <1>1
  <2> QED BY <2>1 DEF Starts
<1> HIDE DEF L
<1>4. \A i \in 1 .. n : st[i - 1] <= st[i]
  <2> SUFFICES ASSUME NEW i \in 1 .. n PROVE st[i - 1] <= st[i]
    OBVIOUS
  <2>1. PICK x \in Nat, y \in Nat, l \in Nat : x = st[i - 1] /\ y = st[i] /\ y = x + l + 1
    BY <1>2, <1>3
  <2> QED BY <2>1
<1>6. \A i \in 1 .. n : \A j \in 0 .. i : st[j] <= st[i]
  BY <1>1, <1>4, Climbs
<1> QED BY <1>1, <1>2, <1>3, <1>6 DEF L

LEMMA PushKeepsText ==
  ASSUME CommandTypes, WriterInv, TextInv, NEW a \in ArgsOfKind, Push(a) PROVE TextInv'
<1> SUFFICES ASSUME TextAsks', NEW st \in [0 .. Len(packed') -> Nat], Starts(st, packed')
             PROVE  TextIs(st)'
  BY DEF TextInv
<1> DEFINE n == Len(packed)
           s == [i \in 0 .. n |-> st[i]]
<1>1. /\ Len(packed') = n + 1 /\ n \in Nat /\ Len(writer') = Len(writer) + 1 /\ Len(writer) \in Nat
      /\ \A i \in 1 .. n : packed'[i] = packed[i]
      /\ UNCHANGED <<kind, data, size, offset, stage, asked, results, total>>
      /\ stage = "pack"
  BY PushIs DEF Push
<1>2. \A i \in 1 .. n : i \in 1 .. n + 1 /\ i - 1 \in 0 .. n /\ i \in 0 .. n
  BY <1>1
<1>3. TextAsks
  BY <1>1, <1>2 DEF TextAsks, Faithful
<1>4. s \in [0 .. n -> Nat] /\ \A i \in 0 .. n : s[i] = st[i]
  <2>1. \A i \in 0 .. n : i \in 0 .. n + 1
    BY <1>1
  <2> QED BY <1>1, <2>1
<1>5. Starts(s, packed)
  <2>1. 0 \in 0 .. n
    BY <1>1
  <2> HIDE DEF s
  <2> QED BY <1>1, <1>2, <1>4, <2>1 DEF Starts
<1>6. TextIs(s)
  <2> HIDE DEF s
  <2> QED BY <1>3, <1>4, <1>5 DEF TextInv
<1>7. Placed' = Placed /\ Placed \in 0 .. n /\ Len(results) = 0
  <2>1. results = <<>>
    BY <1>1 DEF CommandTypes
  <2> QED BY <1>1, <2>1 DEF Placed, WriterInv
<1>8. \A i \in 1 .. Placed : i \in 1 .. n
  BY <1>1, <1>7
<1> HIDE DEF s
<1>9. size' = IF Placed' = 0 THEN 0 ELSE st[Placed'] - 1
  BY <1>1, <1>4, <1>6, <1>7 DEF TextIs
<1>10. ASSUME NEW i \in 1 .. Placed'
       PROVE  StandsIn(data, st, i)' /\ data'[st[i]] = IF i < Placed' THEN Blank ELSE Nul
  <2>1. i \in 1 .. n /\ i \in 1 .. Placed /\ i > Len(results)
    BY <1>1, <1>7, <1>8
  <2>2. StandsIn(data, s, i) /\ data[s[i]] = IF i < Placed THEN Blank ELSE Nul
    BY <1>6, <2>1 DEF TextIs
  <2> QED BY <1>1, <1>2, <1>4, <1>7, <2>1, <2>2 DEF StandsIn
<1>11. Len(results') < Placed' => offset' = st[Len(results')]
  <2>1. 0 \in 0 .. n
    BY <1>1
  <2> QED BY <1>1, <1>4, <1>6, <1>7, <2>1 DEF TextIs
<1>12. \A i \in 1 .. Len(results') : results'[i] = packed'[i].body /\ asked'[i] = packed'[i].type
  BY <1>1, <1>7
<1>13. Placed' > 0 => data' # <<>>
  BY <1>1, <1>6, <1>7 DEF TextIs
<1> QED BY <1>1, <1>9, <1>10, <1>11, <1>12, <1>13 DEF TextIs

(* A row of the first j arguments.                                         *)
RowIs(row, st, j) ==
  /\ row \in Seq(Cells) /\ Len(row) \in Nat
  /\ Len(row) = IF j = 0 THEN 0 ELSE st[j] - 1
  /\ \A i \in 1 .. j : StandsIn(row, st, i) /\ (i < j => row[st[i]] = Blank)

LEMMA JoinedIs ==
  ASSUME CommandTypes, TextAsks, NEW st \in [0 .. Len(packed) -> Nat], Starts(st, packed),
         NEW row, NEW j \in 0 .. Len(packed), j < Len(packed), RowIs(row, st, j)
  PROVE  RowIs(Joined(row, packed[j + 1]), st, j + 1)
<1> DEFINE a == packed[j + 1]
           b == Shown(a)
<1>1. /\ Len(packed) \in Nat /\ j \in Nat /\ j + 1 \in 1 .. Len(packed) /\ (j + 1) - 1 = j
      /\ \A i \in 1 .. j : i \in 1 .. Len(packed)
  BY StartsGrow
<1>2. /\ st[j] \in Nat /\ st[j + 1] \in Nat /\ st[j + 1] = st[j] + Len(b) + 1
      /\ Len(b) \in Nat \ {0} /\ b \in Seq(Cells) /\ st[0] = 0
  <2>1. a \in Args /\ a.type # "DATA"
    BY <1>1, StartsGrow
  <2>2. b \in Seq(Cells)
    BY <2>1, ShownIs
  <2>3. /\ st[j] \in Nat /\ st[j + 1] \in Nat /\ st[j + 1] = st[j] + Len(b) + 1
        /\ Len(b) \in Nat \ {0}
    <3> HIDE DEF Cells
    <3> QED BY <1>1, StartsGrow
  <2> QED BY <2>2, <2>3 DEF Starts
<1> HIDE DEF a, b
<1>3. PICK l \in Nat, p \in Nat, q \in Nat : l = Len(b) /\ p = st[j] /\ q = st[j + 1] /\ q = p + l + 1 /\ l # 0
  BY <1>2
<1>4. row \in Seq(Cells) /\ Len(row) \in Nat /\ Len(row) = IF j = 0 THEN 0 ELSE p - 1
  BY <1>3 DEF RowIs
<1>5. CASE j = 0
  <2>1. row = <<>> /\ p = 0
    <3>1. Len(row) = 0
      BY <1>4, <1>5
    <3> HIDE DEF Cells
    <3> QED BY <1>2, <1>3, <1>4, <1>5, <3>1
  <2>2. Joined(row, a) = b
    BY <2>1 DEF Joined, b
  <2>3. Len(b) = st[j + 1] - 1 /\ j + 1 # 0
    BY <1>3, <1>5, <2>1
  <2>4. StandsIn(b, st, 1)
    <3>1. 1 - 1 = 0 /\ packed[1] = a /\ st[0] = 0
      BY <1>2, <1>5 DEF a
    <3> QED BY <3>1 DEF StandsIn, b
  <2>5. \A i \in 1 .. j + 1 : i = 1 /\ ~ (i < j + 1)
    BY <1>5
  <2> HIDE DEF Cells
  <2> QED BY <1>2, <2>2, <2>3, <2>4, <2>5 DEF RowIs, a
<1>6. CASE j # 0
  <2>1. p >= 2
    <3>1. j \in 1 .. Len(packed)
      BY <1>1, <1>6
    <3>2. PICK x \in Nat, y \in Nat \ {0} : st[j] = x + y + 1
      BY <3>1, StartsGrow
    <3> QED BY <1>3, <3>2
  <2>2. Len(row) = p - 1 /\ row # <<>>
    <3>1. Len(row) = p - 1 /\ Len(row) # 0
      BY <1>4, <1>6, <2>1
    <3> QED BY <3>1
  <2>3. Joined(row, a) = (row \o <<Blank>>) \o b
    BY <2>2 DEF Joined, b
  <2>4. PICK z \in Seq(Cells) : z = <<Blank>> /\ Len(z) = 1 /\ z[1] = Blank
    <3>1. Blank \in Cells
      BY DEF Cells
    <3> QED BY <3>1, OneElement
  <2>5. PICK c \in Seq(Cells) :
          /\ c = row \o z /\ Len(c) = p
          /\ \A k \in 1 .. p - 1 : c[k] = row[k]
          /\ c[p] = Blank
    <3>1. /\ row \o z \in Seq(Cells) /\ Len(row \o z) = Len(row) + Len(z)
          /\ \A k \in 1 .. Len(row) : (row \o z)[k] = row[k]
          /\ \A k \in 1 .. Len(z) : (row \o z)[Len(row) + k] = z[k]
      <4> HIDE DEF Cells
      <4>1. PICK u \in Seq(Cells) : u = row
        BY <1>4
      <4> QED BY <4>1, TwoInARow
    <3>2. Len(row) = p - 1 /\ Len(row) + Len(z) = p /\ Len(row) + 1 = p /\ 1 \in 1 .. Len(z)
      BY <2>2, <2>4, <1>3
    <3>3. (row \o z)[p] = Blank
      BY <2>4, <3>1, <3>2
    <3> HIDE DEF Cells
    <3> QED BY <3>1, <3>2, <3>3
  <2>6. PICK d \in Seq(Cells) :
          /\ d = c \o b /\ Len(d) = p + l
          /\ \A k \in 1 .. p : d[k] = c[k]
          /\ \A k \in 1 .. l : d[p + k] = b[k]
    <3>1. b \in Seq(Cells)
      BY <1>2
    <3>2. /\ c \o b \in Seq(Cells) /\ Len(c \o b) = Len(c) + Len(b)
          /\ \A k \in 1 .. Len(c) : (c \o b)[k] = c[k]
          /\ \A k \in 1 .. Len(b) : (c \o b)[Len(c) + k] = b[k]
      <4> HIDE DEF Cells
      <4> QED BY <3>1, TwoInARow
    <3> HIDE DEF Cells
    <3>3. Len(c) = p /\ Len(b) = l
      BY <1>3, <2>5
    <3>4. PICK d : d = c \o b
      OBVIOUS
    <3>5. /\ d \in Seq(Cells) /\ Len(d) = p + l
          /\ \A k \in 1 .. p : d[k] = c[k]
          /\ \A k \in 1 .. l : d[p + k] = b[k]
      BY <3>2, <3>3, <3>4
    <3> QED BY <3>4, <3>5
  <2>7. Joined(row, a) = d
    BY <2>3, <2>4, <2>5, <2>6
  <2>8. Len(d) \in Nat /\ Len(d) = st[j + 1] - 1 /\ j + 1 # 0
    <3>1. (p + l + 1) - 1 = p + l /\ p + l \in Nat /\ j + 1 # 0
      BY <1>1
    <3>2. st[j + 1] - 1 = p + l
      BY <1>3, <3>1
    <3> QED BY <2>6, <3>1, <3>2
  <2>9. ASSUME NEW i \in 1 .. j, NEW k \in 1 .. Len(Shown(packed[i]))
        PROVE  st[i - 1] + k \in 1 .. p - 1
    <3>1. i \in 1 .. Len(packed) /\ i \in 0 .. j /\ j \in 1 .. Len(packed)
      BY <1>1, <1>6
    <3>2. PICK x \in Nat, y \in Nat, m \in Nat :
            x = st[i - 1] /\ y = st[i] /\ m = Len(Shown(packed[i])) /\ y = x + m + 1 /\ y <= p
      BY <1>3, <3>1, StartsGrow
    <3>3. k \in 1 .. m /\ y <= p /\ y = x + m + 1
      BY <3>2
    <3>4. x + k \in 1 .. p - 1
      BY <3>3
    <3> QED BY <3>2, <3>4
  <2>10. \A k \in 1 .. p - 1 : k \in 1 .. p
    BY <1>3
  <2>11. ASSUME NEW i \in 1 .. j PROVE StandsIn(d, st, i)
    <3>1. StandsIn(row, st, i)
      BY DEF RowIs
    <3> QED BY <2>5, <2>6, <2>9, <2>10, <3>1 DEF StandsIn
  <2>12. StandsIn(d, st, j + 1)
    BY <1>1, <1>3, <2>6 DEF StandsIn, a, b
  <2>13. ASSUME NEW i \in 1 .. j, i < j PROVE d[st[i]] = Blank
    <3>1. i + 1 \in 1 .. j /\ (i + 1) - 1 = i /\ i + 1 \in 1 .. Len(packed) /\ i \in 1 .. Len(packed)
      BY <1>1, <2>13
    <3>2. PICK y \in Nat : st[i] = y /\ y # 0
      <4>1. /\ st[i - 1] \in Nat /\ st[i] \in Nat /\ Len(Shown(packed[i])) \in Nat \ {0}
            /\ st[i] = st[i - 1] + Len(Shown(packed[i])) + 1
        BY <3>1, StartsGrow
      <4> QED BY <4>1
    <3>3. PICK u \in Nat, v \in Nat \ {0} : st[i + 1] = u /\ u = y + v + 1 /\ u <= p
      <4>1. i + 1 \in 0 .. j /\ j \in 1 .. Len(packed)
        BY <1>1, <1>6, <3>1
      <4> QED BY <1>3, <3>1, <3>2, <4>1, StartsGrow
    <3>4. y \in 1 .. p - 1
      BY <3>2, <3>3
    <3>5. row[st[i]] = Blank
      BY <2>13 DEF RowIs
    <3> QED BY <2>5, <2>6, <2>10, <3>2, <3>4, <3>5
  <2>14. d[st[j]] = Blank
    <3>1. p \in 1 .. p
      BY <2>1
    <3> QED BY <1>3, <2>5, <2>6, <3>1
  <2>15. \A i \in 1 .. j + 1 : \/ i \in 1 .. j /\ (i < j \/ i = j)
                               \/ i = j + 1 /\ ~ (i < j + 1)
    BY <1>1
  <2>16. \A i \in 1 .. j + 1 : StandsIn(d, st, i) /\ (i < j + 1 => d[st[i]] = Blank)
    BY <2>11, <2>12, <2>13, <2>14, <2>15
  <2> HIDE DEF Cells
  <2> QED BY <2>7, <2>8, <2>16 DEF RowIs, a
<1> QED BY <1>5, <1>6

LEMMA Squeezed ==
  ASSUME NEW y \in Nat \ {0}, NEW v \in Nat, NEW s \in Nat, y + v + 1 <= s + 1
  PROVE  y \in 1 .. s
OBVIOUS

LEMMA InnerPlace ==
  ASSUME NEW x \in Nat, NEW l \in Nat, NEW s \in Nat, x + l + 1 <= s + 1, NEW k \in 1 .. l
  PROVE  x + k \in 1 .. s
OBVIOUS

(* What a place in the row of the first Placed arguments is.              *)
LEMMA PlacesAre ==
  ASSUME CommandTypes, WriterInv, TextAsks, NEW st \in [0 .. Len(packed) -> Nat],
         Starts(st, packed), TextIs(st)
  PROVE  /\ size \in Nat /\ Len(data) \in Nat /\ size <= Len(data)
         /\ Placed \in 0 .. Len(packed)
         /\ Placed > 0 => st[Placed] = size + 1 /\ size + 1 \in 1 .. Len(data) /\ size # 0
         /\ \A i \in 1 .. Placed :
              /\ i \in 1 .. Len(packed)
              /\ st[i] \in Nat /\ st[i - 1] \in Nat /\ st[i] <= size + 1
              /\ i < Placed => st[i] \in 1 .. size
              /\ \A k \in 1 .. Len(Shown(packed[i])) : st[i - 1] + k \in 1 .. size
<1>1. size \in Nat /\ Placed \in 0 .. Len(packed) /\ Len(packed) \in Nat
  BY UsedIs, WriterIs DEF WriterInv
<1>2. Len(data) \in Nat /\ size <= Len(data) /\ (data # <<>> => size < Len(data))
  <2>1. data \in Seq(Cells)
    BY DEF CommandTypes, BufferInv
  <2>2. Len(data) \in Nat
    BY <2>1
  <2>3. (data = <<>> => size = 0) /\ (data # <<>> => size < Len(data))
    BY DEF CommandTypes, BufferInv
  <2> QED BY <1>1, <2>2, <2>3
<1> DEFINE w == Placed
<1>3. \A i \in 1 .. w : i \in 1 .. Len(packed)
  BY <1>1
<1>4. w > 0 => st[w] = size + 1 /\ size + 1 \in 1 .. Len(data) /\ size # 0
  <2> SUFFICES ASSUME w > 0 PROVE st[w] = size + 1 /\ size + 1 \in 1 .. Len(data) /\ size # 0
    OBVIOUS
  <2>1. w \in 1 .. Len(packed)
    BY <1>1
  <2>2. /\ st[w] \in Nat /\ st[w - 1] \in Nat /\ Len(Shown(packed[w])) \in Nat \ {0}
        /\ st[w] = st[w - 1] + Len(Shown(packed[w])) + 1
    BY <2>1, StartsGrow
  <2>3. size = st[w] - 1 /\ data # <<>>
    BY <1>1 DEF TextIs
  <2> HIDE DEF w
  <2>4. PICK y \in Nat : y = st[w] /\ y >= 2
    BY <2>2
  <2> QED BY <1>1, <1>2, <2>3, <2>4
<1>5. ASSUME NEW i \in 1 .. w
      PROVE  /\ st[i] \in Nat /\ st[i - 1] \in Nat /\ st[i] <= size + 1
             /\ i < w => st[i] \in 1 .. size
             /\ \A k \in 1 .. Len(Shown(packed[i])) : st[i - 1] + k \in 1 .. size
  <2>1. i \in 1 .. Len(packed) /\ w \in 1 .. Len(packed) /\ i \in 0 .. w /\ w > 0
    BY <1>1
  <2>2. /\ st[i] \in Nat /\ st[i - 1] \in Nat /\ Len(Shown(packed[i])) \in Nat \ {0}
        /\ st[i] = st[i - 1] + Len(Shown(packed[i])) + 1
    BY <2>1, StartsGrow
  <2>3. st[i] <= st[w]
    BY <2>1, StartsGrow
  <2>4. PICK x \in Nat, y \in Nat, l \in Nat \ {0} :
          x = st[i - 1] /\ y = st[i] /\ l = Len(Shown(packed[i])) /\ y = x + l + 1 /\ y <= size + 1
    BY <1>4, <2>1, <2>2, <2>3
  <2>5. \A k \in 1 .. l : x + k \in 1 .. size
    BY <1>1, <2>4
  <2>6. ASSUME i < w PROVE y \in 1 .. size
    <3>1. i + 1 \in 1 .. Len(packed) /\ (i + 1) - 1 = i /\ i + 1 \in 0 .. w
      BY <1>1, <2>6
    <3>2. /\ st[i + 1] \in Nat /\ Len(Shown(packed[i + 1])) \in Nat \ {0}
          /\ st[i + 1] = st[i] + Len(Shown(packed[i + 1])) + 1
      BY <3>1, StartsGrow
    <3>3. st[i + 1] <= st[w]
      BY <2>1, <3>1, StartsGrow
    <3>4. PICK u \in Nat, v \in Nat \ {0} : u = st[i + 1] /\ u = y + v + 1 /\ u <= size + 1
      BY <1>4, <2>1, <2>4, <3>2, <3>3
    <3>5. y # 0 /\ y + v + 1 <= size + 1
      BY <2>4, <3>4
    <3> QED BY <1>1, <3>5, Squeezed
  <2> QED BY <2>2, <2>4, <2>5, <2>6
<1> QED BY <1>1, <1>2, <1>3, <1>4, <1>5

LEMMA UsedIsRow ==
  ASSUME CommandTypes, WriterInv, TextAsks, NEW st \in [0 .. Len(packed) -> Nat],
         Starts(st, packed), TextIs(st), results = <<>>
  PROVE  RowIs(Used, st, Placed)
<1>1. /\ Used \in Seq(Cells) /\ Len(Used) = size /\ size \in Nat
      /\ \A k \in 1 .. size : Used[k] = data[k]
  BY UsedIs
<1>2. size = IF Placed = 0 THEN 0 ELSE st[Placed] - 1
  BY DEF TextIs
<1>3. ASSUME NEW i \in 1 .. Placed
      PROVE  StandsIn(Used, st, i) /\ (i < Placed => Used[st[i]] = Blank)
  <2>1. i > Len(results)
    BY PlacesAre
  <2>2. StandsIn(data, st, i) /\ (i < Placed => data[st[i]] = Blank)
    BY <2>1 DEF TextIs
  <2>3. /\ i < Placed => st[i] \in 1 .. size
        /\ \A k \in 1 .. Len(Shown(packed[i])) : st[i - 1] + k \in 1 .. size
    BY PlacesAre
  <2> QED BY <1>1, <2>2, <2>3 DEF StandsIn
<1> HIDE DEF Cells
<1> QED BY <1>1, <1>2, <1>3 DEF RowIs

(* All that waited is in the text of a flush.                              *)
LEMMA TextIsRow ==
  ASSUME CommandTypes, WriterInv, TextAsks, NEW st \in [0 .. Len(packed) -> Nat],
         Starts(st, packed), TextIs(st), results = <<>>
  PROVE  RowIs(Text, st, Len(packed))
<1> DEFINE m == Len(writer)
           w == Placed
<1>1. kind = "text"
  BY DEF TextAsks
<1>2. PICK t \in [0 .. m -> Seq(Cells)] : TextGrows(t) /\ Text = t[m]
  BY <1>1, TextInSteps
<1>3. /\ m \in Nat /\ w \in 0 .. Len(packed) /\ w + m = Len(packed) /\ Len(packed) \in Nat
      /\ \A i \in 1 .. m : writer[i] = packed[w + i]
  BY WriterIs DEF WriterInv, Placed
<1>4. RowIs(t[0], st, w)
  BY <1>2, UsedIsRow DEF TextGrows
<1> HIDE DEF w
<1> DEFINE D == {i \in 1 .. m : RowIs(t[i], st, w + i)}
<1>5. ASSUME NEW i \in 1 .. m, RowIs(t[i - 1], st, w + (i - 1)) PROVE i \in D
  <2>1. t[i] = Joined(t[i - 1], writer[i])
    BY <1>2 DEF TextGrows
  <2>2. /\ w + (i - 1) \in 0 .. Len(packed) /\ w + (i - 1) < Len(packed)
        /\ (w + (i - 1)) + 1 = w + i
    BY <1>3
  <2>3. RowIs(Joined(t[i - 1], packed[w + i]), st, w + i)
    BY <1>5, <2>2, JoinedIs
  <2> QED BY <1>3, <2>1, <2>3
<1>6. CASE m = 0
  <2>1. w = Len(packed)
    BY <1>3, <1>6
  <2> QED BY <1>2, <1>4, <1>6, <2>1
<1>7. CASE m > 0
  <2>1. 1 \in D
    <3>1. 1 \in 1 .. m /\ w + (1 - 1) = w /\ 1 - 1 = 0
      BY <1>3, <1>7
    <3> HIDE DEF D
    <3> QED BY <1>4, <1>5, <3>1
  <2>2. ASSUME NEW i \in 1 .. m, i \in D, i < m PROVE i + 1 \in D
    <3>1. i + 1 \in 1 .. m /\ (i + 1) - 1 = i
      BY <1>3, <2>2
    <3>2. RowIs(t[i], st, w + i)
      BY <2>2
    <3> HIDE DEF D
    <3> QED BY <1>5, <3>1, <3>2
  <2>3. \A i \in 1 .. m : i \in D
    <3> HIDE DEF D
    <3> QED BY <1>3, <2>1, <2>2, UpTo
  <2>4. m \in 1 .. m
    BY <1>3, <1>7
  <2> QED BY <1>2, <1>3, <2>3, <2>4
<1> QED BY <1>3, <1>6, <1>7

LEMMA FlushKeepsText ==
  ASSUME CommandTypes, WriterInv, TextInv, Flush PROVE TextInv'
<1> SUFFICES ASSUME TextAsks', NEW st \in [0 .. Len(packed') -> Nat], Starts(st, packed')
             PROVE  TextIs(st)'
  BY DEF TextInv
<1>1. /\ UNCHANGED <<kind, offset, stage, packed, asked, results>>
      /\ writer' = <<>> /\ stage = "pack"
      /\ total' \in Nat /\ total <= total' /\ total \in Nat
  BY FlushIs DEF CommandTypes
<1>2. kind = "text" /\ TextAsks
  <2>1. total < SizeMod
    <3>1. total' < SizeMod
      BY DEF TextAsks
    <3> QED BY <1>1, <3>1, CommandAssumption
  <2> QED BY <1>1, <2>1 DEF TextAsks, Faithful
<1>3. TextIs(st) /\ Starts(st, packed) /\ st \in [0 .. Len(packed) -> Nat]
  BY <1>1, <1>2 DEF TextInv
<1>4. results = <<>> /\ Len(results) = 0 /\ offset = 0 /\ st[0] = 0
  BY <1>1, <1>3 DEF CommandTypes, Starts
<1> DEFINE n == Len(packed)
           f == Flushing
<1>5. Placed' = n /\ n \in Nat
  <2>1. Len(packed) \in Nat
    BY WriterIs
  <2> QED BY <1>1, <2>1 DEF Placed
<1>6. RowIs(f, st, n)
  BY <1>2, <1>3, <1>4, TextIsRow DEF Flushing
<1>7. /\ \A i \in 1 .. Len(f) : data'[i] = f[i]
      /\ writer # <<>> => data'[Len(f) + 1] = Nul
      /\ writer = <<>> => IF data = <<>> THEN data' = <<Nul>> ELSE data' = data
      /\ data' # <<>> /\ writer = <<>> => f = Used
      /\ size' = Len(f) % SizeMod /\ Len(f) <= total'
  BY <1>2, FlushIs
<1>8. size' = Len(f) /\ Len(f) \in Nat
  <2>1. Len(f) \in Nat
    BY <1>6 DEF RowIs
  <2>2. total' < SizeMod
    BY DEF TextAsks
  <2>3. Len(f) < SizeMod
    BY <1>1, <1>7, <2>1, <2>2, CommandAssumption
  <2>4. SizeMod \in Nat \ {0}
    BY CommandAssumption
  <2> QED BY <1>7, <2>1, <2>3, <2>4, Remainder
<1>9. size' = IF n = 0 THEN 0 ELSE st[n] - 1
  BY <1>6, <1>8 DEF RowIs
<1>10. n > 0 => data'[st[n]] = Nul /\ st[n] = Len(f) + 1
  <2> SUFFICES ASSUME n > 0 PROVE data'[st[n]] = Nul /\ st[n] = Len(f) + 1
    OBVIOUS
  <2>1. st[n] = Len(f) + 1
    <3>1. n \in 1 .. Len(packed)
      BY <1>5
    <3>2. st[n] \in Nat /\ Len(f) = st[n] - 1
      <4>1. st[n] \in Nat
        BY <1>2, <1>3, <3>1, StartsGrow
      <4>2. n # 0
        BY <3>1
      <4> HIDE DEF n, f
      <4> QED BY <1>8, <1>9, <4>1, <4>2
    <3>3. PICK y \in Nat : y = st[n] /\ Len(f) = y - 1
      BY <3>2
    <3> HIDE DEF n, f
    <3> QED BY <3>3
  <2>2. CASE writer # <<>>
    BY <1>7, <2>1, <2>2
  <2>3. CASE writer = <<>>
    <3>1. Placed = n
      BY <1>5, <2>3 DEF Placed
    <3>2. data # <<>> /\ data[st[n]] = Nul
      <4>1. n \in 1 .. Placed /\ n > Len(results) /\ ~ (n < Placed) /\ Placed > 0
        BY <1>4, <1>5, <3>1
      <4>2. data # <<>>
        BY <1>3, <4>1 DEF TextIs
      <4>3. data[st[n]] = Nul
        BY <1>3, <4>1 DEF TextIs
      <4> QED BY <4>2, <4>3
    <3> QED BY <1>7, <2>1, <2>3, <3>2
  <2> QED BY <2>2, <2>3
<1> HIDE DEF f
<1>11. ASSUME NEW i \in 1 .. n
       PROVE  StandsIn(data, st, i)' /\ data'[st[i]] = IF i < n THEN Blank ELSE Nul
  <2>1. StandsIn(f, st, i) /\ (i < n => f[st[i]] = Blank)
    BY <1>6 DEF RowIs
  <2>2. /\ st[i] \in Nat /\ st[i - 1] \in Nat /\ Len(Shown(packed[i])) \in Nat \ {0}
        /\ st[i] = st[i - 1] + Len(Shown(packed[i])) + 1
    BY <1>2, <1>3, StartsGrow
  <2>3. n > 0 /\ n \in 1 .. Len(packed) /\ i \in 0 .. n
    BY <1>5
  <2>4. st[i] <= st[n]
    BY <1>2, <1>3, <2>3, StartsGrow
  <2>5. PICK x \in Nat, y \in Nat, l \in Nat \ {0} :
          x = st[i - 1] /\ y = st[i] /\ l = Len(Shown(packed[i])) /\ y = x + l + 1 /\ y <= Len(f) + 1
    BY <1>10, <2>2, <2>3, <2>4
  <2>6. \A k \in 1 .. l : x + k \in 1 .. Len(f)
    <3>1. PICK z \in Nat : z = Len(f) /\ x + l + 1 <= z + 1
      BY <1>8, <2>5
    <3> QED BY <3>1, InnerPlace
  <2>7. StandsIn(data, st, i)'
    BY <1>1, <1>7, <2>1, <2>5, <2>6 DEF StandsIn
  <2>8. ASSUME i < n PROVE data'[st[i]] = Blank
    <3>1. i + 1 \in 1 .. Len(packed) /\ (i + 1) - 1 = i /\ i + 1 \in 0 .. n
      BY <1>5, <2>8
    <3>2. /\ st[i + 1] \in Nat /\ Len(Shown(packed[i + 1])) \in Nat \ {0}
          /\ st[i + 1] = st[i] + Len(Shown(packed[i + 1])) + 1
      BY <1>2, <1>3, <3>1, StartsGrow
    <3>3. st[i + 1] <= st[n]
      BY <1>2, <1>3, <2>3, <3>1, StartsGrow
    <3>4. PICK u \in Nat, v \in Nat \ {0} : u = st[i + 1] /\ u = y + v + 1 /\ u <= Len(f) + 1
      BY <1>10, <2>3, <2>5, <3>2, <3>3
    <3>5. y \in 1 .. Len(f)
      <4>1. PICK z \in Nat : z = Len(f) /\ y + v + 1 <= z + 1 /\ y # 0
        BY <1>8, <2>5, <3>4
      <4> QED BY <4>1, Squeezed
    <3> QED BY <1>7, <2>1, <2>5, <2>8, <3>5
  <2>9. ~ (i < n) => i = n
    BY <1>5
  <2> QED BY <1>10, <2>3, <2>7, <2>8, <2>9
<1>12. data' # <<>> /\ stage' # "crashed"
  BY <1>1, <1>7, FlushIs
<1>13. \A i \in 1 .. Len(results') : results'[i] = packed'[i].body /\ asked'[i] = packed'[i].type
  BY <1>1, <1>4
<1>14. offset' = st[Len(results')]
  BY <1>1, <1>4
<1> QED BY <1>5, <1>9, <1>11, <1>12, <1>13, <1>14 DEF TextIs

LEMMA HandOverKeepsText ==
  ASSUME CommandTypes, WriterInv, TextInv, ReadHere \/ Receive \/ Copy PROVE TextInv'
<1> SUFFICES ASSUME TextAsks', NEW st \in [0 .. Len(packed') -> Nat], Starts(st, packed')
             PROVE  TextIs(st)'
  BY DEF TextInv
<1>1. /\ offset' = 0 /\ UNCHANGED <<kind, size, writer, history>> /\ Flushed /\ results = <<>>
      /\ data' = <<>> => size = 0
      /\ data' # <<>> =>
           /\ \A k \in 1 .. size : data'[k] = data[k] /\ k \in 1 .. Len(data')
           /\ data' # data => data'[size + 1] = Nul
  BY HandOverIs
<1>2. UNCHANGED <<packed, asked, results, total>> /\ Placed' = Placed /\ Len(results) = 0
  BY <1>1 DEF history, Placed
<1>3. TextAsks
  BY <1>1, <1>2 DEF TextAsks, Faithful
<1>4. TextIs(st) /\ Starts(st, packed) /\ st \in [0 .. Len(packed) -> Nat] /\ st[0] = 0
  BY <1>2, <1>3 DEF TextInv, Starts
<1>5. Placed \in 0 .. Len(packed) /\ Len(packed) \in Nat
  BY WriterIs DEF WriterInv
<1>6. Placed > 0 => data' # <<>>
  <2>1. Placed > 0 => size # 0
    BY <1>3, <1>4, PlacesAre
  <2> QED BY <1>1, <2>1
<1>7. ASSUME NEW i \in 1 .. Placed
      PROVE  StandsIn(data, st, i)' /\ data'[st[i]] = IF i < Placed THEN Blank ELSE Nul
  <2>1. data' # <<>> /\ i > Len(results)
    BY <1>2, <1>5, <1>6
  <2>2. StandsIn(data, st, i) /\ data[st[i]] = IF i < Placed THEN Blank ELSE Nul
    BY <1>4, <2>1 DEF TextIs
  <2>3. /\ i < Placed => st[i] \in 1 .. size
        /\ \A k \in 1 .. Len(Shown(packed[i])) : st[i - 1] + k \in 1 .. size
        /\ st[Placed] = size + 1
    <3>1. Placed > 0
      BY <1>5
    <3> QED BY <1>3, <1>4, <3>1, PlacesAre
  <2>4. StandsIn(data, st, i)'
    BY <1>1, <1>2, <2>1, <2>2, <2>3 DEF StandsIn
  <2>5. ~ (i < Placed) => i = Placed
    BY <1>5
  <2> QED BY <1>1, <2>1, <2>2, <2>3, <2>4, <2>5
<1>8. stage' # "crashed"
  BY <1>1 DEF ReadHere, Receive, Copy
<1>9. size' = IF Placed' = 0 THEN 0 ELSE st[Placed'] - 1
  BY <1>1, <1>2, <1>4 DEF TextIs
<1>10. Len(results') < Placed' => offset' = st[Len(results')]
  BY <1>1, <1>2, <1>4
<1>11. \A i \in 1 .. Len(results') : results'[i] = packed'[i].body /\ asked'[i] = packed'[i].type
  BY <1>1, <1>2
<1> QED BY <1>2, <1>6, <1>7, <1>8, <1>9, <1>10, <1>11 DEF TextIs

(* While values are read, the next argument lies where the reader stands.  *)
LEMMA NextLies ==
  ASSUME CommandTypes, WriterInv, TextAsks, Reading, NEW st \in [0 .. Len(packed) -> Nat],
         Starts(st, packed), TextIs(st)
  PROVE  /\ OnText /\ Ending(data) /\ Placed = Len(packed) /\ writer = <<>>
         /\ Len(results) \in Nat /\ Len(results) < Len(packed) /\ Len(results) + 1 \in 1 .. Placed
         /\ offset \in Nat /\ offset = st[Len(results)] /\ data[offset + 1] # Nul
         /\ Lies(data, offset, packed[Len(results) + 1])
<1>1. writer = <<>> /\ Len(results) \in Nat /\ Len(results) < Len(packed) /\ Len(packed) \in Nat
      /\ Len(results) + 1 \in 1 .. Len(packed)
  BY NextTypeIs, WriterIs DEF Reading, WriterInv
<1>2. Placed = Len(packed)
  BY <1>1 DEF Placed
<1> DEFINE r == Len(results)
           a == packed[r + 1]
           w == Placed
<1>3. offset = st[r] /\ r \in 0 .. Len(packed) /\ st[r] \in Nat
  <2>1. r \in 0 .. Len(packed)
    BY <1>1
  <2> QED BY <1>1, <1>2, <2>1 DEF TextIs
<1>4. data # <<>>
  BY <1>1, <1>2 DEF TextIs
<1>5. kind = "text" /\ OnText
  BY <1>3, <1>4, CommandAssumption DEF OnText, TextAsks
<1>6. Ending(data)
  BY <1>5, OnTextIs
<1>7. (r + 1) - 1 = r /\ r + 1 > r /\ r + 1 \in 1 .. w
  BY <1>1, <1>2
<1>8. /\ StandsIn(data, st, r + 1)
      /\ data[st[r + 1]] = IF r + 1 < w THEN Blank ELSE Nul
  BY <1>7 DEF TextIs
<1>9. /\ st[r + 1] \in Nat /\ Len(Shown(a)) \in Nat \ {0} /\ st[r + 1] = st[r] + Len(Shown(a)) + 1
      /\ a \in Args /\ a.type # "DATA" /\ Faithful(a)
  BY <1>1, <1>7, StartsGrow
<1>10. /\ size \in Nat /\ Len(data) \in Nat /\ size + 1 \in 1 .. Len(data)
       /\ st[r + 1] <= size + 1 /\ (r + 1 < w => st[r + 1] \in 1 .. size)
  <2>1. w > 0
    BY <1>1, <1>2
  <2> QED BY <1>7, <2>1, PlacesAre
<1>11. \A k \in 1 .. Len(Shown(a)) : data[offset + k] = Shown(a)[k]
  BY <1>3, <1>7, <1>8 DEF StandsIn
<1>12. data[offset + 1] # Nul
  <2>1. 1 \in 1 .. Len(Shown(a))
    BY <1>9
  <2>2. Shown(a)[1] # Nul
    BY <1>5, <1>9, FaithfulIs
  <2> QED BY <1>11, <2>1, <2>2
<1> DEFINE e == offset + Len(Shown(a)) + 1
<1>13. e = st[r + 1] /\ e \in 1 .. Len(data) /\ data[e] \in {Blank, Nul}
  <2>1. e = st[r + 1]
    BY <1>3, <1>9
  <2>2. PICK y \in Nat : y = st[r + 1] /\ y # 0
    BY <1>3, <1>9
  <2>3. y \in 1 .. Len(data)
    BY <1>10, <2>2
  <2> QED BY <1>8, <2>1, <2>2, <2>3
<1>14. ASSUME data[e] = Blank PROVE e + 1 \in 1 .. Len(data) /\ data[e + 1] # Blank
  <2>1. r + 1 < w
    BY <1>8, <1>13, <1>14, MarksDiffer
  <2>2. r + 2 \in 1 .. w /\ (r + 2) - 1 = r + 1 /\ r + 2 > r /\ r + 2 \in 1 .. Len(packed)
    BY <1>1, <1>2, <2>1
  <2>3. e + 1 \in 1 .. Len(data)
    BY <1>10, <1>13, <2>1
  <2>4. StandsIn(data, st, r + 2)
    BY <2>2 DEF TextIs
  <2> DEFINE b == packed[r + 2]
  <2>5. Len(Shown(b)) \in Nat \ {0} /\ b \in Args /\ b.type # "DATA" /\ Faithful(b)
    BY <2>2, StartsGrow
  <2>6. 1 \in 1 .. Len(Shown(b))
    BY <2>5
  <2>7. data[st[r + 1] + 1] = Shown(b)[1]
    BY <2>2, <2>4, <2>6 DEF StandsIn
  <2>8. Shown(b)[1] # Blank
    BY <1>5, <2>5, FaithfulIs
  <2> QED BY <1>13, <2>3, <2>7, <2>8
<1>15. Lies(data, offset, a)
  BY <1>11, <1>13, <1>14 DEF Lies
<1> QED BY <1>1, <1>2, <1>3, <1>5, <1>6, <1>7, <1>12, <1>15

LEMMA PlaceBehind ==
  ASSUME NEW e \in Nat, NEW x \in Nat, NEW l \in Nat, NEW s \in Nat,
         e <= x, x + l + 1 <= s, NEW k \in 1 .. l
  PROVE  x + k > e /\ x + k \in 1 .. s
OBVIOUS

LEMMA UnshiftTextKeepsText ==
  ASSUME CommandTypes, WriterInv, TextInv, UnshiftText PROVE TextInv'
<1> SUFFICES ASSUME TextAsks', NEW st \in [0 .. Len(packed') -> Nat], Starts(st, packed')
             PROVE  TextIs(st)'
  BY DEF TextInv
<1> DEFINE next == GetNextArgument(data, offset + 1)
           text == CString(next.buf, next.begin)
           r == Len(results)
           a == packed[r + 1]
           e == offset + Len(Shown(a)) + 1
           n == Len(packed)
<1>1. /\ Reading /\ kind = "text"
      /\ data' = next.buf /\ offset' = IF next.src = Wild THEN Wild ELSE next.src - 1
      /\ Answer(NextType, CASE NextType = "STRING" -> text
                            [] NextType = "INTEGER" -> IF next.ok THEN Strtoul(text) ELSE Untouched)
      /\ UNCHANGED <<kind, size, writer, stage, packed, total, overflow>>
  BY DEF UnshiftText
<1>2. TextAsks /\ TextIs(st) /\ Starts(st, packed) /\ st \in [0 .. Len(packed) -> Nat]
  BY <1>1 DEF TextAsks, Faithful, TextInv
<1>3. /\ Ending(data) /\ Placed = Len(packed) /\ writer = <<>>
      /\ r \in Nat /\ r < n /\ r + 1 \in 1 .. n /\ n \in Nat
      /\ offset \in Nat /\ offset = st[r] /\ Lies(data, offset, a)
  BY <1>1, <1>2, NextLies, WriterIs
<1>4. /\ a \in Args /\ a.type # "DATA" /\ Faithful(a) /\ st[r + 1] = e /\ e \in Nat
      /\ (r + 1) - 1 = r
  <2>1. (r + 1) - 1 = r
    BY <1>3
  <2> QED BY <1>2, <1>3, <2>1, StartsGrow
<1>5. IsRead(data, offset, a)
  BY <1>1, <1>3, <1>4, ArgumentIsRead
<1>6. /\ next.ok /\ text = a.body
      /\ data[e] = Blank => next.src = e + 1
      /\ \A j \in 1 .. Len(data) : j > e => next.buf[j] = data[j]
  BY <1>5 DEF IsRead
<1>7. NextType = a.type /\ a.type \in Type
  BY <1>4, ArgsAre DEF NextType
<1> HIDE DEF next, a, e
<1>8. Answer(a.type, a.body)
  <2>1. CASE a.type = "STRING"
    <3> HIDE DEF text
    <3> QED BY <1>1, <1>6, <1>7, <2>1
  <2>2. CASE a.type = "INTEGER"
    <3>1. Strtoul(text) = a.body
      BY <1>4, <1>6, <2>2, StrtoulIs
    <3> HIDE DEF text
    <3> QED BY <1>1, <1>6, <1>7, <2>2, <3>1
  <2> QED BY <1>4, <1>7, <2>1, <2>2 DEF Type
<1>9. /\ Len(results') = r + 1 /\ results'[r + 1] = a.body /\ asked'[r + 1] = a.type
      /\ \A i \in 1 .. r : results'[i] = results[i] /\ asked'[i] = asked[i]
  BY <1>1, <1>7, <1>8, AnswerIs
<1>10. ASSUME NEW i \in 1 .. Len(results')
       PROVE  results'[i] = packed'[i].body /\ asked'[i] = packed'[i].type
  <2>1. CASE i = r + 1
    BY <1>1, <1>9, <2>1 DEF a
  <2>2. CASE i # r + 1
    <3>1. i \in 1 .. r
      BY <1>3, <1>9, <2>2
    <3> QED BY <1>1, <1>2, <1>9, <3>1 DEF TextIs
  <2> QED BY <2>1, <2>2
<1>11. Placed' = n /\ Placed = n
  BY <1>1, <1>3 DEF Placed
<1>12. Len(results') < Placed' => offset' = st[Len(results')]
  <2> SUFFICES ASSUME r + 1 < n PROVE offset' = e
    BY <1>4, <1>9, <1>11
  <2>1. data[st[r + 1]] = Blank
    <3>1. r + 1 \in 1 .. Placed /\ r + 1 > r /\ r + 1 < Placed
      BY <1>3, <1>11
    <3> QED BY <1>2, <3>1 DEF TextIs
  <2>2. next.src = e + 1
    BY <1>4, <1>6, <2>1
  <2>3. e + 1 # Wild /\ (e + 1) - 1 = e
    BY <1>4, CommandAssumption
  <2> QED BY <1>1, <2>2, <2>3
<1>13. ASSUME NEW i \in 1 .. n, i > r + 1
       PROVE  StandsIn(data, st, i)' /\ data'[st[i]] = IF i < n THEN Blank ELSE Nul
  <2>1. i > r /\ i \in 1 .. Placed /\ i - 1 \in 1 .. n /\ r + 1 \in 0 .. i - 1
    BY <1>3, <1>11, <1>13
  <2>2. StandsIn(data, st, i) /\ data[st[i]] = IF i < n THEN Blank ELSE Nul
    BY <1>2, <1>11, <2>1 DEF TextIs
  <2>3. e <= st[i - 1]
    BY <1>2, <1>4, <2>1, StartsGrow
  <2>4. /\ st[i] \in Nat /\ st[i - 1] \in Nat /\ Len(Shown(packed[i])) \in Nat
        /\ st[i] = st[i - 1] + Len(Shown(packed[i])) + 1
    BY <1>2, StartsGrow
  <2>5. /\ size \in Nat /\ Len(data) \in Nat /\ size + 1 \in 1 .. Len(data) /\ st[i] <= size + 1
    <3>1. Placed > 0
      BY <1>3, <1>11
    <3> QED BY <1>2, <2>1, <3>1, PlacesAre
  <2>6. PICK x \in Nat, y \in Nat, l \in Nat :
          x = st[i - 1] /\ y = st[i] /\ l = Len(Shown(packed[i])) /\ y = x + l + 1
          /\ y <= size + 1 /\ e <= x
    BY <2>3, <2>4, <2>5
  <2>7. \A k \in 1 .. l : x + k > e /\ x + k \in 1 .. Len(data)
    <3>1. PICK z \in Nat : z = Len(data) /\ x + l + 1 <= z
      BY <2>5, <2>6
    <3>2. e \in Nat /\ e <= x
      BY <1>4, <2>6
    <3> QED BY <3>1, <3>2, PlaceBehind
  <2>8. y > e /\ y \in 1 .. Len(data)
    <3>1. PICK z \in Nat : z = Len(data) /\ x + l + 1 <= z
      BY <2>5, <2>6
    <3> QED BY <1>4, <2>6, <3>1
  <2>9. data'[y] = data[y] /\ \A k \in 1 .. l : data'[x + k] = data[x + k]
    BY <1>1, <1>6, <2>7, <2>8
  <2>10. StandsIn(data, st, i)'
    BY <1>1, <2>2, <2>6, <2>9 DEF StandsIn
  <2> QED BY <2>2, <2>6, <2>9, <2>10
<1>14. data' # <<>>
  <2>1. CommandTypes' /\ size # 0 /\ size' = size
    <3>1. Placed > 0
      BY <1>3, <1>11
    <3> QED BY <1>1, <1>2, <3>1, PlacesAre, UnshiftTextKeepsTypes
  <2> QED BY <2>1 DEF CommandTypes, BufferInv
<1>15. size' = IF Placed' = 0 THEN 0 ELSE st[Placed'] - 1
  BY <1>1, <1>2, <1>11 DEF TextIs
<1>16. stage' # "crashed"
  BY <1>1, <1>2 DEF TextIs
<1> HIDE DEF text
<1>17. \A i \in 1 .. Placed' : i > Len(results') =>
         StandsIn(data, st, i)' /\ data'[st[i]] = IF i < Placed' THEN Blank ELSE Nul
  BY <1>9, <1>11, <1>13
<1> QED BY <1>10, <1>12, <1>14, <1>15, <1>16, <1>17 DEF TextIs

(* A text that the format carries is read without a gap.                   *)
LEMMA NoGapInText ==
  ASSUME CommandTypes, WriterInv, TextInv, TextAsks, Reading
  PROVE  OnText /\ data[offset + 1] # Nul
<1>1. PICK st \in [0 .. Len(packed) -> Nat] : Starts(st, packed)
  BY StartsAre DEF TextAsks
<1>2. TextIs(st)
  BY <1>1 DEF TextInv
<1> QED BY <1>1, <1>2, NextLies

LEMMA TextInvKept ==
  ASSUME CommandTypes, WriterInv, TextInv, [NarrowNext]_commandVars PROVE TextInv'
<1>1. CASE UNCHANGED commandVars
  BY <1>1 DEF TextInv, TextAsks, Faithful, TextIs, StandsIn, Placed, commandVars, history
<1>2. ASSUME NEW a \in ArgsOfKind, Push(a) PROVE TextInv'
  BY <1>2, PushKeepsText
<1>3. CASE Flush
  BY <1>3, FlushKeepsText
<1>4. CASE ReadHere \/ Receive \/ Copy
  BY <1>4, HandOverKeepsText
<1>5. CASE UnshiftText
  BY <1>5, UnshiftTextKeepsText
<1>6. ASSUME UnshiftNothing \/ UnshiftWild \/ \E t \in Type : UnshiftBinary(t) PROVE TextInv'
  <2> SUFFICES ASSUME TextAsks' PROVE FALSE
    BY DEF TextInv
  <2>1. Reading /\ UNCHANGED <<kind, total, packed>>
    BY <1>6 DEF UnshiftNothing, UnshiftWild, UnshiftBinary, history
  <2>2. TextAsks
    BY <2>1 DEF TextAsks, Faithful
  <2>3. kind = "text"
    BY <2>2 DEF TextAsks
  <2> QED BY <1>6, <2>1, <2>2, <2>3, NoGapInText DEF UnshiftNothing, UnshiftWild, UnshiftBinary
<1> QED BY <1>1, <1>2, <1>3, <1>4, <1>5, <1>6 DEF NarrowNext

-----------------------------------------------------------------------------
(* Where the arguments of a binary command lie.                            *)
Heads(st, p) ==
  st[0] = 0 /\ \A i \in 1 .. Len(p) : st[i] = st[i - 1] + HeadBytes + ArgSize(p[i])

BinaryAsks == kind = "binary" /\ total < SizeMod

HeldIn(cells, st, i) ==
  /\ cells[st[i - 1] + 1] = <<"head", ArgSize(packed[i]), packed[i].type>>
  /\ \A k \in 1 .. ArgSize(packed[i]) : cells[(st[i - 1] + HeadBytes) + k] = Body(packed[i])[k]

(* The unshifts before the i-th that stored something.                     *)
StoredBefore(i) == {j \in 1 .. i - 1 : results[j] # Untouched}
Stored == Cardinality(StoredBefore(Len(results) + 1))

Answered(i) ==
  LET next == packed[Cardinality(StoredBefore(i)) + 1]
  IN  results[i] = IF asked[i] = next.type THEN next.body ELSE Untouched

BinaryIs(st) ==
  /\ Placed = 0 => size = 0
  /\ Placed > 0 => data # <<>> /\ writer = <<>>
  /\ st[Placed] <= size
  /\ \A i \in 1 .. Placed : HeldIn(data, st, i)
  /\ offset = st[Stored] /\ Stored <= Len(results)
  /\ \A i \in 1 .. Len(results) : Answered(i)
  /\ stage # "crashed"

BinaryInv == BinaryAsks => \A st \in [0 .. Len(packed) -> Nat] : Heads(st, packed) => BinaryIs(st)

LEMMA HeadsAre ==
  ASSUME CommandTypes
  PROVE  \E st \in [0 .. Len(packed) -> Nat] : Heads(st, packed)
<1> DEFINE n == Len(packed)
           amount == [i \in 1 .. n |-> HeadBytes + ArgSize(packed[i])]
<1>1. n \in Nat /\ \A i \in 1 .. n : HeadBytes + ArgSize(packed[i]) \in Nat
  <2>1. \A i \in 1 .. n : ArgSize(packed[i]) \in Nat
    BY WriterIs, ArgsAre
  <2> QED BY <2>1, WriterIs DEF HeadBytes
<1>2. amount \in [1 .. n -> Nat]
  BY <1>1
<1>3. PICK f \in [0 .. n -> Nat] : SumsOf(f, n, amount)
  <2> HIDE DEF n, amount
  <2> QED BY <1>1, <1>2, SumsAre
<1>4. f[0] = 0 /\ \A i \in 1 .. n : f[i] = f[i - 1] + amount[i]
  <2> HIDE DEF amount
  <2> QED BY <1>3 DEF SumsOf
<1>5. \A i \in 1 .. n : f[i] = f[i - 1] + HeadBytes + ArgSize(packed[i])
  <2> SUFFICES ASSUME NEW i \in 1 .. n PROVE f[i] = f[i - 1] + HeadBytes + ArgSize(packed[i])
    OBVIOUS
  <2>1. i - 1 \in 0 .. n
    BY <1>1
  <2>2. f[i - 1] \in Nat /\ ArgSize(packed[i]) \in Nat
    BY <2>1, WriterIs, ArgsAre
  <2>3. f[i] = f[i - 1] + (HeadBytes + ArgSize(packed[i]))
    BY <1>4
  <2> QED BY <2>2, <2>3 DEF HeadBytes
<1> QED BY <1>4, <1>5 DEF Heads

LEMMA HeadsGrow ==
  ASSUME CommandTypes, NEW st \in [0 .. Len(packed) -> Nat], Heads(st, packed)
  PROVE  /\ Len(packed) \in Nat /\ st[0] = 0
         /\ \A i \in 1 .. Len(packed) :
              /\ i - 1 \in 0 .. Len(packed) /\ st[i - 1] \in Nat /\ st[i] \in Nat
              /\ packed[i] \in Args /\ ArgSize(packed[i]) \in Nat
              /\ st[i] = st[i - 1] + 4 + ArgSize(packed[i])
              /\ \A j \in 0 .. i : st[j] <= st[i]
<1> DEFINE n == Len(packed)
<1>1. n \in Nat /\ \A i \in 1 .. n : packed[i] \in Args
  BY WriterIs
<1>2. \A i \in 1 .. n : ArgSize(packed[i]) \in Nat
  BY <1>1, ArgsAre
<1>3. \A i \in 1 .. n : /\ i - 1 \in 0 .. n /\ i \in 0 .. n /\ st[i - 1] \in Nat /\ st[i] \in Nat
                        /\ st[i] = st[i - 1] + 4 + ArgSize(packed[i])
  <2>1. \A i \in 1 .. n : i - 1 \in 0 .. n /\ i \in 0 .. n
    BY <1>1
  <2> QED BY <2>1 DEF Heads, HeadBytes
<1>4. \A i \in 1 .. n : st[i - 1] <= st[i]
  <2> SUFFICES ASSUME NEW i \in 1 .. n PROVE st[i - 1] <= st[i]
    OBVIOUS
  <2>1. PICK x \in Nat, y \in Nat, l \in Nat : x = st[i - 1] /\ y = st[i] /\ y = x + 4 + l
    BY <1>2, <1>3
  <2> QED BY <2>1
<1>5. \A i \in 1 .. n : \A j \in 0 .. i : st[j] <= st[i]
  BY <1>1, <1>4, Climbs
<1> QED BY <1>1, <1>2, <1>3, <1>5 DEF Heads

LEMMA PushKeepsBinary ==
  ASSUME CommandTypes, WriterInv, BinaryInv, NEW a \in ArgsOfKind, Push(a) PROVE BinaryInv'
<1> SUFFICES ASSUME BinaryAsks', NEW st \in [0 .. Len(packed') -> Nat], Heads(st, packed')
             PROVE  BinaryIs(st)'
  BY DEF BinaryInv
<1> DEFINE n == Len(packed)
           s == [i \in 0 .. n |-> st[i]]
<1>1. /\ Len(packed') = n + 1 /\ n \in Nat /\ Len(writer') = Len(writer) + 1 /\ Len(writer) \in Nat
      /\ \A i \in 1 .. n : packed'[i] = packed[i]
      /\ UNCHANGED <<kind, data, size, offset, stage, asked, results, total>>
      /\ stage = "pack"
  BY PushIs DEF Push
<1>2. BinaryAsks /\ packed = writer
  BY <1>1 DEF BinaryAsks, Push
<1>3. Placed = 0 /\ Placed' = 0
  BY <1>1, <1>2 DEF Placed
<1>4. s \in [0 .. n -> Nat] /\ \A i \in 0 .. n : s[i] = st[i]
  <2>1. \A i \in 0 .. n : i \in 0 .. n + 1
    BY <1>1
  <2> QED BY <1>1, <2>1
<1>5. Heads(s, packed)
  <2>1. 0 \in 0 .. n /\ \A i \in 1 .. n : i \in 1 .. n + 1 /\ i - 1 \in 0 .. n /\ i \in 0 .. n
    BY <1>1
  <2> HIDE DEF s
  <2> QED BY <1>1, <1>4, <2>1 DEF Heads
<1>6. BinaryIs(s)
  <2> HIDE DEF s
  <2> QED BY <1>2, <1>4, <1>5 DEF BinaryInv
<1>7. results = <<>> /\ offset = 0 /\ st[0] = 0
  BY <1>1 DEF CommandTypes, Heads
<1>8. Stored' = 0
  <2>1. StoredBefore(Len(results) + 1)' = {}
    BY <1>1, <1>7 DEF StoredBefore
  <2> QED BY <2>1, FS_EmptySet DEF Stored
<1>9. \A i \in 1 .. Len(results') : FALSE
  BY <1>1, <1>7
<1>10. size' = 0 /\ \A i \in 1 .. Placed' : FALSE
  BY <1>1, <1>3, <1>6 DEF BinaryIs
<1>11. Len(results') = 0 /\ offset' = 0 /\ stage' # "crashed"
  BY <1>1, <1>7
<1> QED BY <1>3, <1>7, <1>8, <1>9, <1>10, <1>11 DEF BinaryIs

(* A row of the first j arguments with their heads.                        *)
Holds(row, st, j) ==
  /\ row \in Seq(Cells) /\ Len(row) \in Nat /\ Len(row) = st[j]
  /\ \A i \in 1 .. j : HeldIn(row, st, i)

(* What is held in the first cells is held in any that begin with them.    *)
LEMMA HeldByMore ==
  ASSUME CommandTypes, NEW st \in [0 .. Len(packed) -> Nat], Heads(st, packed),
         NEW i \in 1 .. Len(packed), NEW c, HeldIn(c, st, i),
         NEW d, NEW s \in Nat, st[i] <= s, \A k \in 1 .. s : d[k] = c[k]
  PROVE  HeldIn(d, st, i)
<1>1. PICK x \in Nat, l \in Nat : /\ x = st[i - 1] /\ l = ArgSize(packed[i]) /\ x + 4 + l <= s
  BY HeadsGrow
<1>2. x + 1 \in 1 .. s /\ \A k \in 1 .. l : (x + HeadBytes) + k \in 1 .. s
  BY <1>1 DEF HeadBytes
<1> QED BY <1>1, <1>2 DEF HeldIn

LEMMA RowGrows ==
  ASSUME CommandTypes, NEW st \in [0 .. Len(packed) -> Nat], Heads(st, packed),
         NEW row, NEW j \in 0 .. Len(packed), j < Len(packed), Holds(row, st, j)
  PROVE  Holds(row \o ArgHead(packed[j + 1]) \o Body(packed[j + 1]), st, j + 1)
<1> DEFINE a == packed[j + 1]
<1>1. /\ Len(packed) \in Nat /\ j \in Nat /\ j + 1 \in 1 .. Len(packed) /\ (j + 1) - 1 = j
      /\ \A i \in 1 .. j : i \in 1 .. Len(packed)
  BY HeadsGrow
<1>2. /\ st[j] \in Nat /\ st[j + 1] \in Nat /\ st[j + 1] = st[j] + 4 + ArgSize(a)
      /\ a \in Args /\ ArgSize(a) \in Nat /\ st[0] = 0
  BY <1>1, HeadsGrow
<1>3. PICK h \in Seq(Cells), b \in Seq(Cells), l \in Nat :
        /\ h = ArgHead(a) /\ b = Body(a) /\ Len(h) = 4 /\ l = ArgSize(a) /\ Len(b) = l
        /\ h[1] = <<"head", ArgSize(a), a.type>>
  BY <1>2, BodyIs DEF HeadBytes
<1>4. PICK u \in Seq(Cells), p \in Nat : u = row /\ p = st[j] /\ Len(u) = p
  BY <1>2 DEF Holds
<1> HIDE DEF a
<1>5. PICK c \in Seq(Cells) : /\ c = u \o h /\ Len(c) = p + 4
                              /\ \A k \in 1 .. p : c[k] = u[k]
                              /\ c[p + 1] = h[1]
  <2>1. /\ u \o h \in Seq(Cells) /\ Len(u \o h) = Len(u) + Len(h)
        /\ \A k \in 1 .. Len(u) : (u \o h)[k] = u[k]
        /\ \A k \in 1 .. Len(h) : (u \o h)[Len(u) + k] = h[k]
    <3> HIDE DEF Cells
    <3> QED BY TwoInARow
  <2>2. 1 \in 1 .. Len(h)
    BY <1>3
  <2>3. PICK c : c = u \o h
    OBVIOUS
  <2>4. (u \o h)[Len(u) + 1] = h[1]
    BY <2>1, <2>2
  <2> HIDE DEF Cells
  <2>5. /\ c \in Seq(Cells) /\ Len(c) = p + 4 /\ (\A k \in 1 .. p : c[k] = u[k]) /\ c[p + 1] = h[1]
    BY <1>3, <1>4, <2>1, <2>3, <2>4
  <2> QED BY <2>3, <2>5
<1>6. PICK d \in Seq(Cells) : /\ d = c \o b /\ Len(d) = p + 4 + l
                              /\ \A k \in 1 .. p + 4 : d[k] = c[k]
                              /\ \A k \in 1 .. l : d[(p + 4) + k] = b[k]
  <2>1. /\ c \o b \in Seq(Cells) /\ Len(c \o b) = Len(c) + Len(b)
        /\ \A k \in 1 .. Len(c) : (c \o b)[k] = c[k]
        /\ \A k \in 1 .. Len(b) : (c \o b)[Len(c) + k] = b[k]
    <3> HIDE DEF Cells
    <3> QED BY TwoInARow
  <2>2. PICK d : d = c \o b
    OBVIOUS
  <2> HIDE DEF Cells
  <2>3. /\ d \in Seq(Cells) /\ Len(d) = p + 4 + l /\ (\A k \in 1 .. p + 4 : d[k] = c[k])
        /\ \A k \in 1 .. l : d[(p + 4) + k] = b[k]
    BY <1>3, <1>5, <2>1, <2>2
  <2> QED BY <2>2, <2>3
<1>7. row \o ArgHead(a) \o Body(a) = d
  BY <1>3, <1>4, <1>5, <1>6
<1>8. Len(d) = st[j + 1] /\ Len(d) \in Nat
  BY <1>2, <1>3, <1>4, <1>6
<1>9. \A k \in 1 .. p : d[k] = row[k]
  <2>1. \A k \in 1 .. p : k \in 1 .. p + 4
    OBVIOUS
  <2> QED BY <1>4, <1>5, <1>6, <2>1
<1>10. ASSUME NEW i \in 1 .. j PROVE HeldIn(d, st, i)
  <2>1. HeldIn(row, st, i)
    BY DEF Holds
  <2>2. i \in 1 .. Len(packed) /\ st[i] <= p
    <3>1. i \in 0 .. j /\ j \in 1 .. Len(packed)
      BY <1>1
    <3> QED BY <1>1, <1>4, <3>1, HeadsGrow
  <2> QED BY <1>9, <2>1, <2>2, HeldByMore
<1>11. HeldIn(d, st, j + 1)
  <2>1. d[p + 1] = h[1]
    <3>1. p + 1 \in 1 .. p + 4
      OBVIOUS
    <3> QED BY <1>5, <1>6, <3>1
  <2>2. st[(j + 1) - 1] = p /\ packed[j + 1] = a /\ HeadBytes = 4
    BY <1>1, <1>4 DEF a, HeadBytes
  <2>3. d[p + 1] = <<"head", ArgSize(a), a.type>>
    BY <1>3, <2>1
  <2>4. \A k \in 1 .. ArgSize(a) : d[(p + 4) + k] = Body(a)[k]
    BY <1>3, <1>6
  <2> HIDE DEF Cells
  <2> QED BY <2>2, <2>3, <2>4 DEF HeldIn
<1>12. \A i \in 1 .. j + 1 : i \in 1 .. j \/ i = j + 1
  BY <1>1
<1> HIDE DEF Cells
<1> QED BY <1>7, <1>8, <1>10, <1>11, <1>12 DEF Holds, a

(* The first flush writes all arguments.                                   *)
LEMMA BytesHold ==
  ASSUME CommandTypes, WriterInv, NEW st \in [0 .. Len(packed) -> Nat],
         Heads(st, packed), Placed = 0, size = 0
  PROVE  Holds(Bytes, st, Len(packed))
<1> DEFINE m == Len(writer)
<1>1. PICK t \in [0 .. m -> Seq(Cells)] : BytesGrow(t) /\ Bytes = t[m]
  BY BytesInSteps
<1>2. /\ m \in Nat /\ m = Len(packed) /\ \A i \in 1 .. m : writer[i] = packed[i]
  <2>1. Len(packed) \in Nat /\ Len(writer) \in Nat
    BY WriterIs
  <2>2. m = Len(packed)
    BY <2>1 DEF Placed
  <2>3. \A i \in 1 .. m : writer[i] = packed[Placed + i] /\ Placed + i = i
    BY DEF WriterInv
  <2> QED BY <2>1, <2>2, <2>3
<1>3. Holds(t[0], st, 0)
  <2>1. t[0] = Used /\ Used \in Seq(Cells) /\ Len(Used) = 0 /\ st[0] = 0
    BY <1>1, UsedIs DEF BytesGrow, Heads
  <2>2. \A i \in 1 .. 0 : FALSE
    OBVIOUS
  <2> HIDE DEF Cells
  <2> QED BY <2>1, <2>2 DEF Holds
<1> DEFINE D == {i \in 1 .. m : Holds(t[i], st, i)}
<1>4. ASSUME NEW i \in 1 .. m, Holds(t[i - 1], st, i - 1) PROVE i \in D
  <2>1. t[i] = t[i - 1] \o ArgHead(writer[i]) \o Body(writer[i])
    BY <1>1 DEF BytesGrow
  <2>2. i - 1 \in 0 .. Len(packed) /\ i - 1 < Len(packed) /\ (i - 1) + 1 = i
    BY <1>2
  <2>3. Holds(t[i - 1] \o ArgHead(packed[i]) \o Body(packed[i]), st, i)
    BY <1>4, <2>2, RowGrows
  <2> QED BY <1>2, <2>1, <2>3
<1>5. CASE m = 0
  BY <1>1, <1>2, <1>3, <1>5
<1>6. CASE m > 0
  <2>1. 1 \in D
    <3>1. 1 \in 1 .. m /\ 1 - 1 = 0
      BY <1>2, <1>6
    <3> HIDE DEF D
    <3> QED BY <1>3, <1>4, <3>1
  <2>2. ASSUME NEW i \in 1 .. m, i \in D, i < m PROVE i + 1 \in D
    <3>1. i + 1 \in 1 .. m /\ (i + 1) - 1 = i
      BY <1>2, <2>2
    <3>2. Holds(t[i], st, i)
      BY <2>2
    <3> HIDE DEF D
    <3> QED BY <1>4, <3>1, <3>2
  <2>3. \A i \in 1 .. m : i \in D
    <3> HIDE DEF D
    <3> QED BY <1>2, <2>1, <2>2, UpTo
  <2>4. m \in 1 .. m
    BY <1>2, <1>6
  <2> QED BY <1>1, <1>2, <2>3, <2>4
<1> QED BY <1>2, <1>5, <1>6

LEMMA FlushKeepsBinary ==
  ASSUME CommandTypes, WriterInv, BinaryInv, Flush PROVE BinaryInv'
<1> SUFFICES ASSUME BinaryAsks', NEW st \in [0 .. Len(packed') -> Nat], Heads(st, packed')
             PROVE  BinaryIs(st)'
  BY DEF BinaryInv
<1>1. /\ UNCHANGED <<kind, offset, stage, packed, asked, results>>
      /\ writer' = <<>> /\ stage = "pack"
      /\ total' \in Nat /\ total <= total' /\ total \in Nat
  BY FlushIs DEF CommandTypes
<1>2. kind = "binary" /\ BinaryAsks
  <2>1. total < SizeMod
    <3>1. total' < SizeMod
      BY DEF BinaryAsks
    <3> QED BY <1>1, <3>1, CommandAssumption
  <2> QED BY <1>1, <2>1 DEF BinaryAsks
<1>3. BinaryIs(st) /\ Heads(st, packed) /\ st \in [0 .. Len(packed) -> Nat]
  BY <1>1, <1>2 DEF BinaryInv
<1>4. results = <<>> /\ offset = 0 /\ st[0] = 0
  BY <1>1, <1>3 DEF CommandTypes, Heads
<1> DEFINE n == Len(packed)
           f == Flushing
<1>5. Placed' = n /\ n \in Nat
  <2>1. Len(packed) \in Nat
    BY WriterIs
  <2> QED BY <1>1, <2>1 DEF Placed
<1>6. /\ \A i \in 1 .. Len(f) : data'[i] = f[i]
      /\ Len(f) \in Nat /\ Len(f) <= Estimate /\ Estimate \in Nat
      /\ writer = <<>> => IF data = <<>> THEN data' = <<Nul>> ELSE data' = data
      /\ data' # <<>> /\ size' = Estimate % SizeMod /\ Estimate <= total'
  BY <1>2, FlushIs
<1>7. size' = Estimate
  <2>1. total' < SizeMod
    BY DEF BinaryAsks
  <2>2. Estimate < SizeMod /\ SizeMod \in Nat \ {0}
    BY <1>1, <1>6, <2>1, CommandAssumption
  <2> QED BY <1>6, <2>2, Remainder
<1> HIDE DEF f
<1>8. st[n] <= size' /\ \A i \in 1 .. n : HeldIn(data, st, i)'
  <2>1. CASE Placed = 0
    <3>1. size = 0
      BY <1>3, <2>1 DEF BinaryIs
    <3>2. Holds(f, st, n)
      BY <1>2, <1>3, <2>1, <3>1, BytesHold DEF Flushing, f
    <3>3. Len(f) = st[n]
      BY <3>2 DEF Holds
    <3>4. ASSUME NEW i \in 1 .. n PROVE HeldIn(data, st, i)'
      <4>1. HeldIn(f, st, i) /\ i \in 0 .. n /\ n \in 1 .. Len(packed)
        BY <1>5, <3>2 DEF Holds
      <4>2. st[i] <= Len(f)
        BY <1>3, <3>3, <4>1, HeadsGrow
      <4>3. HeldIn(data', st, i)
        BY <1>3, <1>6, <4>1, <4>2, HeldByMore
      <4> QED BY <1>1, <4>3 DEF HeldIn
    <3> QED BY <1>6, <1>7, <3>3, <3>4
  <2>2. CASE Placed # 0
    <3>1. writer = <<>> /\ data # <<>>
      BY <1>3, <2>2 DEF BinaryIs, WriterInv
    <3>2. Placed = n /\ data' = data /\ Estimate = size
      BY <1>5, <1>6, <3>1, EstimateIs DEF Placed
    <3>3. st[n] <= size /\ \A i \in 1 .. n : HeldIn(data, st, i)
      BY <1>3, <3>2 DEF BinaryIs
    <3> QED BY <1>1, <1>7, <3>2, <3>3 DEF HeldIn
  <2> QED BY <2>1, <2>2
<1>9. Placed' = 0 => size' = 0
  <2> SUFFICES ASSUME n = 0 PROVE size' = 0
    BY <1>5
  <2>1. writer = <<>> /\ Placed = 0
    <3>1. Len(writer) = 0 /\ Placed = 0
      BY WriterIs DEF WriterInv, Placed
    <3>2. writer \in Seq(ArgsOfKind)
      BY DEF CommandTypes
    <3> QED BY <3>1, <3>2
  <2>2. Estimate = size /\ size = 0
    BY <1>3, <2>1, EstimateIs DEF BinaryIs
  <2> QED BY <1>7, <2>2
<1>10. Stored' = 0
  <2>1. StoredBefore(Len(results) + 1)' = {}
    BY <1>1, <1>4 DEF StoredBefore
  <2> QED BY <2>1, FS_EmptySet DEF Stored
<1>11. (\A i \in 1 .. Len(results') : FALSE) /\ Len(results') = 0 /\ offset' = 0 /\ stage' # "crashed"
  BY <1>1, <1>4
<1> QED BY <1>1, <1>4, <1>5, <1>6, <1>8, <1>9, <1>10, <1>11 DEF BinaryIs

LEMMA HandOverKeepsBinary ==
  ASSUME CommandTypes, WriterInv, BinaryInv, ReadHere \/ Receive \/ Copy PROVE BinaryInv'
<1> SUFFICES ASSUME BinaryAsks', NEW st \in [0 .. Len(packed') -> Nat], Heads(st, packed')
             PROVE  BinaryIs(st)'
  BY DEF BinaryInv
<1>1. /\ offset' = 0 /\ UNCHANGED <<kind, size, writer, history>> /\ Flushed /\ results = <<>>
      /\ data' = <<>> => size = 0
      /\ data' # <<>> => \A k \in 1 .. size : data'[k] = data[k]
  BY HandOverIs
<1>2. UNCHANGED <<packed, asked, results, total>> /\ Placed' = Placed /\ Len(results) = 0
  BY <1>1 DEF history, Placed
<1>3. BinaryIs(st) /\ Heads(st, packed) /\ st \in [0 .. Len(packed) -> Nat] /\ st[0] = 0
  BY <1>1, <1>2 DEF BinaryInv, BinaryAsks, Heads
<1>4. Placed \in 0 .. Len(packed) /\ Len(packed) \in Nat /\ size \in Nat
  BY WriterIs, UsedIs DEF WriterInv
<1>5. (Placed > 0 => writer = <<>>) /\ st[Placed] <= size /\ (Placed = 0 => size = 0)
  BY <1>3 DEF BinaryIs
<1>6. Placed > 0 => data' # <<>>
  <2> SUFFICES ASSUME Placed > 0 PROVE size # 0
    BY <1>1
  <2>1. Placed \in 1 .. Len(packed)
    BY <1>4
  <2>2. PICK x \in Nat, l \in Nat : st[Placed] = x + 4 + l
    BY <1>3, <2>1, HeadsGrow
  <2> QED BY <1>5, <2>2
<1>7. ASSUME NEW i \in 1 .. Placed PROVE HeldIn(data, st, i)'
  <2>1. i \in 1 .. Len(packed) /\ Placed \in 1 .. Len(packed) /\ i \in 0 .. Placed /\ Placed > 0
    BY <1>4
  <2>2. HeldIn(data, st, i)
    BY <1>3 DEF BinaryIs
  <2>3. st[i] <= size
    <3>1. st[i] \in Nat /\ st[Placed] \in Nat /\ st[i] <= st[Placed]
      BY <1>3, <2>1, HeadsGrow
    <3> QED BY <1>4, <1>5, <3>1
  <2>4. \A k \in 1 .. size : data'[k] = data[k]
    BY <1>1, <1>6, <2>1
  <2>5. HeldIn(data', st, i)
    BY <1>3, <1>4, <2>1, <2>2, <2>3, <2>4, HeldByMore
  <2> QED BY <1>2, <2>5 DEF HeldIn
<1>8. Stored' = 0
  <2>1. StoredBefore(Len(results) + 1)' = {}
    BY <1>2 DEF StoredBefore
  <2> QED BY <2>1, FS_EmptySet DEF Stored
<1>9. (\A i \in 1 .. Len(results') : FALSE) /\ Len(results') = 0 /\ stage' # "crashed"
  BY <1>1, <1>2 DEF ReadHere, Receive, Copy
<1> QED BY <1>1, <1>2, <1>3, <1>5, <1>6, <1>7, <1>8, <1>9 DEF BinaryIs

LEMMA BodyIsNotUntouched ==
  ASSUME NEW a \in Args PROVE a.body # Untouched
<1>1. PICK b \in Seq(Char) : b = a.body
  BY ArgsAre
<1>2. b # <<Unset>>
  <2> SUFFICES ASSUME b = <<Unset>> PROVE FALSE
    OBVIOUS
  <2>1. Len(b) = 1 /\ b[1] = Unset
    OBVIOUS
  <2>2. b[1] \in Char
    BY <2>1
  <2> QED BY <2>1, <2>2, CommandAssumption
<1> QED BY <1>1, <1>2 DEF Untouched

(* How many were stored, before and after an answer.                       *)
LEMMA StoredIs ==
  ASSUME CommandTypes
  PROVE  /\ IsFiniteSet(StoredBefore(Len(results) + 1)) /\ Stored \in Nat
         /\ Len(results) \in Nat
<1>1. Len(results) \in Nat
  BY DEF CommandTypes
<1>2. IsFiniteSet(1 .. Len(results))
  BY <1>1, FS_Interval
<1>3. StoredBefore(Len(results) + 1) \subseteq 1 .. Len(results)
  BY <1>1 DEF StoredBefore
<1>4. IsFiniteSet(StoredBefore(Len(results) + 1))
  BY <1>2, <1>3, FS_Subset
<1> QED BY <1>1, <1>4, FS_CardinalityType DEF Stored

LEMMA OneMoreAnswer ==
  ASSUME CommandTypes, Reading, NEW t \in Type, NEW y, Answer(t, y), packed' = packed,
         NEW r \in Nat, r = Len(results)
  PROVE  /\ Stored' = IF y = Untouched THEN Stored ELSE Stored + 1
         /\ Len(results') = r + 1
         /\ \A i \in 1 .. r : Answered(i) => Answered(i)'
         /\ Answered(r + 1)' <=>
              LET next == packed[Stored + 1]
              IN  y = IF t = next.type THEN next.body ELSE Untouched
<1>1. /\ Len(results') = r + 1
      /\ \A i \in 1 .. r : results'[i] = results[i] /\ asked'[i] = asked[i]
      /\ results'[r + 1] = y /\ asked'[r + 1] = t
  BY AnswerIs
<1>2. ASSUME NEW i \in 1 .. r + 1 PROVE StoredBefore(i)' = StoredBefore(i)
  <2>1. \A j \in 1 .. i - 1 : j \in 1 .. r
    OBVIOUS
  <2> QED BY <1>1, <2>1 DEF StoredBefore
<1>3. StoredBefore(r + 2)' = IF y = Untouched THEN StoredBefore(r + 1) ELSE StoredBefore(r + 1) \cup {r + 1}
  <2>1. (r + 2) - 1 = r + 1 /\ (r + 1) - 1 = r
    OBVIOUS
  <2>2. \A j : j \in 1 .. r + 1 <=> j \in 1 .. r \/ j = r + 1
    OBVIOUS
  <2>3. StoredBefore(r + 2)' = {j \in 1 .. r + 1 : results'[j] # Untouched}
    BY <2>1 DEF StoredBefore
  <2>4. StoredBefore(r + 1) = {j \in 1 .. r : results[j] # Untouched}
    BY <2>1 DEF StoredBefore
  <2> QED BY <1>1, <2>2, <2>3, <2>4
<1>4. r + 1 \notin StoredBefore(r + 1)
  BY DEF StoredBefore
<1>5. Stored' = IF y = Untouched THEN Stored ELSE Stored + 1
  <2>1. Stored' = Cardinality(StoredBefore(r + 2)')
    <3>1. Len(results') + 1 = r + 2
      BY <1>1
    <3> QED BY <3>1 DEF Stored, StoredBefore
  <2>2. y # Untouched => Cardinality(StoredBefore(r + 1) \cup {r + 1}) = Stored + 1
    <3>1. IsFiniteSet(StoredBefore(r + 1)) /\ Stored = Cardinality(StoredBefore(r + 1))
      BY StoredIs DEF Stored
    <3> QED BY <1>4, <3>1, FS_AddElement
  <2> QED BY <1>3, <2>1, <2>2 DEF Stored
<1>6. ASSUME NEW i \in 1 .. r, Answered(i) PROVE Answered(i)'
  <2>1. i \in 1 .. r + 1
    OBVIOUS
  <2> QED BY <1>1, <1>2, <1>6, <2>1 DEF Answered
<1>7. Answered(r + 1)' <=> y = LET next == packed[Stored + 1] IN IF t = next.type THEN next.body ELSE Untouched
  <2>1. StoredBefore(r + 1)' = StoredBefore(r + 1)
    <3>1. r + 1 \in 1 .. r + 1
      OBVIOUS
    <3> QED BY <1>2, <3>1
  <2>2. Cardinality(StoredBefore(r + 1)) = Stored
    BY DEF Stored
  <2> QED BY <1>1, <2>1, <2>2 DEF Answered
<1> QED BY <1>1, <1>5, <1>6, <1>7

(* While values are read, an argument begins where the reader stands.      *)
LEMMA NextIsHeld ==
  ASSUME CommandTypes, WriterInv, BinaryAsks, Reading, NEW st \in [0 .. Len(packed) -> Nat],
         Heads(st, packed), BinaryIs(st)
  PROVE  /\ OnArgument /\ Ending(data) /\ Placed = Len(packed) /\ writer = <<>>
         /\ Stored \in Nat /\ Stored + 1 \in 1 .. Len(packed)
         /\ packed[Stored + 1] \in Args
         /\ LET a == packed[Stored + 1]
            IN  /\ offset \in Nat /\ ArgSize(a) \in Nat
                /\ data[offset + 1] = <<"head", ArgSize(a), a.type>>
                /\ offset + HeadBytes + ArgSize(a) = st[Stored + 1]
                /\ offset + HeadBytes + ArgSize(a) <= Len(data)
                /\ \A k \in 1 .. ArgSize(a) : data[(offset + HeadBytes) + k] = Body(a)[k]
<1>1. writer = <<>> /\ Len(results) \in Nat /\ Len(results) < Len(packed) /\ Len(packed) \in Nat
      /\ Stored \in Nat /\ Stored <= Len(results)
  BY NextTypeIs, WriterIs, StoredIs DEF Reading, WriterInv, BinaryIs
<1>2. Placed = Len(packed) /\ Placed > 0
  BY <1>1 DEF Placed
<1> DEFINE c == Stored
           a == packed[c + 1]
<1>3. c + 1 \in 1 .. Len(packed) /\ (c + 1) - 1 = c /\ c + 1 \in 1 .. Placed /\ c + 1 \in 0 .. Placed
      /\ Placed \in 1 .. Len(packed)
  BY <1>1, <1>2
<1> HIDE DEF c
<1>4. /\ data # <<>> /\ st[Placed] <= size /\ HeldIn(data, st, c + 1) /\ offset = st[c]
  BY <1>2, <1>3 DEF BinaryIs, c
<1>5. /\ st[c] \in Nat /\ st[c + 1] \in Nat /\ a \in Args /\ ArgSize(a) \in Nat
      /\ st[c + 1] = st[c] + 4 + ArgSize(a)
  BY <1>3, HeadsGrow
<1>6. st[c + 1] <= st[Placed] /\ st[Placed] \in Nat
  BY <1>3, HeadsGrow
<1>7. /\ data \in Seq(Cells) /\ data[Len(data)] = Nul /\ size < Len(data)
      /\ Len(data) \in Nat /\ size \in Nat
  BY <1>4, UsedIs DEF CommandTypes, BufferInv
<1>8. PICK x \in Nat, y \in Nat, l \in Nat, z \in Nat :
        /\ x = offset /\ y = st[c + 1] /\ l = ArgSize(a) /\ z = Len(data)
        /\ y = x + 4 + l /\ y < z
  BY <1>4, <1>5, <1>6, <1>7
<1> HIDE DEF a
<1>9. data[offset + 1] = <<"head", l, a.type>>
  BY <1>3, <1>4, <1>8 DEF HeldIn, a
<1>10. \A k \in 1 .. l : data[(offset + HeadBytes) + k] = Body(a)[k]
  BY <1>3, <1>4, <1>8 DEF HeldIn, a
<1>11. OnArgument
  <2>1. data[offset + 1][2] = l /\ Len(data[offset + 1]) = 3
    BY <1>9
  <2>2. offset < Len(data) /\ offset + 4 + l <= Len(data)
    BY <1>8
  <2> QED BY <2>1, <2>2 DEF OnArgument, HeadBytes
<1>12. Ending(data)
  BY <1>4, <1>7 DEF Ending
<1>13. offset + HeadBytes + l = st[c + 1] /\ offset + HeadBytes + l <= Len(data) /\ offset \in Nat
  BY <1>8 DEF HeadBytes
<1> QED BY <1>1, <1>2, <1>3, <1>5, <1>8, <1>9, <1>10, <1>11, <1>12, <1>13 DEF a, c

(* What an unshift of its own type stores of an argument.                  *)
ValueOf(t) ==
  LET body == offset + HeadBytes
      length == data[offset + 1][2]
  IN  CASE t = "INTEGER" -> data[body + 1][2]
        [] t = "STRING"  -> CString(data, body + 1)
        [] t = "DATA"    -> SubSeq(data, body + 1, body + length)

LEMMA ValueIs ==
  ASSUME CommandTypes, NEW a \in Args, Ending(data), offset \in Nat,
         data[offset + 1] = <<"head", ArgSize(a), a.type>>,
         offset + HeadBytes + ArgSize(a) <= Len(data),
         \A k \in 1 .. ArgSize(a) : data[(offset + HeadBytes) + k] = Body(a)[k]
  PROVE  /\ \A t \in Type : Matches(t) <=> t = a.type
         /\ ValueOf(a.type) = a.body
<1> DEFINE o == offset + HeadBytes
           l == ArgSize(a)
<1>1. o \in Nat /\ l \in Nat /\ o + l <= Len(data) /\ Len(data) \in Nat /\ data \in Seq(Cells)
  BY ArgsAre DEF HeadBytes, Ending
<1>2. data[offset + 1][2] = l /\ data[offset + 1][3] = a.type
  OBVIOUS
<1>3. /\ a.type = "INTEGER" => l = IntBytes /\ Body(a)[1] = <<"int", a.body>>
      /\ a.type = "STRING" => /\ l = Len(a.body) + 1 /\ Body(a)[l] = Nul
                              /\ \A k \in 1 .. Len(a.body) : Body(a)[k] = a.body[k]
      /\ a.type = "DATA" => Body(a) = a.body /\ Len(Body(a)) = l
  BY BodyIs
<1>4. PICK b \in Seq(Cells), n \in Nat : b = a.body /\ n = Len(b)
  BY ArgsAre
<1>5. \A k \in 1 .. l : data[o + k] = Body(a)[k]
  OBVIOUS
<1>6. Matches(a.type)
  <2>1. CASE a.type = "INTEGER"
    BY <1>2, <1>3, <2>1 DEF Matches
  <2>2. CASE a.type = "STRING"
    <3>1. l = n + 1 /\ l \in 1 .. l /\ l >= 1
      BY <1>3, <1>4, <2>2
    <3>2. data[o + l] = Nul
      BY <1>3, <1>5, <2>2, <3>1
    <3> HIDE DEF l
    <3> QED BY <1>2, <2>2, <3>1, <3>2 DEF Matches
  <2>3. CASE a.type = "DATA"
    BY <1>2, <2>3 DEF Matches
  <2> QED BY <2>1, <2>2, <2>3, ArgsAre DEF Type
<1>7. \A t \in Type : Matches(t) <=> t = a.type
  BY <1>2, <1>6 DEF Matches
<1> HIDE DEF o, l
<1>8. ValueOf(a.type) = CASE a.type = "INTEGER" -> data[o + 1][2]
                          [] a.type = "STRING"  -> CString(data, o + 1)
                          [] a.type = "DATA"    -> SubSeq(data, o + 1, o + l)
  BY <1>2 DEF ValueOf, o
<1>9. CASE a.type = "INTEGER"
  <2>1. 1 \in 1 .. l
    BY <1>3, <1>9 DEF IntBytes
  <2>2. data[o + 1] = <<"int", a.body>>
    BY <1>3, <1>5, <1>9, <2>1
  <2> QED BY <1>7, <1>8, <1>9, <2>2
<1>10. CASE a.type = "STRING"
  <2>1. l = n + 1 /\ o + n + 1 = o + l /\ o + n + 1 \in 1 .. Len(data) /\ l \in 1 .. l
        /\ \A k \in 1 .. n : k \in 1 .. l
    <3>1. l = n + 1
      BY <1>3, <1>4, <1>10
    <3>2. PICK z \in Nat : z = Len(data) /\ o + l <= z
      BY <1>1
    <3> QED BY <1>1, <3>1, <3>2
  <2>2. data[o + n + 1] = Nul
    BY <1>3, <1>5, <1>10, <2>1
  <2>3. \A k \in 1 .. n : data[o + k] = b[k] /\ b[k] # Nul
    <3>1. \A k \in 1 .. n : data[o + k] = b[k]
      BY <1>3, <1>4, <1>5, <1>10, <2>1
    <3>2. \A k \in 1 .. n : b[k] # Nul
      BY <1>4, <1>10, ArgsAre
    <3> QED BY <3>1, <3>2
  <2>4. CString(data, o + 1) = b
    <3>1. o + Len(b) + 1 \in 1 .. Len(data) /\ data[o + Len(b) + 1] = Nul
      BY <1>4, <2>1, <2>2
    <3>2. \A k \in 1 .. Len(b) : data[o + k] = b[k] /\ b[k] # Nul
      BY <1>4, <2>3
    <3> QED BY <1>1, <3>1, <3>2, CStringIs
  <2> QED BY <1>4, <1>7, <1>8, <1>10, <2>4
<1>11. CASE a.type = "DATA"
  <2>1. l = n /\ Body(a) = b
    BY <1>3, <1>4, <1>11
  <2>2. o + Len(b) <= Len(data) /\ \A k \in 1 .. Len(b) : data[o + k] = b[k]
    BY <1>1, <1>4, <1>5, <2>1
  <2>3. SubSeq(data, o + 1, o + Len(b)) = b
    <3> HIDE DEF Cells
    <3> QED BY <1>1, <2>2, PartIs
  <2> QED BY <1>4, <1>7, <1>8, <1>11, <2>1, <2>3
<1> QED BY <1>7, <1>9, <1>10, <1>11, ArgsAre DEF Type

LEMMA UnshiftBinaryKeepsBinary ==
  ASSUME CommandTypes, WriterInv, BinaryInv, NEW t \in Type, UnshiftBinary(t) PROVE BinaryInv'
<1> SUFFICES ASSUME BinaryAsks', NEW st \in [0 .. Len(packed') -> Nat], Heads(st, packed')
             PROVE  BinaryIs(st)'
  BY DEF BinaryInv
<1>1. /\ Reading /\ kind = "binary"
      /\ UNCHANGED <<kind, data, size, writer, stage, packed, total, overflow>>
      /\ IF Matches(t)
         THEN offset' = offset + HeadBytes + data[offset + 1][2] /\ Answer(t, ValueOf(t))
         ELSE offset' = offset /\ Answer(t, Untouched)
  BY DEF UnshiftBinary, ValueOf
<1>2. BinaryAsks /\ BinaryIs(st) /\ Heads(st, packed) /\ st \in [0 .. Len(packed) -> Nat]
  BY <1>1 DEF BinaryAsks, BinaryInv
<1> DEFINE a == packed[Stored + 1]
<1>3. /\ Ending(data) /\ Placed = Len(packed) /\ writer = <<>>
      /\ Stored \in Nat /\ Stored + 1 \in 1 .. Len(packed) /\ a \in Args
      /\ offset \in Nat /\ ArgSize(a) \in Nat
      /\ data[offset + 1] = <<"head", ArgSize(a), a.type>>
      /\ offset + HeadBytes + ArgSize(a) = st[Stored + 1]
      /\ offset + HeadBytes + ArgSize(a) <= Len(data)
      /\ \A k \in 1 .. ArgSize(a) : data[(offset + HeadBytes) + k] = Body(a)[k]
  BY <1>1, <1>2, NextIsHeld
<1>4. (Matches(t) <=> t = a.type) /\ ValueOf(a.type) = a.body
  BY <1>3, ValueIs
<1>5. a.body # Untouched /\ data[offset + 1][2] = ArgSize(a)
  BY <1>3, BodyIsNotUntouched
<1>6. Placed' = Placed /\ \A i \in 1 .. Placed : HeldIn(data, st, i)'
  BY <1>1, <1>2 DEF Placed, BinaryIs, HeldIn
<1>7. /\ Placed' = 0 => size' = 0
      /\ Placed' > 0 => data' # <<>> /\ writer' = <<>>
      /\ st[Placed'] <= size' /\ stage' # "crashed"
  BY <1>1, <1>2, <1>6 DEF BinaryIs
<1>8. PICK r \in Nat : r = Len(results) /\ Stored <= r
  BY <1>2, StoredIs DEF BinaryIs
<1>9. \A i \in 1 .. r : Answered(i)
  BY <1>2, <1>8 DEF BinaryIs
<1> DEFINE y == IF t = a.type THEN a.body ELSE Untouched
<1>10. Answer(t, y)
  <2> HIDE DEF a
  <2> QED BY <1>1, <1>4
<1>11. /\ Stored' = IF y = Untouched THEN Stored ELSE Stored + 1
       /\ Len(results') = r + 1
       /\ \A i \in 1 .. r : Answered(i) => Answered(i)'
       /\ Answered(r + 1)' <=> y = IF t = a.type THEN a.body ELSE Untouched
  <2> HIDE DEF y
  <2> QED BY <1>1, <1>8, <1>10, OneMoreAnswer
<1>12. ASSUME NEW i \in 1 .. Len(results') PROVE Answered(i)'
  <2>1. i \in 1 .. r \/ i = r + 1
    BY <1>11
  <2> QED BY <1>9, <1>11, <2>1
<1>13. offset' = st[Stored'] /\ Stored' <= Len(results')
  <2>1. CASE t = a.type
    <3>1. Stored' = Stored + 1 /\ offset' = st[Stored + 1]
      <4> HIDE DEF a
      <4> QED BY <1>1, <1>3, <1>4, <1>5, <1>11, <2>1
    <3> QED BY <1>3, <1>8, <1>11, <3>1
  <2>2. CASE t # a.type
    <3>1. Stored' = Stored /\ offset' = offset
      <4> HIDE DEF a
      <4> QED BY <1>1, <1>4, <1>11, <2>2
    <3>2. offset = st[Stored]
      BY <1>2 DEF BinaryIs
    <3> QED BY <1>3, <1>8, <1>11, <3>1, <3>2
  <2> QED BY <2>1, <2>2
<1> QED BY <1>6, <1>7, <1>12, <1>13 DEF BinaryIs

LEMMA NoGapInBinary ==
  ASSUME CommandTypes, WriterInv, BinaryInv, BinaryAsks, Reading
  PROVE  OnArgument
<1>1. PICK st \in [0 .. Len(packed) -> Nat] : Heads(st, packed)
  BY HeadsAre
<1>2. BinaryIs(st)
  BY <1>1 DEF BinaryInv
<1> QED BY <1>1, <1>2, NextIsHeld

LEMMA BinaryInvKept ==
  ASSUME CommandTypes, WriterInv, BinaryInv, [NarrowNext]_commandVars PROVE BinaryInv'
<1>1. CASE UNCHANGED commandVars
  <2>1. UNCHANGED <<kind, data, size, offset, writer, stage, packed, asked, results, total>>
    BY <1>1 DEF commandVars, history
  <2>2. Placed' = Placed /\ Stored' = Stored /\ (BinaryAsks' <=> BinaryAsks)
    BY <2>1 DEF Placed, Stored, StoredBefore, BinaryAsks
  <2>3. \A i : (Answered(i)' <=> Answered(i))
    BY <2>1 DEF Answered, StoredBefore
  <2>4. \A st, i : (HeldIn(data, st, i)' <=> HeldIn(data, st, i))
    BY <2>1 DEF HeldIn
  <2>5. \A st : (BinaryIs(st)' <=> BinaryIs(st))
    BY <2>1, <2>2, <2>3, <2>4 DEF BinaryIs
  <2> QED BY <2>1, <2>2, <2>5 DEF BinaryInv
<1>2. ASSUME NEW a \in ArgsOfKind, Push(a) PROVE BinaryInv'
  BY <1>2, PushKeepsBinary
<1>3. CASE Flush
  BY <1>3, FlushKeepsBinary
<1>4. CASE ReadHere \/ Receive \/ Copy
  BY <1>4, HandOverKeepsBinary
<1>5. ASSUME NEW t \in Type, UnshiftBinary(t) PROVE BinaryInv'
  BY <1>5, UnshiftBinaryKeepsBinary
<1>6. CASE UnshiftNothing \/ UnshiftText
  <2>1. kind' = "text"
    BY <1>6 DEF UnshiftNothing, UnshiftText
  <2> QED BY <2>1 DEF BinaryInv, BinaryAsks
<1>7. CASE UnshiftWild
  <2> SUFFICES ASSUME BinaryAsks' PROVE FALSE
    BY DEF BinaryInv
  <2>1. Reading /\ UNCHANGED <<kind, total, packed>> /\ ~ (IF kind = "text" THEN OnText ELSE OnArgument)
    BY <1>7 DEF UnshiftWild, history
  <2>2. BinaryAsks /\ kind # "text"
    BY <2>1 DEF BinaryAsks
  <2> QED BY <2>1, <2>2, NoGapInBinary
<1> QED BY <1>1, <1>2, <1>3, <1>4, <1>5, <1>6, <1>7 DEF NarrowNext

-----------------------------------------------------------------------------
CommandInv == CommandTypes /\ WriterInv /\ TextInv /\ BinaryInv

LEMMA CommandInvFirst ==
  ASSUME CommandInit PROVE CommandInv
<1>1. CommandTypes
  BY CommandTypesFirst
<1>2. /\ data = <<>> /\ size = 0 /\ offset = 0 /\ writer = <<>> /\ packed = <<>>
      /\ results = <<>> /\ stage = "pack" /\ Placed = 0 /\ Len(packed) = 0 /\ Len(results) = 0
  BY DEF CommandInit, Placed
<1>3. WriterInv
  BY <1>2 DEF WriterInv
<1>4. Stored = 0
  <2>1. StoredBefore(Len(results) + 1) = {}
    BY <1>2 DEF StoredBefore
  <2> QED BY <2>1, FS_EmptySet DEF Stored
<1>5. ASSUME NEW st \in [0 .. Len(packed) -> Nat], st[0] = 0 PROVE TextIs(st) /\ BinaryIs(st)
  BY <1>2, <1>4, <1>5 DEF TextIs, BinaryIs
<1>6. TextInv /\ BinaryInv
  BY <1>5 DEF TextInv, BinaryInv, Starts, Heads
<1> QED BY <1>1, <1>3, <1>6 DEF CommandInv

LEMMA CommandInvKept ==
  ASSUME CommandInv, [NarrowNext]_commandVars PROVE CommandInv'
BY CommandTypesKept, WriterInvKept, TextInvKept, BinaryInvKept DEF CommandInv

LEMMA CommandTypesSuffice ==
  ASSUME CommandTypes PROVE CommandTypeOK /\ NoOverflow
<1>1. ArgsOfKind \subseteq TextArg \cup BinaryArg
  BY DEF ArgsOfKind, Narrowed
<1>2. writer \in Seq(TextArg \cup BinaryArg) /\ packed \in Seq(TextArg \cup BinaryArg)
  BY <1>1 DEF CommandTypes
<1> QED BY <1>2 DEF CommandTypes, BufferInv, CommandTypeOK, NoOverflow

(* Each answer to a text is the next argument, and each of them stored it. *)
LEMMA TextAnswers ==
  ASSUME CommandTypes, TextAsks, NEW st \in [0 .. Len(packed) -> Nat], TextIs(st),
         NEW i \in 1 .. Len(results)
  PROVE  Answered(i)
<1>1. Len(results) \in Nat /\ Len(packed) \in Nat /\ Len(results) <= Len(packed)
  BY StoredIs, WriterIs DEF CommandTypes
<1>2. \A j \in 1 .. Len(results) : results[j] = packed[j].body /\ asked[j] = packed[j].type
  BY DEF TextIs
<1>3. StoredBefore(i) = 1 .. i - 1
  <2>1. \A j \in 1 .. i - 1 : j \in 1 .. Len(results) /\ j \in 1 .. Len(packed)
    BY <1>1
  <2>2. \A j \in 1 .. i - 1 : results[j] # Untouched
    BY <1>2, <2>1, WriterIs, BodyIsNotUntouched
  <2> QED BY <2>2 DEF StoredBefore
<1>4. Cardinality(1 .. i - 1) = i - 1
  <2>1. 1 \in Int /\ i - 1 \in Int /\ (IF 1 > i - 1 THEN 0 ELSE (i - 1) - 1 + 1) = i - 1
    BY <1>1
  <2> QED BY <2>1, FS_Interval
<1>5. (i - 1) + 1 = i
  BY <1>1
<1> QED BY <1>2, <1>3, <1>4, <1>5 DEF Answered

LEMMA CommandInvSuffices ==
  ASSUME CommandInv PROVE CommandTypeOK /\ NoOverflow /\ RoundTrip
<1>1. CommandTypeOK /\ NoOverflow
  BY CommandTypesSuffice DEF CommandInv
<1>2. ASSUME total < SizeMod, \A i \in 1 .. Len(packed) : Faithful(packed[i])
      PROVE  stage # "crashed" /\ \A i \in 1 .. Len(results) : Answered(i)
  <2>1. CASE kind = "text"
    <3>1. TextAsks
      BY <1>2, <2>1 DEF TextAsks
    <3>2. PICK st \in [0 .. Len(packed) -> Nat] : Starts(st, packed)
      BY <2>1, StartsAre DEF CommandInv
    <3>3. TextIs(st)
      BY <3>1, <3>2 DEF CommandInv, TextInv
    <3>4. stage # "crashed"
      BY <3>3 DEF TextIs
    <3>5. \A i \in 1 .. Len(results) : Answered(i)
      BY <3>1, <3>3, TextAnswers DEF CommandInv
    <3> QED BY <3>4, <3>5
  <2>2. CASE kind = "binary"
    <3>1. BinaryAsks
      BY <1>2, <2>2 DEF BinaryAsks
    <3>2. PICK st \in [0 .. Len(packed) -> Nat] : Heads(st, packed)
      BY HeadsAre DEF CommandInv
    <3>3. BinaryIs(st)
      BY <3>1, <3>2 DEF CommandInv, BinaryInv
    <3> QED BY <3>3 DEF BinaryIs
  <2> QED BY <2>1, <2>2 DEF CommandInv, CommandTypes
<1>3. RoundTrip
  BY <1>2 DEF RoundTrip, Answered, StoredBefore
<1> QED BY <1>1, <1>3

(* What is known of a command whatever is packed into it: nothing more, once a wide argument is. *)
CommandHolds == packed \in Seq(TextArg \cup BinaryArg) /\ (Narrow => CommandInv)

LEMMA PackedGrows ==
  ASSUME packed \in Seq(TextArg \cup BinaryArg), [CommandNext]_commandVars
  PROVE  /\ packed' \in Seq(TextArg \cup BinaryArg)
         /\ Narrow' => Narrow /\ [NarrowNext]_commandVars
<1>1. CASE UNCHANGED packed
  <2>1. packed' \in Seq(TextArg \cup BinaryArg) /\ (Narrow' => Narrow)
    BY <1>1 DEF Narrow
  <2>2. ASSUME NEW a, Push(a) PROVE FALSE
    <3>1. packed = Append(packed, a)
      BY <1>1, <2>2 DEF Push
    <3>2. PICK p \in Seq(TextArg \cup BinaryArg \cup {a}) : p = packed
      OBVIOUS
    <3>3. Len(Append(p, a)) = Len(p) + 1 /\ Len(p) \in Nat
      BY AppendIs
    <3> QED BY <3>1, <3>2, <3>3
  <2>3. [NarrowNext]_commandVars
    BY <2>2 DEF CommandNext, NarrowNext
  <2> QED BY <2>1, <2>3
<1>2. ASSUME NEW a \in IF kind = "text" THEN TextArg ELSE BinaryArg, Push(a)
      PROVE  /\ packed' \in Seq(TextArg \cup BinaryArg)
             /\ Narrow' => Narrow /\ [NarrowNext]_commandVars
  <2>1. packed' = Append(packed, a) /\ a \in TextArg \cup BinaryArg
    BY <1>2 DEF Push
  <2>2. /\ packed' \in Seq(TextArg \cup BinaryArg) /\ Len(packed') = Len(packed) + 1
        /\ Len(packed) \in Nat /\ packed'[Len(packed) + 1] = a
        /\ \A i \in 1 .. Len(packed) : packed'[i] = packed[i]
    BY <2>1, AppendIs
  <2>3. ASSUME Narrow' PROVE Narrow /\ Wide(a) < SizeMod
    <3>1. \A i \in 1 .. Len(packed') : Wide(packed'[i]) < SizeMod
      BY <2>3 DEF Narrow
    <3>2. /\ Len(packed) + 1 \in 1 .. Len(packed')
          /\ \A i \in 1 .. Len(packed) : i \in 1 .. Len(packed')
      BY <2>2
    <3>3. Wide(packed'[Len(packed) + 1]) < SizeMod
      BY <3>1, <3>2
    <3>4. \A i \in 1 .. Len(packed) : Wide(packed[i]) < SizeMod
      BY <2>2, <3>1, <3>2
    <3> QED BY <2>2, <3>3, <3>4 DEF Narrow
  <2>4. Wide(a) < SizeMod => a \in ArgsOfKind
    BY <1>2 DEF ArgsOfKind, Narrowed
  <2> QED BY <1>2, <2>2, <2>3, <2>4 DEF NarrowNext
<1>3. ~ (\E a \in IF kind = "text" THEN TextArg ELSE BinaryArg : Push(a)) => UNCHANGED packed
  BY DEF CommandNext, commandVars, history, Flush, ReadHere, Receive, Copy, UnshiftNothing,
         UnshiftText, UnshiftWild, UnshiftBinary
<1> QED BY <1>1, <1>2, <1>3

(* What is packed into a command is what is unpacked from it, and never does packing it write *)
(* behind its buffer, as long as Arg::size holds the sizes of the arguments: command.cc's     *)
(* _push, _flush, _grow and unshifts, functions.cc's get_next_argument.  So a write behind    *)
(* the buffer takes an argument of 65536 bytes or more, a string's NUL counted.               *)
THEOREM CommandsCarryWhatWasPacked ==
  CommandSpec => [](Narrow => CommandTypeOK /\ NoOverflow /\ RoundTrip)
<1>1. CommandInit => CommandHolds
  <2>1. CommandInit => packed \in Seq(TextArg \cup BinaryArg)
    BY DEF CommandInit
  <2> QED BY <2>1, CommandInvFirst DEF CommandHolds
<1>2. CommandHolds /\ [CommandNext]_commandVars => CommandHolds'
  BY PackedGrows, CommandInvKept DEF CommandHolds
<1>3. CommandHolds => (Narrow => CommandTypeOK /\ NoOverflow /\ RoundTrip)
  BY CommandInvSuffices DEF CommandHolds
<1> QED BY <1>1, <1>2, <1>3, PTL DEF CommandSpec

-----------------------------------------------------------------------------
(* Both codecs of the server read back what they wrote, and fit what they write into the room *)
(* they made for it, unless an argument is longer than Arg::size can say: functions.cc:63-110  *)
(* and command.cc:92-270, filecert.cc:129-330.                                                *)
THEOREM CodecsReadBackWhatTheyWrite == CertsSpec /\ CommandSpec => []FitsAndReadsBack
<1>1. CertsSpec => []CertsSound
  BY CertificatesReadBack
<1>2. CommandSpec => [](Narrow => CommandTypeOK /\ NoOverflow /\ RoundTrip)
  BY CommandsCarryWhatWasPacked
<1>3. CertsSound /\ (Narrow => CommandTypeOK /\ NoOverflow /\ RoundTrip) => FitsAndReadsBack
  BY DEF FitsAndReadsBack
<1> QED BY <1>1, <1>2, <1>3, PTL
=============================================================================

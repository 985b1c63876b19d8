--------------------------- MODULE ClientIOProofs ---------------------------
(***************************************************************************)
(* Proofs about ClientIO for every set of commands, every size of header   *)
(* and bodies, every amount of room and every way to cut the stream.       *)
(*                                                                         *)
(* Each byte of the commands written has a position in the whole stream:   *)
(* base[n] bytes precede command n's image.  The bytes that are under way  *)
(* have consecutive positions, from where the reader is to where the       *)
(* writer is, and a position belongs to one command only: whatever recv(2) *)
(* returns continues the command that rbuffer has begun.                   *)
(***************************************************************************)
EXTENDS ClientIO, SequenceTheorems, SequenceLemmas, TLAPS

-----------------------------------------------------------------------------
(* The inductive invariant.                                                *)

\* base gives each command its place; that of the next one comes last.
Layout(base) ==
  /\ base \in [1 .. Len(written) + 1 -> Nat]
  /\ \A n \in Name : base[n + 1] = base[n] + Image(n)
  /\ \A n \in Name, m \in 1 .. Len(written) + 1 : n < m => base[n] + Image(n) <= base[m]

\* b is a byte of a command and stands at position p.
At(base, b, p) ==
  /\ b[1] \in Name
  /\ b[2] \in 1 .. Image(b[1])
  /\ base[b[1]] + b[2] = p

\* Where the reader is.
Position(base) == base[Len(delivered) + 1] + Len(rbuffer.bytes)

\* rbuffer holds the beginning of the command after those returned.
BufferInv ==
  rbuffer # NoBuffer =>
    /\ Len(delivered) + 1 \in Name
    /\ rbuffer.size = Image(Len(delivered) + 1)
    /\ Len(rbuffer.bytes) < rbuffer.size
    /\ \A k \in 1 .. Len(rbuffer.bytes) : rbuffer.bytes[k] = <<Len(delivered) + 1, k>>

\* The queue holds the last commands written, and only its first was begun.
QueueInv ==
  wpc # "closed" =>
    /\ Len(wqueue) <= Len(written)
    /\ \A i \in 1 .. Len(wqueue) : wqueue[i].cmd = Len(written) - Len(wqueue) + i

\* The stream goes on where rbuffer ends, and the queue where the stream ends.
StreamInv(base) ==
  /\ \A j \in 1 .. Len(stream) : At(base, stream[j], Position(base) + j)
  /\ wpc # "closed" /\ rpc # "closed" =>
       Position(base) + Len(stream)
         = base[Len(written) - Len(wqueue) + 1] + (IF wqueue = <<>> THEN 0 ELSE wqueue[1].sent)

PlacesInv == \E base : Layout(base) /\ StreamInv(base)

IInv ==
  /\ TypeOK
  /\ Len(delivered) <= Len(written)
  /\ InOrder
  /\ OnlyHeadIsPartial
  /\ BufferInv
  /\ QueueInv
  /\ PlacesInv

-----------------------------------------------------------------------------
(* Lemmas.                                                                 *)

\* A function on 1 .. n is a sequence of n elements.
LEMMA FunSeq ==
  ASSUME NEW S, NEW n \in Nat, NEW f \in [1 .. n -> S]
  PROVE  f \in Seq(S) /\ Len(f) = n
<1>1. f \in Seq(S)
  BY SeqDef
<1>2. DOMAIN f = 1 .. Len(f) /\ Len(f) \in Nat
  BY <1>1, LenProperties
<1>. QED
  BY <1>1, <1>2

\* An image is a header and a body.
LEMMA ImageSize ==
  ASSUME TypeOK, NEW n \in Name
  PROVE  Image(n) \in Nat /\ Image(n) >= HeadSize /\ Image(n) >= 1
<1>1. written[n] \in Command
  BY ElementOfSeq DEF TypeOK, Name
<1>. QED
  BY <1>1, ClientIOAssumption DEF Image

\* A position belongs to one command: a byte at a position that command m takes is
\* command m's.
LEMMA OneOwner ==
  ASSUME TypeOK, NEW base, Layout(base), NEW b \in Byte, NEW m \in Name,
         NEW k \in 1 .. Image(m), At(base, b, base[m] + k)
  PROVE  b = <<m, k>>
<1>1. b[1] \in Name /\ b[2] \in 1 .. Image(b[1]) /\ base[b[1]] + b[2] = base[m] + k
  BY DEF At
<1>2. /\ base[m] \in Nat /\ base[b[1]] \in Nat
      /\ Image(m) \in Nat /\ Image(b[1]) \in Nat /\ Len(written) \in Nat
  <2>1. Len(written) \in Nat
    BY LenProperties DEF TypeOK
  <2>2. Image(m) \in Nat /\ Image(b[1]) \in Nat
    BY <1>1, ImageSize
  <2>3. m \in 1 .. Len(written) + 1 /\ b[1] \in 1 .. Len(written) + 1
    BY <1>1, <2>1 DEF Name
  <2>4. base \in [1 .. Len(written) + 1 -> Nat]
    BY DEF Layout
  <2>. QED
    BY <2>1, <2>2, <2>3, <2>4
<1>3. PICK owner \in Name : owner = b[1]
  BY <1>1
<1>4. PICK place \in 1 .. Image(owner) : place = b[2]
  BY <1>1, <1>3
<1>5. base[owner] + place = base[m] + k
  BY <1>1, <1>3, <1>4
<1>6. /\ base[m] \in Nat /\ base[owner] \in Nat /\ Image(m) \in Nat /\ Image(owner) \in Nat
      /\ owner \in 1 .. Len(written) + 1 /\ m \in 1 .. Len(written) + 1
      /\ owner \in Int /\ m \in Int
  BY <1>2, <1>3 DEF Name
<1>7. ~(owner < m)
  <2>1. owner < m => base[owner] + Image(owner) <= base[m]
    BY <1>6 DEF Layout
  <2>. QED
    BY <1>5, <1>6, <2>1
<1>8. ~(m < owner)
  <2>1. m < owner => base[m] + Image(m) <= base[owner]
    BY <1>6 DEF Layout
  <2>. QED
    BY <1>5, <1>6, <2>1
<1>9. owner = m /\ place = k
  <2>1. owner = m
    BY <1>6, <1>7, <1>8
  <2>. QED
    BY <1>5, <1>6, <2>1
<1>10. b[1] = m /\ b[2] = k
  BY <1>3, <1>4, <1>9
<1>. QED
  BY <1>10 DEF Byte

\* If a byte is under way, the command that the reader is at was written.
LEMMA NextIsWritten ==
  ASSUME IInv, stream # <<>>
  PROVE  Len(delivered) + 1 \in Name
<1> USE DEF IInv
<1>1. Len(written) \in Nat /\ Len(delivered) \in Nat /\ Len(rbuffer.bytes) \in Nat
  BY LenProperties DEF TypeOK
<1>2. Len(stream) \in Nat \ {0} /\ stream[1] \in Byte
  BY EmptySeq, ElementOfSeq DEF TypeOK
<1>3. PICK base : Layout(base) /\ StreamInv(base)
  BY DEF PlacesInv
<1>4. At(base, stream[1], Position(base) + 1)
  BY <1>2, <1>3 DEF StreamInv
<1>5. CASE Len(delivered) = Len(written)
  <2>1. PICK n \in Name : \E k \in 1 .. Image(n) : base[n] + k = Position(base) + 1
    BY <1>4 DEF At
  <2>2. base[n] + Image(n) <= base[Len(written) + 1]
    BY <1>1, <1>3 DEF Layout, Name
  <2>3. base[n] \in Nat /\ base[Len(written) + 1] \in Nat /\ Image(n) \in Nat
    <3>1. Image(n) \in Nat
      BY ImageSize
    <3>. QED
      BY <1>1, <1>3, <3>1 DEF Layout, Name
  <2>. QED
    BY <1>1, <1>5, <2>1, <2>2, <2>3 DEF Position
<1>. QED
  BY <1>1, <1>5 DEF Name

-----------------------------------------------------------------------------
(* Types.                                                                  *)

\* What a flush sends is bytes.
LEMMA SentBytes ==
  ASSUME NEW q \in Queued, NEW n \in Nat
  PROVE  /\ [k \in 1 .. n |-> <<q.cmd, q.sent + k>>] \in Seq(Byte)
         /\ Len([k \in 1 .. n |-> <<q.cmd, q.sent + k>>]) = n
<1>1. [k \in 1 .. n |-> <<q.cmd, q.sent + k>>] \in [1 .. n -> Byte]
  BY DEF Queued, Byte
<1>. QED
  BY <1>1, FunSeq

\* The turns of flush() keep the types.
LEMMA SendTypes ==
  ASSUME TypeOK, NEW n \in Nat \ {0}, wqueue # <<>>,
         wqueue' = IF Head(wqueue).sent + n = Image(Head(wqueue).cmd)
                   THEN Tail(wqueue)
                   ELSE [wqueue EXCEPT ![1].sent = @ + n]
  PROVE  wqueue' \in Seq(Queued)
<1>1. /\ Head(wqueue) \in Queued /\ Tail(wqueue) \in Seq(Queued)
      /\ wqueue[1] \in Queued /\ 1 \in 1 .. Len(wqueue)
  BY HeadTailProperties, EmptySeq, ElementOfSeq DEF TypeOK
<1>2. [wqueue[1] EXCEPT !.sent = @ + n] \in Queued
  BY <1>1 DEF Queued
<1>3. [wqueue EXCEPT ![1] = [wqueue[1] EXCEPT !.sent = @ + n]] \in Seq(Queued)
  BY <1>1, <1>2, ExceptSeq DEF TypeOK
<1>. QED
  BY <1>1, <1>3

\* What recv(2) takes and what it leaves are bytes.
LEMMA RecvBytes ==
  ASSUME TypeOK, NEW n \in 1 .. Len(stream)
  PROVE  /\ SubSeq(stream, 1, n) \in Seq(Byte) /\ Len(SubSeq(stream, 1, n)) = n
         /\ \A i \in 1 .. n : SubSeq(stream, 1, n)[i] = stream[i]
         /\ SubSeq(stream, n + 1, Len(stream)) \in Seq(Byte)
         /\ Len(SubSeq(stream, n + 1, Len(stream))) = Len(stream) - n
         /\ \A i \in 1 .. Len(stream) - n :
              SubSeq(stream, n + 1, Len(stream))[i] = stream[n + i]
         /\ rbuffer.bytes \o SubSeq(stream, 1, n) \in Seq(Byte)
         /\ Len(rbuffer.bytes \o SubSeq(stream, 1, n)) = Len(rbuffer.bytes) + n
         /\ \A i \in 1 .. Len(rbuffer.bytes) + n :
              (rbuffer.bytes \o SubSeq(stream, 1, n))[i]
                = IF i <= Len(rbuffer.bytes) THEN rbuffer.bytes[i]
                                             ELSE stream[i - Len(rbuffer.bytes)]
<1>1. stream \in Seq(Byte) /\ Len(stream) \in Nat /\ Len(rbuffer.bytes) \in Nat
  BY LenProperties DEF TypeOK
<1>2. \A i \in 1 .. Len(stream) : stream[i] \in Byte
  BY <1>1, ElementOfSeq
<1>3. /\ SubSeq(stream, 1, n) \in Seq(Byte) /\ Len(SubSeq(stream, 1, n)) = n
      /\ \A i \in 1 .. n : SubSeq(stream, 1, n)[i] = stream[i]
  <2>1. \A i \in 1 .. n : stream[i] \in Byte
    BY <1>1, <1>2
  <2>2. n - 1 + 1 = n /\ 1 <= n /\ \A i \in 1 .. n : 1 + i - 1 = i
    BY <1>1
  <2>. QED
    BY <2>1, <2>2, <1>1, SubSeqProperties
<1>4. /\ SubSeq(stream, n + 1, Len(stream)) \in Seq(Byte)
      /\ Len(SubSeq(stream, n + 1, Len(stream))) = Len(stream) - n
      /\ \A i \in 1 .. Len(stream) - n :
           SubSeq(stream, n + 1, Len(stream))[i] = stream[n + i]
  <2>1. CASE n = Len(stream)
    <3>1. n + 1 \in Int /\ Len(stream) \in Int /\ Len(stream) < n + 1
      BY <1>1, <2>1
    <3>2. SubSeq(stream, n + 1, Len(stream)) = <<>>
      BY <3>1, SubSeqEmpty
    <3>. QED
      BY <1>1, <2>1, <3>2, EmptySeq
  <2>2. CASE n < Len(stream)
    <3>1. \A i \in n + 1 .. Len(stream) : stream[i] \in Byte
      BY <1>1, <1>2
    <3>2. n + 1 \in Int /\ Len(stream) \in Int /\ n + 1 <= Len(stream)
      BY <1>1, <2>2
    <3>3. /\ SubSeq(stream, n + 1, Len(stream)) \in Seq(Byte)
          /\ Len(SubSeq(stream, n + 1, Len(stream))) = Len(stream) - (n + 1) + 1
          /\ \A i \in 1 .. Len(stream) - (n + 1) + 1 :
               SubSeq(stream, n + 1, Len(stream))[i] = stream[(n + 1) + i - 1]
      BY <3>1, <3>2, SubSeqProperties
    <3>4. Len(stream) - (n + 1) + 1 = Len(stream) - n
      BY <1>1
    <3>5. \A i \in 1 .. Len(stream) - n : (n + 1) + i - 1 = n + i
      BY <1>1
    <3>. QED
      BY <3>3, <3>4, <3>5
  <2>. QED
    BY <1>1, <2>1, <2>2
<1>5. rbuffer.bytes \in Seq(Byte)
  BY DEF TypeOK
<1>. QED
  BY <1>1, <1>3, <1>4, <1>5, ConcatProperties

\* A part that send(2) takes is not empty and is not more than what is left.
LEMMA LeastBounds ==
  ASSUME NEW a \in Int, NEW b \in Int, NEW n \in 1 .. Least(a, b)
  PROVE  n \in Nat \ {0} /\ n <= a /\ n <= b
<1>1. CASE a < b
  BY <1>1 DEF Least
<1>2. CASE ~(a < b)
  BY <1>2 DEF Least
<1>. QED
  BY <1>1, <1>2

\* The header at the front of the stream, once all of it is there, is that of the
\* command that the reader is at.
LEMMA HeadIsNext ==
  ASSUME IInv, rpc # "closed", rbuffer = NoBuffer, Len(stream) >= HeadSize
  PROVE  /\ Len(delivered) + 1 \in Name
         /\ HeadDecodes = {SizeOf[written[Len(delivered) + 1]]}
<1>1. /\ Len(stream) \in Nat /\ HeadSize \in Nat /\ HeadSize >= 1
      /\ stream # <<>> /\ Len(delivered) \in Nat
  BY LenProperties, EmptySeq, ClientIOAssumption DEF IInv, TypeOK
<1>2. Len(delivered) + 1 \in Name
  BY <1>1, NextIsWritten
<1>3. PICK base : Layout(base) /\ StreamInv(base)
  BY DEF IInv, PlacesInv
<1>4. Position(base) = base[Len(delivered) + 1]
  <2>1. Len(rbuffer.bytes) = 0
    BY EmptySeq DEF NoBuffer
  <2>2. base[Len(delivered) + 1] \in Nat
    BY <1>2, <1>3, LenProperties DEF Layout, Name, IInv, TypeOK
  <2>. QED
    BY <2>1, <2>2 DEF Position
<1>5. \A k \in 1 .. HeadSize : stream[k] = <<Len(delivered) + 1, k>>
  <2> TAKE k \in 1 .. HeadSize
  <2>1. k \in 1 .. Len(stream)
    BY <1>1
  <2>2. k \in 1 .. Image(Len(delivered) + 1)
    BY <1>1, <1>2, ImageSize DEF IInv
  <2>3. At(base, stream[k], base[Len(delivered) + 1] + k)
    BY <1>3, <1>4, <2>1 DEF StreamInv
  <2>4. stream[k] \in Byte
    BY <2>1, ElementOfSeq DEF IInv, TypeOK
  <2>. QED
    BY <1>2, <1>3, <2>2, <2>3, <2>4, OneOwner DEF IInv
<1>6. stream[1][1] = Len(delivered) + 1
  BY <1>1, <1>5
<1>. QED
  BY <1>2, <1>5, <1>6 DEF HeadDecodes

\* Every step keeps the types.
LEMMA TypeNext == IInv /\ [Next]_vars => TypeOK'
<1> SUFFICES ASSUME IInv, [Next]_vars PROVE TypeOK'
  OBVIOUS
<1>0. TypeOK
  BY DEF IInv
<1>1. ASSUME NEW c \in Command, Write(c) PROVE TypeOK'
  <2>1. Append(written, c) \in Seq(Command) /\ Len(written) + 1 \in Nat \ {0}
    BY <1>0, AppendProperties, LenProperties DEF TypeOK
  <2>2. [cmd |-> Len(written) + 1, sent |-> 0] \in Queued
    BY <2>1 DEF Queued
  <2>3. Append(wqueue, [cmd |-> Len(written) + 1, sent |-> 0]) \in Seq(Queued)
    BY <1>0, <2>2, AppendProperties DEF TypeOK
  <2>. QED
    BY <1>0, <1>1, <2>1, <2>3 DEF Write, TypeOK, readerVars
<1>2. ASSUME Send PROVE TypeOK'
  <2>0. Head(wqueue) \in Queued
    BY <1>0, <1>2, HeadTailProperties DEF Send, TypeOK
  <2>1. PICK n \in 1 .. Least(Image(Head(wqueue).cmd) - Head(wqueue).sent,
                              Room - Len(stream)) :
          /\ stream' = stream \o [k \in 1 .. n |-> <<Head(wqueue).cmd, Head(wqueue).sent + k>>]
          /\ wqueue' = IF Head(wqueue).sent + n = Image(Head(wqueue).cmd)
                       THEN Tail(wqueue)
                       ELSE [wqueue EXCEPT ![1].sent = @ + n]
    BY <1>2 DEF Send
  <2>2. n \in Nat \ {0}
    OBVIOUS
  <2>3. stream' \in Seq(Byte)
    BY <1>0, <2>0, <2>1, <2>2, SentBytes, ConcatProperties DEF TypeOK
  <2>4. wqueue' \in Seq(Queued)
    BY <1>0, <1>2, <2>1, <2>2, SendTypes DEF Send
  <2>. QED
    BY <1>0, <1>2, <2>3, <2>4 DEF Send, TypeOK, readerVars
<1>3. ASSUME PeekHead PROVE TypeOK'
  <2>1. /\ Len(delivered) + 1 \in Name
        /\ HeadDecodes = {SizeOf[written[Len(delivered) + 1]]}
    BY <1>3, HeadIsNext DEF PeekHead
  <2>2. rbuffer' = [size |-> Image(Len(delivered) + 1), bytes |-> <<>>]
    BY <1>3, <2>1 DEF PeekHead, Image
  <2>3. Image(Len(delivered) + 1) \in Nat /\ Image(Len(delivered) + 1) # 0
    BY <1>0, <2>1, ImageSize
  <2>. QED
    BY <1>0, <1>3, <2>2, <2>3, EmptySeq DEF PeekHead, TypeOK, writerVars, NoBuffer
<1>4. ASSUME Recv PROVE TypeOK'
  <2>0. Len(stream) \in Int /\ rbuffer.size \in Int /\ Len(rbuffer.bytes) \in Nat
    BY <1>0, LenProperties DEF TypeOK
  <2>1. PICK n \in 1 .. Least(rbuffer.size - Len(rbuffer.bytes), Len(stream)) :
          LET bytes == rbuffer.bytes \o SubSeq(stream, 1, n)
              full  == Len(bytes) = rbuffer.size
          IN  /\ stream' = SubSeq(stream, n + 1, Len(stream))
              /\ rbuffer' = IF full THEN NoBuffer ELSE [rbuffer EXCEPT !.bytes = bytes]
              /\ rpc' = IF full THEN "idle" ELSE "recv"
              /\ delivered' = IF full THEN Append(delivered, bytes) ELSE delivered
    BY <1>4 DEF Recv
  <2>2. n \in 1 .. Len(stream) /\ rbuffer.size # 0
    <3>1. n \in Nat \ {0} /\ n <= rbuffer.size - Len(rbuffer.bytes) /\ n <= Len(stream)
      BY <2>0, LeastBounds
    <3>. QED
      BY <2>0, <3>1
  <2>3. /\ stream' \in Seq(Byte)
        /\ rbuffer.bytes \o SubSeq(stream, 1, n) \in Seq(Byte)
    BY <1>0, <2>1, <2>2, RecvBytes
  <2>4. delivered' \in Seq(Seq(Byte))
    BY <1>0, <2>1, <2>3, AppendProperties DEF TypeOK
  <2>5. rbuffer' \in [size : Nat, bytes : Seq(Byte)] /\ (rpc' = "recv" => rbuffer' # NoBuffer)
    BY <1>0, <2>1, <2>2, <2>3, EmptySeq DEF TypeOK, NoBuffer
  <2>. QED
    BY <1>0, <1>4, <2>1, <2>3, <2>4, <2>5 DEF Recv, TypeOK, writerVars
<1>5. CASE Writable \/ FlushReturns
  BY <1>0, <1>5 DEF Writable, FlushReturns, readerVars, TypeOK
<1>6. CASE WriterCloses
  BY <1>0, <1>6, EmptySeq DEF WriterCloses, readerVars, TypeOK
<1>7. CASE Resume \/ ReadReturnsNull
  BY <1>0, <1>7 DEF Resume, ReadReturnsNull, writerVars, TypeOK
<1>8. CASE ReaderCloses
  BY <1>0, <1>8, EmptySeq DEF ReaderCloses, writerVars, TypeOK, NoBuffer
<1>9. CASE Closed \/ UNCHANGED vars
  BY <1>0, <1>9 DEF Closed, vars, writerVars, readerVars, TypeOK
<1>. QED
  BY <1>1, <1>2, <1>3, <1>4, <1>5, <1>6, <1>7, <1>8, <1>9 DEF Next, Flushing, Reading
-----------------------------------------------------------------------------
(* Every step keeps the invariant.                                         *)

\* The rest of the invariant once the types are known.
PlacedInv ==
  /\ Len(delivered) <= Len(written)
  /\ InOrder
  /\ OnlyHeadIsPartial
  /\ BufferInv
  /\ QueueInv
  /\ PlacesInv

\* A step that writes nothing leaves every command at its place.
LEMMA SamePlaces ==
  ASSUME written' = written, NEW base
  PROVE  /\ Layout(base)' <=> Layout(base)
         /\ Name' = Name
         /\ \A n : Image(n)' = Image(n)
         /\ \A n, k : Bytes(n, k)' = Bytes(n, k)
         /\ \A b, p : At(base, b, p)' <=> At(base, b, p)
<1>1. Name' = Name
  BY DEF Name
<1>2. \A n : Image(n)' = Image(n)
  BY DEF Image
<1>. QED
  BY <1>1, <1>2 DEF Layout, At, Bytes

\* What the lemmas about steps use of the types.
LEMMA Lengths ==
  ASSUME IInv
  PROVE  /\ Len(written) \in Nat /\ Len(wqueue) \in Nat /\ Len(stream) \in Nat
         /\ Len(delivered) \in Nat /\ Len(rbuffer.bytes) \in Nat /\ rbuffer.size \in Nat
         /\ \A n \in Name : Image(n) \in Nat /\ Image(n) >= 1
         /\ \A i \in 1 .. Len(wqueue) : wqueue[i] \in Queued
         /\ \A i \in 1 .. Len(stream) : stream[i] \in Byte
         /\ \A base : Layout(base) => \A n \in 1 .. Len(written) + 1 : base[n] \in Nat
<1>1. TypeOK
  BY DEF IInv
<1>. QED
  BY <1>1, LenProperties, ImageSize, ElementOfSeq DEF TypeOK, Layout

\* write() gives the new command the place after all the others.
LEMMA WriteKeeps ==
  ASSUME IInv, NEW c \in Command, Write(c)
  PROVE  PlacedInv'
<1> DEFINE entry == [cmd |-> Len(written) + 1, sent |-> 0]
<1>1. /\ written' = Append(written, c) /\ wqueue' = Append(wqueue, entry)
      /\ wpc = "idle" /\ wpc' # "closed"
      /\ stream' = stream /\ rbuffer' = rbuffer /\ rpc' = rpc /\ delivered' = delivered
  BY DEF Write, readerVars
<1>2. /\ written \in Seq(Command) /\ wqueue \in Seq(Queued)
      /\ Len(written) \in Nat /\ Len(wqueue) \in Nat
  BY Lengths DEF IInv, TypeOK
<1>3. /\ Len(written') = Len(written) + 1
      /\ \A n \in Name : written'[n] = written[n]
      /\ written'[Len(written) + 1] = c
  BY <1>1, <1>2, AppendProperties DEF Name
<1>4. /\ Len(wqueue') = Len(wqueue) + 1
      /\ \A i \in 1 .. Len(wqueue) : wqueue'[i] = wqueue[i]
      /\ wqueue'[Len(wqueue) + 1] = entry
  <2>1. entry \in Queued
    BY <1>2 DEF Queued
  <2>. HIDE DEF entry
  <2>. QED
    BY <1>1, <1>2, <2>1, AppendProperties
<1>5. /\ Name' = Name \union {Len(written) + 1}
      /\ \A n \in Name : Image(n)' = Image(n)
      /\ \A n \in Name : Bytes(n, 0)' = Bytes(n, 0)
  BY <1>2, <1>3 DEF Name, Image, Bytes
<1>6. /\ \A n : n = Len(written) + 1 => Image(n)' = HeadSize + SizeOf[c]
      /\ HeadSize + SizeOf[c] \in Nat \ {0}
  BY <1>3, ClientIOAssumption DEF Image
<1>7. Len(delivered') <= Len(written')
  BY <1>1, <1>2, <1>3, Lengths DEF IInv
<1>8. InOrder'
  BY <1>1, <1>5 DEF InOrder, IInv
<1>9. OnlyHeadIsPartial'
  <2> SUFFICES ASSUME NEW i \in 1 .. Len(wqueue')
               PROVE  (/\ wqueue[i].sent > 0 => i = 1
                       /\ wqueue[i].sent < Image(wqueue[i].cmd))'
    BY DEF OnlyHeadIsPartial
  <2>1. CASE i \in 1 .. Len(wqueue)
    <3>1. wqueue[i].cmd \in Name
      BY <1>1, <1>2, <2>1 DEF IInv, QueueInv, Name
    <3>2. Image(wqueue[i].cmd)' = Image(wqueue[i].cmd)
      BY <1>3, <1>4, <2>1, <3>1 DEF Image
    <3>. QED
      BY <1>4, <2>1, <3>2 DEF IInv, OnlyHeadIsPartial
  <2>2. CASE i = Len(wqueue) + 1
    <3>1. wqueue'[i] = entry
      BY <1>4, <2>2
    <3>2. Image(wqueue[i].cmd)' = HeadSize + SizeOf[c]
      BY <1>3, <3>1 DEF Image
    <3>. QED
      BY <1>6, <3>1, <3>2
  <2>. QED
    BY <1>2, <1>4, <2>1, <2>2
<1>10. BufferInv'
  BY <1>1, <1>5 DEF BufferInv, IInv
<1>11. QueueInv'
  <2>1. Len(wqueue) <= Len(written)
    BY <1>1 DEF IInv, QueueInv
  <2>2. ASSUME NEW i \in 1 .. Len(wqueue')
        PROVE  wqueue'[i].cmd = Len(written') - Len(wqueue') + i
    <3>1. CASE i \in 1 .. Len(wqueue)
      BY <1>1, <1>2, <1>3, <1>4, <3>1 DEF IInv, QueueInv
    <3>2. CASE i = Len(wqueue) + 1
      BY <1>2, <1>3, <1>4, <3>2
    <3>. QED
      BY <1>2, <1>4, <3>1, <3>2
  <2>. QED
    BY <1>2, <1>3, <1>4, <2>1, <2>2 DEF QueueInv
<1>12. PlacesInv'
  <2>1. PICK base : Layout(base) /\ StreamInv(base)
    BY DEF IInv, PlacesInv
  <2>2. PICK last \in Nat : last = Len(written)
    BY <1>2
  <2>3. PICK nb : nb = [n \in 1 .. last + 2 |->
                          IF n = last + 2 THEN base[last + 1] + HeadSize + SizeOf[c]
                                          ELSE base[n]]
    OBVIOUS
  <2>4. /\ \A n \in 1 .. last + 1 : nb[n] = base[n] /\ base[n] \in Nat
        /\ nb[last + 2] = base[last + 1] + (HeadSize + SizeOf[c])
        /\ nb \in [1 .. last + 2 -> Nat]
    <3>1. /\ \A n \in 1 .. last + 1 : base[n] \in Nat
          /\ HeadSize \in Nat /\ SizeOf[c] \in Nat
      BY <2>1, <2>2, ClientIOAssumption DEF Layout
    <3>2. last + 1 \in 1 .. last + 1 /\ last + 2 \in 1 .. last + 2
      OBVIOUS
    <3>3. \A n \in 1 .. last + 2 : n # last + 2 => n \in 1 .. last + 1
      OBVIOUS
    <3>4. \A n \in 1 .. last + 1 : n \in 1 .. last + 2 /\ n # last + 2
      OBVIOUS
    <3>. QED
      BY <2>3, <3>1, <3>2, <3>3, <3>4
  <2>5. Layout(nb)'
    <3>1. nb \in [1 .. Len(written') + 1 -> Nat]
      BY <1>3, <2>2, <2>4
    <3>2. ASSUME NEW n \in Name'
          PROVE  nb[n + 1] = nb[n] + Image(n)'
      <4>1. CASE n \in Name
        BY <1>5, <2>1, <2>2, <2>4, <4>1 DEF Layout, Name
      <4>2. CASE n = last + 1
        <5>1. Image(n)' = HeadSize + SizeOf[c] /\ n + 1 = last + 2
          BY <1>6, <2>2, <4>2
        <5>. QED
          BY <2>4, <4>2, <5>1
      <4>. QED
        BY <1>5, <2>2, <4>1, <4>2
    <3>3. ASSUME NEW n \in Name', NEW m \in 1 .. Len(written') + 1, n < m
          PROVE  nb[n] + Image(n)' <= nb[m]
      <4>0. /\ m \in 1 .. last + 1 \/ m = last + 2
            /\ last + 1 \in 1 .. last + 1
        BY <1>3, <2>2
      <4>1. CASE n \in Name /\ m \in 1 .. last + 1
        BY <1>5, <2>1, <2>2, <2>4, <3>3, <4>1 DEF Layout, Name
      <4>2. CASE n \in Name /\ m = last + 2
        <5>1. base[n] + Image(n) <= base[last + 1]
          BY <2>1, <2>2, <4>2 DEF Layout, Name
        <5>2. Image(n) \in Nat /\ n \in 1 .. last + 1
          BY <2>2, <4>2, Lengths DEF Name
        <5>. QED
          BY <1>5, <1>6, <2>4, <4>0, <4>2, <5>1, <5>2
      <4>3. CASE n = last + 1
        <5>1. Image(n)' = HeadSize + SizeOf[c] /\ m = last + 2
          BY <1>6, <2>2, <3>3, <4>0, <4>3
        <5>. QED
          BY <1>6, <2>4, <4>0, <4>3, <5>1
      <4>. QED
        BY <1>5, <2>2, <4>0, <4>1, <4>2, <4>3
    <3>. QED
      BY <3>1, <3>2, <3>3 DEF Layout
  <2>6. Position(nb)' = Position(base)
    <3>1. Len(delivered) + 1 \in 1 .. last + 1
      BY <1>2, <2>2, Lengths DEF IInv
    <3>. QED
      BY <1>1, <2>4, <3>1 DEF Position
  <2>7. ASSUME NEW j \in 1 .. Len(stream')
        PROVE  At(nb, stream[j], Position(nb) + j)'
    <3>1. At(base, stream[j], Position(base) + j)
      BY <1>1, <2>1 DEF StreamInv
    <3>2. stream[j][1] \in Name /\ stream[j][1] \in 1 .. last + 1
      BY <1>2, <2>2, <3>1 DEF At, Name
    <3>3. PICK owner : owner = stream[j][1]
      OBVIOUS
    <3>4. Image(owner)' = Image(owner) /\ owner \in Name' /\ nb[owner] = base[owner]
      BY <1>5, <2>4, <3>2, <3>3
    <3>5. /\ stream'[j][1] = owner /\ stream'[j][2] \in 1 .. Image(owner)
          /\ base[owner] + stream'[j][2] = Position(base) + j
      BY <1>1, <3>1, <3>3 DEF At
    <3>. QED
      BY <2>6, <3>3, <3>4, <3>5 DEF At, Image
  <2>8. rpc' # "closed" =>
          Position(nb)' + Len(stream')
            = nb[Len(written') - Len(wqueue') + 1]
                + (IF wqueue' = <<>> THEN 0 ELSE wqueue'[1].sent)
    <3>1. /\ Len(wqueue) <= Len(written)
          /\ Len(written') - Len(wqueue') + 1 = Len(written) - Len(wqueue) + 1
      BY <1>1, <1>2, <1>3, <1>4 DEF IInv, QueueInv
    <3>2. /\ Len(written) - Len(wqueue) + 1 \in 1 .. last + 1
          /\ wqueue' # <<>>
      BY <1>2, <1>4, <2>2, <3>1, EmptySeq
    <3>3. wqueue'[1].sent = IF wqueue = <<>> THEN 0 ELSE wqueue[1].sent
      BY <1>2, <1>4, EmptySeq
    <3>. QED
      BY <1>1, <2>1, <2>4, <2>6, <3>1, <3>2, <3>3 DEF StreamInv
  <2>. QED
    BY <2>5, <2>7, <2>8 DEF PlacesInv, StreamInv
<1>. QED
  BY <1>7, <1>8, <1>9, <1>10, <1>11, <1>12 DEF PlacedInv

\* send(2) gives the next bytes of the first command their places after the last
\* byte under way; a command that is full makes room for one of which nothing is sent.
LEMMA SendKeeps ==
  ASSUME IInv, Send
  PROVE  PlacedInv'
<1> DEFINE h == Head(wqueue)
           first == Len(written) - Len(wqueue) + 1
<1>1. /\ wpc = "flush" /\ wqueue # <<>> /\ rpc # "closed"
      /\ written' = written /\ wpc' = wpc /\ rbuffer' = rbuffer /\ rpc' = rpc
      /\ delivered' = delivered
  BY DEF Send, readerVars
<1>2. /\ Len(written) \in Nat /\ Len(stream) \in Nat /\ Len(wqueue) \in Nat \ {0}
      /\ wqueue \in Seq(Queued) /\ stream \in Seq(Byte)
      /\ h = wqueue[1] /\ h \in Queued
      /\ Len(rbuffer.bytes) \in Nat /\ Len(delivered) \in Nat
  BY <1>1, Lengths, EmptySeq DEF IInv, TypeOK
<1>3. /\ Len(wqueue) <= Len(written) /\ h.cmd = first /\ first \in Name
      /\ \A i \in 1 .. Len(wqueue) : wqueue[i].cmd = Len(written) - Len(wqueue) + i
  BY <1>1, <1>2 DEF IInv, QueueInv, Name
<1>4. /\ h.sent \in Nat /\ h.cmd \in Nat /\ h.sent < Image(h.cmd)
      /\ Image(h.cmd) \in Nat /\ Room \in Nat
  <2>1. 1 \in 1 .. Len(wqueue)
    BY <1>2
  <2>2. h.sent < Image(h.cmd)
    BY <1>2, <2>1 DEF IInv, OnlyHeadIsPartial
  <2>3. Image(h.cmd) \in Nat
    BY <1>3, Lengths
  <2>. QED
    BY <1>2, <2>2, <2>3, ClientIOAssumption DEF Queued
<1>5. PICK n \in 1 .. Least(Image(h.cmd) - h.sent, Room - Len(stream)) :
        /\ stream' = stream \o [k \in 1 .. n |-> <<h.cmd, h.sent + k>>]
        /\ wqueue' = IF h.sent + n = Image(h.cmd)
                     THEN Tail(wqueue)
                     ELSE [wqueue EXCEPT ![1].sent = @ + n]
  BY DEF Send
<1>6. n \in Nat \ {0} /\ h.sent + n <= Image(h.cmd)
  <2>1. n <= Image(h.cmd) - h.sent /\ n \in Nat \ {0}
    BY <1>2, <1>4, LeastBounds
  <2>. QED
    BY <1>4, <2>1
<1>7. /\ Len(stream') = Len(stream) + n
      /\ \A j \in 1 .. Len(stream) + n :
           stream'[j] = IF j <= Len(stream) THEN stream[j]
                                           ELSE <<h.cmd, h.sent + (j - Len(stream))>>
  <2>1. PICK s : s = [k \in 1 .. n |-> <<h.cmd, h.sent + k>>]
    OBVIOUS
  <2>2. s \in Seq(Byte) /\ Len(s) = n
    BY <1>2, <1>6, <2>1, SentBytes
  <2>3. stream' = stream \o s
    BY <1>5, <2>1
  <2>4. /\ Len(stream') = Len(stream) + n
        /\ \A j \in 1 .. Len(stream) + n :
             stream'[j] = IF j <= Len(stream) THEN stream[j] ELSE s[j - Len(stream)]
    BY <1>2, <2>2, <2>3, ConcatProperties
  <2>5. \A j \in 1 .. Len(stream) + n :
          ~(j <= Len(stream)) => s[j - Len(stream)] = <<h.cmd, h.sent + (j - Len(stream))>>
    <3>1. \A j \in 1 .. Len(stream) + n : ~(j <= Len(stream)) => j - Len(stream) \in 1 .. n
      BY <1>2, <1>6
    <3>. QED
      BY <2>1, <3>1
  <2>. QED
    BY <2>4, <2>5
<1>8. ASSUME h.sent + n = Image(h.cmd)
      PROVE  /\ OnlyHeadIsPartial' /\ QueueInv'
             /\ \A base : Layout(base) =>
                  base[Len(written') - Len(wqueue') + 1]
                     + (IF wqueue' = <<>> THEN 0 ELSE wqueue'[1].sent)
                   = base[first] + h.sent + n
  <2>1. /\ Len(wqueue') = Len(wqueue) - 1
        /\ \A i \in 1 .. Len(wqueue) - 1 : wqueue'[i] = wqueue[i + 1]
    BY <1>1, <1>2, <1>5, <1>8, HeadTailProperties
  <2>2. ASSUME NEW i \in 1 .. Len(wqueue')
        PROVE  /\ wqueue'[i] = wqueue[i + 1] /\ i + 1 \in 1 .. Len(wqueue)
               /\ wqueue'[i] \in Queued /\ wqueue'[i].sent = 0
    <3>1. wqueue'[i] = wqueue[i + 1] /\ i + 1 \in 1 .. Len(wqueue) /\ i + 1 # 1
      BY <1>2, <2>1
    <3>2. wqueue[i + 1] \in Queued /\ ~(wqueue[i + 1].sent > 0)
      BY <3>1, Lengths DEF IInv, OnlyHeadIsPartial
    <3>. QED
      BY <3>1, <3>2 DEF Queued
  <2>3. OnlyHeadIsPartial'
    <3> SUFFICES ASSUME NEW i \in 1 .. Len(wqueue')
                 PROVE  (/\ wqueue[i].sent > 0 => i = 1
                         /\ wqueue[i].sent < Image(wqueue[i].cmd))'
      BY DEF OnlyHeadIsPartial
    <3>1. wqueue[i + 1].sent < Image(wqueue[i + 1].cmd)
      BY <2>2 DEF IInv, OnlyHeadIsPartial
    <3>. QED
      BY <1>1, <2>2, <3>1 DEF Image
  <2>4. QueueInv'
    <3>1. ASSUME NEW i \in 1 .. Len(wqueue')
          PROVE  wqueue'[i].cmd = Len(written') - Len(wqueue') + i
      <4>1. wqueue'[i].cmd = Len(written) - Len(wqueue) + (i + 1)
        BY <1>3, <2>2
      <4>. QED
        BY <1>1, <1>2, <2>1, <4>1
    <3>. QED
      BY <1>1, <1>2, <1>3, <2>1, <3>1 DEF QueueInv
  <2>5. ASSUME NEW base, Layout(base)
        PROVE  base[Len(written') - Len(wqueue') + 1]
                  + (IF wqueue' = <<>> THEN 0 ELSE wqueue'[1].sent)
                = base[first] + h.sent + n
    <3>1. Len(written') - Len(wqueue') + 1 = first + 1
      BY <1>1, <1>2, <2>1
    <3>2. base[first + 1] = base[first] + Image(first)
      BY <1>3, <2>5 DEF Layout
    <3>3. /\ base[first] \in Nat /\ base[first + 1] \in Nat
      <4>. HIDE DEF first
      <4>1. first \in 1 .. Len(written) + 1 /\ first + 1 \in 1 .. Len(written) + 1
        BY <1>2, <1>3 DEF Name
      <4>. QED
        BY <2>5, <4>1, Lengths
    <3>4. wqueue' # <<>> => wqueue'[1].sent = 0
      <4>1. wqueue' \in Seq(Queued)
        BY <1>1, <1>2, <1>5, <1>8, HeadTailProperties
      <4>. QED
        BY <2>2, <4>1, EmptySeq
    <3>5. base[first + 1] = base[first] + h.sent + n
      <4>. HIDE DEF first, h
      <4>. QED
        BY <1>3, <1>4, <1>6, <1>8, <3>2, <3>3
    <3>6. base[first + 1] + 0 = base[first + 1]
      BY <3>3
    <3>. QED
      <4>. HIDE DEF first, h
      <4>. QED
        BY <3>1, <3>4, <3>5, <3>6
  <2>. QED
    BY <2>3, <2>4, <2>5
<1>9. ASSUME h.sent + n # Image(h.cmd)
      PROVE  /\ OnlyHeadIsPartial' /\ QueueInv'
             /\ \A base : Layout(base) =>
                  base[Len(written') - Len(wqueue') + 1]
                     + (IF wqueue' = <<>> THEN 0 ELSE wqueue'[1].sent)
                   = base[first] + h.sent + n
  <2>1. /\ Len(wqueue') = Len(wqueue)
        /\ \A i \in 1 .. Len(wqueue) : i # 1 => wqueue'[i] = wqueue[i]
        /\ wqueue'[1].cmd = h.cmd /\ wqueue'[1].sent = h.sent + n
        /\ wqueue' # <<>>
    <3>1. PICK e : e = [wqueue[1] EXCEPT !.sent = @ + n]
      OBVIOUS
    <3>2. e \in Queued /\ e.cmd = h.cmd /\ e.sent = h.sent + n
      <4>1. wqueue[1] \in Queued /\ wqueue[1] = h /\ n \in Nat
        BY <1>2, <1>6
      <4>2. e = [cmd |-> wqueue[1].cmd, sent |-> wqueue[1].sent + n]
        BY <3>1, <4>1 DEF Queued
      <4>3. wqueue[1].cmd \in Nat \ {0} /\ wqueue[1].sent + n \in Nat
        BY <4>1 DEF Queued
      <4>4. e \in Queued /\ e.cmd = wqueue[1].cmd /\ e.sent = wqueue[1].sent + n
        BY <4>2, <4>3 DEF Queued
      <4>. QED
        BY <4>1, <4>4
    <3>3. wqueue' = [wqueue EXCEPT ![1] = e] /\ 1 \in 1 .. Len(wqueue)
      BY <1>2, <1>5, <1>9, <3>1
    <3>4. /\ Len(wqueue') = Len(wqueue)
          /\ \A i \in 1 .. Len(wqueue) : wqueue'[i] = IF i = 1 THEN e ELSE wqueue[i]
      BY <1>2, <3>2, <3>3, ExceptSeq
    <3>5. wqueue' # <<>>
      BY <1>2, <3>4, EmptySeq
    <3>. QED
      BY <3>2, <3>3, <3>4, <3>5
  <2>2. OnlyHeadIsPartial'
    <3> SUFFICES ASSUME NEW i \in 1 .. Len(wqueue')
                 PROVE  (/\ wqueue[i].sent > 0 => i = 1
                         /\ wqueue[i].sent < Image(wqueue[i].cmd))'
      BY DEF OnlyHeadIsPartial
    <3>1. CASE i = 1
      <4>1. h.sent + n < Image(h.cmd)
        BY <1>4, <1>6, <1>9
      <4>2. Image(wqueue[i].cmd)' = Image(h.cmd)
        BY <1>1, <2>1, <3>1 DEF Image
      <4>. QED
        BY <2>1, <3>1, <4>1, <4>2
    <3>2. CASE i # 1
      <4>1. i \in 1 .. Len(wqueue) /\ wqueue'[i] = wqueue[i]
        BY <2>1, <3>2
      <4>. QED
        BY <1>1, <4>1 DEF Image, IInv, OnlyHeadIsPartial
    <3>. QED
      BY <3>1, <3>2
  <2>3. QueueInv'
    <3>1. ASSUME NEW i \in 1 .. Len(wqueue')
          PROVE  wqueue'[i].cmd = Len(written') - Len(wqueue') + i
      <4>1. wqueue'[i].cmd = wqueue[i].cmd /\ i \in 1 .. Len(wqueue)
        BY <1>2, <2>1
      <4>. QED
        BY <1>1, <1>3, <2>1, <4>1
    <3>. QED
      BY <1>1, <1>3, <2>1, <3>1 DEF QueueInv
  <2>4. ASSUME NEW base, Layout(base)
        PROVE  base[Len(written') - Len(wqueue') + 1]
                  + (IF wqueue' = <<>> THEN 0 ELSE wqueue'[1].sent)
                = base[first] + h.sent + n
    <3>1. base[first] \in Nat
      <4>. HIDE DEF first
      <4>1. first \in 1 .. Len(written) + 1
        BY <1>2, <1>3 DEF Name
      <4>. QED
        BY <2>4, <4>1, Lengths
    <3>2. Len(written') - Len(wqueue') + 1 = first
      BY <1>1, <2>1
    <3>3. (IF wqueue' = <<>> THEN 0 ELSE wqueue'[1].sent) = h.sent + n
      BY <2>1
    <3>. QED
      <4>. HIDE DEF first, h
      <4>. QED
        BY <1>4, <1>6, <3>1, <3>2, <3>3
  <2>. QED
    BY <2>2, <2>3, <2>4
<1>10. PlacesInv'
  <2>1. PICK base : Layout(base) /\ StreamInv(base)
    BY DEF IInv, PlacesInv
  <2>2. /\ Layout(base)' /\ Position(base)' = Position(base)
        /\ \A b, p : At(base, b, p)' <=> At(base, b, p)
    BY <1>1, <2>1, SamePlaces DEF Position
  <2>3. base[first] \in Nat /\ Position(base) + Len(stream) = base[first] + h.sent
        /\ Position(base) \in Nat
    <3>1. /\ first \in 1 .. Len(written) + 1
          /\ Len(delivered) + 1 \in 1 .. Len(written) + 1
      BY <1>2, <1>3 DEF Name, IInv
    <3>2. base[first] \in Nat /\ base[Len(delivered) + 1] \in Nat
      BY <2>1, <3>1, Lengths
    <3>3. Position(base) \in Nat
      <4>1. Len(rbuffer.bytes) \in Nat
        BY <1>2
      <4>. QED
        BY <3>2, <4>1 DEF Position
    <3>4. Position(base) + Len(stream)
            = base[Len(written) - Len(wqueue) + 1]
                + (IF wqueue = <<>> THEN 0 ELSE wqueue[1].sent)
      BY <1>1, <2>1 DEF StreamInv
    <3>5. (IF wqueue = <<>> THEN 0 ELSE wqueue[1].sent) = h.sent
      BY <1>1, <1>2
    <3>. QED
      BY <3>2, <3>3, <3>4, <3>5
  <2>4. ASSUME NEW j \in 1 .. Len(stream')
        PROVE  At(base, stream[j], Position(base) + j)'
    <3>1. CASE j <= Len(stream)
      <4>1. stream'[j] = stream[j] /\ At(base, stream[j], Position(base) + j)
        BY <1>2, <1>6, <1>7, <2>1, <3>1 DEF StreamInv
      <4>2. At(base, stream'[j], Position(base) + j)
        BY <4>1
      <4>. QED
        BY <1>1, <2>2, <4>2 DEF At, Name, Image
    <3>2. CASE ~(j <= Len(stream))
      <4>1. PICK k : k = j - Len(stream)
        OBVIOUS
      <4>2. stream'[j] = <<h.cmd, h.sent + k>> /\ k \in 1 .. n
        BY <1>2, <1>6, <1>7, <3>2, <4>1
      <4>3. h.sent + k \in 1 .. Image(h.cmd)
        BY <1>4, <1>6, <4>2
      <4>4. base[h.cmd] + (h.sent + k) = Position(base) + j
        <5>. HIDE DEF first, h
        <5>1. j = Len(stream) + k /\ k \in Nat
          BY <1>2, <1>6, <1>7, <4>1, <4>2
        <5>2. base[h.cmd] = base[first]
          BY <1>3
        <5>3. base[h.cmd] + h.sent = Position(base) + Len(stream) /\ base[h.cmd] \in Nat
          BY <2>3, <5>2
        <5>4. PICK at \in Nat : at = base[h.cmd]
          BY <5>3
        <5>5. PICK done \in Nat : done = h.sent
          BY <1>4
        <5>6. PICK pos \in Nat : pos = Position(base)
          BY <2>3
        <5>7. PICK len \in Nat : len = Len(stream)
          BY <1>2
        <5>8. at + done = pos + len
          BY <5>3, <5>4, <5>5, <5>6, <5>7
        <5>9. at + (done + k) = pos + (len + k)
          BY <5>1, <5>8
        <5>. QED
          BY <5>1, <5>4, <5>5, <5>6, <5>7, <5>9
      <4>5. At(base, stream'[j], Position(base) + j)
        BY <1>3, <4>2, <4>3, <4>4 DEF At
      <4>. QED
        BY <1>1, <2>2, <4>5 DEF At, Name, Image
    <3>. QED
      BY <3>1, <3>2
  <2>5. Position(base) + Len(stream')
          = base[Len(written') - Len(wqueue') + 1]
              + (IF wqueue' = <<>> THEN 0 ELSE wqueue'[1].sent)
    <3>1. Position(base) + (Len(stream) + n) = base[first] + h.sent + n
      <4>. HIDE DEF first, h
      <4>. QED
        BY <1>2, <1>4, <1>6, <2>3
    <3>. QED
      BY <1>7, <1>8, <1>9, <2>1, <3>1
  <2>. QED
    BY <2>2, <2>4, <2>5 DEF PlacesInv, StreamInv
<1>11. Len(delivered') <= Len(written') /\ InOrder' /\ BufferInv'
  BY <1>1, SamePlaces DEF IInv, InOrder, BufferInv
<1>. QED
  BY <1>8, <1>9, <1>10, <1>11 DEF PlacedInv

\* A read() that begins a command waits for as many bytes as the command has.
LEMMA PeekKeeps ==
  ASSUME IInv, PeekHead
  PROVE  PlacedInv'
<1>1. /\ written' = written /\ wqueue' = wqueue /\ wpc' = wpc /\ stream' = stream
      /\ delivered' = delivered /\ rpc = "idle" /\ rpc' = "recv" /\ rbuffer = NoBuffer
  BY DEF PeekHead, writerVars
<1>2. /\ Len(delivered) + 1 \in Name
      /\ HeadDecodes = {SizeOf[written[Len(delivered) + 1]]}
  BY HeadIsNext DEF PeekHead
<1>3. rbuffer' = [size |-> Image(Len(delivered) + 1), bytes |-> <<>>]
  BY <1>2 DEF PeekHead, Image
<1>4. rbuffer'.bytes = <<>> /\ rbuffer.bytes = <<>> /\ Len(<<>>) = 0
  BY <1>1, <1>3, EmptySeq DEF NoBuffer
<1>5. BufferInv'
  <2>1. Image(Len(delivered) + 1) >= 1 /\ Image(Len(delivered) + 1) \in Nat
    BY <1>2, Lengths
  <2>2. Image(Len(delivered) + 1)' = Image(Len(delivered) + 1)
    BY <1>1 DEF Image
  <2>. QED
    BY <1>1, <1>2, <1>3, <1>4, <2>1, <2>2, SamePlaces DEF BufferInv
<1>6. PlacesInv'
  <2>1. PICK base : Layout(base) /\ StreamInv(base)
    BY DEF IInv, PlacesInv
  <2>2. /\ Layout(base)' /\ Position(base)' = Position(base)
        /\ \A b, p : At(base, b, p)' <=> At(base, b, p)
    BY <1>1, <1>4, <2>1, SamePlaces DEF Position
  <2>3. ASSUME NEW j \in 1 .. Len(stream')
        PROVE  At(base, stream[j], Position(base) + j)'
    BY <1>1, <2>1, <2>2 DEF StreamInv, At, Name, Image
  <2>. QED
    BY <1>1, <2>1, <2>2, <2>3 DEF PlacesInv, StreamInv
<1>7. OnlyHeadIsPartial' /\ QueueInv' /\ InOrder' /\ Len(delivered') <= Len(written')
  BY <1>1, SamePlaces DEF IInv, InOrder, OnlyHeadIsPartial, QueueInv, Image
<1>. QED
  BY <1>5, <1>6, <1>7 DEF PlacedInv

\* recv(2) continues the command that rbuffer has begun, and with no byte too many.
LEMMA RecvContinues ==
  ASSUME IInv, rpc = "recv",
         NEW n \in 1 .. Least(rbuffer.size - Len(rbuffer.bytes), Len(stream))
  PROVE  LET m     == Len(delivered) + 1
             bytes == rbuffer.bytes \o SubSeq(stream, 1, n)
         IN  /\ n \in 1 .. Len(stream)
             /\ m \in Name /\ rbuffer.size = Image(m)
             /\ bytes \in Seq(Byte)
             /\ Len(bytes) = Len(rbuffer.bytes) + n /\ Len(bytes) <= Image(m)
             /\ \A k \in 1 .. Len(bytes) : bytes[k] = <<m, k>>
<1> DEFINE m == Len(delivered) + 1
           bytes == rbuffer.bytes \o SubSeq(stream, 1, n)
<1>1. /\ Len(stream) \in Nat /\ Len(rbuffer.bytes) \in Nat /\ rbuffer.size \in Nat
      /\ Len(delivered) \in Nat /\ Len(written) \in Nat
  BY Lengths
<1>2. n \in 1 .. Len(stream) /\ n <= rbuffer.size - Len(rbuffer.bytes)
  <2>1. n \in Nat \ {0} /\ n <= rbuffer.size - Len(rbuffer.bytes) /\ n <= Len(stream)
    BY <1>1, LeastBounds
  <2>. QED
    BY <1>1, <2>1
<1>3. /\ m \in Name /\ rbuffer.size = Image(m)
      /\ \A k \in 1 .. Len(rbuffer.bytes) : rbuffer.bytes[k] = <<m, k>>
  BY DEF IInv, TypeOK, BufferInv
<1>4. /\ bytes \in Seq(Byte) /\ Len(bytes) = Len(rbuffer.bytes) + n
      /\ \A i \in 1 .. Len(rbuffer.bytes) + n :
           bytes[i] = IF i <= Len(rbuffer.bytes) THEN rbuffer.bytes[i]
                                                ELSE stream[i - Len(rbuffer.bytes)]
  BY <1>2, RecvBytes DEF IInv
<1>5. PICK base : Layout(base) /\ StreamInv(base)
  BY DEF IInv, PlacesInv
<1>6. ASSUME NEW k \in 1 .. Len(bytes)
      PROVE  bytes[k] = <<m, k>>
  <2>. HIDE DEF bytes, m
  <2>1. CASE k <= Len(rbuffer.bytes)
    <3>1. k \in 1 .. Len(rbuffer.bytes) /\ k \in 1 .. Len(rbuffer.bytes) + n
      BY <1>1, <1>4, <2>1
    <3>2. bytes[k] = rbuffer.bytes[k]
      BY <1>4, <2>1, <3>1
    <3>. QED
      BY <1>3, <3>1, <3>2
  <2>2. CASE ~(k <= Len(rbuffer.bytes))
    <3>1. PICK i : i = k - Len(rbuffer.bytes)
      OBVIOUS
    <3>2. /\ i \in 1 .. Len(stream) /\ bytes[k] = stream[i]
          /\ k = Len(rbuffer.bytes) + i
      <4>1. k \in 1 .. Len(rbuffer.bytes) + n
        BY <1>4
      <4>2. bytes[k] = stream[i]
        BY <1>4, <2>2, <3>1, <4>1
      <4>3. n \in Nat /\ n <= Len(stream) /\ Len(rbuffer.bytes) \in Nat /\ Len(stream) \in Nat
        BY <1>1, <1>2
      <4>4. k = Len(rbuffer.bytes) + i /\ i \in 1 .. n
        BY <2>2, <3>1, <4>1, <4>3
      <4>. QED
        BY <4>2, <4>3, <4>4
    <3>3. k \in 1 .. Image(m)
      BY <1>1, <1>2, <1>3, <1>4
    <3>4. At(base, stream[i], Position(base) + i)
      BY <1>5, <3>2 DEF StreamInv
    <3>5. Position(base) + i = base[m] + k
      <4>1. m \in 1 .. Len(written) + 1
        BY <1>1, <1>3 DEF Name
      <4>2. base[m] \in Nat /\ Position(base) = base[m] + Len(rbuffer.bytes)
        BY <1>5, <4>1, Lengths DEF Position, m
      <4>. QED
        BY <1>1, <3>2, <4>2
    <3>6. stream[i] \in Byte
      BY <3>2, Lengths
    <3>. QED
      BY <1>3, <1>5, <3>2, <3>3, <3>4, <3>5, <3>6, OneOwner DEF IInv
  <2>. QED
    BY <2>1, <2>2
<1>7. Len(bytes) <= Image(m)
  BY <1>1, <1>2, <1>3, <1>4
<1>. QED
  BY <1>2, <1>3, <1>4, <1>6, <1>7

\* recv(2) moves the reader on by the bytes it takes.
LEMMA RecvKeeps ==
  ASSUME IInv, Recv
  PROVE  PlacedInv'
<1> DEFINE m == Len(delivered) + 1
<1>1. /\ written' = written /\ wqueue' = wqueue /\ wpc' = wpc /\ rpc = "recv"
  BY DEF Recv, writerVars
<1>2. PICK n \in 1 .. Least(rbuffer.size - Len(rbuffer.bytes), Len(stream)) :
        LET bytes == rbuffer.bytes \o SubSeq(stream, 1, n)
            full  == Len(bytes) = rbuffer.size
        IN  /\ stream' = SubSeq(stream, n + 1, Len(stream))
            /\ rbuffer' = IF full THEN NoBuffer ELSE [rbuffer EXCEPT !.bytes = bytes]
            /\ rpc' = IF full THEN "idle" ELSE "recv"
            /\ delivered' = IF full THEN Append(delivered, bytes) ELSE delivered
  BY DEF Recv
<1>3. PICK bytes : bytes = rbuffer.bytes \o SubSeq(stream, 1, n)
  OBVIOUS
<1>4. /\ n \in 1 .. Len(stream)
      /\ m \in Name /\ rbuffer.size = Image(m)
      /\ bytes \in Seq(Byte)
      /\ Len(bytes) = Len(rbuffer.bytes) + n /\ Len(bytes) <= Image(m)
      /\ \A k \in 1 .. Len(bytes) : bytes[k] = <<m, k>>
  BY <1>1, <1>3, RecvContinues
<1>5. /\ Len(stream) \in Nat /\ Len(rbuffer.bytes) \in Nat /\ Len(delivered) \in Nat
      /\ Len(written) \in Nat /\ Image(m) \in Nat /\ Image(m) >= 1
      /\ delivered \in Seq(Seq(Byte))
  BY <1>4, Lengths DEF IInv, TypeOK
<1>6. /\ Len(stream') = Len(stream) - n
      /\ \A i \in 1 .. Len(stream) - n : stream'[i] = stream[n + i]
  BY <1>2, <1>4, RecvBytes DEF IInv
<1>7. rpc' # "closed"
  BY <1>2
<1>8. OnlyHeadIsPartial' /\ QueueInv'
  BY <1>1, SamePlaces DEF IInv, OnlyHeadIsPartial, QueueInv, Image
<1>9. ASSUME Len(bytes) = Image(m)
      PROVE  /\ Len(delivered') <= Len(written') /\ InOrder' /\ BufferInv'
             /\ \A base : Layout(base) => Position(base)' = Position(base) + n
  <2>1. /\ rbuffer' = NoBuffer /\ delivered' = Append(delivered, bytes)
    BY <1>2, <1>3, <1>4, <1>9
  <2>2. /\ Len(delivered') = m
        /\ \A i \in 1 .. Len(delivered) : delivered'[i] = delivered[i]
        /\ delivered'[m] = bytes
    BY <1>4, <1>5, <2>1, AppendProperties
  <2>3. bytes = Bytes(m, 0)
    <3>1. Bytes(m, 0) = [k \in 1 .. Image(m) |-> <<m, k>>]
      <4>. HIDE DEF m
      <4>. QED
        BY <1>5 DEF Bytes
    <3>2. bytes \in [1 .. Image(m) -> Byte]
      BY <1>4, <1>9, LenProperties
    <3>. QED
      <4>. HIDE DEF m
      <4>. QED
        BY <1>4, <1>9, <3>1, <3>2
  <2>4. InOrder'
    <3> SUFFICES ASSUME NEW i \in 1 .. Len(delivered')
                 PROVE  i \in Name' /\ delivered'[i] = Bytes(i, 0)'
      BY DEF InOrder
    <3>1. Name' = Name /\ Bytes(i, 0)' = Bytes(i, 0)
      BY <1>1, SamePlaces
    <3>2. CASE i \in 1 .. Len(delivered)
      BY <2>2, <3>1, <3>2 DEF IInv, InOrder
    <3>3. CASE i = m
      BY <1>4, <2>2, <2>3, <3>1, <3>3
    <3>. QED
      BY <1>5, <2>2, <3>2, <3>3
  <2>5. BufferInv'
    BY <2>1 DEF BufferInv, NoBuffer
  <2>6. ASSUME NEW base, Layout(base)
        PROVE  Position(base)' = Position(base) + n
    <3>1. Position(base)' = base[m + 1] + 0
      BY <2>1, <2>2, EmptySeq DEF Position, NoBuffer
    <3>2. base[m + 1] = base[m] + Image(m) /\ base[m] \in Nat
      <4>1. m \in 1 .. Len(written) + 1
        BY <1>4, <1>5 DEF Name
      <4>. QED
        BY <1>4, <2>6, <4>1, Lengths DEF Layout
    <3>3. Position(base) = base[m] + Len(rbuffer.bytes)
      BY DEF Position
    <3>4. Image(m) = Len(rbuffer.bytes) + n
      BY <1>4, <1>9
    <3>. QED
      <4>. HIDE DEF m
      <4>. QED
        BY <1>4, <1>5, <3>1, <3>2, <3>3, <3>4
  <2>7. Len(delivered') <= Len(written')
    BY <1>1, <1>4, <2>2 DEF Name
  <2>. QED
    BY <2>4, <2>5, <2>6, <2>7
<1>10. ASSUME Len(bytes) # Image(m)
       PROVE  /\ Len(delivered') <= Len(written') /\ InOrder' /\ BufferInv'
              /\ \A base : Layout(base) => Position(base)' = Position(base) + n
  <2>1. /\ rbuffer' = [rbuffer EXCEPT !.bytes = bytes] /\ delivered' = delivered
    BY <1>2, <1>3, <1>4, <1>10
  <2>2. rbuffer'.size = rbuffer.size /\ rbuffer'.bytes = bytes
    BY <2>1 DEF IInv, TypeOK
  <2>3. InOrder' /\ Len(delivered') <= Len(written')
    BY <1>1, <2>1, SamePlaces DEF IInv, InOrder
  <2>4. BufferInv'
    <3>1. Len(bytes) < Image(m)
      BY <1>4, <1>5, <1>10
    <3>2. Len(delivered') + 1 \in Name'
      BY <1>1, <1>4, <2>1, SamePlaces
    <3>3. Image(Len(delivered) + 1)' = Image(m)
      BY <1>1, <2>1 DEF Image
    <3>. QED
      BY <1>4, <2>1, <2>2, <3>1, <3>2, <3>3 DEF BufferInv
  <2>5. ASSUME NEW base, Layout(base)
        PROVE  Position(base)' = Position(base) + n
    <3>1. Position(base)' = base[m] + Len(bytes)
      BY <2>1, <2>2 DEF Position
    <3>2. base[m] \in Nat
      <4>1. m \in 1 .. Len(written) + 1
        BY <1>4, <1>5 DEF Name
      <4>. QED
        BY <2>5, <4>1, Lengths
    <3>3. Position(base) = base[m] + Len(rbuffer.bytes)
      BY DEF Position
    <3>. QED
      <4>. HIDE DEF m
      <4>. QED
        BY <1>4, <1>5, <3>1, <3>2, <3>3
  <2>. QED
    BY <2>3, <2>4, <2>5
<1>11. PlacesInv'
  <2>1. PICK base : Layout(base) /\ StreamInv(base)
    BY DEF IInv, PlacesInv
  <2>2. /\ Layout(base)' /\ Position(base)' = Position(base) + n
        /\ \A b, p : At(base, b, p)' <=> At(base, b, p)
    BY <1>1, <1>9, <1>10, <2>1, SamePlaces
  <2>3. Position(base) \in Nat
    <3>1. m \in 1 .. Len(written) + 1
      BY <1>4, <1>5 DEF Name
    <3>2. base[m] \in Nat
      BY <2>1, <3>1, Lengths
    <3>3. Len(rbuffer.bytes) \in Nat
      BY <1>5
    <3>. QED
      BY <3>2, <3>3 DEF Position
  <2>4. ASSUME NEW j \in 1 .. Len(stream')
        PROVE  At(base, stream[j], Position(base) + j)'
    <3>1. n + j \in 1 .. Len(stream) /\ stream'[j] = stream[n + j]
      <4>1. n \in 1 .. Len(stream) /\ Len(stream) \in Nat /\ j \in 1 .. Len(stream) - n
        BY <1>4, <1>5, <1>6
      <4>. QED
        BY <1>6, <4>1
    <3>2. At(base, stream[n + j], Position(base) + (n + j))
      BY <2>1, <3>1 DEF StreamInv
    <3>3. Position(base) + (n + j) = Position(base)' + j
      BY <1>4, <1>5, <1>6, <2>2, <2>3
    <3>4. At(base, stream'[j], Position(base)' + j)
      BY <3>1, <3>2, <3>3
    <3>. QED
      BY <1>1, <3>4 DEF At, Name, Image
  <2>5. Position(base)' + Len(stream') = Position(base) + Len(stream)
    BY <1>4, <1>5, <1>6, <2>2, <2>3
  <2>. QED
    BY <1>1, <2>1, <2>2, <2>4, <2>5 DEF PlacesInv, StreamInv
<1>. QED
  BY <1>8, <1>9, <1>10, <1>11 DEF PlacedInv

\* What neither writes, sends nor receives: the bytes and the queue stay, or are
\* thrown away by an end that closes.
LEMMA OthersKeep ==
  ASSUME IInv,
         \/ Writable \/ FlushReturns \/ Resume \/ ReadReturnsNull \/ Closed
         \/ UNCHANGED vars \/ WriterCloses \/ ReaderCloses
  PROVE  PlacedInv'
<1>1. /\ written' = written /\ delivered' = delivered
      /\ \/ stream' = stream
         \/ stream' = <<>> /\ rpc' = "closed"
      /\ \/ rbuffer' = rbuffer
         \/ rbuffer' = NoBuffer /\ stream' = <<>> /\ rpc' = "closed"
      /\ \/ wqueue' = wqueue
         \/ wqueue' = <<>> /\ wpc' = "closed"
      /\ wpc' # "closed" => wpc # "closed"
      /\ rpc' # "closed" => rpc # "closed"
  <2>1. CASE Writable \/ FlushReturns
    BY <2>1 DEF Writable, FlushReturns, readerVars
  <2>2. CASE Resume \/ ReadReturnsNull
    BY <2>2 DEF Resume, ReadReturnsNull, writerVars
  <2>3. CASE WriterCloses
    BY <2>3 DEF WriterCloses, readerVars
  <2>4. CASE ReaderCloses
    BY <2>4 DEF ReaderCloses, writerVars
  <2>5. CASE Closed \/ UNCHANGED vars
    BY <2>5 DEF Closed, vars, writerVars, readerVars
  <2>. QED
    BY <2>1, <2>2, <2>3, <2>4, <2>5
<1>2. Len(<<>>) = 0 /\ 1 .. 0 = {}
  BY EmptySeq
<1>3. InOrder' /\ Len(delivered') <= Len(written')
  BY <1>1, SamePlaces DEF IInv, InOrder
<1>4. OnlyHeadIsPartial'
  <2>1. CASE wqueue' = wqueue
    BY <1>1, <2>1, SamePlaces DEF IInv, OnlyHeadIsPartial, Image
  <2>2. CASE wqueue' = <<>>
    BY <1>2, <2>2 DEF OnlyHeadIsPartial
  <2>. QED
    BY <1>1, <2>1, <2>2
<1>5. QueueInv'
  BY <1>1 DEF IInv, QueueInv
<1>6. BufferInv'
  <2>1. CASE rbuffer' = rbuffer
    BY <1>1, <2>1, SamePlaces DEF IInv, BufferInv, Image
  <2>2. CASE rbuffer' = NoBuffer
    BY <2>2 DEF BufferInv
  <2>. QED
    BY <1>1, <2>1, <2>2
<1>7. PlacesInv'
  <2>1. PICK base : Layout(base) /\ StreamInv(base)
    BY DEF IInv, PlacesInv
  <2>2. Layout(base)' /\ \A b, p : At(base, b, p)' <=> At(base, b, p)
    BY <1>1, <2>1, SamePlaces
  <2>3. CASE stream' = <<>> /\ rpc' = "closed"
    BY <1>2, <2>2, <2>3 DEF PlacesInv, StreamInv
  <2>4. CASE stream' = stream /\ rbuffer' = rbuffer
    <3>1. Position(base)' = Position(base)
      BY <1>1, <2>4 DEF Position
    <3>2. ASSUME NEW j \in 1 .. Len(stream')
          PROVE  At(base, stream[j], Position(base) + j)'
      <4>1. At(base, stream[j], Position(base) + j)
        BY <2>1, <2>4 DEF StreamInv
      <4>. QED
        BY <1>1, <2>4, <3>1, <4>1 DEF At, Name, Image
    <3>. QED
      BY <1>1, <2>1, <2>2, <2>4, <3>1, <3>2 DEF PlacesInv, StreamInv
  <2>. QED
    BY <1>1, <2>3, <2>4
<1>. QED
  BY <1>3, <1>4, <1>5, <1>6, <1>7 DEF PlacedInv

\* Nothing is written at first: the next command has place 0.
LEMMA InitPlaced == Init => IInv
<1> SUFFICES ASSUME Init PROVE IInv
  OBVIOUS
<1>1. /\ written = <<>> /\ wqueue = <<>> /\ stream = <<>> /\ delivered = <<>>
      /\ wpc = "idle" /\ rpc = "idle" /\ rbuffer = NoBuffer /\ NoBuffer.bytes = <<>>
      /\ Len(<<>>) = 0 /\ 1 .. 0 = {}
  BY EmptySeq DEF Init, NoBuffer
<1>2. TypeOK
  BY <1>1, EmptySeq DEF TypeOK, NoBuffer
<1>3. PICK base : base = [n \in 1 .. 1 |-> 0]
  OBVIOUS
<1>4. base \in [1 .. Len(written) + 1 -> Nat] /\ base[1] = 0 /\ Name = {}
  BY <1>1, <1>3 DEF Name
<1>5. Layout(base)
  BY <1>4 DEF Layout
<1>6. Position(base) = 0
  <2>1. Len(delivered) + 1 = 1 /\ Len(rbuffer.bytes) = 0
    BY <1>1
  <2>. QED
    BY <1>4, <2>1 DEF Position
<1>7. StreamInv(base)
  <2>1. Len(written) - Len(wqueue) + 1 = 1 /\ Len(stream) = 0
    BY <1>1
  <2>. QED
    BY <1>1, <1>4, <1>6, <2>1 DEF StreamInv
<1>8. InOrder /\ OnlyHeadIsPartial /\ BufferInv /\ QueueInv /\ Len(delivered) <= Len(written)
  BY <1>1 DEF InOrder, OnlyHeadIsPartial, BufferInv, QueueInv
<1>. QED
  BY <1>2, <1>5, <1>7, <1>8 DEF IInv, PlacesInv

\* The invariant is inductive.
LEMMA InductiveInvariant == Spec => []IInv
<1>1. ASSUME IInv, [Next]_vars
      PROVE  IInv'
  <2>1. TypeOK'
    BY <1>1, TypeNext
  <2>2. PlacedInv'
    <3>1. ASSUME NEW c \in Command, Write(c) PROVE PlacedInv'
      BY <1>1, <3>1, WriteKeeps
    <3>2. CASE Send
      BY <1>1, <3>2, SendKeeps
    <3>3. CASE PeekHead
      BY <1>1, <3>3, PeekKeeps
    <3>4. CASE Recv
      BY <1>1, <3>4, RecvKeeps
    <3>5. CASE \/ Writable \/ FlushReturns \/ Resume \/ ReadReturnsNull \/ Closed
               \/ UNCHANGED vars \/ WriterCloses \/ ReaderCloses
      BY <1>1, <3>5, OthersKeep
    <3>. QED
      BY <1>1, <3>1, <3>2, <3>3, <3>4, <3>5 DEF Next, Flushing, Reading
  <2>. QED
    BY <2>1, <2>2 DEF IInv, PlacedInv
<1>. QED
  BY <1>1, InitPlaced, PTL DEF Spec

-----------------------------------------------------------------------------
(* Theorems.                                                               *)

\* Both ends' state has its type, and a recv(2) in progress has a buffer.
THEOREM ClientIOTypes == Spec => []TypeOK
<1>1. IInv => TypeOK
  BY DEF IInv
<1>. QED
  BY <1>1, InductiveInvariant, PTL

\* What read() returns is what was written, byte for byte and in its order, however
\* send(2) and recv(2) cut the stream (client.cc:87-93, 108-115).
THEOREM ReadInOrder == Spec => []InOrder
<1>1. IInv => InOrder
  BY DEF IInv
<1>. QED
  BY <1>1, InductiveInvariant, PTL

\* No write() comes between the two parts of a command (client.cc:131-139).
THEOREM PartialAtTheHead == Spec => []OnlyHeadIsPartial
<1>1. IInv => OnlyHeadIsPartial
  BY DEF IInv
<1>. QED
  BY <1>1, InductiveInvariant, PTL

\* Two bytes at the same position are the same.
LEMMA OneByteEach ==
  ASSUME IInv, NEW base, Layout(base), NEW b \in Byte, NEW c \in Byte, NEW p,
         At(base, b, p), At(base, c, p)
  PROVE  b = c
<1>1. c[1] \in Name /\ c[2] \in 1 .. Image(c[1]) /\ base[c[1]] + c[2] = p
  BY DEF At
<1>2. b = <<c[1], c[2]>>
  BY <1>1, OneOwner DEF IInv
<1>3. c = <<c[1], c[2]>>
  BY DEF Byte
<1>. QED
  BY <1>2, <1>3

\* What is left of a command's image stands where the layout puts it.
LEMMA BytesStand ==
  ASSUME IInv, NEW base, Layout(base), NEW n \in Name, NEW k \in Nat, k <= Image(n)
  PROVE  /\ Bytes(n, k) \in Seq(Byte) /\ Len(Bytes(n, k)) = Image(n) - k
         /\ StandsAt({x \in Byte \X Nat : At(base, x[1], x[2])}, Bytes(n, k), base[n] + k)
<1>1. /\ Image(n) \in Nat /\ base[n] \in Nat /\ n \in Nat \ {0} /\ Len(written) \in Nat
  BY Lengths DEF Name, Layout
<1> DEFINE s == Bytes(n, k)
<1>0. \A j \in 1 .. Image(n) - k : <<n, k + j>> \in Byte
  BY <1>1 DEF Byte
<1>2. s \in [1 .. Image(n) - k -> Byte] /\ \A j \in 1 .. Image(n) - k : s[j] = <<n, k + j>>
  BY <1>0 DEF Bytes
<1>3. s \in Seq(Byte) /\ Len(s) = Image(n) - k
  <2>1. PICK m \in Nat : m = Image(n) - k
    BY <1>1
  <2> HIDE DEF s
  <2>. QED
    BY <1>2, <2>1, FunSeq
<1> HIDE DEF s
<1>4. ASSUME NEW j \in 1 .. Len(s)
      PROVE  <<s[j], (base[n] + k) + j>> \in {x \in Byte \X Nat : At(base, x[1], x[2])}
  <2>1. j \in 1 .. Image(n) - k
    BY <1>3
  <2>2. s[j] = <<n, k + j>> /\ s[j] \in Byte
    BY <1>2, <2>1
  <2>3. k + j \in 1 .. Image(n) /\ base[n] + (k + j) = (base[n] + k) + j /\ (base[n] + k) + j \in Nat
    BY <1>1, <2>1
  <2>4. At(base, <<n, k + j>>, (base[n] + k) + j)
    BY <2>3 DEF At
  <2>. QED
    BY <2>2, <2>3, <2>4
<1>. QED
  BY <1>3, <1>4 DEF s, StandsAt

\* While both ends are open, what is in rbuffer, under way and queued is what is due, in
\* its order: both stand from the reader's position on, and end where the layout ends
\* (client.cc:72-118, 126-157).
LEMMA LayoutIsDue ==
  ASSUME IInv
  PROVE  NothingLost
<1> SUFFICES ASSUME wpc # "closed", rpc # "closed"
             PROVE  NothingLost
  BY DEF NothingLost
<1> DEFINE L == Len(written)
           d == Len(delivered)
           q == Len(wqueue)
           late == [i \in 1 .. q |-> Bytes(wqueue[i].cmd, wqueue[i].sent)]
           soon == [i \in 1 .. L - d |-> Bytes(d + i, 0)]
<1>1. PICK base : Layout(base) /\ StreamInv(base)
  BY DEF IInv, PlacesInv
<1> DEFINE P == {x \in Byte \X Nat : At(base, x[1], x[2])}
           here == base[d + 1]
           begun == IF wqueue = <<>> THEN 0 ELSE wqueue[1].sent
           st == [i \in 1 .. q + 1 |-> base[L - q + i] + (IF i = 1 THEN begun ELSE 0)]
           due == [i \in 1 .. (L - d) + 1 |-> base[d + i]]
<1>2. /\ L \in Nat /\ d \in Nat /\ q \in Nat /\ d <= L /\ q <= L
      /\ \A i \in 1 .. q : wqueue[i].cmd = L - q + i /\ wqueue[i] \in Queued
      /\ \A n \in 1 .. L + 1 : base[n] \in Nat
      /\ \A n \in 1 .. L : Image(n) \in Nat /\ base[n + 1] = base[n] + Image(n)
  BY <1>1, Lengths DEF IInv, QueueInv, Layout, Name
<1>3. /\ \A i \in 1 .. q : wqueue[i].sent \in Nat /\ wqueue[i].sent <= Image(wqueue[i].cmd)
      /\ \A i \in 1 .. q : i # 1 => wqueue[i].sent = 0
      /\ begun \in Nat /\ (q > 0 => begun = wqueue[1].sent)
  <2>1. ASSUME NEW i \in 1 .. q
        PROVE  /\ wqueue[i].sent \in Nat /\ wqueue[i].sent <= Image(wqueue[i].cmd)
               /\ (i # 1 => wqueue[i].sent = 0)
    <3>1. wqueue[i].sent < Image(wqueue[i].cmd) /\ (wqueue[i].sent > 0 => i = 1)
      BY DEF IInv, OnlyHeadIsPartial
    <3>2. wqueue[i].sent \in Nat /\ wqueue[i].cmd \in 1 .. L
      BY <1>2 DEF Queued
    <3>3. Image(wqueue[i].cmd) \in Nat
      BY <1>2, <3>2
    <3>. QED
      BY <3>1, <3>2, <3>3
  <2>2. wqueue # <<>> <=> q > 0
    BY <1>2, EmptySeq DEF IInv, TypeOK
  <2>3. q > 0 => 1 \in 1 .. q
    BY <1>2
  <2>. QED
    BY <2>1, <2>2, <2>3
<1>4. /\ FlattenSeq(late) \in Seq(Byte) /\ Len(FlattenSeq(late)) = base[L + 1] - st[1]
      /\ StandsAt(P, FlattenSeq(late), st[1]) /\ st[1] = base[L - q + 1] + begun
  <2>1. ASSUME NEW i \in 1 .. q
        PROVE  /\ late[i] \in Seq(Byte) /\ StandsAt(P, late[i], st[i])
               /\ st[i + 1] = st[i] + Len(late[i])
    <3> DEFINE n == wqueue[i].cmd
               k == wqueue[i].sent
    <3>1. /\ n \in 1 .. L /\ n = L - q + i /\ k \in Nat /\ k <= Image(n)
          /\ L - q + (i + 1) = n + 1
      BY <1>2, <1>3
    <3>2. i \in 1 .. q + 1 /\ i + 1 \in 1 .. q + 1 /\ i + 1 # 1
      BY <1>2
    <3>3. st[i] = base[n] + k
      <4>1. st[i] = base[L - q + i] + (IF i = 1 THEN begun ELSE 0)
        BY <3>2
      <4>2. (IF i = 1 THEN begun ELSE 0) = k
        BY <1>2, <1>3
      <4>. QED
        BY <3>1, <4>1, <4>2
    <3>4. st[i + 1] = base[n + 1] + 0
      <4>1. st[i + 1] = base[L - q + (i + 1)] + (IF i + 1 = 1 THEN begun ELSE 0)
        BY <3>2
      <4>. QED
        BY <3>1, <3>2, <4>1
    <3>5. late[i] = Bytes(n, k)
      OBVIOUS
    <3> HIDE DEF n, k, st, late, P
    <3>6. /\ Bytes(n, k) \in Seq(Byte) /\ Len(Bytes(n, k)) = Image(n) - k
          /\ StandsAt(P, Bytes(n, k), base[n] + k)
      BY <1>1, <3>1, BytesStand DEF P, Name
    <3>7. base[n + 1] = base[n] + Image(n) /\ base[n] \in Nat /\ Image(n) \in Nat
      BY <1>2, <3>1
    <3>8. st[i + 1] = st[i] + (Image(n) - k)
      BY <3>1, <3>3, <3>4, <3>7
    <3>. QED
      BY <3>3, <3>5, <3>6, <3>8
  <2>2. st \in [1 .. q + 1 -> Nat] /\ st[1] = base[L - q + 1] + begun /\ st[q + 1] = base[L + 1]
    <3>1. ASSUME NEW i \in 1 .. q + 1
          PROVE  base[L - q + i] + (IF i = 1 THEN begun ELSE 0) \in Nat
      <4>1. L - q + i \in 1 .. L + 1
        BY <1>2
      <4>2. base[L - q + i] \in Nat /\ begun \in Nat
        BY <1>2, <1>3, <4>1
      <4> HIDE DEF begun
      <4>. QED
        BY <4>2
    <3>2. 1 \in 1 .. q + 1 /\ q + 1 \in 1 .. q + 1 /\ L - q + (q + 1) = L + 1
      BY <1>2
    <3>3. q = 0 => begun = 0
      BY EmptySeq DEF IInv, TypeOK
    <3>4. base[L + 1] \in Nat /\ (q + 1 = 1 => q = 0)
      BY <1>2
    <3>. QED
      BY <3>1, <3>2, <3>3, <3>4
  <2>3. late \in [1 .. q -> Seq(Byte)]
    BY <2>1
  <2> HIDE DEF st, late, P
  <2>4. TakeUp(late, q, st) /\ \A i \in 1 .. q : StandsAt(P, late[i], st[i])
    BY <2>1 DEF TakeUp
  <2>5. /\ FlattenSeq(late) \in Seq(Byte) /\ Len(FlattenSeq(late)) = st[q + 1] - st[1]
        /\ StandsAt(P, FlattenSeq(late), st[1])
    <3>1. q \in Nat
      BY <1>2
    <3> HIDE DEF q
    <3>. QED
      BY <2>2, <2>3, <2>4, <3>1, RowStands
  <2>. QED
    BY <2>2, <2>5
<1>5. /\ FlattenSeq(soon) \in Seq(Byte) /\ Len(FlattenSeq(soon)) = base[L + 1] - here
      /\ StandsAt(P, FlattenSeq(soon), here)
  <2>1. ASSUME NEW i \in 1 .. L - d
        PROVE  /\ soon[i] \in Seq(Byte) /\ StandsAt(P, soon[i], due[i])
               /\ due[i + 1] = due[i] + Len(soon[i])
    <3>1. /\ d + i \in 1 .. L /\ d + (i + 1) = (d + i) + 1 /\ 0 \in Nat
          /\ i \in 1 .. (L - d) + 1 /\ i + 1 \in 1 .. (L - d) + 1
      BY <1>2
    <3>2. due[i] = base[d + i] /\ due[i + 1] = base[d + (i + 1)] /\ soon[i] = Bytes(d + i, 0)
      BY <3>1
    <3>3. /\ base[(d + i) + 1] = base[d + i] + Image(d + i)
          /\ base[d + i] \in Nat /\ Image(d + i) \in Nat
      BY <1>2, <3>1
    <3>4. 0 <= Image(d + i) /\ Image(d + i) - 0 = Image(d + i) /\ base[d + i] + 0 = base[d + i]
      BY <3>3
    <3> HIDE DEF due, soon, P
    <3>5. /\ Bytes(d + i, 0) \in Seq(Byte) /\ Len(Bytes(d + i, 0)) = Image(d + i)
          /\ StandsAt(P, Bytes(d + i, 0), base[d + i])
      BY <1>1, <3>1, <3>4, BytesStand DEF P, Name
    <3>. QED
      BY <3>1, <3>2, <3>3, <3>5
  <2>2. /\ due \in [1 .. (L - d) + 1 -> Nat] /\ due[1] = here /\ due[(L - d) + 1] = base[L + 1]
        /\ L - d \in Nat
    <3>1. \A i \in 1 .. (L - d) + 1 : d + i \in 1 .. L + 1
      BY <1>2
    <3>2. 1 \in 1 .. (L - d) + 1 /\ (L - d) + 1 \in 1 .. (L - d) + 1 /\ d + ((L - d) + 1) = L + 1
      BY <1>2
    <3>. QED
      BY <1>2, <3>1, <3>2
  <2>3. soon \in [1 .. L - d -> Seq(Byte)]
    BY <2>1
  <2> HIDE DEF due, soon, P, here
  <2>4. TakeUp(soon, L - d, due) /\ \A i \in 1 .. L - d : StandsAt(P, soon[i], due[i])
    BY <2>1 DEF TakeUp
  <2>5. /\ FlattenSeq(soon) \in Seq(Byte) /\ Len(FlattenSeq(soon)) = due[(L - d) + 1] - due[1]
        /\ StandsAt(P, FlattenSeq(soon), due[1])
    <3>1. PICK n \in Nat : n = L - d
      BY <2>2
    <3> HIDE DEF L, d
    <3>. QED
      BY <2>2, <2>3, <2>4, <3>1, RowStands
  <2>. QED
    BY <2>2, <2>5
<1>6. /\ rbuffer.bytes \in Seq(Byte) /\ stream \in Seq(Byte) /\ here \in Nat
      /\ StandsAt(P, rbuffer.bytes, here)
      /\ StandsAt(P, stream, here + Len(rbuffer.bytes))
      /\ here + Len(rbuffer.bytes) + Len(stream) = base[L - q + 1] + begun
  <2>1. /\ rbuffer.bytes \in Seq(Byte) /\ stream \in Seq(Byte) /\ here \in Nat
        /\ Len(rbuffer.bytes) \in Nat
    BY <1>2 DEF IInv, TypeOK
  <2>2. ASSUME NEW k \in 1 .. Len(rbuffer.bytes)
        PROVE  <<rbuffer.bytes[k], here + k>> \in P
    <3>1. rbuffer # NoBuffer
      BY <2>1 DEF NoBuffer
    <3>2. /\ d + 1 \in Name /\ rbuffer.bytes[k] = <<d + 1, k>> /\ k \in 1 .. Image(d + 1)
      <4>1. /\ d + 1 \in Name /\ rbuffer.size = Image(d + 1) /\ Len(rbuffer.bytes) < rbuffer.size
            /\ rbuffer.bytes[k] = <<d + 1, k>>
        BY <3>1 DEF IInv, BufferInv
      <4>2. Image(d + 1) \in Nat
        BY <4>1, Lengths
      <4>. QED
        BY <2>1, <4>1, <4>2
    <3>3. At(base, rbuffer.bytes[k], here + k)
      BY <3>2 DEF At
    <3>4. rbuffer.bytes[k] \in Byte /\ here + k \in Nat
      BY <2>1
    <3>. QED
      BY <3>3, <3>4
  <2>3. ASSUME NEW j \in 1 .. Len(stream)
        PROVE  <<stream[j], (here + Len(rbuffer.bytes)) + j>> \in P
    <3>1. At(base, stream[j], (here + Len(rbuffer.bytes)) + j)
      BY <1>1 DEF StreamInv, Position
    <3>2. stream[j] \in Byte /\ (here + Len(rbuffer.bytes)) + j \in Nat
      BY <2>1
    <3>. QED
      BY <3>1, <3>2
  <2>4. here + Len(rbuffer.bytes) + Len(stream) = base[L - q + 1] + begun
    BY <1>1 DEF StreamInv, Position
  <2> HIDE DEF P, here, begun
  <2>. QED
    BY <2>1, <2>2, <2>3, <2>4 DEF StandsAt
<1> DEFINE all == rbuffer.bytes \o stream \o FlattenSeq(late)
           row == FlattenSeq(soon)
<1> HIDE DEF late, soon, P, here, begun, st, L, d, q
<1>7. /\ all \in Seq(Byte) /\ StandsAt(P, all, here)
      /\ Len(all) = Len(rbuffer.bytes) + Len(stream) + Len(FlattenSeq(late))
      /\ Len(rbuffer.bytes) \in Nat /\ Len(stream) \in Nat
  <2>1. PICK a \in Seq(Byte), b \in Seq(Byte), c \in Seq(Byte) :
          a = rbuffer.bytes /\ b = stream /\ c = FlattenSeq(late)
    BY <1>4, <1>6
  <2>2. Len(a) \in Nat /\ Len(b) \in Nat /\ here + (Len(a) + Len(b)) = st[1]
    BY <1>4, <1>6, <2>1
  <2>3. a \o b \in Seq(Byte) /\ Len(a \o b) = Len(a) + Len(b) /\ StandsAt(P, a \o b, here)
    BY <1>6, <2>1, TwoInARow, JoinedStand
  <2>4. StandsAt(P, c, here + Len(a \o b))
    BY <1>4, <2>1, <2>2, <2>3
  <2>5. /\ (a \o b) \o c \in Seq(Byte) /\ Len((a \o b) \o c) = Len(a \o b) + Len(c)
        /\ StandsAt(P, (a \o b) \o c, here)
    BY <1>6, <2>3, <2>4, TwoInARow, JoinedStand
  <2>. QED
    BY <2>1, <2>2, <2>3, <2>5
<1>8. row \in Seq(Byte) /\ StandsAt(P, row, here) /\ Len(row) = Len(all)
  <2>1. base[L + 1] \in Nat /\ base[L - q + 1] \in Nat /\ begun \in Nat
    <3>1. L + 1 \in 1 .. L + 1 /\ L - q + 1 \in 1 .. L + 1
      BY <1>2
    <3>. QED
      BY <1>2, <1>3, <3>1
  <2>2. Len(FlattenSeq(late)) = base[L + 1] - (base[L - q + 1] + begun)
    BY <1>4
  <2> HIDE DEF all
  <2>. QED
    BY <1>5, <1>6, <1>7, <2>1, <2>2
<1> HIDE DEF all, row
<1>9. \A j \in 1 .. Len(all) : all[j] = row[j]
  <2>1. ASSUME NEW j \in 1 .. Len(all) PROVE all[j] = row[j]
    <3>1. <<all[j], here + j>> \in P /\ <<row[j], here + j>> \in P
      BY <1>7, <1>8 DEF StandsAt
    <3>2. /\ all[j] \in Byte /\ row[j] \in Byte
          /\ At(base, all[j], here + j) /\ At(base, row[j], here + j)
      BY <3>1 DEF P
    <3>. QED
      BY <1>1, <3>2, OneByteEach
  <2>. QED
    BY <2>1
<1>10. all = row
  BY <1>7, <1>8, <1>9
<1>. QED
  BY <1>10 DEF NothingLost, all, row, late, soon, L, d, q

\* Between two open ends no byte is lost, repeated or out of its place, however send(2)
\* and recv(2) cut the stream (client.cc:72-118, 126-157).
THEOREM NothingIsLost == Spec => []NothingLost
<1>. QED
  BY LayoutIsDue, InductiveInvariant, PTL

\* The commands as the channel sees them: what was read is a prefix of what was written.
LEMMA GotIsPrefix ==
  IInv => [n \in 1 .. Len(delivered) |-> written[delivered[n][1][1]]]
            = [n \in 1 .. Len(delivered) |-> written[n]]
<1> SUFFICES ASSUME IInv
             PROVE  [n \in 1 .. Len(delivered) |-> written[delivered[n][1][1]]]
                      = [n \in 1 .. Len(delivered) |-> written[n]]
  OBVIOUS
<1>1. ASSUME NEW n \in 1 .. Len(delivered)
      PROVE  delivered[n][1][1] = n
  <2>1. n \in Name /\ delivered[n] = Bytes(n, 0)
    BY DEF IInv, InOrder
  <2>2. Image(n) - 0 \in Nat /\ 1 \in 1 .. Image(n) - 0
    BY <2>1, Lengths
  <2>. QED
    BY <2>1, <2>2 DEF Bytes
<1>. QED
  BY <1>1

\* A prefix that grows by one grows by the next element.
LEMMA OneMore ==
  ASSUME NEW S, NEW s \in Seq(S), NEW k \in Nat, k + 1 <= Len(s)
  PROVE  /\ Len([n \in 1 .. k |-> s[n]]) = k
         /\ [n \in 1 .. k + 1 |-> s[n]] = Append([n \in 1 .. k |-> s[n]], s[k + 1])
<1>1. PICK g : g = [n \in 1 .. k |-> s[n]]
  OBVIOUS
<1>2. PICK t : t = [n \in 1 .. k + 1 |-> s[n]]
  OBVIOUS
<1>3. \A n \in 1 .. k + 1 : n \in 1 .. Len(s)
  BY LenProperties
<1>4. \A n \in 1 .. k + 1 : s[n] \in S
  BY <1>3, ElementOfSeq
<1>5. k + 1 \in 1 .. k + 1 /\ \A n \in 1 .. k : n \in 1 .. k + 1
  OBVIOUS
<1>6. g \in [1 .. k -> S] /\ t \in [1 .. k + 1 -> S]
  BY <1>1, <1>2, <1>4, <1>5
<1>7. g \in Seq(S) /\ Len(g) = k /\ t \in Seq(S) /\ Len(t) = k + 1
  BY <1>6, FunSeq
<1>8. /\ Append(g, s[k + 1]) \in Seq(S) /\ Len(Append(g, s[k + 1])) = k + 1
      /\ \A n \in 1 .. k : Append(g, s[k + 1])[n] = g[n]
      /\ Append(g, s[k + 1])[k + 1] = s[k + 1]
  BY <1>4, <1>5, <1>7, AppendProperties
<1>9. \A n \in 1 .. k + 1 : n \in 1 .. k \/ n = k + 1
  OBVIOUS
<1>10. \A n \in 1 .. k + 1 : t[n] = Append(g, s[k + 1])[n]
  BY <1>1, <1>2, <1>5, <1>8, <1>9
<1>11. t = Append(g, s[k + 1])
  BY <1>7, <1>8, <1>10, SeqEqual
<1>. QED
  BY <1>1, <1>2, <1>7, <1>11

\* A step of the two ends puts, gets, shuts, or leaves the channel alone.
LEMMA StepOfChannel ==
  IInv /\ IInv' /\ [Next]_vars => [Channel!ChannelNext]_(Channel!channelVars)
<1> SUFFICES ASSUME IInv, IInv', [Next]_vars
             PROVE  [Channel!ChannelNext]_(Channel!channelVars)
  OBVIOUS
<1> DEFINE got  == [n \in 1 .. Len(delivered) |-> written[delivered[n][1][1]]]
           open == wpc # "closed" /\ rpc # "closed"
<1>1. got = [n \in 1 .. Len(delivered) |-> written[n]]
  BY GotIsPrefix
<1>2. got' = [n \in 1 .. Len(delivered') |-> written'[n]]
  <2>1. (IInv => got = [n \in 1 .. Len(delivered) |-> written[n]])'
    BY GotIsPrefix, PTL
  <2>. QED
    BY <2>1
<1>3. /\ Len(delivered) \in Nat /\ Len(delivered) <= Len(written)
      /\ Len(delivered') \in Nat /\ Len(delivered') <= Len(written')
      /\ Len(written) \in Nat /\ written \in Seq(Command) /\ delivered \in Seq(Seq(Byte))
      /\ delivered' \in Seq(Seq(Byte))
  BY LenProperties DEF IInv, TypeOK
<1>4. ASSUME NEW c \in Command, Write(c)
      PROVE  Channel!Put(c)
  <2>1. /\ written' = Append(written, c) /\ delivered' = delivered
        /\ wpc # "closed" /\ wpc' # "closed" /\ rpc' = rpc
    BY <1>4 DEF Write, readerVars
  <2>2. \A n \in 1 .. Len(delivered) : written'[n] = written[n]
    BY <1>3, <2>1, AppendProperties
  <2>3. [n \in 1 .. Len(delivered') |-> written'[n]] = [n \in 1 .. Len(delivered) |-> written[n]]
    BY <2>1, <2>2
  <2>4. got' = got
    BY <1>1, <1>2, <2>3
  <2>. QED
    BY <2>1, <2>4 DEF Channel!Put
<1>5. ASSUME Recv
      PROVE  Channel!Get \/ UNCHANGED Channel!channelVars
  <2>1. /\ written' = written /\ wpc' = wpc /\ rpc # "closed" /\ rpc' # "closed"
        /\ \/ delivered' = delivered
           \/ \E b : delivered' = Append(delivered, b)
    BY <1>5 DEF Recv, writerVars
  <2>2. CASE delivered' = delivered
    BY <2>1, <2>2 DEF Channel!channelVars
  <2>3. CASE \E b : delivered' = Append(delivered, b)
    <3>1. Len(delivered') = Len(delivered) + 1
      BY <1>3, <2>3
    <3>2. Len(delivered) + 1 <= Len(written)
      BY <1>3, <2>1, <3>1
    <3>3. PICK k \in Nat : k = Len(delivered)
      BY <1>3
    <3>4. PICK g : g = [n \in 1 .. k |-> written[n]]
      OBVIOUS
    <3>5. Len(g) = k /\ [n \in 1 .. k + 1 |-> written[n]] = Append(g, written[k + 1])
      BY <1>3, <3>2, <3>3, <3>4, OneMore
    <3>6. got = g
      BY <1>1, <3>3, <3>4
    <3>7. got' = Append(g, written[k + 1])
      BY <1>2, <2>1, <3>1, <3>3, <3>5
    <3>8. Len(got) < Len(written) /\ got' = Append(got, written[Len(got) + 1])
      <4>. HIDE DEF got
      <4>. QED
        BY <1>3, <3>2, <3>3, <3>5, <3>6, <3>7
    <3>9. Channel!Get
      BY <2>1, <3>8 DEF Channel!Get
    <3>. QED
      BY <3>9
  <2>. QED
    BY <2>1, <2>2, <2>3
<1>6. CASE \/ Send \/ PeekHead \/ Writable \/ FlushReturns \/ Resume \/ ReadReturnsNull
           \/ Closed \/ UNCHANGED vars \/ WriterCloses \/ ReaderCloses
  <2>1. /\ written' = written /\ delivered' = delivered
        /\ wpc = "closed" => wpc' = "closed"
        /\ rpc = "closed" => rpc' = "closed"
    <3>1. CASE Send \/ Writable \/ FlushReturns
      BY <3>1 DEF Send, Writable, FlushReturns, readerVars
    <3>2. CASE PeekHead \/ Resume \/ ReadReturnsNull
      BY <3>2 DEF PeekHead, Resume, ReadReturnsNull, writerVars
    <3>3. CASE WriterCloses \/ ReaderCloses
      BY <3>3 DEF WriterCloses, ReaderCloses, readerVars, writerVars
    <3>4. CASE Closed \/ UNCHANGED vars
      BY <3>4 DEF Closed, vars, readerVars, writerVars
    <3>. QED
      BY <1>6, <3>1, <3>2, <3>3, <3>4
  <2>2. got' = got
    BY <2>1
  <2>. QED
    BY <2>1, <2>2 DEF Channel!ChannelNext, Channel!Shut, Channel!channelVars
<1>7. \/ \E c \in Command : Write(c)
      \/ Recv
      \/ \/ Send \/ PeekHead \/ Writable \/ FlushReturns \/ Resume \/ ReadReturnsNull
         \/ Closed \/ UNCHANGED vars \/ WriterCloses \/ ReaderCloses
  BY DEF Next, Flushing, Reading
<1>. QED
  BY <1>4, <1>5, <1>6, <1>7 DEF Channel!ChannelNext

\* The two ends implement the channel of commands.
THEOREM ChannelImplemented == Spec => RefinesChannel
<1>1. Init => Channel!ChannelInit
  <2> SUFFICES ASSUME Init PROVE Channel!ChannelInit
    OBVIOUS
  <2>1. Len(delivered) = 0 /\ 1 .. 0 = {}
    BY EmptySeq DEF Init
  <2>2. [n \in {} |-> written[delivered[n][1][1]]] = <<>>
    OBVIOUS
  <2>. QED
    BY <2>1, <2>2 DEF Init, Channel!ChannelInit
<1>. QED
  BY <1>1, StepOfChannel, InductiveInvariant, PTL
     DEF Spec, RefinesChannel, Channel!ChannelSpec
=============================================================================

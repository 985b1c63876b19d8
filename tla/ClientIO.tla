------------------------------ MODULE ClientIO ------------------------------
(***************************************************************************)
(* Two connected Client objects on non-blocking streams (client.cc), one   *)
(* way: one end queues commands and flushes the queue, the other puts them *)
(* together from the bytes that have come.  Each end is driven as          *)
(* Server::check_clients drives a client: read() when poll(2) says it can  *)
(* be read, flush() when it can be written.                                *)
(*                                                                         *)
(* The n-th command given to write() has the name n, and <<n, k>> is the   *)
(* k-th byte of its image (header, then body): what read() returns is      *)
(* compared byte for byte with what was written.                           *)
(***************************************************************************)
EXTENDS Naturals, Sequences, SequencesExt

CONSTANTS
  Command,    \* what may be written
  SizeOf,     \* Command::size of each
  HeadSize,   \* sizeof(CommandHead)
  Room,       \* bytes that fit between the two ends (both kernels' buffers)
  MaxWritten  \* bound: commands written

ASSUME ClientIOAssumption ==
  /\ SizeOf \in [Command -> Nat]
  /\ HeadSize \in Nat \ {0}
  /\ Room \in Nat /\ Room >= HeadSize
  /\ MaxWritten \in Nat

VARIABLES
  written,   \* history: the commands given to write()
  wqueue,    \* Client::wqueue: names, each with the bytes of it that were sent
  wpc,       \* the writing end: "idle", in "flush", or "closed"
  stream,    \* the bytes between the two ends
  rbuffer,   \* Client::rbuffer: the size it waits for and the bytes it has
  rpc,       \* the reading end: "idle", in "recv", or "closed"
  delivered  \* history: the images of the commands that read() returned

writerVars == <<written, wqueue, wpc>>
readerVars == <<rbuffer, rpc, delivered>>
vars == <<writerVars, stream, readerVars>>

\* rbuffer = NULL: no command has an image of 0 bytes.
NoBuffer == [size |-> 0, bytes |-> <<>>]

\* The number of bytes that command n takes in the stream.
Image(n) == HeadSize + SizeOf[written[n]]

\* The bytes of command n's image after the first `from`.
Bytes(n, from) == [k \in 1 .. Image(n) - from |-> <<n, from + k>>]

Least(a, b) == IF a < b THEN a ELSE b

-----------------------------------------------------------------------------
(* The writing end.                                                        *)

\* Client::write.  It flushes only a queue that was empty.
Write(c) ==
  /\ wpc = "idle"
  /\ Len(written) < MaxWritten
  /\ written' = Append(written, c)
  /\ wqueue' = Append(wqueue, [cmd |-> Len(written) + 1, sent |-> 0])
  /\ wpc' = IF wqueue = <<>> THEN "flush" ELSE "idle"
  /\ UNCHANGED <<stream, readerVars>>

\* Mutant of Writable: poll(2) does not ask for POLLOUT.
WritableNever == wpc = "flush" /\ UNCHANGED vars

\* poll(2) reports POLLOUT and the main loop calls flush().
Writable ==
  /\ wpc = "idle" /\ rpc # "closed"
  /\ wqueue # <<>> /\ Len(stream) < Room
  /\ wpc' = "flush"
  /\ UNCHANGED <<written, wqueue, stream, readerVars>>

\* Mutant of Send: the offset is lost when send(2) takes a part.
SendFromStart ==
  /\ wpc = "flush" /\ wqueue # <<>> /\ rpc # "closed"
  /\ LET h == Head(wqueue) IN
       \E n \in 1 .. Least(Image(h.cmd), Room - Len(stream)) :
         /\ stream' = stream \o [k \in 1 .. n |-> <<h.cmd, k>>]
         /\ wqueue' = IF n = Image(h.cmd) THEN Tail(wqueue) ELSE wqueue
  /\ UNCHANGED <<written, wpc, readerVars>>

\* One turn of flush()'s inner loop: send(2) takes some of what is left of the
\* first command; a command that is full is erased and the next one follows.
Send ==
  /\ wpc = "flush" /\ wqueue # <<>> /\ rpc # "closed"
  /\ LET h == Head(wqueue) IN
       \E n \in 1 .. Least(Image(h.cmd) - h.sent, Room - Len(stream)) :
         /\ stream' = stream \o [k \in 1 .. n |-> <<h.cmd, h.sent + k>>]
         /\ wqueue' = IF h.sent + n = Image(h.cmd)
                      THEN Tail(wqueue)
                      ELSE [wqueue EXCEPT ![1].sent = @ + n]
  /\ UNCHANGED <<written, wpc, readerVars>>

\* The queue is empty, or send(2) fails with EAGAIN or EINTR: flush() returns.
FlushReturns ==
  /\ wpc = "flush"
  /\ wpc' = "idle"
  /\ UNCHANGED <<written, wqueue, stream, readerVars>>

\* close(): by the owner, or by check_clients after a send(2) that failed
\* because the reader is gone.  What is queued is deleted.
WriterCloses ==
  /\ wpc = "idle" \/ (wpc = "flush" /\ rpc = "closed")
  /\ wpc' = "closed"
  /\ wqueue' = <<>>
  /\ UNCHANGED <<written, stream, readerVars>>

-----------------------------------------------------------------------------
(* The reading end.                                                        *)

\* The sizes that the header at the front of the stream may decode to: bytes that
\* are not a header decode to anything.
HeadDecodes ==
  LET n == stream[1][1] IN
    IF \A k \in 1 .. HeadSize : stream[k] = <<n, k>>
    THEN {SizeOf[written[n]]}
    ELSE {SizeOf[c] : c \in Command}

\* Mutant of PeekHead: the header is taken from the stream before all of it is there.
PeekPart ==
  /\ rpc = "idle" /\ rbuffer = NoBuffer
  /\ stream # <<>>
  /\ \E s \in {SizeOf[c] : c \in Command} :
       rbuffer' = [size |-> HeadSize + s, bytes |-> <<>>]
  /\ rpc' = "recv"
  /\ UNCHANGED <<writerVars, stream, delivered>>

\* read() without an rbuffer: a whole header can be peeked at; with less it
\* returns NULL and nothing has changed.
PeekHead ==
  /\ rpc = "idle" /\ rbuffer = NoBuffer
  /\ Len(stream) >= HeadSize
  /\ \E s \in HeadDecodes : rbuffer' = [size |-> HeadSize + s, bytes |-> <<>>]
  /\ rpc' = "recv"
  /\ UNCHANGED <<writerVars, stream, delivered>>

\* Mutant of Resume: a read() that finds an rbuffer starts it anew.
ResumeAnew ==
  /\ rpc = "idle" /\ rbuffer # NoBuffer
  /\ stream # <<>>
  /\ rbuffer' = [rbuffer EXCEPT !.bytes = <<>>]
  /\ rpc' = "recv"
  /\ UNCHANGED <<writerVars, stream, delivered>>

\* read() with a part of a command in rbuffer.
Resume ==
  /\ rpc = "idle" /\ rbuffer # NoBuffer
  /\ stream # <<>>
  /\ rpc' = "recv"
  /\ UNCHANGED <<writerVars, stream, rbuffer, delivered>>

\* One turn of read()'s loop: recv(2) gives some of what is missing; a command
\* that is full is returned.
Recv ==
  /\ rpc = "recv"
  /\ \E n \in 1 .. Least(rbuffer.size - Len(rbuffer.bytes), Len(stream)) :
       LET bytes == rbuffer.bytes \o SubSeq(stream, 1, n)
           full  == Len(bytes) = rbuffer.size
       IN  /\ stream' = SubSeq(stream, n + 1, Len(stream))
           /\ rbuffer' = IF full THEN NoBuffer ELSE [rbuffer EXCEPT !.bytes = bytes]
           /\ rpc' = IF full THEN "idle" ELSE "recv"
           /\ delivered' = IF full THEN Append(delivered, bytes) ELSE delivered
  /\ UNCHANGED writerVars

\* recv(2) fails with EAGAIN or EINTR: read() returns NULL, rbuffer stays.
ReadReturnsNull ==
  /\ rpc = "recv"
  /\ stream # <<>> \/ wpc # "closed"
  /\ rpc' = "idle"
  /\ UNCHANGED <<writerVars, stream, rbuffer, delivered>>

\* close(): by the owner, or by check_clients after recv(2) returned 0.  rbuffer is
\* deleted; its pointer stays, and nobody reads a closed Client.
ReaderCloses ==
  /\ rpc = "idle" \/ (rpc = "recv" /\ stream = <<>> /\ wpc = "closed")
  /\ rpc' = "closed"
  /\ rbuffer' = NoBuffer
  /\ stream' = <<>>
  /\ UNCHANGED <<writerVars, delivered>>

-----------------------------------------------------------------------------
Init ==
  /\ written = <<>> /\ wqueue = <<>> /\ wpc = "idle"
  /\ stream = <<>>
  /\ rbuffer = NoBuffer /\ rpc = "idle" /\ delivered = <<>>

\* Both ends are closed.
Closed == wpc = "closed" /\ rpc = "closed" /\ UNCHANGED vars

Flushing == Writable \/ Send \/ FlushReturns

Reading == PeekHead \/ Resume \/ Recv \/ ReadReturnsNull

Next ==
  \/ \E c \in Command : Write(c)
  \/ Flushing \/ WriterCloses
  \/ Reading \/ ReaderCloses
  \/ Closed

Spec == Init /\ [][Next]_vars

\* Both main loops turn, and signals do not interrupt every call.
Fairness == WF_vars(Flushing) /\ WF_vars(Reading) /\ SF_vars(Send) /\ SF_vars(Recv)

FairSpec == Spec /\ Fairness

-----------------------------------------------------------------------------
(* Properties.                                                             *)

Name == 1 .. Len(written)

Byte == (Nat \ {0}) \X (Nat \ {0})

Queued == [cmd : Nat \ {0}, sent : Nat]

TypeOK ==
  /\ written \in Seq(Command)
  /\ wqueue \in Seq(Queued)
  /\ wpc \in {"idle", "flush", "closed"}
  /\ stream \in Seq(Byte)
  /\ rbuffer \in [size : Nat, bytes : Seq(Byte)]
  /\ rpc \in {"idle", "recv", "closed"}
  /\ rpc = "recv" => rbuffer # NoBuffer
  /\ delivered \in Seq(Seq(Byte))

\* The n-th command that read() returns is the n-th one written, with every byte
\* of its image in place, however send(2) and recv(2) cut the stream
\* (client.cc:87-93, 108-115).
InOrder ==
  \A n \in 1 .. Len(delivered) :
    n \in Name /\ delivered[n] = Bytes(n, 0)

\* Only the first command of the queue is partly sent: a write() never cuts into
\* a command whose rest is still queued (client.cc:131-139).
OnlyHeadIsPartial ==
  \A i \in 1 .. Len(wqueue) :
    /\ wqueue[i].sent > 0 => i = 1
    /\ wqueue[i].sent < Image(wqueue[i].cmd)

\* While both ends are open, the bytes of rbuffer, of the stream and of what the
\* queue has left are the images of the commands not returned yet: none is lost,
\* repeated or out of its place.
NothingLost ==
  (wpc # "closed" /\ rpc # "closed") =>
    LET queued   == FlattenSeq([i \in 1 .. Len(wqueue) |->
                                  Bytes(wqueue[i].cmd, wqueue[i].sent)])
        due      == FlattenSeq([i \in 1 .. Len(written) - Len(delivered) |->
                                  Bytes(Len(delivered) + i, 0)])
    IN  rbuffer.bytes \o stream \o queued = due

\* The two ends implement the channel of commands.
Channel == INSTANCE CommandChannel WITH
  put  <- written,
  got  <- [n \in 1 .. Len(delivered) |-> written[delivered[n][1][1]]],
  open <- wpc # "closed" /\ rpc # "closed"

RefinesChannel == Channel!ChannelSpec

\* Every command written is read in the end as long as both ends are open.
EverythingArrives == Channel!ChannelLive
=============================================================================

------------------------------ MODULE Command ------------------------------
(***************************************************************************)
(* A Command's arguments (command.cc, command.hh) and the reader of text   *)
(* ones (functions.cc): one end packs values into a growing buffer, the    *)
(* other unpacks them from the bytes it received, or from a copy.  Codes   *)
(* below F2_CODE_START have text arguments, separated by blanks, the       *)
(* others binary ones with a head of size and type.                        *)
(*                                                                         *)
(* The buffer is a sequence of cells, one for each byte that may be        *)
(* written: data[0] is cell 1, the last cell is data[s] of the last        *)
(* _grow(s).  An integer is its decimal digits, as sprintf writes them and *)
(* strtoul reads them; in binary it is one cell and three that follow it.  *)
(*                                                                         *)
(* The user unpacks no more values than were packed, once (reading a text  *)
(* cuts it up), a text by the types it was packed with and a binary one by *)
(* any, and packs binary commands with PACK_COMMAND, all at once: a second *)
(* _flush leaves unused bytes between the arguments of the first and its   *)
(* own.                                                                    *)
(***************************************************************************)
EXTENDS Integers, Sequences, FiniteSets, SequencesExt, FiniteSetsExt

CONSTANTS
  Char,       \* what a byte of an argument can be
  TextArg,    \* the arguments that users pack into text commands,
  BinaryArg,  \* and into binary ones
  MaxArgs,    \* bound: arguments of a command
  Numeral,    \* the characters of numbers
  SizeMod,    \* 2^16, one more than a Size holds
  Wild        \* the offset when the reader is NULL

\* Cells: characters, an argument's head <<"head", size, type>>, a number <<"int", digits>>.
Nul == <<"nul">>
Blank == <<" ">>
Quote == <<"quote">>
Unset == <<"unset">>  \* a byte that nobody wrote
Rest == <<"rest">>    \* the bytes of a head or a number behind its first

Type == {"INTEGER", "STRING", "DATA"}

\* What the caller's variable holds when an unshift stores nothing.
Untouched == <<Unset>>

HeadBytes == 4     \* sizeof(ArgHead)
IntBytes == 4      \* sizeof(I32)

ASSUME CommandAssumption ==
  /\ Numeral \subseteq Char \ {Nul, Blank, Quote}
  /\ Unset \notin Char /\ \A c \in Char : Len(c) = 1
  /\ \A a \in TextArg \cup BinaryArg :
       /\ a \in [type : Type, body : Seq(Char)]
       /\ a.type # "DATA" => \A i \in 1 .. Len(a.body) : a.body[i] # Nul
  /\ \A a \in TextArg : a.type # "DATA"
  /\ \A a \in TextArg \cup BinaryArg :
       a.type = "INTEGER" => Len(a.body) \in 1 .. 11 /\ a.body \in Seq(Numeral)
  /\ MaxArgs \in Nat /\ SizeMod \in Nat \ {0}
  /\ Wild \notin Nat

VARIABLES
  kind,      \* "text" or "binary", from Command::code
  data,      \* the cells of the buffer, <<>> for NULL
  size,
  offset,
  writer,    \* _writer: the arguments pushed and not flushed
  stage,     \* "pack"; "unpack", on this side or on the "received" one; "crashed"
  \* history
  packed,    \* the arguments that were pushed, in order
  asked,     \* the types that were asked for,
  results,   \* and what each unshift stored
  total,     \* what size would be if it were wide enough
  overflow   \* a byte was written behind the buffer: nothing is known of what follows

history == <<packed, asked, results, total, overflow>>
commandVars == <<kind, data, size, offset, writer, stage, history>>

CommandInit ==
  /\ kind \in {"text", "binary"}
  /\ data = <<>> /\ size = 0 /\ offset = 0 /\ writer = <<>>
  /\ packed = <<>> /\ asked = <<>> /\ results = <<>> /\ total = 0 /\ overflow = FALSE
  /\ stage = "pack"

-----------------------------------------------------------------------------
(* Packing.                                                                *)

\* What _push counts: sizeof(I32), strlen(x) + 1, or the 32 bits of Data::size,
Wide(a) == CASE a.type = "INTEGER" -> IntBytes
             [] a.type = "STRING"  -> Len(a.body) + 1
             [] a.type = "DATA"    -> Len(a.body)

\* and what is left of it in Arg::size, a Size: nothing of a string of 65535 bytes.
ArgSize(a) == Wide(a) % SizeMod

Push(a) ==
  /\ stage = "pack" /\ ~overflow /\ Len(packed) < MaxArgs
  /\ kind = "binary" => packed = writer
  /\ writer' = Append(writer, a)
  /\ packed' = Append(packed, a)
  /\ UNCHANGED <<kind, data, size, offset, stage, asked, results, total, overflow>>

Used == SubSeq(data, 1, size)

\* Mutant: room for every argument but a byte.
RoomTight(a) == HeadBytes + ArgSize(a) + 3

\* What _flush makes room for: "4 for good measure".
Room(a) == HeadBytes + ArgSize(a) + 4

Estimate ==
  LET s[i \in 0 .. Len(writer)] == IF i = 0 THEN size ELSE s[i - 1] + Room(writer[i])
  IN  s[Len(writer)]

\* The buffer after _grow(s) when the bytes in text have been written from its start.
Grow(s, text) ==
  IF data # <<>> /\ s <= size THEN data
  ELSE [i \in 1 .. s + 1 |->
          IF i <= Len(text) THEN text[i] ELSE IF i = s + 1 THEN Nul ELSE Unset]

Has(s, x) == \E i \in 1 .. Len(s) : s[i] = x

Quoted(a) == a.type = "STRING" /\ Has(a.body, Blank)

Shown(a) == IF Quoted(a) THEN <<Quote>> \o a.body \o <<Quote>> ELSE a.body

Joined(text, a) == IF text = <<>> THEN Shown(a) ELSE text \o <<Blank>> \o Shown(a)

Text ==
  LET text[i \in 0 .. Len(writer)] == IF i = 0 THEN Used ELSE Joined(text[i - 1], writer[i])
  IN  text[Len(writer)]

\* sprintf ends what it writes with a NUL, so the text needs a byte more than its length.
FlushText ==
  /\ kind = "text"
  /\ data' = Grow(Estimate, IF writer = <<>> THEN Text ELSE Append(Text, Nul))
  /\ overflow' = (overflow \/ Len(Text) + 1 > Len(data'))
  /\ size' = Len(Text) % SizeMod
  /\ total' = Max({total, Len(Text)})

ArgHead(a) == <<<<"head", ArgSize(a), a.type>>, Rest, Rest, Rest>>

\* As many bytes as Arg::size says are copied.
Body(a) == CASE a.type = "INTEGER" -> <<<<"int", a.body>>, Rest, Rest, Rest>>
             [] a.type = "STRING"  -> SubSeq(a.body \o <<Nul>>, 1, ArgSize(a))
             [] a.type = "DATA"    -> SubSeq(a.body, 1, ArgSize(a))

Bytes ==
  LET bytes[i \in 0 .. Len(writer)] ==
        IF i = 0 THEN Used ELSE bytes[i - 1] \o ArgHead(writer[i]) \o Body(writer[i])
  IN  bytes[Len(writer)]

FlushBinary ==
  /\ kind = "binary"
  /\ data' = Grow(Estimate, Bytes)
  /\ overflow' = (overflow \/ Len(Bytes) > Len(data'))
  /\ size' = Estimate % SizeMod
  /\ total' = Max({total, Estimate})

\* PACK_COMMAND pushes all its arguments and flushes once, << does both for one.
Flush ==
  /\ stage = "pack" /\ ~overflow
  /\ FlushText \/ FlushBinary
  /\ writer' = <<>>
  /\ UNCHANGED <<kind, offset, stage, packed, asked, results>>

-----------------------------------------------------------------------------
(* The command is read where it is, received by the other end (Client::read *)
(* makes room for size bytes), or copied.                                   *)

Flushed == stage = "pack" /\ writer = <<>> /\ data # <<>> /\ ~overflow

ReadHere ==
  /\ Flushed
  /\ stage' = "unpack"
  /\ UNCHANGED <<kind, data, size, offset, writer, history>>

Receive ==
  /\ Flushed
  /\ stage' = "received"
  /\ data' = Append(Used, Nul)
  /\ offset' = 0
  /\ UNCHANGED <<kind, size, writer, history>>

\* The copy is a new Command; operator= would leave the offset of one that was read before.
Copy ==
  /\ Flushed
  /\ stage' = "unpack"
  /\ data' = IF size = 0 THEN <<>> ELSE Used \o <<Nul, Nul>>
  /\ offset' = 0
  /\ UNCHANGED <<kind, size, writer, history>>

-----------------------------------------------------------------------------
(* Unpacking text.                                                         *)

\* strchr(buf + i, x): where x is first, before the NUL that ends the string; 0 if nowhere.
Strchr(buf, i, x) ==
  LET found == {j \in i .. Len(buf) : buf[j] = x /\ \A k \in i .. j - 1 : buf[k] # Nul}
  IN  IF found = {} THEN 0 ELSE Min(found)

End(buf, i) == CHOOSE j \in i .. Len(buf) : buf[j] = Nul /\ \A k \in i .. j - 1 : buf[k] # Nul

CString(buf, i) == SubSeq(buf, i, End(buf, i) - 1)

\* Past the blanks at i.
SkipBlanks(buf, i) == CHOOSE j \in i .. Len(buf) : buf[j] # Blank /\ \A k \in i .. j - 1 : buf[k] = Blank

\* Mutant: the blank behind a quoted argument stays before the next one.
NextOfManyStops(buf, src) ==
  LET blank == Strchr(buf, src, Blank)
      quote == Strchr(buf, src + 1, Quote)
  IN CASE buf[src] # Quote ->
            [buf |-> ReplaceAt(buf, blank, Nul), src |-> SkipBlanks(buf, blank + 1),
             begin |-> src, ok |-> TRUE]
       [] buf[src] = Quote /\ quote # 0 ->
            [buf |-> ReplaceAt(buf, quote, Nul), src |-> quote + 1,
             begin |-> src + 1, ok |-> TRUE]
       [] OTHER -> [buf |-> buf, src |-> Wild, begin |-> src + 1, ok |-> FALSE]

\* get_next_argument(src, begin), with a blank somewhere behind src.
NextOfMany(buf, src) ==
  LET blank == Strchr(buf, src, Blank)
      quote == Strchr(buf, src + 1, Quote)
  IN CASE buf[src] # Quote ->
            [buf |-> ReplaceAt(buf, blank, Nul), src |-> SkipBlanks(buf, blank + 1),
             begin |-> src, ok |-> TRUE]
       [] buf[src] = Quote /\ quote # 0 ->
            [buf |-> ReplaceAt(buf, quote, Nul), src |-> SkipBlanks(buf, quote + 1),
             begin |-> src + 1, ok |-> TRUE]
       [] OTHER -> [buf |-> buf, src |-> Wild, begin |-> src + 1, ok |-> FALSE]

\* The same for the last argument: a quote is matched with the last one of the string.
LastOfAll(buf, src) ==
  LET begin == src + 1
      end == End(buf, src)
      quotes == {j \in begin + 1 .. end - 1 : buf[j] = Quote}
      cut == ReplaceAt(buf, Max(quotes), Nul)
  IN CASE buf[src] # Quote -> [buf |-> buf, src |-> Wild, begin |-> src, ok |-> buf[src] # Nul]
       [] buf[src] = Quote /\ begin = end ->
            [buf |-> ReplaceAt(buf, src, Nul), src |-> Wild, begin |-> begin, ok |-> FALSE]
       [] buf[src] = Quote /\ begin # end /\ quotes = {} ->
            [buf |-> buf, src |-> begin, begin |-> begin, ok |-> FALSE]
       [] OTHER -> [buf |-> cut, src |-> Wild, begin |-> begin, ok |-> cut[begin] # Nul]

GetNextArgument(buf, src) ==
  IF Strchr(buf, src, Blank) # 0 THEN NextOfMany(buf, src) ELSE LastOfAll(buf, src)

\* strtoul: the numerals that a text begins with, none for 0.
Strtoul(text) ==
  LET others == {i \in 1 .. Len(text) : text[i] \notin Numeral}
  IN  IF others = {} THEN text ELSE SubSeq(text, 1, Min(others) - 1)

Reading == stage \in {"unpack", "received"} /\ Len(results) < Len(packed)

\* A user of text asks for what was packed there.
NextType == packed[Len(results) + 1].type

Answer(t, x) == asked' = Append(asked, t) /\ results' = Append(results, x)

\* Neither did get_next_argument make the reader NULL nor is the buffer itself (a copy's) NULL.
OnText == offset # Wild /\ data # <<>>

\* The end of the text.
UnshiftNothing ==
  /\ Reading /\ kind = "text" /\ OnText /\ data[offset + 1] = Nul
  /\ Answer(NextType, Untouched)
  /\ UNCHANGED <<kind, data, size, offset, writer, stage, packed, total, overflow>>

\* A string is stored also when get_next_argument returns false.
UnshiftText ==
  /\ Reading /\ kind = "text" /\ OnText /\ data[offset + 1] # Nul
  /\ LET next == GetNextArgument(data, offset + 1)
         text == CString(next.buf, next.begin)
     IN /\ data' = next.buf
        /\ offset' = IF next.src = Wild THEN Wild ELSE next.src - 1
        /\ Answer(NextType,
                  CASE NextType = "STRING" -> text
                    [] NextType = "INTEGER" -> IF next.ok THEN Strtoul(text) ELSE Untouched)
  /\ UNCHANGED <<kind, size, writer, stage, packed, total, overflow>>

-----------------------------------------------------------------------------
(* Unpacking binary.                                                       *)

\* An argument begins at offset, and all of it is in the buffer.
OnArgument ==
  /\ offset < Len(data) /\ Len(data[offset + 1]) = 3
  /\ offset + HeadBytes + data[offset + 1][2] <= Len(data)

Matches(t) ==
  LET head == data[offset + 1]
  IN /\ head[3] = t
     /\ t = "INTEGER" => head[2] = IntBytes
     /\ t = "STRING" => head[2] >= 1 /\ data[offset + HeadBytes + head[2]] = Nul

\* An argument of another type stays where it is.
UnshiftBinary(t) ==
  LET body == offset + HeadBytes
      length == data[offset + 1][2]
      value == CASE t = "INTEGER" -> data[body + 1][2]
                 [] t = "STRING"  -> CString(data, body + 1)
                 [] t = "DATA"    -> SubSeq(data, body + 1, body + length)
  IN /\ Reading /\ kind = "binary" /\ OnArgument
     /\ IF Matches(t) THEN offset' = body + length /\ Answer(t, value)
                      ELSE UNCHANGED offset /\ Answer(t, Untouched)
     /\ UNCHANGED <<kind, data, size, writer, stage, packed, total, overflow>>

\* The reader follows NULL or bytes that nobody wrote.
UnshiftWild ==
  /\ Reading
  /\ ~(IF kind = "text" THEN OnText ELSE OnArgument)
  /\ stage' = "crashed"
  /\ UNCHANGED <<kind, data, size, offset, writer, history>>

-----------------------------------------------------------------------------
CommandNext ==
  \/ \E a \in IF kind = "text" THEN TextArg ELSE BinaryArg : Push(a)
  \/ Flush
  \/ ReadHere \/ Receive \/ Copy
  \/ UnshiftNothing \/ UnshiftText \/ UnshiftWild
  \/ \E t \in Type : UnshiftBinary(t)

CommandSpec == CommandInit /\ [][CommandNext]_commandVars

-----------------------------------------------------------------------------
(* Properties.                                                             *)

CommandTypeOK ==
  /\ kind \in {"text", "binary"}
  /\ size \in 0 .. SizeMod - 1 /\ total \in Nat
  /\ offset = Wild \/ offset \in 0 .. Len(data)
  /\ writer \in Seq(TextArg \cup BinaryArg) /\ packed \in Seq(TextArg \cup BinaryArg)
  /\ asked \in Seq(Type) /\ Len(asked) = Len(results) /\ Len(results) <= Len(packed)
  /\ overflow \in BOOLEAN
  /\ stage \in {"pack", "unpack", "received", "crashed"}

\* The arguments are such that Arg::size holds their sizes.  Nothing in the code sees to it:
\* a string of 65535 bytes gets the size 0, _flush makes room for 8 bytes, and sprintf runs
\* past them.
Narrow == \A i \in 1 .. Len(packed) : Wide(packed[i]) < SizeMod

\* The room that _flush makes holds what it then writes, whatever mix of narrow arguments it
\* is given and however they are flushed.  (The longest number, with its sign, a blank before
\* it and the NUL behind it, takes all of it.)
NoOverflow == ~overflow

\* The strings that the text format can carry: not empty, and no quote where the reader
\* looks for one.
Faithful(a) ==
  kind = "text" /\ a.type = "STRING" =>
    a.body # <<>> /\ IF Has(a.body, Blank) THEN ~Has(a.body, Quote) ELSE a.body[1] # Quote

\* What was packed is what is unpacked, in order, here, in a copy and at the other end: an
\* unshift stores the next argument if it has the type that is asked for and otherwise leaves
\* it to a later one, and the reader never goes where nothing was written - as long as the
\* size of the command fits into its 16 bits, also where the estimate of _flush did not.
RoundTrip ==
  (total < SizeMod /\ \A i \in 1 .. Len(packed) : Faithful(packed[i])) =>
    /\ stage # "crashed"
    /\ \A i \in 1 .. Len(results) :
         LET stored == {j \in 1 .. i - 1 : results[j] # Untouched}
             next == packed[Cardinality(stored) + 1]
         IN results[i] = IF asked[i] = next.type THEN next.body ELSE Untouched
=============================================================================

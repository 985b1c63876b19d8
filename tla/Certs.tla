------------------------------- MODULE Certs -------------------------------
(***************************************************************************)
(* SongCert and FileCert (filecert.cc, filecert.hh): how a certificate is  *)
(* signed, written to a buffer and read back.                              *)
(*                                                                         *)
(* A buffer is a sequence of cells: the head of a song certificate is one  *)
(* cell, so is a character, a NUL, and the signature.  A signature is the  *)
(* HMAC of what was fed to it and stands here for that very input.  The    *)
(* size a reader is told is looked at once; what it reads then depends on  *)
(* the memory alone, which goes on with NULs here.                         *)
(***************************************************************************)
EXTENDS Integers, Sequences, SequencesExt

CONSTANTS Fields,     \* the texts of a song certificate, in the order written
          CertTexts,      \* the strings a caller sets them to
          CertIds, Versions

ASSUME CertsAssumption ==
  /\ Fields \in Nat \ {0}
  /\ CertTexts \subseteq Seq({"a", "b"}) /\ 0 \in Versions

NUL == "0"
NULL == <<"NULL">>
Unsigned == << <<>> >>       \* zeroes, which no input was hashed to
HEAD == 1                  \* cells of a SongCertHead
SIGNATURE == 1             \* cells of a signature
Places == 1..Fields

VARIABLES song,      \* a SongCert: head, texts and signature
          memory,    \* the buffer, from where copyToBytes has written on
          copied,    \* history: the SongCert that was written
          file,      \* a FileCert
          sent       \* the FileCert that was written

certVars == <<song, memory, copied, file, sent>>

NewSong(id) == [version |-> 0, id |-> id, texts |-> [i \in Places |-> NULL],
                signature |-> Unsigned]
NewFile(id) == [version |-> 0, id |-> id, turned |-> FALSE, signature |-> Unsigned]

CertsInit ==
  \E id \in CertIds :
    /\ song = NewSong(id) /\ copied = NewSong(id) /\ memory = <<>>
    /\ file = NewFile(id) /\ sent = NewFile(id)

-----------------------------------------------------------------------------
Content(text) == IF text = NULL THEN <<>> ELSE text
TextCells(c) == FlattenSeq([i \in Places |-> Append(Content(c.texts[i]), NUL)])
Head1(c) == << <<c.version, c.id>> >>

(* A mutant of SongSignature: the texts without their NULs                 *)
SignatureOfLetters(c) == Head1(c) \o FlattenSeq([i \in Places |-> Content(c.texts[i])])

(* createSignature feeds the head and then every text with its NUL         *)
SongSignature(c) == Head1(c) \o TextCells(c)
SongValid(c) == c.signature = << SongSignature(c) >>

(* A mutant of ByteSize: strlen() without the NUL                          *)
ByteSizeTight(c) ==
  LET size[i \in 0..Fields] ==
        IF i = 0 THEN HEAD + SIGNATURE ELSE size[i - 1] + Len(Content(c.texts[i]))
  IN  size[Fields]

(* getByteSize                                                             *)
ByteSize(c) ==
  LET size[i \in 0..Fields] ==
        IF i = 0 THEN HEAD + SIGNATURE ELSE size[i - 1] + Len(Content(c.texts[i])) + 1
  IN  size[Fields]

(* copyToBytes: the version becomes 0, the texts follow the head, and then *)
(* the signature, which the object itself does not keep                    *)
Fresh(c) == [c EXCEPT !.version = 0]
(* A mutant of Written: signed with the version it had                     *)
WrittenSignedFirst(c) == Head1(Fresh(c)) \o TextCells(c) \o << SongSignature(c) >>

Written(c) == Head1(Fresh(c)) \o TextCells(c) \o << SongSignature(Fresh(c)) >>

SongCopyToBytes(size) ==
  /\ size >= ByteSize(song)
  /\ song' = Fresh(song) /\ copied' = Fresh(song)
  /\ memory' = Written(song)
  /\ UNCHANGED <<file, sent>>

(* getFromBytes: the texts up to the next NUL; NulAt(m)[i] is the cell of  *)
(* the i-th                                                                *)
Cell(m, i) == IF i \in DOMAIN m THEN m[i] ELSE NUL
NulAt(m) ==
  LET nul[i \in 0..Fields] ==
        IF i = 0 THEN HEAD
        ELSE CHOOSE e \in (nul[i - 1] + 1)..(nul[i - 1] + 1 + Len(m)) :
               /\ Cell(m, e) = NUL
               /\ \A g \in (nul[i - 1] + 1)..(e - 1) : Cell(m, g) # NUL
  IN  nul

ReadBack(m) ==
  [version |-> m[1][1], id |-> m[1][2],
   texts |-> [i \in Places |-> SubSeq(m, NulAt(m)[i - 1] + 1, NulAt(m)[i] - 1)],
   signature |-> <<Cell(m, NulAt(m)[Fields] + 1)>>]

SongGetFromBytes(size) ==
  /\ memory # <<>>
  /\ size >= HEAD + SIGNATURE + Fields
  /\ song' = ReadBack(memory)
  /\ UNCHANGED <<memory, copied, file, sent>>

(* set_artist, set_title, ..., and a head that the caller fills in         *)
SetText(i, text) ==
  /\ song' = [song EXCEPT !.texts[i] = text]
  /\ UNCHANGED <<memory, copied, file, sent>>
SetHead(v, id) ==
  /\ song' = [song EXCEPT !.version = v, !.id = id]
  /\ UNCHANGED <<memory, copied, file, sent>>

-----------------------------------------------------------------------------
(* FileCert: signed as it lies in memory, numbers turned by ntoh included; *)
(* copyToBytes signs the object and then copies it.  All of the fields are *)
(* covered where the struct has 68 bytes (filecert.cc:73)                  *)
FileContent(f) == <<f.version, f.id, f.turned>>
FileValid(f) == f.signature = <<FileContent(f)>>
FileSigned(f) == [f EXCEPT !.version = 0, !.signature = << <<0, f.id, f.turned>> >>]

FileCopyToBytes ==
  /\ file' = FileSigned(file) /\ sent' = FileSigned(file)
  /\ UNCHANGED <<song, memory, copied>>
FileGetFromBytes ==
  /\ file' = sent
  /\ UNCHANGED <<song, memory, copied, sent>>
FileNtoh ==
  /\ file' = [file EXCEPT !.turned = ~ @]
  /\ UNCHANGED <<song, memory, copied, sent>>
FileSet(v, id) ==
  /\ file' = [file EXCEPT !.version = v, !.id = id]
  /\ UNCHANGED <<song, memory, copied, sent>>

Sizes == {HEAD + SIGNATURE + Fields - 1, HEAD + SIGNATURE + Fields, ByteSize(song)}

CertsNext ==
  \/ \E size \in Sizes : SongCopyToBytes(size) \/ SongGetFromBytes(size)
  \/ \E i \in Places, text \in CertTexts : SetText(i, text)
  \/ \E v \in Versions, id \in CertIds : SetHead(v, id) \/ FileSet(v, id)
  \/ FileCopyToBytes \/ FileGetFromBytes \/ FileNtoh

CertsSpec == CertsInit /\ [][CertsNext]_certVars

-----------------------------------------------------------------------------
CertsTypeOK ==
  /\ \A c \in {song, copied} :
       /\ c.version \in Versions /\ c.id \in CertIds
       /\ \A i \in Places : c.texts[i] \in CertTexts \cup {<<>>, NULL}
  /\ \A f \in {file, sent} : f.version \in Versions /\ f.id \in CertIds

(* What was written reads back as it was, a text that was never set as an  *)
(* empty one, and with a signature that is valid, whatever version the     *)
(* certificate had; the FileCert written is valid as well                  *)
CertRoundTrip ==
  /\ memory # <<>> =>
       /\ SongValid(ReadBack(memory))
       /\ ReadBack(memory).id = copied.id
       /\ \A i \in Places : ReadBack(memory).texts[i] = Content(copied.texts[i])
  /\ sent.signature # Unsigned => FileValid(sent)

(* getByteSize is what copyToBytes writes: a buffer of that size is        *)
(* neither overrun nor left with garbage, and the reader ends at its end   *)
SizeIsExact ==
  /\ Len(Written(song)) = ByteSize(song)
  /\ NulAt(Written(song))[Fields] + SIGNATURE = ByteSize(song)

(* A signature tells every two certificates apart: a character does not    *)
(* move from one text to the next unnoticed                                *)
SignatureTells ==
  SongSignature(song) = SongSignature(copied)
    => \A i \in Places : Content(song.texts[i]) = Content(copied.texts[i])

(* The invariants together                                                 *)
CertsSound == CertsTypeOK /\ SizeIsExact /\ CertRoundTrip /\ SignatureTells
=============================================================================

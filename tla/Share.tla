------------------------------- MODULE Share -------------------------------
(***************************************************************************)
(* The files that the clients of one server share (share.cc, file.cc), the *)
(* certificates that name them, and the jobs CheckIntegrity and            *)
(* TimeoutSongCertificates (scheduled.cc).  All but File and the           *)
(* certificates stands under "#if 0" at this commit and is specified as    *)
(* written, for the build with ALL_FILES_SHAREABLE (Makefile:22).          *)
(*                                                                         *)
(* A file certificate names a song by its id; the text that becomes the    *)
(* name of the file stands in the song's certificate, which the server     *)
(* caches when a client sends it and forgets after a while.  Dates are     *)
(* compared as they stand in the packet: Raw gives the number the host     *)
(* reads.  File::Parse returns 0 whenever it gets to its end, which        *)
(* AddFile takes for a failure (file.cc:51, share.cc:581); ParseResult is  *)
(* that constant, so that the rest can be specified as well.               *)
(***************************************************************************)
EXTENDS Integers, FiniteSets

CONSTANTS Sharers, Songs, Texts,
          PlainNames,      \* names of files added without a certificate
          Blocked,         \* BlockedSongs
          CanIdentify,     \* clients with the capability CAN_IDENTIFY
          FileCerts, SongCerts,   \* the certificates that clients have
          Raw, MinCertDate, SongCertTimeout,
          MaxSharedFiles,
          ParseResult,     \* what File::Parse returns at its end
          CounterSize,     \* the counters count modulo this
          Objects,         \* bound: addresses of File objects
          MaxNow           \* bound on the clock

NoCert == [text |-> "none", end |-> 0, used |-> 0]
NoSong == "0"

VARIABLES now,          \* NOW
          songCerts,    \* SongCertificates
          heap,         \* heap[f]: the File at address f
          files,        \* files[c]: Client::files
          fileHash,     \* FileIDTable: pairs of a file and a client
          totalFiles,   \* Server::TotalFiles
          unseen,       \* history: files added since the last adjustment
          answer        \* what the last command was answered

shareVars == <<now, songCerts, heap, files, fileHash, totalFiles, unseen, answer>>

FileNames == ({NoSong} \X PlainNames) \cup (Songs \X Texts)
FileRecords == [name : FileNames, song : Songs \cup {NoSong}]
NoFile == [name |-> <<NoSong, "none">>, song |-> NoSong]
FileCert == [song : Songs, signed : BOOLEAN, end : DOMAIN Raw, date : DOMAIN Raw]
SongCert == [song : Songs, signed : BOOLEAN, end : DOMAIN Raw, date : DOMAIN Raw,
             text : Texts]
CachedCert == [text : Texts, end : DOMAIN Raw, used : 0..MaxNow]

ASSUME ShareAssumption ==
  /\ CounterSize \in Nat \ {0}
  /\ Objects \subseteq Nat /\ IsFiniteSet(Objects) /\ Cardinality(Objects) < CounterSize
  /\ MaxNow \in Nat /\ MaxSharedFiles \in Nat /\ ParseResult \in BOOLEAN
  /\ NoFile.name \notin FileNames
  /\ FileCerts \subseteq FileCert /\ SongCerts \subseteq SongCert

ShareTypeOK ==
  /\ now \in 0..MaxNow
  /\ songCerts \in [Songs -> CachedCert \cup {NoCert}]
  /\ heap \in [Objects -> FileRecords \cup {NoFile}]
  /\ files \in [Sharers -> SUBSET Objects]
  /\ fileHash \subseteq Objects \X Sharers
  /\ totalFiles \in 0..(CounterSize - 1)
  /\ unseen \in 0..(CounterSize - 1)
  /\ answer \in {"nothing", "error", "query", "song_cert", "removed"}

ShareInit ==
  /\ now = 0
  /\ songCerts = [s \in Songs |-> NoCert]
  /\ heap = [f \in Objects |-> NoFile]
  /\ files = [c \in Sharers |-> {}]
  /\ fileHash = {} /\ totalFiles = 0 /\ unseen = 0
  /\ answer = "nothing"

-----------------------------------------------------------------------------
(* File::Parse: the sizes below 3 are refused                              *)
Parses(size) == size >= 3 /\ ParseResult

(* A mutant of AddFile: no limit                                           *)
AddFileUnlimited(c, name, song, size) ==
  \E f \in Objects :
    /\ heap[f] = NoFile /\ \A g \in Objects : heap[g] = NoFile => f <= g
    /\ heap' = [heap EXCEPT ![f] = [name |-> name, song |-> song]]
    /\ files' = [files EXCEPT ![c] = @ \cup {f}]
    /\ fileHash' = fileHash \cup {<<f, c>>}
    /\ unseen' = (unseen + 1) % CounterSize
    /\ answer' = "nothing"

(* AddFile: new File (at a free address), Parse, into the list of the      *)
(* client (add_file, external) and into the table of hashes.  The index of *)
(* words (share.cc:640-641), from which ~File takes nothing (file.cc:23),  *)
(* is left out: tokenize yields no word (file.cc:183), so it stays empty.  *)
AddFile(c, name, song, size) ==
  IF Cardinality(files[c]) > MaxSharedFiles
    THEN answer' = "nothing" /\ UNCHANGED <<heap, files, fileHash, unseen>>
  ELSE IF ~ Parses(size)
    THEN answer' = "error" /\ UNCHANGED <<heap, files, fileHash, unseen>>
  ELSE \E f \in Objects :
         /\ heap[f] = NoFile
         /\ \A g \in Objects : heap[g] = NoFile => f <= g
         /\ heap' = [heap EXCEPT ![f] = [name |-> name, song |-> song]]
         /\ files' = [files EXCEPT ![c] = @ \cup {f}]
         /\ fileHash' = fileHash \cup {<<f, c>>}
         /\ unseen' = (unseen + 1) % CounterSize
         /\ answer' = "nothing"

AddPlainFile(c) ==
  /\ \E n \in PlainNames, size \in {2, 3} : AddFile(c, <<NoSong, n>>, NoSong, size)
  /\ UNCHANGED <<now, songCerts, totalFiles>>

(* AddPathBlock: every file of the block in its turn; those that cannot be *)
(* parsed are answered with an error                                       *)
AddPathBlock(c) ==
  \E new \in SUBSET Objects, name \in PlainNames :
    /\ new # {} /\ Cardinality(files[c] \cup new) <= MaxSharedFiles + 1
    /\ \A f \in new : heap[f] = NoFile /\ \A g \in Objects \ new : heap[g] = NoFile => f < g
    /\ ParseResult
    /\ heap' = [f \in Objects |-> IF f \in new THEN [name |-> <<NoSong, name>>, song |-> NoSong]
                                    ELSE heap[f]]
    /\ files' = [files EXCEPT ![c] = @ \cup new]
    /\ fileHash' = fileHash \cup (new \X {c})
    /\ unseen' = (unseen + Cardinality(new)) % CounterSize
    /\ answer' \in {"error", "nothing"}
    /\ UNCHANGED <<now, songCerts, totalFiles>>

-----------------------------------------------------------------------------
(* The checks of a certificate, which all end in a query to the server of  *)
(* certificates if the client can take its answer                          *)
Outdated(cert) == Raw[cert.end] < now \/ (MinCertDate > 0 /\ Raw[cert.date] < MinCertDate)
Refused(cert) == ~ cert.signed \/ Outdated(cert)

Turned(said) ==
  /\ answer' = said
  /\ UNCHANGED <<now, songCerts, heap, files, fileHash, totalFiles, unseen>>

AskFor(c) == IF c \in CanIdentify THEN "query" ELSE "nothing"

(* Use of a cached certificate notes the time; its own dates are not       *)
(* looked at any more                                                      *)
ShareNamed(c, song, cert, size) ==
  /\ songCerts' = [songCerts EXCEPT ![song] = [cert EXCEPT !.used = now]]
  /\ AddFile(c, <<song, cert.text>>, song, size)
  /\ UNCHANGED <<now, totalFiles>>

Identified(c, fc, size) ==
  \/ Refused(fc) /\ Turned(AskFor(c))
  \/ ~ Refused(fc) /\ fc.song \in Blocked /\ Turned("nothing")
  \/ /\ ~ Refused(fc) /\ fc.song \notin Blocked
     /\ IF songCerts[fc.song] = NoCert THEN Turned("song_cert")
        ELSE ShareNamed(c, fc.song, songCerts[fc.song], size)

(* AddSong, and AddSong2, which takes for the size the four bytes where it *)
(* expects both the duration and the start of the certificate: version and *)
(* padding, which a certificate that was made by copyToBytes has as 0      *)
AddSong(c, fc, size) == Identified(c, fc, size)
AddSong2(c, fc) == Identified(c, fc, 0)

(* AddSongCert, AddSongCert2: the song's certificate comes along and is    *)
(* only looked at if none is cached.  It can be cut short (THROW).         *)
WithSongCert(c, fc, sc, size) ==
  \/ Refused(fc) /\ Turned(AskFor(c))
  \/ ~ Refused(fc) /\ fc.song \in Blocked /\ Turned("nothing")
  \/ /\ ~ Refused(fc) /\ fc.song \notin Blocked /\ songCerts[fc.song] # NoCert
     /\ ShareNamed(c, fc.song, songCerts[fc.song], size)
  \/ /\ ~ Refused(fc) /\ fc.song \notin Blocked /\ songCerts[fc.song] = NoCert
     /\ \/ sc.song # fc.song /\ Turned("nothing")
        \/ sc.song = fc.song /\ Refused(sc) /\ Turned(AskFor(c))
        \/ /\ sc.song = fc.song /\ ~ Refused(sc)
           /\ ShareNamed(c, sc.song, [text |-> sc.text, end |-> sc.end, used |-> now], size)

AddSongCert(c, fc, sc, size) == WithSongCert(c, fc, sc, size)
AddSongCert2(c, fc, sc) == WithSongCert(c, fc, sc, 0)

-----------------------------------------------------------------------------

(* Mutants of RemoveFiles: the table of hashes keeps the files; they are   *)
(* not counted                                                             *)
RemoveFilesKeepsHash(c, gone, said) ==
  /\ heap' = [f \in Objects |-> IF f \in gone THEN NoFile ELSE heap[f]]
  /\ files' = [files EXCEPT ![c] = @ \ gone]
  /\ totalFiles' = (totalFiles - Cardinality(gone)) % CounterSize
  /\ answer' = said
  /\ UNCHANGED <<now, songCerts, unseen, fileHash>>

RemoveFilesUncounted(c, gone, said) ==
  /\ heap' = [f \in Objects |-> IF f \in gone THEN NoFile ELSE heap[f]]
  /\ files' = [files EXCEPT ![c] = @ \ gone]
  /\ fileHash' = {p \in fileHash : p[1] \notin gone}
  /\ answer' = said
  /\ UNCHANGED <<now, songCerts, unseen, totalFiles>>

(* RemoveFile, for a set of the client's files: out of the list, out of    *)
(* the table of hashes, off the counter, and freed                         *)
RemoveFiles(c, gone, said) ==
  /\ heap' = [f \in Objects |-> IF f \in gone THEN NoFile ELSE heap[f]]
  /\ files' = [files EXCEPT ![c] = @ \ gone]
  /\ fileHash' = {p \in fileHash : p[1] \notin gone}
  /\ totalFiles' = (totalFiles - Cardinality(gone)) % CounterSize
  /\ answer' = said
  /\ UNCHANGED <<now, songCerts, unseen>>

(* The client's RemoveFile(name), external, takes a file of that name *)
RemoveFile(c, name) ==
  \E f \in files[c] : heap[f].name = name /\ RemoveFiles(c, {f}, "nothing")

RemoveSong(c, fc) ==
  LET name == <<fc.song, songCerts[fc.song].text>>
      mine == {f \in files[c] : heap[f].name = name}
  IN IF ~ fc.signed \/ songCerts[fc.song] = NoCert \/ mine = {}
     THEN Turned("nothing")
     ELSE RemoveFile(c, name)

RemoveAllFiles(c) == RemoveFiles(c, files[c], "removed")

(* CheckIntegrity, the count of files *)
Counted == Cardinality(UNION {files[c] : c \in Sharers})

CheckIntegrity ==
  /\ Counted # totalFiles
  /\ totalFiles' = Counted /\ unseen' = 0
  /\ UNCHANGED <<now, songCerts, heap, files, fileHash, answer>>

(* TimeoutSongCertificates erases the entry its iterator stands on: what   *)
(* it finds after the first one is undefined, and any of the others may be *)
(* skipped                                                                 *)
TimeoutSongCertificates ==
  LET stale == {s \in Songs : /\ songCerts[s] # NoCert
                              /\ \/ now - songCerts[s].used > SongCertTimeout
                                 \/ Raw[songCerts[s].end] < now}
  IN \E gone \in SUBSET stale \ {{}} :
       /\ songCerts' = [s \in Songs |-> IF s \in gone THEN NoCert ELSE songCerts[s]]
       /\ UNCHANGED <<now, heap, files, fileHash, totalFiles, unseen, answer>>

Clock ==
  /\ now < MaxNow /\ now' = now + 1
  /\ UNCHANGED <<songCerts, heap, files, fileHash, totalFiles, unseen, answer>>

ShareNext ==
  \/ \E c \in Sharers :
       \/ AddPlainFile(c) \/ AddPathBlock(c) \/ RemoveAllFiles(c)
       \/ \E n \in FileNames : RemoveFile(c, n)
       \/ \E fc \in FileCerts :
            \/ AddSong(c, fc, 3) \/ AddSong2(c, fc) \/ RemoveSong(c, fc)
            \/ \E sc \in SongCerts : AddSongCert(c, fc, sc, 3) \/ AddSongCert2(c, fc, sc)
  \/ CheckIntegrity \/ TimeoutSongCertificates \/ Clock

ShareSpec == ShareInit /\ [][ShareNext]_shareVars

-----------------------------------------------------------------------------
(* The table that downloads are looked up in holds exactly the files on    *)
(* the lists of the clients, none of them freed, whichever way they came   *)
(* and went: beside the lists, and the index of words that stays empty, it *)
(* is all that a file's memory is reached by.                              *)
HashIsLists ==
  /\ fileHash = {p \in Objects \X Sharers : p[1] \in files[p[2]]}
  /\ \A p \in fileHash : heap[p[1]] # NoFile
  /\ \A c, d \in Sharers : c # d => files[c] \cap files[d] = {}

(* The statistics miss exactly the files added since the counters were     *)
(* last adjusted: AddFile counts elsewhere, and a removal is counted       *)
(* whether or not the file was.                                            *)
TotalLags == (totalFiles + unseen - Counted) % CounterSize = 0

(* A client never shares more than one file above the limit. *)
OneAboveTheLimit == \A c \in Sharers : Cardinality(files[c]) <= MaxSharedFiles + 1

(* Lists, hash, heap and totals change together on every way a file comes  *)
(* or goes, and nobody shares more than the limit and one (share.cc:570,   *)
(* 690-747, scheduled.cc:87-92).                                           *)
ShareSound ==
  /\ ShareTypeOK
  /\ HashIsLists /\ TotalLags /\ OneAboveTheLimit
=============================================================================

------------------------------ MODULE MCStores ------------------------------
(***************************************************************************)
(* The components that keep records for others, each on a small instance.  *)
(* They share no variable, so their product would only multiply the        *)
(* states: a behaviour chooses the one that moves at its start, and the    *)
(* others stay as they begin.  A state of one component occurs in some     *)
(* behaviour, so an invariant that holds here holds of each of them.       *)
(***************************************************************************)
EXTENDS Notify, Channels, Ignores, Share, Sockets, Codecs

VARIABLE part   \* the component that moves

allVars == <<notifyVars, channelVars, ignoreVars, shareVars, socketVars, certVars, commandVars, part>>

StoresInit ==
  /\ part \in {"notify", "channels", "ignores", "share", "sockets", "certs", "command"}
  /\ NotifyInit /\ ChannelsInit /\ IgnoresInit /\ ShareInit /\ SocketsInit /\ CertsInit /\ CommandInit
  /\ part # "ignores" => table = {}
  /\ part # "command" => kind = "text"

\* A command that has been read to its end is not used any more, and one that wrote behind its
\* buffer does what nobody can say.
Ended == part = "command" /\ (stage # "pack" \/ overflow) /\ UNCHANGED allVars

StoresNext ==
  \/ /\ part = "notify" /\ NotifyNext
     /\ UNCHANGED <<part, channelVars, ignoreVars, shareVars, socketVars, certVars, commandVars>>
  \/ /\ part = "channels" /\ ChannelsNext
     /\ UNCHANGED <<part, notifyVars, ignoreVars, shareVars, socketVars, certVars, commandVars>>
  \/ /\ part = "ignores" /\ IgnoresNext
     /\ UNCHANGED <<part, notifyVars, channelVars, shareVars, socketVars, certVars, commandVars>>
  \/ /\ part = "share" /\ ShareNext
     /\ UNCHANGED <<part, notifyVars, channelVars, ignoreVars, socketVars, certVars, commandVars>>
  \/ /\ part = "sockets" /\ SocketsNext
     /\ UNCHANGED <<part, notifyVars, channelVars, ignoreVars, shareVars, certVars, commandVars>>
  \/ /\ part = "certs" /\ CertsNext
     /\ UNCHANGED <<part, notifyVars, channelVars, ignoreVars, shareVars, socketVars, commandVars>>
  \/ /\ part = "command" /\ CommandNext
     /\ UNCHANGED <<part, notifyVars, channelVars, ignoreVars, shareVars, socketVars, certVars>>
  \/ Ended

StoresSpec ==
  /\ StoresInit /\ [][StoresNext]_allVars

-----------------------------------------------------------------------------
MCHome == [r1 |-> "A", r2 |-> "B", op |-> "A"]
MCLevel == [r1 |-> 1, r2 |-> 1, op |-> 4]

\* Numbers of a packet as the host reads them: 1 and 2 change places.
MCRaw == (0 :> 0) @@ (1 :> 2) @@ (2 :> 1) @@ (3 :> 3)

\* One good certificate, one of a song that is blocked, one unsigned and one too old.
MCFileCerts == {[song |-> "s", signed |-> TRUE, end |-> 1, date |-> 1],
                [song |-> "b", signed |-> TRUE, end |-> 1, date |-> 1],
                [song |-> "s", signed |-> FALSE, end |-> 1, date |-> 1],
                [song |-> "s", signed |-> TRUE, end |-> 1, date |-> 0]}

\* Two texts for one song, one of whose certificates ends early, and another song.
MCSongCerts == {[song |-> "s", signed |-> TRUE, end |-> 1, date |-> 1, text |-> "t"],
                [song |-> "s", signed |-> TRUE, end |-> 2, date |-> 1, text |-> "u"],
                [song |-> "b", signed |-> TRUE, end |-> 1, date |-> 1, text |-> "t"]}

MCCertTexts == {<<>>, <<"a">>, <<"a", "a">>}

x == <<"x">>
Digit == <<"7">>

MCNumeral == {Digit}
MCChar == {x, Digit, Blank, Quote, Nul}

Integer(digits) == [type |-> "INTEGER", body |-> digits]
String(chars) == [type |-> "STRING", body |-> chars]

\* One byte more than a Size can count to, with the NUL, when SizeMod is 30.
Long == [i \in 1 .. 29 |-> x]

\* A short number and the longest, -2147483648; strings with and without blanks and quotes.
MCTextArg == {Integer(<<Digit>>), Integer([i \in 1 .. 11 |-> Digit])}
             \cup {String(s) : s \in {<<>>, <<x>>, <<Blank>>, <<x, Blank, x>>, <<Quote>>,
                                      <<x, Quote>>, <<Quote, x>>, <<Quote, Blank>>, Long}}

MCBinaryArg == {Integer(<<Digit>>), String(<<>>), String(<<x, Blank>>),
                [type |-> "DATA", body |-> <<Nul, x>>], [type |-> "DATA", body |-> <<>>],
                String(Long), [type |-> "DATA", body |-> Long \o <<Nul, x>>]}
=============================================================================

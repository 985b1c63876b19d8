------------------------------ MODULE Codecs --------------------------------
(***************************************************************************)
(* The two codecs of the server: certificates are written as bytes to be   *)
(* signed and sent, arguments as the text or the bytes of a command.       *)
(***************************************************************************)
EXTENDS Certs, Command

\* Both codecs: what is written fits the room that was made for it and reads back as what
\* it was, in a command (command.cc:92-170, 201-270, functions.cc:63-110), unless one of its
\* arguments is longer than Arg::size can say, and in a certificate (filecert.cc:129-330),
\* where it also tells two certificates apart.
FitsAndReadsBack ==
  /\ Narrow => CommandTypeOK /\ NoOverflow /\ RoundTrip
  /\ CertsSound
=============================================================================

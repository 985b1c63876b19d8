------------------------------ MODULE Channels ------------------------------
(***************************************************************************)
(* Chat channels (channel.cc, channel.hh) of two linked servers.  The      *)
(* class Channel is compiled; the Server operations on it stand under      *)
(* "#ifdef WORKS" at this commit and are specified as they are written.    *)
(*                                                                         *)
(* Three records of who is where must agree: a channel's members, every    *)
(* user's own list of channels, and the members the other server has for   *)
(* its copy of the channel, which it only learns from messages.  Every     *)
(* SAY to a user may throw (User::write, user.cc:34-37, does nothing else  *)
(* as compiled) and then the rest of the operation is not done.            *)
(***************************************************************************)
EXTENDS Sequences, Integers, FiniteSets

CONSTANTS Servers, Chans,
          ChatUsers,        \* the users of all servers
          Home,             \* Home[u]: the server u is logged in to
          Level,            \* Level[u]: LEECH (0) .. ELITE (4)
          Muzzled,          \* users with flags.bit.muzzled
          BadNames,         \* names with a bad word or a blank
          AllowNewChannels,
          Unreachable,      \* users to whom every write throws
          MaxWire,          \* bound on the messages of a link
          MaxLinks          \* bound on the entries of a channel in a list

MODERATOR == 2
ADMINISTRATOR == 3
ELITE == 4

ASSUME ChannelsAssumption ==
  /\ Home \in [ChatUsers -> Servers]
  /\ Level \in [ChatUsers -> 0..ELITE]
  /\ MaxWire \in Nat /\ MaxLinks \in Nat

VARIABLES here,         \* users that are logged in
          exists,       \* exists[s]: Server::channels
          required,     \* required[s][c]: the level it takes to enter
          members,      \* members[s][c]: Channel::members
          links,        \* links[u][c]: entries of c in the list of u
          known,        \* known[s]: users of other servers s has heard of
          wire,         \* wire[s]: messages on their way to s, in order
          unannounced   \* history: <<u, c>> that u left with nobody told

channelVars == <<here, exists, required, members, links, known, wire, unannounced>>

Messages == [type : {"join", "part"}, user : ChatUsers, chan : Chans]
            \cup [type : {"hello", "gone"}, user : ChatUsers]

ChannelsTypeOK ==
  /\ here \subseteq ChatUsers
  /\ exists \in [Servers -> SUBSET Chans]
  /\ required \in [Servers -> [Chans -> 0..ELITE]]
  /\ members \in [Servers -> [Chans -> SUBSET ChatUsers]]
  /\ links \in [ChatUsers -> [Chans -> Nat]]
  /\ known \in [Servers -> SUBSET ChatUsers]
  /\ wire \in [Servers -> Seq(Messages)]
  /\ unannounced \subseteq ChatUsers \X Chans

ChannelsInit ==
  /\ here = {}
  /\ exists = [s \in Servers |-> {}]
  /\ required = [s \in Servers |-> [c \in Chans |-> 0]]
  /\ members = [s \in Servers |-> [c \in Chans |-> {}]]
  /\ links = [u \in ChatUsers |-> [c \in Chans |-> 0]]
  /\ known = [s \in Servers |-> {}]
  /\ wire = [s \in Servers |-> <<>>]
  /\ unannounced = {}

-----------------------------------------------------------------------------
(* BroadcastRemote: to every other server *)
Broadcast(s, ms) == [t \in Servers |-> IF t = s THEN wire[t] ELSE wire[t] \o ms]

RoomOnWire(s) == \A t \in Servers \ {s} : Len(wire[t]) < MaxWire

(* One SAY to each of a set of users *)
Throws(us) == us \cap Unreachable # {}

(* Channel::insert, remove and clear, before they tell anybody             *)
Inserted(s, u, c) == [members EXCEPT ![s][c] = @ \cup {u}]
Removed(s, u, c) == [members EXCEPT ![s][c] = @ \ {u}]
Emptied(s, c) == [members EXCEPT ![s][c] = {}]

(* A mutant of Join: the list after everybody was told                     *)
JoinTellsFirst(u, c) ==
  LET s == Home[u] IN
  /\ u \in here /\ AllowNewChannels /\ u \notin members[s][c]
  /\ links[u][c] < MaxLinks /\ RoomOnWire(s)
  /\ exists' = [exists EXCEPT ![s] = @ \cup {c}]
  /\ members' = [members EXCEPT ![s][c] = @ \cup {u}]
  /\ IF Throws(members[s][c] \cup {u}) THEN UNCHANGED <<links, wire>>
     ELSE /\ links' = [links EXCEPT ![u][c] = @ + 1]
          /\ wire' = Broadcast(s, <<[type |-> "join", user |-> u, chan |-> c]>>)
  /\ UNCHANGED <<here, required, known, unannounced>>

(* JoinChannel.  A user who is in already is added to the list and taken   *)
(* out again.  Channel::insert enters the user before it tells anybody.    *)
Join(u, c) ==
  LET s == Home[u] IN
  /\ u \in here /\ u \notin Muzzled
  /\ \/ c \in exists[s] /\ Level[u] >= required[s][c]
     \/ /\ c \notin exists[s] /\ AllowNewChannels
        /\ Level[u] >= MODERATOR \/ c \notin BadNames
  /\ u \notin members[s][c]
  /\ links[u][c] < MaxLinks /\ RoomOnWire(s)
  /\ exists' = [exists EXCEPT ![s] = @ \cup {c}]
  /\ links' = [links EXCEPT ![u][c] = @ + 1]
  /\ members' = Inserted(s, u, c)
  /\ wire' = IF Throws(members[s][c] \cup {u}) THEN wire
             ELSE Broadcast(s, <<[type |-> "join", user |-> u, chan |-> c]>>)
  /\ UNCHANGED <<here, required, known, unannounced>>

(* A mutant of Part: the other servers are not told                        *)
PartForgetsRemote(u, c) ==
  /\ u \in here /\ u \in members[Home[u]][c]
  /\ members' = [members EXCEPT ![Home[u]][c] = @ \ {u}]
  /\ links' = [links EXCEPT ![u][c] = @ - 1]
  /\ UNCHANGED <<here, exists, required, known, wire, unannounced>>

(* PartChannel.  Channel::remove erases the entry and then tells the rest  *)
(* and the user; what throws there keeps the user's list from being        *)
(* changed and the other servers from being told                           *)
Part(u, c) ==
  LET s == Home[u] IN
  /\ u \in here /\ c \in exists[s] /\ u \in members[s][c]
  /\ RoomOnWire(s)
  /\ members' = Removed(s, u, c)
  /\ IF Throws(members[s][c])
       THEN /\ unannounced' = unannounced \cup {<<u, c>>}
            /\ UNCHANGED <<links, wire>>
       ELSE /\ links' = [links EXCEPT ![u][c] = @ - 1]
            /\ wire' = Broadcast(s, <<[type |-> "part", user |-> u, chan |-> c]>>)
            /\ UNCHANGED unannounced
  /\ UNCHANGED <<here, exists, required, known>>

(* ClearChannel.  Channel::clear tells every member and then forgets them; *)
(* neither the lists of the users nor the other servers hear of it         *)
ClearChannel(a, c) ==
  LET s == Home[a] IN
  /\ a \in here /\ Level[a] >= ADMINISTRATOR
  /\ c \in exists[s] /\ ~ Throws(members[s][c])
  /\ members' = Emptied(s, c)
  /\ unannounced' = unannounced \cup ({u \in members[s][c] : Home[u] = s} \X {c})
  /\ UNCHANGED <<here, exists, required, links, known, wire>>

(* ChannelSetLevel: those who are in stay in *)
SetLevel(a, c) ==
  /\ a \in here /\ Level[a] >= ELITE
  /\ c \in exists[Home[a]]
  /\ \E l \in {0, MODERATOR} : required' = [required EXCEPT ![Home[a]][c] = l]
  /\ UNCHANGED <<here, exists, members, links, known, wire, unannounced>>

(* A mutant of Deliver: a part is taken for a join                         *)
DeliverJoins(s) ==
  /\ wire[s] # <<>>
  /\ LET m == Head(wire[s]) IN
     /\ members' = IF m.type \in {"join", "part"} /\ m.user \in known[s] /\ m.chan \in exists[s]
                     THEN [members EXCEPT ![s][m.chan] = @ \cup {m.user}] ELSE members
     /\ known' = CASE m.type = "hello" -> [known EXCEPT ![s] = @ \cup {m.user}]
                   [] m.type = "gone" -> [known EXCEPT ![s] = @ \ {m.user}]
                   [] OTHER -> known
  /\ wire' = [wire EXCEPT ![s] = Tail(@)]
  /\ UNCHANGED <<here, exists, required, links, unannounced>>

(* RemoteChannelJoin, RemoteChannelPart: a message of an unknown user, or  *)
(* of a channel that does not exist here, is dropped                       *)
Deliver(s) ==
  /\ wire[s] # <<>>
  /\ LET m == Head(wire[s])
         u == m.user
         heard == m.type \in {"join", "part"} /\ u \in known[s] /\ m.chan \in exists[s]
     IN /\ members' = IF ~ heard THEN members
                      ELSE IF m.type = "join"
                      THEN Inserted(s, u, m.chan)
                      ELSE Removed(s, u, m.chan)
        /\ known' = CASE m.type = "hello" -> [known EXCEPT ![s] = @ \cup {u}]
                      [] m.type = "gone" -> [known EXCEPT ![s] = @ \ {u}]
                      [] OTHER -> known
  /\ wire' = [wire EXCEPT ![s] = Tail(@)]
  /\ UNCHANGED <<here, exists, required, links, unannounced>>

(* External: a login and a logout are announced; a logout calls            *)
(* PartChannel for the channels of the user's list and frees the list      *)
ChatLogin(u) ==
  /\ u \notin here /\ RoomOnWire(Home[u])
  /\ here' = here \cup {u}
  /\ wire' = Broadcast(Home[u], <<[type |-> "hello", user |-> u]>>)
  /\ UNCHANGED <<exists, required, members, links, known, unannounced>>

ChatLogout(u) ==
  LET s == Home[u] IN
  /\ u \in here /\ RoomOnWire(s)
  /\ \A c \in Chans : links[u][c] > 0 => u \notin members[s][c]
  /\ here' = here \ {u}
  /\ links' = [links EXCEPT ![u] = [c \in Chans |-> 0]]
  /\ wire' = Broadcast(s, <<[type |-> "gone", user |-> u]>>)
  /\ UNCHANGED <<exists, required, members, known, unannounced>>

ChannelsNext ==
  \/ \E u \in ChatUsers : ChatLogin(u) \/ ChatLogout(u)
  \/ \E u \in ChatUsers, c \in Chans :
       Join(u, c) \/ Part(u, c) \/ ClearChannel(u, c) \/ SetLevel(u, c)
  \/ \E s \in Servers : Deliver(s)

ChannelsSpec == ChannelsInit /\ [][ChannelsNext]_channelVars

-----------------------------------------------------------------------------
(* A user who is in a channel of its own server is logged in and has the   *)
(* channel in its list, whichever SAY threw and whoever cleared it:        *)
(* leaving the channels of the list leaves no pointer to a deleted client  *)
(* in any channel.                                                         *)
MembersAreLinked ==
  \A u \in ChatUsers, c \in Chans :
    u \in members[Home[u]][c] => u \in here /\ links[u][c] > 0

(* Once the messages about it have arrived, a server shows nobody in a     *)
(* channel who is not there at home, except those that left unannounced.   *)
RosterSound ==
  \A s \in Servers, u \in ChatUsers, c \in Chans :
    /\ s # Home[u] /\ u \in members[s][c]
    /\ [type |-> "part", user |-> u, chan |-> c] \notin {wire[s][i] : i \in DOMAIN wire[s]}
    => u \in members[Home[u]][c] \/ <<u, c>> \in unannounced

(* A channel's pointer to a user of another server outlives the user only  *)
(* if the user had left unannounced.                                       *)
NoDanglingRemote ==
  \A s \in Servers, u \in ChatUsers, c \in Chans :
    s # Home[u] /\ u \in members[s][c] =>
      u \in known[s] \/ <<u, c>> \in unannounced

(* Wherever a write throws, the channel's members and the lists of the     *)
(* users of this server agree (channel.cc:45-82, 105-167).                 *)
ChannelsSound == ChannelsTypeOK /\ MembersAreLinked

(* What a server believes of the other's users is true or about to be, and *)
(* names nobody it has deleted (channel.cc:366-400).                       *)
RostersAgree == RosterSound /\ NoDanglingRemote
=============================================================================

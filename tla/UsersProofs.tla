---------------------------- MODULE UsersProofs -----------------------------
(***************************************************************************)
(* The users of the server: whom they watch, the channels they are on, for *)
(* any servers, levels and failures of SAY, whom they ignore, and the      *)
(* files they share, for any clients and objects.                          *)
(***************************************************************************)
EXTENDS Notify, Channels, Ignores, Share, FiniteSetTheorems, SequenceLemmas, TLAPS

(***************************************************************************)
(* Notify lists                                                            *)
(***************************************************************************)
(* NotifySound is inductive; one lemma for each action.                    *)
LEMMA NotifyInitInv == NotifyInit => NotifySound
  BY NotifyAssumption DEF NotifyInit, NotifySound, NotifyTypeOK, OneKeyPerName, KeysAlive, ListsMatch, WatchersKnow, Statuses

LEMMA AddKeeps ==
  ASSUME NotifySound, NEW u \in Users, AddNotify(u) PROVE NotifySound'
<1> USE DEF NotifySound
<1>0. PICK n \in Users : \E said \in {Status(n), "owed"} :
        Add(n, u) /\ told' = [told EXCEPT ![u][n] = said]
  BY DEF AddNotify
<1>1. PICK said \in {Status(n), "owed"} :
        Add(n, u) /\ told' = [told EXCEPT ![u][n] = said]
  BY <1>0
<1>2. PICK k \in Keys :
        /\ IF EqualRange(n) = {}
             THEN /\ spelling[k] = NoName
                  /\ spelling' = [spelling EXCEPT ![k] = n]
             ELSE /\ \E e \in EqualRange(n) : e[1] = k
                  /\ UNCHANGED spelling
        /\ watches' = watches \cup {<<k, u>>}
        /\ notifies' = [notifies EXCEPT ![u] = @ \cup {k}]
  BY <1>1 DEF Add
<1>3. u \in online /\ online' = online
  BY DEF AddNotify
<1>4. spelling'[k] = n /\ \A j \in Keys : j # k => spelling'[j] = spelling[j]
  BY <1>2 DEF EqualRange, NotifyTypeOK
<1>5. \A e \in watches : e[1] \in Keys /\ e[2] \in Users /\ e = <<e[1], e[2]>>
  BY DEF NotifyTypeOK
<1>6. \A e \in watches : spelling'[e[1]] = spelling[e[1]]
  BY <1>2, <1>4, <1>5 DEF KeysAlive, NotifyTypeOK, EqualRange
<1>7. \A e \in watches : spelling[e[1]] = n => e[1] = k
  BY <1>2, <1>5 DEF EqualRange, OneKeyPerName
<1>8. NotifyTypeOK'
  BY <1>1, <1>2, <1>3 DEF NotifyTypeOK, Status, Statuses
<1>9. OneKeyPerName'
  BY <1>2, <1>4, <1>6, <1>7 DEF OneKeyPerName
<1>10. KeysAlive'
  <2> SUFFICES ASSUME NEW j \in Keys
               PROVE  spelling'[j] # NoName <=> \E e \in watches' : e[1] = j
    BY DEF KeysAlive
  <2>1. CASE j = k
    <3>1. spelling'[k] # NoName
      BY <1>1, <1>4, NotifyAssumption
    <3>2. <<k, u>> \in watches' /\ <<k, u>>[1] = k
      BY <1>2
    <3> QED BY <2>1, <3>1, <3>2
  <2>2. CASE j # k
    <3>1. (\E e \in watches' : e[1] = j) <=> \E e \in watches : e[1] = j
      BY <2>2, <1>2
    <3> QED BY <2>2, <3>1, <1>4 DEF KeysAlive
  <2> QED BY <2>1, <2>2
<1>11. ListsMatch'
  BY <1>2, <1>5 DEF ListsMatch, NotifyTypeOK
<1>12. WatchersKnow'
  <2> SUFFICES ASSUME NEW e \in watches'
               PROVE  /\ e[2] \in online'
                      /\ told'[e[2]][spelling'[e[1]]] \in {Status(spelling[e[1]])', "owed"}
    BY DEF WatchersKnow
  <2>1. told \in [Users -> [Users -> Statuses]]
    BY DEF NotifyTypeOK
  <2>2. CASE e = <<k, u>>
    BY <2>1, <2>2, <1>1, <1>3, <1>4 DEF Status
  <2>3. CASE e \in watches
    <3>1. e[2] \in online /\ told[e[2]][spelling[e[1]]] \in {Status(spelling[e[1]]), "owed"}
      BY <2>3 DEF WatchersKnow
    <3>2. spelling[e[1]] \in Users
      BY <2>3, <1>5, NotifyAssumption DEF KeysAlive, NotifyTypeOK
    <3>3. told'[e[2]][spelling[e[1]]] \in {Status(spelling[e[1]]), "owed"}
      BY <3>1, <3>2, <2>1, <2>3, <1>1, <1>5 DEF Status
    <3> QED BY <3>1, <3>3, <2>3, <1>3, <1>6 DEF Status
  <2> QED BY <2>2, <2>3, <1>2
<1> QED BY <1>8, <1>9, <1>10, <1>11, <1>12

LEMMA RemoveKeeps ==
  ASSUME NotifySound, NEW u \in Users, RemoveNotify(u) PROVE NotifySound'
<1> USE DEF NotifySound
<1>1. PICK n \in Users : RemoveWatch(n, u) /\ told' = [told EXCEPT ![u][n] = "nothing"]
  BY DEF RemoveNotify
<1>2. PICK first \in EqualRange(n) :
        LET oldkey == first[1]
            rest   == EqualRange(n) \ (Keys \X {u})
        IN /\ watches' = watches \ (EqualRange(n) \ rest)
           /\ notifies' = IF rest = EqualRange(n) THEN notifies
                          ELSE [notifies EXCEPT ![u] = @ \ {oldkey}]
           /\ spelling' = IF rest = {} THEN [spelling EXCEPT ![oldkey] = NoName]
                          ELSE spelling
  BY <1>1 DEF RemoveWatch
<1> DEFINE k == first[1]
<1>3. online' = online /\ u \in online
  BY DEF RemoveNotify
<1>4. \A e \in watches : e[1] \in Keys /\ e[2] \in Users /\ e = <<e[1], e[2]>>
  BY DEF NotifyTypeOK
<1>5. k \in Keys /\ spelling[k] = n /\ \A e \in watches : e \in EqualRange(n) <=> e[1] = k
  BY <1>4 DEF EqualRange, OneKeyPerName
<1>6. \A e : e \in watches' <=> e \in watches /\ e # <<k, u>>
  <2>1. watches' = watches \ (EqualRange(n) \ (EqualRange(n) \ (Keys \X {u})))
    BY <1>2
  <2>2. \A e \in watches : e \in EqualRange(n) /\ e \in Keys \X {u} <=> e = <<k, u>>
    BY <1>4, <1>5
  <2> QED BY <2>1, <2>2
<1>7. notifies' = [notifies EXCEPT ![u] = @ \ {k}]
  <2>1. CASE <<k, u>> \in watches
    <3>1. EqualRange(n) \ (Keys \X {u}) # EqualRange(n)
      BY <2>1, <1>5
    <3> QED BY <3>1, <1>2
  <2>2. CASE <<k, u>> \notin watches
    <3>1. EqualRange(n) \ (Keys \X {u}) = EqualRange(n)
      BY <2>2, <1>4, <1>5 DEF EqualRange
    <3>2. k \notin notifies[u]
      BY <2>2, <1>5 DEF ListsMatch
    <3>3. notifies' = notifies
      BY <3>1, <1>2
    <3> QED BY <3>2, <3>3 DEF NotifyTypeOK
  <2> QED BY <2>1, <2>2
<1>8. \A j \in Keys : spelling'[j] =
        IF j = k /\ ~ \E e \in watches' : e[1] = k THEN NoName ELSE spelling[j]
  <2>1. EqualRange(n) \ (Keys \X {u}) = {} <=> ~ \E e \in watches' : e[1] = k
    <3>1. \A e \in EqualRange(n) : e \in watches /\ e[1] = k /\ e = <<k, e[2]>>
      BY <1>4, <1>5 DEF EqualRange
    <3>2. \A e \in EqualRange(n) : e \in Keys \X {u} <=> e = <<k, u>>
      BY <3>1, <1>5
    <3>3. \A e \in watches' : e[1] = k => e \in EqualRange(n) /\ e # <<k, u>>
      BY <1>5, <1>6
    <3>4. \A e \in EqualRange(n) : e # <<k, u>> => e \in watches' /\ e[1] = k
      BY <3>1, <1>6
    <3> QED BY <3>2, <3>3, <3>4
  <2> QED BY <2>1, <1>2, <1>5 DEF NotifyTypeOK
<1>9. \A e \in watches' : e \in watches /\ spelling'[e[1]] = spelling[e[1]]
  BY <1>4, <1>6, <1>8
<1>10. NotifyTypeOK'
  BY <1>1, <1>2, <1>3, <1>5, <1>7 DEF NotifyTypeOK, Statuses
<1>11. OneKeyPerName'
  BY <1>9 DEF OneKeyPerName
<1>12. KeysAlive'
  BY <1>4, <1>6, <1>8 DEF KeysAlive
<1>13. ListsMatch'
  BY <1>4, <1>6, <1>7 DEF ListsMatch, NotifyTypeOK
<1>14. WatchersKnow'
  <2> SUFFICES ASSUME NEW e \in watches'
               PROVE  /\ e[2] \in online'
                      /\ told'[e[2]][spelling'[e[1]]] \in {Status(spelling[e[1]])', "owed"}
    BY DEF WatchersKnow
  <2>1. told \in [Users -> [Users -> Statuses]]
    BY DEF NotifyTypeOK
  <2>2. e \in watches /\ e # <<k, u>>
    BY <1>6
  <2>3. e[2] \in online /\ told[e[2]][spelling[e[1]]] \in {Status(spelling[e[1]]), "owed"}
    BY <2>2 DEF WatchersKnow
  <2>4. e[2] # u \/ spelling[e[1]] # n
    BY <2>2, <1>4, <1>5 DEF EqualRange
  <2>5. told'[e[2]][spelling[e[1]]] = told[e[2]][spelling[e[1]]]
    BY <2>1, <2>2, <2>4, <1>1, <1>4
  <2> QED BY <2>3, <2>5, <1>3, <1>9 DEF Status
<1> QED BY <1>10, <1>11, <1>12, <1>13, <1>14

(* What ClearNotifies does, given that lists and map agree. *)
LEMMA ClearedMeans ==
  ASSUME NotifySound, NEW u \in Users, Cleared(u)
  PROVE  /\ watches' = {e \in watches : e[2] # u}
         /\ notifies' = [notifies EXCEPT ![u] = {}]
         /\ \A k \in Keys : spelling'[k] =
              IF \E e \in watches' : e[1] = k THEN spelling[k] ELSE NoName
         /\ spelling' \in [Keys -> Users \cup {NoName}]
<1> USE DEF NotifySound
<1>1. \A e \in watches : e[1] \in Keys /\ e[2] \in Users /\ e = <<e[1], e[2]>>
  BY DEF NotifyTypeOK
<1>2. Listed(u) = {e \in watches : e[2] = u}
  BY <1>1 DEF Listed, ListsMatch
<1>3. watches' = {e \in watches : e[2] # u}
  BY <1>2 DEF Cleared
<1>4. notifies[u] \ {e[1] : e \in Listed(u)} = {}
  <2> SUFFICES ASSUME NEW k \in notifies[u] PROVE \E e \in Listed(u) : e[1] = k
    OBVIOUS
  <2>1. k \in Keys
    BY DEF NotifyTypeOK
  <2>2. <<k, u>> \in watches
    BY <2>1 DEF ListsMatch
  <2> QED BY <2>2, <1>2
<1>5. notifies' = [notifies EXCEPT ![u] = {}]
  BY <1>4 DEF Cleared
<1>6. ASSUME NEW k \in Keys
      PROVE  spelling'[k] = IF \E e \in watches' : e[1] = k THEN spelling[k] ELSE NoName
  <2>1. spelling'[k] = IF /\ \E e \in Listed(u) : e[1] = k
                          /\ \A e \in watches' : spelling[e[1]] # spelling[k]
                         THEN NoName ELSE spelling[k]
    BY DEF Cleared
  <2>2. (\E e \in watches' : e[1] = k) => ~ \A e \in watches' : spelling[e[1]] # spelling[k]
    OBVIOUS
  <2>3. ASSUME NEW e \in watches, e[1] = k, NEW d \in watches', spelling[d[1]] = spelling[k]
        PROVE  d[1] = k
    BY <2>3, <1>3 DEF OneKeyPerName
  <2>4. (\A e \in watches : e[1] # k) => spelling[k] = NoName
    BY DEF KeysAlive
  <2>5. \A e \in watches : e \in watches' \/ e \in Listed(u)
    BY <1>2, <1>3
  <2> QED BY <2>1, <2>2, <2>3, <2>4, <2>5
<1>7. spelling' \in [Keys -> Users \cup {NoName}]
  BY DEF Cleared, NotifyTypeOK
<1> QED BY <1>3, <1>5, <1>6, <1>7

(* The map after a ClearNotifies, whatever becomes of online and told. *)
LEMMA ClearedKeeps ==
  ASSUME NotifySound, NEW u \in Users, Cleared(u)
  PROVE  OneKeyPerName' /\ KeysAlive' /\ ListsMatch'
<1> USE DEF NotifySound
<1>1. \A e \in watches : e[1] \in Keys /\ e[2] \in Users /\ e = <<e[1], e[2]>>
  BY DEF NotifyTypeOK
<1>2. \A e \in watches' : e \in watches /\ spelling'[e[1]] = spelling[e[1]]
  BY <1>1, ClearedMeans
<1>3. OneKeyPerName'
  BY <1>2 DEF OneKeyPerName
<1>4. KeysAlive'
  BY <1>1, <1>2, ClearedMeans DEF KeysAlive
<1>5. ListsMatch'
  <2> SUFFICES ASSUME NEW v \in Users, NEW k \in Keys
               PROVE  k \in notifies'[v] <=> <<k, v>> \in watches'
    BY DEF ListsMatch
  <2>1. k \in notifies[v] <=> <<k, v>> \in watches
    BY DEF ListsMatch
  <2>2. <<k, v>> \in watches' <=> <<k, v>> \in watches /\ v # u
    BY ClearedMeans
  <2>3. notifies'[v] = IF v = u THEN {} ELSE notifies[v]
    <3>1. notifies' = [notifies EXCEPT ![u] = {}] /\ DOMAIN notifies = Users
      BY ClearedMeans DEF NotifyTypeOK
    <3> QED BY <3>1
  <2> QED BY <2>1, <2>2, <2>3
<1> QED BY <1>3, <1>4, <1>5

LEMMA NoMoreNotifiesKeeps ==
  ASSUME NotifySound, NEW u \in Users, ClearNotifies(u) PROVE NotifySound'
<1> USE DEF NotifySound
<1>1. Cleared(u) /\ online' = online /\ told' = [told EXCEPT ![u] = [n \in Users |-> "nothing"]]
  BY DEF ClearNotifies
<1>2. NotifyTypeOK'
  BY <1>1, ClearedMeans DEF NotifyTypeOK, Statuses
<1>3. WatchersKnow'
  <2> SUFFICES ASSUME NEW e \in watches'
               PROVE  /\ e[2] \in online'
                      /\ told'[e[2]][spelling'[e[1]]] \in {Status(spelling[e[1]])', "owed"}
    BY DEF WatchersKnow
  <2>1. e \in watches /\ e[2] # u /\ e[1] \in Keys /\ e[2] \in Users
    BY <1>1, ClearedMeans DEF NotifyTypeOK
  <2>2. spelling'[e[1]] = spelling[e[1]]
    BY <2>1, <1>1, ClearedMeans
  <2>3. e[2] \in online /\ told[e[2]][spelling[e[1]]] \in {Status(spelling[e[1]]), "owed"}
    BY <2>1 DEF WatchersKnow
  <2>4. told'[e[2]] = told[e[2]]
    BY <2>1, <1>1 DEF NotifyTypeOK
  <2> QED BY <2>2, <2>3, <2>4, <1>1 DEF Status
<1> QED BY <1>1, <1>2, <1>3, ClearedKeeps

LEMMA LoginKeeps ==
  ASSUME NotifySound, NEW u \in Users, Login(u) PROVE NotifySound'
<1> USE DEF NotifySound
<1> PICK reached \in SUBSET Watchers(u) : told' = Telling(u, "online", reached)
  BY DEF Login
<1>1. NotifyTypeOK'
  BY DEF NotifyTypeOK, Login, Telling, Statuses
<1>2. OneKeyPerName' /\ KeysAlive' /\ ListsMatch'
  BY DEF Login, OneKeyPerName, KeysAlive, ListsMatch
<1>3. WatchersKnow'
  <2> SUFFICES ASSUME NEW e \in watches
               PROVE  /\ e[2] \in online'
                      /\ told'[e[2]][spelling[e[1]]] \in {Status(spelling[e[1]])', "owed"}
    BY DEF WatchersKnow, Login
  <2>1. e[1] \in Keys /\ e[2] \in Users /\ spelling[e[1]] \in Users
    BY NotifyAssumption DEF NotifyTypeOK, KeysAlive
  <2>2. e[2] \in online /\ told[e[2]][spelling[e[1]]] \in {Status(spelling[e[1]]), "owed"}
    BY DEF WatchersKnow
  <2>3. told'[e[2]] = IF e[2] \in Watchers(u)
                        THEN [told[e[2]] EXCEPT ![u] = IF e[2] \in reached THEN "online" ELSE "owed"]
                        ELSE told[e[2]]
    BY <2>1 DEF Telling
  <2>4. told[e[2]] \in [Users -> Statuses]
    BY <2>1 DEF NotifyTypeOK
  <2>5. CASE spelling[e[1]] = u
    BY <2>1, <2>2, <2>3, <2>4, <2>5 DEF Watchers, EqualRange, Login, Status
  <2>6. CASE spelling[e[1]] # u
    BY <2>1, <2>2, <2>3, <2>4, <2>6 DEF Login, Status
  <2> QED BY <2>5, <2>6
<1> QED BY <1>1, <1>2, <1>3

LEMMA LogoutKeeps ==
  ASSUME NotifySound, NEW u \in Users, Logout(u) PROVE NotifySound'
<1> USE DEF NotifySound
<1>1. /\ Cleared(u)
      /\ online' = online \ {u}
  BY DEF Logout
<1> PICK reached \in SUBSET Watchers(u) :
      told' = [Telling(u, "offline", reached) EXCEPT ![u] = [n \in Users |-> "nothing"]]
  BY DEF Logout
<1>2. NotifyTypeOK'
  BY <1>1, ClearedMeans DEF NotifyTypeOK, Statuses, Telling
<1>3. WatchersKnow'
  <2> SUFFICES ASSUME NEW e \in watches'
               PROVE  /\ e[2] \in online'
                      /\ told'[e[2]][spelling'[e[1]]] \in {Status(spelling[e[1]])', "owed"}
    BY DEF WatchersKnow
  <2>1. e \in watches /\ e[2] # u /\ e[1] \in Keys /\ e[2] \in Users
    BY <1>1, ClearedMeans DEF NotifyTypeOK
  <2>2. spelling'[e[1]] = spelling[e[1]] /\ spelling[e[1]] \in Users
    BY <2>1, <1>1, ClearedMeans, NotifyAssumption DEF NotifyTypeOK, KeysAlive
  <2>3. e[2] \in online /\ told[e[2]][spelling[e[1]]] \in {Status(spelling[e[1]]), "owed"}
    BY <2>1 DEF WatchersKnow
  <2>4. told'[e[2]] = IF e[2] \in Watchers(u)
                        THEN [told[e[2]] EXCEPT ![u] = IF e[2] \in reached THEN "offline" ELSE "owed"]
                        ELSE told[e[2]]
    BY <2>1 DEF Telling
  <2>5. told[e[2]] \in [Users -> Statuses]
    BY <2>1 DEF NotifyTypeOK
  <2>6. CASE spelling[e[1]] = u
    BY <2>1, <2>2, <2>3, <2>4, <2>5, <2>6, <1>1 DEF Watchers, EqualRange, Status
  <2>7. CASE spelling[e[1]] # u
    BY <2>1, <2>2, <2>3, <2>4, <2>5, <2>7, <1>1 DEF Status
  <2> QED BY <2>6, <2>7
<1> QED BY <1>1, <1>2, <1>3, ClearedKeeps

(* The map, the strings, every user's list and what users were told agree, *)
(* for any set of users and any order of requests, logins and logouts      *)
(* (notify.cc:28-127, 151-197).                                            *)
THEOREM NotifyCorrect == NotifySpec => []NotifySound
<1>1. NotifySound /\ [NotifyNext]_notifyVars => NotifySound'
  <2> SUFFICES ASSUME NotifySound, [NotifyNext]_notifyVars PROVE NotifySound'
    OBVIOUS
  <2>1. CASE UNCHANGED notifyVars
    BY <2>1 DEF notifyVars, NotifySound, NotifyTypeOK, OneKeyPerName, KeysAlive, ListsMatch, WatchersKnow, Status
  <2>2. CASE NotifyNext
    BY <2>2, AddKeeps, RemoveKeeps, NoMoreNotifiesKeeps, LoginKeeps, LogoutKeeps DEF NotifyNext
  <2> QED BY <2>1, <2>2
<1> QED BY <1>1, NotifyInitInv, PTL DEF NotifySpec

-----------------------------------------------------------------------------
(***************************************************************************)
(* Channels and their rosters                                              *)
(***************************************************************************)
(* A server is only told about users of other servers. *)
WireIsForeign ==
  \A s \in Servers : \A i \in 1..Len(wire[s]) : Home[wire[s][i].user] # s

ChannelsInv == ChannelsTypeOK /\ MembersAreLinked /\ WireIsForeign

(* Changing one entry of a table of tables. *)
LEMMA NestedExcept ==
  ASSUME NEW S, NEW T, NEW V, NEW f \in [S -> [T -> V]],
         NEW s \in S, NEW t \in T, NEW v \in V
  PROVE  /\ [f EXCEPT ![s][t] = v] \in [S -> [T -> V]]
         /\ \A a \in S, b \in T :
              [f EXCEPT ![s][t] = v][a][b] = IF a = s /\ b = t THEN v ELSE f[a][b]
<1>1. [f[s] EXCEPT ![t] = v] \in [T -> V]
  OBVIOUS
<1> QED BY <1>1

LEMMA BroadcastIsForeign ==
  ASSUME ChannelsTypeOK, WireIsForeign,
         NEW m \in Messages, wire' = Broadcast(Home[m.user], <<m>>)
  PROVE  WireIsForeign' /\ wire' \in [Servers -> Seq(Messages)]
<1> DEFINE s == Home[m.user]
<1>1. \A t \in Servers : wire'[t] = IF t = s THEN wire[t] ELSE wire[t] \o <<m>>
  BY DEF Broadcast
<1>2. wire' \in [Servers -> Seq(Messages)]
  BY DEF Broadcast, ChannelsTypeOK
<1>3. ASSUME NEW t \in Servers, NEW i \in 1..Len(wire'[t])
      PROVE  Home[wire'[t][i].user] # t
  <2>1. wire[t] \in Seq(Messages)
    BY DEF ChannelsTypeOK
  <2>2. CASE t = s
    BY <2>2, <1>1, <1>3 DEF WireIsForeign
  <2>3. CASE t # s
    <3>1. wire'[t] = wire[t] \o <<m>>
      BY <2>3, <1>1
    <3>2. CASE i \in 1..Len(wire[t])
      <4>1. wire'[t][i] = wire[t][i]
        BY <3>1, <3>2, <2>1
      <4> QED BY <4>1, <3>2 DEF WireIsForeign
    <3>3. CASE i = Len(wire[t]) + 1
      <4>1. wire'[t][i] = m
        BY <3>1, <3>3, <2>1
      <4> QED BY <4>1, <2>3
    <3>4. Len(wire'[t]) = Len(wire[t]) + 1
      BY <3>1, <2>1
    <3> QED BY <3>2, <3>3, <3>4, <2>1
  <2> QED BY <2>2, <2>3
<1> QED BY <1>2, <1>3 DEF WireIsForeign

LEMMA JoinKeeps ==
  ASSUME ChannelsInv, NEW u \in ChatUsers, NEW c \in Chans, Join(u, c)
  PROVE  ChannelsInv'
<1> USE ChannelsAssumption DEF ChannelsInv
<1> DEFINE s == Home[u]
           m == [type |-> "join", user |-> u, chan |-> c]
<1>1. s \in Servers /\ m \in Messages /\ m.user = u
  BY DEF Messages
<1>2. wire' = wire \/ wire' = Broadcast(s, <<m>>)
  BY DEF Join, Inserted
<1>3. wire' \in [Servers -> Seq(Messages)] /\ WireIsForeign'
  <2>1. CASE wire' = wire
    BY <2>1 DEF WireIsForeign, ChannelsTypeOK
  <2>2. CASE wire' = Broadcast(s, <<m>>)
    BY <2>2, <1>1, BroadcastIsForeign
  <2> QED BY <1>2, <2>1, <2>2
<1>4. /\ exists' = [exists EXCEPT ![s] = @ \cup {c}]
      /\ links' = [links EXCEPT ![u][c] = @ + 1]
      /\ members' = [members EXCEPT ![s][c] = @ \cup {u}]
      /\ u \in here
      /\ UNCHANGED <<here, required, known, unannounced>>
  BY DEF Join, Inserted
<1>5. ChannelsTypeOK'
  <2>1. members[s][c] \cup {u} \in SUBSET ChatUsers /\ links[u][c] + 1 \in Nat
    BY <1>1 DEF ChannelsTypeOK
  <2>2. exists' \in [Servers -> SUBSET Chans]
    BY <1>1, <1>4 DEF ChannelsTypeOK
  <2>3. members' \in [Servers -> [Chans -> SUBSET ChatUsers]]
    BY <1>1, <1>4, <2>1, NestedExcept DEF ChannelsTypeOK
  <2>4. links' \in [ChatUsers -> [Chans -> Nat]]
    BY <1>1, <1>4, <2>1, NestedExcept DEF ChannelsTypeOK
  <2> QED BY <1>3, <1>4, <2>2, <2>3, <2>4 DEF ChannelsTypeOK
<1>6. MembersAreLinked'
  <2> SUFFICES ASSUME NEW v \in ChatUsers, NEW d \in Chans, v \in members'[Home[v]][d]
               PROVE  v \in here /\ links'[v][d] > 0
    BY <1>4 DEF MembersAreLinked
  <2>1. links[v][d] \in Nat /\ links[u][c] \in Nat
    BY DEF ChannelsTypeOK
  <2>2. CASE v = u /\ d = c
    BY <2>1, <2>2, <1>4 DEF ChannelsTypeOK
  <2>3. CASE ~ (v = u /\ d = c)
    <3>1. v \in members[Home[v]][d]
      BY <2>3, <1>1, <1>4 DEF ChannelsTypeOK
    <3>2. links'[v][d] = links[v][d]
      BY <2>3, <1>4 DEF ChannelsTypeOK
    <3> QED BY <3>1, <3>2 DEF MembersAreLinked
  <2> QED BY <2>2, <2>3
<1> QED BY <1>3, <1>5, <1>6

LEMMA PartKeeps ==
  ASSUME ChannelsInv, NEW u \in ChatUsers, NEW c \in Chans, Part(u, c)
  PROVE  ChannelsInv'
<1> USE ChannelsAssumption DEF ChannelsInv
<1> DEFINE s == Home[u]
           m == [type |-> "part", user |-> u, chan |-> c]
<1>1. s \in Servers /\ m \in Messages /\ m.user = u
  BY DEF Messages
<1>2. /\ \/ links' = links /\ wire' = wire /\ unannounced' = unannounced \cup {<<u, c>>}
         \/ /\ links' = [links EXCEPT ![u][c] = @ - 1]
            /\ wire' = Broadcast(s, <<m>>)
            /\ unannounced' = unannounced
      /\ members' = [members EXCEPT ![s][c] = @ \ {u}]
      /\ u \in here /\ u \in members[s][c]
      /\ UNCHANGED <<here, exists, required, known>>
  BY DEF Part, Removed
<1>3. wire' \in [Servers -> Seq(Messages)] /\ WireIsForeign'
  <2>1. CASE wire' = wire
    BY <2>1 DEF WireIsForeign, ChannelsTypeOK
  <2>2. CASE wire' = Broadcast(s, <<m>>)
    BY <2>2, <1>1, BroadcastIsForeign
  <2> QED BY <1>2, <2>1, <2>2
<1>4. links[u][c] > 0 /\ \A v \in ChatUsers, d \in Chans : links[v][d] \in Nat
  BY <1>2 DEF MembersAreLinked, ChannelsTypeOK
<1>5. links' \in [ChatUsers -> [Chans -> Nat]]
  <2>1. CASE links' = links
    BY <2>1 DEF ChannelsTypeOK
  <2>2. CASE links' = [links EXCEPT ![u][c] = @ - 1]
    <3>1. links[u][c] - 1 \in Nat
      BY <1>4
    <3>2. [links[u] EXCEPT ![c] = @ - 1] \in [Chans -> Nat]
      BY <3>1 DEF ChannelsTypeOK
    <3> QED BY <2>2, <3>2 DEF ChannelsTypeOK
  <2> QED BY <1>2, <2>1, <2>2
<1>6. ChannelsTypeOK'
  <2>1. members[s][c] \ {u} \in SUBSET ChatUsers
    BY <1>1 DEF ChannelsTypeOK
  <2>2. members' \in [Servers -> [Chans -> SUBSET ChatUsers]]
    BY <1>1, <1>2, <2>1, NestedExcept DEF ChannelsTypeOK
  <2>3. unannounced' \subseteq ChatUsers \X Chans
    BY <1>2 DEF ChannelsTypeOK
  <2> QED BY <1>2, <1>3, <1>5, <2>2, <2>3 DEF ChannelsTypeOK
<1>7. MembersAreLinked'
  <2> SUFFICES ASSUME NEW v \in ChatUsers, NEW d \in Chans, v \in members'[Home[v]][d]
               PROVE  v \in here /\ links'[v][d] > 0
    BY <1>2 DEF MembersAreLinked
  <2>1. v \in members[Home[v]][d] /\ ~ (v = u /\ d = c)
    BY <1>1, <1>2 DEF ChannelsTypeOK
  <2>2. links'[v][d] = links[v][d]
    BY <2>1, <1>2 DEF ChannelsTypeOK
  <2> QED BY <2>1, <2>2 DEF MembersAreLinked
<1> QED BY <1>3, <1>6, <1>7

LEMMA DeliverKeeps ==
  ASSUME ChannelsInv, NEW s \in Servers, Deliver(s) PROVE ChannelsInv'
<1> USE ChannelsAssumption DEF ChannelsInv
<1> DEFINE m == Head(wire[s])
<1>1. wire[s] \in Seq(Messages) /\ wire[s] # <<>> /\ wire' = [wire EXCEPT ![s] = Tail(@)]
  BY DEF Deliver, Inserted, Removed, ChannelsTypeOK
<1>2. m \in Messages /\ m = wire[s][1] /\ 1 \in 1..Len(wire[s])
  BY <1>1
<1>3. m.user \in ChatUsers /\ Home[m.user] # s
  BY <1>2 DEF WireIsForeign, Messages
<1>4. wire' \in [Servers -> Seq(Messages)]
  BY <1>1 DEF ChannelsTypeOK
<1>5. WireIsForeign'
  <2> SUFFICES ASSUME NEW t \in Servers, NEW i \in 1..Len(wire'[t])
               PROVE  Home[wire'[t][i].user] # t
    BY DEF WireIsForeign
  <2>1. CASE t # s
    BY <2>1, <1>1 DEF WireIsForeign, ChannelsTypeOK
  <2>2. CASE t = s
    <3>1. wire'[t] = Tail(wire[s])
      BY <2>2, <1>1 DEF ChannelsTypeOK
    <3>2. Len(wire'[t]) = Len(wire[s]) - 1 /\ wire'[t][i] = wire[s][i + 1]
      BY <3>1, <1>1
    <3>3. i + 1 \in 1..Len(wire[s])
      BY <3>2, <1>1
    <3> QED BY <2>2, <3>2, <3>3 DEF WireIsForeign
  <2> QED BY <2>1, <2>2
<1>6. UNCHANGED <<here, exists, required, links, unannounced>>
  BY DEF Deliver, Inserted, Removed
<1>7. \/ members' = members
      \/ /\ m.chan \in Chans
         /\ \/ members' = [members EXCEPT ![s][m.chan] = @ \cup {m.user}]
            \/ members' = [members EXCEPT ![s][m.chan] = @ \ {m.user}]
  <2>1. exists[s] \subseteq Chans
    BY DEF ChannelsTypeOK
  <2> QED BY <2>1 DEF Deliver, Inserted, Removed
<1>8. known' \in [Servers -> SUBSET ChatUsers]
  <2>1. CASE m.type = "hello"
    <3>1. known' = [known EXCEPT ![s] = @ \cup {m.user}]
      BY <2>1 DEF Deliver, Inserted, Removed
    <3> QED BY <3>1, <1>3 DEF ChannelsTypeOK
  <2>2. CASE m.type = "gone"
    <3>1. known' = [known EXCEPT ![s] = @ \ {m.user}]
      BY <2>2 DEF Deliver, Inserted, Removed
    <3> QED BY <3>1, <1>3 DEF ChannelsTypeOK
  <2>3. CASE m.type \notin {"hello", "gone"}
    <3>1. known' = known
      BY <2>3 DEF Deliver, Inserted, Removed
    <3> QED BY <3>1 DEF ChannelsTypeOK
  <2> QED BY <2>1, <2>2, <2>3
<1>9. /\ members' \in [Servers -> [Chans -> SUBSET ChatUsers]]
      /\ \A t \in Servers, d \in Chans :
           members'[t][d] # members[t][d] => t = s /\ members'[t][d] \ members[t][d] \subseteq {m.user}
  <2>1. CASE members' = members
    BY <2>1 DEF ChannelsTypeOK
  <2>2. CASE m.chan \in Chans /\ members' = [members EXCEPT ![s][m.chan] = @ \cup {m.user}]
    <3>1. members[s][m.chan] \cup {m.user} \in SUBSET ChatUsers
      BY <2>2, <1>3 DEF ChannelsTypeOK
    <3> QED BY <2>2, <3>1, NestedExcept DEF ChannelsTypeOK
  <2>3. CASE m.chan \in Chans /\ members' = [members EXCEPT ![s][m.chan] = @ \ {m.user}]
    <3>1. members[s][m.chan] \ {m.user} \in SUBSET ChatUsers
      BY <2>3, <1>3 DEF ChannelsTypeOK
    <3> QED BY <2>3, <3>1, NestedExcept DEF ChannelsTypeOK
  <2> QED BY <1>7, <2>1, <2>2, <2>3
<1>10. ChannelsTypeOK'
  BY <1>4, <1>6, <1>8, <1>9 DEF ChannelsTypeOK
<1>11. MembersAreLinked'
  <2> SUFFICES ASSUME NEW v \in ChatUsers, NEW d \in Chans, v \in members'[Home[v]][d]
               PROVE  v \in members[Home[v]][d]
    BY <1>6 DEF MembersAreLinked
  <2>1. Home[v] \in Servers
    OBVIOUS
  <2> QED BY <1>3, <1>9, <2>1
<1> QED BY <1>5, <1>10, <1>11

LEMMA ClearKeeps ==
  ASSUME ChannelsInv, NEW a \in ChatUsers, NEW c \in Chans, ClearChannel(a, c)
  PROVE  ChannelsInv'
<1> USE ChannelsAssumption DEF ChannelsInv
<1>1. Home[a] \in Servers /\ members[Home[a]][c] \subseteq ChatUsers
  BY DEF ChannelsTypeOK
<1>2. members' = [members EXCEPT ![Home[a]][c] = {}]
      /\ UNCHANGED <<here, exists, required, links, known, wire>>
      /\ unannounced' \subseteq ChatUsers \X Chans
  BY <1>1 DEF ClearChannel, Emptied, ChannelsTypeOK
<1>3. ChannelsTypeOK'
  BY <1>1, <1>2 DEF ChannelsTypeOK
<1>4. \A v \in ChatUsers, d \in Chans :
        v \in members'[Home[v]][d] => v \in members[Home[v]][d]
  BY <1>1, <1>2 DEF ChannelsTypeOK
<1>5. MembersAreLinked' /\ WireIsForeign'
  BY <1>2, <1>4 DEF MembersAreLinked, WireIsForeign
<1> QED BY <1>3, <1>5

LEMMA ComeAndGoKeeps ==
  ASSUME ChannelsInv, NEW u \in ChatUsers, ChatLogin(u) \/ ChatLogout(u)
  PROVE  ChannelsInv'
<1> USE ChannelsAssumption DEF ChannelsInv
<1>1. CASE ChatLogin(u)
  <2> DEFINE m == [type |-> "hello", user |-> u]
  <2>1. m \in Messages /\ m.user = u /\ wire' = Broadcast(Home[m.user], <<m>>)
    BY <1>1 DEF ChatLogin, Messages
  <2>2. wire' \in [Servers -> Seq(Messages)] /\ WireIsForeign'
    BY <2>1, BroadcastIsForeign
  <2> QED BY <2>2, <1>1 DEF ChatLogin, ChannelsTypeOK, MembersAreLinked
<1>2. CASE ChatLogout(u)
  <2> DEFINE m == [type |-> "gone", user |-> u]
  <2>1. m \in Messages /\ m.user = u /\ wire' = Broadcast(Home[m.user], <<m>>)
    BY <1>2 DEF ChatLogout, Messages
  <2>2. wire' \in [Servers -> Seq(Messages)] /\ WireIsForeign'
    BY <2>1, BroadcastIsForeign
  <2>3. /\ here' = here \ {u} /\ links' = [links EXCEPT ![u] = [c \in Chans |-> 0]]
        /\ \A c \in Chans : links[u][c] > 0 => u \notin members[Home[u]][c]
        /\ UNCHANGED <<exists, required, members, known, unannounced>>
    BY <1>2 DEF ChatLogout
  <2>4. ChannelsTypeOK'
    BY <2>2, <2>3 DEF ChannelsTypeOK
  <2>5. \A c \in Chans : u \notin members[Home[u]][c]
    BY <2>3 DEF MembersAreLinked
  <2>6. MembersAreLinked'
    <3> SUFFICES ASSUME NEW v \in ChatUsers, NEW d \in Chans, v \in members[Home[v]][d]
                 PROVE  v \in here' /\ links'[v][d] > 0
      BY <2>3 DEF MembersAreLinked
    <3>1. v # u
      BY <2>5
    <3> QED BY <3>1, <2>3 DEF MembersAreLinked, ChannelsTypeOK
  <2> QED BY <2>2, <2>4, <2>6
<1> QED BY <1>1, <1>2

LEMMA ChannelsStayInv == ChannelsSpec => []ChannelsInv
<1> USE ChannelsAssumption
<1>1. ChannelsInit => ChannelsInv
  BY DEF ChannelsInit, ChannelsInv, ChannelsTypeOK, MembersAreLinked, WireIsForeign, ELITE
<1>2. ChannelsInv /\ [ChannelsNext]_channelVars => ChannelsInv'
  <2> SUFFICES ASSUME ChannelsInv, [ChannelsNext]_channelVars PROVE ChannelsInv'
    OBVIOUS
  <2>1. CASE UNCHANGED channelVars
    BY <2>1 DEF channelVars, ChannelsInv, ChannelsTypeOK, MembersAreLinked, WireIsForeign
  <2>2. ASSUME NEW a \in ChatUsers, NEW c \in Chans, SetLevel(a, c) PROVE ChannelsInv'
    <3>1. Home[a] \in Servers
      OBVIOUS
    <3> QED BY <2>2, <3>1 DEF SetLevel, ChannelsInv, ChannelsTypeOK, MembersAreLinked, WireIsForeign,
              MODERATOR, ELITE
  <2>3. CASE ChannelsNext
    BY <2>2, <2>3, JoinKeeps, PartKeeps, DeliverKeeps, ClearKeeps, ComeAndGoKeeps DEF ChannelsNext
  <2> QED BY <2>1, <2>3
<1> QED BY <1>1, <1>2, PTL DEF ChannelsSpec

(* Whoever is in a channel of its server is logged in and has the channel  *)
(* in its list, whatever throws, for any number of servers and users       *)
(* (channel.cc:45-78, 97-168).                                             *)
THEOREM MembersAlwaysLinked == ChannelsSpec => []ChannelsSound
<1>1. ChannelsInv => ChannelsSound
  BY DEF ChannelsInv, ChannelsSound
<1> QED BY <1>1, ChannelsStayInv, PTL

-----------------------------------------------------------------------------
(***************************************************************************)
(* The rosters of two servers.  What a server believes of a user of        *)
(* another is what its members say now (place 0) and every join still on   *)
(* the wire to it (its place): each belief is true at home, or undone by a *)
(* later part, and before the user is gone it is undone.                   *)
(***************************************************************************)
IsJoin(m, u, c) == m.type = "join" /\ m.user = u /\ m.chan = c
IsPart(m, u, c) == m.type = "part" /\ m.user = u /\ m.chan = c
IsGone(m, u) == m.type = "gone" /\ m.user = u

(* w is a wire, x the members there and h the members at home *)
Believed(w, x, u, c, i) ==
  \/ i = 0 /\ u \in x
  \/ i \in 1..Len(w) /\ IsJoin(w[i], u, c)

Undone(w, u, c, i, j) ==
  \E k \in 1..Len(w) : i < k /\ k < j /\ IsPart(w[k], u, c)

TrueOrUndone(w, x, h, u, c) ==
  \A i \in 0..Len(w) : Believed(w, x, u, c, i) => u \in h \/ Undone(w, u, c, i, Len(w) + 1)

UndoneBeforeGone(w, x, u, c) ==
  \A i \in 0..Len(w), j \in 1..Len(w) :
    Believed(w, x, u, c, i) /\ i < j /\ IsGone(w[j], u) => Undone(w, u, c, i, j)

Agrees(w, x, h, u, c) == TrueOrUndone(w, x, h, u, c) /\ UndoneBeforeGone(w, x, u, c)

RostersAreTold ==
  \A s \in Servers, u \in ChatUsers, c \in Chans :
    s # Home[u] /\ <<u, c>> \notin unannounced =>
      /\ Agrees(wire[s], members[s][c], members[Home[u]][c], u, c)
      /\ u \in members[s][c] => u \in known[s]

(* Only a channel that exists has members. *)
MembersHaveChannel ==
  \A s \in Servers, c \in Chans : members[s][c] # {} => c \in exists[s]

RostersInv == ChannelsInv /\ RostersAreTold /\ MembersHaveChannel

(* A message more: a join of one who is in, a part, or the end of one who  *)
(* is in no channel.                                                       *)
LEMMA OneMoreIsSent ==
  ASSUME NEW w \in Seq(Messages), NEW m \in Messages, NEW x, NEW h, NEW h2, NEW u, NEW c,
         Agrees(w, x, h, u, c),
         u \in h => u \in h2 \/ IsPart(m, u, c),
         IsJoin(m, u, c) => u \in h2,
         IsGone(m, u) => u \notin h
  PROVE  Agrees(w \o <<m>>, x, h2, u, c)
<1> DEFINE v == w \o <<m>>
           L == Len(w)
<1>1. /\ L \in Nat /\ Len(v) = L + 1
      /\ \A i \in 1..L : v[i] = w[i]
      /\ v[L + 1] = m
  OBVIOUS
<1> HIDE DEF v
<1>2. \A i \in 0..L : Believed(v, x, u, c, i) => Believed(w, x, u, c, i)
  BY <1>1 DEF Believed
<1>3. \A i, j : Undone(w, u, c, i, j) => Undone(v, u, c, i, j)
  BY <1>1 DEF Undone
<1>4. IsPart(m, u, c) => \A i \in 0..L : Undone(v, u, c, i, L + 2)
  BY <1>1 DEF Undone
<1>5. \A i \in 0..L : Undone(w, u, c, i, L + 1) => Undone(v, u, c, i, L + 2)
  BY <1>1 DEF Undone
<1>6. ASSUME NEW i \in 0..(L + 1), Believed(v, x, u, c, i)
      PROVE  u \in h2 \/ Undone(v, u, c, i, L + 2)
  <2>1. CASE i \in 0..L
    <3>1. u \in h \/ Undone(w, u, c, i, L + 1)
      BY <1>2, <1>6, <2>1 DEF Agrees, TrueOrUndone
    <3> QED BY <1>4, <1>5, <2>1, <3>1
  <2>2. CASE i = L + 1
    <3>1. IsJoin(m, u, c)
      BY <1>1, <1>6, <2>2 DEF Believed
    <3> QED BY <3>1
  <2> QED BY <1>1, <2>1, <2>2
<1>7. ASSUME NEW i \in 0..(L + 1), NEW j \in 1..(L + 1),
             Believed(v, x, u, c, i), i < j, IsGone(v[j], u)
      PROVE  Undone(v, u, c, i, j)
  <2>1. i \in 0..L /\ Believed(w, x, u, c, i)
    BY <1>1, <1>2, <1>7
  <2>2. CASE j \in 1..L
    BY <1>1, <1>3, <1>7, <2>1, <2>2 DEF Agrees, UndoneBeforeGone
  <2>3. CASE j = L + 1
    BY <1>1, <1>3, <1>7, <2>1, <2>3 DEF Agrees, TrueOrUndone
  <2> QED BY <1>1, <2>2, <2>3
<1>8. Len(v) + 1 = L + 2
  BY <1>1
<1>9. TrueOrUndone(v, x, h2, u, c)
  BY <1>1, <1>6, <1>8 DEF TrueOrUndone
<1>10. UndoneBeforeGone(v, x, u, c)
  BY <1>1, <1>7 DEF UndoneBeforeGone
<1> QED BY <1>9, <1>10 DEF Agrees, v

(* The first message arrives: a part removes the user from the members,    *)
(* a join may enter it.                                                    *)
LEMMA OneIsReceived ==
  ASSUME NEW w \in Seq(Messages), w # <<>>, NEW x, NEW y, NEW h, NEW u, NEW c,
         Agrees(w, x, h, u, c),
         u \in y => (u \in x /\ ~ IsPart(Head(w), u, c)) \/ IsJoin(Head(w), u, c)
  PROVE  Agrees(Tail(w), y, h, u, c)
<1> DEFINE v == Tail(w)
           m == Head(w)
           L == Len(v)
<1>1. /\ L \in Nat /\ Len(w) = L + 1
      /\ \A i \in 1..L : v[i] = w[i + 1]
      /\ m = w[1]
  OBVIOUS
<1> HIDE DEF v, m
<1>2. ASSUME NEW i \in 0..L, Believed(v, y, u, c, i)
      PROVE  \E n \in 0..(L + 1) : /\ Believed(w, x, u, c, n)
                                   /\ n <= i + 1
                                   /\ \A k \in 1..(L + 1) :
                                        n < k /\ IsPart(w[k], u, c) => i + 1 < k
  <2>1. CASE i # 0
    <3>1. Believed(w, x, u, c, i + 1)
      BY <1>1, <1>2, <2>1 DEF Believed
    <3>2. i + 1 \in 0..(L + 1)
      BY <1>1
    <3> QED BY <3>1, <3>2
  <2>2. CASE i = 0 /\ IsJoin(m, u, c)
    <3>1. Believed(w, x, u, c, 1)
      BY <1>1, <2>2 DEF Believed
    <3> QED BY <1>1, <2>2, <3>1
  <2>3. CASE i = 0 /\ u \in x /\ ~ IsPart(m, u, c)
    <3>1. Believed(w, x, u, c, 0)
      BY <2>3 DEF Believed
    <3>2. \A k \in 1..(L + 1) : 0 < k /\ IsPart(w[k], u, c) => 1 < k
      BY <1>1, <2>3
    <3> QED BY <1>1, <2>3, <3>1, <3>2
  <2>4. i = 0 => u \in y
    BY <1>2 DEF Believed
  <2> QED BY <2>1, <2>2, <2>3, <2>4 DEF m
<1>3. \A i \in 0..L, j \in 0..(L + 1), k \in 1..(L + 1) :
        i + 1 < k /\ k < j + 1 /\ IsPart(w[k], u, c) => Undone(v, u, c, i, j)
  <2> SUFFICES ASSUME NEW i \in 0..L, NEW j \in 0..(L + 1), NEW k \in 1..(L + 1),
                      i + 1 < k, k < j + 1, IsPart(w[k], u, c)
               PROVE  Undone(v, u, c, i, j)
    OBVIOUS
  <2>1. k - 1 \in 1..L /\ i < k - 1 /\ k - 1 < j /\ v[k - 1] = w[k]
    BY <1>1
  <2> QED BY <2>1 DEF Undone
<1>4. ASSUME NEW i \in 0..L, Believed(v, y, u, c, i)
      PROVE  u \in h \/ Undone(v, u, c, i, L + 1)
  <2>1. PICK n \in 0..(L + 1) :
          /\ Believed(w, x, u, c, n)
          /\ \A k \in 1..(L + 1) : n < k /\ IsPart(w[k], u, c) => i + 1 < k
    BY <1>2, <1>4
  <2>2. u \in h \/ Undone(w, u, c, n, L + 2)
    <3>1. Len(w) + 1 = L + 2
      BY <1>1
    <3> QED BY <1>1, <2>1, <3>1 DEF Agrees, TrueOrUndone
  <2>3. Undone(w, u, c, n, L + 2) =>
          \E k \in 1..(L + 1) : i + 1 < k /\ k < L + 2 /\ IsPart(w[k], u, c)
    BY <1>1, <2>1 DEF Undone
  <2> QED BY <1>1, <1>3, <2>2, <2>3
<1>5. ASSUME NEW i \in 0..L, NEW j \in 1..L,
             Believed(v, y, u, c, i), i < j, IsGone(v[j], u)
      PROVE  Undone(v, u, c, i, j)
  <2>1. PICK n \in 0..(L + 1) :
          /\ Believed(w, x, u, c, n) /\ n <= i + 1
          /\ \A k \in 1..(L + 1) : n < k /\ IsPart(w[k], u, c) => i + 1 < k
    BY <1>2, <1>5
  <2>2. j + 1 \in 1..(L + 1) /\ n < j + 1 /\ IsGone(w[j + 1], u)
    BY <1>1, <1>5, <2>1
  <2>3. Undone(w, u, c, n, j + 1)
    BY <1>1, <2>1, <2>2 DEF Agrees, UndoneBeforeGone
  <2>4. PICK k \in 1..(L + 1) : i + 1 < k /\ k < j + 1 /\ IsPart(w[k], u, c)
    BY <1>1, <2>1, <2>3 DEF Undone
  <2>5. j \in 0..(L + 1)
    BY <1>1
  <2> QED BY <1>3, <2>4, <2>5
<1> QED BY <1>4, <1>5 DEF Agrees, TrueOrUndone, UndoneBeforeGone, v

(* A user whose end is the next message is in no channel there. *)
LEMMA GoneIsInNone ==
  ASSUME NEW w \in Seq(Messages), w # <<>>, NEW x, NEW h, NEW u, NEW c,
         Agrees(w, x, h, u, c), IsGone(Head(w), u)
  PROVE  u \notin x
<1>1. Len(w) \in Nat /\ 1 \in 1..Len(w) /\ 0 \in 0..Len(w) /\ Head(w) = w[1]
  OBVIOUS
<1>2. u \in x => Undone(w, u, c, 0, 1)
  BY <1>1 DEF Agrees, UndoneBeforeGone, Believed
<1> QED BY <1>1, <1>2 DEF Undone

(* More at home and fewer there: it still agrees. *)
LEMMA MoreAtHome ==
  ASSUME NEW w, NEW x, NEW y, NEW h, NEW h2, NEW u, NEW c,
         Agrees(w, x, h, u, c), u \in h => u \in h2, u \in y => u \in x
  PROVE  Agrees(w, y, h2, u, c)
<1>1. \A i \in 0..Len(w) : Believed(w, y, u, c, i) => Believed(w, x, u, c, i)
  BY DEF Believed
<1> QED BY <1>1 DEF Agrees, TrueOrUndone, UndoneBeforeGone

(* A message that the home of u sends to every other server. *)
LEMMA ToldToAll ==
  ASSUME RostersInv, NEW m \in Messages, wire' = Broadcast(Home[m.user], <<m>>),
         NEW s \in Servers, NEW u \in ChatUsers, NEW c \in Chans, s # Home[u],
         NEW h, NEW h2, NEW x, Agrees(wire[s], x, h, u, c),
         u \in h => u \in h2 \/ IsPart(m, u, c),
         IsJoin(m, u, c) => u \in h2,
         IsGone(m, u) => u \notin h
  PROVE  Agrees(wire'[s], x, h2, u, c)
<1>1. wire[s] \in Seq(Messages)
  BY DEF RostersInv, ChannelsInv, ChannelsTypeOK
<1>2. wire'[s] = IF s = Home[m.user] THEN wire[s] ELSE wire[s] \o <<m>>
  BY DEF Broadcast
<1>3. CASE s # Home[m.user]
  BY <1>1, <1>2, <1>3, OneMoreIsSent
<1>4. CASE s = Home[m.user]
  <2>1. m.user # u
    BY <1>4
  <2>2. u \in h => u \in h2
    BY <2>1 DEF IsPart
  <2> QED BY <1>2, <1>4, <2>2, MoreAtHome
<1> QED BY <1>3, <1>4

LEMMA JoinTells ==
  ASSUME RostersInv, NEW u \in ChatUsers, NEW c \in Chans, Join(u, c)
  PROVE  RostersAreTold' /\ MembersHaveChannel'
<1> USE ChannelsAssumption
<1> DEFINE home == Home[u]
           m == [type |-> "join", user |-> u, chan |-> c]
<1>1. /\ wire' = wire \/ wire' = Broadcast(Home[m.user], <<m>>)
      /\ members' = [members EXCEPT ![home][c] = @ \cup {u}]
      /\ exists' = [exists EXCEPT ![home] = @ \cup {c}]
      /\ UNCHANGED <<known, unannounced>>
  BY DEF Join, Inserted
<1>2. /\ home \in Servers /\ m \in Messages
      /\ \A v \in ChatUsers, d \in Chans :
           ~ IsPart(m, v, d) /\ ~ IsGone(m, v) /\ (IsJoin(m, v, d) => v = u /\ d = c)
  BY DEF Messages, IsPart, IsGone, IsJoin
<1> HIDE DEF m
<1>3. \A s \in Servers, d \in Chans :
        members'[s][d] = IF s = home /\ d = c THEN members[s][d] \cup {u} ELSE members[s][d]
  BY <1>1, <1>2 DEF RostersInv, ChannelsInv, ChannelsTypeOK
<1>4. ASSUME NEW s \in Servers, NEW v \in ChatUsers, NEW d \in Chans,
             s # Home[v], <<v, d>> \notin unannounced
      PROVE  /\ Agrees(wire'[s], members'[s][d], members'[Home[v]][d], v, d)
             /\ v \in members'[s][d] => v \in known'[s]
  <2>1. /\ Agrees(wire[s], members[s][d], members[Home[v]][d], v, d)
        /\ v \in members[s][d] => v \in known[s]
    BY <1>4 DEF RostersInv, RostersAreTold
  <2>2. v \in members'[s][d] => v \in members[s][d]
    <3>1. CASE s = home /\ d = c
      <4>1. v # u
        BY <1>4, <3>1
      <4>2. members'[s][d] = members[s][d] \cup {u}
        BY <1>3, <3>1
      <4> QED BY <4>1, <4>2
    <3>2. CASE ~ (s = home /\ d = c)
      BY <1>3, <3>2
    <3> QED BY <3>1, <3>2
  <2>3. v \in members[Home[v]][d] => v \in members'[Home[v]][d]
    BY <1>3
  <2>4. IsJoin(m, v, d) => v \in members'[Home[v]][d]
    <3>1. u \in members'[home][c]
      BY <1>2, <1>3
    <3>2. IsJoin(m, v, d) => v = u /\ d = c
      BY <1>2
    <3> QED BY <3>1, <3>2
  <2>5. Agrees(wire'[s], members[s][d], members'[Home[v]][d], v, d)
    <3>1. CASE wire' = wire
      BY <2>1, <2>3, <3>1, MoreAtHome
    <3>2. CASE wire' = Broadcast(Home[m.user], <<m>>)
      BY <1>2, <1>4, <2>1, <2>3, <2>4, <3>2, ToldToAll
    <3> QED BY <1>1, <3>1, <3>2
  <2>6. Agrees(wire'[s], members'[s][d], members'[Home[v]][d], v, d)
    BY <2>2, <2>5, MoreAtHome
  <2> QED BY <1>1, <2>1, <2>2, <2>6
<1>5. RostersAreTold'
  BY <1>1, <1>4 DEF RostersAreTold
<1>6. MembersHaveChannel'
  BY <1>1, <1>2, <1>3 DEF MembersHaveChannel, RostersInv, ChannelsInv, ChannelsTypeOK
<1> QED BY <1>5, <1>6

LEMMA PartTells ==
  ASSUME RostersInv, NEW u \in ChatUsers, NEW c \in Chans, Part(u, c)
  PROVE  RostersAreTold' /\ MembersHaveChannel'
<1> USE ChannelsAssumption
<1> DEFINE home == Home[u]
           m == [type |-> "part", user |-> u, chan |-> c]
<1>1. /\ \/ wire' = wire /\ unannounced' = unannounced \cup {<<u, c>>}
         \/ wire' = Broadcast(Home[m.user], <<m>>) /\ unannounced' = unannounced
      /\ members' = [members EXCEPT ![home][c] = @ \ {u}]
      /\ UNCHANGED <<known, exists>>
  BY DEF Part, Removed
<1>2. /\ home \in Servers /\ m \in Messages /\ IsPart(m, u, c)
      /\ \A v, d : ~ IsJoin(m, v, d) /\ ~ IsGone(m, v)
  BY DEF Messages, IsPart, IsGone, IsJoin
<1> HIDE DEF m
<1>3. \A s \in Servers, d \in Chans :
        members'[s][d] = IF s = home /\ d = c THEN members[s][d] \ {u} ELSE members[s][d]
  BY <1>1, <1>2 DEF RostersInv, ChannelsInv, ChannelsTypeOK
<1>4. ASSUME NEW s \in Servers, NEW v \in ChatUsers, NEW d \in Chans,
             s # Home[v], <<v, d>> \notin unannounced'
      PROVE  /\ Agrees(wire'[s], members'[s][d], members'[Home[v]][d], v, d)
             /\ v \in members'[s][d] => v \in known'[s]
  <2>1. /\ Agrees(wire[s], members[s][d], members[Home[v]][d], v, d)
        /\ v \in members[s][d] => v \in known[s]
    BY <1>1, <1>4 DEF RostersInv, RostersAreTold
  <2>2. v \in members'[s][d] => v \in members[s][d]
    BY <1>3, <1>4
  <2>3. v \in members[Home[v]][d] => v \in members'[Home[v]][d] \/ (v = u /\ d = c)
    BY <1>3
  <2>4. Agrees(wire'[s], members[s][d], members'[Home[v]][d], v, d)
    <3>1. CASE wire' = wire /\ unannounced' = unannounced \cup {<<u, c>>}
      BY <1>4, <2>1, <2>3, <3>1, MoreAtHome
    <3>2. CASE wire' = Broadcast(Home[m.user], <<m>>)
      <4>1. v \in members[Home[v]][d] => v \in members'[Home[v]][d] \/ IsPart(m, v, d)
        BY <1>2, <2>3
      <4> QED BY <1>2, <1>4, <2>1, <3>2, <4>1, ToldToAll
    <3> QED BY <1>1, <3>1, <3>2
  <2>5. Agrees(wire'[s], members'[s][d], members'[Home[v]][d], v, d)
    BY <2>2, <2>4, MoreAtHome
  <2> QED BY <1>1, <2>1, <2>2, <2>5
<1>5. RostersAreTold'
  BY <1>4 DEF RostersAreTold
<1>6. MembersHaveChannel'
  BY <1>1, <1>2, <1>3 DEF MembersHaveChannel, RostersInv, ChannelsInv, ChannelsTypeOK
<1> QED BY <1>5, <1>6

(* Those of this server that ClearChannel puts out leave unannounced; the  *)
(* others are only forgotten.                                              *)
LEMMA ClearTells ==
  ASSUME RostersInv, NEW a \in ChatUsers, NEW c \in Chans, ClearChannel(a, c)
  PROVE  RostersAreTold' /\ MembersHaveChannel'
<1> USE ChannelsAssumption
<1> DEFINE home == Home[a]
<1>1. /\ members' = [members EXCEPT ![home][c] = {}]
      /\ unannounced' = unannounced \cup ({u \in members[home][c] : Home[u] = home} \X {c})
      /\ UNCHANGED <<known, exists, wire>>
  BY DEF ClearChannel, Emptied
<1>2. \A s \in Servers, d \in Chans :
        members'[s][d] = IF s = home /\ d = c THEN {} ELSE members[s][d]
  BY <1>1 DEF RostersInv, ChannelsInv, ChannelsTypeOK
<1>3. ASSUME NEW s \in Servers, NEW v \in ChatUsers, NEW d \in Chans,
             s # Home[v], <<v, d>> \notin unannounced'
      PROVE  /\ Agrees(wire'[s], members'[s][d], members'[Home[v]][d], v, d)
             /\ v \in members'[s][d] => v \in known'[s]
  <2>1. /\ Agrees(wire[s], members[s][d], members[Home[v]][d], v, d)
        /\ v \in members[s][d] => v \in known[s]
    BY <1>1, <1>3 DEF RostersInv, RostersAreTold
  <2>2. v \in members'[s][d] => v \in members[s][d]
    BY <1>2
  <2>3. v \in members[Home[v]][d] => v \in members'[Home[v]][d]
    BY <1>1, <1>2, <1>3
  <2>4. Agrees(wire[s], members'[s][d], members'[Home[v]][d], v, d)
    BY <2>1, <2>2, <2>3, MoreAtHome
  <2> QED BY <1>1, <2>1, <2>2, <2>4
<1>4. RostersAreTold'
  BY <1>3 DEF RostersAreTold
<1>5. MembersHaveChannel'
  BY <1>1, <1>2 DEF MembersHaveChannel, RostersInv
<1> QED BY <1>4, <1>5

LEMMA DeliverTells ==
  ASSUME RostersInv, NEW s \in Servers, Deliver(s)
  PROVE  RostersAreTold' /\ MembersHaveChannel'
<1> USE ChannelsAssumption
<1> DEFINE m == Head(wire[s])
           heard(u, c) == u \in known[s] /\ c \in exists[s]
<1>1. /\ wire[s] \in Seq(Messages) /\ wire[s] # <<>> /\ m \in Messages
      /\ \A t \in Servers : wire'[t] = IF t = s THEN Tail(wire[s]) ELSE wire[t]
      /\ m.user \in ChatUsers /\ Home[m.user] # s
      /\ UNCHANGED <<exists, unannounced>>
  <2>1. wire[s] \in Seq(Messages) /\ wire[s] # <<>>
    BY DEF Deliver, RostersInv, ChannelsInv, ChannelsTypeOK
  <2>2. m \in Messages /\ m = wire[s][1] /\ 1 \in 1..Len(wire[s])
    BY <2>1
  <2>3. m.user \in ChatUsers /\ Home[m.user] # s
    BY <2>2 DEF RostersInv, ChannelsInv, WireIsForeign, Messages
  <2>4. wire' = [wire EXCEPT ![s] = Tail(@)] /\ UNCHANGED <<exists, unannounced>>
    BY DEF Deliver
  <2> QED BY <2>1, <2>2, <2>3, <2>4 DEF RostersInv, ChannelsInv, ChannelsTypeOK
<1>2. \A t \in Servers, c \in Chans, u \in ChatUsers :
        u \in members'[t][c] <=>
          \/ u \in members[t][c] /\ ~ (t = s /\ IsPart(m, u, c) /\ heard(u, c))
          \/ t = s /\ IsJoin(m, u, c) /\ heard(u, c)
  <2>1. members \in [Servers -> [Chans -> SUBSET ChatUsers]] /\ exists[s] \subseteq Chans
    BY DEF RostersInv, ChannelsInv, ChannelsTypeOK
  <2>2. CASE m.type = "join" /\ heard(m.user, m.chan)
    <3>1. members' = [members EXCEPT ![s][m.chan] = @ \cup {m.user}]
      BY <2>2 DEF Deliver, Inserted
    <3>2. m.chan \in Chans
      BY <2>1, <2>2
    <3> HIDE DEF m
    <3>3. \A t \in Servers, c \in Chans :
            members'[t][c] = IF t = s /\ c = m.chan THEN members[t][c] \cup {m.user} ELSE members[t][c]
      BY <2>1, <3>1, <3>2
    <3>4. \A u, c : ~ IsPart(m, u, c) /\ (IsJoin(m, u, c) <=> u = m.user /\ c = m.chan)
      BY <2>2 DEF IsJoin, IsPart
    <3>5. TAKE t \in Servers, c \in Chans, u \in ChatUsers
    <3>6. CASE t = s /\ c = m.chan
      <4>1. members'[t][c] = members[t][c] \cup {m.user}
        BY <3>3, <3>6
      <4>2. u = m.user => heard(u, c)
        BY <2>2, <3>6
      <4> QED BY <3>4, <3>6, <4>1, <4>2
    <3>7. CASE ~ (t = s /\ c = m.chan)
      <4>1. members'[t][c] = members[t][c]
        BY <3>3, <3>7
      <4> QED BY <3>4, <3>7, <4>1
    <3> QED BY <3>6, <3>7
  <2>3. CASE m.type = "part" /\ heard(m.user, m.chan)
    <3>1. members' = [members EXCEPT ![s][m.chan] = @ \ {m.user}]
      BY <2>3 DEF Deliver, Removed
    <3>2. m.chan \in Chans
      BY <2>1, <2>3
    <3> HIDE DEF m
    <3>3. \A t \in Servers, c \in Chans :
            members'[t][c] = IF t = s /\ c = m.chan THEN members[t][c] \ {m.user} ELSE members[t][c]
      BY <2>1, <3>1, <3>2
    <3>4. \A u, c : ~ IsJoin(m, u, c) /\ (IsPart(m, u, c) <=> u = m.user /\ c = m.chan)
      BY <2>3 DEF IsJoin, IsPart
    <3>5. TAKE t \in Servers, c \in Chans, u \in ChatUsers
    <3>6. CASE t = s /\ c = m.chan
      <4>1. members'[t][c] = members[t][c] \ {m.user}
        BY <3>3, <3>6
      <4>2. u = m.user => heard(u, c)
        BY <2>3, <3>6
      <4> QED BY <3>4, <3>6, <4>1, <4>2
    <3>7. CASE ~ (t = s /\ c = m.chan)
      <4>1. members'[t][c] = members[t][c]
        BY <3>3, <3>7
      <4> QED BY <3>4, <3>7, <4>1
    <3> QED BY <3>6, <3>7
  <2>4. CASE ~ (m.type \in {"join", "part"} /\ heard(m.user, m.chan))
    <3>1. members' = members
      BY <2>4 DEF Deliver
    <3> HIDE DEF m
    <3> QED BY <2>4, <3>1 DEF IsJoin, IsPart
  <2> HIDE DEF m
  <2> QED BY <2>2, <2>3, <2>4
<1>3. \A t \in Servers, u \in ChatUsers :
        u \in known[t] /\ ~ (t = s /\ IsGone(m, u)) => u \in known'[t]
  <2>1. known \in [Servers -> SUBSET ChatUsers]
    BY DEF RostersInv, ChannelsInv, ChannelsTypeOK
  <2>2. CASE m.type = "hello"
    <3>1. known' = [known EXCEPT ![s] = @ \cup {m.user}]
      BY <2>2 DEF Deliver
    <3> QED BY <2>1, <3>1
  <2>3. CASE m.type = "gone"
    <3>1. known' = [known EXCEPT ![s] = @ \ {m.user}]
      BY <2>3 DEF Deliver
    <3> HIDE DEF m
    <3> QED BY <2>1, <2>3, <3>1 DEF IsGone
  <2>4. CASE m.type \notin {"hello", "gone"}
    <3>1. known' = known
      BY <2>4 DEF Deliver
    <3> QED BY <3>1
  <2> QED BY <2>2, <2>3, <2>4
<1> HIDE DEF m
<1>4. ASSUME NEW t \in Servers, NEW v \in ChatUsers, NEW d \in Chans,
             t # Home[v], <<v, d>> \notin unannounced
      PROVE  /\ Agrees(wire'[t], members'[t][d], members'[Home[v]][d], v, d)
             /\ v \in members'[t][d] => v \in known'[t]
  <2>1. /\ Agrees(wire[t], members[t][d], members[Home[v]][d], v, d)
        /\ v \in members[t][d] => v \in known[t] /\ d \in exists[t]
    BY <1>4 DEF RostersInv, RostersAreTold, MembersHaveChannel
  <2>2. v \in members[Home[v]][d] => v \in members'[Home[v]][d]
    <3>1. Home[v] = s => ~ IsPart(m, v, d)
      BY <1>1 DEF IsPart
    <3> QED BY <1>2, <3>1
  <2>3. CASE t = s
    <3>1. v \in members'[t][d] =>
            (v \in members[t][d] /\ ~ IsPart(m, v, d)) \/ IsJoin(m, v, d)
      BY <1>2, <2>1, <2>3
    <3>2. Agrees(wire'[t], members'[t][d], members[Home[v]][d], v, d)
      BY <1>1, <2>1, <2>3, <3>1, OneIsReceived DEF m
    <3>3. Agrees(wire'[t], members'[t][d], members'[Home[v]][d], v, d)
      BY <2>2, <3>2, MoreAtHome
    <3>4. IsGone(m, v) => v \notin members[t][d]
      BY <1>1, <2>1, <2>3, GoneIsInNone DEF m
    <3>5. v \in members'[t][d] => v \in known[t] /\ ~ IsGone(m, v)
      BY <1>2, <2>1, <2>3, <3>4 DEF IsJoin, IsGone
    <3> QED BY <1>3, <3>3, <3>5
  <2>4. CASE t # s
    <3>1. v \in members'[t][d] => v \in members[t][d]
      BY <1>2, <2>4
    <3>2. Agrees(wire'[t], members'[t][d], members'[Home[v]][d], v, d)
      BY <1>1, <2>1, <2>2, <2>4, <3>1, MoreAtHome
    <3> QED BY <1>3, <2>1, <2>4, <3>1, <3>2
  <2> QED BY <2>3, <2>4
<1>5. RostersAreTold'
  BY <1>1, <1>4 DEF RostersAreTold
<1>6. MembersHaveChannel'
  <2> SUFFICES ASSUME NEW t \in Servers, NEW c \in Chans, members'[t][c] # {}
               PROVE  c \in exists[t]
    BY <1>1 DEF MembersHaveChannel
  <2>1. members'[t][c] \subseteq ChatUsers
    <3>1. ChannelsInv'
      BY DeliverKeeps DEF RostersInv
    <3>2. members' \in [Servers -> [Chans -> SUBSET ChatUsers]]
      BY <3>1 DEF ChannelsInv, ChannelsTypeOK
    <3> QED BY <3>2
  <2>2. PICK u \in ChatUsers : u \in members'[t][c]
    BY <2>1
  <2>3. u \in members[t][c] \/ (t = s /\ c \in exists[s])
    BY <1>2, <2>2
  <2> QED BY <2>3 DEF RostersInv, MembersHaveChannel
<1> QED BY <1>5, <1>6

LEMMA ComeAndGoTells ==
  ASSUME RostersInv, NEW u \in ChatUsers, ChatLogin(u) \/ ChatLogout(u)
  PROVE  RostersAreTold' /\ MembersHaveChannel'
<1> USE ChannelsAssumption
<1>1. UNCHANGED <<exists, members, known, unannounced>>
  BY DEF ChatLogin, ChatLogout
<1>2. PICK m \in Messages :
        /\ wire' = Broadcast(Home[m.user], <<m>>)
        /\ \A v, d : ~ IsJoin(m, v, d) /\ ~ IsPart(m, v, d)
        /\ \A v : IsGone(m, v) => v = u /\ ChatLogout(u)
  <2>1. CASE ChatLogin(u)
    <3> DEFINE m == [type |-> "hello", user |-> u]
    <3>1. m \in Messages /\ m.user = u /\ m.type = "hello"
      BY DEF Messages
    <3>2. wire' = Broadcast(Home[m.user], <<m>>)
      BY <2>1, <3>1 DEF ChatLogin
    <3> HIDE DEF m
    <3> QED BY <3>1, <3>2 DEF IsJoin, IsPart, IsGone
  <2>2. CASE ChatLogout(u)
    <3> DEFINE m == [type |-> "gone", user |-> u]
    <3>1. m \in Messages /\ m.user = u /\ m.type = "gone"
      BY DEF Messages
    <3>2. wire' = Broadcast(Home[m.user], <<m>>)
      BY <2>2, <3>1 DEF ChatLogout
    <3> HIDE DEF m
    <3> QED BY <2>2, <3>1, <3>2 DEF IsJoin, IsPart, IsGone
  <2> QED BY <2>1, <2>2
<1>3. ChatLogout(u) => \A c \in Chans : u \notin members[Home[u]][c]
  BY DEF ChatLogout, RostersInv, ChannelsInv, MembersAreLinked
<1>4. ASSUME NEW s \in Servers, NEW v \in ChatUsers, NEW d \in Chans,
             s # Home[v], <<v, d>> \notin unannounced
      PROVE  /\ Agrees(wire'[s], members[s][d], members[Home[v]][d], v, d)
             /\ v \in members[s][d] => v \in known[s]
  <2>1. /\ Agrees(wire[s], members[s][d], members[Home[v]][d], v, d)
        /\ v \in members[s][d] => v \in known[s]
    BY <1>4 DEF RostersInv, RostersAreTold
  <2>2. IsGone(m, v) => v \notin members[Home[v]][d]
    BY <1>2, <1>3
  <2> QED BY <1>2, <1>4, <2>1, <2>2, ToldToAll
<1> QED BY <1>1, <1>4 DEF RostersAreTold, MembersHaveChannel, RostersInv

(* What a server believes of the other servers' users is true, or about to *)
(* be put right by a part on its way, and it holds no user in a channel    *)
(* that it has deleted, but for those that left unannounced: whatever is   *)
(* joined, left, cleared and delivered in between (channel.cc:366-400).    *)
THEOREM RostersComeToAgree == ChannelsSpec => []RostersAgree
<1> USE ChannelsAssumption
<1>1. ChannelsInit => RostersAreTold /\ MembersHaveChannel
  <2> SUFFICES ASSUME ChannelsInit
               PROVE  RostersAreTold /\ MembersHaveChannel
    OBVIOUS
  <2>1. \A s \in Servers : wire[s] = <<>> /\ Len(wire[s]) = 0
    BY DEF ChannelsInit
  <2>2. \A s \in Servers, c \in Chans : members[s][c] = {}
    BY DEF ChannelsInit
  <2> QED BY <2>1, <2>2 DEF RostersAreTold, MembersHaveChannel, Agrees, TrueOrUndone,
                            UndoneBeforeGone, Believed
<1>2. ChannelsInv /\ RostersAreTold /\ MembersHaveChannel /\ [ChannelsNext]_channelVars =>
        RostersAreTold' /\ MembersHaveChannel'
  <2> SUFFICES ASSUME RostersInv, [ChannelsNext]_channelVars
               PROVE  RostersAreTold' /\ MembersHaveChannel'
    BY DEF RostersInv
  <2>1. ASSUME UNCHANGED <<exists, members, known, wire, unannounced>>
        PROVE  RostersAreTold' /\ MembersHaveChannel'
    BY <2>1 DEF RostersInv, RostersAreTold, MembersHaveChannel
  <2>2. CASE UNCHANGED channelVars
    BY <2>1, <2>2 DEF channelVars
  <2>3. ASSUME NEW a \in ChatUsers, NEW c \in Chans, SetLevel(a, c)
        PROVE  RostersAreTold' /\ MembersHaveChannel'
    BY <2>1, <2>3 DEF SetLevel
  <2> QED BY <2>2, <2>3, JoinTells, PartTells, ClearTells, DeliverTells, ComeAndGoTells
          DEF ChannelsNext
<1>3. ChannelsTypeOK /\ RostersAreTold => RostersAgree
  <2> SUFFICES ASSUME ChannelsTypeOK, RostersAreTold
               PROVE  RostersAgree
    OBVIOUS
  <2>1. NoDanglingRemote
    BY DEF RostersAreTold, NoDanglingRemote
  <2>2. ASSUME NEW s \in Servers, NEW u \in ChatUsers, NEW c \in Chans,
               s # Home[u], u \in members[s][c], <<u, c>> \notin unannounced,
               u \notin members[Home[u]][c]
        PROVE  \E i \in DOMAIN wire[s] : wire[s][i] = [type |-> "part", user |-> u, chan |-> c]
    <3>1. Agrees(wire[s], members[s][c], members[Home[u]][c], u, c)
      BY <2>2 DEF RostersAreTold
    <3>2. wire[s] \in Seq(Messages) /\ Len(wire[s]) \in Nat /\ DOMAIN wire[s] = 1..Len(wire[s])
      BY DEF ChannelsTypeOK
    <3>3. PICK k \in 1..Len(wire[s]) : IsPart(wire[s][k], u, c)
      BY <2>2, <3>1, <3>2 DEF Agrees, TrueOrUndone, Believed, Undone
    <3>4. wire[s][k] \in Messages
      BY <3>2
    <3>5. wire[s][k] \in [type : {"join", "part"}, user : ChatUsers, chan : Chans]
      BY <3>3, <3>4 DEF Messages, IsPart
    <3> QED BY <3>2, <3>3, <3>5 DEF IsPart
  <2>3. RosterSound
    BY <2>2 DEF RosterSound
  <2> QED BY <2>1, <2>3 DEF RostersAgree
<1>4. ChannelsSpec => []ChannelsInv
  BY ChannelsStayInv
<1>5. ChannelsInv => ChannelsTypeOK
  BY DEF ChannelsInv
<1> QED BY <1>1, <1>2, <1>3, <1>4, <1>5, PTL DEF ChannelsSpec

-----------------------------------------------------------------------------
(***************************************************************************)
(* Lists of ignored users                                                  *)
(***************************************************************************)
(* What is left in todo when a command comes is what the login left: an    *)
(* ADD of names that are on the list.                                      *)
TodoIsOfLogin ==
  \A i \in 1..Len(todo) : todo[i].op = "ADD" /\ todo[i].name \in ignores

NothingLeftBehind == ~ loaded => todo = <<>>

IgnoresInv == IgnoresSound /\ TodoIsOfLogin /\ NothingLeftBehind

(* SetToSeq names each element of a finite set. *)
LEMMA AllAreListed ==
  ASSUME NEW S, IsFiniteSet(S)
  PROVE  /\ SetToSeq(S) \in [1..Cardinality(S) -> S]
         /\ \A x \in S : \E i \in 1..Cardinality(S) : SetToSeq(S)[i] = x
<1> DEFINE n == Cardinality(S)
           f == SetToSeq(S)
<1>1. n \in Nat /\ ExistsBijection(1..n, S)
  BY FS_CardinalityType
<1>2. \E g \in [1..n -> S] : IsInjective(g)
  BY <1>1 DEF ExistsBijection, Bijection, Injection
<1>3. f \in [1..n -> S] /\ IsInjective(f)
  BY <1>2 DEF SetToSeq
<1> HIDE DEF n, f
<1>4. IsFiniteSet(1..n) /\ Cardinality(1..n) = n
  BY <1>1, FS_Interval
<1>5. f \in Injection(1..n, S)
  BY <1>3 DEF Injection
<1>6. f \in Surjection(1..n, S)
  BY <1>4, <1>5, FS_Injection DEF n
<1> QED BY <1>3, <1>6 DEF n, f, Surjection

LEMMA ChangesAreOfNames ==
  ASSUME NEW S \in SUBSET IgnoreNames, NEW op \in {"ADD", "REMOVE"}
  PROVE  /\ Changes(op, S) \in Seq(Delta)
         /\ \A i \in 1..Len(Changes(op, S)) : Changes(op, S)[i].op = op /\ Changes(op, S)[i].name \in S
         /\ \A x \in S : \E i \in 1..Len(Changes(op, S)) : Changes(op, S)[i].name = x
<1> DEFINE n == Cardinality(S)
           f == SetToSeq(S)
           t == Changes(op, S)
<1>1. IsFiniteSet(S)
  BY IgnoresAssumption, FS_Subset
<1>2. /\ n \in Nat /\ f \in [1..n -> S]
      /\ \A x \in S : \E i \in 1..n : f[i] = x
  BY <1>1, AllAreListed, FS_CardinalityType
<1>3. t = [i \in 1..n |-> [name |-> f[i], op |-> op]]
  BY DEF Changes
<1> HIDE DEF n, f, t
<1>4. \A i \in 1..n : [name |-> f[i], op |-> op] \in Delta
  BY <1>2 DEF Delta
<1>5. t \in Seq(Delta) /\ Len(t) = n
  BY <1>2, <1>3, <1>4
<1> QED BY <1>2, <1>3, <1>5 DEF t

(* What an update does about one name: no query went through, and the row  *)
(* is as it was; or the last that did inserted it, perhaps from freed      *)
(* memory, or deleted it.                                                  *)
UntouchedBy(t, n) ==
  /\ n \in table' <=> n \in table
  /\ \A i \in 1..Len(t) : t[i].name = n => n \in failed'

InsertedBy(t, n) ==
  \E k \in 1..Len(t) : /\ t[k].name = n /\ t[k].op = "ADD" /\ n \in table'
                       /\ Freed(t, k) => n \in revived'

DeletedBy(t, n) ==
  \E k \in 1..Len(t) : t[k].name = n /\ t[k].op = "REMOVE" /\ n \notin table'

LEMMA UpdateSays ==
  ASSUME IgnoresTypeOK, NEW t \in Seq(Delta), UpdateIgnores(t)
  PROVE  /\ table' \subseteq KnownNames /\ todo' = <<>>
         /\ failed \subseteq failed' /\ failed' \subseteq IgnoreNames
         /\ revived \subseteq revived' /\ revived' \subseteq IgnoreNames
         /\ \A n \in KnownNames : UntouchedBy(t, n) \/ InsertedBy(t, n) \/ DeletedBy(t, n)
<1> DEFINE L == Len(t)
<1>1. L \in Nat /\ \A i \in 1..L : t[i] \in Delta
  OBVIOUS
<1>2. \A i \in 1..L : t[i].name \in IgnoreNames /\ t[i].op \in {"ADD", "REMOVE"}
  BY <1>1 DEF Delta
<1> HIDE DEF L
<1>3. PICK ok \in [1..L -> BOOLEAN] :
        LET done(n) == {i \in 1..L : t[i].name = n /\ ok[i]}
            last(n) == CHOOSE i \in done(n) : \A j \in done(n) : j <= i
        IN /\ table' = {n \in KnownNames :
                          IF done(n) = {} THEN n \in table ELSE t[last(n)].op = "ADD"}
           /\ failed' = failed \cup {t[i].name : i \in {k \in 1..L : ~ ok[k]}}
           /\ revived' = revived \cup {t[i].name : i \in {k \in 1..L : ok[k] /\ Freed(t, k)}}
           /\ todo' = <<>>
  BY DEF UpdateIgnores, L
<1> DEFINE done(n) == {i \in 1..L : t[i].name = n /\ ok[i]}
           last(n) == CHOOSE i \in done(n) : \A j \in done(n) : j <= i
<1>4. /\ table' = {n \in KnownNames :
                     IF done(n) = {} THEN n \in table ELSE t[last(n)].op = "ADD"}
      /\ failed' = failed \cup {t[i].name : i \in {k \in 1..L : ~ ok[k]}}
      /\ revived' = revived \cup {t[i].name : i \in {k \in 1..L : ok[k] /\ Freed(t, k)}}
      /\ todo' = <<>>
  BY <1>3
<1>5. /\ failed \subseteq failed' /\ failed' \subseteq IgnoreNames
      /\ revived \subseteq revived' /\ revived' \subseteq IgnoreNames
  BY <1>2, <1>4 DEF IgnoresTypeOK
<1>6. ASSUME NEW n \in KnownNames
      PROVE  UntouchedBy(t, n) \/ InsertedBy(t, n) \/ DeletedBy(t, n)
  <2>1. CASE done(n) = {}
    <3>1. n \in table' <=> n \in table
      BY <1>4, <2>1
    <3>2. \A i \in 1..L : t[i].name = n => n \in failed'
      BY <1>4, <2>1
    <3> QED BY <3>1, <3>2 DEF UntouchedBy, L
  <2>2. CASE done(n) # {}
    <3>1. \E m \in done(n) : \A j \in done(n) : j <= m
      BY <1>1, <2>2, OneIsLast
    <3>2. last(n) \in done(n)
      BY <3>1
    <3>3. n \in table' <=> t[last(n)].op = "ADD"
      BY <1>4, <2>2
    <3> HIDE DEF last
    <3>4. PICK k \in 1..L : /\ t[k].name = n /\ ok[k]
                            /\ n \in table' <=> t[k].op = "ADD"
      BY <3>2, <3>3
    <3>5. Freed(t, k) => n \in revived'
      BY <1>4, <3>4
    <3> QED BY <1>2, <3>4, <3>5 DEF InsertedBy, DeletedBy, L
  <2> QED BY <2>1, <2>2
<1> QED BY <1>4, <1>5, <1>6

(* A list of changes with those of one command in front of what the login  *)
(* left.                                                                   *)
LEMMA InFront ==
  ASSUME NEW s \in Seq(Delta), NEW t \in Seq(Delta)
  PROVE  /\ s \o t \in Seq(Delta) /\ Len(s \o t) = Len(s) + Len(t)
         /\ Len(s) \in Nat /\ Len(t) \in Nat
         /\ \A i \in 1..Len(s) : (s \o t)[i] = s[i]
         /\ \A i \in (Len(s) + 1)..(Len(s) + Len(t)) : i - Len(s) \in 1..Len(t) /\ (s \o t)[i] = t[i - Len(s)]
OBVIOUS

(* An update after a command that adds or removes the names of S.          *)
LEMMA CommandKeeps ==
  ASSUME IgnoresInv, loaded, loaded', NEW S \in SUBSET IgnoreNames,
         NEW op \in {"ADD", "REMOVE"}, UpdateIgnores(Changes(op, S) \o todo),
         op = "ADD" => ignores' = ignores \cup S /\ S \cap ignores = {},
         op = "REMOVE" => ignores' = ignores \ S /\ S \subseteq ignores
  PROVE  IgnoresInv'
<1> DEFINE s == Changes(op, S)
           t == s \o todo
<1>1. /\ s \in Seq(Delta)
      /\ \A i \in 1..Len(s) : s[i].op = op /\ s[i].name \in S
      /\ \A x \in S : \E i \in 1..Len(s) : s[i].name = x
  <2>1. s \in Seq(Delta)
    BY ChangesAreOfNames
  <2>2. \A i \in 1..Len(s) : s[i].op = op /\ s[i].name \in S
    BY ChangesAreOfNames
  <2>3. \A x \in S : \E i \in 1..Len(s) : s[i].name = x
    BY ChangesAreOfNames
  <2> QED BY <2>1, <2>2, <2>3
<1>2. IgnoresTypeOK /\ todo \in Seq(Delta)
  BY DEF IgnoresInv, IgnoresSound, IgnoresTypeOK
<1> HIDE DEF s
<1>3. /\ t \in Seq(Delta) /\ Len(t) = Len(s) + Len(todo) /\ Len(s) \in Nat /\ Len(todo) \in Nat
      /\ \A i \in 1..Len(s) : t[i].op = op /\ t[i].name \in S
      /\ \A i \in (Len(s) + 1)..Len(t) : t[i].op = "ADD" /\ t[i].name \in ignores
      /\ \A x \in S : \E i \in 1..Len(s) : t[i].name = x
  <2>1. /\ t \in Seq(Delta) /\ Len(t) = Len(s) + Len(todo) /\ Len(s) \in Nat /\ Len(todo) \in Nat
        /\ \A i \in 1..Len(s) : t[i] = s[i]
        /\ \A i \in (Len(s) + 1)..(Len(s) + Len(todo)) :
             i - Len(s) \in 1..Len(todo) /\ t[i] = todo[i - Len(s)]
    BY <1>1, <1>2, InFront
  <2> HIDE DEF t
  <2>2. \A i \in (Len(s) + 1)..Len(t) : t[i].op = "ADD" /\ t[i].name \in ignores
    BY <2>1 DEF IgnoresInv, TodoIsOfLogin
  <2> QED BY <1>1, <2>1, <2>2
<1>4. UpdateIgnores(t)
  BY DEF s
<1> HIDE DEF t
<1>5. /\ table' \subseteq KnownNames /\ todo' = <<>>
      /\ failed \subseteq failed' /\ failed' \subseteq IgnoreNames
      /\ revived \subseteq revived' /\ revived' \subseteq IgnoreNames
      /\ \A n \in KnownNames : UntouchedBy(t, n) \/ InsertedBy(t, n) \/ DeletedBy(t, n)
  BY <1>2, <1>3, <1>4, UpdateSays
<1>6. IgnoresTypeOK'
  BY <1>2, <1>5 DEF IgnoresTypeOK
<1>7. KnownNames \subseteq IgnoreNames /\ table \subseteq KnownNames
  BY <1>2, IgnoresAssumption DEF IgnoresTypeOK
<1>8. \A k \in 1..Len(t) : k \in 1..Len(s) \/ k \in (Len(s) + 1)..Len(t)
  BY <1>3
<1>9. IgnoredIsSaved'
  <2> SUFFICES ASSUME NEW n \in KnownNames, n \in ignores'
               PROVE  n \in table' \/ n \in failed'
    BY DEF IgnoredIsSaved
  <2>1. CASE UntouchedBy(t, n)
    <3>1. CASE n \in ignores
      BY <1>5, <2>1, <3>1 DEF UntouchedBy, IgnoresInv, IgnoresSound, IgnoredIsSaved
    <3>2. CASE n \in S
      BY <1>3, <2>1, <3>2 DEF UntouchedBy
    <3> QED BY <3>1, <3>2
  <2>2. CASE InsertedBy(t, n)
    BY <2>2 DEF InsertedBy
  <2>3. CASE DeletedBy(t, n)
    <3>1. PICK k \in 1..Len(t) : t[k].name = n /\ t[k].op = "REMOVE"
      BY <2>3 DEF DeletedBy
    <3>2. op = "REMOVE" /\ n \in S
      BY <1>3, <1>8, <3>1
    <3> QED BY <3>2
  <2> QED BY <1>5, <2>1, <2>2, <2>3
<1>10. RemovedIsForgotten'
  <2> SUFFICES ASSUME NEW n \in table'
               PROVE  n \in ignores' \/ n \in failed' \/ n \in revived'
    BY DEF RemovedIsForgotten
  <2>1. n \in KnownNames
    BY <1>5
  <2>2. CASE UntouchedBy(t, n)
    <3>1. n \in ignores \/ n \in failed \/ n \in revived
      BY <2>2 DEF UntouchedBy, IgnoresInv, IgnoresSound, RemovedIsForgotten
    <3>2. n \in S => n \in failed'
      BY <1>3, <2>2 DEF UntouchedBy
    <3> QED BY <1>5, <3>1, <3>2
  <2>3. CASE InsertedBy(t, n)
    <3>1. PICK k \in 1..Len(t) : /\ t[k].name = n /\ t[k].op = "ADD"
                                 /\ Freed(t, k) => n \in revived'
      BY <2>3 DEF InsertedBy
    <3>2. CASE op = "ADD"
      BY <1>3, <1>8, <3>1, <3>2
    <3>3. CASE op = "REMOVE"
      <4>1. k \in (Len(s) + 1)..Len(t) /\ n \in ignores
        BY <1>3, <1>8, <3>1, <3>3
      <4>2. n \in S => Freed(t, k)
        <5>1. SUFFICES ASSUME n \in S
                       PROVE  Freed(t, k)
          OBVIOUS
        <5>2. PICK j \in 1..Len(s) : t[j].name = n
          BY <1>3, <5>1
        <5>3. j \in 1..(k - 1) /\ t[j].op = "REMOVE"
          BY <1>3, <3>3, <4>1, <5>2
        <5> QED BY <3>1, <5>2, <5>3 DEF Freed
      <4> QED BY <3>1, <3>3, <4>1, <4>2
    <3> QED BY <3>2, <3>3
  <2>4. CASE DeletedBy(t, n)
    BY <2>4 DEF DeletedBy
  <2> QED BY <1>5, <2>1, <2>2, <2>3, <2>4
<1>11. TodoIsOfLogin' /\ NothingLeftBehind'
  BY <1>5 DEF TodoIsOfLogin, NothingLeftBehind
<1> QED BY <1>6, <1>9, <1>10, <1>11 DEF IgnoresInv, IgnoresSound

LEMMA LoadKeeps ==
  ASSUME IgnoresInv, LoadIgnores
  PROVE  IgnoresInv'
<1>1. PICK fetched \in SUBSET table :
        /\ ignores' = fetched /\ todo' = Changes("ADD", fetched) /\ failed' = table \ fetched
  BY DEF LoadIgnores
<1>2. loaded' /\ loaded' \in BOOLEAN /\ revived' = {} /\ table' = table
  BY DEF LoadIgnores
<1>3. table \subseteq KnownNames /\ KnownNames \subseteq IgnoreNames
  BY IgnoresAssumption DEF IgnoresInv, IgnoresSound, IgnoresTypeOK
<1>4. /\ todo' \in Seq(Delta)
      /\ \A i \in 1..Len(todo') : todo'[i].op = "ADD" /\ todo'[i].name \in fetched
  BY <1>1, <1>3, ChangesAreOfNames
<1>5. IgnoresTypeOK'
  BY <1>1, <1>2, <1>3, <1>4 DEF IgnoresTypeOK
<1>6. IgnoredIsSaved' /\ RemovedIsForgotten'
  BY <1>1, <1>2 DEF IgnoredIsSaved, RemovedIsForgotten
<1>7. TodoIsOfLogin' /\ NothingLeftBehind'
  BY <1>1, <1>2, <1>4 DEF TodoIsOfLogin, NothingLeftBehind
<1> QED BY <1>5, <1>6, <1>7 DEF IgnoresInv, IgnoresSound

LEMMA UnloadKeeps ==
  ASSUME IgnoresInv, Unload
  PROVE  IgnoresInv'
<1>1. loaded' = FALSE /\ ignores' = {} /\ UpdateIgnores(todo)
  BY DEF Unload
<1>2. IgnoresTypeOK /\ todo \in Seq(Delta)
  BY DEF IgnoresInv, IgnoresSound, IgnoresTypeOK
<1>3. /\ table' \subseteq KnownNames /\ todo' = <<>>
      /\ failed' \subseteq IgnoreNames /\ revived' \subseteq IgnoreNames
  BY <1>1, <1>2, UpdateSays
<1>4. IgnoresTypeOK'
  <2>1. <<>> \in Seq(Delta)
    OBVIOUS
  <2>2. todo' \in Seq(Delta)
    BY <1>3, <2>1
  <2>3. loaded' = FALSE
    BY <1>1
  <2>4. loaded' \in BOOLEAN
    BY <2>3
  <2> QED BY <1>1, <1>3, <2>2, <2>4 DEF IgnoresTypeOK
<1>5. IgnoredIsSaved' /\ RemovedIsForgotten' /\ TodoIsOfLogin' /\ NothingLeftBehind'
  BY <1>1, <1>3 DEF IgnoredIsSaved, RemovedIsForgotten, TodoIsOfLogin, NothingLeftBehind
<1> QED BY <1>4, <1>5 DEF IgnoresInv, IgnoresSound

(* Of any names and any queries that fail: after each command the list and *)
(* its rows differ only where a query failed or a removal was undone out   *)
(* of freed memory (ignore.cc, db.cc:151-232).                             *)
THEOREM IgnoredIsWhatIsSaved == IgnoresSpec => []IgnoresSound
<1>1. IgnoresInit => IgnoresInv
  <2> SUFFICES ASSUME IgnoresInit
               PROVE  IgnoresInv
    OBVIOUS
  <2>1. Len(todo) = 0 /\ todo \in Seq(Delta)
    BY DEF IgnoresInit
  <2>2. loaded = FALSE /\ loaded \in BOOLEAN
    BY DEF IgnoresInit
  <2>3. IgnoresTypeOK
    BY <2>1, <2>2 DEF IgnoresInit, IgnoresTypeOK
  <2>4. IgnoredIsSaved /\ RemovedIsForgotten
    BY <2>2 DEF IgnoredIsSaved, RemovedIsForgotten
  <2>5. TodoIsOfLogin /\ NothingLeftBehind
    BY <2>1 DEF IgnoresInit, TodoIsOfLogin, NothingLeftBehind
  <2> QED BY <2>3, <2>4, <2>5 DEF IgnoresInv, IgnoresSound
<1>2. IgnoresInv /\ [IgnoresNext]_ignoreVars => IgnoresInv'
  <2> SUFFICES ASSUME IgnoresInv, [IgnoresNext]_ignoreVars
               PROVE  IgnoresInv'
    OBVIOUS
  <2>1. CASE UNCHANGED ignoreVars
    BY <2>1 DEF ignoreVars, IgnoresInv, IgnoresSound, IgnoresTypeOK, IgnoredIsSaved,
                RemovedIsForgotten, TodoIsOfLogin, NothingLeftBehind
  <2>2. ASSUME NEW n \in IgnoreNames, AddIgnore(n)
        PROVE  IgnoresInv'
    <3>1. {n} \in SUBSET IgnoreNames /\ {n} \cap ignores = {}
      BY <2>2 DEF AddIgnore
    <3> QED BY <2>2, <3>1, CommandKeeps DEF AddIgnore
  <2>3. ASSUME NEW n \in IgnoreNames, RemoveIgnore(n)
        PROVE  IgnoresInv'
    <3>1. {n} \in SUBSET IgnoreNames /\ {n} \subseteq ignores
      BY <2>3 DEF RemoveIgnore
    <3> QED BY <2>3, <3>1, CommandKeeps DEF RemoveIgnore
  <2>4. CASE ClearIgnores
    <3>1. ignores \in SUBSET IgnoreNames /\ ignores' = ignores \ ignores
      BY <2>4 DEF ClearIgnores, IgnoresInv, IgnoresSound, IgnoresTypeOK
    <3> QED BY <2>4, <3>1, CommandKeeps DEF ClearIgnores
  <2> QED BY <2>1, <2>2, <2>3, <2>4, LoadKeeps, UnloadKeeps DEF IgnoresNext
<1>3. IgnoresInv => IgnoresSound
  BY DEF IgnoresInv
<1> QED BY <1>1, <1>2, <1>3, PTL DEF IgnoresSpec

-----------------------------------------------------------------------------
(***************************************************************************)
(* Shared files                                                            *)
(***************************************************************************)
AllShared == UNION {files[c] : c \in Sharers}

FilesTypeOK ==
  /\ heap \in [Objects -> FileRecords \cup {NoFile}]
  /\ files \in [Sharers -> SUBSET Objects]
  /\ fileHash \subseteq Objects \X Sharers
  /\ totalFiles \in 0..(CounterSize - 1) /\ unseen \in 0..(CounterSize - 1)

LEMMA RecordsAreNoMarks == NoFile \notin FileRecords
BY ShareAssumption DEF FileRecords, NoFile

(* What a counter of n values reads, one lap away at most.                 *)
LEMMA OneLap ==
  ASSUME NEW n \in Nat \ {0}, NEW x \in Int
  PROVE  /\ 0 <= x /\ x < n => x % n = x
         /\ n <= x /\ x < 2 * n => x % n = x - n
         /\ - n <= x /\ x < 0 => x % n = x + n
         /\ x % n \in 0..(n - 1)
OBVIOUS

(* Both counters and the count are less than a lap, so that TotalLags says *)
(* that they agree or have turned over once.                               *)
LEMMA LagsAreOneLap ==
  ASSUME NEW n \in Nat \ {0}, NEW t \in 0..(n - 1), NEW u \in 0..(n - 1), NEW k \in 0..(n - 1)
  PROVE  (t + u - k) % n = 0 <=> t + u = k \/ t + u = k + n
<1> DEFINE x == t + u - k
<1>1. x \in Int /\ - n <= x /\ x < 2 * n
  OBVIOUS
<1> HIDE DEF x
<1>2. x % n = 0 <=> x = 0 \/ x = n \/ x = - n
  BY <1>1, OneLap
<1>3. x # - n
  BY DEF x
<1> QED BY <1>2, <1>3 DEF x

(* Up or down by less than a lap. *)
LEMMA CounterMoves ==
  ASSUME NEW n \in Nat \ {0}, NEW u \in 0..(n - 1), NEW k \in 0..(n - 1)
  PROVE  /\ (u + k) % n \in 0..(n - 1) /\ (u - k) % n \in 0..(n - 1)
         /\ (u + k) % n = u + k \/ (u + k) % n = u + k - n
         /\ (u - k) % n = u - k \/ (u - k) % n = u - k + n
<1> DEFINE x == u + k  y == u - k
<1>1. /\ x \in Int /\ 0 <= x /\ x < 2 * n
      /\ y \in Int /\ - n <= y /\ y < n
  OBVIOUS
<1> HIDE DEF x, y
<1>2. /\ x % n \in 0..(n - 1) /\ y % n \in 0..(n - 1)
      /\ x % n = x \/ x % n = x - n
      /\ y % n = y \/ y % n = y + n
  <2>1. x % n \in 0..(n - 1) /\ y % n \in 0..(n - 1)
    BY <1>1, OneLap
  <2>2. x % n = x \/ x % n = x - n
    <3>1. CASE x < n
      BY <1>1, <3>1, OneLap
    <3>2. CASE n <= x
      BY <1>1, <3>2, OneLap
    <3> QED BY <1>1, <3>1, <3>2
  <2>3. y % n = y \/ y % n = y + n
    <3>1. CASE y < 0
      BY <1>1, <3>1, OneLap
    <3>2. CASE 0 <= y
      BY <1>1, <3>2, OneLap
    <3> QED BY <1>1, <3>1, <3>2
  <2> QED BY <2>1, <2>2, <2>3
<1> QED BY <1>2 DEF x, y

(* The lists hold fewer files than the counters count. *)
LEMMA CountIsSmall ==
  ASSUME NEW fs \in [Sharers -> SUBSET Objects]
  PROVE  LET all == UNION {fs[c] : c \in Sharers} IN
         /\ IsFiniteSet(all) /\ Cardinality(all) \in 0..(CounterSize - 1)
         /\ \A c \in Sharers : IsFiniteSet(fs[c]) /\ Cardinality(fs[c]) \in Nat
<1> USE ShareAssumption
<1> DEFINE all == UNION {fs[c] : c \in Sharers}
<1>1. all \subseteq Objects /\ \A c \in Sharers : fs[c] \subseteq Objects
  OBVIOUS
<1> HIDE DEF all
<1>2. \A c \in Sharers : IsFiniteSet(fs[c]) /\ Cardinality(fs[c]) \in Nat
  BY <1>1, FS_Subset, FS_CardinalityType
<1>3. IsFiniteSet(all) /\ Cardinality(all) <= Cardinality(Objects)
  BY <1>1, FS_Subset
<1>4. Cardinality(all) \in Nat /\ Cardinality(Objects) \in Nat
  BY <1>3, FS_CardinalityType
<1>5. Cardinality(all) \in 0..(CounterSize - 1)
  BY <1>3, <1>4
<1> QED BY <1>2, <1>3, <1>5 DEF all

LEMMA PairIsItsParts ==
  ASSUME NEW A, NEW B
  PROVE  \A p \in A \X B : p[1] \in A /\ p[2] \in B /\ p = <<p[1], p[2]>>
OBVIOUS

(* Files that come, at free addresses, onto the list of c: each is entered *)
(* everywhere once, and noted as unseen.                                   *)
LEMMA FilesCome ==
  ASSUME FilesTypeOK, HashIsLists, TotalLags, OneAboveTheLimit,
         NEW c \in Sharers, NEW new \in SUBSET Objects,
         \A f \in new : heap[f] = NoFile /\ heap'[f] \in FileRecords,
         \A f \in Objects \ new : heap'[f] = heap[f],
         heap' \in [Objects -> FileRecords \cup {NoFile}],
         files' = [files EXCEPT ![c] = @ \cup new],
         fileHash' = fileHash \cup (new \X {c}),
         unseen' = (unseen + Cardinality(new)) % CounterSize,
         totalFiles' = totalFiles,
         Cardinality(files[c] \cup new) <= MaxSharedFiles + 1
  PROVE  (FilesTypeOK /\ HashIsLists /\ TotalLags /\ OneAboveTheLimit)'
<1> USE ShareAssumption
<1>1. \A d \in Sharers : files'[d] = IF d = c THEN files[d] \cup new ELSE files[d]
  BY DEF FilesTypeOK
<1>2. \A d \in Sharers : \A f \in files[d] : f \in Objects /\ f \notin new /\ heap[f] # NoFile
  <2> SUFFICES ASSUME NEW d \in Sharers, NEW f \in files[d]
               PROVE  f \in Objects /\ f \notin new /\ heap[f] # NoFile
    OBVIOUS
  <2>1. f \in Objects
    BY DEF FilesTypeOK
  <2>2. <<f, d>> \in fileHash
    BY <2>1 DEF HashIsLists
  <2> QED BY <2>1, <2>2 DEF HashIsLists
<1>3. IsFiniteSet(new) /\ Cardinality(new) \in Nat /\ Cardinality(new) < CounterSize
  <2>1. IsFiniteSet(new) /\ Cardinality(new) <= Cardinality(Objects)
    BY FS_Subset
  <2>2. Cardinality(new) \in Nat /\ Cardinality(Objects) \in Nat
    BY <2>1, FS_CardinalityType
  <2> QED BY <2>1, <2>2
<1>4. FilesTypeOK'
  <2>1. files' \in [Sharers -> SUBSET Objects]
    BY <1>1 DEF FilesTypeOK
  <2>2. fileHash' \subseteq Objects \X Sharers
    BY DEF FilesTypeOK
  <2>3. unseen' \in 0..(CounterSize - 1)
    BY <1>3, CounterMoves DEF FilesTypeOK
  <2> QED BY <2>1, <2>2, <2>3 DEF FilesTypeOK
<1>5. HashIsLists'
  <2>1. \A f \in Objects, d \in Sharers : <<f, d>> \in fileHash' <=> f \in files'[d]
    <3> SUFFICES ASSUME NEW f \in Objects, NEW d \in Sharers
                 PROVE  <<f, d>> \in fileHash' <=> f \in files'[d]
      OBVIOUS
    <3>1. <<f, d>> \in fileHash <=> f \in files[d]
      BY DEF HashIsLists
    <3>2. <<f, d>> \in fileHash' <=> <<f, d>> \in fileHash \/ (f \in new /\ d = c)
      OBVIOUS
    <3> QED BY <1>1, <3>1, <3>2
  <2>2. fileHash' = {p \in Objects \X Sharers : p[1] \in files'[p[2]]}
    <3>1. fileHash' \in SUBSET (Objects \X Sharers)
      BY <1>4 DEF FilesTypeOK
    <3>2. \A p \in Objects \X Sharers : p \in fileHash' <=> p[1] \in files'[p[2]]
      <4> TAKE p \in Objects \X Sharers
      <4>1. p[1] \in Objects /\ p[2] \in Sharers /\ p = <<p[1], p[2]>>
        BY PairIsItsParts
      <4>2. <<p[1], p[2]>> \in fileHash' <=> p[1] \in files'[p[2]]
        BY <2>1, <4>1
      <4> QED BY <4>1, <4>2
    <3> QED BY <3>1, <3>2
  <2>3. \A p \in fileHash' : heap'[p[1]] # NoFile
    <3> SUFFICES ASSUME NEW f \in Objects, NEW d \in Sharers, f \in files'[d]
                 PROVE  heap'[f] # NoFile
      BY <2>2
    <3> QED BY <1>1, <1>2, RecordsAreNoMarks
  <2>4. \A a, b \in Sharers : a # b => files'[a] \cap files'[b] = {}
    BY <1>1, <1>2 DEF HashIsLists
  <2> QED BY <2>2, <2>3, <2>4 DEF HashIsLists
<1>6. TotalLags'
  <2>1. AllShared' = AllShared \cup new
    BY <1>1 DEF AllShared
  <2>2. AllShared \cap new = {}
    BY <1>2 DEF AllShared
  <2>3. Counted' = Counted + Cardinality(new)
    <3>1. IsFiniteSet(AllShared) /\ Counted = Cardinality(AllShared) /\ Counted \in Nat
      BY CountIsSmall DEF FilesTypeOK, Counted, AllShared
    <3>2. Cardinality(AllShared \cup new) = Counted + Cardinality(new) - Cardinality(AllShared \cap new)
      BY <1>3, <3>1, FS_Union
    <3>3. Cardinality(AllShared \cap new) = 0
      BY <2>2, FS_EmptySet
    <3>4. Counted' = Cardinality(AllShared')
      BY DEF Counted, AllShared
    <3> QED BY <1>3, <2>1, <3>1, <3>2, <3>3, <3>4
  <2>4. /\ Counted \in 0..(CounterSize - 1) /\ Counted' \in 0..(CounterSize - 1)
        /\ totalFiles \in 0..(CounterSize - 1)
        /\ unseen \in 0..(CounterSize - 1) /\ unseen' \in 0..(CounterSize - 1)
    <3>1. Counted \in 0..(CounterSize - 1)
      BY CountIsSmall DEF FilesTypeOK, Counted
    <3>2. Counted' \in 0..(CounterSize - 1)
      BY <1>4, CountIsSmall DEF FilesTypeOK, Counted
    <3> QED BY <1>4, <3>1, <3>2 DEF FilesTypeOK
  <2> DEFINE n == CounterSize  k == Cardinality(new)
  <2>5. totalFiles + unseen = Counted \/ totalFiles + unseen = Counted + n
    <3>1. (totalFiles + unseen - Counted) % n = 0
      BY DEF TotalLags
    <3>2. n \in Nat \ {0}
      BY ShareAssumption
    <3>3. PICK t \in 0..(n - 1), u \in 0..(n - 1), s \in 0..(n - 1) :
                 t = totalFiles /\ u = unseen /\ s = Counted
      BY <2>4
    <3>4. (t + u - s) % n = 0
      BY <3>1, <3>3
    <3> HIDE DEF n, k
    <3>5. t + u = s \/ t + u = s + n
      BY <3>2, <3>4, LagsAreOneLap
    <3> QED BY <3>3, <3>5
  <2>6. unseen' = unseen + k \/ unseen' = unseen + k - n
    <3>1. k \in 0..(n - 1)
      BY <1>3
    <3> QED BY <2>4, <3>1, CounterMoves
  <2>7. totalFiles' + unseen' = Counted' \/ totalFiles' + unseen' = Counted' + n
    <3>1. /\ Counted' = Counted + k /\ totalFiles' = totalFiles
          /\ 0 <= totalFiles' /\ totalFiles' < n /\ 0 <= unseen' /\ unseen' < n
          /\ 0 <= Counted' /\ Counted' < n
          /\ k \in Int /\ n \in Int /\ totalFiles \in Int /\ unseen \in Int /\ Counted \in Int
      BY <1>3, <2>3, <2>4
    <3> HIDE DEF n, k
    <3> QED BY <2>5, <2>6, <3>1
  <2> HIDE DEF n, k
  <2>8. (totalFiles' + unseen' - Counted') % n = 0
    BY <2>4, <2>7, LagsAreOneLap DEF n
  <2> QED BY <2>8 DEF TotalLags, n
<1>7. OneAboveTheLimit'
  BY <1>1 DEF OneAboveTheLimit
<1> QED BY <1>4, <1>5, <1>6, <1>7

(* Files that go are on the list of c, and go everywhere. *)
LEMMA FilesGo ==
  ASSUME FilesTypeOK, HashIsLists, TotalLags, OneAboveTheLimit,
         NEW c \in Sharers, NEW gone \in SUBSET files[c], NEW said, RemoveFiles(c, gone, said)
  PROVE  (FilesTypeOK /\ HashIsLists /\ TotalLags /\ OneAboveTheLimit)'
<1> USE ShareAssumption
<1>1. \A d \in Sharers : files'[d] = IF d = c THEN files[d] \ gone ELSE files[d]
  BY DEF FilesTypeOK, RemoveFiles
<1>2. gone \subseteq Objects /\ \A d \in Sharers : files[d] \subseteq Objects
  BY DEF FilesTypeOK
<1>3. IsFiniteSet(gone) /\ Cardinality(gone) \in Nat /\ Cardinality(gone) < CounterSize
  <2>1. IsFiniteSet(gone) /\ Cardinality(gone) <= Cardinality(Objects)
    BY <1>2, FS_Subset
  <2>2. Cardinality(gone) \in Nat /\ Cardinality(Objects) \in Nat
    BY <2>1, FS_CardinalityType
  <2> QED BY <2>1, <2>2
<1>4. totalFiles' = (totalFiles - Cardinality(gone)) % CounterSize /\ unseen' = unseen
  BY DEF RemoveFiles
<1>5. FilesTypeOK'
  <2>1. files' \in [Sharers -> SUBSET Objects]
    BY <1>1 DEF FilesTypeOK, RemoveFiles
  <2>2. fileHash' \subseteq Objects \X Sharers
    BY DEF FilesTypeOK, RemoveFiles
  <2>3. heap' \in [Objects -> FileRecords \cup {NoFile}]
    BY DEF FilesTypeOK, RemoveFiles
  <2>4. totalFiles' \in 0..(CounterSize - 1)
    BY <1>3, <1>4, CounterMoves DEF FilesTypeOK
  <2> QED BY <1>4, <2>1, <2>2, <2>3, <2>4 DEF FilesTypeOK
<1>6. HashIsLists'
  <2>1. \A f \in Objects, d \in Sharers : <<f, d>> \in fileHash' <=> f \in files'[d]
    <3> SUFFICES ASSUME NEW f \in Objects, NEW d \in Sharers
                 PROVE  <<f, d>> \in fileHash' <=> f \in files'[d]
      OBVIOUS
    <3>1. <<f, d>> \in fileHash <=> f \in files[d]
      BY DEF HashIsLists
    <3>2. <<f, d>> \in fileHash' <=> <<f, d>> \in fileHash /\ f \notin gone
      BY DEF RemoveFiles
    <3>3. f \in gone /\ d # c => f \notin files[d]
      BY DEF HashIsLists
    <3> QED BY <1>1, <3>1, <3>2, <3>3
  <2>2. fileHash' = {p \in Objects \X Sharers : p[1] \in files'[p[2]]}
    <3>1. fileHash' \in SUBSET (Objects \X Sharers)
      BY <1>5 DEF FilesTypeOK
    <3>2. \A p \in Objects \X Sharers : p \in fileHash' <=> p[1] \in files'[p[2]]
      <4> TAKE p \in Objects \X Sharers
      <4>1. p[1] \in Objects /\ p[2] \in Sharers /\ p = <<p[1], p[2]>>
        BY PairIsItsParts
      <4>2. <<p[1], p[2]>> \in fileHash' <=> p[1] \in files'[p[2]]
        BY <2>1, <4>1
      <4> QED BY <4>1, <4>2
    <3> QED BY <3>1, <3>2
  <2>3. \A p \in fileHash' : heap'[p[1]] # NoFile
    BY <1>5 DEF RemoveFiles, HashIsLists, FilesTypeOK
  <2>4. \A a, b \in Sharers : a # b => files'[a] \cap files'[b] = {}
    BY <1>1 DEF HashIsLists
  <2> QED BY <2>2, <2>3, <2>4 DEF HashIsLists
<1>7. TotalLags'
  <2>1. AllShared' = AllShared \ gone
    <3>1. \A d \in Sharers : d # c => files[d] \cap gone = {}
      BY DEF HashIsLists
    <3> QED BY <1>1, <3>1 DEF AllShared
  <2>2. AllShared \cap gone = gone
    BY DEF AllShared
  <2>3. Counted' = Counted - Cardinality(gone)
    <3>1. IsFiniteSet(AllShared) /\ Counted = Cardinality(AllShared) /\ Counted \in Nat
      BY CountIsSmall DEF FilesTypeOK, Counted, AllShared
    <3>2. Cardinality(AllShared \ gone) = Counted - Cardinality(AllShared \cap gone)
      BY <3>1, FS_Difference
    <3>3. Counted' = Cardinality(AllShared')
      BY DEF Counted, AllShared
    <3> QED BY <2>1, <2>2, <3>2, <3>3
  <2>4. /\ Counted \in 0..(CounterSize - 1) /\ Counted' \in 0..(CounterSize - 1)
        /\ totalFiles \in 0..(CounterSize - 1) /\ totalFiles' \in 0..(CounterSize - 1)
        /\ unseen \in 0..(CounterSize - 1)
    <3>1. Counted \in 0..(CounterSize - 1)
      BY CountIsSmall DEF FilesTypeOK, Counted
    <3>2. Counted' \in 0..(CounterSize - 1)
      BY <1>5, CountIsSmall DEF FilesTypeOK, Counted
    <3> QED BY <1>5, <3>1, <3>2 DEF FilesTypeOK
  <2> DEFINE n == CounterSize  k == Cardinality(gone)
  <2>5. totalFiles + unseen = Counted \/ totalFiles + unseen = Counted + n
    <3>1. (totalFiles + unseen - Counted) % n = 0
      BY DEF TotalLags
    <3>2. n \in Nat \ {0}
      BY ShareAssumption
    <3>3. PICK t \in 0..(n - 1), u \in 0..(n - 1), s \in 0..(n - 1) :
                 t = totalFiles /\ u = unseen /\ s = Counted
      BY <2>4
    <3>4. (t + u - s) % n = 0
      BY <3>1, <3>3
    <3> HIDE DEF n, k
    <3>5. t + u = s \/ t + u = s + n
      BY <3>2, <3>4, LagsAreOneLap
    <3> QED BY <3>3, <3>5
  <2>6. totalFiles' = totalFiles - k \/ totalFiles' = totalFiles - k + n
    <3>1. k \in 0..(n - 1)
      BY <1>3
    <3> QED BY <1>4, <2>4, <3>1, CounterMoves
  <2>7. totalFiles' + unseen' = Counted' \/ totalFiles' + unseen' = Counted' + n
    <3>1. /\ Counted' = Counted - k /\ unseen' = unseen
          /\ 0 <= totalFiles' /\ totalFiles' < n /\ 0 <= unseen' /\ unseen' < n
          /\ 0 <= Counted' /\ Counted' < n
          /\ k \in Int /\ n \in Int /\ totalFiles \in Int /\ unseen \in Int /\ Counted \in Int
      BY <1>3, <1>4, <2>3, <2>4
    <3> HIDE DEF n, k
    <3> QED BY <2>5, <2>6, <3>1
  <2> HIDE DEF n, k
  <2>8. (totalFiles' + unseen' - Counted') % n = 0
    BY <1>4, <2>4, <2>7, LagsAreOneLap DEF n
  <2> QED BY <2>8 DEF TotalLags, n
<1>8. OneAboveTheLimit'
  <2>1. \A d \in Sharers : IsFiniteSet(files[d]) /\ Cardinality(files[d]) \in Nat
    BY CountIsSmall DEF FilesTypeOK
  <2>2. \A d \in Sharers : Cardinality(files'[d]) \in Nat
    BY <1>5, CountIsSmall DEF FilesTypeOK
  <2>3. \A d \in Sharers : Cardinality(files'[d]) <= Cardinality(files[d])
    BY <1>1, <2>1, FS_Subset
  <2> QED BY <2>1, <2>2, <2>3 DEF OneAboveTheLimit
<1> QED BY <1>5, <1>6, <1>7, <1>8

LEMMA NamesMakeRecords ==
  ASSUME NEW name \in FileNames, NEW song \in Songs \cup {NoSong}
  PROVE  [name |-> name, song |-> song] \in FileRecords
BY DEF FileRecords

FilesSound == FilesTypeOK /\ HashIsLists /\ TotalLags /\ OneAboveTheLimit

(* AddFile, of whatever name. *)
LEMMA AddFileKeeps ==
  ASSUME FilesSound, NEW c \in Sharers, NEW name \in FileNames,
         NEW song \in Songs \cup {NoSong}, NEW size,
         AddFile(c, name, song, size), UNCHANGED totalFiles
  PROVE  FilesSound'
<1> USE ShareAssumption
<1>1. CASE UNCHANGED <<heap, files, fileHash, unseen>>
  BY <1>1 DEF FilesSound, FilesTypeOK, HashIsLists, TotalLags, OneAboveTheLimit, Counted
<1>2. CASE ~ UNCHANGED <<heap, files, fileHash, unseen>>
  <2>1. ~ (Cardinality(files[c]) > MaxSharedFiles)
    BY <1>2 DEF AddFile
  <2>2. PICK f \in Objects :
          /\ heap[f] = NoFile
          /\ heap' = [heap EXCEPT ![f] = [name |-> name, song |-> song]]
          /\ files' = [files EXCEPT ![c] = @ \cup {f}]
          /\ fileHash' = fileHash \cup {<<f, c>>}
          /\ unseen' = (unseen + 1) % CounterSize
    BY <1>2 DEF AddFile
  <2>3. [name |-> name, song |-> song] \in FileRecords
    BY NamesMakeRecords
  <2>4. /\ heap' \in [Objects -> FileRecords \cup {NoFile}]
        /\ heap'[f] \in FileRecords
        /\ \A g \in Objects \ {f} : heap'[g] = heap[g]
    BY <2>2, <2>3 DEF FilesSound, FilesTypeOK
  <2>5. Cardinality({f}) = 1
    BY FS_Singleton
  <2>6. Cardinality(files[c] \cup {f}) <= MaxSharedFiles + 1
    <3>1. IsFiniteSet(files[c]) /\ Cardinality(files[c]) \in Nat
      BY CountIsSmall DEF FilesSound, FilesTypeOK
    <3>2. Cardinality(files[c] \cup {f}) \in {Cardinality(files[c]), Cardinality(files[c]) + 1}
      BY <3>1, FS_AddElement
    <3> QED BY <2>1, <3>1, <3>2
  <2>7. {f} \X {c} = {<<f, c>>}
    OBVIOUS
  <2> DEFINE new == {f}
  <2>8. /\ new \in SUBSET Objects
        /\ \A g \in new : heap[g] = NoFile /\ heap'[g] \in FileRecords
        /\ \A g \in Objects \ new : heap'[g] = heap[g]
        /\ files' = [files EXCEPT ![c] = @ \cup new]
        /\ unseen' = (unseen + Cardinality(new)) % CounterSize
        /\ Cardinality(files[c] \cup new) <= MaxSharedFiles + 1
    BY <2>2, <2>4, <2>5, <2>6
  <2>9. fileHash' = fileHash \cup (new \X {c})
    BY <2>2, <2>7
  <2> HIDE DEF new
  <2> QED BY <2>4, <2>8, <2>9, FilesCome DEF FilesSound
<1> QED BY <1>1, <1>2

RestTypeOK ==
  /\ now \in 0..MaxNow
  /\ songCerts \in [Songs -> CachedCert \cup {NoCert}]
  /\ answer \in {"nothing", "error", "query", "song_cert", "removed"}

LEMMA ShareSoundParts == ShareSound <=> FilesSound /\ RestTypeOK
BY DEF ShareSound, ShareTypeOK, FilesSound, FilesTypeOK, RestTypeOK

LEMMA TurnedKeeps ==
  ASSUME ShareSound, NEW said \in {"nothing", "error", "query", "song_cert", "removed"},
         Turned(said)
  PROVE  ShareSound'
BY DEF Turned, ShareSound, ShareTypeOK, HashIsLists, TotalLags, OneAboveTheLimit, Counted

LEMMA AskForIsSaid ==
  ASSUME NEW c PROVE AskFor(c) \in {"nothing", "error", "query", "song_cert", "removed"}
BY DEF AskFor

LEMMA AddedIsAnswered ==
  ASSUME NEW c, NEW name, NEW song, NEW size, AddFile(c, name, song, size)
  PROVE  answer' \in {"nothing", "error"}
BY DEF AddFile

LEMMA ShareNamedKeeps ==
  ASSUME ShareSound, NEW c \in Sharers, NEW song \in Songs, NEW cert \in CachedCert, NEW size,
         ShareNamed(c, song, cert, size)
  PROVE  ShareSound'
<1> USE ShareAssumption
<1>1. FilesSound /\ RestTypeOK
  BY ShareSoundParts
<1>2. cert.text \in Texts /\ [cert EXCEPT !.used = now] \in CachedCert
  BY <1>1 DEF CachedCert, RestTypeOK
<1>3. <<song, cert.text>> \in FileNames
  BY <1>2 DEF FileNames
<1>4. FilesSound'
  BY <1>1, <1>3, AddFileKeeps DEF ShareNamed
<1>5. answer' \in {"nothing", "error"}
  BY AddedIsAnswered DEF ShareNamed
<1>6. RestTypeOK'
  BY <1>1, <1>2, <1>5 DEF RestTypeOK, ShareNamed
<1> QED BY <1>4, <1>6 DEF ShareSound, ShareTypeOK, FilesSound, FilesTypeOK, RestTypeOK

LEMMA IdentifiedKeeps ==
  ASSUME ShareSound, NEW c \in Sharers, NEW fc \in FileCerts, NEW size, Identified(c, fc, size)
  PROVE  ShareSound'
<1>1. fc.song \in Songs
  BY ShareAssumption DEF FileCert
<1>2. songCerts[fc.song] # NoCert => songCerts[fc.song] \in CachedCert
  BY <1>1 DEF ShareSound, ShareTypeOK
<1>3. CASE Turned("nothing") \/ Turned("song_cert") \/ Turned(AskFor(c))
  BY <1>3, TurnedKeeps, AskForIsSaid
<1>4. CASE songCerts[fc.song] # NoCert /\ ShareNamed(c, fc.song, songCerts[fc.song], size)
  BY <1>1, <1>2, <1>4, ShareNamedKeeps
<1> QED BY <1>3, <1>4 DEF Identified

LEMMA WithSongCertKeeps ==
  ASSUME ShareSound, NEW c \in Sharers, NEW fc \in FileCerts, NEW sc \in SongCerts, NEW size,
         WithSongCert(c, fc, sc, size)
  PROVE  ShareSound'
<1>1. fc.song \in Songs
  BY ShareAssumption DEF FileCert
<1>2. songCerts[fc.song] # NoCert => songCerts[fc.song] \in CachedCert
  BY <1>1 DEF ShareSound, ShareTypeOK
<1> DEFINE cert == [text |-> sc.text, end |-> sc.end, used |-> now]
<1>3. sc.song \in Songs /\ cert \in CachedCert
  BY ShareAssumption DEF SongCert, CachedCert, ShareSound, ShareTypeOK
<1>4. CASE Turned("nothing") \/ Turned(AskFor(c))
  BY <1>4, TurnedKeeps, AskForIsSaid
<1>5. CASE songCerts[fc.song] # NoCert /\ ShareNamed(c, fc.song, songCerts[fc.song], size)
  BY <1>1, <1>2, <1>5, ShareNamedKeeps
<1>6. CASE ShareNamed(c, sc.song, cert, size)
  BY <1>3, <1>6, ShareNamedKeeps
<1> QED BY <1>4, <1>5, <1>6 DEF WithSongCert

LEMMA PlainFilesKeep ==
  ASSUME ShareSound, NEW c \in Sharers, AddPlainFile(c) \/ AddPathBlock(c)
  PROVE  ShareSound'
<1> USE ShareAssumption
<1>1. FilesSound /\ RestTypeOK
  BY ShareSoundParts
<1>2. \A n \in PlainNames : <<NoSong, n>> \in FileNames
  BY DEF FileNames
<1>3. CASE AddPlainFile(c)
  <2>1. PICK n \in PlainNames, size \in {2, 3} : AddFile(c, <<NoSong, n>>, NoSong, size)
    BY <1>3 DEF AddPlainFile
  <2>2. UNCHANGED <<now, songCerts, totalFiles>>
    BY <1>3 DEF AddPlainFile
  <2>3. FilesSound'
    BY <1>1, <1>2, <2>1, <2>2, AddFileKeeps
  <2>4. RestTypeOK'
    BY <1>1, <2>1, <2>2, AddedIsAnswered DEF RestTypeOK
  <2> QED BY <2>3, <2>4 DEF ShareSound, ShareTypeOK, FilesSound, FilesTypeOK, RestTypeOK
<1>4. CASE AddPathBlock(c)
  <2>1. PICK new \in SUBSET Objects, name \in PlainNames :
          /\ new # {} /\ Cardinality(files[c] \cup new) <= MaxSharedFiles + 1
          /\ \A f \in new : heap[f] = NoFile
          /\ heap' = [f \in Objects |-> IF f \in new THEN [name |-> <<NoSong, name>>, song |-> NoSong]
                                          ELSE heap[f]]
          /\ files' = [files EXCEPT ![c] = @ \cup new]
          /\ fileHash' = fileHash \cup (new \X {c})
          /\ unseen' = (unseen + Cardinality(new)) % CounterSize
          /\ answer' \in {"error", "nothing"}
          /\ UNCHANGED <<now, songCerts, totalFiles>>
    BY <1>4 DEF AddPathBlock
  <2>2. [name |-> <<NoSong, name>>, song |-> NoSong] \in FileRecords
    BY <1>2, NamesMakeRecords
  <2>3. /\ heap' \in [Objects -> FileRecords \cup {NoFile}]
        /\ \A f \in new : heap'[f] \in FileRecords
        /\ \A f \in Objects \ new : heap'[f] = heap[f]
    BY <1>1, <2>1, <2>2 DEF FilesSound, FilesTypeOK
  <2>4. FilesSound'
    BY <1>1, <2>1, <2>3, FilesCome DEF FilesSound
  <2>5. RestTypeOK'
    BY <1>1, <2>1 DEF RestTypeOK
  <2> QED BY <2>4, <2>5 DEF ShareSound, ShareTypeOK, FilesSound, FilesTypeOK, RestTypeOK
<1> QED BY <1>3, <1>4

LEMMA RemoveFilesKeep ==
  ASSUME ShareSound, NEW c \in Sharers, NEW gone \in SUBSET files[c],
         NEW said \in {"nothing", "removed"}, RemoveFiles(c, gone, said)
  PROVE  ShareSound'
<1>1. FilesSound /\ RestTypeOK
  BY ShareSoundParts
<1>2. FilesSound'
  BY <1>1, FilesGo DEF FilesSound
<1>3. RestTypeOK'
  BY <1>1 DEF RestTypeOK, RemoveFiles
<1> QED BY <1>2, <1>3 DEF ShareSound, ShareTypeOK, FilesSound, FilesTypeOK, RestTypeOK

LEMMA RemovesKeep ==
  ASSUME ShareSound, NEW c \in Sharers, NEW name, RemoveFile(c, name)
  PROVE  ShareSound'
<1>1. PICK f \in files[c] : RemoveFiles(c, {f}, "nothing")
  BY DEF RemoveFile
<1> QED BY <1>1, RemoveFilesKeep

LEMMA JobsKeep ==
  ASSUME ShareSound, CheckIntegrity \/ TimeoutSongCertificates \/ Clock
  PROVE  ShareSound'
<1> USE ShareAssumption
<1>1. FilesSound /\ RestTypeOK
  BY ShareSoundParts
<1>2. CASE CheckIntegrity
  <2>1. /\ totalFiles' = Counted /\ unseen' = 0
        /\ UNCHANGED <<now, songCerts, heap, files, fileHash, answer>>
    BY <1>2 DEF CheckIntegrity
  <2>2. Counted' = Counted /\ Counted \in 0..(CounterSize - 1)
    BY <1>1, <2>1, CountIsSmall DEF FilesSound, FilesTypeOK, Counted
  <2>3. FilesTypeOK'
    BY <1>1, <2>1, <2>2 DEF FilesSound, FilesTypeOK
  <2>4. TotalLags'
    <3>1. (totalFiles' + unseen' - Counted') % CounterSize = 0
      BY <2>1, <2>2, LagsAreOneLap
    <3> QED BY <3>1 DEF TotalLags
  <2>5. HashIsLists' /\ OneAboveTheLimit' /\ RestTypeOK'
    BY <1>1, <2>1 DEF FilesSound, HashIsLists, OneAboveTheLimit, RestTypeOK
  <2> QED BY <2>3, <2>4, <2>5 DEF ShareSound, ShareTypeOK, FilesSound, FilesTypeOK, RestTypeOK
<1>3. CASE TimeoutSongCertificates \/ Clock
  <2>1. UNCHANGED <<heap, files, fileHash, totalFiles, unseen, answer>>
    BY <1>3 DEF TimeoutSongCertificates, Clock
  <2>2. FilesSound'
    BY <1>1, <2>1 DEF FilesSound, FilesTypeOK, HashIsLists, TotalLags, OneAboveTheLimit, Counted
  <2>3. now' \in 0..MaxNow
    BY <1>1, <1>3 DEF TimeoutSongCertificates, Clock, RestTypeOK
  <2>4. songCerts' \in [Songs -> CachedCert \cup {NoCert}]
    BY <1>1, <1>3 DEF TimeoutSongCertificates, Clock, RestTypeOK
  <2> QED BY <1>1, <2>1, <2>2, <2>3, <2>4
          DEF ShareSound, ShareTypeOK, FilesSound, FilesTypeOK, RestTypeOK
<1> QED BY <1>2, <1>3

LEMMA ShareNextKeeps ==
  ASSUME ShareSound, [ShareNext]_shareVars
  PROVE  ShareSound'
<1>1. CASE UNCHANGED shareVars
  BY <1>1 DEF shareVars, ShareSound, ShareTypeOK, HashIsLists, TotalLags, OneAboveTheLimit, Counted
<1>2. ASSUME NEW c \in Sharers, AddPlainFile(c) \/ AddPathBlock(c) \/ RemoveAllFiles(c)
      PROVE  ShareSound'
  BY <1>2, PlainFilesKeep, RemoveFilesKeep DEF RemoveAllFiles
<1>3. ASSUME NEW c \in Sharers, NEW n \in FileNames, RemoveFile(c, n)
      PROVE  ShareSound'
  BY <1>3, RemovesKeep
<1>4. ASSUME NEW c \in Sharers, NEW fc \in FileCerts,
             AddSong(c, fc, 3) \/ AddSong2(c, fc) \/ RemoveSong(c, fc)
      PROVE  ShareSound'
  <2>1. CASE RemoveSong(c, fc)
    BY <2>1, RemovesKeep, TurnedKeeps DEF RemoveSong
  <2> QED BY <1>4, <2>1, IdentifiedKeeps DEF AddSong, AddSong2
<1>5. ASSUME NEW c \in Sharers, NEW fc \in FileCerts, NEW sc \in SongCerts,
             AddSongCert(c, fc, sc, 3) \/ AddSongCert2(c, fc, sc)
      PROVE  ShareSound'
  BY <1>5, WithSongCertKeeps DEF AddSongCert, AddSongCert2
<1>6. CASE CheckIntegrity \/ TimeoutSongCertificates \/ Clock
  BY <1>6, JobsKeep
<1> QED BY <1>1, <1>2, <1>3, <1>4, <1>5, <1>6 DEF ShareNext

LEMMA ShareStaysSound == ShareSpec => []ShareSound
<1>1. ShareInit => ShareSound
  <2> SUFFICES ASSUME ShareInit
               PROVE  ShareSound
    OBVIOUS
  <2> USE ShareAssumption DEF ShareInit
  <2>1. ShareTypeOK
    BY DEF ShareTypeOK
  <2>2. HashIsLists
    BY DEF HashIsLists
  <2>3. UNION {files[c] : c \in Sharers} = {}
    OBVIOUS
  <2>4. Counted = 0
    BY <2>3, FS_EmptySet DEF Counted
  <2>5. TotalLags
    BY <2>4, OneLap DEF TotalLags
  <2>6. OneAboveTheLimit
    BY FS_EmptySet DEF OneAboveTheLimit
  <2> QED BY <2>1, <2>2, <2>5, <2>6 DEF ShareSound
<1>2. ShareSound /\ [ShareNext]_shareVars => ShareSound'
  BY ShareNextKeeps
<1> QED BY <1>1, <1>2, PTL DEF ShareSpec

(* Of any clients, certificates and addresses, and however often files     *)
(* are freed and their addresses used again: the lists, the table of       *)
(* hashes and the heap agree, the total misses what was added since it was *)
(* last adjusted, and nobody is more than one file above the limit         *)
(* (share.cc:570-604, 690-747, scheduled.cc:87-92).                        *)
THEOREM FilesAddUp == ShareSpec => []ShareSound
BY ShareStaysSound
=============================================================================

------------------------------- MODULE Notify -------------------------------
(***************************************************************************)
(* NotifyManager (notify.cc, notify.hh): who wants to be told when a user  *)
(* comes and goes.  The code stands under "#if 0" at this commit; this is  *)
(* a specification of it as it is written.                                 *)
(*                                                                         *)
(* The manager is a multimap from a name to the users that asked for it.   *)
(* All entries of a name share ONE string, made by the first add and       *)
(* deleted by the remove that takes the last entry; every user keeps a     *)
(* list of the same pointers.  A key is the address of such a string.      *)
(* Users are identified with their names; a message of several arguments   *)
(* is one step per argument.  A SAY may throw (user.cc:35-38,              *)
(* client.cc:111-112) and ends what was being said: its user, and those    *)
(* who were to be told after it, are owed an answer.                       *)
(***************************************************************************)
EXTENDS FiniteSets, Naturals

CONSTANTS Users,    \* users, which are also the names one can watch
          Keys,     \* addresses of strings
          NoName    \* the contents of memory that is not allocated

ASSUME NotifyAssumption == NoName \notin Users

VARIABLES watches,  \* NotifyMap: the pairs <<key, requester>>
          spelling, \* the string at every address
          notifies, \* notifies[u]: Client::notifies, pointers into the map
          online,   \* the users that are logged in
          told      \* told[u][n]: the last thing u was told of n, or that a SAY that was
                    \* to tell it threw or was never reached (history)

notifyVars == <<watches, spelling, notifies, online, told>>

Statuses == {"nothing", "online", "offline", "owed"}

NotifyTypeOK ==
  /\ watches \subseteq Keys \X Users
  /\ spelling \in [Keys -> Users \cup {NoName}]
  /\ notifies \in [Users -> SUBSET Keys]
  /\ online \subseteq Users
  /\ told \in [Users -> [Users -> Statuses]]

NotifyInit ==
  /\ watches = {}
  /\ spelling = [k \in Keys |-> NoName]
  /\ notifies = [u \in Users |-> {}]
  /\ online = {}
  /\ told = [u \in Users |-> [n \in Users |-> "nothing"]]

-----------------------------------------------------------------------------
(* equal_range: the entries under a name *)
EqualRange(n) == {e \in watches : spelling[e[1]] = n}

(* get_user: what a new entry is answered with *)
Status(n) == IF n \in online THEN "online" ELSE "offline"

(* A mutant of Add: every entry has a string of its own                    *)
AddAlwaysNew(n, u) ==
  /\ \A e \in EqualRange(n) : e[2] # u
  /\ \E k \in Keys : /\ spelling[k] = NoName
                    /\ spelling' = [spelling EXCEPT ![k] = n]
                    /\ watches' = watches \cup {<<k, u>>}
                    /\ notifies' = [notifies EXCEPT ![u] = @ \cup {k}]

(* add: a name nobody watches gets a new string, any other the string of   *)
(* the first entry; a requester that is in the map already changes nothing *)
Add(n, u) ==
  /\ \A e \in EqualRange(n) : e[2] # u
  /\ \E k \in Keys :
       /\ IF EqualRange(n) = {}
            THEN /\ spelling[k] = NoName
                 /\ spelling' = [spelling EXCEPT ![k] = n]
            ELSE /\ \E e \in EqualRange(n) : e[1] = k
                 /\ UNCHANGED spelling
       /\ watches' = watches \cup {<<k, u>>}
       /\ notifies' = [notifies EXCEPT ![u] = @ \cup {k}]

(* AddNotify and CheckOnline: one argument.  Both answer with the status,  *)
(* if no SAY throws; they differ in what a second request for a name is    *)
(* told                                                                    *)
AddNotify(u) ==
  /\ u \in online
  /\ \E n \in Users : \E said \in {Status(n), "owed"} :
       Add(n, u) /\ told' = [told EXCEPT ![u][n] = said]
  /\ UNCHANGED online

(* Mutants of RemoveWatch: the string stays; the requester's list stays    *)
RemoveLeaks(n, u) ==
  \E first \in EqualRange(n) :
    /\ watches' = watches \ (EqualRange(n) \cap (Keys \X {u}))
    /\ notifies' = [notifies EXCEPT ![u] = @ \ {first[1]}]
    /\ UNCHANGED spelling

RemoveKeepsList(n, u) ==
  \E first \in EqualRange(n) :
    LET rest == EqualRange(n) \ (Keys \X {u}) IN
    /\ watches' = watches \ (EqualRange(n) \ rest)
    /\ spelling' = IF rest = {} THEN [spelling EXCEPT ![first[1]] = NoName] ELSE spelling
    /\ UNCHANGED notifies

(* remove: the string goes with the last entry that uses it *)
RemoveWatch(n, u) ==
  \E first \in EqualRange(n) :
    LET oldkey == first[1]
        rest   == EqualRange(n) \ (Keys \X {u})
    IN /\ watches' = watches \ (EqualRange(n) \ rest)
       /\ notifies' = IF rest = EqualRange(n) THEN notifies
                      ELSE [notifies EXCEPT ![u] = @ \ {oldkey}]
       /\ spelling' = IF rest = {} THEN [spelling EXCEPT ![oldkey] = NoName]
                      ELSE spelling

(* RemoveNotify: one argument; what was asked for counts no more *)
RemoveNotify(u) ==
  /\ u \in online
  /\ \E n \in Users : /\ RemoveWatch(n, u)
                      /\ told' = [told EXCEPT ![u][n] = "nothing"]
  /\ UNCHANGED online

(* ClearNotifies calls remove for every string of the requester's list *)
Listed(u) ==
  {e \in watches : e[2] = u /\ \E k \in notifies[u] : spelling[k] = spelling[e[1]]}

(* A mutant of Cleared: only the list is emptied                           *)
ClearedListOnly(u) ==
  /\ notifies' = [notifies EXCEPT ![u] = {}]
  /\ UNCHANGED <<watches, spelling>>

Cleared(u) ==
  /\ watches' = watches \ Listed(u)
  /\ notifies' = [notifies EXCEPT ![u] = @ \ {e[1] : e \in Listed(u)}]
  /\ spelling' = [k \in Keys |->
       IF /\ \E e \in Listed(u) : e[1] = k
          /\ \A e \in watches \ Listed(u) : spelling[e[1]] # spelling[k]
         THEN NoName ELSE spelling[k]]

ClearNotifies(u) ==
  /\ u \in online
  /\ Cleared(u)
  /\ told' = [told EXCEPT ![u] = [n \in Users |-> "nothing"]]
  /\ UNCHANGED online

Watchers(n) == {e[2] : e \in EqualRange(n)}

(* notify: the watchers of n are told in the order of the map, which may   *)
(* be any, up to the first whose SAY throws                                *)
Telling(n, status, reached) ==
  [u \in Users |->
     IF u \in Watchers(n)
       THEN [told[u] EXCEPT ![n] = IF u \in reached THEN status ELSE "owed"]
       ELSE told[u]]

(* A login, with notify(COMING_ONLINE); what that throws leaves u logged in *)
Login(u) ==
  /\ u \notin online
  /\ online' = online \cup {u}
  /\ \E reached \in SUBSET Watchers(u) : told' = Telling(u, "online", reached)
  /\ UNCHANGED <<watches, spelling, notifies>>

(* A logout, with notify(GOING_OFFLINE), whatever that throws;             *)
(* ClearNotifies is "useful for 1. user logging out"                       *)
Logout(u) ==
  /\ u \in online
  /\ online' = online \ {u}
  /\ Cleared(u)
  /\ \E reached \in SUBSET Watchers(u) :
       told' = [Telling(u, "offline", reached) EXCEPT ![u] = [n \in Users |-> "nothing"]]

NotifyNext ==
  \E u \in Users : \/ AddNotify(u) \/ RemoveNotify(u) \/ ClearNotifies(u)
                   \/ Login(u) \/ Logout(u)

NotifySpec == NotifyInit /\ [][NotifyNext]_notifyVars

-----------------------------------------------------------------------------
(* All entries of a name use the same string: add finds the string of an   *)
(* earlier requester, and remove may compare pointers (notify.cc:56).      *)
OneKeyPerName ==
  \A d, e \in watches : spelling[d[1]] = spelling[e[1]] => d[1] = e[1]

(* A string is deleted when, and not before, its last entry goes: no entry *)
(* and no user's list points to deleted memory, and nothing is leaked.     *)
KeysAlive ==
  \A k \in Keys : spelling[k] # NoName <=> \E e \in watches : e[1] = k

(* A user's own list and the map name the same watches, so ClearNotifies,  *)
(* which walks the list, leaves nothing of the user in the map.            *)
ListsMatch ==
  \A u \in Users, k \in Keys : k \in notifies[u] <=> <<k, u>> \in watches

(* "we always answer the question": whoever watches a name is logged in    *)
(* and was last told its true status, however adds, logins and logouts of  *)
(* both sides interleave, unless a SAY that was to tell it threw or came   *)
(* after one that did.                                                     *)
WatchersKnow ==
  \A e \in watches : /\ e[2] \in online
                     /\ told[e[2]][spelling[e[1]]] \in {Status(spelling[e[1]]), "owed"}

(* The map, the strings, the lists and what was said of every watch tell   *)
(* one story after every request, login and logout (notify.cc:28-127).     *)
NotifySound ==
  /\ NotifyTypeOK
  /\ OneKeyPerName /\ KeysAlive /\ ListsMatch
  /\ WatchersKnow
=============================================================================

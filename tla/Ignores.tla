------------------------------ MODULE Ignores ------------------------------
(***************************************************************************)
(* The list of users that a user ignores (ignore.cc) and its copy in the   *)
(* database (db.cc:151-232).  The class IgnoreList is compiled; its load() *)
(* and update(), LoadIgnores and UpdateIgnores, and the Server operations  *)
(* stand under "#if 0" at this commit and are specified as written.        *)
(*                                                                         *)
(* Every change of the list is noted in todo, newest first, and update()   *)
(* walks todo in that order.  A change shares its string with the list's   *)
(* entry; the walk frees the string at a REMOVE, and an older ADD of the   *)
(* same entry, further down, then reads freed memory: it may still insert  *)
(* the name or insert nothing.  Names that differ in case are one name.    *)
(***************************************************************************)
EXTENDS Sequences, Integers, FiniteSets, SequencesExt

CONSTANTS IgnoreNames,   \* the names a client can send
          KnownNames,    \* those that are in the table of users
          OwnName

ASSUME IgnoresAssumption ==
  /\ KnownNames \subseteq IgnoreNames /\ OwnName \in KnownNames
  /\ IsFiniteSet(IgnoreNames)

VARIABLES loaded,     \* the client is logged in and the list loaded
          ignores,    \* IgnoreList
          todo,       \* IgnoreList::todo, newest first
          table,      \* rows of the table "ignores" of this user
          failed,     \* history: names with a query that failed
          revived     \* history: names inserted by an ADD that was freed

ignoreVars == <<loaded, ignores, todo, table, failed, revived>>

Delta == [name : IgnoreNames, op : {"ADD", "REMOVE"}]

IgnoresTypeOK ==
  /\ loaded \in BOOLEAN
  /\ ignores \subseteq IgnoreNames
  /\ todo \in Seq(Delta)
  /\ table \subseteq KnownNames
  /\ failed \subseteq IgnoreNames
  /\ revived \subseteq IgnoreNames

IgnoresInit ==
  /\ loaded = FALSE /\ ignores = {} /\ todo = <<>>
  /\ table \in SUBSET (KnownNames \ {OwnName})
  /\ failed = {} /\ revived = {}

-----------------------------------------------------------------------------
(* insert() and erase(): the change is put in front of todo *)
Changes(op, names) == [i \in 1..Cardinality(names) |->
                         [name |-> SetToSeq(names)[i], op |-> op]]

(* The string of an ADD is freed if a newer entry removes it *)
Freed(t, i) == /\ t[i].op = "ADD"
               /\ \E j \in 1..(i - 1) : t[j].name = t[i].name /\ t[j].op = "REMOVE"

(* UpdateIgnores: one query for each change, newest first; a query that    *)
(* fails is logged and the change forgotten all the same.  An ADD inserts  *)
(* a row only for a name that is a user's.                                 *)
UpdateIgnores(t) ==
  \E ok \in [1..Len(t) -> BOOLEAN] :
    LET done(n) == {i \in 1..Len(t) : t[i].name = n /\ ok[i]}
        last(n) == CHOOSE i \in done(n) : \A j \in done(n) : j <= i
    IN /\ table' = {n \in KnownNames :
                      IF done(n) = {} THEN n \in table ELSE t[last(n)].op = "ADD"}
       /\ failed' = failed \cup {t[i].name : i \in {k \in 1..Len(t) : ~ ok[k]}}
       /\ revived' = revived \cup {t[i].name : i \in {k \in 1..Len(t) : ok[k] /\ Freed(t, k)}}
       /\ todo' = <<>>

(* External: the end of Client::load().  LoadIgnores inserts the names it  *)
(* fetches, and each insert() notes an ADD that load() does not clear.     *)
LoadIgnores ==
  /\ ~ loaded
  /\ loaded' = TRUE
  /\ \E fetched \in SUBSET table :
       /\ ignores' = fetched
       /\ todo' = Changes("ADD", fetched)
       /\ failed' = table \ fetched
  /\ revived' = {}
  /\ UNCHANGED table

(* A mutant of AddIgnore: update() is not called                           *)
AddIgnoreUnsaved(n) ==
  /\ loaded /\ n \notin ignores /\ n # OwnName
  /\ ignores' = ignores \cup {n}
  /\ UNCHANGED <<loaded, todo, table, failed, revived>>

(* Server::AddIgnore.  The name need not be a user's. *)
AddIgnore(n) ==
  /\ loaded /\ n \notin ignores /\ n # OwnName
  /\ ignores' = ignores \cup {n}
  /\ UpdateIgnores(Changes("ADD", {n}) \o todo)
  /\ UNCHANGED loaded

(* Server::RemoveIgnore *)
RemoveIgnore(n) ==
  /\ loaded /\ n \in ignores
  /\ ignores' = ignores \ {n}
  /\ UpdateIgnores(Changes("REMOVE", {n}) \o todo)
  /\ UNCHANGED loaded

(* A mutant of ClearIgnores: the list is emptied without noting it         *)
ClearIgnoresOnly ==
  /\ loaded /\ ignores' = {}
  /\ UpdateIgnores(todo)
  /\ UNCHANGED loaded

(* Server::ClearIgnores: clear() erases one entry after the other *)
ClearIgnores ==
  /\ loaded
  /\ ignores' = {}
  /\ UpdateIgnores(Changes("REMOVE", ignores) \o todo)
  /\ UNCHANGED loaded

(* ~IgnoreList: update() and then clear(), whose changes nobody writes *)
Unload ==
  /\ loaded
  /\ loaded' = FALSE /\ ignores' = {}
  /\ UpdateIgnores(todo)

IgnoresNext ==
  \/ LoadIgnores \/ ClearIgnores \/ Unload
  \/ \E n \in IgnoreNames : AddIgnore(n) \/ RemoveIgnore(n)

IgnoresSpec == IgnoresInit /\ [][IgnoresNext]_ignoreVars

-----------------------------------------------------------------------------
(* Every user that is ignored is in the table, and so is ignored again     *)
(* after the next login, unless a query about the name failed.             *)
IgnoredIsSaved ==
  loaded => \A n \in ignores \cap KnownNames : n \in table \/ n \in failed

(* A user that is not ignored any more is not in the table, unless a query *)
(* about the name failed or the removal, the first change after the login, *)
(* was undone by the ADD that the login had left in todo: the ignore that  *)
(* was removed comes back with the next login.                             *)
RemovedIsForgotten ==
  loaded => \A n \in table : n \in ignores \/ n \in failed \/ n \in revived

(* After every update the list and its rows differ only where a query      *)
(* failed or freed memory was read (db.cc:174-232).                        *)
IgnoresSound == IgnoresTypeOK /\ IgnoredIsSaved /\ RemovedIsForgotten
=============================================================================

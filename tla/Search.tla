------------------------------- MODULE Search -------------------------------
(***************************************************************************)
(* One search over the files of a server (search.cc:57-296): the terms     *)
(* that Load has found, the sets of files that Go takes from the index,    *)
(* and jmerge, which walks through these sets in turn and collects the     *)
(* files that are in all of them.  The file stands under "#if 0" at this   *)
(* commit and is specified as written.                                     *)
(*                                                                         *)
(* A file is its address; a set is ordered by address and searched with    *)
(* lower_bound().  curval starts as the null pointer, 0.  A run of matches *)
(* is counted in an unsigned char.                                         *)
(***************************************************************************)
EXTENDS Integers, Sequences, FiniteSets

CONSTANTS Addresses,       \* of File objects
          MaxTerms,        \* bound on the required terms of a search
          Fields,          \* BITRATE, FREQUENCY, LINESPEED
          Has,             \* Has[f][d]: what file f has in field d
          Wanted,          \* Wanted[d]: the value and the comparison asked for
          Reachable,       \* files whose owner or the caller has a data port
          Own,             \* files of the caller
          SearchLimits,    \* the limits MaxSearchResults may be set to
          CharSize         \* 256, the values of an unsigned char

ASSUME SearchAssumption ==
  /\ Addresses \subseteq Nat \ {0}
  /\ SearchLimits \subseteq Nat
  /\ CharSize \in Nat \ {0, 1} /\ MaxTerms \in Nat

VARIABLES phase,       \* "load", "merge", "done"
          require,     \* the sets of the required terms
          excluded,    \* files in the set of a term with a minus
          maxMatches,  \* Search::max_matches
          iter,          \* the iterator i of jmerge
          curval, matches,
          found        \* master_list, and so its size, closematches

searchVars == <<phase, require, excluded, maxMatches, iter, curval, matches, found>>

SearchTypeOK ==
  /\ phase \in {"load", "merge", "done"}
  /\ require \in Seq(SUBSET Addresses)
  /\ excluded \subseteq Addresses
  /\ maxMatches \in Nat
  /\ iter \in Nat \ {0}
  /\ curval \in Addresses \cup {0}
  /\ matches \in 0..(CharSize - 1)
  /\ found \subseteq Addresses

SearchInit ==
  /\ phase = "load"
  /\ require = <<>> /\ excluded = {} /\ maxMatches = 0
  /\ iter = 1 /\ curval = 0 /\ matches = 0
  /\ found = {}

-----------------------------------------------------------------------------
(* Load: MAX_RESULTS can only lower the limit, and 0 is no limit of a user *)
ResultLimit(limit, asked) == IF asked > 0 /\ asked < limit THEN asked ELSE limit

(* Go: a term without files is left out, a required one too; without any   *)
(* required term there is nothing to merge.  (As the file stands Load      *)
(* finds no terms, since the call that fills them is commented out at      *)
(* search.cc:89, and nothing gets here.)                                   *)
Go ==
  /\ phase = "load"
  /\ \E n \in 0..MaxTerms :
       /\ require' \in [1..n -> SUBSET Addresses \ {{}}]
       /\ phase' = IF n = 0 THEN "done" ELSE "merge"
  /\ excluded' \in SUBSET Addresses
  /\ \E limit \in SearchLimits, asked \in {0, 1} : maxMatches' = ResultLimit(limit, asked)
  /\ UNCHANGED <<iter, curval, matches, found>>

(* Compare.  What was not asked for is compared with 0 as "equal to".      *)
Compare(want, value) ==
  CASE want.option = "AT LEAST" -> value >= want.value
    [] want.option = "AT BEST" -> value <= want.value
    [] OTHER -> value = want.value

Suits(f) == f \in Reachable /\ \A d \in Fields : Compare(Wanted[d], Has[f][d])

(* What is asked of a hit.  One's own files are only left out when there   *)
(* are several sets.                                                       *)
Passes(f) ==
  /\ Suits(f) /\ f \notin excluded
  /\ Len(require) > 1 => f \notin Own

(* lower_bound(): the first of s from x on *)
IsFirstFrom(s, x, f) == f \in s /\ f >= x /\ \A g \in s : g >= x => f <= g

(* A mutant of Take: ends the search one file too late                     *)
TakeOneMore(f) ==
  /\ found' = IF Passes(f) THEN found \cup {f} ELSE found
  /\ phase' = IF Passes(f) /\ Cardinality(found) >= maxMatches THEN "done" ELSE phase

(* The file goes to the list, and a full list ends the search; the test    *)
(* comes after the file was added.                                         *)
Take(f) ==
  /\ found' = IF Passes(f) THEN found \cup {f} ELSE found
  /\ phase' = IF Passes(f) /\ Cardinality(found) + 1 >= maxMatches THEN "done" ELSE phase

Stop ==
  /\ phase' = "done"
  /\ UNCHANGED <<require, excluded, maxMatches, iter, curval, matches, found>>

(* A mutant of Walk: curval is found again                                 *)
WalkStands ==
  /\ phase = "merge" /\ Len(require) = 1
  /\ \/ (\A f \in require[1] : f < curval) /\ Stop
     \/ \E f \in require[1] :
          /\ IsFirstFrom(require[1], curval, f)
          /\ curval' = f /\ Take(f)
          /\ UNCHANGED <<require, excluded, maxMatches, iter, matches>>

(* jmerge with a single set: its files one after the other *)
Walk ==
  /\ phase = "merge" /\ Len(require) = 1
  /\ \/ (\A f \in require[1] : f <= curval) /\ Stop
     \/ \E f \in require[1] :
          /\ IsFirstFrom(require[1], curval + 1, f)
          /\ curval' = f /\ Take(f)
          /\ UNCHANGED <<require, excluded, maxMatches, iter, matches>>

NextList == IF iter = Len(require) THEN 1 ELSE iter + 1

(* A mutant of Merge: a leap does not begin the count again                *)
MergeCountsOn ==
  LET s == require[iter]
      run == (matches + 1) % CharSize
  IN /\ phase = "merge" /\ Len(require) > 1
     /\ \/ (\A f \in s : f < curval) /\ Stop
        \/ \E f \in s :
             /\ IsFirstFrom(s, curval, f) /\ curval' = f /\ iter' = NextList
             /\ \/ run # Len(require) /\ matches' = run /\ UNCHANGED <<phase, found>>
                \/ run = Len(require) /\ matches' = 0 /\ Take(f)
             /\ UNCHANGED <<require, excluded, maxMatches>>

(* jmerge with several: one round of the loop.  curval is looked for in    *)
(* the next set; where every set in turn has had it, it is a hit, and the  *)
(* walk goes on from the file after it.                                    *)
Merge ==
  LET s == require[iter]
      run == (matches + 1) % CharSize
  IN /\ phase = "merge" /\ Len(require) > 1
     /\ \/ (\A f \in s : f < curval) /\ Stop
        \/ \E f \in s :
             /\ f # curval /\ IsFirstFrom(s, curval, f)
             /\ curval' = f /\ matches' = 1 /\ iter' = NextList
             /\ UNCHANGED <<phase, require, excluded, maxMatches, found>>
        \/ /\ curval \in s /\ run # Len(require)
           /\ matches' = run /\ iter' = NextList
           /\ UNCHANGED <<phase, require, excluded, maxMatches, curval, found>>
        \/ /\ curval \in s /\ run = Len(require)
           /\ \/ /\ \A f \in s : f <= curval
                 /\ found' = IF Passes(curval) THEN found \cup {curval} ELSE found
                 /\ phase' = "done"
                 /\ UNCHANGED <<curval, matches, iter>>
              \/ \E f \in s :
                   /\ IsFirstFrom(s, curval + 1, f)
                   /\ Take(curval)
                   /\ curval' = f /\ matches' = 1 /\ iter' = NextList
           /\ UNCHANGED <<require, excluded, maxMatches>>

SearchNext == Go \/ Walk \/ Merge

SearchSpec == SearchInit /\ [][SearchNext]_searchVars /\ WF_searchVars(SearchNext)

-----------------------------------------------------------------------------
Eligible(f) == (\A i \in 1..Len(require) : f \in require[i]) /\ Passes(f)

(* What a search returns: files that are in every set, suit and are not    *)
(* excluded; none is passed over for one behind it; no more than the       *)
(* limit, and fewer only if there are no more.  A limit of 0 still returns *)
(* one.                                                                    *)
SearchIsRight ==
  phase = "done" =>
    LET most == IF maxMatches = 0 THEN 1 ELSE maxMatches IN
    /\ \A f \in found : Len(require) > 0 /\ Eligible(f)
    /\ \A f \in found, g \in Addresses : g < f /\ Eligible(g) => g \in found
    /\ Cardinality(found) <= most
    /\ \/ Len(require) = 0 \/ Cardinality(found) = most
       \/ \A g \in Addresses : Eligible(g) => g \in found

(* A search of fewer terms than an unsigned char counts ends; with as many *)
(* a run of matches never reaches the number of sets, and jmerge goes      *)
(* round for ever on a file that is in all of them.                        *)
SearchEnds == (phase = "merge") ~> (phase = "done" \/ Len(require) >= CharSize)

(* A search that is done has found what it should (search.cc:207-296).     *)
SearchSound == SearchTypeOK /\ SearchIsRight
=============================================================================

----------------------------- MODULE Scheduler -----------------------------
(***************************************************************************)
(* The Scheduler (scheduler.cc) and its Events (event.cc).  A clock is     *)
(* read at three places: run() decides whether its interval is over, each  *)
(* event whether its own frequency is, and an event that runs takes the    *)
(* time before its handler starts.  Handlers take time, so the three drift *)
(* apart.                                                                  *)
(*                                                                         *)
(* Time is what has passed since a time stamp, not the stamp: elapsed[e]   *)
(* is now - e->last_run and sinceRun is now - Scheduler::last_run, in      *)
(* ticks of a clock that does not jump.  A new event has last_run = 0, so  *)
(* that decades have passed since: its elapsed starts at its frequency,    *)
(* which is what ready() makes of it.                                      *)
(*                                                                         *)
(* Nothing in the program calls a Scheduler yet.  Its user is taken to be  *)
(* a main loop that calls run() at least every Gap ticks, and handlers     *)
(* that leave the scheduler alone and let a pass end within PassTime.      *)
(***************************************************************************)
EXTENDS Integers, Sequences

CONSTANTS
  Event,     \* the Event objects there is memory for
  Label,
  Freq,      \* the frequencies given to add
  Interval,  \* Scheduler::interval
  Gap,       \* the user's promise: ticks between two calls of run
  PassTime   \* the handlers' promise: ticks that a pass takes

ASSUME SchedulerAssumption ==
  Label # {} /\ Freq \subseteq Nat /\ Interval \in Nat /\ Gap \in Nat /\ PassTime \in Nat

VARIABLES
  events,     \* Scheduler::events
  heap,       \* the Event objects that exist
  label,      \* Event::name
  frequency,  \* Event::frequency
  elapsed,    \* Event::elapsed()
  sinceRun,   \* time since Scheduler::last_run
  pos,        \* where the walk of run() is in events, 0 outside run
  failed,     \* run's local variable
  waited,     \* ticks since the last call of run ended
  grace       \* history: what an event added with runfirst = false has yet to wait

eventVars == <<label, frequency, grace>>
vars == <<events, heap, eventVars, elapsed, sinceRun, pos, failed, waited>>

Listed == {events[i] : i \in 1 .. Len(events)}

Idle == pos = 0

Init ==
  /\ events = <<>>
  /\ heap = {}
  /\ label = [e \in Event |-> CHOOSE l \in Label : TRUE]
  /\ frequency = [e \in Event |-> 0]
  /\ grace = [e \in Event |-> 0]
  /\ elapsed = [e \in Event |-> 0]
  /\ sinceRun = 0
  /\ pos = 0
  /\ failed = FALSE
  /\ waited = 0

-----------------------------------------------------------------------------
(* The clock.                                                              *)

Tick ==
  /\ IF Idle THEN waited < Gap ELSE pos > 1 /\ sinceRun < PassTime
  /\ waited' = IF Idle THEN waited + 1 ELSE waited
  /\ sinceRun' = sinceRun + 1
  /\ elapsed' = [e \in Event |-> IF e \in Listed THEN elapsed[e] + 1 ELSE elapsed[e]]
  /\ grace' = [e \in Event |-> IF grace[e] > 0 THEN grace[e] - 1 ELSE 0]
  /\ UNCHANGED <<events, heap, label, frequency, pos, failed>>

-----------------------------------------------------------------------------
(* add, remove and clear                                                   *)

\* The parameter runfirst is not looked at.
Add(e, l, t, runfirst) ==
  /\ Idle
  /\ t # 0
  /\ e \notin heap
  /\ heap' = heap \cup {e}
  /\ events' = Append(events, e)
  /\ label' = [label EXCEPT ![e] = l]
  /\ frequency' = [frequency EXCEPT ![e] = t]
  /\ elapsed' = [elapsed EXCEPT ![e] = t]
  /\ grace' = [grace EXCEPT ![e] = IF runfirst THEN 0 ELSE t]
  /\ UNCHANGED <<sinceRun, pos, failed, waited>>

\* The first event with the label leaves the list; the object is not deleted.
RemoveLabel(l) ==
  /\ Idle
  /\ \E i \in 1 .. Len(events) :
       /\ label[events[i]] = l
       /\ \A j \in 1 .. i - 1 : label[events[j]] # l
       /\ events' = [j \in 1 .. Len(events) - 1 |-> IF j < i THEN events[j] ELSE events[j + 1]]
  /\ UNCHANGED <<heap, eventVars, elapsed, sinceRun, pos, failed, waited>>

\* Mutant: the objects are deleted and the list is kept.
ClearKeepsList ==
  /\ Idle
  /\ heap' = heap \ Listed
  /\ UNCHANGED <<events, eventVars, elapsed, sinceRun, pos, failed, waited>>

Clear ==
  /\ Idle
  /\ heap' = heap \ Listed
  /\ events' = <<>>
  /\ UNCHANGED <<eventVars, elapsed, sinceRun, pos, failed, waited>>

-----------------------------------------------------------------------------
(* run                                                                     *)

\* Mutant: the call counts as a run although the interval is not over.
RunRestartsInterval ==
  /\ Idle /\ sinceRun < Interval
  /\ waited' = 0
  /\ sinceRun' = 0
  /\ UNCHANGED <<events, heap, eventVars, elapsed, pos, failed>>

\* The interval is not over: run() returns.
RunTooSoon ==
  /\ Idle /\ sinceRun < Interval
  /\ waited' = 0
  /\ UNCHANGED <<events, heap, eventVars, elapsed, sinceRun, pos, failed>>

RunStart ==
  /\ Idle /\ sinceRun >= Interval
  /\ sinceRun' = 0
  /\ pos' = 1
  /\ failed' = FALSE
  /\ waited' = 0
  /\ UNCHANGED <<events, heap, eventVars, elapsed>>

Visiting == pos \in 1 .. Len(events)

Ready(e) == elapsed[e] >= frequency[e]

\* Mutant: the first failure ends the pass.
RunEventOrGiveUp(ok) ==
  /\ Visiting /\ Ready(events[pos])
  /\ elapsed' = [elapsed EXCEPT ![events[pos]] = 0]
  /\ failed' = (failed \/ ~ok)
  /\ pos' = IF ok THEN pos + 1 ELSE Len(events) + 1
  /\ UNCHANGED <<events, heap, eventVars, sinceRun, waited>>

\* Assumed of handlers: they return whether they succeeded.  One that throws would end run here.
RunEvent(ok) ==
  /\ Visiting /\ Ready(events[pos])
  /\ elapsed' = [elapsed EXCEPT ![events[pos]] = 0]
  /\ failed' = (failed \/ ~ok)
  /\ pos' = pos + 1
  /\ UNCHANGED <<events, heap, eventVars, sinceRun, waited>>

SkipEvent ==
  /\ Visiting /\ ~Ready(events[pos])
  /\ pos' = pos + 1
  /\ UNCHANGED <<events, heap, eventVars, elapsed, sinceRun, failed, waited>>

RunEnd ==
  /\ pos = Len(events) + 1
  /\ pos' = 0
  /\ UNCHANGED <<events, heap, eventVars, elapsed, sinceRun, failed, waited>>

-----------------------------------------------------------------------------
Next ==
  \/ Tick
  \/ \E e \in Event, l \in Label, t \in Freq, runfirst \in BOOLEAN : Add(e, l, t, runfirst)
  \/ \E l \in Label : RemoveLabel(l)
  \/ Clear
  \/ RunTooSoon \/ RunStart \/ SkipEvent \/ RunEnd
  \/ \E ok \in BOOLEAN : RunEvent(ok)

Spec == Init /\ [][Next]_vars

-----------------------------------------------------------------------------
(* Properties.                                                             *)

TypeOK ==
  /\ events \in Seq(Event)
  /\ heap \subseteq Event
  /\ label \in [Event -> Label]
  /\ frequency \in [Event -> Nat]
  /\ elapsed \in [Event -> Nat]
  /\ sinceRun \in Nat
  /\ pos \in 0 .. Len(events) + 1
  /\ failed \in BOOLEAN
  /\ waited \in 0 .. Gap
  /\ grace \in [Event -> Nat]

\* The longest time between the starts of two passes: run() is called up to Gap too late
\* for the interval, or for the end of a pass that took longer than the interval.
LongestRound == Gap + (IF PassTime >= Interval THEN PassTime ELSE Interval - 1)

\* No event waits for its turn longer than a round and a pass after its frequency is over,
\* whatever time the handlers before it take, whichever of them fail and however events
\* come and go.  (That it may be a whole round late is the drift: an event whose frequency
\* is the interval and that ran late in a pass is not ready in the next one.)
NotLate ==
  \A i \in 1 .. Len(events) : elapsed[events[i]] <= frequency[events[i]] + LongestRound + PassTime

\* When a pass ends, every event that was due when it began has run: a handler that fails
\* or takes long costs no other event its turn.
PassServesAll ==
  pos = Len(events) + 1 =>
    \A i \in 1 .. Len(events) : elapsed[events[i]] - sinceRun < frequency[events[i]]

\* What the list and the walk of run() refer to are objects that exist, each of them once:
\* clear() and the destructor delete no object twice.
ListIsAllocated ==
  /\ Listed \subseteq heap
  /\ \A i, j \in 1 .. Len(events) : events[i] = events[j] => i = j

\* What scheduler.hh:34 says of add's last parameter, "run on add (run first time)": an
\* event added without it does not run before its frequency has passed once.
HonoursRunFirst ==
  [][\A e \in Event : (\E ok \in BOOLEAN : RunEvent(ok)) /\ events[pos] = e => grace[e] = 0]_vars
=============================================================================

------------------------------- MODULE Clock -------------------------------
(***************************************************************************)
(* The event loop (clock.c) over the heap of pq.c.  main schedules the     *)
(* first events, then clock_run pops event after event; the handler of an  *)
(* event may schedule others, for any time or delay, and may stop the      *)
(* clock.                                                                  *)
(***************************************************************************)
EXTENDS PriorityQueue, FiniteSets

CONSTANTS
    Times,          \* the target times asked of clock_schedule
    Delays,         \* the durations asked of clock_schedule_delay
    MaxEvents       \* bound: events ever scheduled

ASSUME ClockAssumption ==
    /\ Times \subseteq Nat
    /\ Delays \subseteq Int
    /\ MaxEvents \in Nat

VARIABLES
    time,           \* clock->time
    counter,        \* clock->counter
    running,        \* clock->running
    phase,          \* "main", "loop", "popping", "handler" or "ended"
    handled         \* history: the sequence numbers dispatched, in order

vars == <<entries, sift, top, time, counter, running, phase, handled>>

Init ==
    /\ PqInit
    /\ time = 0
    /\ counter = 0
    /\ running = FALSE
    /\ phase = "main"
    /\ handled = <<>>

\* clock_schedule: a time in the past is the present.
Target(t) == IF t < time THEN time ELSE t

\* clock_schedule_delay: no delay, or a negative one, is now.
After(d) == IF d <= 0 THEN time ELSE time + d

\* The code that is not in the clock has control.
InCaller == phase \in {"main", "handler"}

\* Mutant: the clamp is forgotten.
ScheduleAtAsAsked(t) ==
    /\ InCaller
    /\ counter < MaxEvents
    /\ counter' = counter + 1
    /\ PqPush([time |-> t, seq |-> counter + 1])
    /\ UNCHANGED <<time, running, phase, handled>>

ScheduleAt(t) ==
    /\ InCaller
    /\ counter < MaxEvents                  \* bound
    /\ counter' = counter + 1
    /\ PqPush([time |-> Target(t), seq |-> counter + 1])
    /\ UNCHANGED <<time, running, phase, handled>>

Schedule      == \E t \in Times : ScheduleAt(t)
ScheduleDelay == \E d \in Delays : ScheduleAt(After(d))

\* clock_run starts.
Run ==
    /\ phase = "main" /\ Resting
    /\ running' = TRUE
    /\ phase' = "loop"
    /\ UNCHANGED <<pqvars, time, counter, handled>>

\* Mutant: the loop ends after one event.
PopOnce ==
    /\ phase = "loop" /\ running /\ handled = <<>>
    /\ PqPop
    /\ phase' = "popping"
    /\ UNCHANGED <<time, counter, running, handled>>

\* The loop pops the next event.
Pop ==
    /\ phase = "loop" /\ running
    /\ PqPop
    /\ phase' = "popping"
    /\ UNCHANGED <<time, counter, running, handled>>

\* Time advances to the event, and its callback is called.
Dispatch ==
    /\ phase = "popping" /\ Resting
    /\ time' = top.time
    /\ handled' = Append(handled, top.seq)
    /\ phase' = "handler"
    /\ UNCHANGED <<pqvars, counter, running>>

\* clock_stop, called from a handler.
Stop ==
    /\ phase = "handler" /\ Resting
    /\ running
    /\ running' = FALSE
    /\ UNCHANGED <<pqvars, time, counter, phase, handled>>

Return ==
    /\ phase = "handler" /\ Resting
    /\ phase' = "loop"
    /\ UNCHANGED <<pqvars, time, counter, running, handled>>

\* The loop ends: stopped, or out of events.
End ==
    /\ phase = "loop"
    /\ ~running \/ entries = <<>>
    /\ running' = FALSE
    /\ phase' = "ended"
    /\ UNCHANGED <<pqvars, time, counter, handled>>

Sift == (SiftUp \/ SiftDown) /\ UNCHANGED <<time, counter, running, phase, handled>>

Next == Schedule \/ ScheduleDelay \/ Run \/ Pop \/ Dispatch \/ Stop \/ Return \/ End \/ Sift

\* The loops of the clock and of the heap go on; main calls clock_run and
\* every handler returns.
Fairness == WF_vars(Run \/ Pop \/ Dispatch \/ Return \/ End \/ Sift)

Spec     == Init /\ [][Next]_vars
FairSpec == Spec /\ Fairness

-----------------------------------------------------------------------------
(* Properties.                                                             *)

Queued == {entries[i].seq : i \in DOMAIN entries}
Past   == {handled[i] : i \in DOMAIN handled}
Popped == IF phase = "popping" THEN {top.seq} ELSE {}

\* The heap, the clock and the history have their types.
TypeOK ==
    /\ entries \in Seq(Entry) /\ top \in Entry
    /\ sift.dir \in {"none", "up", "down"}
    /\ ~Resting => sift.at \in DOMAIN entries
    /\ time \in Nat /\ counter \in 0..MaxEvents /\ running \in BOOLEAN
    /\ phase \in {"main", "loop", "popping", "handler", "ended"}
    /\ handled \in Seq(1..MaxEvents)

\* Whenever the heap is at rest, no entry is less than its parent; while it
\* is being sifted the only exceptions are at the entry on its way, and its
\* children already respect its parent.
HeapOrder ==
    LET Below(k) == ~Less(entries[k], entries[k \div 2])
    IN  /\ \A k \in DOMAIN entries \ {1} :
             \/ Below(k)
             \/ sift.dir = "up"   /\ k = sift.at
             \/ sift.dir = "down" /\ k \div 2 = sift.at
        /\ ~Resting /\ sift.at > 1 =>
             \A k \in DOMAIN entries \ {1} :
                 k \div 2 = sift.at => ~Less(entries[k], entries[sift.at \div 2])

\* Unless a handler stops the clock, every event scheduled is handled.
EventsAreHandled ==
    LET stopped == ~running /\ phase # "main"
    IN  \A n \in 1..MaxEvents : n \in Queued ~> n \in Past \/ stopped

\* The clock is an abstract event queue: the event taken is the least of all that
\* are there, time never goes back, and no event is lost in a swap or taken twice.
Abstract == INSTANCE EventQueue WITH
    queue <- {entries[i] : i \in DOMAIN entries},
    now   <- top,
    count <- counter

IsEventQueue == Abstract!Spec
=============================================================================

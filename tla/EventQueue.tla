----------------------------- MODULE EventQueue -----------------------------
(***************************************************************************)
(* What the clock promises (abstract specification): events are a set, the *)
(* one taken next is the least by time and, among equal times, by the      *)
(* order of scheduling; the time of the system is that of the last event   *)
(* taken.  An event is never scheduled before the present.                 *)
(***************************************************************************)
EXTENDS Integers

VARIABLES
    queue,      \* the events scheduled and not taken
    now,        \* the event taken last
    count       \* how many were ever scheduled

vars == <<queue, now, count>>

Before(a, b) == a.time < b.time \/ (a.time = b.time /\ a.seq < b.seq)

Init == queue = {} /\ now = [time |-> 0, seq |-> 0] /\ count = 0

Add(t) ==
    /\ t >= now.time
    /\ count' = count + 1
    /\ queue' = queue \cup {[time |-> t, seq |-> count + 1]}
    /\ UNCHANGED now

Take(e) ==
    /\ \A f \in queue \ {e} : Before(e, f)
    /\ now' = e
    /\ queue' = queue \ {e}
    /\ UNCHANGED count

\* The time of an event added is that of some event that is there afterwards.
Next ==
    \/ \E e \in queue' : Add(e.time)
    \/ \E e \in queue : Take(e)

Spec == Init /\ [][Next]_vars
=============================================================================

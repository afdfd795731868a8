-------------------------------- MODULE Fifo --------------------------------
(***************************************************************************)
(* What a bounded queue promises (abstract specification): items leave in  *)
(* the order in which they were put, at most Capacity of them are held,    *)
(* and none is put once the queue is closed.                               *)
(***************************************************************************)
EXTENDS Integers, Sequences

CONSTANTS Items, Capacity

VARIABLES
    line,       \* the items held, oldest first
    open        \* items may still be put

vars == <<line, open>>

Init == line = <<>> /\ open = TRUE

Put ==
    /\ open /\ Len(line) < Capacity
    /\ \E x \in Items : line' = Append(line, x)
    /\ UNCHANGED open

Take  == line # <<>> /\ line' = Tail(line) /\ UNCHANGED open
Close == open' = FALSE /\ UNCHANGED line

Next == Put \/ Take \/ Close

Spec == Init /\ [][Next]_vars
=============================================================================

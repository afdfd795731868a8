------------------------------ MODULE RingQueue ------------------------------
(***************************************************************************)
(* The bounded ring buffer of bounded_queue.h, in which a CPU pool keeps   *)
(* the continuations that wait for a CPU.  Places are numbered from 0; the *)
(* head is the place of the oldest item, the tail the place of the next    *)
(* one, and a count tells a full ring from an empty one.                   *)
(***************************************************************************)
EXTENDS Integers, Sequences

CONSTANTS
    Items,
    NoItem,         \* what calloc leaves in a place
    Capacity

\* What the code gives for a capacity, and the mark of an empty place.
RingAssumption == Capacity \in Nat /\ NoItem \notin Items

Places == 0..(Capacity - 1)

RingState ==
    [ buf       : [Places -> Items \cup {NoItem}],
      head      : Nat,
      tail      : Nat,
      count     : Nat,
      finalized : BOOLEAN ]

\* bq_init.
NewRing ==
    [ buf |-> [p \in Places |-> NoItem], head |-> 0, tail |-> 0, count |-> 0,
      finalized |-> FALSE ]

Empty(q) == q.count = 0
Full(q)  == q.count >= Capacity

After(p) == (p + 1) % Capacity

\* Mutant: the tail is the place before the head, whatever was popped.
PushAtCount(q, x) ==
    [q EXCEPT !.buf[q.count] = x, !.tail = After(@), !.count = @ + 1]

\* bq_push where it returns true.
Store(q, x) == [q EXCEPT !.buf[q.tail] = x, !.tail = After(@), !.count = @ + 1]

\* bq_push.
Push(q, x) == IF q.finalized \/ Full(q) THEN q ELSE Store(q, x)

\* Mutant: the head stops at the last place.
PopTowardsEnd(q) ==
    [q EXCEPT !.buf[q.head] = NoItem, !.count = @ - 1,
              !.head = IF @ + 1 = Capacity THEN @ ELSE @ + 1]

\* bq_pop of a ring that is not empty; it returns Oldest(q).  The pointer left
\* in the place is not read again before it is overwritten: the model drops it.
Pop(q) == [q EXCEPT !.buf[q.head] = NoItem, !.head = After(@), !.count = @ - 1]

Oldest(q) == q.buf[q.head]

\* bq_finalize.
Finalize(q) == [q EXCEPT !.finalized = TRUE]

\* The place of the i-th item from the head.
Place(q, i) == (q.head + i - 1) % Capacity

\* bq_foreach: the items from head to tail.
Contents(q) == [i \in 1..q.count |-> q.buf[Place(q, i)]]

-----------------------------------------------------------------------------
(* A ring in the hands of any caller.                                      *)

VARIABLE ring

Init == ring = NewRing

PushItem == \E x \in Items : ring' = Push(ring, x)
PopItem  == ~Empty(ring) /\ ring' = Pop(ring)
Closing  == ring' = Finalize(ring)

Next == PushItem \/ PopItem \/ Closing

Spec == Init /\ [][Next]_ring

-----------------------------------------------------------------------------
(* Properties.                                                             *)

\* The fields have their types, the indices stay within the buffer, and the
\* tail is the place after the youngest item.
RingOK(q) ==
    /\ q \in RingState
    /\ q.count <= Capacity
    /\ Capacity > 0 => /\ q.head \in Places /\ q.tail \in Places
                       /\ q.tail = Place(q, q.count + 1)
    /\ \A i \in 1..q.count : q.buf[Place(q, i)] \in Items

TypeOK == RingOK(ring)

\* The ring is a bounded first-in first-out queue: wrapping around the end of
\* the buffer neither loses, nor repeats, nor reorders an item, and a push that
\* is refused changes nothing.
Abstract == INSTANCE Fifo WITH
    line <- Contents(ring),
    open <- ~ring.finalized

IsFifo == Abstract!Spec
=============================================================================

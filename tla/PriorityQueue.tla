--------------------------- MODULE PriorityQueue ---------------------------
(***************************************************************************)
(* The binary heap of events (pq.c), one turn of a sifting loop per step.  *)
(* The code's positions 0..size-1 are 1..Len(entries) here, so the parent  *)
(* of i is i \div 2 and its children are 2i and 2i + 1.  A continuation is *)
(* known by the sequence number it was pushed with.                        *)
(***************************************************************************)
EXTENDS Integers, Sequences

VARIABLES
    entries,    \* pq->entries[0..size-1]
    sift,       \* the loop under way and its position i
    top         \* the entry that pq_pop returns

pqvars == <<entries, sift, top>>

Entry   == [time : Nat, seq : Nat]
AtRest  == [dir |-> "none", at |-> 0]
Resting == sift = AtRest

PqInit ==
    /\ entries = <<>>
    /\ sift = AtRest
    /\ top = [time |-> 0, seq |-> 0]

\* Mutant: equal times are not told apart.
LessByTime(a, b) == a.time < b.time

\* pq_less.
Less(a, b) == a.time < b.time \/ (a.time = b.time /\ a.seq < b.seq)

\* Mutant: the first assignment is lost.
SwapHalf(s, i, k) == [s EXCEPT ![k] = s[i]]

\* pq_swap.
Swap(s, i, k) == [s EXCEPT ![i] = s[k], ![k] = s[i]]

\* Mutant: the position handed to pq_sift_up is that of the previous entry.
PqPushOffByOne(e) ==
    /\ Resting
    /\ entries' = Append(entries, e)
    /\ sift' = [dir |-> "up", at |-> Len(entries)]
    /\ UNCHANGED top

\* pq_push up to its call of pq_sift_up.
PqPush(e) ==
    /\ Resting
    /\ entries' = Append(entries, e)
    /\ sift' = [dir |-> "up", at |-> Len(entries) + 1]
    /\ UNCHANGED top

\* Mutant: the rest moves up by one place instead.
PqPopShifts ==
    /\ Resting
    /\ entries # <<>>
    /\ top' = entries[1]
    /\ IF Len(entries) = 1
         THEN entries' = <<>> /\ UNCHANGED sift
         ELSE /\ entries' = SubSeq(entries, 2, Len(entries))
              /\ sift' = [dir |-> "down", at |-> 1]

\* pq_pop up to its call of pq_sift_down.
PqPop ==
    /\ Resting
    /\ entries # <<>>
    /\ top' = entries[1]
    /\ IF Len(entries) = 1
         THEN entries' = <<>> /\ UNCHANGED sift
         ELSE /\ entries' = [k \in 1..(Len(entries) - 1) |->
                               IF k = 1 THEN entries[Len(entries)] ELSE entries[k]]
              /\ sift' = [dir |-> "down", at |-> 1]

\* The loop at i goes on at k, where entry i has been swapped to, or ends.
Move(i, k) ==
    IF k # i THEN entries' = Swap(entries, i, k) /\ sift' = [sift EXCEPT !.at = k]
             ELSE sift' = AtRest /\ UNCHANGED entries

\* Where pq_sift_up moves entry i.
UpFrom(i) == IF i > 1 /\ Less(entries[i], entries[i \div 2]) THEN i \div 2 ELSE i

\* Mutant: the right child is compared with the parent, not the left child.
DownFromEither(i) ==
    LET n == Len(entries)
    IN  IF 2 * i + 1 <= n /\ Less(entries[2 * i + 1], entries[i]) THEN 2 * i + 1
        ELSE IF 2 * i <= n /\ Less(entries[2 * i], entries[i]) THEN 2 * i ELSE i

\* Where pq_sift_down moves entry i: to the smaller of its smaller children.
DownFrom(i) ==
    LET n     == Len(entries)
        left  == IF 2 * i <= n /\ Less(entries[2 * i], entries[i]) THEN 2 * i ELSE i
    IN  IF 2 * i + 1 <= n /\ Less(entries[2 * i + 1], entries[left]) THEN 2 * i + 1 ELSE left

SiftUp ==
    /\ sift.dir = "up"
    /\ Move(sift.at, UpFrom(sift.at))
    /\ UNCHANGED top

SiftDown ==
    /\ sift.dir = "down"
    /\ Move(sift.at, DownFrom(sift.at))
    /\ UNCHANGED top
=============================================================================

-------------------------- MODULE RingQueueProofs --------------------------
(* The ring buffer is a first-in first-out queue, whatever its capacity.   *)
EXTENDS RingQueue, TLAPS

-----------------------------------------------------------------------------
(* Indices.                                                                *)

\* An index that has not reached the end of the buffer is itself.
LEMMA ModBelow ==
    ASSUME NEW n \in Nat, NEW x \in Nat, x < n
    PROVE  x % n = x
  BY SMT

\* An index past the end starts again at 0.
LEMMA ModOnce ==
    ASSUME NEW n \in Nat, NEW x \in Nat, n <= x, x < n + n
    PROVE  x % n = x - n
  BY SMT

\* Where the i-th item of a ring is, without the modulus.
LEMMA PlaceValue ==
    ASSUME RingAssumption, NEW q, Capacity > 0, q.head \in Places, NEW i \in 1..(Capacity + 1)
    PROVE  Place(q, i) = IF q.head + i - 1 < Capacity THEN q.head + i - 1
                                                      ELSE q.head + i - 1 - Capacity
  <1>1. Capacity \in Nat /\ q.head \in Nat /\ q.head < Capacity
    BY DEF RingAssumption, Places
  <1>2. q.head + i - 1 \in Nat /\ q.head + i - 1 < Capacity + Capacity
    BY <1>1
  <1>3. CASE q.head + i - 1 < Capacity
    BY <1>1, <1>2, <1>3, ModBelow DEF Place
  <1>4. CASE Capacity <= q.head + i - 1
    BY <1>1, <1>2, <1>4, ModOnce DEF Place
  <1> QED BY <1>1, <1>2, <1>3, <1>4

\* The place after p, without the modulus.
LEMMA AfterValue ==
    ASSUME RingAssumption, Capacity > 0, NEW p \in Places
    PROVE  /\ After(p) = IF p + 1 < Capacity THEN p + 1 ELSE 0
           /\ After(p) \in Places
  <1>1. Capacity \in Nat /\ p \in Nat /\ p < Capacity
    BY DEF RingAssumption, Places
  <1>2. CASE p + 1 < Capacity
    BY <1>1, <1>2, ModBelow DEF After, Places
  <1>3. CASE p + 1 = Capacity
    BY <1>1, <1>3, ModOnce DEF After, Places
  <1> QED BY <1>1, <1>2, <1>3

-----------------------------------------------------------------------------
(* The operations.                                                         *)

\* A ring that is not full holds its items in places other than the tail's, and
\* no two of its items, nor the place that follows them, coincide.
LEMMA PlacesDiffer ==
    ASSUME RingAssumption, NEW q, Capacity > 0, q.head \in Places, q.count \in Nat, q.count <= Capacity,
           NEW i \in 1..(q.count + 1), NEW k \in 1..q.count, i # k,
           q.count < Capacity \/ i <= q.count
    PROVE  Place(q, i) # Place(q, k) /\ Place(q, i) \in Places
  <1>1. Capacity \in Nat /\ q.head \in Nat /\ q.head < Capacity
    BY DEF RingAssumption, Places
  <1>2. i \in 1..(Capacity + 1) /\ k \in 1..(Capacity + 1)
    BY <1>1
  <1>3. /\ Place(q, i) = IF q.head + i - 1 < Capacity THEN q.head + i - 1
                                                     ELSE q.head + i - 1 - Capacity
        /\ Place(q, k) = IF q.head + k - 1 < Capacity THEN q.head + k - 1
                                                     ELSE q.head + k - 1 - Capacity
    BY <1>1, <1>2, PlaceValue
  <1> QED BY <1>1, <1>2, <1>3 DEF Places

\* A new ring is well formed and empty.
LEMMA NewRingOK ==
    ASSUME RingAssumption
    PROVE  RingOK(NewRing) /\ Contents(NewRing) = <<>>
  <1>1. NewRing \in RingState
    BY DEF NewRing, RingState
  <1>2. NewRing.count = 0 /\ NewRing.head = 0 /\ NewRing.tail = 0
    BY DEF NewRing
  <1>3. Capacity > 0 => 0 \in Places /\ Place(NewRing, 1) = 0
    <2>1. Capacity \in Nat
      BY DEF RingAssumption
    <2>2. SUFFICES ASSUME Capacity > 0 PROVE 0 \in Places /\ Place(NewRing, 1) = 0
      OBVIOUS
    <2>3. 0 \in Places
      BY <2>1, <2>2 DEF Places
    <2>4. 1 \in 1..(Capacity + 1)
      BY <2>1
    <2> QED BY <1>2, <2>1, <2>2, <2>3, <2>4, PlaceValue
  <1> QED BY <1>1, <1>2, <1>3 DEF RingAssumption, RingOK, Contents

\* Storing an item in a ring with room for it appends it to the contents.
LEMMA StoreAppends ==
    ASSUME RingAssumption, NEW q, RingOK(q), ~Full(q), NEW x \in Items
    PROVE  /\ RingOK(Store(q, x))
           /\ Contents(Store(q, x)) = Append(Contents(q), x)
           /\ Contents(q) \in Seq(Items)
           /\ Len(Contents(q)) = q.count
  <1> DEFINE r == Store(q, x)
  <1>1. /\ q \in RingState /\ q.count \in Nat /\ Capacity \in Nat
        /\ q.count < Capacity /\ Capacity > 0
        /\ q.head \in Places /\ q.tail \in Places /\ q.tail = Place(q, q.count + 1)
        /\ \A i \in 1..q.count : q.buf[Place(q, i)] \in Items
    BY DEF RingAssumption, RingOK, RingState, Full
  <1>2. /\ r.head = q.head /\ r.count = q.count + 1 /\ r.tail = After(q.tail)
        /\ r.buf = [q.buf EXCEPT ![q.tail] = x] /\ r.finalized = q.finalized
    BY <1>1 DEF Store, RingState
  <1>3. After(q.tail) \in Places /\ After(q.tail) \in Nat
    BY <1>1, AfterValue DEF Places
  <1>4. r \in RingState
    <2> DEFINE b == [q.buf EXCEPT ![q.tail] = x]
               t == After(q.tail)
               n == q.count + 1
    <2>1. b \in [Places -> Items \cup {NoItem}] /\ t \in Nat /\ n \in Nat
      BY <1>1, <1>3 DEF RingState
    <2>2. r = [q EXCEPT !.buf = b, !.tail = t, !.count = n]
      BY <1>1 DEF Store, RingState
    <2> HIDE DEF b, t, n, r
    <2> QED BY <1>1, <2>1, <2>2 DEF RingState
  <1>5. \A i : Place(r, i) = Place(q, i)
    BY <1>2 DEF Place
  <1>6. r.tail = Place(r, r.count + 1)
    <2>1. /\ q.count + 1 \in 1..(Capacity + 1) /\ q.count + 2 \in 1..(Capacity + 1)
      BY <1>1
    <2>2. /\ q.tail = IF q.head + q.count < Capacity THEN q.head + q.count
                                                    ELSE q.head + q.count - Capacity
          /\ Place(q, q.count + 2) =
                IF q.head + q.count + 1 < Capacity THEN q.head + q.count + 1
                                                   ELSE q.head + q.count + 1 - Capacity
      BY <1>1, <2>1, PlaceValue DEF Places
    <2>3. After(q.tail) = IF q.tail + 1 < Capacity THEN q.tail + 1 ELSE 0
      BY <1>1, AfterValue
    <2>4. After(q.tail) = Place(q, q.count + 2)
      BY <1>1, <2>2, <2>3 DEF Places
    <2> QED BY <1>1, <1>2, <1>5, <2>4
  <1>7. \A i \in 1..q.count : r.buf[Place(q, i)] = q.buf[Place(q, i)]
    <2>1. TAKE i \in 1..q.count
    <2>2. q.count + 1 \in 1..(q.count + 1) /\ q.count + 1 # i /\ i \in 1..(q.count + 1)
      BY <1>1
    <2>3. Place(q, q.count + 1) # Place(q, i)
      BY <1>1, <2>2, PlacesDiffer
    <2> QED BY <1>1, <1>2, <2>3 DEF RingState
  <1>8. r.buf[Place(q, q.count + 1)] = x
    BY <1>1, <1>2 DEF RingState
  <1>9. RingOK(r)
    <2>1. \A i \in 1..r.count : i \in 1..q.count \/ i = q.count + 1
      BY <1>1, <1>2
    <2>2. \A i \in 1..r.count : r.buf[Place(r, i)] \in Items
      BY <1>1, <1>5, <1>7, <1>8, <2>1
    <2>3. r.count <= Capacity
      BY <1>1, <1>2
    <2>4. r.head \in Places /\ r.tail \in Places
      BY <1>1, <1>2, <1>3
    <2> QED BY <1>4, <1>6, <2>2, <2>3, <2>4 DEF RingOK
  <1>10. Contents(q) \in Seq(Items) /\ Len(Contents(q)) = q.count
    BY <1>1 DEF Contents
  <1>11. Contents(r) = Append(Contents(q), x)
    <2>1. Contents(r) \in Seq(Items) /\ Len(Contents(r)) = q.count + 1
      <3>1. \A i \in 1..r.count : r.buf[Place(r, i)] \in Items
        BY <1>9 DEF RingOK
      <3> QED BY <1>1, <1>2, <3>1 DEF Contents
    <2>2. Append(Contents(q), x) \in Seq(Items)
          /\ Len(Append(Contents(q), x)) = q.count + 1
      BY <1>1, <1>10
    <2>3. ASSUME NEW i \in 1..(q.count + 1)
          PROVE  Contents(r)[i] = Append(Contents(q), x)[i]
      <3>1. Contents(r)[i] = r.buf[Place(q, i)]
        BY <1>2, <1>5 DEF Contents
      <3>2. CASE i = q.count + 1
        BY <1>1, <1>8, <1>10, <3>1, <3>2
      <3>3. CASE i \in 1..q.count
        <4>1. Append(Contents(q), x)[i] = Contents(q)[i]
          BY <1>1, <1>10, <3>3
        <4>2. Contents(q)[i] = q.buf[Place(q, i)]
          BY <3>3 DEF Contents
        <4> QED BY <1>7, <3>1, <3>3, <4>1, <4>2
      <3>4. i = q.count + 1 \/ i \in 1..q.count
        BY <1>1
      <3> QED BY <3>2, <3>3, <3>4
    <2> QED BY <2>1, <2>2, <2>3
  <1> QED BY <1>9, <1>10, <1>11

\* Popping a ring that is not empty removes the head of its contents, which is
\* the item returned.
LEMMA PopRemoves ==
    ASSUME RingAssumption, NEW q, RingOK(q), ~Empty(q)
    PROVE  /\ RingOK(Pop(q))
           /\ Contents(q) # <<>>
           /\ Contents(Pop(q)) = Tail(Contents(q))
           /\ Oldest(q) = Head(Contents(q))
  <1> DEFINE r == Pop(q)
  <1>1. /\ q \in RingState /\ q.count \in Nat /\ Capacity \in Nat
        /\ q.count <= Capacity /\ q.count > 0 /\ Capacity > 0
        /\ q.head \in Places /\ q.tail \in Places /\ q.tail = Place(q, q.count + 1)
        /\ \A i \in 1..q.count : q.buf[Place(q, i)] \in Items
    BY DEF RingAssumption, RingOK, RingState, Empty
  <1>2. /\ r.head = After(q.head) /\ r.count = q.count - 1 /\ r.tail = q.tail
        /\ r.buf = [q.buf EXCEPT ![q.head] = NoItem] /\ r.finalized = q.finalized
    BY <1>1 DEF Pop, RingState
  <1>3. After(q.head) \in Places /\ After(q.head) \in Nat
    BY <1>1, AfterValue DEF Places
  <1>4. r \in RingState
    <2> DEFINE b == [q.buf EXCEPT ![q.head] = NoItem]
               h == After(q.head)
               n == q.count - 1
    <2>1. b \in [Places -> Items \cup {NoItem}] /\ h \in Nat /\ n \in Nat
      BY <1>1, <1>3 DEF RingState
    <2>2. r = [q EXCEPT !.buf = b, !.head = h, !.count = n]
      BY <1>1 DEF Pop, RingState
    <2> HIDE DEF b, h, n, r
    <2> QED BY <1>1, <2>1, <2>2 DEF RingState
  <1>5. Place(q, 1) = q.head
    <2>1. 1 \in 1..(Capacity + 1)
      BY <1>1
    <2> QED BY <1>1, <2>1, PlaceValue DEF Places
  <1>6. \A i \in 1..q.count : Place(r, i) = Place(q, i + 1)
    <2>1. TAKE i \in 1..q.count
    <2>2. i \in 1..(Capacity + 1) /\ i + 1 \in 1..(Capacity + 1)
      BY <1>1
    <2>3. Place(q, i + 1) = IF q.head + i < Capacity THEN q.head + i
                                                    ELSE q.head + i - Capacity
      BY <1>1, <2>2, PlaceValue DEF Places
    <2>4. Place(r, i) = IF After(q.head) + i - 1 < Capacity
                          THEN After(q.head) + i - 1
                          ELSE After(q.head) + i - 1 - Capacity
      BY <1>1, <1>2, <1>3, <2>2, PlaceValue
    <2>5. After(q.head) = IF q.head + 1 < Capacity THEN q.head + 1 ELSE 0
      BY <1>1, AfterValue
    <2> QED BY <1>1, <2>2, <2>3, <2>4, <2>5 DEF Places
  <1>7. \A i \in 1..r.count : r.buf[Place(r, i)] = q.buf[Place(q, i + 1)]
    <2>1. TAKE i \in 1..r.count
    <2>2. /\ i + 1 \in 1..q.count /\ i \in 1..q.count /\ 1 \in 1..q.count /\ i + 1 # 1
          /\ 1 \in 1..(q.count + 1) /\ i + 1 \in 1..(q.count + 1)
      BY <1>1, <1>2
    <2>3. Place(q, i + 1) # Place(q, 1) /\ Place(q, i + 1) \in Places
      BY <1>1, <2>2, PlacesDiffer
    <2> QED BY <1>1, <1>2, <1>5, <1>6, <2>2, <2>3 DEF RingState
  <1>8. RingOK(r)
    <2>1. \A i \in 1..r.count : r.buf[Place(r, i)] \in Items
      <3>1. \A i \in 1..r.count : i + 1 \in 1..q.count
        BY <1>1, <1>2
      <3> QED BY <1>1, <1>7, <3>1
    <2>2. r.tail = Place(r, r.count + 1)
      <3>1. r.count + 1 = q.count /\ q.count \in 1..q.count
        BY <1>1, <1>2
      <3> QED BY <1>1, <1>2, <1>6, <3>1
    <2>3. r.count <= Capacity /\ r.head \in Places /\ r.tail \in Places
      BY <1>1, <1>2, <1>3
    <2> QED BY <1>4, <2>1, <2>2, <2>3 DEF RingOK
  <1>9. /\ Contents(q) \in Seq(Items) /\ Len(Contents(q)) = q.count
        /\ Contents(q) # <<>> /\ Head(Contents(q)) = q.buf[Place(q, 1)]
    BY <1>1 DEF Contents
  <1>10. Contents(r) = Tail(Contents(q))
    <2>1. Contents(r) \in Seq(Items) /\ Len(Contents(r)) = q.count - 1
      <3>1. \A i \in 1..r.count : r.buf[Place(r, i)] \in Items
        BY <1>8 DEF RingOK
      <3> QED BY <1>1, <1>2, <3>1 DEF Contents
    <2>2. Tail(Contents(q)) \in Seq(Items) /\ Len(Tail(Contents(q))) = q.count - 1
      BY <1>1, <1>9
    <2>3. ASSUME NEW i \in 1..(q.count - 1)
          PROVE  Contents(r)[i] = Tail(Contents(q))[i]
      <3>1. i \in 1..r.count /\ i + 1 \in 1..q.count
        BY <1>1, <1>2
      <3>2. Contents(r)[i] = q.buf[Place(q, i + 1)]
        BY <1>7, <3>1 DEF Contents
      <3>3. Tail(Contents(q))[i] = Contents(q)[i + 1]
        BY <1>1, <1>9
      <3>4. Contents(q)[i + 1] = q.buf[Place(q, i + 1)]
        BY <3>1 DEF Contents
      <3> QED BY <3>2, <3>3, <3>4
    <2> QED BY <2>1, <2>2, <2>3
  <1> QED BY <1>5, <1>8, <1>9, <1>10 DEF Oldest

-----------------------------------------------------------------------------
(* The theorems.                                                           *)

\* The indices of the ring stay within its buffer, and its items where they are
\* looked for, through every sequence of operations.
THEOREM RingTyping ==
    ASSUME RingAssumption
    PROVE  Spec => []TypeOK
  <1>1. Init => TypeOK
    BY NewRingOK DEF Init, TypeOK
  <1>2. TypeOK /\ [Next]_ring => TypeOK'
    <2> SUFFICES ASSUME TypeOK, [Next]_ring PROVE TypeOK'
      OBVIOUS
    <2>1. CASE PushItem
      <3>1. PICK x \in Items : ring' = Push(ring, x)
        BY <2>1 DEF PushItem
      <3> QED BY <3>1, StoreAppends DEF TypeOK, Push
    <2>2. CASE PopItem
      BY <2>2, PopRemoves DEF PopItem, TypeOK
    <2>3. CASE Closing
      <3>1. RingOK(Finalize(ring))
        BY DEF TypeOK, RingOK, RingState, Finalize, Place
      <3> QED BY <2>3, <3>1 DEF Closing, TypeOK
    <2>4. CASE UNCHANGED ring
      BY <2>4 DEF TypeOK, RingOK, RingState, Place
    <2> QED BY <2>1, <2>2, <2>3, <2>4 DEF Next
  <1> QED BY <1>1, <1>2, PTL DEF Spec

\* The ring implements the bounded queue: every push that it accepts appends,
\* every pop takes the oldest item, and a refused push changes nothing.
THEOREM RingImplementsFifo ==
    ASSUME RingAssumption
    PROVE  Spec => IsFifo
  <1>1. Init => Abstract!Init
    <2>1. NewRing.finalized = FALSE
      BY DEF NewRing
    <2> QED BY <2>1, NewRingOK DEF Init, Abstract!Init
  <1>2. TypeOK /\ [Next]_ring => [Abstract!Next]_(Abstract!vars)
    <2> SUFFICES ASSUME TypeOK, [Next]_ring
                 PROVE  Abstract!Next \/ UNCHANGED Abstract!vars
      OBVIOUS
    <2>1. RingOK(ring) /\ ring.count \in Nat /\ Capacity \in Nat
      BY DEF RingAssumption, TypeOK, RingOK, RingState
    <2>2. CASE PushItem
      <3>1. PICK x \in Items : ring' = Push(ring, x)
        BY <2>2 DEF PushItem
      <3>2. CASE ring.finalized \/ Full(ring)
        <4>1. ring' = ring
          BY <3>1, <3>2 DEF Push
        <4> QED BY <4>1 DEF Abstract!vars, Contents, Place
      <3>3. CASE ~ring.finalized /\ ~Full(ring)
        <4>1. ring' = Store(ring, x)
          BY <3>1, <3>3 DEF Push
        <4>2. /\ Contents(ring') = Append(Contents(ring), x)
              /\ Len(Contents(ring)) = ring.count
          BY <2>1, <3>3, <4>1, StoreAppends
        <4>3. ring'.finalized = ring.finalized
          BY <2>1, <4>1 DEF Store, RingOK, RingState
        <4>4. Len(Contents(ring)) < Capacity
          BY <2>1, <3>3, <4>2 DEF Full
        <4>5. Abstract!Put
          BY <3>3, <4>2, <4>3, <4>4 DEF Abstract!Put
        <4> QED BY <4>5 DEF Abstract!Next
      <3> QED BY <3>2, <3>3
    <2>3. CASE PopItem
      <3>1. ~Empty(ring) /\ ring' = Pop(ring)
        BY <2>3 DEF PopItem
      <3>2. Contents(ring) # <<>> /\ Contents(ring') = Tail(Contents(ring))
        BY <2>1, <3>1, PopRemoves
      <3>3. ring'.finalized = ring.finalized
        BY <2>1, <3>1 DEF Pop, RingOK, RingState
      <3>4. Abstract!Take
        BY <3>2, <3>3 DEF Abstract!Take
      <3> QED BY <3>4 DEF Abstract!Next
    <2>4. CASE Closing
      <3>1. Contents(ring') = Contents(ring) /\ ring'.finalized = TRUE
        BY <2>1, <2>4 DEF Closing, Finalize, Contents, Place, RingOK, RingState
      <3> QED BY <3>1 DEF Abstract!Next, Abstract!Close
    <2>5. CASE UNCHANGED ring
      BY <2>5 DEF Abstract!vars, Contents, Place
    <2> QED BY <2>2, <2>3, <2>4, <2>5 DEF Next
  <1> QED BY <1>1, <1>2, RingTyping, PTL DEF Spec, IsFifo, Abstract!Spec
=============================================================================

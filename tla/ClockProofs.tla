---------------------------- MODULE ClockProofs ----------------------------
(***************************************************************************)
(* The heap of pq.c keeps its order through every step of its sifting      *)
(* loops, and the clock built on it is an event queue, for any number of   *)
(* events, any times and any delays.                                       *)
(***************************************************************************)
EXTENDS Clock, TLAPS, WellFoundedInduction, FiniteSetTheorems

-----------------------------------------------------------------------------
(* Numbers and orders.                                                     *)

\* A non-empty set of naturals has a least element, since the intervals 1..n
\* are finite and strict inclusion is well-founded on finite sets.
LEMMA LeastNatural ==
    ASSUME NEW T \in SUBSET Nat, T # {}
    PROVE  \E x \in T : \A y \in T : x <= y
<1> DEFINE U == {1..n : n \in T}
<1>1. U \subseteq FiniteSubsetsOf(Nat) /\ U # {}
  <2>1. ASSUME NEW n \in Nat  PROVE 1..n \in SUBSET Nat /\ IsFiniteSet(1..n)
    BY FS_Interval
  <2>2. ASSUME NEW n \in Nat  PROVE 1..n \in FiniteSubsetsOf(Nat)
    BY <2>1 DEF FiniteSubsetsOf
  <2> QED  BY <2>2
<1>2. PICK u \in U : \A v \in U : <<v, u>> \notin StrictSubsetOrdering(Nat)
  <2> HIDE DEF U
  <2> QED  BY <1>1, FS_StrictSubsetOrderingWellFounded, WFMin
<1>3. PICK x \in T : u = 1..x
  OBVIOUS
<1>4. ASSUME NEW y \in T, y < x  PROVE FALSE
  <2>1. 1..y \in U /\ 1..y \in FiniteSubsetsOf(Nat) /\ 1..x \in FiniteSubsetsOf(Nat)
    BY <1>1, <1>3
  <2>2. 1..y \subseteq 1..x /\ x \in 1..x /\ x \notin 1..y
    BY <1>4
  <2>3. <<1..y, 1..x>> \in StrictSubsetOrdering(Nat)
    BY <2>1, <2>2 DEF StrictSubsetOrdering
  <2> QED  BY <1>2, <1>3, <2>1, <2>3
<1> QED  BY <1>4

\* Where the parent and the children of a position are.
LEMMA Parent ==
    ASSUME NEW k \in Nat \ {0, 1}
    PROVE  /\ k \div 2 \in Nat \ {0} /\ k \div 2 < k
           /\ k = 2 * (k \div 2) \/ k = 2 * (k \div 2) + 1
  OBVIOUS

LEMMA Child ==
    ASSUME NEW i \in Nat \ {0}
    PROVE  (2 * i) \div 2 = i /\ (2 * i + 1) \div 2 = i
  OBVIOUS

\* pq_less is a strict order on entries, total where sequence numbers differ.
LEMMA LessIsOrder ==
    ASSUME NEW a \in Entry, NEW b \in Entry, NEW c \in Entry
    PROVE  /\ Less(a, b) => ~Less(b, a)
           /\ ~Less(b, a) /\ ~Less(c, b) => ~Less(c, a)
           /\ Less(a, b) /\ ~Less(c, b) => ~Less(c, a)
           /\ Less(a, b) /\ Less(b, c) => Less(a, c)
           /\ a.seq # b.seq /\ ~Less(b, a) => Less(a, b)
  BY DEF Entry, Less

-----------------------------------------------------------------------------
(* The invariant.                                                          *)

\* Sequence numbers tell the entries apart.
Distinct ==
    /\ \A k \in DOMAIN entries : entries[k].seq \in 1..counter
    /\ \A j, k \in DOMAIN entries : entries[j].seq = entries[k].seq => j = k

\* The time is that of the last event taken, once it has been dispatched.
TimeIsTop ==
    /\ phase = "popping" => top.seq \in 1..counter
    /\ phase # "popping" => time = top.time

Sifts == [dir : {"none", "up", "down"}, at : Nat]

\* The heap by itself.
PqInv ==
    /\ entries \in Seq(Entry) /\ top \in Entry /\ sift \in Sifts
    /\ sift.dir = "none" => Resting
    /\ ~Resting => sift.at \in DOMAIN entries
    /\ HeapOrder
    /\ Distinct

Inv == TypeOK /\ PqInv /\ TimeIsTop

-----------------------------------------------------------------------------
(* The sifting loops, on a sequence of entries.                            *)

\* Entry k is not less than its parent.
Below(s, k) == ~Less(s[k], s[k \div 2])

\* The children of entry i are not less than its parent.
Bridged(s, i) ==
    i > 1 => \A k \in DOMAIN s \ {1} : k \div 2 = i => ~Less(s[k], s[i \div 2])

RestOrder(s)    == \A k \in DOMAIN s \ {1} : Below(s, k)
UpOrder(s, i)   == Bridged(s, i) /\ \A k \in DOMAIN s \ {1} : k # i => Below(s, k)
DownOrder(s, i) == Bridged(s, i) /\ \A k \in DOMAIN s \ {1} : k \div 2 # i => Below(s, k)

LEMMA SwapFacts ==
    ASSUME NEW s \in Seq(Entry), NEW i \in DOMAIN s, NEW k \in DOMAIN s
    PROVE  /\ Swap(s, i, k) \in Seq(Entry)
           /\ Len(Swap(s, i, k)) = Len(s) /\ DOMAIN Swap(s, i, k) = DOMAIN s
           /\ Swap(s, i, k)[k] = s[i] /\ (i # k => Swap(s, i, k)[i] = s[k])
           /\ \A j \in DOMAIN s \ {i, k} : Swap(s, i, k)[j] = s[j]
  BY DEF Swap

\* A turn of pq_sift_up that swaps an entry with its parent leaves the parent's
\* place as the only exception.
LEMMA UpTurn ==
    ASSUME NEW s \in Seq(Entry), NEW i \in DOMAIN s, i > 1,
           UpOrder(s, i), Less(s[i], s[i \div 2])
    PROVE  UpOrder(Swap(s, i, i \div 2), i \div 2)
<1> DEFINE p == i \div 2
           t == Swap(s, i, p)
<1>1. i \in Nat \ {0, 1} /\ p \in DOMAIN s /\ p < i /\ p \in Nat \ {0}
  BY Parent
<1>2. /\ t \in Seq(Entry) /\ DOMAIN t = DOMAIN s
      /\ t[p] = s[i] /\ t[i] = s[p]
      /\ \A j \in DOMAIN s \ {i, p} : t[j] = s[j]
  BY <1>1, SwapFacts
<1>3. \A j \in DOMAIN s : s[j] \in Entry
  OBVIOUS
<1>4. \A j \in DOMAIN s \ {1} : /\ j \div 2 \in DOMAIN s /\ j \div 2 < j
                                /\ j \in Nat /\ j \div 2 \in Nat \ {0}
  BY Parent
<1> HIDE DEF t
<1>5. ASSUME NEW j \in DOMAIN s \ {1}, j # p
      PROVE  Below(t, j)
  <2>1. CASE j = i
    BY <1>1, <1>2, <1>3, <2>1, LessIsOrder DEF Below
  <2>2. CASE j # i /\ j \div 2 = p
    <3>1. ~Less(s[j], s[p])
      BY <2>2 DEF UpOrder, Below
    <3>2. ~Less(s[j], s[i])
      BY <1>1, <1>3, <3>1, LessIsOrder
    <3> QED  BY <1>2, <1>5, <2>2, <3>2 DEF Below
  <2>3. CASE j # i /\ j \div 2 = i
    <3>1. ~Less(s[j], s[p])
      BY <2>3 DEF UpOrder, Bridged
    <3> QED  BY <1>2, <1>5, <2>3, <3>1 DEF Below
  <2>4. CASE j # i /\ j \div 2 # p /\ j \div 2 # i
    BY <1>2, <1>4, <1>5, <2>4 DEF UpOrder, Below
  <2> QED  BY <2>1, <2>2, <2>3, <2>4
<1>6. ASSUME p > 1, NEW j \in DOMAIN s \ {1}, j \div 2 = p
      PROVE  ~Less(t[j], t[p \div 2])
  <2>1. p \div 2 \in DOMAIN s /\ p \div 2 # p /\ p \div 2 # i
    BY <1>1, <1>4, <1>6
  <2>2. t[p \div 2] = s[p \div 2] /\ ~Less(s[p], s[p \div 2])
    BY <1>1, <1>2, <1>6, <2>1 DEF UpOrder, Below
  <2>3. CASE j = i
    BY <1>2, <2>2, <2>3
  <2>4. CASE j # i
    <3>1. t[j] = s[j] /\ ~Less(s[j], s[p])
      BY <1>1, <1>2, <1>4, <1>6, <2>4 DEF UpOrder, Below
    <3> QED  BY <1>1, <1>3, <2>1, <2>2, <3>1, LessIsOrder
  <2> QED  BY <2>3, <2>4
<1>7. Bridged(t, p)
  BY <1>2, <1>6 DEF Bridged
<1> QED  BY <1>2, <1>5, <1>7 DEF UpOrder, t

\* pq_sift_up ends where the entry is not less than its parent, or at the root.
LEMMA UpEnds ==
    ASSUME NEW s \in Seq(Entry), NEW i \in DOMAIN s, UpOrder(s, i),
           ~(i > 1 /\ Less(s[i], s[i \div 2]))
    PROVE  RestOrder(s)
  BY DEF UpOrder, RestOrder, Below

\* A turn of pq_sift_down that swaps an entry with the lesser of its children
\* leaves the children of that child's place as the only exceptions.
LEMMA DownTurn ==
    ASSUME NEW s \in Seq(Entry), NEW i \in DOMAIN s, NEW m \in DOMAIN s \ {1},
           m \div 2 = i, DownOrder(s, i), Less(s[m], s[i]),
           \A j \in DOMAIN s \ {1} : j \div 2 = i => ~Less(s[j], s[m])
    PROVE  DownOrder(Swap(s, i, m), m)
<1> DEFINE t == Swap(s, i, m)
<1>1. /\ t \in Seq(Entry) /\ DOMAIN t = DOMAIN s /\ i # m
      /\ t[m] = s[i] /\ t[i] = s[m]
      /\ \A j \in DOMAIN s \ {i, m} : t[j] = s[j]
  BY SwapFacts, Parent
<1>2. \A j \in DOMAIN s : s[j] \in Entry
  OBVIOUS
<1>3. \A j \in DOMAIN s \ {1} : j \div 2 \in DOMAIN s /\ j \div 2 # j
  BY Parent
<1> HIDE DEF t
<1>4. ASSUME NEW j \in DOMAIN s \ {1}, j \div 2 # m
      PROVE  Below(t, j)
  <2>1. CASE j = m
    BY <1>1, <1>2, <2>1, LessIsOrder DEF Below
  <2>2. CASE j # m /\ j \div 2 = i
    BY <1>1, <1>3, <2>2 DEF Below
  <2>3. CASE j # m /\ j = i
    <3>1. i > 1 /\ ~Less(s[m], s[i \div 2])
      BY <2>3 DEF DownOrder, Bridged
    <3> QED  BY <1>1, <1>3, <1>4, <2>3, <3>1 DEF Below
  <2>4. CASE j # m /\ j # i /\ j \div 2 # i
    BY <1>1, <1>3, <1>4, <2>4 DEF DownOrder, Below
  <2> QED  BY <2>1, <2>2, <2>3, <2>4
<1>5. ASSUME NEW j \in DOMAIN s \ {1}, j \div 2 = m
      PROVE  ~Less(t[j], t[m \div 2])
  <2>1. j # i /\ j # m
    BY <1>3, <1>5, Parent
  <2>2. ~Less(s[j], s[m])
    BY <1>1, <1>5 DEF DownOrder, Below
  <2> QED  BY <1>1, <2>1, <2>2
<1>6. Bridged(t, m)
  BY <1>1, <1>5 DEF Bridged
<1> QED  BY <1>1, <1>4, <1>6 DEF DownOrder, t

\* pq_sift_down ends where no child is less than the entry.
LEMMA DownEnds ==
    ASSUME NEW s \in Seq(Entry), NEW i \in DOMAIN s, DownOrder(s, i),
           \A j \in DOMAIN s \ {1} : j \div 2 = i => ~Less(s[j], s[i])
    PROVE  RestOrder(s)
  BY DEF DownOrder, RestOrder, Below

\* At rest no entry is less than the root: the least position of one that were
\* would have a parent that is not.
LEMMA RootIsLeast ==
    ASSUME NEW s \in Seq(Entry), RestOrder(s), NEW k \in DOMAIN s
    PROVE  ~Less(s[k], s[1])
<1> DEFINE T == {n \in DOMAIN s : Less(s[n], s[1])}
<1>1. SUFFICES ASSUME T # {}  PROVE FALSE
  OBVIOUS
<1>2. PICK x \in T : \A y \in T : x <= y
  <2>1. T \in SUBSET Nat
    OBVIOUS
  <2> HIDE DEF T
  <2> QED  BY <1>1, <2>1, LeastNatural
<1>3. x # 1
  BY LessIsOrder
<1>4. x \div 2 \in DOMAIN s /\ x \div 2 < x
  BY <1>3, Parent
<1>5. ~Less(s[x \div 2], s[1])
  BY <1>2, <1>4
<1>6. ~Less(s[x], s[x \div 2])
  BY <1>3 DEF RestOrder, Below
<1>7. s[x] \in Entry /\ s[1] \in Entry /\ s[x \div 2] \in Entry
  BY <1>4
<1> QED  BY <1>5, <1>6, <1>7, LessIsOrder

\* HeapOrder, for a sequence of entries and a loop.
Ordered(s, sf) ==
    /\ \A k \in DOMAIN s \ {1} :
         \/ Below(s, k)
         \/ sf.dir = "up"   /\ k = sf.at
         \/ sf.dir = "down" /\ k \div 2 = sf.at
    /\ sf # AtRest => Bridged(s, sf.at)

LEMMA HeapIsOrdered == HeapOrder <=> Ordered(entries, sift)
  BY DEF HeapOrder, Ordered, Below, Bridged, Resting

LEMMA HeapIsOrderedNext == HeapOrder' <=> Ordered(entries', sift')
  BY DEF HeapOrder, Ordered, Below, Bridged, Resting

LEMMA OrderedParts ==
    ASSUME NEW s, NEW sf \in Sifts
    PROVE  /\ sf = AtRest => (Ordered(s, sf) <=> RestOrder(s))
           /\ sf.dir = "up" => (Ordered(s, sf) <=> UpOrder(s, sf.at))
           /\ sf.dir = "down" => (Ordered(s, sf) <=> DownOrder(s, sf.at))
  BY DEF Sifts, Ordered, AtRest, RestOrder, UpOrder, DownOrder

\* What the loop of pq_sift_down finds at position i.
LEMMA LeastChild ==
    ASSUME entries \in Seq(Entry), NEW i \in DOMAIN entries
    PROVE  LET m        == DownFrom(i)
               children == {2 * i, 2 * i + 1} \cap DOMAIN entries
           IN  /\ m # i => m \in children /\ Less(entries[m], entries[i])
               /\ \A j \in children : ~Less(entries[j], entries[m])
<1> DEFINE n    == Len(entries)
           L    == entries[2 * i]
           R    == entries[2 * i + 1]
           E    == entries[i]
<1>0. DOMAIN entries = 1..n /\ n \in Nat /\ i \in Nat \ {0} /\ E \in Entry /\ i <= n
  OBVIOUS
<1>1. CASE 2 * i > n
  BY <1>0, <1>1 DEF DownFrom
<1>2. CASE 2 * i = n
  <2>1. L \in Entry
    BY <1>0, <1>2
  <2>2. DownFrom(i) = IF Less(L, E) THEN 2 * i ELSE i
    BY <1>0, <1>2 DEF DownFrom
  <2> QED  BY <1>0, <1>2, <2>1, <2>2, LessIsOrder
<1>3. CASE 2 * i < n
  <2>1. L \in Entry /\ R \in Entry /\ 2 * i \in DOMAIN entries /\ 2 * i + 1 \in DOMAIN entries
    BY <1>0, <1>3
  <2>2. DownFrom(i) = IF Less(L, E) THEN IF Less(R, L) THEN 2 * i + 1 ELSE 2 * i
                                    ELSE IF Less(R, E) THEN 2 * i + 1 ELSE i
    BY <1>0, <1>3 DEF DownFrom
  <2>3. /\ ~Less(L, L) /\ ~Less(R, R) /\ (Less(R, L) => ~Less(L, R))
        /\ Less(L, E) /\ Less(R, L) => Less(R, E)
        /\ ~Less(L, E) /\ Less(R, E) => ~Less(L, R)
    BY <1>0, <2>1, LessIsOrder
  <2> HIDE DEF L, R, E
  <2>4. CASE DownFrom(i) = 2 * i + 1
    BY <1>0, <2>1, <2>2, <2>3, <2>4 DEF L, R, E
  <2>5. CASE DownFrom(i) = 2 * i
    BY <1>0, <2>1, <2>2, <2>3, <2>5 DEF L, R, E
  <2>6. CASE DownFrom(i) = i
    BY <1>0, <2>1, <2>2, <2>3, <2>6 DEF L, R, E
  <2> QED  BY <2>2, <2>4, <2>5, <2>6
<1> QED  BY <1>0, <1>1, <1>2, <1>3

-----------------------------------------------------------------------------
(* The invariant is inductive.                                             *)

LEMMA InitInv == Init => Inv
<1> SUFFICES ASSUME Init  PROVE Inv
  OBVIOUS
<1> USE DEF Init, PqInit
<1>1. TypeOK
  <2>1. entries \in Seq(Entry) /\ handled \in Seq(1..MaxEvents)
    OBVIOUS
  <2>2. top \in Entry
    BY DEF Entry
  <2>3. Resting /\ sift.dir = "none"
    BY DEF Resting, AtRest
  <2>4. time \in Nat /\ counter \in 0..MaxEvents
    BY ClockAssumption
  <2> QED  BY <2>1, <2>2, <2>3, <2>4 DEF TypeOK
<1>2. PqInv
  BY DEF PqInv, Entry, Sifts, AtRest, Resting, HeapOrder, Distinct
<1>3. TimeIsTop
  BY DEF TimeIsTop
<1> QED  BY <1>1, <1>2, <1>3 DEF Inv

\* A push keeps the heap, if the entry has a new sequence number.
LEMMA PushKeeps ==
    ASSUME PqInv, counter \in Nat, NEW e \in Entry, PqPush(e),
           counter' = counter + 1, e.seq = counter + 1
    PROVE  PqInv'
<1> DEFINE n == Len(entries) + 1
<1>1. /\ entries \in Seq(Entry) /\ entries' \in Seq(Entry)
      /\ DOMAIN entries' = 1..n /\ n \in Nat \ {0} /\ DOMAIN entries = 1..(n - 1)
      /\ entries'[n] = e /\ \A k \in 1..(n - 1) : entries'[k] = entries[k]
      /\ sift' = [dir |-> "up", at |-> n] /\ top' = top
  BY DEF PqInv, PqPush
<1>2. UpOrder(entries', n)
  <2>1. RestOrder(entries)
    BY <1>1, HeapIsOrdered, OrderedParts DEF PqInv, PqPush, Resting
  <2>2. ASSUME NEW k \in 2..n  PROVE k \div 2 \in 1..(n - 1)
    BY <1>1, Parent
  <2>3. ASSUME NEW k \in 2..n, k # n  PROVE Below(entries', k)
    <3>1. k \in 2..(n - 1) /\ k \div 2 \in 1..(n - 1)
      BY <1>1, <2>2, <2>3
    <3>2. entries'[k] = entries[k] /\ entries'[k \div 2] = entries[k \div 2]
      BY <1>1, <3>1
    <3>3. k \in DOMAIN entries \ {1}
      BY <1>1, <3>1
    <3> QED  BY <2>1, <3>2, <3>3 DEF RestOrder, Below
  <2>4. \A k \in 2..n : k \div 2 # n
    BY <1>1, <2>2
  <2> QED  BY <1>1, <2>3, <2>4 DEF UpOrder, Bridged
<1>3. /\ top' \in Entry /\ sift' \in Sifts /\ sift'.dir = "up" /\ sift'.at = n
  BY <1>1 DEF PqInv, Sifts
<1>4. HeapOrder'
  BY <1>2, <1>3, HeapIsOrderedNext, OrderedParts
<1>5. Distinct'
  BY <1>1 DEF PqInv, Distinct
<1> QED  BY <1>1, <1>3, <1>4, <1>5 DEF PqInv

\* A pop keeps the heap and gives an entry that was in it.
LEMMA PopKeeps ==
    ASSUME PqInv, PqPop, UNCHANGED counter
    PROVE  PqInv' /\ top'.seq \in 1..counter
<1> DEFINE n == Len(entries)
<1>0. entries \in Seq(Entry) /\ n \in Nat \ {0} /\ DOMAIN entries = 1..n
  BY DEF PqInv, PqPop
<1>1. /\ top' = entries[1] /\ top' \in Entry /\ sift = AtRest /\ RestOrder(entries)
      /\ top'.seq \in 1..counter
  <2>1. sift = AtRest /\ top' = entries[1] /\ 1 \in DOMAIN entries
    BY <1>0 DEF PqPop, Resting
  <2>2. RestOrder(entries)
    BY <2>1, HeapIsOrdered, OrderedParts DEF PqInv
  <2> QED  BY <1>0, <2>1, <2>2 DEF PqInv, Distinct
<1>2. CASE n = 1
  <2>1. entries' = <<>> /\ sift' = AtRest
    BY <1>1, <1>2 DEF PqPop
  <2>2. HeapOrder' /\ Distinct'
    BY <2>1 DEF HeapOrder, Distinct, Resting
  <2> QED  BY <1>1, <2>1, <2>2 DEF PqInv, Resting, AtRest, Sifts
<1>3. CASE n > 1
  <2>1. /\ entries' \in Seq(Entry) /\ DOMAIN entries' = 1..(n - 1)
        /\ entries'[1] = entries[n] /\ \A k \in 2..(n - 1) : entries'[k] = entries[k]
        /\ sift' = [dir |-> "down", at |-> 1]
    BY <1>0, <1>3 DEF PqPop
  <2>2. DownOrder(entries', 1)
    <3>1. ASSUME NEW k \in 2..(n - 1), k \div 2 # 1  PROVE Below(entries', k)
      <4>1. k \div 2 \in 2..(n - 1)
        BY <3>1, Parent
      <4>2. k \in DOMAIN entries \ {1}
        BY <1>0
      <4>3. entries'[k] = entries[k] /\ entries'[k \div 2] = entries[k \div 2]
        BY <2>1, <4>1
      <4> QED  BY <1>1, <4>2, <4>3 DEF RestOrder, Below
    <3> QED  BY <2>1, <3>1 DEF DownOrder, Bridged
  <2>3. sift' \in Sifts /\ sift'.dir = "down" /\ sift'.at = 1 /\ 1 \in DOMAIN entries'
    BY <1>3, <2>1 DEF Sifts
  <2>5. HeapOrder'
    BY <2>2, <2>3, HeapIsOrderedNext, OrderedParts
  <2>4. Distinct'
    <3> DEFINE from(k) == IF k = 1 THEN n ELSE k
    <3>1. ASSUME NEW k \in 1..(n - 1)
          PROVE  from(k) \in 1..n /\ entries'[k] = entries[from(k)]
      BY <1>0, <2>1
    <3>2. ASSUME NEW j \in 1..(n - 1), NEW k \in 1..(n - 1), from(j) = from(k)
          PROVE  j = k
      BY <1>0, <3>2
    <3> HIDE DEF from
    <3>3. \A k \in 1..(n - 1) : entries'[k].seq \in 1..counter
      BY <1>0, <3>1 DEF PqInv, Distinct
    <3>4. ASSUME NEW j \in 1..(n - 1), NEW k \in 1..(n - 1),
                 entries'[j].seq = entries'[k].seq
          PROVE  j = k
      BY <1>0, <3>1, <3>2, <3>4 DEF PqInv, Distinct
    <3> QED  BY <2>1, <3>3, <3>4 DEF Distinct
  <2> QED  BY <1>1, <2>1, <2>3, <2>4, <2>5 DEF PqInv
<1> QED  BY <1>0, <1>2, <1>3

\* A turn of a sifting loop keeps the heap.
LEMMA SiftKeeps ==
    ASSUME PqInv, SiftUp \/ SiftDown, UNCHANGED counter
    PROVE  PqInv'
<1> DEFINE i == sift.at
           n == Len(entries)
<1>0. /\ entries \in Seq(Entry) /\ DOMAIN entries = 1..n /\ n \in Nat
      /\ i \in DOMAIN entries /\ top' = top /\ sift \in Sifts
  BY DEF PqInv, SiftUp, SiftDown, Resting, AtRest
<1>1. ASSUME UNCHANGED entries, sift' = AtRest, RestOrder(entries)
      PROVE  PqInv'
  <2>1. HeapOrder'
    <3>1. sift' \in Sifts /\ RestOrder(entries')
      BY <1>1 DEF Sifts, AtRest
    <3>2. Ordered(entries', sift')
      BY <1>1, <3>1, OrderedParts
    <3> QED  BY <3>2, HeapIsOrderedNext
  <2>2. Distinct'
    BY <1>1 DEF PqInv, Distinct
  <2> QED  BY <1>0, <1>1, <2>1, <2>2 DEF PqInv, Resting, AtRest, Sifts
<1>2. ASSUME NEW k \in DOMAIN entries, k # i, entries' = Swap(entries, i, k),
             sift' = [sift EXCEPT !.at = k], Ordered(entries', sift')
      PROVE  PqInv'
  <2>1. /\ entries' \in Seq(Entry) /\ DOMAIN entries' = DOMAIN entries
        /\ entries'[k] = entries[i] /\ entries'[i] = entries[k]
        /\ \A j \in DOMAIN entries \ {i, k} : entries'[j] = entries[j]
    <3> DEFINE s == Swap(entries, i, k)
    <3>1. /\ s \in Seq(Entry) /\ DOMAIN s = DOMAIN entries
          /\ s[k] = entries[i] /\ (i # k => s[i] = entries[k])
          /\ \A j \in DOMAIN entries \ {i, k} : s[j] = entries[j]
      <4> HIDE DEF i
      <4> QED  BY <1>0, <1>2, SwapFacts
    <3> HIDE DEF s
    <3>2. entries' = s
      BY <1>2 DEF s
    <3> QED  BY <1>2, <3>1, <3>2
  <2>2. Distinct'
    <3> DEFINE from(j) == IF j = k THEN i ELSE IF j = i THEN k ELSE j
    <3>1. ASSUME NEW j \in DOMAIN entries
          PROVE  from(j) \in DOMAIN entries /\ entries'[j] = entries[from(j)]
      BY <1>0, <1>2, <2>1
    <3>2. ASSUME NEW j \in DOMAIN entries, NEW l \in DOMAIN entries, from(j) = from(l)
          PROVE  j = l
      BY <3>2
    <3> HIDE DEF from
    <3>3. \A j \in DOMAIN entries : entries'[j].seq \in 1..counter
      BY <3>1 DEF PqInv, Distinct
    <3>4. ASSUME NEW j \in DOMAIN entries, NEW l \in DOMAIN entries,
                 entries'[j].seq = entries'[l].seq
          PROVE  j = l
      BY <3>1, <3>2, <3>4 DEF PqInv, Distinct
    <3> QED  BY <2>1, <3>3, <3>4 DEF Distinct
  <2>3. sift' \in Sifts /\ sift'.at = k /\ sift'.dir = sift.dir /\ sift.dir # "none"
    BY <1>0, <1>2 DEF Sifts, SiftUp, SiftDown
  <2>4. HeapOrder'
    BY <1>2, HeapIsOrderedNext
  <2> QED  BY <1>0, <1>2, <2>1, <2>2, <2>3, <2>4 DEF PqInv
<1>3. CASE SiftUp
  <2>1. sift.dir = "up" /\ UpOrder(entries, i)
    BY <1>0, <1>3, HeapIsOrdered, OrderedParts DEF PqInv, SiftUp
  <2>2. CASE i > 1 /\ Less(entries[i], entries[i \div 2])
    <3>1. i \div 2 \in DOMAIN entries /\ i \div 2 # i /\ i \div 2 \in Nat
      BY <1>0, <2>2, Parent
    <3>2. entries' = Swap(entries, i, i \div 2) /\ sift' = [sift EXCEPT !.at = i \div 2]
      BY <1>3, <2>2, <3>1 DEF SiftUp, Move, UpFrom
    <3>3. UpOrder(entries', i \div 2)
      BY <1>0, <2>1, <2>2, <3>2, UpTurn
    <3>4. sift' \in Sifts /\ sift'.dir = "up" /\ sift'.at = i \div 2
      BY <1>0, <2>1, <3>1, <3>2 DEF Sifts
    <3>5. Ordered(entries', sift')
      BY <3>3, <3>4, OrderedParts
    <3> QED  BY <1>2, <3>1, <3>2, <3>5
  <2>3. CASE ~(i > 1 /\ Less(entries[i], entries[i \div 2]))
    BY <1>0, <1>1, <1>3, <2>1, <2>3, UpEnds DEF SiftUp, Move, UpFrom
  <2> QED  BY <2>2, <2>3
<1>4. CASE SiftDown
  <2> DEFINE m == DownFrom(i)
  <2>1. sift.dir = "down" /\ DownOrder(entries, i)
    BY <1>0, <1>4, HeapIsOrdered, OrderedParts DEF PqInv, SiftDown
  <2>2. \A j \in DOMAIN entries \ {1} : j \div 2 = i => j \in {2 * i, 2 * i + 1}
    BY <1>0, Parent
  <2>3. \A j \in DOMAIN entries \ {1} : j \div 2 = i => ~Less(entries[j], entries[m])
    BY <1>0, <2>2, LeastChild
  <2>4. CASE m # i
    <3>1. m \in DOMAIN entries \ {1} /\ m \div 2 = i /\ Less(entries[m], entries[i])
      BY <1>0, <2>4, LeastChild, Child
    <3>2. entries' = Swap(entries, i, m) /\ sift' = [sift EXCEPT !.at = m]
      BY <1>4, <2>4 DEF SiftDown, Move
    <3> HIDE DEF m
    <3>3. DownOrder(entries', m)
      BY <1>0, <2>1, <2>3, <3>1, <3>2, DownTurn
    <3>4. sift' \in Sifts /\ sift'.dir = "down" /\ sift'.at = m
      BY <1>0, <2>1, <3>1, <3>2 DEF Sifts
    <3>5. Ordered(entries', sift')
      BY <3>3, <3>4, OrderedParts
    <3> QED  BY <1>2, <2>4, <3>1, <3>2, <3>5
  <2>5. CASE m = i
    <3>1. entries' = entries /\ sift' = AtRest
      BY <1>4, <2>5 DEF SiftDown, Move
    <3> QED  BY <1>0, <1>1, <2>1, <2>3, <2>5, <3>1, DownEnds
  <2> QED  BY <2>4, <2>5
<1> QED  BY <1>3, <1>4

\* Every action of the clock keeps the invariant.
LEMMA NextInv == Inv /\ [Next]_vars => Inv'
<1> SUFFICES ASSUME Inv, [Next]_vars  PROVE Inv'
  OBVIOUS
<1>0. /\ TypeOK /\ PqInv /\ TimeIsTop /\ counter \in 0..MaxEvents /\ MaxEvents \in Nat
      /\ time \in Nat /\ handled \in Seq(1..MaxEvents)
  BY ClockAssumption DEF Inv, TypeOK
<1>1. ASSUME NEW t \in Nat, ScheduleAt(t)  PROVE Inv'
  <2> DEFINE e == [time |-> Target(t), seq |-> counter + 1]
  <2>1. e \in Entry /\ PqPush(e) /\ e.seq = counter + 1 /\ counter' = counter + 1
    BY <1>0, <1>1 DEF ScheduleAt, Target, Entry
  <2> HIDE DEF e
  <2>2. PqInv'
    BY <1>0, <2>1, PushKeeps
  <2>3. TypeOK'
    BY <1>0, <1>1, <2>2 DEF ScheduleAt, TypeOK, PqInv, Sifts
  <2>4. TimeIsTop'
    BY <1>0, <1>1, <2>1 DEF ScheduleAt, InCaller, TimeIsTop, PqPush
  <2> QED  BY <2>2, <2>3, <2>4 DEF Inv
<1>2. CASE Schedule
  BY <1>1, <1>2, ClockAssumption DEF Schedule
<1>3. CASE ScheduleDelay
  <2>1. PICK d \in Delays : ScheduleAt(After(d))
    BY <1>3 DEF ScheduleDelay
  <2>2. After(d) \in Nat
    BY <1>0, ClockAssumption DEF After
  <2> QED  BY <1>1, <2>1, <2>2
<1>4. CASE Pop
  <2>1. PqInv' /\ top'.seq \in 1..counter'
    BY <1>0, <1>4, PopKeeps DEF Pop
  <2>2. TypeOK'
    BY <1>0, <1>4, <2>1 DEF Pop, TypeOK, PqInv, Sifts
  <2>3. TimeIsTop'
    BY <1>4, <2>1 DEF Pop, TimeIsTop
  <2> QED  BY <2>1, <2>2, <2>3 DEF Inv
<1>5. CASE Sift
  <2>1. PqInv'
    BY <1>0, <1>5, SiftKeeps DEF Sift
  <2>2. TypeOK'
    BY <1>0, <1>5, <2>1 DEF Sift, TypeOK, PqInv, Sifts
  <2>3. TimeIsTop'
    BY <1>0, <1>5 DEF Sift, SiftUp, SiftDown, TimeIsTop
  <2> QED  BY <2>1, <2>2, <2>3 DEF Inv
<1>6. ASSUME UNCHANGED <<pqvars, counter>>, time' \in Nat, running' \in BOOLEAN,
             phase' \in {"main", "loop", "popping", "handler", "ended"},
             handled' \in Seq(1..MaxEvents), TimeIsTop'
      PROVE  Inv'
  <2>1. PqInv'
    BY <1>0, <1>6 DEF pqvars, PqInv, Resting, HeapOrder, Distinct
  <2> QED  BY <1>0, <1>6, <2>1 DEF Inv, TypeOK, PqInv, pqvars, Sifts
<1>7. CASE Run
  BY <1>0, <1>6, <1>7 DEF Run, TimeIsTop, pqvars
<1>8. CASE Dispatch
  <2>1. top \in Entry /\ top.seq \in 1..MaxEvents
    BY <1>0, <1>8 DEF Dispatch, PqInv, TimeIsTop
  <2>2. time' \in Nat /\ handled' \in Seq(1..MaxEvents) /\ TimeIsTop'
    BY <1>0, <1>8, <2>1 DEF Dispatch, Entry, TimeIsTop, pqvars
  <2> QED  BY <1>0, <1>6, <1>8, <2>2 DEF Dispatch, TypeOK
<1>9. CASE Stop
  BY <1>0, <1>6, <1>9 DEF Stop, TimeIsTop, pqvars, TypeOK
<1>10. CASE Return
  BY <1>0, <1>6, <1>10 DEF Return, TimeIsTop, pqvars, TypeOK
<1>11. CASE End
  BY <1>0, <1>6, <1>11 DEF End, TimeIsTop, pqvars, TypeOK
<1>12. CASE UNCHANGED vars
  BY <1>0, <1>6, <1>12 DEF vars, TimeIsTop, pqvars, TypeOK
<1> QED
  BY <1>2, <1>3, <1>4, <1>5, <1>7, <1>8, <1>9, <1>10, <1>11, <1>12 DEF Next

LEMMA Invariance == Spec => []Inv
  BY InitInv, NextInv, PTL DEF Spec

\* The heap, the clock and the history keep their types (clock.c, pq.c).
THEOREM ClockTyped == Spec => []TypeOK
<1>1. Inv => TypeOK
  BY DEF Inv
<1> QED  BY <1>1, Invariance, PTL

\* Through every push, pop and turn of pq_sift_up and pq_sift_down the only
\* exceptions to the heap's order are at the entry being sifted.
THEOREM HeapStaysOrdered == Spec => []HeapOrder
<1>1. Inv => HeapOrder
  BY DEF Inv, PqInv
<1> QED  BY <1>1, Invariance, PTL

-----------------------------------------------------------------------------
(* The clock is an event queue.                                            *)

Events == {entries[k] : k \in DOMAIN entries}

LEMMA InitRefines == Init => Abstract!Init
  BY DEF Init, PqInit, Abstract!Init

\* Scheduling adds one event, not before the present.
LEMMA ScheduleRefines ==
    ASSUME Inv, NEW t \in Nat, ScheduleAt(t)
    PROVE  Abstract!Next
<1> DEFINE e == [time |-> Target(t), seq |-> counter + 1]
           n == Len(entries) + 1
<1>1. /\ entries \in Seq(Entry) /\ top \in Entry /\ time = top.time /\ time \in Nat
  BY DEF Inv, TypeOK, PqInv, TimeIsTop, ScheduleAt, InCaller
<1>2. e.time >= top.time /\ e \in Entry /\ e.time = Target(t)
  <2>1. counter \in Nat
    BY ClockAssumption DEF Inv, TypeOK
  <2> QED  BY <1>1, <2>1 DEF Target, Entry
<1>3. /\ DOMAIN entries' = 1..n /\ n \in Nat \ {0} /\ DOMAIN entries = 1..(n - 1)
      /\ entries'[n] = e /\ \A k \in 1..(n - 1) : entries'[k] = entries[k]
      /\ top' = top /\ counter' = counter + 1
  BY <1>1, <1>2 DEF ScheduleAt, PqPush
<1>4. e = [time |-> e.time, seq |-> counter + 1]
  OBVIOUS
<1> HIDE DEF e, n
<1>5. Events' = Events \cup {e}
  <2>1. Events' = {entries'[k] : k \in 1..n}
    BY <1>3 DEF Events
  <2>2. Events = {entries'[k] : k \in 1..(n - 1)}
    BY <1>3 DEF Events
  <2>3. 1..n = 1..(n - 1) \cup {n}
    BY <1>3, <1>1
  <2> QED  BY <1>3, <2>1, <2>2, <2>3
<1>6. Abstract!Add(e.time)
  BY <1>2, <1>3, <1>4, <1>5 DEF Abstract!Add, Events
<1>7. e \in {entries[i] : i \in DOMAIN entries}'
  BY <1>5 DEF Events
<1> QED  BY <1>6, <1>7 DEF Abstract!Next, Abstract!Add

\* A pop takes the event before all the others: the root of the heap.
LEMMA PopRefines ==
    ASSUME Inv, Pop
    PROVE  Abstract!Next
<1> DEFINE n == Len(entries)
           e == entries[1]
<1>1. /\ entries \in Seq(Entry) /\ n \in Nat \ {0} /\ DOMAIN entries = 1..n
      /\ e \in Entry /\ e \in Events /\ sift = AtRest /\ sift \in Sifts
  BY DEF Inv, PqInv, Pop, PqPop, Resting, Events
<1>2. RestOrder(entries)
  BY <1>1, HeapIsOrdered, OrderedParts DEF Inv, PqInv
<1>3. \A j, k \in 1..n : entries[j].seq = entries[k].seq => j = k
  BY <1>1 DEF Inv, PqInv, Distinct
<1>4. ASSUME NEW k \in 2..n  PROVE Less(e, entries[k]) /\ entries[k] # e
  <2>1. ~Less(entries[k], e)
    BY <1>1, <1>2, RootIsLeast
  <2>2. entries[k] \in Entry /\ entries[k].seq # e.seq
    BY <1>1, <1>3
  <2> QED  BY <1>1, <2>1, <2>2, LessIsOrder
<1>5. top' = e /\ counter' = counter
  BY DEF Pop, PqPop
<1>6. Events' = {entries[k] : k \in 2..n}
  <2>1. CASE n = 1
    <3>1. entries' = <<>>
      BY <2>1 DEF Pop, PqPop
    <3> QED  BY <2>1, <3>1 DEF Events
  <2>2. CASE n > 1
    <3>1. /\ DOMAIN entries' = 1..(n - 1)
          /\ entries'[1] = entries[n] /\ \A k \in 2..(n - 1) : entries'[k] = entries[k]
      BY <1>1, <2>2 DEF Pop, PqPop
    <3>2. Events' \subseteq {entries[k] : k \in 2..n}
      BY <1>1, <2>2, <3>1 DEF Events
    <3>3. {entries[k] : k \in 2..n} \subseteq Events'
      <4>1. ASSUME NEW k \in 2..n  PROVE entries[k] \in Events'
        BY <1>1, <2>2, <3>1 DEF Events
      <4> QED  BY <4>1
    <3> QED  BY <3>2, <3>3
  <2> QED  BY <1>1, <2>1, <2>2
<1>7. Events' = Events \ {e}
  <2>1. Events = {e} \cup {entries[k] : k \in 2..n}
    BY <1>1 DEF Events
  <2> QED  BY <1>4, <1>6, <2>1
<1>8. \A f \in Events \ {e} : Less(e, f)
  BY <1>4, <1>6, <1>7
<1>9. Abstract!Take(e)
  BY <1>5, <1>7, <1>8 DEF Abstract!Take, Abstract!Before, Events, Less
<1>10. e \in {entries[i] : i \in DOMAIN entries}
  BY <1>1 DEF Events
<1> HIDE DEF e
<1> QED  BY <1>9, <1>10 DEF Abstract!Next, Abstract!Take

\* A turn of a sifting loop changes the order of the entries, not their set.
LEMMA SiftRefines ==
    ASSUME Inv, Sift
    PROVE  UNCHANGED Abstract!vars
<1> DEFINE i == sift.at
<1>1. /\ entries \in Seq(Entry) /\ i \in DOMAIN entries /\ counter' = counter /\ top' = top
  BY DEF Inv, PqInv, Sift, SiftUp, SiftDown, Resting, AtRest
<1>2. ASSUME NEW k \in DOMAIN entries, k # i, entries' = Swap(entries, i, k)
      PROVE  Events' = Events
  <2> DEFINE s == Swap(entries, i, k)
  <2>1. /\ DOMAIN s = DOMAIN entries /\ s[k] = entries[i] /\ s[i] = entries[k]
        /\ \A j \in DOMAIN entries \ {i, k} : s[j] = entries[j]
    <3> HIDE DEF i
    <3> QED  BY <1>1, <1>2, SwapFacts
  <2> HIDE DEF s, i
  <2>2. {s[j] : j \in DOMAIN s} = Events
    BY <1>1, <1>2, <2>1 DEF Events
  <2> QED  BY <1>2, <2>2 DEF Events, s
<1>3. entries' = entries \/ \E k \in DOMAIN entries : k # i /\ entries' = Swap(entries, i, k)
  <2>1. CASE SiftUp
    <3>1. i > 1 => i \div 2 \in DOMAIN entries
      BY <1>1, Parent
    <3> QED  BY <1>1, <2>1, <3>1 DEF SiftUp, Move, UpFrom
  <2>2. CASE SiftDown
    <3>1. DownFrom(i) # i => DownFrom(i) \in DOMAIN entries
      BY <1>1, LeastChild
    <3> QED  BY <2>2, <3>1 DEF SiftDown, Move
  <2> QED  BY <2>1, <2>2 DEF Sift
<1>4. Events' = Events
  BY <1>2, <1>3 DEF Events
<1> QED  BY <1>1, <1>4 DEF Abstract!vars, Events

LEMMA NextRefines == Inv /\ [Next]_vars => [Abstract!Next]_Abstract!vars
<1> SUFFICES ASSUME Inv, [Next]_vars  PROVE [Abstract!Next]_Abstract!vars
  OBVIOUS
<1>1. CASE Schedule
  BY <1>1, ScheduleRefines, ClockAssumption DEF Schedule
<1>2. CASE ScheduleDelay
  <2>1. PICK d \in Delays : ScheduleAt(After(d))
    BY <1>2 DEF ScheduleDelay
  <2>2. After(d) \in Nat
    BY ClockAssumption DEF After, Inv, TypeOK
  <2> QED  BY <2>1, <2>2, ScheduleRefines
<1>3. CASE Pop
  BY <1>3, PopRefines
<1>4. CASE Sift
  BY <1>4, SiftRefines
<1>5. ASSUME UNCHANGED <<pqvars, counter>>
      PROVE  UNCHANGED Abstract!vars
  BY <1>5 DEF pqvars, Abstract!vars
<1>6. CASE Run \/ Dispatch \/ Stop \/ Return \/ End \/ UNCHANGED vars
  BY <1>5, <1>6 DEF Run, Dispatch, Stop, Return, End, vars, pqvars
<1> QED  BY <1>1, <1>2, <1>3, <1>4, <1>6 DEF Next

\* The loop of clock_run over the heap of pq.c is an event queue: whatever is
\* scheduled, each event is taken once, the least first.
THEOREM ClockIsEventQueue == Spec => IsEventQueue
  BY Invariance, InitRefines, NextRefines, PTL DEF Spec, IsEventQueue, Abstract!Spec
=============================================================================

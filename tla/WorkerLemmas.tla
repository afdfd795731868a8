---------------------------- MODULE WorkerLemmas ----------------------------
(***************************************************************************)
(* What the operators of WorkerOps do to the invariant WorkerOK, for every *)
(* value of the constants, and how a loop is reasoned about.  The proofs   *)
(* about each client of a worker cite these lemmas, one per step.          *)
(***************************************************************************)
EXTENDS WorkerOps, FiniteSetTheorems, SequenceTheorems, TLAPS

-----------------------------------------------------------------------------
(* Sequences without repetitions.                                          *)

\* dynarray_remove of the first item removes that item and no other.
LEMMA TakeFirstRemovesHead ==
    ASSUME NEW S, NEW s \in Seq(S), s # <<>>, NoRepeats(s)
    PROVE  /\ TakeFirst(s) \in Seq(S)
           /\ s[1] \in S
           /\ s[1] \in Elements(s)
           /\ NoRepeats(TakeFirst(s))
           /\ Elements(TakeFirst(s)) = Elements(s) \ {s[1]}
<1> DEFINE n == Len(s)
           t == TakeFirst(s)
<1>1. n \in Nat \ {0} /\ \A i \in 1..n : s[i] \in S
  BY EmptySeq, ElementOfSeq
<1>2. t \in Seq(S) /\ Len(t) = n - 1
  <2>1. t \in [1..(n - 1) -> S] /\ n - 1 \in Nat
    BY <1>1 DEF TakeFirst
  <2> QED  BY <2>1
<1>3. \A i \in 1..(n - 1) : t[i] = IF i = 1 THEN s[n] ELSE s[i]
  BY <1>1 DEF TakeFirst
<1>4. NoRepeats(t)
  BY <1>1, <1>2, <1>3 DEF NoRepeats
<1>5. Elements(t) \subseteq Elements(s) \ {s[1]}
  BY <1>1, <1>2, <1>3 DEF NoRepeats, Elements
<1>6. ASSUME NEW x \in Elements(s), x # s[1]
      PROVE  x \in Elements(t)
  <2>1. PICK i \in 1..n : x = s[i]
    BY DEF Elements
  <2>2. CASE i = n
    <3>1. 1 \in 1..(n - 1) /\ t[1] = x
      BY <1>1, <1>3, <2>1, <2>2, <1>6
    <3> QED  BY <3>1, <1>2 DEF Elements
  <2>3. CASE i # n
    <3>1. i \in 1..(n - 1) /\ t[i] = x
      BY <1>1, <1>3, <2>1, <2>3, <1>6
    <3> QED  BY <3>1, <1>2 DEF Elements
  <2> QED  BY <2>2, <2>3
<1>7. s[1] \in Elements(s) /\ s[1] \in S
  BY <1>1 DEF Elements
<1>8. Elements(t) = Elements(s) \ {s[1]}
  BY <1>5, <1>6
<1> QED  BY <1>2, <1>4, <1>7, <1>8

\* Appending a new element.
LEMMA AppendAddsElement ==
    ASSUME NEW S, NEW s \in Seq(S), NEW x \in S
    PROVE  /\ Append(s, x) \in Seq(S)
           /\ Append(s, x) # <<>>
           /\ Len(Append(s, x)) = Len(s) + 1
           /\ Elements(Append(s, x)) = Elements(s) \cup {x}
           /\ NoRepeats(s) /\ x \notin Elements(s) => NoRepeats(Append(s, x))
<1> DEFINE t == Append(s, x)
<1>1. /\ Len(s) \in Nat /\ t \in Seq(S) /\ Len(t) = Len(s) + 1
      /\ \A i \in 1..Len(s) : t[i] = s[i]
      /\ t[Len(s) + 1] = x
  OBVIOUS
<1>2. Elements(t) = Elements(s) \cup {x}
  BY <1>1 DEF Elements
<1>3. NoRepeats(s) /\ x \notin Elements(s) => NoRepeats(t)
  BY <1>1 DEF Elements, NoRepeats
<1>4. t # <<>>
  BY <1>1, EmptySeq
<1> QED  BY <1>1, <1>2, <1>3, <1>4

\* Popping the head of a sequence without repetitions.
LEMMA TailRemovesHead ==
    ASSUME NEW S, NEW s \in Seq(S), s # <<>>, NoRepeats(s)
    PROVE  /\ Head(s) \in S /\ Tail(s) \in Seq(S)
           /\ Head(s) \in Elements(s)
           /\ Len(s) \in Nat /\ Len(Tail(s)) = Len(s) - 1
           /\ NoRepeats(Tail(s))
           /\ Elements(Tail(s)) = Elements(s) \ {Head(s)}
<1> DEFINE n == Len(s)
<1>1. /\ n \in Nat \ {0} /\ Head(s) = s[1] /\ Head(s) \in S
      /\ Tail(s) \in Seq(S) /\ Len(Tail(s)) = n - 1
      /\ \A i \in 1..(n - 1) : Tail(s)[i] = s[i + 1]
  BY EmptySeq, HeadTailProperties
<1>2. NoRepeats(Tail(s))
  BY <1>1 DEF NoRepeats
<1>3. Elements(Tail(s)) \subseteq Elements(s) \ {Head(s)}
  BY <1>1 DEF NoRepeats, Elements
<1>4. ASSUME NEW y \in Elements(s), y # Head(s)
      PROVE  y \in Elements(Tail(s))
  <2>1. PICK i \in 1..n : y = s[i]
    BY DEF Elements
  <2>2. i - 1 \in 1..(n - 1) /\ Tail(s)[i - 1] = y
    BY <1>1, <1>4, <2>1
  <2> QED  BY <2>2, <1>1 DEF Elements
<1>5. Head(s) \in Elements(s)
  BY <1>1 DEF Elements
<1> QED  BY <1>1, <1>2, <1>3, <1>4, <1>5

-----------------------------------------------------------------------------
(* Memory.                                                                 *)

\* A job that takes m units when it held none adds m to the total.
LEMMA HeldUnitsReserve ==
    ASSUME NEW w, NEW v, w.ongoing \in [Jobs -> Nat],
           NEW j \in Jobs, NEW m \in Nat, w.ongoing[j] = 0,
           v.ongoing = [w.ongoing EXCEPT ![j] = m],
           IsFiniteSet(HeldUnits(w))
    PROVE  /\ IsFiniteSet(HeldUnits(v))
           /\ Cardinality(HeldUnits(v)) = Cardinality(HeldUnits(w)) + m
<1> DEFINE new == {j} \X (1..m)
<1>1. HeldUnits(v) = HeldUnits(w) \cup new /\ HeldUnits(w) \cap new = {}
  <2>1. \A k \in Jobs : v.ongoing[k] = IF k = j THEN m ELSE w.ongoing[k]
    OBVIOUS
  <2>2. 1..w.ongoing[j] = {}
    OBVIOUS
  <2>3. \A k, u : <<k, u>> \in HeldUnits(w) <=> k \in Jobs /\ u \in 1..w.ongoing[k]
    BY DEF HeldUnits
  <2>4. \A k, u : <<k, u>> \in HeldUnits(v) <=> k \in Jobs /\ u \in 1..v.ongoing[k]
    BY DEF HeldUnits
  <2>5. \A p \in HeldUnits(w) \cup HeldUnits(v) \cup new : p = <<p[1], p[2]>>
    BY DEF HeldUnits
  <2> QED  BY <2>1, <2>2, <2>3, <2>4, <2>5
<1>2. IsFiniteSet(new) /\ Cardinality(new) = m
  <2>1. IsFiniteSet(1..m) /\ Cardinality(1..m) = m
    BY FS_Interval
  <2>2. IsFiniteSet({j}) /\ Cardinality({j}) = 1
    BY FS_Singleton
  <2> QED  BY <2>1, <2>2, FS_Product
<1>3. Cardinality(HeldUnits(w)) \in Nat
  BY FS_CardinalityType
<1>4. /\ IsFiniteSet(HeldUnits(w) \cup new)
      /\ Cardinality(HeldUnits(w) \cup new)
           = Cardinality(HeldUnits(w)) + Cardinality(new) - Cardinality(HeldUnits(w) \cap new)
  BY <1>2, FS_Union
<1> QED  BY <1>1, <1>2, <1>3, <1>4, FS_EmptySet

\* A job that returns its units takes exactly those off the total.
LEMMA HeldUnitsRelease ==
    ASSUME NEW w, NEW v, w.ongoing \in [Jobs -> Nat],
           NEW j \in Jobs,
           v.ongoing = [w.ongoing EXCEPT ![j] = 0],
           IsFiniteSet(HeldUnits(w))
    PROVE  /\ IsFiniteSet(HeldUnits(v))
           /\ Cardinality(HeldUnits(w)) = Cardinality(HeldUnits(v)) + w.ongoing[j]
<1>1. IsFiniteSet(HeldUnits(v))
  <2>1. HeldUnits(v) \subseteq HeldUnits(w)
    <3>1. \A k \in Jobs : v.ongoing[k] = IF k = j THEN 0 ELSE w.ongoing[k]
      OBVIOUS
    <3> QED  BY <3>1 DEF HeldUnits
  <2> QED  BY <2>1, FS_Subset
<1>2. v.ongoing \in [Jobs -> Nat] /\ v.ongoing[j] = 0
  OBVIOUS
<1>3. w.ongoing = [v.ongoing EXCEPT ![j] = w.ongoing[j]] /\ w.ongoing[j] \in Nat
  OBVIOUS
<1> QED  BY <1>1, <1>2, <1>3, HeldUnitsReserve

\* The memory half of the invariant, as the induction needs it: that the
\* units held are finitely many is what makes their cardinality count.
RamInv(w) == RamAccounting(w) /\ IsFiniteSet(HeldUnits(w))

\* Taking no more than what is available.
LEMMA RamAfterReserve ==
    ASSUME NEW w \in WorkerState, NEW v \in WorkerState, RamInv(w),
           NEW j \in Jobs, j \notin Outstanding(w),
           NEW m \in Nat, m <= RamAvailable(w),
           v.ongoing = [w.ongoing EXCEPT ![j] = m],
           v.utilized = w.utilized + m,
           Outstanding(v) = Outstanding(w) \cup {j}
    PROVE  RamInv(v)
<1>1. w.ongoing \in [Jobs -> Nat] /\ w.utilized \in Int
  BY DEF WorkerState
<1>2. w.ongoing[j] = 0
  BY DEF RamInv, RamAccounting
<1>3. /\ IsFiniteSet(HeldUnits(v))
      /\ Cardinality(HeldUnits(v)) = Cardinality(HeldUnits(w)) + m
  BY <1>1, <1>2, HeldUnitsReserve DEF RamInv
<1>4. v.utilized = Cardinality(HeldUnits(v))
  BY <1>3 DEF RamInv, RamAccounting
<1>5. v.utilized <= RamCapacity
  BY <1>1, WorkerAssumption DEF RamAvailable
<1>6. \A k \in Jobs : v.ongoing[k] # 0 => k \in Outstanding(v)
  BY <1>1 DEF RamInv, RamAccounting
<1> QED  BY <1>3, <1>4, <1>5, <1>6 DEF RamInv, RamAccounting

\* Returning exactly what was taken.
LEMMA RamAfterRelease ==
    ASSUME NEW w \in WorkerState, NEW v \in WorkerState, RamInv(w),
           NEW j \in Jobs,
           v.ongoing = [w.ongoing EXCEPT ![j] = 0],
           v.utilized = w.utilized - w.ongoing[j],
           Outstanding(w) \ {j} \subseteq Outstanding(v)
    PROVE  RamInv(v)
<1>1. /\ w.ongoing \in [Jobs -> Nat] /\ w.ongoing[j] \in Nat
      /\ w.utilized \in Int
  BY DEF WorkerState
<1>2. /\ IsFiniteSet(HeldUnits(v))
      /\ Cardinality(HeldUnits(w)) = Cardinality(HeldUnits(v)) + w.ongoing[j]
  BY <1>1, HeldUnitsRelease DEF RamInv
<1>3. Cardinality(HeldUnits(v)) \in Nat
  BY <1>2, FS_CardinalityType
<1>4. v.utilized = Cardinality(HeldUnits(v)) /\ v.utilized <= RamCapacity
  BY <1>1, <1>2, <1>3, WorkerAssumption DEF RamInv, RamAccounting
<1>5. \A k \in Jobs : v.ongoing[k] # 0 => k \in Outstanding(v)
  BY <1>1 DEF RamInv, RamAccounting
<1> QED  BY <1>2, <1>4, <1>5 DEF RamInv, RamAccounting

\* Not touching the memory.
LEMMA RamUntouched ==
    ASSUME NEW w, NEW v, RamInv(w),
           v.ongoing = w.ongoing, v.utilized = w.utilized,
           Outstanding(w) \subseteq Outstanding(v)
    PROVE  RamInv(v)
BY DEF RamInv, RamAccounting, HeldUnits

-----------------------------------------------------------------------------
(* The pool.                                                               *)

SameMemory(v, w) == v.ongoing = w.ongoing /\ v.utilized = w.utilized
SameQueue(v, w)  == /\ v.queue_length = w.queue_length
                    /\ v.spinning_down = w.spinning_down

\* The first available CPU becomes busy with j, and nothing else changes.
LEMMA CpuReserveEffect ==
    ASSUME NEW w \in WorkerState, AvailableIsIdle(w), w.available # <<>>,
           NEW j \in Jobs
    PROVE  LET v == CpuReserve(w, j) IN
           /\ v \in WorkerState
           /\ AvailableIsIdle(v)
           /\ w.available[1] \in Cpus \ Busy(w)
           /\ Busy(v) = Busy(w) \cup {w.available[1]}
           /\ v.task = [w.task EXCEPT ![w.available[1]] = j]
           /\ Running(v) = Running(w) \cup {j}
           /\ SameQueue(v, w) /\ SameMemory(v, w) /\ v.io = w.io
           /\ v.wait_queue = w.wait_queue
<1> DEFINE v == CpuReserve(w, j)
           c == w.available[1]
<1>1. w.available \in Seq(Cpus) /\ w.task \in [Cpus -> Jobs \cup {NoJob}]
  BY DEF WorkerState
<1>2. /\ TakeFirst(w.available) \in Seq(Cpus)
      /\ c \in Cpus /\ c \in Elements(w.available)
      /\ NoRepeats(TakeFirst(w.available))
      /\ Elements(TakeFirst(w.available)) = Elements(w.available) \ {c}
  BY <1>1, TakeFirstRemovesHead DEF AvailableIsIdle
<1>3. /\ v.task = [w.task EXCEPT ![c] = j]
      /\ v.available = TakeFirst(w.available)
      /\ SameQueue(v, w) /\ SameMemory(v, w) /\ v.io = w.io
      /\ v.wait_queue = w.wait_queue
  BY DEF CpuReserve, WorkerState, SameQueue, SameMemory
<1>4. v \in WorkerState
  BY <1>1, <1>2 DEF CpuReserve, WorkerState
<1> HIDE DEF v
<1>5. c \in Cpus \ Busy(w)
  BY <1>2 DEF AvailableIsIdle
<1>6. j # NoJob
  BY WorkerAssumption
<1>7. Busy(v) = Busy(w) \cup {c}
  BY <1>1, <1>2, <1>3, <1>6 DEF Busy
<1>8. Running(v) = Running(w) \cup {j}
  BY <1>1, <1>3, <1>5, <1>7 DEF Running, Busy
<1>9. AvailableIsIdle(v)
  BY <1>2, <1>3, <1>7 DEF AvailableIsIdle
<1> QED  BY <1>3, <1>4, <1>5, <1>7, <1>8, <1>9 DEF v

-----------------------------------------------------------------------------
(* The API calls and the event handlers keep the invariant.                *)

\* WorkerOK is inductive once the held units are known to be finitely many.
WorkerInv(w) == WorkerOK(w) /\ IsFiniteSet(HeldUnits(w))

\* Busy CPUs are finitely many.
LEMMA BusyFinite ==
    ASSUME NEW w
    PROVE  IsFiniteSet(Busy(w)) /\ Cardinality(Busy(w)) \in Nat
<1>1. Busy(w) \subseteq Cpus
  BY DEF Busy
<1> QED  BY <1>1, FS_Subset, FS_CardinalityType, WorkerAssumption

\* A count of two parts that is below a limit may grow by one.
LEMMA OneMoreFits ==
    ASSUME NEW n \in Int, NEW a \in Nat, NEW b \in Nat, NEW k \in Nat,
           n = a + b, n < k
    PROVE  n + 1 = (a + 1) + b /\ n + 1 <= k
OBVIOUS

\* Admission takes the memory and the place in the queue.
LEMMA AdmitEffect ==
    ASSUME NEW w \in WorkerState, NEW j \in Jobs, NEW m \in Nat
    PROVE  LET a == Admit(w, j, m) IN
           /\ a \in WorkerState
           /\ a.ongoing = [w.ongoing EXCEPT ![j] = m]
           /\ a.utilized = w.utilized + m
           /\ a.queue_length = w.queue_length + 1
           /\ a.available = w.available /\ a.task = w.task
           /\ a.wait_queue = w.wait_queue /\ a.io = w.io
           /\ a.spinning_down = w.spinning_down
           /\ Busy(a) = Busy(w) /\ Running(a) = Running(w)
<1> DEFINE a == Admit(w, j, m)
           r == RamReserve(w, j, m)
           u == w.utilized + m
           f == [w.ongoing EXCEPT ![j] = m]
<1>1. /\ u \in Int /\ f \in [Jobs -> Nat]
      /\ r = [w EXCEPT !.utilized = u, !.ongoing = f]
  BY DEF RamReserve, WorkerState
<1> HIDE DEF r, u, f
<1>2. /\ r \in WorkerState /\ r.ongoing = f /\ r.utilized = u
      /\ r.queue_length = w.queue_length
      /\ r.available = w.available /\ r.task = w.task
      /\ r.wait_queue = w.wait_queue /\ r.io = w.io
      /\ r.spinning_down = w.spinning_down
  BY <1>1 DEF WorkerState
<1> DEFINE q == r.queue_length + 1
<1>3. q \in Int /\ a = [r EXCEPT !.queue_length = q]
  BY <1>2 DEF r, Admit, WorkerState
<1> HIDE DEF q, a
<1>4. /\ a \in WorkerState /\ a.queue_length = q
      /\ a.ongoing = r.ongoing /\ a.utilized = r.utilized
      /\ a.available = r.available /\ a.task = r.task
      /\ a.wait_queue = r.wait_queue /\ a.io = r.io
      /\ a.spinning_down = r.spinning_down
  BY <1>2, <1>3 DEF WorkerState
<1>5. Busy(a) = Busy(w) /\ Running(a) = Running(w)
  BY <1>2, <1>4 DEF Busy, Running
<1> QED  BY <1>2, <1>4, <1>5 DEF u, f, q, a

\* The end of a compute job returns both.
LEMMA ComputeDoneEffect ==
    ASSUME NEW w \in WorkerState, NEW j \in Jobs
    PROVE  LET a == ComputeDone(w, j) IN
           /\ a \in WorkerState
           /\ a.ongoing = [w.ongoing EXCEPT ![j] = 0]
           /\ a.utilized = w.utilized - w.ongoing[j]
           /\ a.queue_length = w.queue_length - 1
           /\ a.available = w.available /\ a.task = w.task
           /\ a.wait_queue = w.wait_queue /\ a.io = w.io
           /\ a.spinning_down = w.spinning_down
           /\ Busy(a) = Busy(w) /\ Running(a) = Running(w)
<1> DEFINE a == ComputeDone(w, j)
           r == RamRelease(w, j)
           u == w.utilized - w.ongoing[j]
           f == [w.ongoing EXCEPT ![j] = 0]
<1>1. /\ u \in Int /\ f \in [Jobs -> Nat]
      /\ r = [w EXCEPT !.utilized = u, !.ongoing = f]
  BY DEF RamRelease, WorkerState
<1> HIDE DEF r, u, f
<1>2. /\ r \in WorkerState /\ r.ongoing = f /\ r.utilized = u
      /\ r.queue_length = w.queue_length
      /\ r.available = w.available /\ r.task = w.task
      /\ r.wait_queue = w.wait_queue /\ r.io = w.io
      /\ r.spinning_down = w.spinning_down
  BY <1>1 DEF WorkerState
<1> DEFINE q == r.queue_length - 1
<1>3. q \in Int /\ a = [r EXCEPT !.queue_length = q]
  BY <1>2 DEF r, ComputeDone, WorkerState
<1> HIDE DEF q, a
<1>4. /\ a \in WorkerState /\ a.queue_length = q
      /\ a.ongoing = r.ongoing /\ a.utilized = r.utilized
      /\ a.available = r.available /\ a.task = r.task
      /\ a.wait_queue = r.wait_queue /\ a.io = r.io
      /\ a.spinning_down = r.spinning_down
  BY <1>2, <1>3 DEF WorkerState
<1>5. Busy(a) = Busy(w) /\ Running(a) = Running(w)
  BY <1>2, <1>4 DEF Busy, Running
<1> QED  BY <1>2, <1>4, <1>5 DEF u, f, q, a

\* An admitted job that finds a CPU runs.
LEMMA ComputeRuns ==
    ASSUME NEW w, WorkerInv(w), NEW j \in Jobs, j \notin Outstanding(w),
           NEW m \in Nat, ComputeAdmitted(w, m), w.available # <<>>,
           NEW v, v = CpuReserve(Admit(w, j, m), j)
    PROVE  /\ WorkerInv(v)
           /\ Running(v) = Running(w) \cup {j}
           /\ v.wait_queue = w.wait_queue /\ v.io = w.io
           /\ v.spinning_down = w.spinning_down
<1> DEFINE a == Admit(w, j, m)
           c == w.available[1]
<1>1. w \in WorkerState /\ w.wait_queue = <<>>
  BY DEF WorkerInv, WorkerOK, WorkConserving
<1>2. /\ a \in WorkerState
      /\ a.ongoing = [w.ongoing EXCEPT ![j] = m]
      /\ a.utilized = w.utilized + m
      /\ a.queue_length = w.queue_length + 1
      /\ a.available = w.available /\ a.task = w.task
      /\ a.wait_queue = w.wait_queue /\ a.io = w.io
      /\ a.spinning_down = w.spinning_down
      /\ Busy(a) = Busy(w) /\ Running(a) = Running(w)
  BY <1>1, AdmitEffect
<1>3. AvailableIsIdle(a)
  BY <1>2 DEF AvailableIsIdle, WorkerInv, WorkerOK
<1> HIDE DEF a
<1>4. v = CpuReserve(a, j)
  BY DEF a
<1>5. /\ v \in WorkerState /\ AvailableIsIdle(v)
      /\ c \in Cpus \ Busy(w) /\ Busy(v) = Busy(w) \cup {c}
      /\ v.task = [w.task EXCEPT ![c] = j]
      /\ Running(v) = Running(w) \cup {j}
      /\ SameQueue(v, a) /\ SameMemory(v, a) /\ v.io = w.io
      /\ v.wait_queue = w.wait_queue
  BY <1>2, <1>3, <1>4, CpuReserveEffect
<1>6. WorkConserving(v)
  BY <1>1, <1>5 DEF WorkConserving
<1>7. EachJobOnce(v)
  <2>1. EachJobOnce(w) /\ w.task \in [Cpus -> Jobs \cup {NoJob}]
    BY <1>1 DEF WorkerInv, WorkerOK, WorkerState
  <2>2. \A d \in Busy(w) : v.task[d] = w.task[d] /\ w.task[d] # j
    BY <1>5, <2>1 DEF Outstanding, Running, Busy
  <2>3. v.task[c] = j
    BY <1>5, <2>1
  <2>4. \A d, e \in Busy(v) : v.task[d] = v.task[e] => d = e
    BY <1>5, <2>1, <2>2, <2>3 DEF EachJobOnce
  <2>5. Waiting(v) = Waiting(w)
    BY <1>5 DEF Waiting
  <2> QED  BY <1>5, <2>1, <2>4, <2>5 DEF EachJobOnce, Outstanding
<1>8. QueueAccounting(v)
  <2>1. Cardinality(Busy(v)) = Cardinality(Busy(w)) + 1
    BY <1>5, BusyFinite, FS_AddElement
  <2>2. w.queue_length \in Int /\ Len(w.wait_queue) \in Nat
    BY <1>1 DEF WorkerState
  <2> QED  BY <1>2, <1>5, <2>1, <2>2, BusyFinite, WorkerAssumption
           DEF QueueAccounting, WorkerInv, WorkerOK, SameQueue, ComputeAdmitted
<1>9. RamInv(v)
  <2>1. Outstanding(v) = Outstanding(w) \cup {j}
    BY <1>5 DEF Outstanding, Waiting
  <2> QED  BY <1>1, <1>2, <1>5, <2>1, RamAfterReserve
           DEF WorkerInv, WorkerOK, RamInv, SameMemory, ComputeAdmitted
<1> QED  BY <1>2, <1>5, <1>6, <1>7, <1>8, <1>9
         DEF WorkerInv, WorkerOK, RamInv, SameQueue

\* An admitted job that finds no CPU waits, and the queue has room for it.
LEMMA ComputeWaits ==
    ASSUME NEW w, WorkerInv(w), NEW j \in Jobs, j \notin Outstanding(w),
           NEW m \in Nat, ComputeAdmitted(w, m), w.available = <<>>,
           NEW v, v = Enqueue(Admit(w, j, m), j)
    PROVE  /\ WorkerInv(v)
           /\ Running(v) = Running(w)
           /\ v.wait_queue = Append(w.wait_queue, j) /\ v.io = w.io
           /\ v.spinning_down = w.spinning_down
<1> DEFINE a == Admit(w, j, m)
<1>1. w \in WorkerState
  BY DEF WorkerInv, WorkerOK
<1>2. /\ a \in WorkerState
      /\ a.ongoing = [w.ongoing EXCEPT ![j] = m]
      /\ a.utilized = w.utilized + m
      /\ a.queue_length = w.queue_length + 1
      /\ a.available = w.available /\ a.task = w.task
      /\ a.wait_queue = w.wait_queue /\ a.io = w.io
      /\ a.spinning_down = w.spinning_down
      /\ Busy(a) = Busy(w) /\ Running(a) = Running(w)
  BY <1>1, AdmitEffect
<1>0. v = [a EXCEPT !.wait_queue = Append(@, j)]
  BY DEF Enqueue
<1> HIDE DEF a
<1> DEFINE q == Append(w.wait_queue, j)
<1>3. w.wait_queue \in Seq(Jobs) /\ NoRepeats(w.wait_queue) /\ j \notin Elements(w.wait_queue)
  BY <1>1 DEF WorkerState, WorkerInv, WorkerOK, EachJobOnce, Outstanding, Waiting
<1>4. /\ q \in Seq(Jobs) /\ Len(q) = Len(w.wait_queue) + 1
      /\ Elements(q) = Elements(w.wait_queue) \cup {j} /\ NoRepeats(q)
  BY <1>3, AppendAddsElement
<1> HIDE DEF q
<1>5. /\ v \in WorkerState /\ v.wait_queue = q
      /\ v.ongoing = a.ongoing /\ v.utilized = a.utilized
      /\ v.available = a.available /\ v.task = a.task /\ v.io = a.io
      /\ v.spinning_down = a.spinning_down /\ v.queue_length = a.queue_length
  <2>1. v = [a EXCEPT !.wait_queue = q]
    BY <1>0, <1>2 DEF q
  <2> QED  BY <1>2, <1>4, <2>1 DEF WorkerState
<1>6. Busy(v) = Busy(w) /\ Running(v) = Running(w) /\ Waiting(v) = Waiting(w) \cup {j}
  <2>1. Busy(v) = Busy(w)
    BY <1>2, <1>5 DEF Busy
  <2>2. Running(v) = Running(w)
    BY <1>2, <1>5, <2>1 DEF Running
  <2> QED  BY <1>4, <1>5, <2>1, <2>2 DEF Waiting
<1>7. AvailableIsIdle(v) /\ WorkConserving(v)
  BY <1>2, <1>5, <1>6 DEF WorkerInv, WorkerOK, AvailableIsIdle, WorkConserving
<1>8. EachJobOnce(v)
  <2>1. EachJobOnce(w) /\ j \notin Running(w) \cup Waiting(w) \cup w.io
    BY DEF WorkerInv, WorkerOK, Outstanding
  <2>2. v.task = w.task /\ v.io = w.io /\ NoRepeats(v.wait_queue)
    BY <1>2, <1>4, <1>5
  <2> QED  BY <1>6, <2>1, <2>2 DEF EachJobOnce
<1>9. QueueAccounting(v)
  <2>1. w.queue_length \in Int /\ Len(w.wait_queue) \in Nat
    BY <1>1 DEF WorkerState
  <2>2. /\ w.queue_length = Len(w.wait_queue) + Cardinality(Busy(w))
        /\ w.queue_length < QueueLimit
    BY DEF QueueAccounting, WorkerInv, WorkerOK, ComputeAdmitted
  <2>3. v.queue_length = w.queue_length + 1 /\ Len(v.wait_queue) = Len(w.wait_queue) + 1
    BY <1>2, <1>4, <1>5
  <2>4. Cardinality(Busy(w)) \in Nat /\ Busy(v) = Busy(w)
    BY <1>6, BusyFinite
  <2>5. QueueLimit \in Nat
    BY WorkerAssumption
  <2>6. /\ w.queue_length + 1 = (Len(w.wait_queue) + 1) + Cardinality(Busy(w))
        /\ w.queue_length + 1 <= QueueLimit
    BY <2>1, <2>2, <2>4, <2>5, OneMoreFits
  <2> QED  BY <2>3, <2>4, <2>6 DEF QueueAccounting
<1>10. RamInv(v)
  <2>1. Outstanding(v) = Outstanding(w) \cup {j}
    BY <1>2, <1>5, <1>6 DEF Outstanding
  <2>2. m <= RamAvailable(w) /\ RamInv(w)
    BY DEF ComputeAdmitted, WorkerInv, WorkerOK, RamInv
  <2>3. v.ongoing = [w.ongoing EXCEPT ![j] = m] /\ v.utilized = w.utilized + m
    BY <1>2, <1>5
  <2> QED  BY <1>1, <1>5, <2>1, <2>2, <2>3, RamAfterReserve
<1> QED  BY <1>2, <1>5, <1>6, <1>7, <1>8, <1>9, <1>10
         DEF WorkerInv, WorkerOK, RamInv, q

\* A worker record is the record of its fields.
LEMMA RecordOfFields ==
    ASSUME NEW w \in WorkerState
    PROVE  w = [ available |-> w.available, task |-> w.task,
                 wait_queue |-> w.wait_queue, spinning_down |-> w.spinning_down,
                 utilized |-> w.utilized, ongoing |-> w.ongoing,
                 queue_length |-> w.queue_length, io |-> w.io ]
BY DEF WorkerState

\* Admitting a job and ending it at once leaves no trace.
LEMMA RefusalUndone ==
    ASSUME NEW w, WorkerInv(w), NEW j \in Jobs, j \notin Outstanding(w),
           NEW m \in Nat
    PROVE  ComputeDone(Admit(w, j, m), j) = w
<1> DEFINE a == Admit(w, j, m)
           v == ComputeDone(a, j)
<1>1. w \in WorkerState /\ w.ongoing[j] = 0
  BY DEF WorkerInv, WorkerOK, RamAccounting
<1>2. /\ a \in WorkerState
      /\ a.ongoing = [w.ongoing EXCEPT ![j] = m]
      /\ a.utilized = w.utilized + m
      /\ a.queue_length = w.queue_length + 1
      /\ a.available = w.available /\ a.task = w.task
      /\ a.wait_queue = w.wait_queue /\ a.io = w.io
      /\ a.spinning_down = w.spinning_down
  BY <1>1, AdmitEffect
<1> HIDE DEF a
<1>3. /\ v \in WorkerState
      /\ v.ongoing = [a.ongoing EXCEPT ![j] = 0]
      /\ v.utilized = a.utilized - a.ongoing[j]
      /\ v.queue_length = a.queue_length - 1
      /\ v.available = a.available /\ v.task = a.task
      /\ v.wait_queue = a.wait_queue /\ v.io = a.io
      /\ v.spinning_down = a.spinning_down
  BY <1>2, ComputeDoneEffect
<1> HIDE DEF v
<1>4. /\ w.ongoing \in [Jobs -> Nat] /\ w.utilized \in Int
      /\ w.queue_length \in Int
  BY <1>1 DEF WorkerState
<1>5. v.ongoing = w.ongoing
  BY <1>1, <1>2, <1>3, <1>4
<1>6. v.utilized = w.utilized /\ v.queue_length = w.queue_length
  BY <1>2, <1>3, <1>4
<1>7. v = w
  <2>1. /\ v.available = w.available /\ v.task = w.task
        /\ v.wait_queue = w.wait_queue /\ v.io = w.io
        /\ v.spinning_down = w.spinning_down
    BY <1>2, <1>3
  <2>2. v \in WorkerState
    BY <1>3
  <2> HIDE DEF v
  <2> QED  BY <1>1, <1>5, <1>6, <2>1, <2>2, RecordOfFields
<1> QED  BY <1>7 DEF v, a

\* worker_reserve_compute, its three outcomes together.
LEMMA ReserveComputeKeeps ==
    ASSUME NEW w, WorkerInv(w), NEW j \in Jobs, j \notin Outstanding(w),
           NEW m \in Nat, NEW v, v = ReserveCompute(w, j, m)
    PROVE  /\ WorkerInv(v)
           /\ v.io = w.io /\ v.spinning_down = w.spinning_down
           /\ ComputeRefused(w, m) => v = w
           /\ ~ComputeRefused(w, m) =>
                Running(v) \cup Waiting(v) = Running(w) \cup Waiting(w) \cup {j}
<1> DEFINE a == Admit(w, j, m)
<1>1. w \in WorkerState
  BY DEF WorkerInv, WorkerOK
<1>2. a.available = w.available /\ (PoolRefuses(a) <=> PoolRefuses(w))
  <2>1. a.available = w.available /\ a.wait_queue = w.wait_queue
        /\ a.spinning_down = w.spinning_down
    BY <1>1, AdmitEffect
  <2> QED  BY <2>1 DEF PoolRefuses
<1>3. CASE ComputeRefused(w, m)
  <2>1. v = w
    BY <1>2, <1>3, RefusalUndone DEF ReserveCompute, ComputeRefused
  <2> QED  BY <1>3, <2>1
<1>4. CASE ~ComputeRefused(w, m) /\ w.available # <<>>
  <2>1. v = CpuReserve(a, j)
    BY <1>2, <1>4 DEF ReserveCompute, ComputeRefused, PoolReserve
  <2>2. ComputeAdmitted(w, m)
    BY <1>4 DEF ComputeRefused
  <2>3. /\ WorkerInv(v) /\ Running(v) = Running(w) \cup {j}
        /\ v.wait_queue = w.wait_queue /\ v.io = w.io
        /\ v.spinning_down = w.spinning_down
    BY <1>4, <2>1, <2>2, ComputeRuns
  <2> QED  BY <1>4, <2>3 DEF Waiting
<1>5. CASE ~ComputeRefused(w, m) /\ w.available = <<>>
  <2>1. v = Enqueue(a, j) /\ ComputeAdmitted(w, m)
    BY <1>2, <1>5 DEF ReserveCompute, ComputeRefused, PoolReserve
  <2>2. /\ WorkerInv(v) /\ Running(v) = Running(w)
        /\ v.wait_queue = Append(w.wait_queue, j) /\ v.io = w.io
        /\ v.spinning_down = w.spinning_down
    BY <1>5, <2>1, ComputeWaits
  <2>3. Waiting(v) = Waiting(w) \cup {j}
    BY <1>1, <2>2, AppendAddsElement DEF Waiting, WorkerState
  <2> QED  BY <1>5, <2>2, <2>3
<1> QED  BY <1>3, <1>4, <1>5

-----------------------------------------------------------------------------
\* A busy CPU returns to the pool.
LEMMA CpuReturnedEffect ==
    ASSUME NEW w \in WorkerState, AvailableIsIdle(w), NEW c \in Busy(w)
    PROVE  LET v == CpuReturned(w, c) IN
           /\ v \in WorkerState /\ AvailableIsIdle(v)
           /\ v.available = Append(w.available, c) /\ v.available # <<>>
           /\ v.task = [w.task EXCEPT ![c] = NoJob]
           /\ Busy(v) = Busy(w) \ {c}
           /\ SameQueue(v, w) /\ SameMemory(v, w) /\ v.io = w.io
           /\ v.wait_queue = w.wait_queue
<1> DEFINE v == CpuReturned(w, c)
           t == [w.task EXCEPT ![c] = NoJob]
           s == Append(w.available, c)
<1>1. /\ c \in Cpus /\ w.available \in Seq(Cpus)
      /\ w.task \in [Cpus -> Jobs \cup {NoJob}] /\ c \notin Elements(w.available)
  BY DEF Busy, WorkerState, AvailableIsIdle
<1>2. /\ s \in Seq(Cpus) /\ s # <<>> /\ NoRepeats(s)
      /\ Elements(s) = Elements(w.available) \cup {c}
  BY <1>1, AppendAddsElement DEF AvailableIsIdle
<1>3. t \in [Cpus -> Jobs \cup {NoJob}]
  BY <1>1
<1>4. v = [w EXCEPT !.task = t, !.available = s]
  BY <1>1 DEF CpuReturned, WorkerState
<1> HIDE DEF v, t, s
<1>5. /\ v \in WorkerState /\ v.task = t /\ v.available = s
      /\ v.ongoing = w.ongoing /\ v.utilized = w.utilized
      /\ v.queue_length = w.queue_length /\ v.io = w.io
      /\ v.wait_queue = w.wait_queue /\ v.spinning_down = w.spinning_down
  BY <1>2, <1>3, <1>4 DEF WorkerState
<1>6. Busy(v) = Busy(w) \ {c}
  BY <1>1, <1>5 DEF Busy, t
<1>7. AvailableIsIdle(v)
  BY <1>1, <1>2, <1>5, <1>6 DEF AvailableIsIdle, Busy
<1> QED  BY <1>2, <1>5, <1>6, <1>7 DEF SameQueue, SameMemory, v, t, s

\* Popping the wait queue leaves the CPUs and the memory alone.
LEMMA DequeueEffect ==
    ASSUME NEW w \in WorkerState, w.wait_queue # <<>>
    PROVE  LET v == Dequeue(w) IN
           /\ v \in WorkerState
           /\ v.wait_queue = Tail(w.wait_queue)
           /\ v.available = w.available /\ v.task = w.task /\ v.io = w.io
           /\ SameQueue(v, w) /\ SameMemory(v, w)
           /\ Busy(v) = Busy(w) /\ Running(v) = Running(w)
<1> DEFINE v == Dequeue(w)
           q == Tail(w.wait_queue)
<1>1. q \in Seq(Jobs)
  BY HeadTailProperties DEF WorkerState
<1>2. v = [w EXCEPT !.wait_queue = q]
  BY DEF Dequeue
<1> HIDE DEF v, q
<1>3. /\ v \in WorkerState /\ v.wait_queue = q
      /\ v.available = w.available /\ v.task = w.task /\ v.io = w.io
      /\ v.ongoing = w.ongoing /\ v.utilized = w.utilized
      /\ v.queue_length = w.queue_length /\ v.spinning_down = w.spinning_down
  BY <1>1, <1>2 DEF WorkerState
<1>4. Busy(v) = Busy(w) /\ Running(v) = Running(w)
  BY <1>3 DEF Busy, Running
<1> QED  BY <1>3, <1>4 DEF SameQueue, SameMemory, v, q

\* cpu_pool_release after a CPU was returned: what becomes of the pool.
LEMMA HandOverEffect ==
    ASSUME NEW w, WorkerInv(w), NEW c \in Busy(w)
    PROVE  LET v == PoolRelease(CpuReturned(w, c)) IN
           /\ v \in WorkerState /\ AvailableIsIdle(v)
           /\ SameQueue(v, w) /\ SameMemory(v, w) /\ v.io = w.io
           /\ IF w.wait_queue = <<>>
                THEN /\ v.wait_queue = <<>>
                     /\ Busy(v) = Busy(w) \ {c}
                     /\ v.task = [w.task EXCEPT ![c] = NoJob]
                ELSE /\ v.wait_queue = Tail(w.wait_queue)
                     /\ v.available = <<>>
                     /\ Busy(v) = Busy(w)
                     /\ v.task = [w.task EXCEPT ![c] = Head(w.wait_queue)]
<1> DEFINE r == CpuReturned(w, c)
           v == PoolRelease(r)
<1>1. w \in WorkerState /\ AvailableIsIdle(w) /\ c \in Cpus
  BY DEF WorkerInv, WorkerOK, Busy
<1>2. /\ r \in WorkerState /\ AvailableIsIdle(r)
      /\ r.available = Append(w.available, c) /\ r.available # <<>>
      /\ r.task = [w.task EXCEPT ![c] = NoJob] /\ Busy(r) = Busy(w) \ {c}
      /\ SameQueue(r, w) /\ SameMemory(r, w) /\ r.io = w.io
      /\ r.wait_queue = w.wait_queue
  BY <1>1, CpuReturnedEffect
<1> HIDE DEF r
<1>3. CASE w.wait_queue = <<>>
  <2>1. v = r
    BY <1>2, <1>3 DEF PoolRelease
  <2> QED  BY <1>2, <1>3, <2>1 DEF r
<1>4. CASE w.wait_queue # <<>>
  <2> DEFINE p == Dequeue(r)
             h == Head(w.wait_queue)
  <2>1. v = CpuReserve(p, h)
    BY <1>2, <1>4 DEF PoolRelease, WakeHead, WakeFails
  <2>2. w.available = <<>> /\ h \in Jobs
    BY <1>1, <1>4, HeadTailProperties
       DEF WorkerInv, WorkerOK, WorkConserving, WorkerState
  <2>3. /\ p \in WorkerState /\ p.wait_queue = Tail(r.wait_queue)
        /\ p.available = r.available /\ p.task = r.task /\ p.io = r.io
        /\ SameQueue(p, r) /\ SameMemory(p, r) /\ Busy(p) = Busy(r)
    BY <1>2, <1>4, DequeueEffect
  <2> HIDE DEF p, h, v
  <2>4. AvailableIsIdle(p)
    BY <1>2, <2>3 DEF AvailableIsIdle
  <2>5. p.available = <<c>> /\ p.available[1] = c
    <3>1. p.available = Append(<<>>, c)
      BY <1>2, <2>2, <2>3
    <3>2. Append(<<>>, c) = <<c>> /\ <<c>>[1] = c
      OBVIOUS
    <3> QED  BY <3>1, <3>2
  <2>6. /\ v \in WorkerState /\ AvailableIsIdle(v)
        /\ Busy(v) = Busy(p) \cup {c}
        /\ v.task = [p.task EXCEPT ![c] = h]
        /\ SameQueue(v, p) /\ SameMemory(v, p) /\ v.io = p.io
        /\ v.wait_queue = p.wait_queue
    <3>1. p.available # <<>>
      BY <1>2, <2>3
    <3> QED  BY <2>1, <2>2, <2>3, <2>4, <2>5, <3>1, CpuReserveEffect
  <2>7. v.available = <<>>
    <3>1. v.available = TakeFirst(<<c>>)
      BY <2>1, <2>3, <2>5 DEF CpuReserve, WorkerState
    <3> QED  BY <3>1 DEF TakeFirst
  <2>8. v.task = [w.task EXCEPT ![c] = h]
    <3>1. w.task \in [Cpus -> Jobs \cup {NoJob}]
      BY <1>1 DEF WorkerState
    <3>2. v.task = [[w.task EXCEPT ![c] = NoJob] EXCEPT ![c] = h]
      BY <1>2, <2>3, <2>6
    <3> QED  BY <3>1, <3>2
  <2>9. Busy(v) = Busy(w)
    BY <1>2, <2>3, <2>6
  <2>10. SameQueue(v, w) /\ SameMemory(v, w) /\ v.io = w.io
    BY <1>2, <2>3, <2>6 DEF SameQueue, SameMemory
  <2> QED  BY <1>2, <1>4, <2>3, <2>6, <2>7, <2>8, <2>9, <2>10 DEF r, h, v
<1> QED  BY <1>3, <1>4

\* cpu_reserve_done up to the continuation of the finished job.
LEMMA CpuDoneKeeps ==
    ASSUME NEW w, WorkerInv(w), NEW c \in Busy(w), NEW v, v = CpuDone(w, c)
    PROVE  /\ WorkerInv(v)
           /\ v.io = w.io /\ v.spinning_down = w.spinning_down
           /\ w.task[c] \in Jobs
           /\ Running(v) \cup Waiting(v) = (Running(w) \cup Waiting(w)) \ {w.task[c]}
<1> DEFINE r == PoolRelease(CpuReturned(w, c))
           j == w.task[c]
           h == Head(w.wait_queue)
<1>1. /\ w \in WorkerState /\ c \in Cpus /\ j \in Jobs
      /\ w.task \in [Cpus -> Jobs \cup {NoJob}]
      /\ w.wait_queue \in Seq(Jobs)
      /\ EachJobOnce(w) /\ RamInv(w)
  BY DEF WorkerInv, WorkerOK, WorkerState, Busy, RamInv
<1>2. /\ r \in WorkerState /\ AvailableIsIdle(r)
      /\ SameQueue(r, w) /\ SameMemory(r, w) /\ r.io = w.io
      /\ IF w.wait_queue = <<>>
           THEN /\ r.wait_queue = <<>>
                /\ Busy(r) = Busy(w) \ {c}
                /\ r.task = [w.task EXCEPT ![c] = NoJob]
           ELSE /\ r.wait_queue = Tail(w.wait_queue)
                /\ r.available = <<>>
                /\ Busy(r) = Busy(w)
                /\ r.task = [w.task EXCEPT ![c] = h]
  BY HandOverEffect
<1>3. v = ComputeDone(r, j)
  BY DEF CpuDone
<1> HIDE DEF r, j, h
<1>4. /\ v \in WorkerState
      /\ v.ongoing = [w.ongoing EXCEPT ![j] = 0]
      /\ v.utilized = w.utilized - w.ongoing[j]
      /\ v.queue_length = w.queue_length - 1
      /\ v.available = r.available /\ v.task = r.task
      /\ v.wait_queue = r.wait_queue /\ v.io = w.io
      /\ v.spinning_down = w.spinning_down
      /\ Busy(v) = Busy(r)
  <2>1. LET a == ComputeDone(r, j) IN
        /\ a \in WorkerState
        /\ a.ongoing = [r.ongoing EXCEPT ![j] = 0]
        /\ a.utilized = r.utilized - r.ongoing[j]
        /\ a.queue_length = r.queue_length - 1
        /\ a.available = r.available /\ a.task = r.task
        /\ a.wait_queue = r.wait_queue /\ a.io = r.io
        /\ a.spinning_down = r.spinning_down
        /\ Busy(a) = Busy(r) /\ Running(a) = Running(r)
    BY <1>1, <1>2, ComputeDoneEffect
  <2> QED  BY <1>2, <1>3, <2>1 DEF SameQueue, SameMemory
<1>5. AvailableIsIdle(v)
  BY <1>2, <1>4 DEF AvailableIsIdle
<1>6. WorkConserving(v)
  BY <1>2, <1>4 DEF WorkConserving
<1>7. /\ EachJobOnce(v)
      /\ Running(v) \cup Waiting(v) = (Running(w) \cup Waiting(w)) \ {j}
      /\ v.queue_length = Len(v.wait_queue) + Cardinality(Busy(v))
  <2>0. /\ w.queue_length = Len(w.wait_queue) + Cardinality(Busy(w))
        /\ w.queue_length \in Int /\ Len(w.wait_queue) \in Nat
        /\ IsFiniteSet(Busy(w)) /\ Cardinality(Busy(w)) \in Nat
    BY <1>1, BusyFinite DEF WorkerInv, WorkerOK, QueueAccounting, WorkerState
  <2>1. CASE w.wait_queue = <<>>
    <3>1. /\ v.wait_queue = <<>> /\ Busy(v) = Busy(w) \ {c}
          /\ v.task = [w.task EXCEPT ![c] = NoJob]
      BY <1>2, <1>4, <2>1
    <3>2. Waiting(v) = {} /\ Waiting(w) = {} /\ NoRepeats(v.wait_queue)
      BY <2>1, <3>1 DEF Waiting, Elements, NoRepeats
    <3>3. \A d \in Busy(v) : v.task[d] = w.task[d] /\ d \in Busy(w) /\ d # c
      BY <1>1, <3>1 DEF Busy
    <3>4. Running(v) = Running(w) \ {j}
      BY <1>1, <3>1, <3>3 DEF Running, EachJobOnce, j
    <3>5. EachJobOnce(v)
      BY <1>1, <1>4, <3>2, <3>3, <3>4 DEF EachJobOnce
    <3>6. v.queue_length = Len(v.wait_queue) + Cardinality(Busy(v))
      <4>1. Cardinality(Busy(v)) = Cardinality(Busy(w)) - 1
        BY <2>0, <3>1, FS_RemoveElement
      <4>2. Len(v.wait_queue) = 0 /\ Len(w.wait_queue) = 0
        BY <2>1, <3>1
      <4> QED  BY <1>4, <2>0, <4>1, <4>2
    <3> QED  BY <3>2, <3>4, <3>5, <3>6
  <2>2. CASE w.wait_queue # <<>>
    <3>1. /\ v.wait_queue = Tail(w.wait_queue) /\ Busy(v) = Busy(w)
          /\ v.task = [w.task EXCEPT ![c] = h]
      BY <1>2, <1>4, <2>2
    <3>2. /\ h \in Waiting(w) /\ Waiting(v) = Waiting(w) \ {h}
          /\ NoRepeats(v.wait_queue) /\ Len(v.wait_queue) = Len(w.wait_queue) - 1
      BY <1>1, <2>2, <3>1, TailRemovesHead DEF Waiting, EachJobOnce, h
    <3>3. \A d \in Busy(w) \ {c} : v.task[d] = w.task[d] /\ w.task[d] # j
      BY <1>1, <3>1 DEF Busy, EachJobOnce, j
    <3>4. v.task[c] = h /\ h \notin Running(w) /\ h \notin w.io
      BY <1>1, <3>1, <3>2 DEF EachJobOnce
    <3>5. Running(v) = (Running(w) \ {j}) \cup {h}
      BY <1>1, <3>1, <3>3, <3>4 DEF Running, j
    <3>6. \A d, e \in Busy(v) : v.task[d] = v.task[e] => d = e
      BY <1>1, <3>1, <3>3, <3>4 DEF EachJobOnce, Running
    <3>7. j \in Running(w) /\ j \notin Waiting(w)
      BY <1>1 DEF Running, EachJobOnce, j
    <3>8. EachJobOnce(v)
      BY <1>1, <1>4, <3>2, <3>4, <3>5, <3>6 DEF EachJobOnce
    <3>9. Running(v) \cup Waiting(v) = (Running(w) \cup Waiting(w)) \ {j}
      BY <3>2, <3>5, <3>7
    <3>10. v.queue_length = Len(v.wait_queue) + Cardinality(Busy(v))
      BY <1>4, <2>0, <3>1, <3>2
    <3> QED  BY <3>8, <3>9, <3>10
  <2> QED  BY <2>1, <2>2
<1>8. QueueAccounting(v)
  <2>1. w.queue_length \in Int /\ w.queue_length <= QueueLimit
    BY <1>1 DEF WorkerState, WorkerInv, WorkerOK, QueueAccounting
  <2> QED  BY <1>4, <1>7, <2>1, WorkerAssumption DEF QueueAccounting
<1>9. RamInv(v)
  <2>1. Outstanding(w) \ {j} \subseteq Outstanding(v)
    BY <1>4, <1>7 DEF Outstanding
  <2> QED  BY <1>1, <1>4, <2>1, RamAfterRelease
<1> QED  BY <1>1, <1>4, <1>5, <1>6, <1>7, <1>8, <1>9
         DEF WorkerInv, WorkerOK, RamInv, j

-----------------------------------------------------------------------------
\* The loop of cpu_pool_spin_down: since a job waits only while every CPU is
\* busy, the waiter it wakes finds no CPU and fails.
LEMMA WakeHeadKeeps ==
    ASSUME NEW w, WorkerInv(w), w.wait_queue # <<>>, NEW v, v = WakeHead(w)
    PROVE  /\ WorkerInv(v) /\ WakeFails(w)
           /\ v.io = w.io /\ v.spinning_down = w.spinning_down
           /\ Head(w.wait_queue) \in Jobs
           /\ Running(v) \cup Waiting(v)
                = (Running(w) \cup Waiting(w)) \ {Head(w.wait_queue)}
<1> DEFINE j == Head(w.wait_queue)
           p == Dequeue(w)
<1>1. /\ w \in WorkerState /\ AvailableIsIdle(w) /\ EachJobOnce(w) /\ RamInv(w)
      /\ w.wait_queue \in Seq(Jobs) /\ w.queue_length \in Int
      /\ w.available = <<>> /\ w.queue_length <= QueueLimit
      /\ w.queue_length = Len(w.wait_queue) + Cardinality(Busy(w))
  BY DEF WorkerInv, WorkerOK, WorkerState, RamInv, WorkConserving, QueueAccounting
<1>2. v = ComputeDone(p, j) /\ WakeFails(w)
  BY <1>1 DEF WakeHead, WakeFails
<1>3. /\ p \in WorkerState /\ p.wait_queue = Tail(w.wait_queue)
      /\ p.available = w.available /\ p.task = w.task /\ p.io = w.io
      /\ SameQueue(p, w) /\ SameMemory(p, w)
      /\ Busy(p) = Busy(w) /\ Running(p) = Running(w)
  BY <1>1, DequeueEffect
<1>4. /\ j \in Jobs /\ j \in Waiting(w) /\ NoRepeats(p.wait_queue)
      /\ Elements(p.wait_queue) = Waiting(w) \ {j}
      /\ Len(w.wait_queue) \in Nat /\ Len(p.wait_queue) = Len(w.wait_queue) - 1
  BY <1>1, <1>3, TailRemovesHead DEF EachJobOnce, Waiting
<1> HIDE DEF j, p
<1>5. /\ v \in WorkerState
      /\ v.ongoing = [w.ongoing EXCEPT ![j] = 0]
      /\ v.utilized = w.utilized - w.ongoing[j]
      /\ v.queue_length = w.queue_length - 1
      /\ v.available = w.available /\ v.task = w.task
      /\ v.wait_queue = p.wait_queue /\ v.io = w.io
      /\ v.spinning_down = w.spinning_down
      /\ Busy(v) = Busy(w) /\ Running(v) = Running(w)
      /\ Waiting(v) = Waiting(w) \ {j}
  <2>1. LET a == ComputeDone(p, j) IN
        /\ a \in WorkerState
        /\ a.ongoing = [p.ongoing EXCEPT ![j] = 0]
        /\ a.utilized = p.utilized - p.ongoing[j]
        /\ a.queue_length = p.queue_length - 1
        /\ a.available = p.available /\ a.task = p.task
        /\ a.wait_queue = p.wait_queue /\ a.io = p.io
        /\ a.spinning_down = p.spinning_down
        /\ Busy(a) = Busy(p) /\ Running(a) = Running(p)
    BY <1>3, <1>4, ComputeDoneEffect
  <2> QED  BY <1>2, <1>3, <1>4, <2>1 DEF SameQueue, SameMemory, Waiting
<1>6. AvailableIsIdle(v) /\ WorkConserving(v)
  BY <1>1, <1>5 DEF AvailableIsIdle, WorkConserving
<1>7. EachJobOnce(v)
  BY <1>1, <1>4, <1>5 DEF EachJobOnce
<1>8. QueueAccounting(v)
  BY <1>1, <1>4, <1>5, BusyFinite, WorkerAssumption DEF QueueAccounting
<1>9. RamInv(v)
  <2>1. Outstanding(w) \ {j} \subseteq Outstanding(v)
    BY <1>5 DEF Outstanding
  <2> QED  BY <1>1, <1>4, <1>5, <2>1, RamAfterRelease
<1>10. j \notin Running(w)
  BY <1>1, <1>4 DEF EachJobOnce
<1> QED  BY <1>2, <1>4, <1>5, <1>6, <1>7, <1>8, <1>9, <1>10
         DEF WorkerInv, WorkerOK, RamInv, j

\* Finalizing the queue changes nothing else.
LEMMA CloseQueueKeeps ==
    ASSUME NEW w, WorkerInv(w), NEW v, v = CloseQueue(w)
    PROVE  /\ WorkerInv(v)
           /\ v.io = w.io /\ v.spinning_down = TRUE
           /\ Running(v) = Running(w) /\ Waiting(v) = Waiting(w)
<1>1. /\ v \in WorkerState /\ v.spinning_down = TRUE
      /\ v.ongoing = w.ongoing /\ v.utilized = w.utilized
      /\ v.queue_length = w.queue_length /\ v.io = w.io
      /\ v.available = w.available /\ v.task = w.task
      /\ v.wait_queue = w.wait_queue
  BY DEF CloseQueue, WorkerInv, WorkerOK, WorkerState
<1>2. Busy(v) = Busy(w)
  BY <1>1 DEF Busy
<1>3. Running(v) = Running(w) /\ Waiting(v) = Waiting(w)
  BY <1>1, <1>2 DEF Running, Waiting
<1>4. RamInv(v)
  BY <1>1, <1>3, RamUntouched DEF Outstanding, RamInv, WorkerInv, WorkerOK
<1>5. /\ AvailableIsIdle(v) /\ WorkConserving(v) /\ EachJobOnce(v)
      /\ QueueAccounting(v)
  BY <1>1, <1>2, <1>3 DEF WorkerInv, WorkerOK, AvailableIsIdle,
                          WorkConserving, EachJobOnce, QueueAccounting
<1> QED  BY <1>1, <1>3, <1>4, <1>5 DEF WorkerInv, WorkerOK, RamInv

-----------------------------------------------------------------------------
\* worker_reserve_disk.
LEMMA ReserveDiskKeeps ==
    ASSUME NEW w, WorkerInv(w), NEW j \in Jobs, j \notin Outstanding(w),
           NEW m \in Nat, NEW v, v = ReserveDisk(w, j, m)
    PROVE  /\ WorkerInv(v)
           /\ Running(v) = Running(w) /\ Waiting(v) = Waiting(w)
           /\ v.spinning_down = w.spinning_down
           /\ DiskRefused(w, m) => v.io = w.io
           /\ ~DiskRefused(w, m) => v.io = w.io \cup {j}
<1>1. w \in WorkerState
  BY DEF WorkerInv, WorkerOK
<1>2. CASE DiskRefused(w, m)
  <2>1. v = w
    BY <1>2 DEF ReserveDisk
  <2> QED  BY <1>2, <2>1
<1>3. CASE ~DiskRefused(w, m)
  <2> DEFINE r == RamReserve(w, j, m)
             u == w.utilized + m
             f == [w.ongoing EXCEPT ![j] = m]
             d == w.io \cup {j}
  <2>1. /\ u \in Int /\ f \in [Jobs -> Nat] /\ d \in SUBSET Jobs
        /\ r = [w EXCEPT !.utilized = u, !.ongoing = f]
    BY <1>1 DEF RamReserve, WorkerState
  <2>2. v = [r EXCEPT !.io = @ \cup {j}] /\ m <= RamAvailable(w)
    BY <1>1, <1>3, WorkerAssumption
       DEF ReserveDisk, DiskRefused, RamAvailable, WorkerState
  <2> HIDE DEF r, u, f
  <2>3. /\ r \in WorkerState /\ r.utilized = u /\ r.ongoing = f /\ r.io = w.io
        /\ r.available = w.available /\ r.task = w.task
        /\ r.wait_queue = w.wait_queue /\ r.queue_length = w.queue_length
        /\ r.spinning_down = w.spinning_down
    BY <1>1, <2>1 DEF WorkerState
  <2>4. v = [r EXCEPT !.io = d]
    BY <2>2, <2>3
  <2> HIDE DEF d
  <2>5. /\ v \in WorkerState /\ v.utilized = u /\ v.ongoing = f /\ v.io = d
        /\ v.available = r.available /\ v.task = r.task
        /\ v.wait_queue = r.wait_queue /\ v.queue_length = r.queue_length
        /\ v.spinning_down = r.spinning_down
    BY <2>1, <2>3, <2>4 DEF WorkerState
  <2>6. Busy(v) = Busy(w)
    BY <2>3, <2>5 DEF Busy
  <2>7. Running(v) = Running(w) /\ Waiting(v) = Waiting(w)
    BY <2>3, <2>5, <2>6 DEF Running, Waiting
  <2>8. RamInv(v)
    <3>1. Outstanding(v) = Outstanding(w) \cup {j}
      BY <2>5, <2>7 DEF Outstanding, d
    <3>2. RamInv(w)
      BY DEF RamInv, WorkerInv, WorkerOK
    <3> QED  BY <1>1, <2>2, <2>5, <3>1, <3>2, RamAfterReserve DEF u, f
  <2>9. EachJobOnce(v)
    <3>1. EachJobOnce(w) /\ j \notin Running(w) \cup Waiting(w)
      BY DEF WorkerInv, WorkerOK, Outstanding
    <3>2. v.task = w.task /\ v.wait_queue = w.wait_queue
      BY <2>3, <2>5
    <3> QED  BY <2>5, <2>6, <2>7, <3>1, <3>2 DEF EachJobOnce, d
  <2>10. AvailableIsIdle(v) /\ WorkConserving(v) /\ QueueAccounting(v)
    BY <2>3, <2>5, <2>6 DEF WorkerInv, WorkerOK, AvailableIsIdle,
                            WorkConserving, QueueAccounting
  <2> QED  BY <1>3, <2>3, <2>5, <2>7, <2>8, <2>9, <2>10
           DEF WorkerInv, WorkerOK, RamInv, d
<1> QED  BY <1>2, <1>3

\* disk_reserve_done up to the continuation of the finished operation.
LEMMA DiskDoneKeeps ==
    ASSUME NEW w, WorkerInv(w), NEW j \in w.io, NEW v, v = DiskDone(w, j)
    PROVE  /\ WorkerInv(v) /\ j \in Jobs
           /\ Running(v) = Running(w) /\ Waiting(v) = Waiting(w)
           /\ v.spinning_down = w.spinning_down
           /\ v.io = w.io \ {j}
<1>1. w \in WorkerState /\ j \in Jobs
  BY DEF WorkerInv, WorkerOK, WorkerState
<1> DEFINE r == RamRelease(w, j)
           u == w.utilized - w.ongoing[j]
           f == [w.ongoing EXCEPT ![j] = 0]
           d == w.io \ {j}
<1>2. /\ u \in Int /\ f \in [Jobs -> Nat] /\ d \in SUBSET Jobs
      /\ r = [w EXCEPT !.utilized = u, !.ongoing = f]
  BY <1>1 DEF RamRelease, WorkerState
<1>3. v = [r EXCEPT !.io = @ \ {j}]
  BY DEF DiskDone
<1> HIDE DEF r, u, f
<1>4. /\ r \in WorkerState /\ r.utilized = u /\ r.ongoing = f /\ r.io = w.io
      /\ r.available = w.available /\ r.task = w.task
      /\ r.wait_queue = w.wait_queue /\ r.queue_length = w.queue_length
      /\ r.spinning_down = w.spinning_down
  BY <1>1, <1>2 DEF WorkerState
<1>5. v = [r EXCEPT !.io = d]
  BY <1>3, <1>4
<1> HIDE DEF d
<1>6. /\ v \in WorkerState /\ v.utilized = u /\ v.ongoing = f /\ v.io = d
      /\ v.available = r.available /\ v.task = r.task
      /\ v.wait_queue = r.wait_queue /\ v.queue_length = r.queue_length
      /\ v.spinning_down = r.spinning_down
  BY <1>2, <1>4, <1>5 DEF WorkerState
<1>7. Busy(v) = Busy(w)
  BY <1>4, <1>6 DEF Busy
<1>8. Running(v) = Running(w) /\ Waiting(v) = Waiting(w)
  BY <1>4, <1>6, <1>7 DEF Running, Waiting
<1>9. RamInv(v)
  <2>1. Outstanding(w) \ {j} \subseteq Outstanding(v)
    BY <1>6, <1>8 DEF Outstanding, d
  <2>2. RamInv(w)
    BY DEF RamInv, WorkerInv, WorkerOK
  <2> QED  BY <1>1, <1>6, <2>1, <2>2, RamAfterRelease DEF u, f
<1>10. EachJobOnce(v)
  <2>1. EachJobOnce(w) /\ v.task = w.task /\ v.wait_queue = w.wait_queue
    BY <1>4, <1>6 DEF WorkerInv, WorkerOK
  <2> QED  BY <1>6, <1>7, <1>8, <2>1 DEF EachJobOnce, d
<1>11. AvailableIsIdle(v) /\ WorkConserving(v) /\ QueueAccounting(v)
  BY <1>4, <1>6, <1>7 DEF WorkerInv, WorkerOK, AvailableIsIdle,
                          WorkConserving, QueueAccounting
<1> QED  BY <1>1, <1>4, <1>6, <1>8, <1>9, <1>10, <1>11
         DEF WorkerInv, WorkerOK, RamInv, d

\* A worker just created.
LEMMA FreshWorkerKeeps ==
    ASSUME NEW w \in FreshWorkers
    PROVE  /\ WorkerInv(w) /\ w.spinning_down = FALSE
           /\ Running(w) = {} /\ Waiting(w) = {} /\ w.io = {}
<1> DEFINE n == Cardinality(Cpus)
<1>1. n \in Nat
  BY WorkerAssumption, FS_CardinalityType
<1>2. /\ w.available \in [1..n -> Cpus] /\ w.task \in [Cpus -> {NoJob}]
      /\ w.wait_queue = <<>> /\ w.spinning_down = FALSE /\ w.utilized = 0
      /\ w.ongoing \in [Jobs -> {0}] /\ w.queue_length = 0 /\ w.io = {}
      /\ NoRepeats(w.available) /\ Elements(w.available) = Cpus
  BY DEF FreshWorkers
<1> HIDE DEF n
<1>3. w.available \in Seq(Cpus)
  BY <1>1, <1>2
<1>4. w \in WorkerState
  <2>1. w.task \in [Cpus -> Jobs \cup {NoJob}] /\ w.ongoing \in [Jobs -> Nat]
    BY <1>2
  <2>2. /\ w.wait_queue \in Seq(Jobs)
        /\ w.utilized \in Int /\ w.queue_length \in Int /\ w.io \in SUBSET Jobs
    BY <1>2
  <2>3. w.spinning_down \in BOOLEAN
    <3>1. w.spinning_down \in {FALSE}
      BY DEF FreshWorkers
    <3> QED  BY <3>1
  <2>4. w = [ available |-> w.available, task |-> w.task,
              wait_queue |-> w.wait_queue, spinning_down |-> w.spinning_down,
              utilized |-> w.utilized, ongoing |-> w.ongoing,
              queue_length |-> w.queue_length, io |-> w.io ]
    BY DEF FreshWorkers
  <2> QED  BY <1>3, <2>1, <2>2, <2>3, <2>4 DEF WorkerState
<1>5. Busy(w) = {}
  BY <1>2 DEF Busy
<1>6. Running(w) = {} /\ Waiting(w) = {}
  BY <1>2, <1>5 DEF Running, Waiting, Elements
<1>7. HeldUnits(w) = {}
  <2>1. \A j \in Jobs : 1..w.ongoing[j] = {}
    BY <1>2
  <2> QED  BY <2>1 DEF HeldUnits
<1>8. RamInv(w)
  BY <1>2, <1>7, FS_EmptySet, WorkerAssumption DEF RamInv, RamAccounting
<1>9. AvailableIsIdle(w) /\ WorkConserving(w)
  BY <1>2, <1>5 DEF AvailableIsIdle, WorkConserving
<1>10. EachJobOnce(w)
  BY <1>2, <1>5, <1>6 DEF EachJobOnce, NoRepeats
<1>11. QueueAccounting(w)
  BY <1>2, <1>5, FS_EmptySet, WorkerAssumption DEF QueueAccounting
<1> QED  BY <1>2, <1>4, <1>6, <1>8, <1>9, <1>10, <1>11
         DEF WorkerInv, WorkerOK, RamInv

-----------------------------------------------------------------------------
(* What the worker's operations do to its line.                            *)

\* An admitted call that finds no CPU and an open line with room joins the
\* line; every other call leaves it alone.
LEMMA ComputeLine ==
    ASSUME NEW w \in WorkerState, NEW j \in Jobs, NEW m \in Nat
    PROVE  LET u == ReserveCompute(w, j, m)
           IN  /\ u.spinning_down = w.spinning_down
               /\ u.wait_queue =
                     IF /\ ComputeAdmitted(w, m) /\ w.available = <<>>
                        /\ ~PoolRefuses(w)
                     THEN Append(w.wait_queue, j) ELSE w.wait_queue
  BY DEF WorkerState, ReserveCompute, ComputeDone, RamRelease, Admit, RamReserve,
         PoolReserve, CpuReserve, Enqueue

\* The end of a CPU reservation takes the head of the line, if there is one.
LEMMA CpuDoneLine ==
    ASSUME NEW w \in WorkerState, NEW c \in Busy(w)
    PROVE  LET u == CpuDone(w, c)
           IN  /\ u.spinning_down = w.spinning_down
               /\ u.wait_queue = IF w.wait_queue = <<>> THEN w.wait_queue
                                                       ELSE Tail(w.wait_queue)
  BY DEF WorkerState, CpuDone, ComputeDone, RamRelease, PoolRelease, CpuReturned, WakeHead,
         WakeFails, Dequeue, CpuReserve

\* A waiter that is woken, to run or to fail, leaves the line.
LEMMA WakeHeadLine ==
    ASSUME NEW w \in WorkerState
    PROVE  LET u == WakeHead(w)
           IN  /\ u.spinning_down = w.spinning_down
               /\ u.wait_queue = Tail(w.wait_queue)
  BY DEF WorkerState, ComputeDone, RamRelease, WakeHead, WakeFails, Dequeue, CpuReserve

-----------------------------------------------------------------------------
(* Loops: a function of the turn, whose values turn n makes from turn      *)
(* n - 1.  They are taken step by step, since induction over a predicate   *)
(* is out of the provers' reach.                                           *)

\* A non-empty set of naturals has a least element, since the intervals 1..n
\* are finite and strict inclusion is well-founded on finite sets.
LEMMA LeastNatural ==
    ASSUME NEW T \in SUBSET Nat, T # {}
    PROVE  \E x \in T : \A y \in T : x <= y
<1> DEFINE U == {1..n : n \in T}
<1>1. U \subseteq FiniteSubsetsOf(Nat) /\ U # {}
  <2>1. ASSUME NEW n \in Nat  PROVE 1..n \in SUBSET Nat /\ IsFiniteSet(1..n)
    BY FS_Interval
  <2>2. ASSUME NEW n \in Nat  PROVE 1..n \in FiniteSubsetsOf(Nat)
    BY <2>1 DEF FiniteSubsetsOf
  <2> QED  BY <2>2
<1>2. PICK u \in U : \A v \in U : <<v, u>> \notin StrictSubsetOrdering(Nat)
  <2> HIDE DEF U
  <2> QED  BY <1>1, FS_StrictSubsetOrderingWellFounded, WFMin
<1>3. PICK x \in T : u = 1..x
  OBVIOUS
<1>4. ASSUME NEW y \in T, y < x  PROVE FALSE
  <2>1. 1..y \in U /\ 1..y \in FiniteSubsetsOf(Nat) /\ 1..x \in FiniteSubsetsOf(Nat)
    BY <1>1, <1>3
  <2>2. 1..y \subseteq 1..x /\ x \in 1..x /\ x \notin 1..y
    BY <1>4
  <2>3. <<1..y, 1..x>> \in StrictSubsetOrdering(Nat)
    BY <2>1, <2>2 DEF StrictSubsetOrdering
  <2> QED  BY <1>2, <1>3, <2>1, <2>3
<1> QED  BY <1>4

\* Induction up to k, over a set in place of a predicate.
LEMMA UpTo ==
    ASSUME NEW k \in Nat, NEW S, 0 \in S,
           \A n \in 1..k : n - 1 \in S => n \in S
    PROVE  \A n \in 0..k : n \in S
<1> DEFINE T == {n \in 0..k : n \notin S}
<1> SUFFICES ASSUME T # {}  PROVE FALSE
  OBVIOUS
<1>1. PICK m \in T : \A n \in T : m <= n
  <2>1. T \in SUBSET Nat
    OBVIOUS
  <2> HIDE DEF T
  <2> QED  BY <2>1, LeastNatural
<1>2. m \in 1..k /\ m \notin S
  <2>1. m \in 0..k /\ m \notin S
    OBVIOUS
  <2>2. m # 0
    BY <2>1
  <2> QED  BY <2>1, <2>2
<1>3. m - 1 \in 0..k /\ m - 1 < m
  BY <1>2
<1>4. m - 1 \notin T
  <2> HIDE DEF T
  <2> QED  BY <1>1, <1>2, <1>3
<1> QED  BY <1>2, <1>3, <1>4

\* g is the values of a loop that begins with base, its n-th turn being F[<<n, x>>].
RunOf(g, k, base, F) == g = [n \in 0..k |-> IF n = 0 THEN base ELSE F[<<n, g[n - 1]>>]]

\* Every loop has its run: the least bound without one would have a predecessor.
LEMMA RunExists ==
    ASSUME NEW k \in Nat, NEW base, NEW F
    PROVE  \E g : RunOf(g, k, base, F)
<1> DEFINE P(m) == \E g : RunOf(g, m, base, F)
           S == {m \in 0..k : P(m)}
<1>1. 0 \in S
  <2> DEFINE g == [n \in 0..0 |-> base]
  <2>1. g = [n \in 0..0 |-> IF n = 0 THEN base ELSE F[<<n, g[n - 1]>>]]
    OBVIOUS
  <2>2. RunOf(g, 0, base, F)
    BY <2>1 DEF RunOf
  <2> QED  BY <2>2
<1>2. ASSUME NEW m \in 1..k, m - 1 \in S
      PROVE  m \in S
  <2>1. PICK g : RunOf(g, m - 1, base, F)
    BY <1>2
  <2>2. \A n \in 0..(m - 1) : g[n] = IF n = 0 THEN base ELSE F[<<n, g[n - 1]>>]
    <3>1. g = [n \in 0..(m - 1) |-> IF n = 0 THEN base ELSE F[<<n, g[n - 1]>>]]
      BY <2>1 DEF RunOf
    <3> QED  BY <3>1
  <2> DEFINE h == [n \in 0..m |-> IF n = m THEN F[<<m, g[m - 1]>>] ELSE g[n]]
  <2>3. ASSUME NEW n \in 0..m
        PROVE  h[n] = IF n = 0 THEN base ELSE F[<<n, h[n - 1]>>]
    <3>1. CASE n = m
      <4>1. n # 0 /\ n - 1 \in 0..m /\ n - 1 # m
        BY <3>1
      <4> QED  BY <3>1, <4>1
    <3>2. CASE n # m
      <4>1. n \in 0..(m - 1) /\ h[n] = g[n]
        BY <3>2
      <4>2. n # 0 => h[n - 1] = g[n - 1]
        <5>1. n # 0 => n - 1 \in 0..m /\ n - 1 # m
          BY <4>1
        <5> QED  BY <5>1
      <4> HIDE DEF h
      <4> QED  BY <2>2, <4>1, <4>2
    <3> QED  BY <3>1, <3>2
  <2>4. RunOf(h, m, base, F)
    <3>1. h = [n \in 0..m |-> h[n]]
      OBVIOUS
    <3> HIDE DEF h
    <3>2. h = [n \in 0..m |-> IF n = 0 THEN base ELSE F[<<n, h[n - 1]>>]]
      BY <2>3, <3>1
    <3> QED  BY <3>2 DEF RunOf
  <2> QED  BY <2>4
<1>3. \A n \in 0..k : n \in S
  <2> HIDE DEF S
  <2> QED  BY <1>1, <1>2, UpTo
<1>4. k \in 0..k
  OBVIOUS
<1> QED  BY <1>3, <1>4

LEMMA RunSteps ==
    ASSUME NEW k \in Nat, NEW base, NEW F, NEW g, RunOf(g, k, base, F)
    PROVE  g[0] = base /\ \A n \in 1..k : g[n] = F[<<n, g[n - 1]>>]
<1>1. \A n \in 0..k : g[n] = IF n = 0 THEN base ELSE F[<<n, g[n - 1]>>]
  <2>1. g = [n \in 0..k |-> IF n = 0 THEN base ELSE F[<<n, g[n - 1]>>]]
    BY DEF RunOf
  <2> QED  BY <2>1
<1>2. g[0] = base
  <2>1. 0 \in 0..k
    OBVIOUS
  <2>2. g[0] = IF 0 = 0 THEN base ELSE F[<<0, g[0 - 1]>>]
    BY <1>1, <2>1
  <2> QED  BY <2>2
<1>3. \A n \in 1..k : g[n] = F[<<n, g[n - 1]>>]
  <2> TAKE n \in 1..k
  <2>1. n \in 0..k /\ n # 0
    OBVIOUS
  <2>2. g[n] = IF n = 0 THEN base ELSE F[<<n, g[n - 1]>>]
    BY <1>1, <2>1
  <2> QED  BY <2>1, <2>2
<1> QED  BY <1>2, <1>3

\* Where a loop's turns lead from D[n - 1] to D[n], its values are in these sets.
LEMMA RunStays ==
    ASSUME NEW k \in Nat, NEW D, NEW F, NEW f, f[0] \in D[0],
           \A n \in 1..k : \A x \in D[n - 1] : F[<<n, x>>] \in D[n],
           \A n \in 1..k : f[n - 1] \in D[n - 1] => f[n] = F[<<n, f[n - 1]>>]
    PROVE  \A n \in 0..k : f[n] \in D[n]
<1> DEFINE S == {n \in 0..k : f[n] \in D[n]}
<1>1. 0 \in S
  <2>1. 0 \in 0..k
    OBVIOUS
  <2> QED  BY <2>1
<1>2. ASSUME NEW n \in 1..k, n - 1 \in S  PROVE n \in S
  <2>1. n \in 0..k /\ f[n - 1] \in D[n - 1]
    BY <1>2
  <2>2. f[n] = F[<<n, f[n - 1]>>] /\ F[<<n, f[n - 1]>>] \in D[n]
    BY <2>1
  <2> QED  BY <2>1, <2>2
<1>3. \A n \in 0..k : n \in S
  <2> HIDE DEF S
  <2> QED  BY <1>1, <1>2, UpTo
<1> QED  BY <1>3

\* A loop whose turns lead from D[n - 1] to D[n] has a run that stays in these sets.
LEMMA LoopRuns ==
    ASSUME NEW k \in Nat, NEW D, NEW F, NEW base, base \in D[0],
           \A n \in 1..k : \A x \in D[n - 1] : F[<<n, x>>] \in D[n]
    PROVE  \E h : RunOf(h, k, base, F) /\ \A n \in 0..k : h[n] \in D[n]
<1>1. PICK h : RunOf(h, k, base, F)
  BY RunExists
<1>2. h[0] = base /\ \A n \in 1..k : h[n] = F[<<n, h[n - 1]>>]
  BY <1>1, RunSteps
<1>3. \A n \in 0..k : h[n] \in D[n]
  BY <1>2, RunStays
<1> QED  BY <1>1, <1>3
=============================================================================

---------------------------- MODULE WorkerProofs ----------------------------
(***************************************************************************)
(* The invariants of Worker, for any number of CPUs and jobs, any queue    *)
(* limit and any memory.  The inductive invariant joins the invariant of   *)
(* the record (WorkerInv) with the client's books: a job the client waits  *)
(* for is in exactly one place of the worker.  The books are needed        *)
(* because an operation is safe only for a job that holds nothing yet, and *)
(* the worker trusts its client for that.  Last, the ring of WorkerQueue   *)
(* holds the wait queue, whatever the sizes of both.                       *)
(***************************************************************************)
EXTENDS WorkerQueue, WorkerLemmas

Books ==
    /\ pending \in [Jobs -> {"none", "compute", "disk"}]
    /\ answer \in [Jobs -> {"none", "4XX", "5XX"}]
    /\ {j \in Jobs : pending[j] = "compute"} = Running(worker) \cup Waiting(worker)
    /\ {j \in Jobs : pending[j] = "disk"} = worker.io

Inv == WorkerInv(worker) /\ Books

-----------------------------------------------------------------------------
\* The invariant holds of a worker just created.
LEMMA InitInv == Init => Inv
<1> SUFFICES ASSUME Init PROVE Inv
  OBVIOUS
<1>1. /\ WorkerInv(worker)
      /\ Running(worker) = {} /\ Waiting(worker) = {} /\ worker.io = {}
  BY FreshWorkerKeeps DEF Init
<1> QED  BY <1>1 DEF Inv, Books, Init

\* A compute call keeps the invariant.
LEMMA ComputeInv ==
    ASSUME Inv, NEW j \in Jobs, NEW m \in Sizes, Compute(j, m)
    PROVE  Inv'
<1>1. m \in Nat /\ WorkerInv(worker) /\ Books /\ pending[j] = "none"
  BY SizesAssumption DEF Inv, Compute
<1>2. j \notin Outstanding(worker)
  BY <1>1 DEF Outstanding, Books
<1>3. worker' = ReserveCompute(worker, j, m)
  BY DEF Compute
<1>4. /\ WorkerInv(worker')
      /\ worker'.io = worker.io
      /\ ComputeRefused(worker, m) => worker' = worker
      /\ ~ComputeRefused(worker, m) =>
           Running(worker') \cup Waiting(worker')
             = Running(worker) \cup Waiting(worker) \cup {j}
  BY <1>1, <1>2, <1>3, ReserveComputeKeeps
<1>5. CASE ComputeRefused(worker, m)
  <2>1. /\ worker' = worker /\ pending' = [pending EXCEPT ![j] = "none"]
        /\ answer' = [answer EXCEPT ![j] = "5XX"]
    BY <1>4, <1>5 DEF Compute, Answered
  <2> QED  BY <1>1, <1>4, <2>1 DEF Inv, Books
<1>6. CASE ~ComputeRefused(worker, m)
  <2>1. /\ pending' = [pending EXCEPT ![j] = "compute"]
        /\ answer' = [answer EXCEPT ![j] = "none"]
    BY <1>6 DEF Compute, Accepted
  <2>2. Books'
    BY <1>1, <1>4, <1>6, <2>1 DEF Books
  <2> QED  BY <1>4, <2>2 DEF Inv
<1> QED  BY <1>5, <1>6

\* A disk call keeps the invariant.
LEMMA DiskInv ==
    ASSUME Inv, NEW j \in Jobs, NEW m \in Sizes, Disk(j, m)
    PROVE  Inv'
<1>1. m \in Nat /\ WorkerInv(worker) /\ Books /\ pending[j] = "none"
  BY SizesAssumption DEF Inv, Disk
<1>2. j \notin Outstanding(worker)
  BY <1>1 DEF Outstanding, Books
<1>3. worker' = ReserveDisk(worker, j, m)
  BY DEF Disk
<1>4. /\ WorkerInv(worker')
      /\ Running(worker') = Running(worker) /\ Waiting(worker') = Waiting(worker)
      /\ DiskRefused(worker, m) => worker'.io = worker.io
      /\ ~DiskRefused(worker, m) => worker'.io = worker.io \cup {j}
  BY <1>1, <1>2, <1>3, ReserveDiskKeeps
<1>5. CASE DiskRefused(worker, m)
  <2>1. /\ pending' = [pending EXCEPT ![j] = "none"]
        /\ answer' = [answer EXCEPT ![j] = "5XX"]
    BY <1>5 DEF Disk, Answered
  <2>2. Books'
    BY <1>1, <1>4, <1>5, <2>1 DEF Books
  <2> QED  BY <1>4, <2>2 DEF Inv
<1>6. CASE ~DiskRefused(worker, m)
  <2>1. /\ pending' = [pending EXCEPT ![j] = "disk"]
        /\ answer' = [answer EXCEPT ![j] = "none"]
    BY <1>6 DEF Disk, Accepted
  <2>2. Books'
    BY <1>1, <1>4, <1>6, <2>1 DEF Books
  <2> QED  BY <1>4, <2>2 DEF Inv
<1> QED  BY <1>5, <1>6

\* A CPU that has just come back is there for the waiter: the event that ends
\* a reservation answers the job it ran and nobody else.
LEMMA CpuEventAnswers ==
    ASSUME Inv, NEW c \in Cpus, CpuEvent(c)
    PROVE  /\ pending' = [pending EXCEPT ![worker.task[c]] = "none"]
           /\ answer' = [answer EXCEPT ![worker.task[c]] = "4XX"]
<1> DEFINE done   == worker.task[c]
           failed == FailedByRelease(CpuReturned(worker, c))
<1>1. WorkerInv(worker) /\ Books
  BY DEF Inv
<1>2. worker \in WorkerState /\ worker.available \in Seq(Cpus)
  BY <1>1 DEF WorkerInv, WorkerOK, WorkerState
<1>3. CpuReturned(worker, c).available = Append(worker.available, c)
  BY <1>2 DEF CpuReturned, WorkerState
<1>4. Append(worker.available, c) # <<>>
  BY <1>2
<1>5. failed = {}
  BY <1>3, <1>4 DEF FailedByRelease, WakeFails
<1>6. /\ pending' = [j \in Jobs |-> IF j = done \/ j \in failed THEN "none" ELSE pending[j]]
      /\ answer' = [j \in Jobs |-> IF j = done THEN "4XX"
                                   ELSE IF j \in failed THEN "5XX" ELSE answer[j]]
  BY DEF CpuEvent
<1> HIDE DEF done, failed
<1>7. /\ pending' = [pending EXCEPT ![done] = "none"]
      /\ answer' = [answer EXCEPT ![done] = "4XX"]
  BY <1>1, <1>5, <1>6 DEF Books
<1> QED  BY <1>7 DEF done

\* The end of a CPU reservation keeps the invariant.
LEMMA CpuEventInv ==
    ASSUME Inv, NEW c \in Cpus, CpuEvent(c)
    PROVE  Inv'
<1> DEFINE j == worker.task[c]
<1>1. WorkerInv(worker) /\ Books /\ c \in Busy(worker)
  BY DEF Inv, CpuEvent
<1>2. worker' = CpuDone(worker, c)
  BY DEF CpuEvent
<1>3. /\ WorkerInv(worker') /\ worker'.io = worker.io /\ j \in Jobs
      /\ Running(worker') \cup Waiting(worker')
           = (Running(worker) \cup Waiting(worker)) \ {j}
  BY <1>1, <1>2, CpuDoneKeeps
<1>4. j \in Running(worker)
  BY <1>1 DEF Running
<1>5. /\ pending' = [pending EXCEPT ![j] = "none"]
      /\ answer' = [answer EXCEPT ![j] = "4XX"]
  BY CpuEventAnswers
<1> HIDE DEF j
<1>6. pending[j] = "compute"
  BY <1>1, <1>3, <1>4 DEF Books
<1>7. Books'
  BY <1>1, <1>3, <1>5, <1>6 DEF Books
<1> QED  BY <1>3, <1>7 DEF Inv

\* The end of a disk operation keeps the invariant.
LEMMA DiskEventInv ==
    ASSUME Inv, NEW j \in Jobs, DiskEvent(j)
    PROVE  Inv'
<1>1. WorkerInv(worker) /\ Books /\ j \in worker.io /\ worker' = DiskDone(worker, j)
  BY DEF Inv, DiskEvent
<1>2. /\ WorkerInv(worker') /\ worker'.io = worker.io \ {j}
      /\ Running(worker') = Running(worker) /\ Waiting(worker') = Waiting(worker)
  BY <1>1, DiskDoneKeeps
<1>3. /\ pending' = [pending EXCEPT ![j] = "none"]
      /\ answer' = [answer EXCEPT ![j] = "4XX"]
  BY DEF DiskEvent, Answered
<1>4. pending[j] = "disk"
  BY <1>1 DEF Books
<1>5. Books'
  BY <1>1, <1>2, <1>3, <1>4 DEF Books
<1> QED  BY <1>2, <1>5 DEF Inv

\* One turn of the spin-down loop keeps the invariant.
LEMMA FailWaiterInv ==
    ASSUME Inv, FailWaiter
    PROVE  Inv'
<1> DEFINE j == Head(worker.wait_queue)
<1>1. /\ WorkerInv(worker) /\ Books /\ worker.wait_queue # <<>>
      /\ worker' = WakeHead(worker)
  BY DEF Inv, FailWaiter, Closing
<1>2. /\ WorkerInv(worker') /\ WakeFails(worker) /\ j \in Jobs
      /\ worker'.io = worker.io
      /\ Running(worker') \cup Waiting(worker')
           = (Running(worker) \cup Waiting(worker)) \ {j}
  BY <1>1, WakeHeadKeeps
<1>3. /\ pending' = [pending EXCEPT ![j] = "none"]
      /\ answer' = [answer EXCEPT ![j] = "5XX"]
  BY <1>2 DEF FailWaiter, Answered
<1>4. j \in Waiting(worker)
  <2>1. worker.wait_queue \in Seq(Jobs) /\ NoRepeats(worker.wait_queue)
    BY <1>1 DEF WorkerInv, WorkerOK, WorkerState, EachJobOnce
  <2> QED  BY <1>1, <2>1, TailRemovesHead DEF Waiting
<1> HIDE DEF j
<1>5. pending[j] = "compute"
  BY <1>1, <1>2, <1>4 DEF Books
<1>6. Books'
  BY <1>1, <1>2, <1>3, <1>5 DEF Books
<1> QED  BY <1>2, <1>6 DEF Inv

\* Every step keeps the invariant.
LEMMA NextInv == Inv /\ [Next]_vars => Inv'
<1> SUFFICES ASSUME Inv, [Next]_vars PROVE Inv'
  OBVIOUS
<1>1. ASSUME NEW j \in Jobs, NEW m \in Sizes, Compute(j, m) PROVE Inv'
  BY <1>1, ComputeInv
<1>2. ASSUME NEW j \in Jobs, NEW m \in Sizes, Disk(j, m) PROVE Inv'
  BY <1>2, DiskInv
<1>3. ASSUME NEW c \in Cpus, CpuEvent(c) PROVE Inv'
  BY <1>3, CpuEventInv
<1>4. ASSUME NEW j \in Jobs, DiskEvent(j) PROVE Inv'
  BY <1>4, DiskEventInv
<1>5. CASE SpinDown
  <2>1. worker' = CloseQueue(worker) /\ UNCHANGED <<pending, answer>>
    BY <1>5 DEF SpinDown
  <2>2. /\ WorkerInv(worker') /\ worker'.io = worker.io
        /\ Running(worker') = Running(worker) /\ Waiting(worker') = Waiting(worker)
    BY <2>1, CloseQueueKeeps DEF Inv
  <2> QED  BY <2>1, <2>2 DEF Inv, Books
<1>6. CASE FailWaiter
  BY <1>6, FailWaiterInv
<1>7. CASE UNCHANGED vars
  BY <1>7 DEF vars, Inv, Books
<1> QED  BY <1>1, <1>2, <1>3, <1>4, <1>5, <1>6, <1>7 DEF Next, Call

\* The inductive invariant holds of every behaviour.
THEOREM Invariance == Spec => []Inv
BY InitInv, NextInv, PTL DEF Spec

-----------------------------------------------------------------------------
\* The record and the books of every reachable state have their types.
THEOREM TypeCorrect == Spec => []TypeOK
<1>1. Inv => TypeOK
  BY DEF Inv, Books, TypeOK, WorkerInv, WorkerOK
<1> QED  BY <1>1, Invariance, PTL

\* A CPU taken from available_cpus is always idle (the asserts of cpu.c hold)
\* and a job never waits beside an idle CPU, whatever the client does.
THEOREM PoolIsConsistent == Spec => []PoolConsistent
<1>1. Inv => PoolConsistent
  BY DEF Inv, PoolConsistent, WorkerInv, WorkerOK
<1> QED  BY <1>1, Invariance, PTL

\* The QUEUE_FULL branch of cpu_pool_reserve is dead until spin-down: with every
\* CPU busy, a full wait queue means a queue_length above the worker's limit.
LEMMA RoomForAdmitted == Inv => AdmittedHasRoom
<1> SUFFICES ASSUME Inv, worker.queue_length < QueueLimit, PoolRefuses(worker),
                    ~worker.spinning_down
             PROVE  FALSE
  BY DEF AdmittedHasRoom
<1>1. Len(worker.wait_queue) >= QueueLimit
  BY DEF PoolRefuses
<1>2. /\ worker.queue_length = Len(worker.wait_queue) + Cardinality(Busy(worker))
      /\ worker.queue_length \in Int /\ Len(worker.wait_queue) \in Nat
  BY DEF Inv, WorkerInv, WorkerOK, QueueAccounting, WorkerState
<1> QED  BY <1>1, <1>2, BusyFinite, WorkerAssumption

\* queue_length and utilized are exactly what is outstanding, neither limit is
\* ever exceeded, and an admitted job always finds a CPU or a place to wait.
THEOREM AccountingIsExact == Spec => []Accounting
<1>1. Inv => Accounting
  BY RoomForAdmitted DEF Inv, Accounting, WorkerInv, WorkerOK
<1> QED  BY <1>1, Invariance, PTL

\* No continuation is lost and none can be invoked twice.
THEOREM NothingIsLost == Spec => []PendingIsPlaced
<1>1. Inv => PendingIsPlaced
  BY DEF Inv, Books, PendingIsPlaced, WorkerInv, WorkerOK
<1> QED  BY <1>1, Invariance, PTL

\* An accepted compute call is answered 5XX only by a spin-down.
THEOREM AcceptedAreServed == Spec => AcceptedIsServed
<1>1. ASSUME Inv, [Next]_vars, NEW j \in Jobs,
             pending[j] = "compute", pending'[j] = "none", ~worker.spinning_down
      PROVE  answer'[j] = "4XX"
  <2>0. Books
    BY <1>1 DEF Inv
  <2>1. ASSUME NEW k \in Jobs, NEW m \in Sizes, Compute(k, m) \/ Disk(k, m)
        PROVE  FALSE
    <3>1. pending[k] = "none" /\ \E x : pending' = [pending EXCEPT ![k] = x]
      BY <2>1 DEF Compute, Disk, Answered, Accepted
    <3> QED  BY <1>1, <2>0, <3>1 DEF Books
  <2>2. ASSUME NEW k, pending' = [pending EXCEPT ![k] = "none"],
                      answer' = [answer EXCEPT ![k] = "4XX"]
        PROVE  answer'[j] = "4XX"
    BY <1>1, <2>0, <2>2 DEF Books
  <2>3. ASSUME NEW c \in Cpus, CpuEvent(c)
        PROVE  answer'[j] = "4XX"
    BY <1>1, <2>2, <2>3, CpuEventAnswers
  <2>4. ASSUME NEW k \in Jobs, DiskEvent(k)
        PROVE  answer'[j] = "4XX"
    BY <2>2, <2>4 DEF DiskEvent, Answered
  <2>5. ~FailWaiter /\ ~SpinDown /\ ~UNCHANGED vars
    BY <1>1 DEF FailWaiter, Closing, SpinDown, vars
  <2> QED  BY <1>1, <2>1, <2>3, <2>4, <2>5 DEF Next, Call
<1>2. Inv /\ [Next]_vars =>
        [\A j \in Jobs :
           pending[j] = "compute" /\ pending'[j] = "none" /\ ~worker.spinning_down
             => answer'[j] = "4XX"]_vars
  BY <1>1
<1> QED  BY <1>2, Invariance, PTL DEF Spec, AcceptedIsServed

-----------------------------------------------------------------------------
(* The CPU pool behind the worker's admission control implements the       *)
(* bounded server of BoundedServer, for any number of CPUs and jobs.       *)

\* BoundedServer counts as Worker does.
LEMMA SameCount == ASSUME NEW S  PROVE Server!Cardinality(S) = Cardinality(S)
  BY DEF Server!Cardinality, Cardinality

\* As many jobs run as CPUs are busy, since no job has two.
LEMMA RunningIsBusy ==
    ASSUME NEW w, WorkerInv(w)
    PROVE  Cardinality(Running(w)) = Cardinality(Busy(w))
<1> DEFINE f == [c \in Busy(w) |-> w.task[c]]
<1>1. \A c, d \in Busy(w) : w.task[c] = w.task[d] => c = d
  BY DEF WorkerInv, WorkerOK, EachJobOnce
<1>2. f \in [Busy(w) -> Running(w)] /\ \A j \in Running(w) : \E c \in Busy(w) : f[c] = j
  BY DEF Running
<1>3. f \in Bijection(Busy(w), Running(w))
  BY <1>1, <1>2 DEF Bijection, Injection, IsInjective, Surjection
<1> QED  BY <1>3, BusyFinite, FS_Bijection DEF ExistsBijection

\* No CPU is available exactly when as many are busy as there are.
LEMMA AllBusy ==
    ASSUME NEW w, WorkerInv(w)
    PROVE  /\ w.available = <<>> => Cardinality(Busy(w)) = Cardinality(Cpus)
           /\ w.available # <<>> => Cardinality(Busy(w)) < Cardinality(Cpus)
<1>1. w.available \in Seq(Cpus) /\ Elements(w.available) = Cpus \ Busy(w) /\ Busy(w) \subseteq Cpus
  BY DEF WorkerInv, WorkerOK, WorkerState, AvailableIsIdle, Busy
<1>2. CASE w.available = <<>>
  <2>1. Busy(w) = Cpus
    BY <1>1, <1>2 DEF Elements
  <2> QED  BY <1>2, <2>1
<1>3. CASE w.available # <<>>
  <2>1. Len(w.available) \in Nat \ {0}
    BY <1>1, <1>3
  <2>2. w.available[1] \in Elements(w.available)
    BY <2>1 DEF Elements
  <2>3. Busy(w) # Cpus
    BY <1>1, <2>2
  <2>4. /\ Cardinality(Busy(w)) <= Cardinality(Cpus)
        /\ Cardinality(Busy(w)) # Cardinality(Cpus)
    BY <1>1, <2>3, WorkerAssumption, FS_Subset
  <2>5. Cardinality(Busy(w)) \in Nat /\ Cardinality(Cpus) \in Nat
    BY BusyFinite, WorkerAssumption, FS_CardinalityType
  <2> QED  BY <1>3, <2>4, <2>5
<1> QED  BY <1>2, <1>3

\* What the abstract server sees of a worker.
SameView(v, w) ==
    /\ Running(v) = Running(w)
    /\ v.wait_queue = w.wait_queue
    /\ v.spinning_down = w.spinning_down

LEMMA InitServes == Init => Server!Init
<1> SUFFICES ASSUME Init  PROVE Server!Init
  OBVIOUS
<1>1. /\ Running(worker) = {} /\ worker.spinning_down = FALSE
      /\ worker.wait_queue = <<>>
  BY FreshWorkerKeeps DEF Init, FreshWorkers
<1> QED  BY <1>1 DEF Server!Init

\* A compute call is served, waits or is refused.
LEMMA ComputeServes ==
    ASSUME Inv, NEW j \in Jobs, NEW m \in Sizes, Compute(j, m)
    PROVE  Server!Serve(j) \/ Server!Wait(j) \/ SameView(worker', worker)
<1> DEFINE a == Admit(worker, j, m)
<1>1. m \in Nat /\ WorkerInv(worker) /\ worker \in WorkerState /\ Books /\ pending[j] = "none"
  BY SizesAssumption DEF Inv, Compute, WorkerInv, WorkerOK
<1>2. j \notin Outstanding(worker) /\ worker' = ReserveCompute(worker, j, m)
  BY <1>1 DEF Outstanding, Books, Compute
<1>3. j \notin Running(worker) \cup Server!InLine
  BY <1>2 DEF Outstanding, Waiting, Elements, Server!InLine
<1>4. /\ worker.queue_length = Len(worker.wait_queue) + Cardinality(Running(worker))
      /\ Cardinality(Running(worker)) \in Nat /\ Len(worker.wait_queue) \in Nat
  <2>1. /\ worker.queue_length = Len(worker.wait_queue) + Cardinality(Busy(worker))
        /\ worker.wait_queue \in Seq(Jobs)
    BY <1>1 DEF WorkerInv, WorkerOK, WorkerState, QueueAccounting
  <2>2. Cardinality(Running(worker)) = Cardinality(Busy(worker))
    BY <1>1, RunningIsBusy
  <2> QED  BY <2>1, <2>2, BusyFinite
<1>5. /\ a.available = worker.available /\ (PoolRefuses(a) <=> PoolRefuses(worker))
  <2>1. /\ a.available = worker.available /\ a.wait_queue = worker.wait_queue
        /\ a.spinning_down = worker.spinning_down
    BY <1>1, AdmitEffect
  <2> QED  BY <2>1 DEF PoolRefuses
<1> HIDE DEF a
<1>6. CASE ComputeRefused(worker, m)
  BY <1>1, <1>2, <1>6, ReserveComputeKeeps DEF SameView
<1>7. CASE ~ComputeRefused(worker, m) /\ worker.available # <<>>
  <2>1. ComputeAdmitted(worker, m) /\ worker' = CpuReserve(a, j)
    BY <1>2, <1>5, <1>7 DEF ComputeRefused, ReserveCompute, PoolReserve, a
  <2>2. /\ Running(worker') = Running(worker) \cup {j}
        /\ worker'.wait_queue = worker.wait_queue
        /\ worker'.spinning_down = worker.spinning_down
    BY <1>1, <1>2, <1>7, <2>1, ComputeRuns DEF a
  <2>3. worker.wait_queue = <<>>
    BY <1>1, <1>7 DEF WorkerInv, WorkerOK, WorkConserving
  <2>4. Cardinality(Running(worker)) < QueueLimit
    BY <1>4, <2>1, <2>3 DEF ComputeAdmitted
  <2>5. Cardinality(Running(worker)) < Cardinality(Cpus)
    BY <1>1, <1>7, RunningIsBusy, AllBusy
  <2> QED  BY <1>3, <2>2, <2>3, <2>4, <2>5, SameCount DEF Server!Serve
<1>8. CASE ~ComputeRefused(worker, m) /\ worker.available = <<>>
  <2>1. ComputeAdmitted(worker, m) /\ worker' = Enqueue(a, j)
    BY <1>2, <1>5, <1>8 DEF ComputeRefused, ReserveCompute, PoolReserve, a
  <2>2. /\ Running(worker') = Running(worker)
        /\ worker'.wait_queue = Append(worker.wait_queue, j)
        /\ worker'.spinning_down = worker.spinning_down
    BY <1>1, <1>2, <1>8, <2>1, ComputeWaits DEF a
  <2>3. ~worker.spinning_down
    BY <1>8 DEF ComputeRefused, PoolRefuses
  <2>4. Cardinality(Running(worker)) = Cardinality(Cpus)
    BY <1>1, <1>8, RunningIsBusy, AllBusy
  <2>5. Cardinality(Cpus) + Len(worker.wait_queue) < QueueLimit
    BY <1>4, <2>1, <2>4 DEF ComputeAdmitted
  <2> QED  BY <1>3, <2>2, <2>3, <2>4, <2>5, SameCount DEF Server!Wait
<1> QED  BY <1>6, <1>7, <1>8

\* The disk is none of the server's business.
LEMMA DiskIsUnseen ==
    ASSUME Inv, NEW j \in Jobs,
           (\E m \in Sizes : Disk(j, m)) \/ DiskEvent(j)
    PROVE  SameView(worker', worker)
<1>1. worker \in WorkerState
  BY DEF Inv, WorkerInv, WorkerOK
<1>2. /\ worker'.task = worker.task /\ worker'.wait_queue = worker.wait_queue
      /\ worker'.spinning_down = worker.spinning_down
  BY <1>1 DEF Disk, ReserveDisk, DiskEvent, DiskDone, RamReserve, RamRelease, WorkerState
<1> QED  BY <1>2 DEF SameView, Running, Busy

\* The end of a CPU reservation: the job leaves and the oldest waiter, if any,
\* takes its CPU.
LEMMA CpuEventServes ==
    ASSUME Inv, NEW c \in Cpus, CpuEvent(c)
    PROVE  /\ worker.task[c] \in Jobs
           /\ Server!Leave(worker.task[c])
<1> DEFINE r == PoolRelease(CpuReturned(worker, c))
           j == worker.task[c]
           h == Head(worker.wait_queue)
<1>1. /\ WorkerInv(worker) /\ worker \in WorkerState /\ c \in Busy(worker)
      /\ worker.task \in [Cpus -> Jobs \cup {NoJob}] /\ worker.wait_queue \in Seq(Jobs)
      /\ worker' = ComputeDone(r, j)
  BY DEF Inv, WorkerInv, WorkerOK, WorkerState, CpuEvent, CpuDone
<1>2. j \in Jobs /\ j \in Running(worker)
  BY <1>1 DEF Busy, Running
<1>3. /\ r \in WorkerState /\ r.spinning_down = worker.spinning_down
      /\ IF worker.wait_queue = <<>>
           THEN /\ r.wait_queue = <<>>
                /\ Busy(r) = Busy(worker) \ {c}
                /\ r.task = [worker.task EXCEPT ![c] = NoJob]
           ELSE /\ r.wait_queue = Tail(worker.wait_queue)
                /\ Busy(r) = Busy(worker)
                /\ r.task = [worker.task EXCEPT ![c] = h]
  BY <1>1, HandOverEffect DEF SameQueue
<1> HIDE DEF r, h
<1>4. /\ worker'.wait_queue = r.wait_queue /\ worker'.spinning_down = r.spinning_down
      /\ Running(worker') = Running(r)
  BY <1>1, <1>2, <1>3, ComputeDoneEffect
<1>5. \A d \in Busy(worker) : d # c => worker.task[d] # j
  BY <1>1 DEF WorkerInv, WorkerOK, EachJobOnce
<1>6. CASE worker.wait_queue = <<>>
  <2>1. Running(r) = Running(worker) \ {j}
    BY <1>1, <1>3, <1>5, <1>6 DEF Running, Busy
  <2> QED  BY <1>2, <1>3, <1>4, <1>6, <2>1 DEF Server!Leave
<1>7. CASE worker.wait_queue # <<>>
  <2>1. Running(r) = {[worker.task EXCEPT ![c] = h][d] : d \in Busy(worker)}
    BY <1>3, <1>7 DEF Running
  <2>2. Running(r) = (Running(worker) \ {j}) \cup {h}
    <3> HIDE DEF j
    <3>1. ASSUME NEW d \in Busy(worker)
          PROVE  [worker.task EXCEPT ![c] = h][d] = IF d = c THEN h ELSE worker.task[d]
      BY <1>1 DEF Busy
    <3>2. Running(worker) = {worker.task[d] : d \in Busy(worker)}
      BY DEF Running
    <3> QED  BY <1>1, <1>5, <2>1, <3>1, <3>2 DEF j
  <2> QED  BY <1>2, <1>3, <1>4, <1>7, <2>2 DEF Server!Leave, h
<1> QED  BY <1>2, <1>6, <1>7

\* A turn of the spin-down loop turns the oldest waiter away.
LEMMA FailWaiterServes ==
    ASSUME Inv, FailWaiter
    PROVE  Server!TurnAway
<1> DEFINE j == Head(worker.wait_queue)
           p == Dequeue(worker)
<1>1. /\ WorkerInv(worker) /\ worker \in WorkerState /\ worker.spinning_down
      /\ worker.wait_queue # <<>> /\ worker' = WakeHead(worker)
  BY DEF Inv, WorkerInv, WorkerOK, FailWaiter, Closing
<1>2. worker' = ComputeDone(p, j) /\ j \in Jobs
  BY <1>1, WakeHeadKeeps DEF WakeHead
<1>3. /\ p \in WorkerState /\ p.wait_queue = Tail(worker.wait_queue)
      /\ p.spinning_down = worker.spinning_down /\ Running(p) = Running(worker)
  BY <1>1, DequeueEffect DEF SameQueue
<1> HIDE DEF j, p
<1>4. /\ worker'.wait_queue = p.wait_queue /\ worker'.spinning_down = p.spinning_down
      /\ Running(worker') = Running(p)
  BY <1>2, <1>3, ComputeDoneEffect
<1> QED  BY <1>1, <1>3, <1>4 DEF Server!TurnAway

\* Every step of the worker is a step of the server or leaves it unchanged.
LEMMA NextServes == Inv /\ [Next]_vars => [Server!Next]_Server!vars
<1> SUFFICES ASSUME Inv, [Next]_vars  PROVE [Server!Next]_Server!vars
  OBVIOUS
<1>0. SameView(worker', worker) => UNCHANGED Server!vars
  BY DEF SameView, Server!vars
<1>1. ASSUME NEW j \in Jobs, NEW m \in Sizes, Compute(j, m)
      PROVE  [Server!Next]_Server!vars
  BY <1>0, <1>1, ComputeServes DEF Server!Next
<1>2. ASSUME NEW j \in Jobs, (\E m \in Sizes : Disk(j, m)) \/ DiskEvent(j)
      PROVE  [Server!Next]_Server!vars
  BY <1>0, <1>2, DiskIsUnseen
<1>3. ASSUME NEW c \in Cpus, CpuEvent(c)
      PROVE  [Server!Next]_Server!vars
  BY <1>3, CpuEventServes DEF Server!Next
<1>4. CASE SpinDown
  <2>1. worker \in WorkerState
    BY DEF Inv, WorkerInv, WorkerOK
  <2>2. /\ worker'.spinning_down = TRUE /\ worker'.task = worker.task
        /\ worker'.wait_queue = worker.wait_queue /\ ~worker.spinning_down
    BY <1>4, <2>1 DEF SpinDown, CloseQueue, WorkerState
  <2>3. Running(worker') = Running(worker)
    BY <2>2 DEF Running, Busy
  <2>4. Server!Close
    BY <2>2, <2>3 DEF Server!Close
  <2> QED  BY <2>4 DEF Server!Next
<1>5. CASE FailWaiter
  BY <1>5, FailWaiterServes DEF Server!Next
<1>6. CASE UNCHANGED vars
  BY <1>6 DEF vars, Server!vars
<1> QED  BY <1>1, <1>2, <1>3, <1>4, <1>5, <1>6 DEF Next, Call

\* The pool of cpu.c behind the admission of worker.c is a bounded server: it
\* never withholds a free CPU and serves waiters in the order they came.
THEOREM WorkerIsServer == Spec => ServerSpec
  BY Invariance, InitServes, NextServes, PTL DEF Spec, ServerSpec, Server!Spec

-----------------------------------------------------------------------------
(* The ring that holds the wait queue.                                     *)

RingFacts == INSTANCE RingQueueProofs WITH
    Items <- Jobs, NoItem <- NoJob, Capacity <- QueueLimit

\* What RingQueue assumes of its constants holds of the worker's.
LEMMA RingConstants == RingFacts!RingAssumption
  BY WorkerAssumption DEF RingFacts!RingAssumption

\* The lemmas are about the worker's ring.
LEMMA SameRing ==
    /\ Ring!NewRing = RingFacts!NewRing
    /\ \A q : /\ Ring!RingOK(q) <=> RingFacts!RingOK(q)
              /\ Ring!Contents(q) = RingFacts!Contents(q)
              /\ Ring!Empty(q) <=> RingFacts!Empty(q)
              /\ Ring!Full(q) <=> RingFacts!Full(q)
              /\ Ring!Pop(q) = RingFacts!Pop(q)
              /\ \A x : Ring!Store(q, x) = RingFacts!Store(q, x)
  BY DEF Ring!NewRing, RingFacts!NewRing, Ring!RingOK, RingFacts!RingOK,
         Ring!Contents, RingFacts!Contents, Ring!Empty, RingFacts!Empty,
         Ring!Full, RingFacts!Full, Ring!Pop, RingFacts!Pop, Ring!Store, RingFacts!Store,
         Ring!Place, RingFacts!Place, Ring!Places, RingFacts!Places,
         Ring!RingState, RingFacts!RingState, Ring!After, RingFacts!After

QueueInv == Inv /\ RingHoldsLine

\* What the invariant says of the ring's tests.
LEMMA RingTests ==
    ASSUME QueueInv
    PROVE  /\ worker \in WorkerState /\ Ring!RingOK(ring)
           /\ Ring!Empty(ring) <=> worker.wait_queue = <<>>
           /\ Ring!Full(ring) \/ ring.finalized
                <=> Len(worker.wait_queue) >= QueueLimit \/ worker.spinning_down
  <1>1. /\ worker \in WorkerState /\ Ring!RingOK(ring)
        /\ Ring!Contents(ring) = worker.wait_queue
        /\ ring.finalized = worker.spinning_down
    BY DEF QueueInv, Inv, WorkerInv, WorkerOK, RingHoldsLine, Ring!TypeOK
  <1>2. /\ ring.count \in Nat /\ worker.wait_queue \in Seq(Jobs)
    BY <1>1 DEF Ring!RingOK, Ring!RingState, WorkerState
  <1>3. Len(worker.wait_queue) = ring.count
    BY <1>1, <1>2 DEF Ring!Contents
  <1> QED BY <1>1, <1>2, <1>3, WorkerAssumption DEF Ring!Empty, Ring!Full

\* A ring that takes an item, or gives one up, still holds the line when the
\* line has done the same.
LEMMA RingFollows ==
    ASSUME QueueInv
    PROVE  /\ \A j \in Jobs : ~Ring!Full(ring) =>
                /\ Ring!RingOK(Ring!Store(ring, j))
                /\ Ring!Contents(Ring!Store(ring, j)) = Append(worker.wait_queue, j)
                /\ Ring!Store(ring, j).finalized = ring.finalized
           /\ ~Ring!Empty(ring) =>
                /\ Ring!RingOK(Ring!Pop(ring))
                /\ Ring!Contents(Ring!Pop(ring)) = Tail(worker.wait_queue)
                /\ Ring!Pop(ring).finalized = ring.finalized
  <1>1. /\ Ring!RingOK(ring) /\ Ring!Contents(ring) = worker.wait_queue
    BY DEF QueueInv, RingHoldsLine, Ring!TypeOK
  <1>2. /\ \A j : Ring!Store(ring, j).finalized = ring.finalized
        /\ Ring!Pop(ring).finalized = ring.finalized
    BY <1>1 DEF Ring!RingOK, Ring!RingState, Ring!Store, Ring!Pop
  <1>3. ASSUME NEW j \in Jobs, ~Ring!Full(ring)
        PROVE  /\ Ring!RingOK(Ring!Store(ring, j))
               /\ Ring!Contents(Ring!Store(ring, j)) = Append(worker.wait_queue, j)
    BY <1>1, <1>3, RingConstants, SameRing, RingFacts!StoreAppends
  <1>4. ASSUME ~Ring!Empty(ring)
        PROVE  /\ Ring!RingOK(Ring!Pop(ring))
               /\ Ring!Contents(Ring!Pop(ring)) = Tail(worker.wait_queue)
    BY <1>1, <1>4, RingConstants, SameRing, RingFacts!PopRemoves
  <1> QED BY <1>2, <1>3, <1>4

\* The ring follows the line through a compute call.
LEMMA ComputeQueuedInv ==
    ASSUME QueueInv, NEW j \in Jobs, NEW m \in Sizes, ComputeQueued(j, m)
    PROVE  RingHoldsLine'
  <1>1. m \in Nat /\ worker' = ReserveCompute(worker, j, m)
    BY SizesAssumption DEF ComputeQueued, Compute
  <1> DEFINE joins == /\ ComputeAdmitted(worker, m) /\ worker.available = <<>>
                      /\ ~PoolRefuses(worker)
  <1>2. /\ worker'.spinning_down = worker.spinning_down
        /\ worker'.wait_queue = IF joins THEN Append(worker.wait_queue, j)
                                         ELSE worker.wait_queue
    BY <1>1, RingTests, ComputeLine
  <1>3. ring' = IF joins THEN Ring!Store(ring, j) ELSE ring
    BY RingTests DEF ComputeQueued, PoolRefuses, Ring!Push
  <1>4. joins => ~Ring!Full(ring)
    BY RingTests DEF PoolRefuses
  <1>5. /\ Ring!RingOK(ring) /\ Ring!Contents(ring) = worker.wait_queue
        /\ ring.finalized = worker.spinning_down
    BY DEF QueueInv, RingHoldsLine, Ring!TypeOK
  <1> HIDE DEF joins
  <1> QED BY <1>2, <1>3, <1>4, <1>5, RingFollows DEF RingHoldsLine, Ring!TypeOK

\* The ring follows the line through every step.
LEMMA RingHoldsLineNext == QueueInv /\ [QueueNext]_queueVars => RingHoldsLine'
  <1> SUFFICES ASSUME QueueInv, [QueueNext]_queueVars PROVE RingHoldsLine'
    OBVIOUS
  <1>1. /\ Ring!RingOK(ring) /\ Ring!Contents(ring) = worker.wait_queue
        /\ ring.finalized = worker.spinning_down /\ worker \in WorkerState
    BY RingTests DEF QueueInv, RingHoldsLine, Ring!TypeOK
  <1>2. ASSUME NEW j \in Jobs, NEW m \in Sizes, Disk(j, m), UNCHANGED ring
        PROVE  RingHoldsLine'
    <2>1. /\ worker'.wait_queue = worker.wait_queue
          /\ worker'.spinning_down = worker.spinning_down
      BY <1>1, <1>2 DEF Disk, ReserveDisk, RamReserve, WorkerState
    <2> QED BY <1>1, <1>2, <2>1 DEF RingHoldsLine, Ring!TypeOK
  <1>3. ASSUME NEW c \in Cpus, CpuEventQueued(c) PROVE RingHoldsLine'
    <2>1. /\ c \in Busy(worker) /\ worker' = CpuDone(worker, c)
          /\ ring' = IF Ring!Empty(ring) THEN ring ELSE Ring!Pop(ring)
      BY <1>3 DEF CpuEventQueued, CpuEvent
    <2>2. /\ worker'.spinning_down = worker.spinning_down
          /\ worker'.wait_queue = IF worker.wait_queue = <<>> THEN worker.wait_queue
                                                              ELSE Tail(worker.wait_queue)
      BY <1>1, <2>1, CpuDoneLine
    <2> QED BY <1>1, <2>1, <2>2, RingTests, RingFollows DEF RingHoldsLine, Ring!TypeOK
  <1>4. ASSUME NEW j \in Jobs, DiskEvent(j), UNCHANGED ring PROVE RingHoldsLine'
    <2>1. /\ worker'.wait_queue = worker.wait_queue
          /\ worker'.spinning_down = worker.spinning_down
      BY <1>1, <1>4 DEF DiskEvent, DiskDone, RamRelease, WorkerState
    <2> QED BY <1>1, <1>4, <2>1 DEF RingHoldsLine, Ring!TypeOK
  <1>5. CASE SpinDownQueued
    <2>1. /\ worker'.wait_queue = worker.wait_queue /\ worker'.spinning_down = TRUE
      BY <1>1, <1>5 DEF SpinDownQueued, SpinDown, CloseQueue, WorkerState
    <2>2. /\ Ring!RingOK(ring') /\ Ring!Contents(ring') = Ring!Contents(ring)
          /\ ring'.finalized = TRUE
      BY <1>1, <1>5 DEF SpinDownQueued, Ring!Finalize, Ring!RingOK, Ring!RingState,
                        Ring!Contents, Ring!Place
    <2> QED BY <1>1, <2>1, <2>2 DEF RingHoldsLine, Ring!TypeOK
  <1>6. CASE FailWaiterQueued
    <2>1. worker' = WakeHead(worker) /\ ~Ring!Empty(ring) /\ ring' = Ring!Pop(ring)
      BY <1>6 DEF FailWaiterQueued, FailWaiter
    <2>2. /\ worker'.spinning_down = worker.spinning_down
          /\ worker'.wait_queue = Tail(worker.wait_queue)
      BY <1>1, <2>1, WakeHeadLine
    <2> QED BY <1>1, <2>1, <2>2, RingFollows DEF RingHoldsLine, Ring!TypeOK
  <1>7. CASE UNCHANGED queueVars
    BY <1>1, <1>7 DEF queueVars, RingHoldsLine, Ring!TypeOK
  <1> QED BY <1>2, <1>3, <1>4, <1>5, <1>6, <1>7, ComputeQueuedInv DEF QueueNext

-----------------------------------------------------------------------------
(* The theorems.                                                           *)

\* The ring changes nothing for the worker: its steps are Worker's.
LEMMA QueueStepIsWorkerStep == [QueueNext]_queueVars => [Next]_vars
  BY DEF QueueNext, queueVars, Next, vars, Call, ComputeQueued, CpuEventQueued,
         SpinDownQueued, FailWaiterQueued

\* Before the first call the ring is empty, as the line is.
LEMMA RingHoldsLineInit == QueueInit => RingHoldsLine
  <1> SUFFICES ASSUME QueueInit PROVE RingHoldsLine
    OBVIOUS
  <1>1. worker.wait_queue = <<>> /\ worker.spinning_down = FALSE
    BY DEF QueueInit, Init, FreshWorkers
  <1>2. /\ Ring!RingOK(Ring!NewRing) /\ Ring!Contents(Ring!NewRing) = <<>>
    BY RingConstants, SameRing, RingFacts!NewRingOK
  <1>3. Ring!NewRing.finalized = FALSE
    BY DEF Ring!NewRing
  <1> QED BY <1>1, <1>2, <1>3 DEF QueueInit, RingHoldsLine, Ring!TypeOK

\* The line, the books and the ring agree in every reachable state.
LEMMA QueueInvariance == QueueSpec => []QueueInv
  <1>1. QueueInit => QueueInv
    BY InitInv, RingHoldsLineInit DEF QueueInit, QueueInv
  <1>2. QueueInv /\ [QueueNext]_queueVars => QueueInv'
    BY NextInv, QueueStepIsWorkerStep, RingHoldsLineNext DEF QueueInv
  <1> QED BY <1>1, <1>2, PTL DEF QueueSpec

\* The ring of a worker holds exactly its waiting jobs, in their order, and is
\* closed with its pool; no continuation is lost to a push that is refused.
THEOREM RingAlwaysHoldsLine == QueueSpec => []RingHoldsLine
  <1>1. QueueInv => RingHoldsLine
    BY DEF QueueInv
  <1> QED BY <1>1, QueueInvariance, PTL

\* Each step of the worker is a step of the ring.
LEMMA QueueStepIsRingStep == QueueInv /\ [QueueNext]_queueVars => [Ring!Next]_ring
  <1> SUFFICES ASSUME QueueInv, [QueueNext]_queueVars, ring' # ring PROVE Ring!Next
    OBVIOUS
  <1>1. ASSUME NEW j \in Jobs, NEW m \in Sizes, ComputeQueued(j, m) PROVE Ring!Next
    BY <1>1 DEF ComputeQueued, Ring!Next, Ring!PushItem
  <1>2. ASSUME NEW c \in Cpus, CpuEventQueued(c) PROVE Ring!Next
    BY <1>2 DEF CpuEventQueued, Ring!Next, Ring!PopItem
  <1>3. SpinDownQueued => Ring!Next
    BY DEF SpinDownQueued, Ring!Next, Ring!Closing
  <1>4. FailWaiterQueued => Ring!Next
    BY DEF FailWaiterQueued, Ring!Next, Ring!PopItem
  <1> QED BY <1>1, <1>2, <1>3, <1>4 DEF QueueNext, queueVars

\* The worker's wait queue is a bounded first-in first-out queue.
THEOREM WaitQueueImplementsFifo == QueueSpec => WaitQueueIsFifo
  <1>1. QueueInit => RingFacts!Init
    BY SameRing DEF QueueInit, RingFacts!Init
  <1>2. [Ring!Next]_ring => [RingFacts!Next]_ring
    BY SameRing DEF Ring!Next, RingFacts!Next, Ring!PushItem, RingFacts!PushItem,
       Ring!PopItem, RingFacts!PopItem, Ring!Closing, RingFacts!Closing, 
       Ring!Push, RingFacts!Push, Ring!Finalize, RingFacts!Finalize
  <1>3. QueueSpec => RingFacts!Spec
    BY <1>1, <1>2, QueueInvariance, QueueStepIsRingStep, PTL DEF QueueSpec, RingFacts!Spec
  <1>4. RingFacts!Spec => RingFacts!IsFifo
    BY RingFacts!RingImplementsFifo, RingConstants
  <1>5. RingFacts!IsFifo => WaitQueueIsFifo
    <2>1. RingFacts!Abstract!Init => Ring!Abstract!Init
      BY DEF RingFacts!Abstract!Init, Ring!Abstract!Init, Ring!Contents, RingFacts!Contents,
             Ring!Place, RingFacts!Place
    <2>2. [RingFacts!Abstract!Next]_(RingFacts!Abstract!vars)
            => [Ring!Abstract!Next]_(Ring!Abstract!vars)
      BY DEF RingFacts!Abstract!Next, Ring!Abstract!Next, RingFacts!Abstract!vars,
             Ring!Abstract!vars, Ring!Contents, RingFacts!Contents, Ring!Place, RingFacts!Place,
             RingFacts!Abstract!Put, Ring!Abstract!Put, RingFacts!Abstract!Take,
             Ring!Abstract!Take, RingFacts!Abstract!Close, Ring!Abstract!Close
    <2> QED BY <2>1, <2>2, PTL DEF RingFacts!IsFifo, WaitQueueIsFifo, Ring!IsFifo,
               RingFacts!Abstract!Spec, Ring!Abstract!Spec
  <1> QED BY <1>3, <1>4, <1>5, PTL
=============================================================================

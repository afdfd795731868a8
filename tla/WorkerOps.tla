----------------------------- MODULE WorkerOps -----------------------------
(***************************************************************************)
(* The physical side of one worker: its CPU pool (cpu.c), its RAM (ram.c), *)
(* its disk (disk.c) and the admission control in front of them            *)
(* (worker.c).  The program is single threaded, so an API call or an event *)
(* handler runs to completion; each operator below is such a run, from one *)
(* value of a worker record to the next.  Worker.tla drives one worker     *)
(* with an arbitrary client, Requests.tla drives several with the real     *)
(* request state machines.                                                 *)
(*                                                                         *)
(* A job is one outstanding reservation: the chain of continuation         *)
(* contexts (worker, RAM wrapper, CPU or disk) that one call allocates.    *)
(* Simulated time is abstracted: a reservation that has started may end at *)
(* any later event.  Byte counts are naturals, where the code has doubles. *)
(***************************************************************************)
EXTENDS Integers, Sequences, FiniteSets

CONSTANTS
    Cpus,          \* the CPUs of the worker's pool
    Jobs,          \* the reservations that may be outstanding
    NoJob,         \* "this CPU serves nobody" (last_reserved_time = -1.0)
    QueueLimit,    \* dse_config.queue_length, also the wait queue's capacity
    RamCapacity    \* ram->capacity

ASSUME WorkerAssumption ==
    /\ IsFiniteSet(Cpus) /\ Cpus # {}     \* dse_config_cpus_per_worker >= 1
    /\ IsFiniteSet(Jobs)
    /\ NoJob \notin Jobs
    /\ QueueLimit \in Nat
    /\ RamCapacity \in Nat

-----------------------------------------------------------------------------
(* State.                                                                  *)

WorkerState ==
    [ available     : Seq(Cpus),                \* pool->available_cpus, a DynArray
      task          : [Cpus -> Jobs \cup {NoJob}], \* whom each CPU serves
      wait_queue    : Seq(Jobs),                \* pool->wait_queue, head first
      spinning_down : BOOLEAN,                  \* with wait_queue.finalized
      utilized      : Int,                      \* ram->utilized
      ongoing       : [Jobs -> Nat],            \* bytes of each job's RAM reservation
      queue_length  : Int,                      \* jobs admitted to compute
      io            : SUBSET Jobs ]             \* disk operations in flight

Elements(s)  == {s[i] : i \in 1..Len(s)}
NoRepeats(s) == \A i, k \in 1..Len(s) : s[i] = s[k] => i = k

Busy(w)         == {c \in Cpus : w.task[c] # NoJob}
Running(w)      == {w.task[c] : c \in Busy(w)}
Waiting(w)      == Elements(w.wait_queue)
Outstanding(w)  == Running(w) \cup Waiting(w) \cup w.io
RamAvailable(w) == RamCapacity - w.utilized

\* A worker just created: every CPU is available, in the order of the
\* creation loop (any order, since CPUs differ only by their address).
FreshWorkers ==
    { w \in [ available     : [1..Cardinality(Cpus) -> Cpus],
              task          : [Cpus -> {NoJob}],
              wait_queue    : {<<>>},
              spinning_down : {FALSE},
              utilized      : {0},
              ongoing       : [Jobs -> {0}],
              queue_length  : {0},
              io            : {{}} ] :
        NoRepeats(w.available) /\ Elements(w.available) = Cpus }

-----------------------------------------------------------------------------
(* RAM.                                                                    *)

RamReserve(w, j, m) == [w EXCEPT !.utilized = @ + m, !.ongoing[j] = m]
RamRelease(w, j)    == [w EXCEPT !.utilized = @ - w.ongoing[j], !.ongoing[j] = 0]

-----------------------------------------------------------------------------
(* CPU pool.                                                               *)

\* dynarray_remove of items[0]: the last item takes the freed place.
TakeFirst(s) == [i \in 1..(Len(s) - 1) |-> IF i = 1 THEN s[Len(s)] ELSE s[i]]

\* cpu_reserve of the first available CPU for job j.
CpuReserve(w, j) ==
    [w EXCEPT !.task[w.available[1]] = j, !.available = TakeFirst(@)]

\* Mutant: the wait queue is made one place shorter than what the running jobs
\* leave of the limit.
PoolRefusesEarly(w) ==
    /\ w.available = <<>>
    /\ Len(w.wait_queue) >= QueueLimit - Cardinality(Cpus) - 1 \/ w.spinning_down

\* cpu_pool_reserve refuses (QUEUE_FULL): no CPU, and no place to wait.
PoolRefuses(w) ==
    /\ w.available = <<>>
    /\ Len(w.wait_queue) >= QueueLimit \/ w.spinning_down

\* Mutant: the newest waiter is put at the head.
EnqueueFirst(w, j) == [w EXCEPT !.wait_queue = <<j>> \o @]

\* bq_push of the continuation that waits for a CPU.
Enqueue(w, j) == [w EXCEPT !.wait_queue = Append(@, j)]

\* cpu_pool_reserve otherwise: run at once, or wait.
PoolReserve(w, j) ==
    IF w.available # <<>> THEN CpuReserve(w, j) ELSE Enqueue(w, j)

\* Mutant: the job never leaves the queue.
ComputeDoneStays(w, j) == RamRelease(w, j)

\* The completion of a compute job, with whatever result: the RAM wrapper
\* returns the bytes, then the worker's own continuation leaves the queue.
ComputeDone(w, j) == [RamRelease(w, j) EXCEPT !.queue_length = @ - 1]

\* cpu_pool_reserve_got_cpu finds no CPU and fails the waiter.
WakeFails(w) == w.available = <<>>

\* Mutant: the head is read but not popped.
DequeuePeeks(w) == w

\* bq_pop.
Dequeue(w) == [w EXCEPT !.wait_queue = Tail(@)]

\* The head of the wait queue is popped and its stored continuation invoked.
WakeHead(w) ==
    IF WakeFails(w) THEN ComputeDone(Dequeue(w), Head(w.wait_queue))
                    ELSE CpuReserve(Dequeue(w), Head(w.wait_queue))

\* Mutant: nobody is woken.
PoolReleaseForgets(w) == w

\* cpu_pool_release: hand the CPU just returned to the next waiter.
PoolRelease(w) == IF w.wait_queue = <<>> THEN w ELSE WakeHead(w)

\* Mutant: the CPU is pushed back only after the wake-up, which misses it.
CpuReturnedLate(w, c) == [w EXCEPT !.task[c] = NoJob]

\* cpu_reserve_done, first half: the CPU goes back to the pool.
CpuReturned(w, c) ==
    [w EXCEPT !.task[c] = NoJob, !.available = Append(@, c)]

\* cpu_reserve_done: the CPU changes hands BEFORE the finished job returns
\* its RAM and its place in the worker's queue.
CpuDone(w, c) == ComputeDone(PoolRelease(CpuReturned(w, c)), w.task[c])

\* cpu_pool_spin_down up to its loop; the loop then does WakeHead.
CloseQueue(w) == [w EXCEPT !.spinning_down = TRUE]

-----------------------------------------------------------------------------
(* The worker's API.                                                       *)

\* The fast-path test of worker_reserve_compute.
ComputeAdmitted(w, m) == w.queue_length < QueueLimit /\ m <= RamAvailable(w)

Admit(w, j, m) == [RamReserve(w, j, m) EXCEPT !.queue_length = @ + 1]

\* Mutant: memory is not looked at.
ComputeRefusedByQueue(w, m) == w.queue_length >= QueueLimit \/ PoolRefuses(w)

\* worker_reserve_compute invokes its continuation with 5XX before returning.
ComputeRefused(w, m) == ~ComputeAdmitted(w, m) \/ PoolRefuses(w)

\* worker_reserve_compute.  A pool that refuses makes the job leave at once.
ReserveCompute(w, j, m) ==
    IF ~ComputeAdmitted(w, m) THEN w
    ELSE IF PoolRefuses(w)    THEN ComputeDone(Admit(w, j, m), j)
                              ELSE PoolReserve(Admit(w, j, m), j)

\* worker_reserve_disk and disk_reserve_op: only RAM can refuse; any number
\* of operations run side by side.
DiskRefused(w, m) == RamAvailable(w) < m

ReserveDisk(w, j, m) ==
    IF DiskRefused(w, m) THEN w
    ELSE [RamReserve(w, j, m) EXCEPT !.io = @ \cup {j}]

\* Mutant: the disk's memory is never returned.
DiskDoneLeaks(w, j) == [w EXCEPT !.io = @ \ {j}]

\* disk_reserve_done, ram_wrap_done, reserve_disk_done.
DiskDone(w, j) == [RamRelease(w, j) EXCEPT !.io = @ \ {j}]

-----------------------------------------------------------------------------
(* What holds of a worker between two operations.                          *)

\* cpu.c:106, 218 and 251 assert that a CPU taken from available_cpus is
\* idle; conversely an idle CPU is always available, and available once.
AvailableIsIdle(w) ==
    /\ NoRepeats(w.available)
    /\ Elements(w.available) = Cpus \ Busy(w)

\* No job waits while a CPU idles.
WorkConserving(w) == w.wait_queue # <<>> => w.available = <<>>

\* A job is in one place: at most one CPU, at most one place in the queue,
\* or on the disk.
EachJobOnce(w) ==
    /\ NoRepeats(w.wait_queue)
    /\ \A c, d \in Busy(w) : w.task[c] = w.task[d] => c = d
    /\ Running(w) \cap Waiting(w) = {}
    /\ w.io \cap (Running(w) \cup Waiting(w)) = {}

\* queue_length counts exactly the jobs on a CPU or waiting for one, and
\* never exceeds the configured limit.
QueueAccounting(w) ==
    /\ w.queue_length = Len(w.wait_queue) + Cardinality(Busy(w))
    /\ w.queue_length <= QueueLimit

\* The units of memory that the outstanding reservations hold.
HeldUnits(w) == UNION {{j} \X (1..w.ongoing[j]) : j \in Jobs}

\* utilized is the total of the reservations, only an outstanding job holds
\* one, and memory is never overcommitted.
RamAccounting(w) ==
    /\ \A j \in Jobs : w.ongoing[j] # 0 => j \in Outstanding(w)
    /\ w.utilized = Cardinality(HeldUnits(w))
    /\ w.utilized <= RamCapacity

WorkerOK(w) ==
    /\ w \in WorkerState
    /\ AvailableIsIdle(w)
    /\ WorkConserving(w)
    /\ EachJobOnce(w)
    /\ QueueAccounting(w)
    /\ RamAccounting(w)
=============================================================================

------------------------------- MODULE Worker -------------------------------
(***************************************************************************)
(* One worker (worker.c, cpu.c, ram.c, disk.c) under the most general      *)
(* client: whoever holds no outstanding reservation may ask for compute or *)
(* disk at any time, whether from an event handler of its own or from the  *)
(* continuation of the call that just ended.  The only events of the       *)
(* worker itself are the ends of CPU and disk reservations, which the      *)
(* clock delivers in an order that depends on their durations.             *)
(***************************************************************************)
EXTENDS WorkerOps

CONSTANT Sizes      \* the byte counts the client may ask for

ASSUME SizesAssumption == Sizes \subseteq Nat

VARIABLES
    worker,     \* the worker's record
    pending,    \* per job: the kind of call that has not been answered
    answer      \* per job: what its last call was answered

vars == <<worker, pending, answer>>

Init ==
    /\ worker \in FreshWorkers
    /\ pending = [j \in Jobs |-> "none"]
    /\ answer = [j \in Jobs |-> "none"]

\* cont_invoke(caller, result): the call of j is over.
Answered(j, result) ==
    /\ pending' = [pending EXCEPT ![j] = "none"]
    /\ answer' = [answer EXCEPT ![j] = result]

\* The call of j returned without invoking its continuation.
Accepted(j, kind) ==
    /\ pending' = [pending EXCEPT ![j] = kind]
    /\ answer' = [answer EXCEPT ![j] = "none"]

\* cpu_pool_spin_down is between two waiters: control is in its loop, not
\* in the event loop.
Closing == worker.spinning_down /\ worker.wait_queue # <<>>

-----------------------------------------------------------------------------
\* worker_reserve_compute.
Compute(j, m) ==
    /\ pending[j] = "none"
    /\ worker' = ReserveCompute(worker, j, m)
    /\ IF ComputeRefused(worker, m) THEN Answered(j, "5XX")
                                    ELSE Accepted(j, "compute")

\* worker_reserve_disk.
Disk(j, m) ==
    /\ pending[j] = "none"
    /\ worker' = ReserveDisk(worker, j, m)
    /\ IF DiskRefused(worker, m) THEN Answered(j, "5XX")
                                 ELSE Accepted(j, "disk")

\* The waiter, if any, that cpu_pool_release fails instead of running it.
FailedByRelease(w) ==
    IF w.wait_queue # <<>> /\ WakeFails(w) THEN {Head(w.wait_queue)} ELSE {}

\* cpu_reserve_done: the event that ends the reservation of CPU c.
CpuEvent(c) ==
    LET done   == worker.task[c]
        failed == FailedByRelease(CpuReturned(worker, c))
    IN  /\ ~Closing
        /\ c \in Busy(worker)
        /\ worker' = CpuDone(worker, c)
        /\ pending' = [j \in Jobs |-> IF j = done \/ j \in failed THEN "none" ELSE pending[j]]
        /\ answer' = [j \in Jobs |-> IF j = done THEN "4XX"
                                     ELSE IF j \in failed THEN "5XX" ELSE answer[j]]

\* disk_reserve_done: the event that ends the disk operation of j.
DiskEvent(j) ==
    /\ ~Closing
    /\ j \in worker.io
    /\ worker' = DiskDone(worker, j)
    /\ Answered(j, "4XX")

\* cpu_pool_spin_down up to its loop.  It is called once per worker.
SpinDown ==
    /\ ~worker.spinning_down
    /\ worker' = CloseQueue(worker)
    /\ UNCHANGED <<pending, answer>>

\* Mutant: the result the loop gives is passed on.
FailWaiterWithShutdown ==
    /\ Closing
    /\ worker' = WakeHead(worker)
    /\ Answered(Head(worker.wait_queue), "WORKER_SHUTDOWN")

\* One turn of the loop of cpu_pool_spin_down.  got_cpu ignores the result
\* WORKER_SHUTDOWN it is given: it fails the waiter only for want of a CPU.
FailWaiter ==
    /\ Closing
    /\ worker' = WakeHead(worker)
    /\ IF WakeFails(worker) THEN Answered(Head(worker.wait_queue), "5XX")
                            ELSE UNCHANGED <<pending, answer>>

Call == \E j \in Jobs, m \in Sizes : Compute(j, m) \/ Disk(j, m)

Next ==
    \/ Call
    \/ \E c \in Cpus : CpuEvent(c)
    \/ \E j \in Jobs : DiskEvent(j)
    \/ SpinDown
    \/ FailWaiter

\* A scheduled event has a finite time and the clock pops events in time
\* order, so it is handled; the loop of cpu_pool_spin_down runs to its end.
\* Nothing obliges the client to call.
Fairness ==
    /\ \A c \in Cpus : WF_vars(CpuEvent(c))
    /\ \A j \in Jobs : WF_vars(DiskEvent(j))
    /\ WF_vars(FailWaiter)

Spec     == Init /\ [][Next]_vars
FairSpec == Spec /\ Fairness

-----------------------------------------------------------------------------
(* Properties.                                                             *)

\* The worker's record and the client's books have their types.
TypeOK ==
    /\ worker \in WorkerState
    /\ pending \in [Jobs -> {"none", "compute", "disk"}]
    /\ answer \in [Jobs -> {"none", "4XX", "5XX"}]

\* The asserts of cpu.c:106, 218 and 251 cannot fail, no CPU is lost from
\* or duplicated in available_cpus, and no job waits while a CPU idles: the
\* wake-up of cpu_pool_release is never missed.
PoolConsistent == AvailableIsIdle(worker) /\ WorkConserving(worker)

\* Until the pool spins down the QUEUE_FULL branch of cpu_pool_reserve is
\* dead: a job the worker admits always finds a CPU or a place to wait,
\* because running jobs count against the same limit as the waiting ones.
AdmittedHasRoom ==
    worker.queue_length < QueueLimit /\ PoolRefuses(worker) => worker.spinning_down

\* queue_length and utilized, which are kept by increments and decrements in
\* different continuations, agree with the reservations outstanding and stay
\* within the configured limits; and the two limits on the queue, one kept by the
\* worker and one by the pool, agree.
Accounting == QueueAccounting(worker) /\ RamAccounting(worker) /\ AdmittedHasRoom

\* An unanswered compute call is on exactly one CPU or at exactly one place
\* of the wait queue, an unanswered disk call is on the disk, and nothing
\* else is: no continuation is lost and none is kept to be invoked twice.
PendingIsPlaced ==
    /\ EachJobOnce(worker)
    /\ {j \in Jobs : pending[j] = "compute"} = Running(worker) \cup Waiting(worker)
    /\ {j \in Jobs : pending[j] = "disk"} = worker.io

\* A compute call that was accepted is answered 5XX only by a spin-down: the
\* "This shouldn't happen" branch of cpu.c:243 is not taken by a wake-up.
AcceptedIsServed ==
    [][\A j \in Jobs :
         pending[j] = "compute" /\ pending'[j] = "none" /\ ~worker.spinning_down
            => answer'[j] = "4XX"]_vars

\* Every call is answered: a waiter is not overtaken for ever.
CallsEnd == \A j \in Jobs : pending[j] # "none" ~> pending[j] = "none"
\* The CPU pool is a server with a waiting line: the CPUs serve, waiters are
\* served in the order of their arrival, a free CPU is never withheld and
\* admission is what queue_length says.
Server == INSTANCE BoundedServer WITH
    Customers <- Jobs,
    N         <- Cardinality(Cpus),
    Limit     <- QueueLimit,
    serving   <- Running(worker),
    line      <- worker.wait_queue,
    open      <- ~worker.spinning_down

ServerSpec == Server!Spec

\* Under the clock's fairness every customer of the abstract server who is
\* served leaves.
ServerFairSpec == Server!FairSpec
=============================================================================

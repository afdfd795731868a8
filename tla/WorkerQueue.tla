----------------------------- MODULE WorkerQueue -----------------------------
(***************************************************************************)
(* Worker with the ring buffer that holds its wait queue.  Worker keeps    *)
(* the waiting jobs as a sequence; here each action also does to the ring  *)
(* what the code does, on the ring's own conditions.                       *)
(***************************************************************************)
EXTENDS Worker

VARIABLE ring       \* pool->wait_queue

Ring == INSTANCE RingQueue WITH
    Items <- Jobs, NoItem <- NoJob, Capacity <- QueueLimit

queueVars == <<worker, pending, answer, ring>>

QueueInit == Init /\ ring = Ring!NewRing

\* Mutant: the result of cpu_pool_reserve's test is that of the ring before
\* the pool is closed.
ComputeQueuedWhenClosed(j, m) ==
    /\ Compute(j, m)
    /\ ring' = IF /\ ComputeAdmitted(worker, m)
                  /\ worker.available = <<>> /\ ~Ring!Full(ring)
               THEN Ring!Store(ring, j) ELSE ring

\* cpu_pool_reserve pushes when no CPU is available and the ring takes it; the
\* result of bq_push is not looked at.
ComputeQueued(j, m) ==
    /\ Compute(j, m)
    /\ ring' = IF /\ ComputeAdmitted(worker, m)
                  /\ worker.available = <<>> /\ ~(Ring!Full(ring) \/ ring.finalized)
               THEN Ring!Push(ring, j) ELSE ring

\* Mutant: the continuation is read from the ring but left there.
CpuEventPeeks(c) == CpuEvent(c) /\ UNCHANGED ring

\* cpu_pool_release pops one waiter, if there is one.
CpuEventQueued(c) ==
    /\ CpuEvent(c)
    /\ ring' = IF Ring!Empty(ring) THEN ring ELSE Ring!Pop(ring)

SpinDownQueued == SpinDown /\ ring' = Ring!Finalize(ring)

\* One turn of the loop of cpu_pool_spin_down.
FailWaiterQueued ==
    /\ FailWaiter
    /\ ~Ring!Empty(ring)
    /\ ring' = Ring!Pop(ring)

QueueNext ==
    \/ \E j \in Jobs, m \in Sizes :
         ComputeQueued(j, m) \/ (Disk(j, m) /\ UNCHANGED ring)
    \/ \E c \in Cpus : CpuEventQueued(c)
    \/ \E j \in Jobs : DiskEvent(j) /\ UNCHANGED ring
    \/ SpinDownQueued
    \/ FailWaiterQueued

QueueSpec     == QueueInit /\ [][QueueNext]_queueVars
QueueFairSpec == QueueSpec /\ Fairness

-----------------------------------------------------------------------------
(* Properties.                                                             *)

\* The ring holds exactly the waiting jobs, oldest at its head, and is closed
\* with the pool.  In particular no push is ever refused, which cpu.c:236 would
\* not notice: the job's continuation would be lost.
RingHoldsLine ==
    /\ Ring!TypeOK
    /\ Ring!Contents(ring) = worker.wait_queue
    /\ ring.finalized = worker.spinning_down

\* The worker uses its ring as a bounded first-in first-out queue.  Once closed it
\* only drains, whatever the clients called back by the spin-down loop ask for, so
\* the loop of cpu_pool_spin_down ends.
WaitQueueIsFifo == Ring!IsFifo
=============================================================================

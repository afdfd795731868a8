----------------------------- MODULE Profiling -----------------------------
(***************************************************************************)
(* A worker with time and with what its CPUs, its RAM and its disk tell    *)
(* the profiler (cpu_run_profiler, ram_run_profiler, disk_run_profiler):   *)
(* each keeps sums that its handlers update and that a tick reads and      *)
(* resets, also in the middle of reservations, while waiters take over and *)
(* while a blue-green scaling slows the CPUs down.  The clients are as in  *)
(* Worker: any job that is not outstanding may be asked for at any time.   *)
(*                                                                         *)
(* Times and durations are naturals; cycles / freq and bytes / speed are   *)
(* any of Durations.  CPU shares are counted in Whole-ths of a CPU.        *)
(***************************************************************************)
EXTENDS WorkerOps

CONSTANTS
    Sizes,          \* the byte counts that jobs ask for
    Durations,      \* how long a CPU or disk reservation takes
    Births,         \* when the worker is ready: actor_init has last_profiled = 0.0
    Whole,          \* 1.0
    BlueGreenUtil,  \* config.blue_green_cpu_util, in the same unit
    Horizon         \* bound: the last time

ASSUME ProfilingAssumption ==
    /\ Sizes \subseteq Nat \ {0}
    /\ Durations \subseteq Nat /\ Births \subseteq Nat
    /\ Whole \in Nat /\ BlueGreenUtil \in 0..Whole

VARIABLES
    worker,     \* the worker's record
    now,        \* clock.time
    timer,      \* per job: the length of its reservation and when that ends
    cpu,        \* per CPU: its profiling fields
    ram,        \* the RAM's
    disk,       \* the disk's
    truth       \* history: see Pass

vars == <<worker, now, timer, cpu, ram, disk, truth>>

Never == -1             \* -1.0
Ops   == {"read", "write"}

Later(s, t)   == IF s < t THEN t ELSE s
Earlier(s, t) == IF s < t THEN s ELSE t

-----------------------------------------------------------------------------
(* CPUs.                                                                   *)

NewCpu ==
    [ last_reserved_time |-> Never, busy_time |-> 0, blue_green_active |-> FALSE,
      blue_green_start |-> 0, baseline_utilization |-> 0, empty_profile_count |-> 0,
      last_profiled |-> 0 ]

\* cpu_reserve.
CpuStarts(c) == [c EXCEPT !.last_reserved_time = now]

\* Mutant: the whole reservation is counted, also what a profile has reported.
CpuEndsWhole(c, duration) ==
    [c EXCEPT !.busy_time = @ + duration * (Whole - c.baseline_utilization),
              !.last_reserved_time = Never]

\* cpu_reserve_done.
CpuEnds(c, duration) ==
    [c EXCEPT !.busy_time =
                @ + Earlier(duration, now - c.last_reserved_time)
                      * (Whole - c.baseline_utilization),
              !.last_reserved_time = Never]

\* cpu_start_blue_green.
CpuSlowsDown(c) ==
    [c EXCEPT !.blue_green_active = TRUE, !.blue_green_start = now,
              !.baseline_utilization = BlueGreenUtil]

CpuIsBusy(c) == c.last_reserved_time >= 0
CpuIsIdle(c) == c.busy_time = 0 /\ ~CpuIsBusy(c)

\* The numerators of utilization_frac: what reservations took, and what the
\* scaling took.
WorkOf(c) ==
    c.busy_time + IF CpuIsBusy(c)
                    THEN (now - c.last_reserved_time) * (Whole - c.baseline_utilization)
                    ELSE 0
BaselineOf(c) ==
    LET start == IF c.blue_green_active THEN c.blue_green_start ELSE now
    IN  c.baseline_utilization * (now - Later(c.last_profiled, start))

\* After three idle profiles, not necessarily in a row, an idle CPU says no more.
CpuCounted(c) ==
    IF CpuIsIdle(c) THEN [c EXCEPT !.empty_profile_count = Earlier(@ + 1, 3)] ELSE c
CpuIsSilent(c) == CpuIsIdle(c) /\ CpuCounted(c).empty_profile_count >= 3

\* CPU c reports something at a tick.
CpuReports(c) == ~CpuIsSilent(c) /\ now > c.last_profiled

\* Mutant: the reservation under way is reported in full again next time.
CpuProfiledKeepsStart(c) ==
    [(IF CpuReports(c) THEN [CpuCounted(c) EXCEPT !.busy_time = 0] ELSE CpuCounted(c))
       EXCEPT !.last_profiled = now]

\* cpu_run_profiler, then profiler_profile.
CpuProfiled(c) ==
    [(IF CpuReports(c)
        THEN [CpuCounted(c) EXCEPT !.busy_time = 0,
                !.last_reserved_time = IF CpuIsBusy(c) THEN now ELSE @]
        ELSE CpuCounted(c))
       EXCEPT !.last_profiled = now]

-----------------------------------------------------------------------------
(* RAM.                                                                    *)

NewRam == [integrated_utilization |-> 0, start |-> [j \in Jobs |-> 0], last_profiled |-> 0]

\* Mutant: the time before the last profile is counted again.
HeldByFromStart(j) == worker.ongoing[j] * (now - ram.start[j])

\* The byte-seconds of the reservation of j since the last profile.
HeldBy(j) == worker.ongoing[j] * (now - Later(ram.last_profiled, ram.start[j]))

\* The byte-seconds of the reservations of the jobs of S: their units, counted.
HeldTogether(S) == Cardinality(UNION {{j} \X (1..HeldBy(j)) : j \in S})

\* ram_add_reservation and ram_remove_reservation_by_id, whatever reservations
\* the step makes and returns.
RamStep ==
    LET returned == {j \in Jobs : worker.ongoing[j] # 0 /\ worker'.ongoing[j] = 0}
        made     == {j \in Jobs : worker.ongoing[j] = 0 /\ worker'.ongoing[j] # 0}
    IN  ram' = [ram EXCEPT
                  !.integrated_utilization = @ + HeldTogether(returned),
                  !.start = [j \in Jobs |-> CASE j \in made     -> now
                                              [] j \in returned -> 0
                                              [] OTHER          -> @[j]]]

\* The total of ram_run_profiler.
RamTotal ==
    ram.integrated_utilization + HeldTogether({j \in Jobs : worker.ongoing[j] # 0})

\* ram_run_profiler, then profiler_profile.
RamProfiled ==
    [ram EXCEPT !.integrated_utilization = IF now > ram.last_profiled THEN 0 ELSE @,
                !.last_profiled = now]

-----------------------------------------------------------------------------
(* Disk.                                                                   *)

\* last_read_start and last_write_start.  The totals of bytes are left out.
NewDisk == [op \in Ops |-> Never]

\* Mutant: the other direction is marked idle.
DiskEndsOther(op) == [disk EXCEPT ![IF op = "read" THEN "write" ELSE "read"] = Never]

DiskStarts(op) == [disk EXCEPT ![op] = now]     \* disk_reserve_op
DiskEnds(op)   == [disk EXCEPT ![op] = Never]   \* disk_reserve_done

-----------------------------------------------------------------------------
(* The worker's steps, with time.                                          *)

\* cpu_pool_spin_down is in its loop.
Closing == worker.spinning_down /\ worker.wait_queue # <<>>

NoTimer == [op |-> "none", duration |-> 0, due |-> 0]

Timed(op, d) == [op |-> op, duration |-> d, due |-> now + d]

\* What a step does to the CPUs: those that end a reservation, those that start
\* one, for a waiter in the same step perhaps.
CpuStep ==
    LET ends   == {c \in Cpus : worker.task[c] # NoJob /\ worker'.task[c] # worker.task[c]}
        starts == {c \in Cpus : worker'.task[c] # NoJob /\ worker'.task[c] # worker.task[c]}
        Ended(c)   == IF c \in ends THEN CpuEnds(cpu[c], timer[worker.task[c]].duration)
                                    ELSE cpu[c]
    IN  /\ cpu' = [c \in Cpus |-> IF c \in starts THEN CpuStarts(Ended(c)) ELSE Ended(c)]
        /\ \E d \in Durations :
             timer' = [j \in Jobs |->
                         IF \E c \in starts : worker'.task[c] = j THEN Timed("cpu", d)
                         ELSE IF \E c \in ends : worker.task[c] = j THEN NoTimer
                         ELSE timer[j]]

\* worker_reserve_compute.
Compute(j, m) ==
    /\ j \notin Outstanding(worker)
    /\ worker' = ReserveCompute(worker, j, m)
    /\ CpuStep /\ RamStep
    /\ UNCHANGED <<now, disk, truth>>

\* worker_reserve_disk.
Disk(j, m) ==
    /\ j \notin Outstanding(worker)
    /\ worker' = ReserveDisk(worker, j, m)
    /\ RamStep
    /\ IF DiskRefused(worker, m)
         THEN UNCHANGED <<timer, disk>>
         ELSE \E op \in Ops, d \in Durations :
                /\ timer' = [timer EXCEPT ![j] = Timed(op, d)]
                /\ disk' = DiskStarts(op)
    /\ UNCHANGED <<now, cpu, truth>>

\* The event that ends the reservation of CPU c.
CpuEvent(c) ==
    /\ ~Closing
    /\ c \in Busy(worker)
    /\ timer[worker.task[c]].due = now
    /\ worker' = CpuDone(worker, c)
    /\ CpuStep /\ RamStep
    /\ UNCHANGED <<now, disk, truth>>

\* The event that ends the disk operation of j.
DiskEvent(j) ==
    /\ ~Closing
    /\ j \in worker.io
    /\ timer[j].due = now
    /\ worker' = DiskDone(worker, j)
    /\ timer' = [timer EXCEPT ![j] = NoTimer]
    /\ RamStep
    /\ disk' = DiskEnds(timer[j].op)
    /\ UNCHANGED <<now, cpu, truth>>

\* cpu_pool_spin_down up to its loop.
SpinDown ==
    /\ ~worker.spinning_down
    /\ worker' = CloseQueue(worker)
    /\ UNCHANGED <<now, timer, cpu, ram, disk, truth>>

\* One turn of its loop.
FailWaiter ==
    /\ Closing
    /\ worker' = WakeHead(worker)
    /\ CpuStep /\ RamStep
    /\ UNCHANGED <<now, disk, truth>>

\* scale_workers_start, once for a worker.
SlowDown ==
    /\ ~Closing
    /\ \A c \in Cpus : ~cpu[c].blue_green_active
    /\ cpu' = [c \in Cpus |-> CpuSlowsDown(cpu[c])]
    /\ truth' = [truth EXCEPT !.caught = @ \cup Busy(worker)]
    /\ UNCHANGED <<worker, now, timer, ram, disk>>

\* A tick of the profiler.
Profile ==
    /\ ~Closing
    /\ cpu' = [c \in Cpus |-> CpuProfiled(cpu[c])]
    /\ ram' = RamProfiled
    /\ LET told == {c \in Cpus : CpuReports(cpu[c])}
       IN  truth' = [ work   |-> [c \in Cpus |-> IF c \in told THEN 0 ELSE truth.work[c]],
                      bytes  |-> IF now > ram.last_profiled THEN 0 ELSE truth.bytes,
                      caught |-> truth.caught \ told ]
    /\ UNCHANGED <<worker, now, timer, disk>>

\* Time passes when no event is due.  The history records, unit by unit, what
\* there is to report: the share that each CPU has for the job it serves and the
\* bytes in use; caught are the CPUs that were slowed down in the middle of
\* a reservation.
Pass ==
    /\ ~Closing
    /\ now < Horizon                            \* bound
    /\ \A j \in Running(worker) \cup worker.io : timer[j].due > now
    /\ now' = now + 1
    /\ truth' = [truth EXCEPT
                   !.work = [c \in Cpus |-> @[c] +
                               IF c \in Busy(worker)
                                 THEN Whole - cpu[c].baseline_utilization ELSE 0],
                   !.bytes = @ + worker.utilized]
    /\ UNCHANGED <<worker, timer, cpu, ram, disk>>

Init ==
    /\ worker \in FreshWorkers
    /\ now \in Births
    /\ timer = [j \in Jobs |-> NoTimer]
    /\ cpu = [c \in Cpus |-> NewCpu]
    /\ ram = NewRam
    /\ disk = NewDisk
    /\ truth = [work |-> [c \in Cpus |-> 0], bytes |-> 0, caught |-> {}]

Next ==
    \/ \E j \in Jobs, m \in Sizes : Compute(j, m) \/ Disk(j, m)
    \/ \E c \in Cpus : CpuEvent(c)
    \/ \E j \in Jobs : DiskEvent(j)
    \/ SpinDown
    \/ FailWaiter
    \/ SlowDown
    \/ Profile
    \/ Pass

Spec == Init /\ [][Next]_vars

-----------------------------------------------------------------------------
(* Properties.                                                             *)

\* A CPU is marked busy while it serves a job, from a time that has come; a disk
\* direction is marked busy only while an operation runs in it.
TypeOK ==
    /\ now \in Nat
    /\ \A c \in Cpus : /\ CpuIsBusy(cpu[c]) <=> c \in Busy(worker)
                       /\ cpu[c].last_reserved_time \in -1..now
                       /\ cpu[c].busy_time \in Nat
                       /\ cpu[c].last_profiled \in 0..now
                       /\ cpu[c].empty_profile_count \in 0..3
    /\ ram.integrated_utilization \in Nat
    /\ \A op \in Ops : disk[op] # Never => \E j \in worker.io : timer[j].op = op

\* A tick would report the byte-seconds in use since the last report, wherever
\* reservations began and ended before, between and at the ticks.
RamReportIsTrue == RamTotal = truth.bytes

\* A tick would report, and a silent CPU hides, no more and no less work than the
\* CPU has done since its last report.  Only a reservation that the scaling
\* slowed down on its way is counted at too little.
CpuReportIsTrue ==
    \A c \in Cpus :
        /\ WorkOf(cpu[c]) <= truth.work[c]
        /\ c \notin truth.caught => WorkOf(cpu[c]) = truth.work[c]

\* No report exceeds the whole CPU, or the RAM's capacity, for the time since the
\* last profile.
ReportsFitWindow ==
    /\ \A c \in Cpus : WorkOf(cpu[c]) + BaselineOf(cpu[c]) <= Whole * (now - cpu[c].last_profiled)
    /\ RamTotal <= RamCapacity * (now - ram.last_profiled)

\* disk.h:13: a direction is marked idle if, and only if, nothing runs in it.
DiskMarkedIdleIfIdle ==
    \A op \in Ops : disk[op] = Never <=> ~\E j \in worker.io : timer[j].op = op
=============================================================================

-------------------------- MODULE ProfilingProofs --------------------------
(***************************************************************************)
(* What a worker's CPUs and RAM report is what they did, for any number of *)
(* CPUs and jobs, any sizes, durations and times.  Beside the invariant of *)
(* the worker's record, the inductive invariant relates each busy CPU to   *)
(* the timer of the job it serves: the start that cpu_reserve_done         *)
(* subtracts is never earlier than the duration it clips to, so that the   *)
(* clipping takes nothing away from a reservation that a tick has cut.     *)
(***************************************************************************)
EXTENDS Profiling, WorkerLemmas

CpuState ==
    [ last_reserved_time : Int, busy_time : Nat, blue_green_active : BOOLEAN,
      blue_green_start : Nat, baseline_utilization : 0..Whole,
      empty_profile_count : 0..3, last_profiled : Nat ]

RamState == [ integrated_utilization : Nat, start : [Jobs -> Nat], last_profiled : Nat ]

TimerState == [ op : {"none", "cpu"} \cup Ops, duration : Nat, due : Nat ]

Typed ==
    /\ now \in Nat
    /\ timer \in [Jobs -> TimerState]
    /\ cpu \in [Cpus -> CpuState]
    /\ ram \in RamState
    /\ disk \in [Ops -> Int]
    /\ truth \in [work : [Cpus -> Nat], bytes : Nat, caught : SUBSET Cpus]

\* The times of a CPU's record have come, and only a scaling gives it a baseline.
TimesOf(c) ==
    /\ c.last_reserved_time \in -1..now
    /\ c.last_profiled <= now /\ c.blue_green_start <= now
    /\ ~c.blue_green_active => c.baseline_utilization = 0

\* A reservation that is due at t.due has run no longer than t.duration.
Within(c, t) == now <= t.due /\ t.due <= c.last_reserved_time + t.duration

\* What CPU c would report is what it did, and no more than there was time for.
Reported(c, work, caught) ==
    /\ WorkOf(c) <= work
    /\ ~caught => WorkOf(c) = work
    /\ WorkOf(c) + BaselineOf(c) <= Whole * (now - c.last_profiled)

CpuKept(c) ==
    /\ TimesOf(cpu[c])
    /\ CpuIsBusy(cpu[c]) <=> c \in Busy(worker)
    /\ c \in Busy(worker) => Within(cpu[c], timer[worker.task[c]])
    /\ Reported(cpu[c], truth.work[c], c \in truth.caught)

CpusKept == \A c \in Cpus : CpuKept(c)

RamKept ==
    /\ ram.last_profiled <= now
    /\ \A j \in Jobs : ram.start[j] <= now
    /\ RamTotal = truth.bytes
    /\ RamTotal <= RamCapacity * (now - ram.last_profiled)

DiskKept == \A op \in Ops : disk[op] # Never => \E j \in worker.io : timer[j].op = op

Inv == WorkerInv(worker) /\ Typed /\ CpusKept /\ RamKept /\ DiskKept

-----------------------------------------------------------------------------
(* Arithmetic.                                                             *)

LEMMA Distribute ==
    ASSUME NEW a \in Int, NEW b \in Int, NEW k \in Int
    PROVE  (a + b) * k = a * k + b * k
OBVIOUS

LEMMA ProductIsNat ==
    ASSUME NEW a \in Nat, NEW k \in Nat
    PROVE  a * k \in Nat
OBVIOUS

LEMMA ProductGrows ==
    ASSUME NEW a \in Nat, NEW k \in Nat, NEW l \in Nat, k <= l
    PROVE  a * k <= a * l
<1>1. PICK d \in Nat : l = k + d
  <2>1. l - k \in Nat /\ l = k + (l - k)
    OBVIOUS
  <2> QED  BY <2>1
<1>2. a * l = a * k + a * d /\ a * d \in Nat /\ a * k \in Nat
  BY <1>1
<1> QED  BY <1>2

-----------------------------------------------------------------------------
(* One CPU's record.                                                       *)

\* The end of a reservation, started no later than its duration ago, turns the
\* time since the start into busy time and leaves the report as it was.
LEMMA CpuEndsReportsSame ==
    ASSUME now \in Nat, NEW q \in CpuState, TimesOf(q), CpuIsBusy(q),
           NEW d \in Nat, now <= q.last_reserved_time + d,
           NEW u, u = CpuEnds(q, d)
    PROVE  /\ u \in CpuState /\ TimesOf(u) /\ ~CpuIsBusy(u)
           /\ WorkOf(u) = WorkOf(q) /\ BaselineOf(u) = BaselineOf(q)
           /\ u.last_profiled = q.last_profiled
<1> DEFINE since == now - q.last_reserved_time
           k == Whole - q.baseline_utilization
           b == q.busy_time + since * k
<1>1. /\ q.last_reserved_time \in 0..now /\ q.busy_time \in Nat
      /\ q.baseline_utilization \in 0..Whole /\ Whole \in Nat
  BY ProfilingAssumption DEF CpuState, TimesOf, CpuIsBusy
<1>2. since \in Nat /\ k \in Nat /\ Earlier(d, since) = since
  BY <1>1 DEF Earlier
<1>3. b \in Nat
  BY <1>1, <1>2, ProductIsNat
<1>4. u = [q EXCEPT !.busy_time = b, !.last_reserved_time = Never]
  BY <1>2 DEF CpuEnds
<1>5. WorkOf(q) = b
  BY DEF WorkOf
<1> HIDE DEF b, since, k
<1>6. u \in CpuState /\ u.busy_time = b /\ u.last_reserved_time = -1
  <2> DEFINE p == [q EXCEPT !.busy_time = b]
  <2>1. p \in CpuState /\ p.busy_time = b
    BY <1>3 DEF CpuState
  <2>2. u = [p EXCEPT !.last_reserved_time = -1]
    BY <1>4 DEF Never, CpuState
  <2> HIDE DEF p
  <2> QED  BY <2>1, <2>2 DEF CpuState
<1>7. /\ u.blue_green_active = q.blue_green_active
      /\ u.blue_green_start = q.blue_green_start
      /\ u.baseline_utilization = q.baseline_utilization
      /\ u.last_profiled = q.last_profiled
  BY <1>4 DEF CpuState
<1>8. ~CpuIsBusy(u) /\ TimesOf(u)
  BY <1>6, <1>7 DEF CpuIsBusy, TimesOf
<1>9. WorkOf(u) = b
  BY <1>3, <1>6, <1>8 DEF WorkOf
<1>10. BaselineOf(u) = BaselineOf(q)
  BY <1>7 DEF BaselineOf
<1> QED  BY <1>5, <1>6, <1>7, <1>8, <1>9, <1>10

\* A reservation that starts adds nothing to report yet.
LEMMA CpuStartsReportsSame ==
    ASSUME now \in Nat, NEW q \in CpuState, TimesOf(q), ~CpuIsBusy(q),
           NEW u, u = CpuStarts(q)
    PROVE  /\ u \in CpuState /\ TimesOf(u) /\ CpuIsBusy(u)
           /\ u.last_reserved_time = now
           /\ WorkOf(u) = WorkOf(q) /\ BaselineOf(u) = BaselineOf(q)
           /\ u.last_profiled = q.last_profiled
<1>1. /\ u \in CpuState /\ u.last_reserved_time = now
      /\ u.busy_time = q.busy_time /\ u.busy_time \in Nat
      /\ u.blue_green_active = q.blue_green_active
      /\ u.blue_green_start = q.blue_green_start
      /\ u.baseline_utilization = q.baseline_utilization
      /\ u.last_profiled = q.last_profiled
  BY DEF CpuStarts, CpuState
<1>2. CpuIsBusy(u) /\ TimesOf(u)
  BY <1>1 DEF CpuIsBusy, TimesOf
<1>3. Whole - u.baseline_utilization \in Int
  BY <1>1, ProfilingAssumption DEF CpuState
<1>4. WorkOf(u) = u.busy_time + (now - now) * (Whole - u.baseline_utilization)
  BY <1>1, <1>2 DEF WorkOf
<1>5. WorkOf(u) = u.busy_time
  BY <1>1, <1>3, <1>4
<1>6. WorkOf(q) = q.busy_time
  BY <1>1 DEF WorkOf
<1>7. BaselineOf(u) = BaselineOf(q)
  BY <1>1 DEF BaselineOf
<1> QED  BY <1>1, <1>2, <1>5, <1>6, <1>7

\* A CPU slowed down while nothing was counted against a baseline: what it did so
\* far is counted at a smaller share, and the scaling's own share starts at nothing.
LEMMA CpuSlowsDownReportsLess ==
    ASSUME now \in Nat, NEW q \in CpuState, TimesOf(q), ~q.blue_green_active,
           NEW u, u = CpuSlowsDown(q)
    PROVE  /\ u \in CpuState /\ TimesOf(u)
           /\ CpuIsBusy(u) <=> CpuIsBusy(q)
           /\ u.last_reserved_time = q.last_reserved_time
           /\ u.last_profiled = q.last_profiled
           /\ WorkOf(u) \in Nat /\ WorkOf(q) \in Nat
           /\ WorkOf(u) <= WorkOf(q)
           /\ ~CpuIsBusy(q) => WorkOf(u) = WorkOf(q)
           /\ BaselineOf(u) = 0 /\ BaselineOf(q) = 0
<1>1. /\ u.last_reserved_time = q.last_reserved_time /\ u.busy_time = q.busy_time
      /\ u.blue_green_active = TRUE /\ u.blue_green_start = now
      /\ u.baseline_utilization = BlueGreenUtil
      /\ u.empty_profile_count = q.empty_profile_count
      /\ u.last_profiled = q.last_profiled
      /\ u \in CpuState
  BY ProfilingAssumption DEF CpuSlowsDown, CpuState
<1>2. /\ q.last_reserved_time \in -1..now /\ q.busy_time \in Nat
      /\ q.last_profiled \in 0..now /\ q.baseline_utilization = 0
      /\ Whole \in Nat /\ BlueGreenUtil \in 0..Whole
  BY ProfilingAssumption DEF CpuState, TimesOf
<1>3. (CpuIsBusy(u) <=> CpuIsBusy(q)) /\ TimesOf(u)
  BY <1>1, <1>2 DEF CpuIsBusy, TimesOf
<1>4. BaselineOf(u) = 0
  <2>1. BaselineOf(u) = BlueGreenUtil * (now - Later(q.last_profiled, now))
    BY <1>1 DEF BaselineOf
  <2>2. Later(q.last_profiled, now) = now
    BY <1>2 DEF Later
  <2> QED  BY <1>2, <2>1, <2>2
<1>5. BaselineOf(q) = 0
  <2>1. PICK a \in Int : BaselineOf(q) = 0 * a
    <3>1. /\ q.blue_green_start \in Nat
          /\ BaselineOf(q) = 0 * (now - Later(q.last_profiled,
                                 IF q.blue_green_active THEN q.blue_green_start ELSE now))
      BY <1>2 DEF BaselineOf, CpuState
    <3>2. now - Later(q.last_profiled,
                      IF q.blue_green_active THEN q.blue_green_start ELSE now) \in Int
      BY <1>2, <3>1 DEF Later
    <3> QED  BY <3>1, <3>2
  <2> QED  BY <2>1
<1>6. CASE CpuIsBusy(q)
  <2> DEFINE since == now - q.last_reserved_time
  <2>1. since \in Nat
    BY <1>2, <1>6 DEF CpuIsBusy
  <2>2. WorkOf(u) = q.busy_time + since * (Whole - BlueGreenUtil)
    BY <1>1, <1>3, <1>6 DEF WorkOf
  <2>3. WorkOf(q) = q.busy_time + since * (Whole - 0)
    BY <1>2, <1>6 DEF WorkOf
  <2> HIDE DEF since
  <2>4. /\ since * (Whole - BlueGreenUtil) <= since * Whole
        /\ since * (Whole - BlueGreenUtil) \in Nat /\ since * Whole \in Nat
        /\ Whole - 0 = Whole
    <3>1. Whole - BlueGreenUtil \in Nat /\ Whole - BlueGreenUtil <= Whole
      BY <1>2
    <3> QED  BY <1>2, <2>1, <3>1, ProductGrows, ProductIsNat
  <2>5. WorkOf(u) \in Nat /\ WorkOf(q) \in Nat /\ WorkOf(u) <= WorkOf(q)
    BY <1>2, <2>2, <2>3, <2>4
  <2> QED  BY <1>1, <1>3, <1>4, <1>5, <1>6, <2>5
<1>7. CASE ~CpuIsBusy(q)
  <2>1. WorkOf(u) = q.busy_time /\ WorkOf(q) = q.busy_time
    BY <1>1, <1>2, <1>3, <1>7 DEF WorkOf
  <2> QED  BY <1>1, <1>2, <1>3, <1>4, <1>5, <1>7, <2>1
<1> QED  BY <1>6, <1>7

\* After a tick that reports a CPU, or finds it silent, nothing is left to report;
\* a second tick at the same time changes nothing.
LEMMA CpuProfiledReportsNothing ==
    ASSUME now \in Nat, NEW q \in CpuState, TimesOf(q), NEW u, u = CpuProfiled(q)
    PROVE  /\ u \in CpuState /\ TimesOf(u)
           /\ CpuIsBusy(u) <=> CpuIsBusy(q)
           /\ u.last_reserved_time >= q.last_reserved_time
           /\ u.last_profiled = now
           /\ CpuReports(q) => WorkOf(u) = 0 /\ BaselineOf(u) = 0
           /\ ~CpuReports(q) =>
                /\ WorkOf(u) = WorkOf(q)
                /\ (CpuIsIdle(q) /\ WorkOf(q) = 0 /\ BaselineOf(u) = 0)
                     \/ (q.last_profiled = now /\ BaselineOf(u) = BaselineOf(q))
<1> DEFINE n == IF CpuIsIdle(q) THEN Earlier(q.empty_profile_count + 1, 3)
                                ELSE q.empty_profile_count
           p == [q EXCEPT !.empty_profile_count = n]
<1>1. /\ q.last_reserved_time \in -1..now /\ q.busy_time \in Nat
      /\ q.last_profiled \in 0..now /\ q.empty_profile_count \in 0..3
      /\ q.blue_green_start \in 0..now
      /\ q.baseline_utilization \in 0..Whole /\ Whole \in Nat
  BY ProfilingAssumption DEF CpuState, TimesOf
<1>2. n \in 0..3
  BY <1>1 DEF Earlier
<1>3. CpuCounted(q) = p
  BY DEF CpuCounted, CpuState
<1> HIDE DEF n
<1>4. /\ p \in CpuState /\ p.empty_profile_count = n
      /\ p.last_reserved_time = q.last_reserved_time /\ p.busy_time = q.busy_time
      /\ p.blue_green_active = q.blue_green_active
      /\ p.blue_green_start = q.blue_green_start
      /\ p.baseline_utilization = q.baseline_utilization
      /\ p.last_profiled = q.last_profiled
  BY <1>2 DEF CpuState
<1> HIDE DEF p
<1>5. CASE CpuReports(q)
  <2> DEFINE l == IF CpuIsBusy(q) THEN now ELSE p.last_reserved_time
             v == [p EXCEPT !.busy_time = 0]
             x == [v EXCEPT !.last_reserved_time = l]
  <2>1. u = [x EXCEPT !.last_profiled = now]
    BY <1>3, <1>4, <1>5 DEF CpuProfiled, CpuState
  <2>2. l \in -1..now /\ l >= q.last_reserved_time /\ (l >= 0 <=> CpuIsBusy(q))
    BY <1>1, <1>4 DEF CpuIsBusy
  <2>3. CpuIsBusy(q) => l = now
    OBVIOUS
  <2> HIDE DEF l
  <2>4. /\ v \in CpuState /\ v.busy_time = 0
        /\ v.blue_green_active = q.blue_green_active
        /\ v.blue_green_start = q.blue_green_start
        /\ v.baseline_utilization = q.baseline_utilization
    BY <1>4 DEF CpuState
  <2> HIDE DEF v
  <2>5. /\ x \in CpuState /\ x.busy_time = 0 /\ x.last_reserved_time = l
        /\ x.blue_green_active = q.blue_green_active
        /\ x.blue_green_start = q.blue_green_start
        /\ x.baseline_utilization = q.baseline_utilization
    BY <2>2, <2>4 DEF CpuState
  <2> HIDE DEF x
  <2>6. /\ u \in CpuState /\ u.busy_time = 0 /\ u.last_reserved_time = l
        /\ u.blue_green_active = q.blue_green_active
        /\ u.blue_green_start = q.blue_green_start
        /\ u.baseline_utilization = q.baseline_utilization
        /\ u.last_profiled = now
    BY <2>1, <2>5 DEF CpuState
  <2>7. (CpuIsBusy(u) <=> CpuIsBusy(q)) /\ TimesOf(u)
    BY <1>1, <2>2, <2>6 DEF CpuIsBusy, TimesOf
  <2>8. WorkOf(u) = 0
    <3>1. CASE CpuIsBusy(q)
      <4>1. Whole - q.baseline_utilization \in Int
        BY <1>1
      <4>2. WorkOf(u) = 0 + (now - now) * (Whole - q.baseline_utilization)
        BY <2>3, <2>6, <2>7, <3>1 DEF WorkOf
      <4> QED  BY <4>1, <4>2
    <3>2. CASE ~CpuIsBusy(q)
      BY <2>6, <2>7, <3>2 DEF WorkOf
    <3> QED  BY <3>1, <3>2
  <2>9. BaselineOf(u) = 0
    <3>1. BaselineOf(u) = q.baseline_utilization * (now - Later(now,
                            IF q.blue_green_active THEN q.blue_green_start ELSE now))
      BY <2>6 DEF BaselineOf
    <3>2. Later(now, IF q.blue_green_active THEN q.blue_green_start ELSE now) = now
      BY <1>1 DEF Later
    <3> QED  BY <1>1, <3>1, <3>2
  <2> QED  BY <1>5, <2>2, <2>6, <2>7, <2>8, <2>9
<1>6. CASE ~CpuReports(q)
  <2>1. u = [p EXCEPT !.last_profiled = now]
    BY <1>3, <1>6 DEF CpuProfiled
  <2>2. /\ u \in CpuState /\ u.busy_time = q.busy_time
        /\ u.last_reserved_time = q.last_reserved_time
        /\ u.blue_green_active = q.blue_green_active
        /\ u.blue_green_start = q.blue_green_start
        /\ u.baseline_utilization = q.baseline_utilization
        /\ u.last_profiled = now
    BY <1>4, <2>1 DEF CpuState
  <2>3. (CpuIsBusy(u) <=> CpuIsBusy(q)) /\ TimesOf(u)
    BY <1>1, <2>2 DEF CpuIsBusy, TimesOf
  <2>4. WorkOf(u) = WorkOf(q)
    BY <2>2, <2>3 DEF WorkOf
  <2>5. CASE CpuIsIdle(q)
    <3>1. WorkOf(q) = 0
      BY <2>5 DEF WorkOf, CpuIsIdle
    <3>2. BaselineOf(u) = 0
      <4>1. BaselineOf(u) = q.baseline_utilization * (now - Later(now,
                              IF q.blue_green_active THEN q.blue_green_start ELSE now))
        BY <2>2 DEF BaselineOf
      <4>2. Later(now, IF q.blue_green_active THEN q.blue_green_start ELSE now) = now
        BY <1>1 DEF Later
      <4> QED  BY <1>1, <4>1, <4>2
    <3> QED  BY <1>1, <1>6, <2>2, <2>3, <2>4, <2>5, <3>1, <3>2
  <2>6. CASE ~CpuIsIdle(q)
    <3>1. q.last_profiled = now
      BY <1>1, <1>6, <2>6 DEF CpuReports, CpuIsSilent
    <3>2. BaselineOf(u) = BaselineOf(q)
      BY <2>2, <3>1 DEF BaselineOf
    <3> QED  BY <1>1, <1>6, <2>2, <2>3, <2>4, <3>1, <3>2
  <2> QED  BY <2>5, <2>6
<1> QED  BY <1>5, <1>6

\* What a record amounts to at time t.
WorkAt(q, t) ==
    q.busy_time + IF CpuIsBusy(q)
                    THEN (t - q.last_reserved_time) * (Whole - q.baseline_utilization)
                    ELSE 0
BaselineAt(q, t) ==
    LET start == IF q.blue_green_active THEN q.blue_green_start ELSE t
    IN  q.baseline_utilization * (t - Later(q.last_profiled, start))

\* A unit of time adds the share of the job served and at most that of the scaling.
LEMMA UnitOfTime ==
    ASSUME now \in Nat, NEW q \in CpuState, TimesOf(q)
    PROVE  /\ WorkAt(q, now) \in Nat /\ BaselineAt(q, now) \in Nat
           /\ WorkAt(q, now + 1) = WorkAt(q, now) +
                IF CpuIsBusy(q) THEN Whole - q.baseline_utilization ELSE 0
           /\ BaselineAt(q, now + 1) \in Nat
           /\ BaselineAt(q, now + 1) <= BaselineAt(q, now) + q.baseline_utilization
<1> DEFINE k == Whole - q.baseline_utilization
           b == q.baseline_utilization
           since == now - q.last_reserved_time
<1>1. /\ q.last_reserved_time \in -1..now /\ q.busy_time \in Nat
      /\ q.last_profiled \in 0..now /\ q.blue_green_start \in 0..now
      /\ b \in 0..Whole /\ Whole \in Nat /\ k \in Nat
      /\ ~q.blue_green_active => b = 0
  BY ProfilingAssumption DEF CpuState, TimesOf
<1>2. /\ WorkAt(q, now) \in Nat
      /\ WorkAt(q, now + 1) = WorkAt(q, now) + IF CpuIsBusy(q) THEN k ELSE 0
  <2>1. CASE CpuIsBusy(q)
    <3>1. since \in Nat /\ (now + 1) - q.last_reserved_time = since + 1
      BY <1>1, <2>1 DEF CpuIsBusy
    <3>2. /\ WorkAt(q, now) = q.busy_time + since * k
          /\ WorkAt(q, now + 1) = q.busy_time + (since + 1) * k
      BY <2>1, <3>1 DEF WorkAt
    <3> HIDE DEF since, k
    <3>3. since * k \in Nat /\ (since + 1) * k = since * k + 1 * k /\ 1 * k = k
      BY <1>1, <3>1, Distribute, ProductIsNat
    <3> QED  BY <1>1, <2>1, <3>2, <3>3
  <2>2. CASE ~CpuIsBusy(q)
    BY <1>1, <2>2 DEF WorkAt
  <2> QED  BY <2>1, <2>2
<1>3. /\ BaselineAt(q, now) \in Nat /\ BaselineAt(q, now + 1) \in Nat
      /\ BaselineAt(q, now + 1) <= BaselineAt(q, now) + b
  <2>1. CASE q.blue_green_active
    <3> DEFINE s == Later(q.last_profiled, q.blue_green_start)
               a == now - s
    <3>1. s \in 0..now /\ a \in Nat /\ (now + 1) - s = a + 1
      BY <1>1 DEF Later
    <3>2. BaselineAt(q, now) = b * a /\ BaselineAt(q, now + 1) = b * (a + 1)
      BY <2>1, <3>1 DEF BaselineAt
    <3> HIDE DEF a, b
    <3>3. b \in Nat
      BY <1>1
    <3>4. b * (a + 1) = b * a + b /\ b * a \in Nat
      BY <3>1, <3>3, ProductIsNat
    <3> QED  BY <3>2, <3>3, <3>4
  <2>2. CASE ~q.blue_green_active
    <3>1. /\ BaselineAt(q, now) = 0 * (now - Later(q.last_profiled, now))
          /\ BaselineAt(q, now + 1) = 0 * ((now + 1) - Later(q.last_profiled, now + 1))
      BY <1>1, <2>2 DEF BaselineAt
    <3>2. /\ now - Later(q.last_profiled, now) \in Int
          /\ (now + 1) - Later(q.last_profiled, now + 1) \in Int
      BY <1>1 DEF Later
    <3>3. BaselineAt(q, now) = 0 /\ BaselineAt(q, now + 1) = 0 /\ b = 0
      BY <1>1, <2>2, <3>1, <3>2
    <3> QED  BY <3>3
  <2> QED  BY <2>1, <2>2
<1> QED  BY <1>2, <1>3

-----------------------------------------------------------------------------
(* Sums as counted units.                                                  *)

Units(f, S) == UNION {{j} \X (1..f[j]) : j \in S}

LEMMA InUnits ==
    ASSUME NEW S, NEW f
    PROVE  /\ \A j, i : <<j, i>> \in Units(f, S) <=> j \in S /\ i \in 1..f[j]
           /\ \A p \in Units(f, S) : p = <<p[1], p[2]>>
  BY DEF Units

LEMMA UnitsFinite ==
    ASSUME NEW f \in [Jobs -> Nat], NEW S \in SUBSET Jobs
    PROVE  IsFiniteSet(Units(f, S)) /\ Cardinality(Units(f, S)) \in Nat
<1> DEFINE F == {{j} \X (1..f[j]) : j \in S}
           g == [j \in S |-> {j} \X (1..f[j])]
<1>1. IsFiniteSet(S)
  BY WorkerAssumption, FS_Subset
<1>2. g \in Surjection(S, F)
  BY DEF Surjection
<1>3. IsFiniteSet(F)
  BY <1>1, <1>2, FS_Surjection
<1>4. \A T \in F : IsFiniteSet(T)
  <2>1. ASSUME NEW j \in S
        PROVE  IsFiniteSet({j} \X (1..f[j]))
    <3>1. f[j] \in Int /\ 1 \in Int
      OBVIOUS
    <3>2. IsFiniteSet({j})
      BY FS_Singleton
    <3>3. IsFiniteSet(1..f[j])
      BY <3>1, FS_Interval
    <3> QED  BY <3>2, <3>3, FS_Product
  <2> QED  BY <2>1
<1>5. IsFiniteSet(Units(f, S))
  BY <1>3, <1>4, FS_UNION DEF Units
<1> QED  BY <1>5, FS_CardinalityType

\* The sum over two sets of jobs.
LEMMA UnitsSplit ==
    ASSUME NEW f \in [Jobs -> Nat], NEW S \in SUBSET Jobs, NEW T \in SUBSET Jobs,
           S \cap T = {}
    PROVE  Cardinality(Units(f, S \cup T)) = Cardinality(Units(f, S)) + Cardinality(Units(f, T))
<1> DEFINE A == Units(f, S)
           B == Units(f, T)
           U == Units(f, S \cup T)
<1>1. U = A \cup B /\ A \cap B = {}
  BY DEF Units
<1>2. IsFiniteSet(A) /\ IsFiniteSet(B) /\ Cardinality(A) \in Nat /\ Cardinality(B) \in Nat
  BY UnitsFinite
<1> HIDE DEF A, B, U
<1>3. Cardinality(A \cup B) = Cardinality(A) + Cardinality(B) - Cardinality(A \cap B)
  BY <1>2, FS_Union
<1>4. Cardinality(A \cap B) = 0
  BY <1>1, FS_EmptySet
<1>5. Cardinality(U) = Cardinality(A) + Cardinality(B)
  BY <1>1, <1>2, <1>3, <1>4
<1> QED  BY <1>5 DEF A, B, U

LEMMA UnitsSame ==
    ASSUME NEW f, NEW g, NEW S, \A j \in S : f[j] = g[j]
    PROVE  Units(f, S) = Units(g, S)
  BY DEF Units

LEMMA UnitsNone ==
    ASSUME NEW f, NEW S, \A j \in S : f[j] = 0
    PROVE  Cardinality(Units(f, S)) = 0
<1>1. Units(f, S) = {}
  <2>1. \A j \in S : 1..f[j] = {}
    OBVIOUS
  <2> QED  BY <2>1 DEF Units
<1> QED  BY <1>1, FS_EmptySet

\* The sum of sums: the units of g come after those of f, job by job.
LEMMA UnitsAdd ==
    ASSUME NEW f \in [Jobs -> Nat], NEW g \in [Jobs -> Nat], NEW S \in SUBSET Jobs,
           NEW h \in [Jobs -> Nat], \A j \in S : h[j] = f[j] + g[j]
    PROVE  Cardinality(Units(h, S)) = Cardinality(Units(f, S)) + Cardinality(Units(g, S))
<1> DEFINE N == UNION {{j} \X ((f[j] + 1)..(f[j] + g[j])) : j \in S}
           phi == [p \in Units(g, S) |-> <<p[1], f[p[1]] + p[2]>>]
<1>1. /\ \A j, i : <<j, i>> \in N <=> j \in S /\ i \in (f[j] + 1)..(f[j] + g[j])
      /\ \A p \in N : p = <<p[1], p[2]>>
  OBVIOUS
<1> HIDE DEF N
<1>2. \A p \in Units(g, S) : /\ p[1] \in S /\ p[2] \in 1..g[p[1]] /\ p = <<p[1], p[2]>>
                             /\ f[p[1]] \in Nat /\ g[p[1]] \in Nat
  <2> SUFFICES ASSUME NEW p \in Units(g, S)
               PROVE  /\ p[1] \in S /\ p[2] \in 1..g[p[1]] /\ p = <<p[1], p[2]>>
                      /\ f[p[1]] \in Nat /\ g[p[1]] \in Nat
    OBVIOUS
  <2>1. p = <<p[1], p[2]>>
    BY InUnits
  <2>2. p[1] \in S /\ p[2] \in 1..g[p[1]]
    BY <2>1, InUnits
  <2> QED  BY <2>1, <2>2
<1>3. \A p \in Units(g, S) : phi[p] \in N
  <2> SUFFICES ASSUME NEW p \in Units(g, S)
               PROVE  <<p[1], f[p[1]] + p[2]>> \in N
    OBVIOUS
  <2>1. f[p[1]] + p[2] \in (f[p[1]] + 1)..(f[p[1]] + g[p[1]])
    BY <1>2
  <2> QED  BY <1>1, <1>2, <2>1
<1>4. \A p, q \in Units(g, S) : phi[p] = phi[q] => p = q
  <2> SUFFICES ASSUME NEW p \in Units(g, S), NEW q \in Units(g, S),
                      <<p[1], f[p[1]] + p[2]>> = <<q[1], f[q[1]] + q[2]>>
               PROVE  p = q
    OBVIOUS
  <2>1. p[1] = q[1] /\ f[p[1]] + p[2] = f[p[1]] + q[2]
    OBVIOUS
  <2>2. p[2] = q[2]
    BY <1>2, <2>1
  <2> QED  BY <1>2, <2>1, <2>2
<1>5. \A y \in N : \E p \in Units(g, S) : phi[p] = y
  <2> SUFFICES ASSUME NEW y \in N
               PROVE  \E p \in Units(g, S) : <<p[1], f[p[1]] + p[2]>> = y
    OBVIOUS
  <2>1. y = <<y[1], y[2]>>
    BY <1>1
  <2>2. y[1] \in S /\ y[2] \in (f[y[1]] + 1)..(f[y[1]] + g[y[1]])
    BY <1>1, <2>1
  <2> DEFINE i == y[2] - f[y[1]]
  <2>3. i \in 1..g[y[1]] /\ f[y[1]] + i = y[2]
    BY <2>2
  <2> HIDE DEF i
  <2>4. <<y[1], i>> \in Units(g, S)
    BY <2>2, <2>3, InUnits
  <2>5. <<y[1], i>>[1] = y[1] /\ <<y[1], i>>[2] = i
    OBVIOUS
  <2> QED  BY <2>1, <2>3, <2>4, <2>5
<1>6. phi \in Bijection(Units(g, S), N)
  BY <1>3, <1>4, <1>5 DEF Bijection, Injection, IsInjective, Surjection
<1>7. /\ IsFiniteSet(Units(f, S)) /\ IsFiniteSet(Units(g, S))
      /\ Cardinality(Units(f, S)) \in Nat /\ Cardinality(Units(g, S)) \in Nat
  BY UnitsFinite
<1>8. IsFiniteSet(N) /\ Cardinality(N) = Cardinality(Units(g, S))
  BY <1>6, <1>7, FS_Bijection DEF ExistsBijection
<1>9. Units(f, S) \cap N = {}
  <2> SUFFICES ASSUME NEW p \in Units(f, S), p \in N
               PROVE  FALSE
    OBVIOUS
  <2>1. p = <<p[1], p[2]>>
    BY <1>1
  <2>2. p[1] \in S /\ p[2] \in 1..f[p[1]] /\ p[2] \in (f[p[1]] + 1)..(f[p[1]] + g[p[1]])
    BY <1>1, <2>1, InUnits
  <2> QED  BY <2>2
<1>10. Units(h, S) = Units(f, S) \cup N
  <2>1. ASSUME NEW j \in S, NEW i
        PROVE  i \in 1..h[j] <=> i \in 1..f[j] \/ i \in (f[j] + 1)..(f[j] + g[j])
    <3>1. f[j] \in Nat /\ g[j] \in Nat /\ h[j] = f[j] + g[j]
      OBVIOUS
    <3> QED  BY <3>1
  <2>2. \A p \in Units(h, S) : p \in Units(f, S) \cup N
    <3> SUFFICES ASSUME NEW p \in Units(h, S)
                 PROVE  p \in Units(f, S) \cup N
      OBVIOUS
    <3>1. p = <<p[1], p[2]>>
      BY InUnits
    <3>2. p[1] \in S /\ p[2] \in 1..h[p[1]]
      BY <3>1, InUnits
    <3>3. p[2] \in 1..f[p[1]] \/ p[2] \in (f[p[1]] + 1)..(f[p[1]] + g[p[1]])
      BY <2>1, <3>2
    <3> QED  BY <1>1, <3>1, <3>2, <3>3, InUnits
  <2>3. \A p \in Units(f, S) \cup N : p \in Units(h, S)
    <3> SUFFICES ASSUME NEW p \in Units(f, S) \cup N
                 PROVE  p \in Units(h, S)
      OBVIOUS
    <3>1. p = <<p[1], p[2]>>
      BY <1>1, InUnits
    <3>2. p[1] \in S /\ (p[2] \in 1..f[p[1]] \/ p[2] \in (f[p[1]] + 1)..(f[p[1]] + g[p[1]]))
      BY <1>1, <3>1, InUnits
    <3>3. p[2] \in 1..h[p[1]]
      BY <2>1, <3>2
    <3> QED  BY <3>1, <3>2, <3>3, InUnits
  <2> QED  BY <2>2, <2>3
<1>11. /\ IsFiniteSet(Units(f, S) \cup N)
       /\ Cardinality(Units(f, S) \cup N) =
            Cardinality(Units(f, S)) + Cardinality(N) - Cardinality(Units(f, S) \cap N)
  BY <1>7, <1>8, FS_Union
<1>12. Cardinality(Units(f, S) \cap N) = 0
  BY <1>9, FS_EmptySet
<1> QED  BY <1>7, <1>8, <1>10, <1>11, <1>12

-----------------------------------------------------------------------------
(* What the worker's operations do to CPUs and memory.                     *)

\* Between two records no busy CPU changes its job, except those of E.
TasksKept(v, w, E) == \A c \in Busy(w) \ E : v.task[c] = w.task[c]

\* Memory is taken by jobs that held none, or returned.
MemoryMoves(v, w) ==
    \A j \in Jobs : w.ongoing[j] = 0 \/ v.ongoing[j] = 0 \/ v.ongoing[j] = w.ongoing[j]

LEMMA OneJobMoves ==
    ASSUME NEW w, w.ongoing \in [Jobs -> Nat], NEW v, NEW j \in Jobs, NEW m,
           w.ongoing[j] = 0 \/ m = 0, v.ongoing = [w.ongoing EXCEPT ![j] = m]
    PROVE  MemoryMoves(v, w)
  BY DEF MemoryMoves

LEMMA OutsiderHoldsNothing ==
    ASSUME NEW w, WorkerInv(w), NEW j \in Jobs, j \notin Outstanding(w)
    PROVE  w.ongoing[j] = 0
  BY DEF WorkerInv, WorkerOK, RamAccounting

LEMMA ReserveComputeMoves ==
    ASSUME NEW w, WorkerInv(w), NEW j \in Jobs, j \notin Outstanding(w),
           NEW m \in Nat, NEW v, v = ReserveCompute(w, j, m)
    PROVE  TasksKept(v, w, {}) /\ MemoryMoves(v, w)
<1>1. w \in WorkerState /\ AvailableIsIdle(w) /\ w.ongoing[j] = 0
  BY OutsiderHoldsNothing DEF WorkerInv, WorkerOK
<1>2. CASE ComputeRefused(w, m)
  <2>1. v = w
    BY <1>2, ReserveComputeKeeps
  <2> QED  BY <2>1 DEF TasksKept, MemoryMoves
<1>3. CASE ~ComputeRefused(w, m)
  <2> DEFINE a == Admit(w, j, m)
  <2>1. /\ a \in WorkerState /\ a.ongoing = [w.ongoing EXCEPT ![j] = m]
        /\ a.available = w.available /\ a.task = w.task /\ Busy(a) = Busy(w)
    BY <1>1, AdmitEffect
  <2>2. AvailableIsIdle(a)
    BY <1>1, <2>1 DEF AvailableIsIdle
  <2>3. v = PoolReserve(a, j)
    BY <1>3 DEF ReserveCompute, ComputeRefused
  <2> HIDE DEF a
  <2>4. CASE a.available # <<>>
    <3>1. v = CpuReserve(a, j)
      BY <2>3, <2>4 DEF PoolReserve
    <3>2. /\ v.task = [a.task EXCEPT ![a.available[1]] = j]
          /\ a.available[1] \notin Busy(a) /\ v.ongoing = a.ongoing
      BY <2>1, <2>2, <2>4, <3>1, CpuReserveEffect DEF SameMemory
    <3>3. TasksKept(v, w, {})
      BY <1>1, <2>1, <3>2 DEF TasksKept, WorkerState, Busy
    <3>4. w.ongoing \in [Jobs -> Nat] /\ v.ongoing = [w.ongoing EXCEPT ![j] = m]
      BY <1>1, <2>1, <3>2 DEF WorkerState
    <3>5. MemoryMoves(v, w)
      BY <1>1, <3>4, OneJobMoves
    <3> QED  BY <3>3, <3>5
  <2>5. CASE a.available = <<>>
    <3>1. v.task = a.task /\ v.ongoing = a.ongoing
      BY <2>1, <2>3, <2>5 DEF PoolReserve, Enqueue, WorkerState
    <3>2. TasksKept(v, w, {})
      BY <2>1, <3>1 DEF TasksKept
    <3>3. w.ongoing \in [Jobs -> Nat] /\ v.ongoing = [w.ongoing EXCEPT ![j] = m]
      BY <1>1, <2>1, <3>1 DEF WorkerState
    <3>4. MemoryMoves(v, w)
      BY <1>1, <3>3, OneJobMoves
    <3> QED  BY <3>2, <3>4
  <2> QED  BY <2>4, <2>5
<1> QED  BY <1>2, <1>3

LEMMA CpuDoneMoves ==
    ASSUME NEW w, WorkerInv(w), NEW c \in Busy(w), NEW v, v = CpuDone(w, c)
    PROVE  TasksKept(v, w, {c}) /\ MemoryMoves(v, w)
<1> DEFINE p == PoolRelease(CpuReturned(w, c))
           j == w.task[c]
<1>1. w \in WorkerState /\ j \in Jobs
  BY CpuDoneKeeps DEF WorkerInv, WorkerOK
<1>2. /\ p \in WorkerState /\ p.ongoing = w.ongoing
      /\ p.task = [w.task EXCEPT ![c] = NoJob]
           \/ p.task = [w.task EXCEPT ![c] = Head(w.wait_queue)]
  BY HandOverEffect DEF SameMemory
<1>3. v = ComputeDone(p, j)
  BY DEF CpuDone
<1> HIDE DEF p, j
<1>4. v.task = p.task /\ v.ongoing = [p.ongoing EXCEPT ![j] = 0]
  BY <1>1, <1>2, <1>3, ComputeDoneEffect
<1>5. TasksKept(v, w, {c})
  BY <1>1, <1>2, <1>4 DEF TasksKept, WorkerState, Busy
<1>6. w.ongoing \in [Jobs -> Nat] /\ v.ongoing = [w.ongoing EXCEPT ![j] = 0]
  BY <1>1, <1>2, <1>4 DEF WorkerState
<1>7. MemoryMoves(v, w)
  BY <1>1, <1>6, OneJobMoves
<1> QED  BY <1>5, <1>7

LEMMA WakeHeadMoves ==
    ASSUME NEW w, WorkerInv(w), w.spinning_down, w.wait_queue # <<>>,
           NEW v, v = WakeHead(w)
    PROVE  TasksKept(v, w, {}) /\ v.task = w.task /\ MemoryMoves(v, w)
<1> DEFINE p == Dequeue(w)
           h == Head(w.wait_queue)
<1>1. w \in WorkerState /\ h \in Jobs /\ WakeFails(w)
  BY WakeHeadKeeps DEF WorkerInv, WorkerOK
<1>2. p \in WorkerState /\ p.ongoing = w.ongoing /\ p.task = w.task
  BY <1>1, DequeueEffect DEF SameMemory
<1>3. v = ComputeDone(p, h)
  BY <1>1 DEF WakeHead
<1> HIDE DEF p, h
<1>4. v.task = p.task /\ v.ongoing = [p.ongoing EXCEPT ![h] = 0]
  BY <1>1, <1>2, <1>3, ComputeDoneEffect
<1>5. w.ongoing \in [Jobs -> Nat] /\ v.ongoing = [w.ongoing EXCEPT ![h] = 0]
  BY <1>1, <1>2, <1>4 DEF WorkerState
<1>6. MemoryMoves(v, w)
  BY <1>1, <1>5, OneJobMoves
<1> QED  BY <1>2, <1>4, <1>6 DEF TasksKept

LEMMA ReserveDiskMoves ==
    ASSUME NEW w, WorkerInv(w), NEW j \in Jobs, j \notin Outstanding(w),
           NEW m \in Nat, NEW v, v = ReserveDisk(w, j, m)
    PROVE  v.task = w.task /\ MemoryMoves(v, w)
<1>1. w \in WorkerState /\ w.ongoing[j] = 0
  BY OutsiderHoldsNothing DEF WorkerInv, WorkerOK
<1>2. CASE DiskRefused(w, m)
  <2>1. v = w
    BY <1>2 DEF ReserveDisk
  <2> QED  BY <2>1 DEF MemoryMoves
<1>3. CASE ~DiskRefused(w, m)
  <2>1. v.task = w.task /\ v.ongoing = [w.ongoing EXCEPT ![j] = m]
    BY <1>1, <1>3 DEF ReserveDisk, RamReserve, WorkerState
  <2> QED  BY <1>1, <2>1, OneJobMoves DEF WorkerState
<1> QED  BY <1>2, <1>3

LEMMA DiskDoneMoves ==
    ASSUME NEW w, WorkerInv(w), NEW j \in w.io, NEW v, v = DiskDone(w, j)
    PROVE  v.task = w.task /\ MemoryMoves(v, w)
<1>1. w \in WorkerState /\ j \in Jobs
  BY DEF WorkerInv, WorkerOK, WorkerState
<1>2. v.task = w.task /\ v.ongoing = [w.ongoing EXCEPT ![j] = 0]
  BY <1>1 DEF DiskDone, RamRelease, WorkerState
<1> QED  BY <1>1, <1>2, OneJobMoves DEF WorkerState

-----------------------------------------------------------------------------
(* The bookkeeping of a step.                                              *)

Ends   == {c \in Cpus : worker.task[c] # NoJob /\ worker'.task[c] # worker.task[c]}
Starts == {c \in Cpus : worker'.task[c] # NoJob /\ worker'.task[c] # worker.task[c]}

EndedCpu(c) == IF c \in Ends THEN CpuEnds(cpu[c], timer[worker.task[c]].duration) ELSE cpu[c]

NextTimer(j, d) ==
    IF \E c \in Starts : worker'.task[c] = j THEN Timed("cpu", d)
    ELSE IF \E c \in Ends : worker.task[c] = j THEN NoTimer
    ELSE timer[j]

LEMMA CpuStepUnfolds ==
    ASSUME CpuStep
    PROVE  /\ cpu' = [c \in Cpus |-> IF c \in Starts THEN CpuStarts(EndedCpu(c)) ELSE EndedCpu(c)]
           /\ \E d \in Durations : timer' = [j \in Jobs |-> NextTimer(j, d)]
  BY DEF CpuStep, Ends, Starts, EndedCpu, NextTimer

LEMMA WorkerTasks ==
    ASSUME NEW w, WorkerInv(w)
    PROVE  /\ w.task \in [Cpus -> Jobs \cup {NoJob}]
           /\ Busy(w) \subseteq Cpus
           /\ \A c \in Busy(w) : w.task[c] \in Jobs /\ w.task[c] \in Running(w)
           /\ \A c, d \in Busy(w) : w.task[c] = w.task[d] => c = d
           /\ w.io \cap Running(w) = {}
           /\ w.ongoing \in [Jobs -> Nat]
           /\ w.io \subseteq Jobs
<1>1. w \in WorkerState /\ EachJobOnce(w)
  BY DEF WorkerInv, WorkerOK
<1>2. w.task \in [Cpus -> Jobs \cup {NoJob}] /\ w.ongoing \in [Jobs -> Nat] /\ w.io \subseteq Jobs
  BY <1>1 DEF WorkerState
<1> QED  BY <1>1, <1>2 DEF EachJobOnce, Busy, Running

\* A CPU whose reservation ends when it is due, or that starts one, or neither,
\* has nothing more and nothing less to report.
LEMMA CpuStepOfOne ==
    ASSUME WorkerInv(worker), Typed, NEW c \in Cpus, CpuKept(c),
           c \in Ends => timer[worker.task[c]].due = now,
           NEW u, u = IF c \in Starts THEN CpuStarts(EndedCpu(c)) ELSE EndedCpu(c)
    PROVE  /\ u \in CpuState /\ TimesOf(u)
           /\ CpuIsBusy(u) <=> (c \in Starts \/ (c \in Busy(worker) /\ c \notin Ends))
           /\ c \in Starts => u.last_reserved_time = now
           /\ c \notin Starts /\ c \notin Ends => u = cpu[c]
           /\ WorkOf(u) = WorkOf(cpu[c]) /\ BaselineOf(u) = BaselineOf(cpu[c])
           /\ u.last_profiled = cpu[c].last_profiled
<1> DEFINE q == cpu[c]
           e == EndedCpu(c)
           j == worker.task[c]
<1>1. q \in CpuState /\ TimesOf(q) /\ now \in Nat /\ (CpuIsBusy(q) <=> c \in Busy(worker))
  BY DEF Typed, CpuKept
<1>2. c \in Ends => c \in Busy(worker) /\ j \in Jobs /\ timer[j] \in TimerState
  BY WorkerTasks DEF Ends, Busy, Typed
<1>3. c \in Starts => c \in Ends \/ c \notin Busy(worker)
  BY DEF Starts, Ends, Busy
<1>4. /\ e \in CpuState /\ TimesOf(e)
      /\ CpuIsBusy(e) <=> (c \in Busy(worker) /\ c \notin Ends)
      /\ WorkOf(e) = WorkOf(q) /\ BaselineOf(e) = BaselineOf(q)
      /\ e.last_profiled = q.last_profiled
      /\ c \notin Ends => e = q
  <2>1. CASE c \in Ends
    <3> DEFINE d == timer[j].duration
    <3>1. e = CpuEnds(q, d) /\ CpuIsBusy(q)
      BY <1>1, <1>2, <2>1 DEF EndedCpu
    <3>2. d \in Nat /\ now <= q.last_reserved_time + d
      BY <1>2, <2>1 DEF TimerState, CpuKept, Within
    <3> HIDE DEF d, q, e
    <3>3. /\ e \in CpuState /\ TimesOf(e) /\ ~CpuIsBusy(e)
          /\ WorkOf(e) = WorkOf(q) /\ BaselineOf(e) = BaselineOf(q)
          /\ e.last_profiled = q.last_profiled
      BY <1>1, <3>1, <3>2, CpuEndsReportsSame
    <3> QED  BY <2>1, <3>3
  <2>2. CASE c \notin Ends
    <3>1. e = q
      BY <2>2 DEF EndedCpu
    <3> HIDE DEF e
    <3> QED  BY <1>1, <2>2, <3>1
  <2> QED  BY <2>1, <2>2
<1>5. u = IF c \in Starts THEN CpuStarts(e) ELSE e
  OBVIOUS
<1> HIDE DEF e, q, j
<1>6. CASE c \in Starts
  <2>1. u = CpuStarts(e) /\ ~CpuIsBusy(e)
    BY <1>3, <1>4, <1>5, <1>6
  <2>2. /\ u \in CpuState /\ TimesOf(u) /\ CpuIsBusy(u)
        /\ u.last_reserved_time = now
        /\ WorkOf(u) = WorkOf(e) /\ BaselineOf(u) = BaselineOf(e)
        /\ u.last_profiled = e.last_profiled
    BY <1>1, <1>4, <2>1, CpuStartsReportsSame
  <2> QED  BY <1>4, <1>6, <2>2 DEF q
<1>7. CASE c \notin Starts
  BY <1>4, <1>5, <1>7 DEF q
<1> QED  BY <1>6, <1>7

\* The timer of a job that no CPU starts or ends runs on; that of one that a CPU
\* starts has its whole duration before it.
LEMMA NextTimerOf ==
    ASSUME WorkerInv(worker), WorkerInv(worker'), Typed, NEW d \in Durations,
           NEW j \in Jobs
    PROVE  /\ NextTimer(j, d) \in TimerState
           /\ \A c \in Starts : worker'.task[c] = j => NextTimer(j, d) = Timed("cpu", d)
           /\ \A c \in Busy(worker) \ Ends : worker.task[c] = j => NextTimer(j, d) = timer[j]
           /\ j \notin Running(worker) /\ j \notin Running(worker') => NextTimer(j, d) = timer[j]
<1>1. /\ timer[j] \in TimerState /\ NoTimer \in TimerState /\ Timed("cpu", d) \in TimerState
  BY ProfilingAssumption DEF Typed, TimerState, NoTimer, Timed
<1>2. NextTimer(j, d) \in TimerState
  BY <1>1 DEF NextTimer
<1>3. \A c \in Starts : worker'.task[c] = j => NextTimer(j, d) = Timed("cpu", d)
  BY DEF NextTimer
<1>4. ASSUME NEW c \in Busy(worker) \ Ends, worker.task[c] = j
      PROVE  NextTimer(j, d) = timer[j]
  <2>1. c \in Cpus /\ worker'.task[c] = j /\ c \in Busy(worker')
    BY <1>4 DEF Ends, Busy
  <2>2. ~\E b \in Starts : worker'.task[b] = j
    <3> SUFFICES ASSUME NEW b \in Starts, worker'.task[b] = j
                 PROVE  FALSE
      OBVIOUS
    <3>1. b \in Busy(worker')
      BY DEF Starts, Busy
    <3>2. b = c
      BY <2>1, <3>1, WorkerTasks
    <3> QED  BY <1>4, <2>1, <3>2 DEF Starts
  <2>3. ~\E b \in Ends : worker.task[b] = j
    <3> SUFFICES ASSUME NEW b \in Ends, worker.task[b] = j
                 PROVE  FALSE
      OBVIOUS
    <3>1. b \in Busy(worker)
      BY DEF Ends, Busy
    <3>2. b = c
      BY <1>4, <3>1, WorkerTasks
    <3> QED  BY <1>4, <3>2
  <2> QED  BY <2>2, <2>3 DEF NextTimer
<1>5. ASSUME j \notin Running(worker), j \notin Running(worker')
      PROVE  NextTimer(j, d) = timer[j]
  BY <1>5 DEF NextTimer, Starts, Ends, Running, Busy
<1> QED  BY <1>2, <1>3, <1>4, <1>5

LEMMA CpuStepKeeps ==
    ASSUME WorkerInv(worker), WorkerInv(worker'), Typed, CpusKept, CpuStep,
           NEW E, TasksKept(worker', worker, E),
           \A c \in E : timer[worker.task[c]].due = now,
           now' = now, truth' = truth
    PROVE  /\ cpu' \in [Cpus -> CpuState] /\ timer' \in [Jobs -> TimerState]
           /\ CpusKept'
           /\ \A j \in Jobs : j \notin Running(worker) /\ j \notin Running(worker')
                                => timer'[j] = timer[j]
<1>1. cpu' = [c \in Cpus |-> IF c \in Starts THEN CpuStarts(EndedCpu(c)) ELSE EndedCpu(c)]
  BY CpuStepUnfolds
<1>2. PICK d \in Durations : timer' = [j \in Jobs |-> NextTimer(j, d)]
  BY CpuStepUnfolds
<1>3. Ends \subseteq E
  BY DEF Ends, TasksKept, Busy
<1>4. ASSUME NEW c \in Cpus
      PROVE  /\ cpu'[c] \in CpuState /\ TimesOf(cpu'[c])
             /\ CpuIsBusy(cpu'[c]) <=> (c \in Starts \/ (c \in Busy(worker) /\ c \notin Ends))
             /\ c \in Starts => cpu'[c].last_reserved_time = now
             /\ c \notin Starts /\ c \notin Ends => cpu'[c] = cpu[c]
             /\ WorkOf(cpu'[c]) = WorkOf(cpu[c]) /\ BaselineOf(cpu'[c]) = BaselineOf(cpu[c])
             /\ cpu'[c].last_profiled = cpu[c].last_profiled
  <2>1. cpu'[c] = IF c \in Starts THEN CpuStarts(EndedCpu(c)) ELSE EndedCpu(c)
    BY <1>1
  <2>2. CpuKept(c) /\ (c \in Ends => timer[worker.task[c]].due = now)
    BY <1>3 DEF CpusKept
  <2> QED  BY <2>1, <2>2, CpuStepOfOne
<1>5. cpu' \in [Cpus -> CpuState]
  BY <1>1, <1>4
<1>6. timer' \in [Jobs -> TimerState]
  BY <1>2, NextTimerOf
<1>7. ASSUME NEW c \in Cpus
      PROVE  CpuKept(c)'
  <2>1. TimesOf(cpu[c])'
    BY <1>4 DEF TimesOf
  <2>2. c \in Busy(worker') <=> (c \in Starts \/ (c \in Busy(worker) /\ c \notin Ends))
    BY DEF Busy, Starts, Ends
  <2>3. CpuIsBusy(cpu'[c]) <=> c \in Busy(worker')
    BY <1>4, <2>2
  <2>4. ASSUME c \in Busy(worker')
        PROVE  Within(cpu[c], timer[worker.task[c]])'
    <3> DEFINE j == worker'.task[c]
    <3>1. j \in Jobs
      BY <2>4, WorkerTasks
    <3>2. CASE c \in Starts
      <4>1. timer'[j] = Timed("cpu", d)
        BY <1>2, <3>1, <3>2, NextTimerOf
      <4>2. timer'[j].due = now + d /\ timer'[j].duration = d /\ d \in Nat /\ now \in Nat
        BY <4>1, ProfilingAssumption DEF Timed, Typed
      <4>3. cpu'[c].last_reserved_time = now
        BY <1>4, <3>2
      <4> QED  BY <4>2, <4>3 DEF Within
    <3>3. CASE c \notin Starts
      <4>1. c \in Busy(worker) \ Ends /\ worker.task[c] = j
        BY <2>2, <2>4, <3>3 DEF Starts, Busy
      <4>2. timer'[j] = timer[j]
        BY <1>2, <3>1, <4>1, NextTimerOf
      <4>3. cpu'[c] = cpu[c]
        BY <1>4, <3>3, <4>1
      <4>4. Within(cpu[c], timer[j])
        BY <4>1 DEF CpusKept, CpuKept
      <4> QED  BY <4>2, <4>3, <4>4 DEF Within
    <3> QED  BY <3>2, <3>3
  <2>5. Reported(cpu[c], truth.work[c], c \in truth.caught)
    BY DEF CpusKept, CpuKept
  <2>6. Reported(cpu[c], truth.work[c], c \in truth.caught)'
    <3>1. /\ WorkOf(cpu[c])' = WorkOf(cpu[c])
          /\ BaselineOf(cpu[c])' = BaselineOf(cpu[c])
          /\ cpu'[c].last_profiled = cpu[c].last_profiled
      <4>1. WorkOf(cpu[c])' = WorkOf(cpu'[c]) /\ BaselineOf(cpu[c])' = BaselineOf(cpu'[c])
        BY DEF WorkOf, BaselineOf
      <4> QED  BY <1>4, <4>1
    <3> QED  BY <2>5, <3>1 DEF Reported
  <2> QED  BY <2>1, <2>3, <2>4, <2>6 DEF CpuKept
<1>8. CpusKept'
  BY <1>7 DEF CpusKept
<1>9. ASSUME NEW j \in Jobs, j \notin Running(worker), j \notin Running(worker')
      PROVE  timer'[j] = timer[j]
  BY <1>2, <1>9, NextTimerOf
<1> QED  BY <1>5, <1>6, <1>8, <1>9

\* The byte-seconds that each job's reservation adds to the next report.
Holdings == [j \in Jobs |-> HeldBy(j)]
Holders  == {j \in Jobs : worker.ongoing[j] # 0}

LEMMA HeldTogetherIsUnits ==
    ASSUME NEW S \in SUBSET Jobs
    PROVE  HeldTogether(S) = Cardinality(Units(Holdings, S))
<1>1. UNION {{j} \X (1..HeldBy(j)) : j \in S} = Units(Holdings, S)
  BY DEF Units, Holdings
<1> QED  BY <1>1 DEF HeldTogether

LEMMA RamTotalIsUnits ==
    /\ RamTotal = ram.integrated_utilization + Cardinality(Units(Holdings, Holders))
    /\ RamTotal' = ram'.integrated_utilization + Cardinality(Units(Holdings', Holders'))
<1>1. UNION {{j} \X (1..HeldBy(j)) : j \in Holders} = Units(Holdings, Holders)
  BY DEF Units, Holdings, Holders
<1>2. (UNION {{j} \X (1..HeldBy(j)) : j \in Holders} = Units(Holdings, Holders))'
  BY DEF Units, Holdings, Holders
<1>3. RamTotal = ram.integrated_utilization + Cardinality(Units(Holdings, Holders))
  BY <1>1 DEF RamTotal, HeldTogether, Holders
<1>4. (RamTotal = ram.integrated_utilization + Cardinality(Units(Holdings, Holders)))'
  BY <1>2 DEF RamTotal, HeldTogether, Holders
<1>5. (Units(Holdings, Holders))' = Units(Holdings', Holders')
  BY DEF Units
<1> QED  BY <1>3, <1>4, <1>5

LEMMA HoldingsTyped ==
    ASSUME WorkerInv(worker), Typed, RamKept
    PROVE  /\ Holdings \in [Jobs -> Nat] /\ Holders \in SUBSET Jobs
           /\ Cardinality(Units(Holdings, Holders)) \in Nat
<1>1. ASSUME NEW j \in Jobs
      PROVE  HeldBy(j) \in Nat
  <2>1. worker.ongoing[j] \in Nat /\ now - Later(ram.last_profiled, ram.start[j]) \in Nat
    BY WorkerTasks DEF Typed, RamState, RamKept, Later
  <2> QED  BY <2>1, ProductIsNat DEF HeldBy
<1>2. Holdings \in [Jobs -> Nat] /\ Holders \in SUBSET Jobs
  BY <1>1 DEF Holdings, Holders
<1> QED  BY <1>2, UnitsFinite

\* Reservations made in a step add nothing to report yet, and those returned leave
\* what they added.
LEMMA RamStepKeeps ==
    ASSUME WorkerInv(worker), WorkerInv(worker'), Typed, RamKept, RamStep,
           MemoryMoves(worker', worker), now' = now, truth' = truth
    PROVE  ram' \in RamState /\ RamKept'
<1> DEFINE R == {j \in Jobs : worker.ongoing[j] # 0 /\ worker'.ongoing[j] = 0}
           M == {j \in Jobs : worker.ongoing[j] = 0 /\ worker'.ongoing[j] # 0}
           K == Holders \ R
           i == ram.integrated_utilization + HeldTogether(R)
           s == [j \in Jobs |-> CASE j \in M -> now [] j \in R -> 0 [] OTHER -> ram.start[j]]
<1>1. ram' = [ram EXCEPT !.integrated_utilization = i, !.start = s]
  BY DEF RamStep
<1>2. /\ ram.integrated_utilization \in Nat /\ ram.start \in [Jobs -> Nat]
      /\ ram.last_profiled \in 0..now /\ now \in Nat
      /\ \A j \in Jobs : ram.start[j] \in 0..now
      /\ worker.ongoing \in [Jobs -> Nat] /\ worker'.ongoing \in [Jobs -> Nat]
  BY WorkerTasks DEF Typed, RamState, RamKept
<1>3. Holdings \in [Jobs -> Nat] /\ R \in SUBSET Jobs /\ K \in SUBSET Jobs /\ M \in SUBSET Jobs
  BY HoldingsTyped
<1>4. HeldTogether(R) = Cardinality(Units(Holdings, R)) /\ Cardinality(Units(Holdings, R)) \in Nat
  BY <1>3, HeldTogetherIsUnits, UnitsFinite
<1>5. i \in Nat
  BY <1>2, <1>4
<1>6. M \cap R = {}
  OBVIOUS
<1>7. \A j \in Jobs : /\ j \in M => s[j] = now
                      /\ j \in R => s[j] = 0
                      /\ j \notin M /\ j \notin R => s[j] = ram.start[j]
  BY <1>6
<1>8. /\ R \cup K = Holders /\ R \cap K = {} /\ K \cup M = Holders' /\ K \cap M = {}
      /\ \A j \in K : worker'.ongoing[j] = worker.ongoing[j] /\ j \notin M /\ j \notin R
  BY DEF Holders, MemoryMoves
<1> HIDE DEF i, s, R, M, K
<1>9. s \in [Jobs -> Nat] /\ \A j \in Jobs : s[j] <= now
  <2>1. s = [j \in Jobs |-> s[j]]
    BY DEF s
  <2> QED  BY <1>2, <1>7, <2>1
<1>10. /\ ram' \in RamState /\ ram'.integrated_utilization = i /\ ram'.start = s
       /\ ram'.last_profiled = ram.last_profiled
  <2> DEFINE x == [ram EXCEPT !.integrated_utilization = i]
  <2>1. x \in RamState /\ x.integrated_utilization = i /\ x.last_profiled = ram.last_profiled
    BY <1>5 DEF Typed, RamState
  <2>2. ram' = [x EXCEPT !.start = s]
    BY <1>1 DEF Typed, RamState
  <2> HIDE DEF x
  <2> QED  BY <1>9, <2>1, <2>2 DEF RamState
<1>11. ASSUME NEW j \in Jobs
       PROVE  Holdings'[j] = worker'.ongoing[j] * (now - Later(ram.last_profiled, s[j]))
  <2>1. HeldBy(j)' = worker'.ongoing[j] * (now' - Later(ram'.last_profiled, ram'.start[j]))
    BY DEF HeldBy, Later
  <2> QED  BY <1>10, <2>1 DEF Holdings
<1>12. Holdings' \in [Jobs -> Nat]
  <2>1. Holdings' = [j \in Jobs |-> Holdings'[j]]
    BY DEF Holdings
  <2>2. ASSUME NEW j \in Jobs
        PROVE  Holdings'[j] \in Nat
    <3>1. worker'.ongoing[j] \in Nat /\ now - Later(ram.last_profiled, s[j]) \in Nat
      BY <1>2, <1>9 DEF Later
    <3> QED  BY <1>11, <3>1, ProductIsNat
  <2> QED  BY <2>1, <2>2
<1>13. \A j \in K : Holdings'[j] = Holdings[j]
  <2> SUFFICES ASSUME NEW j \in K
               PROVE  Holdings'[j] = Holdings[j]
    OBVIOUS
  <2>1. j \in Jobs /\ s[j] = ram.start[j] /\ worker'.ongoing[j] = worker.ongoing[j]
    BY <1>3, <1>7, <1>8
  <2>2. Holdings[j] = worker.ongoing[j] * (now - Later(ram.last_profiled, ram.start[j]))
    BY <2>1 DEF Holdings, HeldBy
  <2> QED  BY <1>11, <2>1, <2>2
<1>14. \A j \in M : Holdings'[j] = 0
  <2> SUFFICES ASSUME NEW j \in M
               PROVE  Holdings'[j] = 0
    OBVIOUS
  <2>1. j \in Jobs /\ s[j] = now /\ worker'.ongoing[j] \in Nat
    BY <1>2, <1>3, <1>7
  <2>2. Later(ram.last_profiled, now) = now
    BY <1>2 DEF Later
  <2>3. Holdings'[j] = worker'.ongoing[j] * (now - now)
    BY <1>11, <2>1, <2>2
  <2> QED  BY <1>2, <2>1, <2>3
<1>15. Cardinality(Units(Holdings', Holders')) = Cardinality(Units(Holdings, K))
  <2>1. Cardinality(Units(Holdings', K \cup M))
          = Cardinality(Units(Holdings', K)) + Cardinality(Units(Holdings', M))
    BY <1>3, <1>8, <1>12, UnitsSplit
  <2>2. Cardinality(Units(Holdings', M)) = 0
    BY <1>14, UnitsNone
  <2>3. Units(Holdings', K) = Units(Holdings, K)
    BY <1>13, UnitsSame
  <2>4. Cardinality(Units(Holdings, K)) \in Nat
    BY <1>3, UnitsFinite
  <2>5. Units(Holdings', Holders') = Units(Holdings', K \cup M)
    BY <1>8
  <2>6. Cardinality(Units(Holdings', K)) = Cardinality(Units(Holdings, K))
    BY <2>3
  <2>7. Cardinality(Units(Holdings', K \cup M)) = Cardinality(Units(Holdings, K))
    BY <2>1, <2>2, <2>4, <2>6
  <2> QED  BY <2>5, <2>7
<1>16. Cardinality(Units(Holdings, Holders))
         = Cardinality(Units(Holdings, R)) + Cardinality(Units(Holdings, K))
  BY <1>3, <1>8, UnitsSplit
<1>17. RamTotal' = RamTotal
  <2>1. Cardinality(Units(Holdings, K)) \in Nat
    BY <1>3, UnitsFinite
  <2>2. RamTotal' = (ram.integrated_utilization + HeldTogether(R)) + Cardinality(Units(Holdings, K))
    BY <1>10, <1>15, RamTotalIsUnits DEF i
  <2>3. RamTotal = ram.integrated_utilization + Cardinality(Units(Holdings, Holders))
    BY RamTotalIsUnits
  <2> QED  BY <1>2, <1>4, <1>16, <2>1, <2>2, <2>3
<1> QED  BY <1>2, <1>9, <1>10, <1>17 DEF RamKept

-----------------------------------------------------------------------------
(* The steps.                                                              *)

\* A step of the worker that ends the reservations of the CPUs of E, all due.
LEMMA WorkerStepKeeps ==
    ASSUME Inv, WorkerInv(worker'), CpuStep, RamStep,
           NEW E, TasksKept(worker', worker, E),
           \A c \in E : timer[worker.task[c]].due = now,
           MemoryMoves(worker', worker), worker'.io = worker.io,
           UNCHANGED <<now, disk, truth>>
    PROVE  Inv'
<1>1. /\ cpu' \in [Cpus -> CpuState] /\ timer' \in [Jobs -> TimerState] /\ CpusKept'
      /\ \A j \in Jobs : j \notin Running(worker) /\ j \notin Running(worker')
                           => timer'[j] = timer[j]
  BY CpuStepKeeps DEF Inv
<1>2. ram' \in RamState /\ RamKept'
  BY RamStepKeeps DEF Inv
<1>3. Typed'
  BY <1>1, <1>2 DEF Inv, Typed
<1>4. DiskKept'
  <2> SUFFICES ASSUME NEW op \in Ops, disk[op] # Never
               PROVE  \E j \in worker'.io : timer'[j].op = op
    BY DEF DiskKept
  <2>1. PICK j \in worker.io : timer[j].op = op
    BY DEF Inv, DiskKept
  <2>2. j \in Jobs /\ j \notin Running(worker) /\ j \notin Running(worker')
    BY WorkerTasks DEF Inv
  <2> QED  BY <1>1, <2>1, <2>2
<1>5. WorkerInv(worker)'
  BY DEF WorkerInv, WorkerOK, WorkerState, AvailableIsIdle, WorkConserving, EachJobOnce,
         QueueAccounting, RamAccounting, HeldUnits, Outstanding, Busy, Running, Waiting
<1> QED  BY <1>1, <1>2, <1>3, <1>4, <1>5 DEF Inv

LEMMA ComputeKeeps ==
    ASSUME Inv, NEW j \in Jobs, NEW m \in Sizes, Compute(j, m)
    PROVE  Inv'
<1>1. WorkerInv(worker) /\ j \notin Outstanding(worker) /\ m \in Nat
  BY ProfilingAssumption DEF Inv, Compute
<1>2. worker' = ReserveCompute(worker, j, m)
  BY DEF Compute
<1>3. WorkerInv(worker') /\ worker'.io = worker.io
  BY <1>1, <1>2, ReserveComputeKeeps
<1>4. TasksKept(worker', worker, {}) /\ MemoryMoves(worker', worker)
  BY <1>1, <1>2, ReserveComputeMoves
<1>5. CpuStep /\ RamStep /\ UNCHANGED <<now, disk, truth>>
  BY DEF Compute
<1> QED  BY <1>3, <1>4, <1>5, WorkerStepKeeps

LEMMA CpuEventKeeps ==
    ASSUME Inv, NEW c \in Cpus, CpuEvent(c)
    PROVE  Inv'
<1>1. WorkerInv(worker) /\ c \in Busy(worker)
  BY DEF Inv, CpuEvent
<1>2. worker' = CpuDone(worker, c)
  BY DEF CpuEvent
<1>3. WorkerInv(worker') /\ worker'.io = worker.io
  BY <1>1, <1>2, CpuDoneKeeps
<1>4. TasksKept(worker', worker, {c}) /\ MemoryMoves(worker', worker)
  BY <1>1, <1>2, CpuDoneMoves
<1>5. CpuStep /\ RamStep /\ UNCHANGED <<now, disk, truth>>
  BY DEF CpuEvent
<1>6. \A d \in {c} : timer[worker.task[d]].due = now
  BY DEF CpuEvent
<1> QED  BY <1>3, <1>4, <1>5, <1>6, WorkerStepKeeps

LEMMA FailWaiterKeeps ==
    ASSUME Inv, FailWaiter
    PROVE  Inv'
<1>1. WorkerInv(worker) /\ worker.spinning_down /\ worker.wait_queue # <<>>
  BY DEF Inv, FailWaiter, Closing
<1>2. worker' = WakeHead(worker)
  BY DEF FailWaiter
<1>3. WorkerInv(worker') /\ worker'.io = worker.io
  BY <1>1, <1>2, WakeHeadKeeps
<1>4. TasksKept(worker', worker, {}) /\ MemoryMoves(worker', worker)
  BY <1>1, <1>2, WakeHeadMoves
<1>5. CpuStep /\ RamStep /\ UNCHANGED <<now, disk, truth>>
  BY DEF FailWaiter
<1> QED  BY <1>3, <1>4, <1>5, WorkerStepKeeps

\* Nothing changes for the CPUs where only timers of other jobs do.
LEMMA CpusUntouched ==
    ASSUME Inv, UNCHANGED <<now, cpu, truth>>, worker'.task = worker.task,
           \A j \in Running(worker) : timer'[j] = timer[j]
    PROVE  CpusKept'
<1> SUFFICES ASSUME NEW c \in Cpus
             PROVE  CpuKept(c)'
  BY DEF CpusKept
<1>1. CpuKept(c)
  BY DEF Inv, CpusKept
<1>2. c \in Busy(worker') <=> c \in Busy(worker)
  BY DEF Busy
<1>3. c \in Busy(worker) => worker.task[c] \in Running(worker)
  BY DEF Running
<1>4. TimesOf(cpu[c])' /\ (CpuIsBusy(cpu'[c]) <=> c \in Busy(worker'))
  BY <1>1, <1>2 DEF CpuKept, TimesOf, CpuIsBusy
<1>5. c \in Busy(worker') => Within(cpu[c], timer[worker.task[c]])'
  BY <1>1, <1>2, <1>3 DEF CpuKept, Within
<1>6. Reported(cpu[c], truth.work[c], c \in truth.caught)'
  BY <1>1 DEF CpuKept, Reported, WorkOf, BaselineOf, CpuIsBusy, Later
<1> QED  BY <1>4, <1>5, <1>6 DEF CpuKept, CpuIsBusy, Busy

LEMMA DiskCallKeeps ==
    ASSUME Inv, NEW j \in Jobs, NEW m \in Sizes, Disk(j, m)
    PROVE  Inv'
<1>1. WorkerInv(worker) /\ j \notin Outstanding(worker) /\ m \in Nat
  BY ProfilingAssumption DEF Inv, Disk
<1>2. worker' = ReserveDisk(worker, j, m)
  BY DEF Disk
<1>3. /\ WorkerInv(worker')
      /\ DiskRefused(worker, m) => worker'.io = worker.io
      /\ ~DiskRefused(worker, m) => worker'.io = worker.io \cup {j}
  BY <1>1, <1>2, ReserveDiskKeeps
<1>4. worker'.task = worker.task /\ MemoryMoves(worker', worker)
  BY <1>1, <1>2, ReserveDiskMoves
<1>5. ram' \in RamState /\ RamKept'
  BY <1>3, <1>4, RamStepKeeps DEF Inv, Disk
<1>6. CASE DiskRefused(worker, m)
  <2>1. UNCHANGED <<now, cpu, truth, timer, disk>>
    BY <1>6 DEF Disk
  <2>2. CpusKept'
    BY <1>4, <2>1, CpusUntouched
  <2>3. DiskKept'
    BY <1>3, <1>6, <2>1 DEF Inv, DiskKept
  <2>4. Typed'
    BY <1>5, <2>1 DEF Inv, Typed
  <2> QED  BY <1>3, <1>5, <2>2, <2>3, <2>4 DEF Inv
<1>7. CASE ~DiskRefused(worker, m)
  <2>1. PICK op \in Ops, d \in Durations :
          timer' = [timer EXCEPT ![j] = Timed(op, d)] /\ disk' = DiskStarts(op)
    BY <1>7 DEF Disk
  <2>2. UNCHANGED <<now, cpu, truth>>
    BY DEF Disk
  <2>3. Timed(op, d) \in TimerState /\ Timed(op, d).op = op
    BY ProfilingAssumption DEF Inv, Typed, Timed, TimerState
  <2>4. \A k \in Jobs : timer'[k] = IF k = j THEN Timed(op, d) ELSE timer[k]
    BY <2>1 DEF Inv, Typed
  <2>5. Running(worker) \subseteq Jobs /\ j \notin Running(worker)
    BY <1>1, WorkerTasks DEF Running, Outstanding
  <2>6. CpusKept'
    BY <1>4, <2>2, <2>4, <2>5, CpusUntouched
  <2>7. DiskKept'
    <3> SUFFICES ASSUME NEW o \in Ops, disk'[o] # Never
                 PROVE  \E k \in worker'.io : timer'[k].op = o
      BY DEF DiskKept
    <3>1. CASE o = op
      BY <1>3, <1>7, <2>3, <2>4, <3>1
    <3>2. CASE o # op
      <4>1. disk[o] # Never
        BY <2>1, <3>2 DEF Inv, Typed, DiskStarts
      <4>2. PICK k \in worker.io : timer[k].op = o
        BY <4>1 DEF Inv, DiskKept
      <4>3. k \in Jobs /\ k # j
        BY <1>1, WorkerTasks DEF Outstanding
      <4> QED  BY <1>3, <1>7, <2>4, <4>2, <4>3
    <3> QED  BY <3>1, <3>2
  <2>8. timer' \in [Jobs -> TimerState] /\ disk' \in [Ops -> Int]
    BY <2>1, <2>3 DEF Inv, Typed, DiskStarts
  <2>9. Typed'
    BY <1>5, <2>2, <2>8 DEF Inv, Typed
  <2> QED  BY <1>3, <1>5, <2>6, <2>7, <2>9 DEF Inv
<1> QED  BY <1>6, <1>7

LEMMA DiskEventKeeps ==
    ASSUME Inv, NEW j \in Jobs, DiskEvent(j)
    PROVE  Inv'
<1>1. WorkerInv(worker) /\ j \in worker.io
  BY DEF Inv, DiskEvent
<1>2. worker' = DiskDone(worker, j)
  BY DEF DiskEvent
<1>3. WorkerInv(worker') /\ worker'.io = worker.io \ {j}
  BY <1>1, <1>2, DiskDoneKeeps
<1>4. worker'.task = worker.task /\ MemoryMoves(worker', worker)
  BY <1>1, <1>2, DiskDoneMoves
<1>5. ram' \in RamState /\ RamKept'
  BY <1>3, <1>4, RamStepKeeps DEF Inv, DiskEvent
<1> DEFINE op == timer[j].op
<1>6. /\ timer' = [timer EXCEPT ![j] = NoTimer] /\ disk' = [disk EXCEPT ![op] = Never]
      /\ UNCHANGED <<now, cpu, truth>>
  BY DEF DiskEvent, DiskEnds
<1>7. NoTimer \in TimerState
  BY DEF TimerState, NoTimer
<1>8. timer' \in [Jobs -> TimerState] /\ disk' \in [Ops -> Int]
  <2>1. Never \in Int /\ timer \in [Jobs -> TimerState] /\ disk \in [Ops -> Int]
    BY DEF Inv, Typed, Never
  <2>2. timer' \in [Jobs -> TimerState]
    BY <1>6, <1>7, <2>1
  <2> HIDE DEF op
  <2>3. disk' \in [Ops -> Int]
    BY <1>6, <2>1
  <2> QED  BY <2>2, <2>3
<1>9. \A k \in Jobs : k # j => timer'[k] = timer[k]
  BY <1>6 DEF Inv, Typed
<1>10. Running(worker) \subseteq Jobs /\ j \notin Running(worker)
  BY <1>1, WorkerTasks DEF Running
<1>11. CpusKept'
  BY <1>4, <1>6, <1>9, <1>10, CpusUntouched
<1>12. DiskKept'
  <2> SUFFICES ASSUME NEW o \in Ops, disk'[o] # Never
               PROVE  \E k \in worker'.io : timer'[k].op = o
    BY DEF DiskKept
  <2>1. disk[o] # Never /\ o # op
    BY <1>6 DEF Inv, Typed
  <2>2. PICK k \in worker.io : timer[k].op = o
    BY <2>1 DEF Inv, DiskKept
  <2>3. k \in Jobs /\ k # j
    BY <1>1, <2>1, <2>2, WorkerTasks
  <2> QED  BY <1>3, <1>9, <2>2, <2>3
<1>13. Typed'
  BY <1>5, <1>6, <1>8 DEF Inv, Typed
<1> QED  BY <1>3, <1>5, <1>11, <1>12, <1>13 DEF Inv

LEMMA SpinDownKeeps ==
    ASSUME Inv, SpinDown
    PROVE  Inv'
<1>1. WorkerInv(worker) /\ worker' = CloseQueue(worker)
  BY DEF Inv, SpinDown
<1>2. WorkerInv(worker') /\ worker'.io = worker.io
  BY <1>1, CloseQueueKeeps
<1>3. worker'.task = worker.task /\ worker'.ongoing = worker.ongoing
  BY DEF Inv, WorkerInv, WorkerOK, WorkerState, SpinDown, CloseQueue
<1>4. UNCHANGED <<now, timer, cpu, ram, disk, truth>>
  BY DEF SpinDown
<1>5. CpusKept'
  BY <1>3, <1>4, CpusUntouched
<1>6. RamKept'
  <2>1. Holdings' = Holdings /\ Holders' = Holders
    BY <1>3, <1>4 DEF Holdings, Holders, HeldBy, Later
  <2>2. RamTotal' = RamTotal
    BY <1>4, <2>1, RamTotalIsUnits
  <2> QED  BY <1>4, <2>2 DEF Inv, RamKept
<1>7. DiskKept'
  BY <1>2, <1>4 DEF Inv, DiskKept
<1>8. Typed'
  BY <1>4 DEF Inv, Typed
<1> QED  BY <1>2, <1>5, <1>6, <1>7, <1>8 DEF Inv

\* Where neither the worker nor the time moves, what a CPU's record must be.
LEMMA CpuRecordChanged ==
    ASSUME UNCHANGED <<worker, now, timer>>, NEW c \in Cpus, CpuKept(c),
           TimesOf(cpu'[c]), CpuIsBusy(cpu'[c]) <=> CpuIsBusy(cpu[c]),
           now \in Nat, cpu[c].last_reserved_time \in Int,
           cpu'[c].last_reserved_time \in Int,
           c \in Busy(worker) => timer[worker.task[c]] \in TimerState,
           cpu'[c].last_reserved_time >= cpu[c].last_reserved_time,
           Reported(cpu'[c], truth'.work[c], c \in truth'.caught)
    PROVE  CpuKept(c)'
<1>1. TimesOf(cpu[c])'
  BY DEF TimesOf
<1>2. CpuIsBusy(cpu[c])' <=> c \in Busy(worker')
  BY DEF CpuKept, CpuIsBusy
<1>3. c \in Busy(worker') => Within(cpu[c], timer[worker.task[c]])'
  <2> SUFFICES ASSUME c \in Busy(worker)
               PROVE  Within(cpu[c], timer[worker.task[c]])'
    OBVIOUS
  <2> DEFINE t == timer[worker.task[c]]
  <2>1. t \in TimerState /\ Within(cpu[c], t)
    BY DEF CpuKept
  <2>2. t.due \in Nat /\ t.duration \in Nat
    BY <2>1 DEF TimerState
  <2>3. t' = t
    OBVIOUS
  <2> HIDE DEF t
  <2>4. now <= t.due /\ t.due <= cpu'[c].last_reserved_time + t.duration
    BY <2>1, <2>2 DEF Within
  <2>5. Within(cpu[c], t)'
    BY <2>3, <2>4 DEF Within
  <2> QED  BY <2>5 DEF t
<1>4. Reported(cpu[c], truth.work[c], c \in truth.caught)'
  BY DEF Reported, WorkOf, BaselineOf, CpuIsBusy, Later
<1>5. (c \in Busy(worker))' <=> c \in Busy(worker')
  BY DEF Busy
<1> QED  BY <1>1, <1>2, <1>3, <1>4, <1>5 DEF CpuKept, CpuIsBusy, Busy

LEMMA SlowDownKeeps ==
    ASSUME Inv, SlowDown
    PROVE  Inv'
<1>1. /\ cpu' = [c \in Cpus |-> CpuSlowsDown(cpu[c])]
      /\ truth' = [truth EXCEPT !.caught = @ \cup Busy(worker)]
      /\ UNCHANGED <<worker, now, timer, ram, disk>>
      /\ \A c \in Cpus : ~cpu[c].blue_green_active
  BY DEF SlowDown
<1>2. WorkerInv(worker) /\ Typed /\ now \in Nat
  BY DEF Inv, Typed
<1>3. /\ truth'.work = truth.work /\ truth'.bytes = truth.bytes
      /\ truth'.caught = truth.caught \cup Busy(worker)
      /\ truth' \in [work : [Cpus -> Nat], bytes : Nat, caught : SUBSET Cpus]
  BY <1>1, <1>2, WorkerTasks DEF Typed
<1>4. ASSUME NEW c \in Cpus
      PROVE  cpu'[c] \in CpuState /\ CpuKept(c)'
  <2> DEFINE q == cpu[c]
             u == cpu'[c]
  <2>1. u = CpuSlowsDown(q) /\ q \in CpuState /\ CpuKept(c) /\ ~q.blue_green_active
    BY <1>1, <1>2 DEF Inv, Typed, CpusKept
  <2>2. TimesOf(q) /\ Reported(q, truth.work[c], c \in truth.caught)
    BY <2>1 DEF CpuKept
  <2> HIDE DEF q, u
  <2>3. /\ u \in CpuState /\ TimesOf(u)
        /\ CpuIsBusy(u) <=> CpuIsBusy(q)
        /\ u.last_reserved_time = q.last_reserved_time
        /\ u.last_profiled = q.last_profiled
        /\ WorkOf(u) \in Nat /\ WorkOf(q) \in Nat
        /\ WorkOf(u) <= WorkOf(q)
        /\ ~CpuIsBusy(q) => WorkOf(u) = WorkOf(q)
        /\ BaselineOf(u) = 0 /\ BaselineOf(q) = 0
    BY <1>2, <2>1, <2>2, CpuSlowsDownReportsLess
  <2>4. truth.work[c] \in Nat /\ Whole * (now - q.last_profiled) \in Int
    BY <1>2, <2>1, ProfilingAssumption DEF Typed, CpuState
  <2>5. CpuIsBusy(q) => c \in truth'.caught
    BY <1>3, <2>1 DEF CpuKept, q
  <2>6. c \in truth.caught => c \in truth'.caught
    BY <1>3
  <2>7. Reported(u, truth'.work[c], c \in truth'.caught)
    BY <1>3, <2>2, <2>3, <2>4, <2>5, <2>6 DEF Reported
  <2>8. u.last_reserved_time \in Int /\ q.last_reserved_time \in Int
    BY <2>1, <2>3 DEF CpuState
  <2>9. c \in Busy(worker) => timer[worker.task[c]] \in TimerState
    BY <1>2, WorkerTasks DEF Typed
  <2>10. u.last_reserved_time >= q.last_reserved_time
    BY <2>3, <2>8
  <2> QED  BY <1>1, <1>2, <2>1, <2>3, <2>7, <2>8, <2>9, <2>10, CpuRecordChanged DEF q, u
<1>5. cpu' \in [Cpus -> CpuState] /\ CpusKept'
  BY <1>1, <1>4 DEF CpusKept
<1>6. RamKept'
  <2>1. Holdings' = Holdings /\ Holders' = Holders
    BY <1>1 DEF Holdings, Holders, HeldBy, Later
  <2>2. RamTotal' = RamTotal
    BY <1>1, <2>1, RamTotalIsUnits
  <2> QED  BY <1>1, <1>3, <2>2 DEF Inv, RamKept
<1>7. DiskKept'
  BY <1>1 DEF Inv, DiskKept
<1>8. Typed'
  BY <1>1, <1>3, <1>5 DEF Inv, Typed
<1> QED  BY <1>1, <1>2, <1>5, <1>6, <1>7, <1>8 DEF Inv

LEMMA ProfileKeeps ==
    ASSUME Inv, Profile
    PROVE  Inv'
<1> DEFINE told == {c \in Cpus : CpuReports(cpu[c])}
<1>1. /\ cpu' = [c \in Cpus |-> CpuProfiled(cpu[c])]
      /\ ram' = RamProfiled
      /\ truth' = [ work   |-> [c \in Cpus |-> IF c \in told THEN 0 ELSE truth.work[c]],
                    bytes  |-> IF now > ram.last_profiled THEN 0 ELSE truth.bytes,
                    caught |-> truth.caught \ told ]
      /\ UNCHANGED <<worker, now, timer, disk>>
  BY DEF Profile
<1> HIDE DEF told
<1>2. WorkerInv(worker) /\ Typed /\ RamKept /\ now \in Nat
  BY DEF Inv, Typed
<1>3. /\ truth'.work = [c \in Cpus |-> IF c \in told THEN 0 ELSE truth.work[c]]
      /\ truth'.bytes = IF now > ram.last_profiled THEN 0 ELSE truth.bytes
      /\ truth'.caught = truth.caught \ told
  BY <1>1
<1>4. truth' \in [work : [Cpus -> Nat], bytes : Nat, caught : SUBSET Cpus]
  <2>1. truth'.work \in [Cpus -> Nat] /\ truth'.bytes \in Nat /\ truth'.caught \in SUBSET Cpus
    BY <1>2, <1>3 DEF Typed
  <2> QED  BY <1>1, <2>1
<1>5. ASSUME NEW c \in Cpus
      PROVE  cpu'[c] \in CpuState /\ CpuKept(c)'
  <2> DEFINE q == cpu[c]
             u == cpu'[c]
  <2>1. u = CpuProfiled(q) /\ q \in CpuState /\ CpuKept(c)
    BY <1>1, <1>2 DEF Inv, Typed, CpusKept
  <2>2. TimesOf(q) /\ Reported(q, truth.work[c], c \in truth.caught)
    BY <2>1 DEF CpuKept
  <2>3. c \in told <=> CpuReports(q)
    BY DEF told
  <2> HIDE DEF q, u
  <2>4. /\ u \in CpuState /\ TimesOf(u)
        /\ CpuIsBusy(u) <=> CpuIsBusy(q)
        /\ u.last_reserved_time >= q.last_reserved_time
        /\ u.last_profiled = now
        /\ CpuReports(q) => WorkOf(u) = 0 /\ BaselineOf(u) = 0
        /\ ~CpuReports(q) =>
             /\ WorkOf(u) = WorkOf(q)
             /\ (CpuIsIdle(q) /\ WorkOf(q) = 0 /\ BaselineOf(u) = 0)
                  \/ (q.last_profiled = now /\ BaselineOf(u) = BaselineOf(q))
    BY <1>2, <2>1, <2>2, CpuProfiledReportsNothing
  <2>5. Whole * (now - now) = 0
    BY <1>2, ProfilingAssumption
  <2>6. Reported(u, truth'.work[c], c \in truth'.caught)
    <3>1. CASE CpuReports(q)
      <4>1. truth'.work[c] = 0
        BY <1>3, <2>3, <3>1
      <4> QED  BY <2>4, <2>5, <3>1, <4>1 DEF Reported
    <3>2. CASE ~CpuReports(q)
      <4>1. truth'.work[c] = truth.work[c] /\ (c \in truth'.caught <=> c \in truth.caught)
        BY <1>3, <2>3, <3>2
      <4>2. WorkOf(u) <= truth.work[c] /\ (c \notin truth.caught => WorkOf(u) = truth.work[c])
        BY <2>2, <2>4, <3>2 DEF Reported
      <4>3. WorkOf(u) + BaselineOf(u) <= Whole * (now - u.last_profiled)
        <5>1. CASE CpuIsIdle(q) /\ WorkOf(q) = 0 /\ BaselineOf(u) = 0
          BY <2>4, <2>5, <3>2, <5>1
        <5>2. CASE q.last_profiled = now /\ BaselineOf(u) = BaselineOf(q)
          BY <2>2, <2>4, <3>2, <5>2 DEF Reported
        <5> QED  BY <2>4, <3>2, <5>1, <5>2
      <4> QED  BY <4>1, <4>2, <4>3 DEF Reported
    <3> QED  BY <3>1, <3>2
  <2>7. u.last_reserved_time \in Int /\ q.last_reserved_time \in Int
    BY <2>1, <2>4 DEF CpuState
  <2>8. c \in Busy(worker) => timer[worker.task[c]] \in TimerState
    BY <1>2, WorkerTasks DEF Typed
  <2> QED  BY <1>1, <1>2, <2>1, <2>4, <2>6, <2>7, <2>8, CpuRecordChanged DEF q, u
<1>6. cpu' \in [Cpus -> CpuState] /\ CpusKept'
  BY <1>1, <1>5 DEF CpusKept
<1>7. /\ ram.integrated_utilization \in Nat /\ ram.last_profiled \in 0..now
      /\ ram.start \in [Jobs -> Nat] /\ RamCapacity \in Nat
      /\ \A j \in Jobs : ram.start[j] \in 0..now
  BY <1>2, WorkerAssumption DEF Typed, RamState, RamKept
<1>8. /\ ram' \in RamState /\ ram'.start = ram.start /\ ram'.last_profiled = now
      /\ ram'.integrated_utilization =
           IF now > ram.last_profiled THEN 0 ELSE ram.integrated_utilization
  <2> DEFINE n == IF now > ram.last_profiled THEN 0 ELSE ram.integrated_utilization
             x == [ram EXCEPT !.integrated_utilization = n]
  <2>1. ram' = [ram EXCEPT !.integrated_utilization = n, !.last_profiled = now] /\ n \in Nat
    BY <1>1, <1>7 DEF RamProfiled
  <2> HIDE DEF n
  <2>2. x \in RamState /\ x.integrated_utilization = n /\ x.start = ram.start
    BY <1>2, <2>1 DEF Typed, RamState
  <2>3. ram' = [x EXCEPT !.last_profiled = now]
    BY <1>2, <2>1 DEF Typed, RamState
  <2> HIDE DEF x
  <2> QED  BY <1>2, <2>2, <2>3 DEF RamState, n
<1>9. RamKept'
  <2>1. CASE now > ram.last_profiled
    <3>1. \A j \in Jobs : Holdings'[j] = 0
      <4> SUFFICES ASSUME NEW j \in Jobs
                   PROVE  Holdings'[j] = 0
        OBVIOUS
      <4>1. HeldBy(j)' = worker.ongoing[j] * (now - Later(now, ram.start[j]))
        BY <1>1, <1>8 DEF HeldBy, Later
      <4>2. Later(now, ram.start[j]) = now /\ worker.ongoing[j] \in Nat
        BY <1>2, <1>7, WorkerTasks DEF Later
      <4> QED  BY <1>2, <4>1, <4>2 DEF Holdings
    <3>2. Cardinality(Units(Holdings', Holders')) = 0
      <4>1. Holders' \subseteq Jobs
        BY DEF Holders
      <4> QED  BY <3>1, <4>1, UnitsNone
    <3>3. RamTotal' = 0
      BY <1>8, <2>1, <3>2, RamTotalIsUnits
    <3>4. now' = now /\ now' - ram'.last_profiled = 0 /\ RamCapacity * 0 = 0
      BY <1>1, <1>2, <1>7, <1>8
    <3>5. RamTotal' = truth'.bytes
      BY <1>3, <2>1, <3>3
    <3>6. RamTotal' <= RamCapacity * (now' - ram'.last_profiled)
      BY <3>3, <3>4
    <3>7. ram'.last_profiled <= now' /\ \A j \in Jobs : ram'.start[j] <= now'
      BY <1>2, <1>7, <1>8, <3>4
    <3> QED  BY <3>5, <3>6, <3>7 DEF RamKept
  <2>2. CASE ~(now > ram.last_profiled)
    <3>1. ram.last_profiled = now
      BY <1>2, <1>7, <2>2
    <3>2. Holdings' = Holdings /\ Holders' = Holders
      BY <1>1, <1>8, <3>1 DEF Holdings, Holders, HeldBy, Later
    <3>3. RamTotal' = RamTotal
      BY <1>8, <2>2, <3>2, RamTotalIsUnits
    <3> QED  BY <1>1, <1>2, <1>3, <1>8, <2>2, <3>1, <3>3 DEF RamKept
  <2> QED  BY <2>1, <2>2
<1>10. DiskKept'
  BY <1>1 DEF Inv, DiskKept
<1>11. Typed'
  BY <1>1, <1>2, <1>4, <1>6, <1>8 DEF Typed
<1> QED  BY <1>1, <1>2, <1>6, <1>9, <1>10, <1>11 DEF Inv

LEMMA PassKeeps ==
    ASSUME Inv, Pass
    PROVE  Inv'
<1>1. /\ now' = now + 1
      /\ truth' = [truth EXCEPT
                     !.work = [c \in Cpus |-> @[c] +
                                 IF c \in Busy(worker)
                                   THEN Whole - cpu[c].baseline_utilization ELSE 0],
                     !.bytes = @ + worker.utilized]
      /\ UNCHANGED <<worker, timer, cpu, ram, disk>>
      /\ \A j \in Running(worker) : timer[j].due > now
  BY DEF Pass
<1>2. WorkerInv(worker) /\ Typed /\ CpusKept /\ RamKept /\ now \in Nat
  BY DEF Inv, Typed
<1>3. worker.utilized \in Nat /\ worker.utilized = Cardinality(HeldUnits(worker))
      /\ worker.utilized <= RamCapacity /\ RamCapacity \in Nat /\ truth.bytes \in Nat
  <2>1. RamAccounting(worker) /\ IsFiniteSet(HeldUnits(worker))
    BY <1>2 DEF WorkerInv, WorkerOK
  <2>2. Cardinality(HeldUnits(worker)) \in Nat
    BY <2>1, FS_CardinalityType
  <2> QED  BY <1>2, <2>1, <2>2, WorkerAssumption DEF RamAccounting, Typed
<1> DEFINE Share(c) == IF c \in Busy(worker) THEN Whole - cpu[c].baseline_utilization ELSE 0
<1>4. \A c \in Cpus : /\ Share(c) \in Nat
                      /\ cpu[c] \in CpuState
                      /\ cpu[c].baseline_utilization \in 0..Whole
  BY <1>2, ProfilingAssumption DEF Typed, CpuState
<1>5. /\ truth'.work = [c \in Cpus |-> truth.work[c] + Share(c)]
      /\ truth'.bytes = truth.bytes + worker.utilized
      /\ truth'.caught = truth.caught
  BY <1>1, <1>2 DEF Typed
<1>6. truth' \in [work : [Cpus -> Nat], bytes : Nat, caught : SUBSET Cpus]
  <2>1. truth'.work \in [Cpus -> Nat]
    BY <1>2, <1>4, <1>5 DEF Typed
  <2>2. truth'.bytes \in Nat
    BY <1>3, <1>5
  <2>3. truth'.caught \in SUBSET Cpus
    BY <1>2, <1>5 DEF Typed
  <2>4. truth' = [work |-> truth'.work, bytes |-> truth'.bytes, caught |-> truth'.caught]
    BY <1>1, <1>2 DEF Typed
  <2> QED  BY <2>1, <2>2, <2>3, <2>4
<1> HIDE DEF Share
<1>7. ASSUME NEW c \in Cpus
      PROVE  CpuKept(c)'
  <2> DEFINE q == cpu[c]
  <2>1. CpuKept(c)
    BY <1>2 DEF CpusKept
  <2>2. /\ q \in CpuState /\ TimesOf(q) /\ (CpuIsBusy(q) <=> c \in Busy(worker))
        /\ Reported(q, truth.work[c], c \in truth.caught)
    BY <1>4, <2>1 DEF CpuKept
  <2>3. q.last_reserved_time \in Int /\ q.last_profiled \in Nat /\ q.blue_green_start \in Nat
    BY <2>2 DEF CpuState
  <2> HIDE DEF q
  <2>4. /\ q.last_reserved_time \in -1..(now + 1)
        /\ q.last_profiled <= now + 1 /\ q.blue_green_start <= now + 1
        /\ ~q.blue_green_active => q.baseline_utilization = 0
    BY <1>2, <2>2, <2>3 DEF TimesOf
  <2>5. /\ WorkAt(q, now) \in Nat /\ BaselineAt(q, now) \in Nat
        /\ WorkAt(q, now + 1) = WorkAt(q, now) +
             IF CpuIsBusy(q) THEN Whole - q.baseline_utilization ELSE 0
        /\ BaselineAt(q, now + 1) \in Nat
        /\ BaselineAt(q, now + 1) <= BaselineAt(q, now) + q.baseline_utilization
    BY <1>2, <2>2, UnitOfTime
  <2>6. Share(c) = IF CpuIsBusy(q) THEN Whole - q.baseline_utilization ELSE 0
    BY <2>2 DEF Share, q
  <2>7. /\ WorkOf(q) = WorkAt(q, now) /\ BaselineOf(q) = BaselineAt(q, now)
    BY DEF WorkOf, BaselineOf, WorkAt, BaselineAt
  <2>8. /\ WorkOf(cpu[c])' = WorkAt(q, now + 1) /\ BaselineOf(cpu[c])' = BaselineAt(q, now + 1)
    BY <1>1 DEF WorkOf, BaselineOf, WorkAt, BaselineAt, CpuIsBusy, Later, q
  <2>9. /\ truth.work[c] \in Nat /\ truth'.work[c] = truth.work[c] + Share(c)
        /\ Share(c) \in Nat
    BY <1>2, <1>4, <1>5 DEF Typed
  <2>10. Whole * ((now + 1) - q.last_profiled) = Whole * (now - q.last_profiled) + Whole
    <3>1. PICK a \in Int : a = now - q.last_profiled
      BY <1>2, <2>3
    <3>2. (now + 1) - q.last_profiled = a + 1
      BY <1>2, <2>3, <3>1
    <3>3. Whole * (a + 1) = Whole * a + Whole
      BY <3>1, ProfilingAssumption
    <3> QED  BY <3>1, <3>2, <3>3
  <2>11. Share(c) + q.baseline_utilization <= Whole /\ q.baseline_utilization \in Nat
    <3>1. q.baseline_utilization \in 0..Whole /\ Whole \in Nat
      BY <2>2, ProfilingAssumption DEF CpuState
    <3> QED  BY <2>6, <3>1
  <2>12. /\ WorkAt(q, now + 1) <= truth'.work[c]
         /\ c \notin truth'.caught => WorkAt(q, now + 1) = truth'.work[c]
    <3>1. /\ WorkAt(q, now) <= truth.work[c]
          /\ c \notin truth.caught => WorkAt(q, now) = truth.work[c]
      BY <2>2, <2>7 DEF Reported
    <3> QED  BY <1>5, <2>5, <2>6, <2>9, <3>1
  <2>13. WorkAt(q, now + 1) + BaselineAt(q, now + 1) <= Whole * ((now + 1) - q.last_profiled)
    <3>1. WorkAt(q, now) + BaselineAt(q, now) <= Whole * (now - q.last_profiled)
      BY <2>2, <2>7 DEF Reported
    <3>2. Whole * (now - q.last_profiled) \in Int /\ Whole \in Nat
      BY <1>2, <2>3, ProfilingAssumption
    <3>3. WorkAt(q, now + 1) = WorkAt(q, now) + Share(c)
      BY <2>5, <2>6
    <3> QED  BY <2>5, <2>9, <2>10, <2>11, <3>1, <3>2, <3>3
  <2>14. Reported(cpu[c], truth.work[c], c \in truth.caught)'
    <3>1. cpu'[c].last_profiled = q.last_profiled
      BY <1>1 DEF q
    <3> QED  BY <1>1, <2>8, <2>12, <2>13, <3>1 DEF Reported
  <2>15. TimesOf(cpu[c])'
    BY <1>1, <2>4 DEF TimesOf, q
  <2>16. CpuIsBusy(cpu[c])' <=> c \in Busy(worker)'
    BY <1>1, <2>2 DEF CpuIsBusy, Busy, q
  <2>17. ASSUME c \in Busy(worker)
         PROVE  Within(cpu[c], timer[worker.task[c]])'
    <3> DEFINE t == timer[worker.task[c]]
    <3>1. t \in TimerState /\ t.due > now
      BY <1>1, <1>2, <2>17, WorkerTasks DEF Typed
    <3>2. t.due \in Nat /\ t' = t
      BY <1>1, <3>1 DEF TimerState
    <3>3. t.due <= q.last_reserved_time + t.duration
      BY <2>1, <2>17 DEF CpuKept, Within, q
    <3> HIDE DEF t
    <3>4. now' <= t.due
      BY <1>1, <1>2, <3>1, <3>2
    <3>5. Within(q, t)'
      BY <1>1, <3>2, <3>3, <3>4 DEF Within, q
    <3> QED  BY <1>1, <3>5 DEF Within, q, t
  <2>18. c \in Busy(worker)' <=> c \in Busy(worker)
    BY <1>1 DEF Busy
  <2> QED  BY <2>14, <2>15, <2>16, <2>17, <2>18 DEF CpuKept
<1>8. CpusKept'
  BY <1>7 DEF CpusKept
<1>9. RamKept'
  <2>1. /\ ram.last_profiled \in 0..now /\ \A j \in Jobs : ram.start[j] \in 0..now
        /\ ram.integrated_utilization \in Nat
        /\ worker.ongoing \in [Jobs -> Nat]
    BY <1>2, WorkerTasks DEF Typed, RamState, RamKept
  <2>2. /\ Holdings \in [Jobs -> Nat] /\ Holders \in SUBSET Jobs
        /\ Cardinality(Units(Holdings, Holders)) \in Nat
    BY <1>2, HoldingsTyped
  <2>3. \A j \in Jobs : Holdings'[j] = Holdings[j] + worker.ongoing[j]
    <3> SUFFICES ASSUME NEW j \in Jobs
                 PROVE  Holdings'[j] = Holdings[j] + worker.ongoing[j]
      OBVIOUS
    <3> DEFINE s == Later(ram.last_profiled, ram.start[j])
               m == worker.ongoing[j]
    <3>1. s \in 0..now /\ m \in Nat
      BY <2>1 DEF Later
    <3>2. Holdings[j] = m * (now - s)
      BY DEF Holdings, HeldBy
    <3>3. HeldBy(j)' = m * ((now + 1) - s)
      BY <1>1 DEF HeldBy, Later
    <3>4. Holdings'[j] = m * ((now + 1) - s)
      BY <3>3 DEF Holdings
    <3> HIDE DEF s, m
    <3>5. PICK a \in Nat : a = now - s /\ (now + 1) - s = a + 1
      <4>1. now - s \in Nat /\ (now + 1) - s = (now - s) + 1
        BY <1>2, <3>1
      <4> QED  BY <4>1
    <3>6. m * (a + 1) = m * a + m
      BY <3>1
    <3>7. Holdings'[j] = Holdings[j] + m
      BY <3>2, <3>4, <3>5, <3>6
    <3> QED  BY <3>7 DEF m
  <2>4. Holders' = Holders
    BY <1>1 DEF Holders
  <2>5. PICK h \in [Jobs -> Nat] : h = Holdings'
    <3>1. Holdings' = [j \in Jobs |-> Holdings'[j]]
      BY DEF Holdings
    <3>2. \A j \in Jobs : Holdings'[j] \in Nat
      BY <2>1, <2>2, <2>3
    <3>3. Holdings' \in [Jobs -> Nat]
      BY <3>1, <3>2
    <3> QED  BY <3>3
  <2>6. Cardinality(Units(h, Holders))
          = Cardinality(Units(Holdings, Holders)) + Cardinality(Units(worker.ongoing, Holders))
    BY <2>1, <2>2, <2>3, <2>5, UnitsAdd
  <2>7. Units(worker.ongoing, Holders) = HeldUnits(worker)
    <3>1. \A j \in Jobs \ Holders : 1..worker.ongoing[j] = {}
      BY DEF Holders
    <3> QED  BY <2>2, <3>1 DEF Units, HeldUnits
  <2>8. RamTotal' = RamTotal + worker.utilized /\ RamTotal \in Nat
    <3>1. RamTotal' = ram.integrated_utilization + Cardinality(Units(h, Holders))
      BY <1>1, <2>4, <2>5, RamTotalIsUnits
    <3>2. RamTotal = ram.integrated_utilization + Cardinality(Units(Holdings, Holders))
      BY RamTotalIsUnits
    <3>3. Cardinality(Units(worker.ongoing, Holders)) = worker.utilized
      BY <1>3, <2>7
    <3> QED  BY <1>3, <2>1, <2>2, <2>6, <3>1, <3>2, <3>3
  <2>9. RamTotal' = truth'.bytes
    BY <1>2, <1>5, <2>8 DEF RamKept
  <2>10. RamTotal' <= RamCapacity * (now' - ram'.last_profiled)
    <3>1. PICK a \in Nat : a = now - ram.last_profiled
      BY <1>2, <2>1
    <3>2. now' - ram'.last_profiled = a + 1
      BY <1>1, <1>2, <2>1, <3>1
    <3>3. RamCapacity * (a + 1) = RamCapacity * a + RamCapacity /\ RamCapacity * a \in Nat
      BY <1>3, ProductIsNat
    <3>4. RamTotal <= RamCapacity * a
      BY <1>2, <3>1 DEF RamKept
    <3> QED  BY <1>3, <2>8, <3>2, <3>3, <3>4
  <2>11. ram'.last_profiled <= now' /\ \A j \in Jobs : ram'.start[j] <= now'
    BY <1>1, <1>2, <2>1
  <2> QED  BY <2>9, <2>10, <2>11 DEF RamKept
<1>10. DiskKept'
  BY <1>1 DEF Inv, DiskKept
<1>11. Typed'
  <2>1. now' \in Nat /\ UNCHANGED <<timer, cpu, ram, disk>>
    BY <1>1, <1>2
  <2> QED  BY <1>2, <1>6, <2>1 DEF Typed
<1> QED  BY <1>1, <1>2, <1>8, <1>9, <1>10, <1>11 DEF Inv

LEMMA InitKeeps ==
    ASSUME Init
    PROVE  Inv
<1>1. /\ worker \in FreshWorkers /\ now \in Births
      /\ timer = [j \in Jobs |-> NoTimer]
      /\ cpu = [c \in Cpus |-> NewCpu]
      /\ ram = NewRam /\ disk = NewDisk
      /\ truth = [work |-> [c \in Cpus |-> 0], bytes |-> 0, caught |-> {}]
  BY DEF Init
<1>2. WorkerInv(worker) /\ now \in Nat
  BY <1>1, FreshWorkerKeeps, ProfilingAssumption
<1>3. Typed
  <2>1. NoTimer \in TimerState
    BY DEF NoTimer, TimerState
  <2>2. NewCpu \in CpuState
    BY ProfilingAssumption DEF NewCpu, CpuState, Never
  <2>3. NewRam \in RamState
    BY DEF NewRam, RamState
  <2>4. NewDisk \in [Ops -> Int]
    BY DEF NewDisk, Never
  <2> QED  BY <1>1, <1>2, <2>1, <2>2, <2>3, <2>4 DEF Typed
<1>4. Busy(worker) = {}
  <2>1. worker.task \in [Cpus -> {NoJob}]
    BY <1>1 DEF FreshWorkers
  <2> QED  BY <2>1 DEF Busy
<1>5. CpusKept
  <2> SUFFICES ASSUME NEW c \in Cpus
               PROVE  CpuKept(c)
    BY DEF CpusKept
  <2> DEFINE q == cpu[c]
  <2>1. /\ q.last_reserved_time = -1 /\ q.busy_time = 0 /\ q.blue_green_active = FALSE
        /\ q.blue_green_start = 0 /\ q.baseline_utilization = 0 /\ q.last_profiled = 0
        /\ truth.work[c] = 0
    BY <1>1 DEF NewCpu, Never
  <2>2. TimesOf(q) /\ ~CpuIsBusy(q)
    BY <1>2, <2>1 DEF TimesOf, CpuIsBusy
  <2>3. WorkOf(q) = 0
    BY <2>1, <2>2 DEF WorkOf
  <2>4. BaselineOf(q) = 0
    <3>1. BaselineOf(q) = 0 * (now - Later(0, now)) /\ now - Later(0, now) \in Int
      BY <1>2, <2>1 DEF BaselineOf, Later
    <3> QED  BY <3>1
  <2>5. Whole * (now - q.last_profiled) \in Nat
    <3>1. now - q.last_profiled \in Nat
      BY <1>2, <2>1
    <3> QED  BY <3>1, ProductIsNat, ProfilingAssumption
  <2>6. Reported(q, truth.work[c], c \in truth.caught)
    BY <2>1, <2>3, <2>4, <2>5 DEF Reported
  <2> QED  BY <1>4, <2>2, <2>6 DEF CpuKept
<1>6. RamKept
  <2>1. /\ ram.last_profiled = 0 /\ ram.integrated_utilization = 0
        /\ \A j \in Jobs : ram.start[j] = 0
    BY <1>1 DEF NewRam
  <2>2. \A j \in Jobs : worker.ongoing[j] = 0
    BY <1>1 DEF FreshWorkers
  <2>3. Cardinality(Units(Holdings, Holders)) = 0
    <3>1. Holders = {}
      BY <2>2 DEF Holders
    <3> QED  BY <3>1, UnitsNone
  <2>4. RamTotal = 0
    BY <2>1, <2>3, RamTotalIsUnits
  <2>5. RamCapacity * (now - ram.last_profiled) \in Nat
    <3>1. now - ram.last_profiled \in Nat
      BY <1>2, <2>1
    <3> QED  BY <3>1, ProductIsNat, WorkerAssumption
  <2> QED  BY <1>1, <1>2, <2>1, <2>4, <2>5 DEF RamKept
<1>7. DiskKept
  BY <1>1 DEF DiskKept, NewDisk
<1> QED  BY <1>2, <1>3, <1>5, <1>6, <1>7 DEF Inv

LEMMA StutterKeeps ==
    ASSUME Inv, UNCHANGED vars
    PROVE  Inv'
<1>1. UNCHANGED <<worker, now, timer, cpu, ram, disk, truth>>
  BY DEF vars
<1>2. CpusKept'
  BY <1>1, CpusUntouched
<1>3. RamKept'
  <2>1. Holdings' = Holdings /\ Holders' = Holders
    BY <1>1 DEF Holdings, Holders, HeldBy, Later
  <2>2. RamTotal' = RamTotal
    BY <1>1, <2>1, RamTotalIsUnits
  <2> QED  BY <1>1, <2>2 DEF Inv, RamKept
<1>4. Typed' /\ DiskKept'
  BY <1>1 DEF Inv, Typed, DiskKept
<1> QED  BY <1>1, <1>2, <1>3, <1>4 DEF Inv

LEMMA NextKeeps ==
    ASSUME Inv, [Next]_vars
    PROVE  Inv'
<1>1. ASSUME NEW j \in Jobs, NEW m \in Sizes, Compute(j, m) \/ Disk(j, m)
      PROVE  Inv'
  BY <1>1, ComputeKeeps, DiskCallKeeps
<1>2. ASSUME NEW c \in Cpus, CpuEvent(c)
      PROVE  Inv'
  BY <1>2, CpuEventKeeps
<1>3. ASSUME NEW j \in Jobs, DiskEvent(j)
      PROVE  Inv'
  BY <1>3, DiskEventKeeps
<1> QED  BY <1>1, <1>2, <1>3, SpinDownKeeps, FailWaiterKeeps, SlowDownKeeps, ProfileKeeps,
            PassKeeps, StutterKeeps DEF Next

-----------------------------------------------------------------------------
(* The theorems.                                                           *)

\* The invariant above holds of every step of the worker, of the scaling and of the
\* profiler.
THEOREM Invariance == Spec => []Inv
  BY InitKeeps, NextKeeps, PTL DEF Spec

\* A CPU is marked busy while it serves a job, and a disk direction only while an
\* operation runs in it, whatever the order of events (cpu.c, disk.c).
THEOREM TypeCorrect == Spec => []TypeOK
<1>1. Inv => TypeOK
  <2> SUFFICES ASSUME Inv
               PROVE  TypeOK
    OBVIOUS
  <2>1. ASSUME NEW c \in Cpus
        PROVE  /\ CpuIsBusy(cpu[c]) <=> c \in Busy(worker)
               /\ cpu[c].last_reserved_time \in -1..now
               /\ cpu[c].busy_time \in Nat
               /\ cpu[c].last_profiled \in 0..now
               /\ cpu[c].empty_profile_count \in 0..3
    BY DEF Inv, Typed, CpuState, CpusKept, CpuKept, TimesOf
  <2>2. now \in Nat /\ ram.integrated_utilization \in Nat
    BY DEF Inv, Typed, RamState
  <2> QED  BY <2>1, <2>2 DEF Inv, DiskKept, TypeOK
<1> QED  BY <1>1, Invariance, PTL

\* ram_run_profiler would report the byte-seconds in use since its last report.
THEOREM RamReportsTruth == Spec => []RamReportIsTrue
<1>1. Inv => RamReportIsTrue
  BY DEF Inv, RamKept, RamReportIsTrue
<1> QED  BY <1>1, Invariance, PTL

\* cpu_run_profiler would report the work done since its last report, and never
\* more; less only for a reservation that a scaling has slowed down on its way.
THEOREM CpusReportTruth == Spec => []CpuReportIsTrue
<1>1. Inv => CpuReportIsTrue
  BY DEF Inv, CpusKept, CpuKept, Reported, CpuReportIsTrue
<1> QED  BY <1>1, Invariance, PTL

\* No CPU and no RAM reports more than the time since its last profile has room for.
THEOREM ReportsAlwaysFit == Spec => []ReportsFitWindow
<1>1. Inv => ReportsFitWindow
  BY DEF Inv, CpusKept, CpuKept, Reported, RamKept, ReportsFitWindow
<1> QED  BY <1>1, Invariance, PTL
=============================================================================

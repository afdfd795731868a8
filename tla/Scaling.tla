------------------------------ MODULE Scaling ------------------------------
(***************************************************************************)
(* Blue-green scaling of the collection (collection.c, workers_spin_up of  *)
(* worker.c, cpu_pool_spin_up_async of cpu.c, index_transfer of index.c)   *)
(* while requests keep arriving.  New workers are created GREEN and spin   *)
(* up CPU by CPU; when all are ready one event moves every shard to them,  *)
(* turns them BLUE, fails whoever waits on the old workers and frees the   *)
(* old workers, whatever is still running on them.                         *)
(*                                                                         *)
(* Workers are numbered in the order of their creation.  Every worker has  *)
(* the same CPUs: half_ocus_per_worker, which sets their number, only      *)
(* tells one configuration from another here.  Shards have one worker, as  *)
(* main.c creates them.  A request is a GET, which gives up on an error,   *)
(* or a PUT, which goes on to the disk all the same; it has at most one    *)
(* reservation at a time, the job that bears its name.                     *)
(***************************************************************************)
EXTENDS WorkerOps

CONSTANTS
    MaxWorkers,         \* bound: workers ever created
    InitialWorkers,     \* --num-workers
    ShardsPerWorker,    \* per index, --shards
    Targets             \* the <<num_workers, half_ocus>> asked for

ASSUME ScalingAssumption ==
    /\ MaxWorkers \in Nat
    /\ InitialWorkers \in 1..MaxWorkers
    /\ ShardsPerWorker \in Seq(Nat)
    /\ Targets \subseteq Int \X Int

Ids     == 1..MaxWorkers
Indices == DOMAIN ShardsPerWorker

VARIABLES
    worker,     \* per worker: its record; of a freed one, what free() left
    status,     \* per worker: "unborn", "GREEN", "BLUE" or "freed"
    blue_green, \* the workers whose CPUs were slowed by cpu_start_blue_green
    registry,   \* actors_by_type[ACTOR_WORKER]
    components, \* the workers whose RAM and disk are registered actors
    config,     \* dse_config: num_workers, half_ocus
    steady,
    scale,      \* the ScaleCtx and WorkerSpinUpCtx of the scaling under way
    shards,     \* per index: the worker of each shard
    request,    \* per request: kind, worker and what it waits for
    stale       \* history: who used a freed object, requests and "profiler"

vars == <<worker, status, blue_green, registry, components, config, steady,
          scale, shards, request, stale>>

\* A worker whose CPUs have yet to spin up.
Unequipped ==
    [ available |-> <<>>, task |-> [c \in Cpus |-> NoJob], wait_queue |-> <<>>,
      spinning_down |-> FALSE, utilized |-> 0, ongoing |-> [r \in Jobs |-> 0],
      queue_length |-> 0, io |-> {} ]

NoScale == [phase |-> "none", num |-> 0, old |-> <<>>, pools_done |-> 0]

Idle == [kind |-> "GET", at |-> 0, step |-> "none"]

\* main.c: ns shards of each index for each worker.
InitialShards ==
    [x \in Indices |-> [i \in 1..(InitialWorkers * ShardsPerWorker[x]) |->
                           ((i - 1) \div ShardsPerWorker[x]) + 1]]

Init ==
    /\ \E w \in FreshWorkers :
         worker = [k \in Ids |-> IF k <= InitialWorkers THEN w ELSE Unequipped]
    /\ status = [k \in Ids |-> IF k <= InitialWorkers THEN "BLUE" ELSE "unborn"]
    /\ blue_green = {}
    /\ registry = [k \in 1..InitialWorkers |-> k]
    /\ components = 1..InitialWorkers
    /\ config = [num_workers |-> InitialWorkers, half_ocus |-> 2]
    /\ steady = TRUE
    /\ scale = NoScale
    /\ shards = InitialShards
    /\ request = [r \in Jobs |-> Idle]
    /\ stale = {}

Born   == {k \in Ids : status[k] # "unborn"}
Unborn == Ids \ Born
Old    == Elements(scale.old)

-----------------------------------------------------------------------------
(* Requests.  What a call does to the pair of workers and requests.        *)

Load == [worker |-> worker, request |-> request]

ChangeLoad(l) == worker' = l.worker /\ request' = l.request

End(l, r) == [l EXCEPT !.request[r] = Idle]

\* worker_reserve_disk on the request's worker.
DiskStep(l, r) ==
    LET k == l.request[r].at
        u == [l EXCEPT !.worker[k] = ReserveDisk(@, r, 1)]
    IN  IF DiskRefused(l.worker[k], 1) THEN End(u, r)
                                       ELSE [u EXCEPT !.request[r].step = "disk"]

\* get_phase_compute_done and put_write_compute_done.
ComputeAnswered(l, r, result) ==
    IF l.request[r].kind = "GET" /\ result = "5XX" THEN End(l, r) ELSE DiskStep(l, r)

\* worker_reserve_compute on the worker of the chosen shard.
Launch(l, r, kind, k) ==
    LET u == [l EXCEPT !.request[r] = [kind |-> kind, at |-> k, step |-> "compute"],
                       !.worker[k] = ReserveCompute(@, r, 1)]
    IN  IF ComputeRefused(l.worker[k], 1) THEN ComputeAnswered(u, r, "5XX") ELSE u

\* A request arrives at any shard of any index.
Arrive(r) ==
    /\ request[r].step = "none"
    /\ \E x \in Indices : \E i \in DOMAIN shards[x], kind \in {"GET", "PUT"} :
         ChangeLoad(Launch(Load, r, kind, shards[x][i]))
    /\ UNCHANGED <<status, blue_green, registry, components, config, steady,
                   scale, shards, stale>>

\* cpu_reserve_done and disk_reserve_done on a worker that is still there.
CpuEvent(k, c) ==
    /\ status[k] = "BLUE"
    /\ c \in Busy(worker[k])
    /\ ChangeLoad(ComputeAnswered([Load EXCEPT !.worker[k] = CpuDone(@, c)],
                                  worker[k].task[c], "4XX"))
    /\ UNCHANGED <<status, blue_green, registry, components, config, steady,
                   scale, shards, stale>>

DiskEvent(k, r) ==
    /\ status[k] = "BLUE"
    /\ r \in worker[k].io
    /\ ChangeLoad(End([Load EXCEPT !.worker[k] = DiskDone(@, r)], r))
    /\ UNCHANGED <<status, blue_green, registry, components, config, steady,
                   scale, shards, stale>>

\* The same handlers enter a worker that was freed under them.  What they find
\* there is undefined; the model drops the request.
StaleEvent(k, r) ==
    /\ status[k] = "freed"
    /\ r \in Running(worker[k]) \cup worker[k].io
    /\ ChangeLoad(End([Load EXCEPT
            !.worker[k].task = [c \in Cpus |-> IF @[c] = r THEN NoJob ELSE @[c]],
            !.worker[k].io = @ \ {r}], r))
    /\ stale' = stale \cup {r}
    /\ UNCHANGED <<status, blue_green, registry, components, config, steady,
                   scale, shards>>

-----------------------------------------------------------------------------
(* Scaling.                                                                *)

\* Mutant: a scaling may start while another is under way.
ScaleAcceptedAlways(num, half) ==
    /\ <<num, half>> # <<config.num_workers, config.half_ocus>>
    /\ num >= 1 /\ half >= 1

\* collection_scale_to takes the request on.  Otherwise it answers NOT_STEADY,
\* 4XX (nothing to do) or INVALID_SCALING and changes nothing.
ScaleAccepted(num, half) ==
    /\ steady
    /\ <<num, half>> # <<config.num_workers, config.half_ocus>>
    /\ num >= 1 /\ half >= 1

\* scale_workers_start and workers_spin_up.
ScaleTo(num, half) ==
    LET new == [i \in 1..num |-> Cardinality(Born) + i]
    IN  /\ ScaleAccepted(num, half)
        /\ Cardinality(Born) + num <= MaxWorkers        \* bound
        /\ steady' = FALSE
        /\ scale' = [phase |-> "pools", num |-> num, old |-> registry, pools_done |-> 0]
        /\ blue_green' = blue_green \cup Elements(registry)
        /\ config' = [num_workers |-> config.num_workers + num, half_ocus |-> half]
        /\ status' = [k \in Ids |-> IF k \in Elements(new) THEN "GREEN" ELSE status[k]]
        /\ registry' = registry \o new
        /\ components' = components \cup Elements(new)
        /\ UNCHANGED <<worker, shards, request, stale>>

\* Mutants: every CPU is taken for a pool; the first pool is enough; one more
\* pool is awaited than there are.
PoolGatherPerCpu(done) ==
    [scale EXCEPT !.pools_done = @ + 1,
                  !.phase = IF scale.pools_done + 1 = scale.num THEN "ready" ELSE @]
PoolGatherFirst(done) ==
    IF ~done THEN scale ELSE [scale EXCEPT !.pools_done = @ + 1, !.phase = "ready"]
PoolGatherLate(done) ==
    IF ~done THEN scale
    ELSE [scale EXCEPT !.pools_done = @ + 1,
                       !.phase = IF scale.pools_done = scale.num THEN "ready" ELSE @]

\* The gather of cpu_pool_spin_up_async, then that of workers_spin_up: done is
\* whether the worker's last CPU is up.
PoolGather(done) ==
    IF ~done THEN scale
    ELSE [scale EXCEPT !.pools_done = @ + 1,
                       !.phase = IF scale.pools_done + 1 = scale.num THEN "ready" ELSE @]

\* cpu_spin_up_one_done.
CpuSpunUp(k) ==
    /\ status[k] = "GREEN"
    /\ \E c \in Cpus \ Elements(worker[k].available) :
         worker' = [worker EXCEPT ![k].available = Append(@, c)]
    /\ scale' = PoolGather(Len(worker'[k].available) = Cardinality(Cpus))
    /\ UNCHANGED <<status, blue_green, registry, components, config, steady,
                   shards, request, stale>>

\* Mutants: all shards go to the first new worker; only the first index moves.
TransferToFirst(x, new) == [i \in DOMAIN shards[x] |-> new[1]]
TransferFirstIndex(x, new) ==
    IF x = 1 THEN [i \in DOMAIN shards[x] |-> new[((i - 1) % Len(new)) + 1]] ELSE shards[x]

\* index_transfer_shards_for_blue_green: each index starts again at the first.
Transfer(x, new) == [i \in DOMAIN shards[x] |-> new[((i - 1) % Len(new)) + 1]]

\* Mutant: the queue is finalized and its waiters are left there.
FailWaitersNot(l, k) == [l EXCEPT !.worker[k] = CloseQueue(@)]

\* cpu_pool_spin_down pops a waiter and fails it: its continuation runs before
\* the next is popped.
FailHead(l, k) ==
    LET w == l.worker[k]
        u == [l EXCEPT !.worker[k] = WakeHead(@)]
    IN  IF WakeFails(w) THEN ComputeAnswered(u, Head(w.wait_queue), "5XX") ELSE u

\* worker_spin_down.
FailWaiters(l, k) ==
    LET waiters == Len(l.worker[k].wait_queue)
        after[n \in 0..waiters] ==
            IF n = 0 THEN [l EXCEPT !.worker[k] = CloseQueue(@)]
                     ELSE FailHead(after[n - 1], k)
    IN  after[waiters]

\* The workers of s are spun down one after the other.
SpinDown(l, s) ==
    LET after[n \in 0..Len(s)] == IF n = 0 THEN l ELSE FailWaiters(after[n - 1], s[n])
    IN  after[Len(s)]

\* dynarray_remove: the last item takes the place freed.
SwapRemove(s, k) ==
    LET place == CHOOSE n \in 1..Len(s) : s[n] = k
    IN  [n \in 1..(Len(s) - 1) |-> IF n = place THEN s[Len(s)] ELSE s[n]]

\* actor_delete of each of the workers in gone.
Unregistered(s, gone) ==
    LET after[n \in 0..Len(gone)] == IF n = 0 THEN s ELSE SwapRemove(after[n - 1], gone[n])
    IN  after[Len(gone)]

\* The new workers, in the order of the registry.
NewWorkers ==
    LET upto[n \in 0..Len(registry)] ==
            IF n = 0 THEN <<>>
            ELSE IF status[registry[n]] = "GREEN" THEN Append(upto[n - 1], registry[n])
                                                  ELSE upto[n - 1]
    IN  upto[Len(registry)]

\* scale_phase_workers_ready with the calls of scale_phase_spin_down_done.
WorkersReady ==
    LET new == NewWorkers
    IN  /\ scale.phase = "ready"
        /\ shards' = [x \in Indices |-> Transfer(x, new)]
        /\ ChangeLoad(SpinDown(Load, scale.old))
        /\ registry' = Unregistered(registry, scale.old)
        /\ status' = [k \in Ids |-> CASE k \in Elements(new) -> "BLUE"
                                      [] k \in Old -> "freed"
                                      [] OTHER -> status[k]]
        /\ blue_green' = blue_green \ Old
        /\ config' = [config EXCEPT !.num_workers = scale.num]
        /\ steady' = TRUE
        /\ scale' = NoScale
        /\ UNCHANGED <<components, stale>>

\* profiler_profile visits every registered actor.
ProfilerTick ==
    /\ \E k \in components : status[k] = "freed"
    /\ stale' = stale \cup {"profiler"}
    /\ UNCHANGED <<worker, status, blue_green, registry, components, config,
                   steady, scale, shards, request>>

-----------------------------------------------------------------------------
Next ==
    \/ \E r \in Jobs : Arrive(r)
    \/ \E k \in Ids, c \in Cpus : CpuEvent(k, c)
    \/ \E k \in Ids, r \in Jobs : DiskEvent(k, r) \/ StaleEvent(k, r)
    \/ \E t \in Targets : ScaleTo(t[1], t[2])
    \/ \E k \in Ids : CpuSpunUp(k)
    \/ WorkersReady
    \/ ProfilerTick

\* The events of a scaling are on the clock with finite times, and come up
\* however many requests arrive.
Fairness == WF_vars(WorkersReady) /\ \A k \in Ids : WF_vars(CpuSpunUp(k))

Spec     == Init /\ [][Next]_vars
FairSpec == Spec /\ Fairness

-----------------------------------------------------------------------------
(* Properties.                                                             *)

Routed == UNION {Elements(shards[x]) : x \in Indices}

\* Workers, books and contexts have their types.
TypeOK ==
    /\ worker \in [Ids -> WorkerState]
    /\ status \in [Ids -> {"unborn", "GREEN", "BLUE", "freed"}]
    /\ blue_green \subseteq Ids /\ components \subseteq Ids
    /\ registry \in Seq(Ids) /\ scale.old \in Seq(Ids)
    /\ config \in [num_workers : Nat, half_ocus : Nat]
    /\ steady \in BOOLEAN
    /\ scale.phase \in {"none", "pools", "ready"}
    /\ scale.num \in Nat /\ scale.pools_done \in 0..scale.num
    /\ shards \in [Indices -> Seq(Ids)]
    /\ request \in [Jobs -> [ kind : {"GET", "PUT"}, at : 0..MaxWorkers,
                                  step : {"none", "compute", "disk"} ]]
    /\ stale \subseteq Jobs \cup {"profiler"}

\* No request is ever routed to a worker that is spinning up, has fewer CPUs
\* than it should, or is gone: the shards move only when the fleet is ready,
\* and all of them move.
RoutesAreReady ==
    \A k \in Routed :
        /\ status[k] = "BLUE" /\ k \in Elements(registry)
        /\ WorkerOK(worker[k])

\* dse_config.num_workers, the registry and the statuses agree at every moment
\* of a scaling: it counts old and new workers while both exist, and the old
\* ones only are slowed down.  In particular cpu.c:66 never slows a CPU twice.
FleetMatchesConfig ==
    /\ config.num_workers = Len(registry) /\ NoRepeats(registry)
    /\ Elements(registry) = {k \in Ids : status[k] \in {"BLUE", "GREEN"}}
    /\ blue_green = Old
    /\ steady => \A k \in Elements(registry) : status[k] = "BLUE"
    /\ ~steady => /\ Old = {k \in Ids : status[k] = "BLUE"}
                  /\ scale.num = Cardinality({k \in Ids : status[k] = "GREEN"})

\* Within an index the workers' shares of the shards differ by at most one.
SharesAreEven ==
    \A x \in Indices :
        LET share(k) == Cardinality({i \in DOMAIN shards[x] : shards[x][i] = k})
        IN  \A k, l \in {n \in Elements(registry) : status[n] = "BLUE"} :
                share(k) - share(l) <= 1

\* A request waits on the worker it was sent to, and nobody is left in the
\* queue of a worker that was freed: spin-down fails all the waiters first.
RequestsArePlaced ==
    /\ \A r \in Jobs, k \in Ids :
         /\ r \in Running(worker[k]) \cup Waiting(worker[k])
              <=> request[r].at = k /\ request[r].step = "compute"
         /\ r \in worker[k].io <=> request[r].at = k /\ request[r].step = "disk"
    /\ \A k \in Ids : status[k] = "freed" => Waiting(worker[k]) = {}

\* A scaling that was taken on comes to its end.
ScalingEnds == ~steady ~> steady

\* No continuation enters a worker after it was deleted: the generation of
\* actor.h:30 is "incremented on delete, for stale continuation detection".
NoStaleContinuation == stale \cap Jobs = {}

\* The profiler visits the actors of the system (profiler.c:89), not freed ones.
ProfilerVisitsLiving == "profiler" \notin stale
=============================================================================

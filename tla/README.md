# Formal model of the Distributed Search Engine Simulator

TLA+ specifications of `dse_sim`, the discrete event simulator of a distributed
search engine, with TLC configurations and TLAPS proofs. They describe the
simulator as a program: its event loop, the resources it simulates and what they
report, the request state machines that run on them, the blue-green scaling of
the fleet, and whole runs from the first event to the stop of the clock.

Contents: [the system](#the-system) · [the modules](#the-modules) ·
[the runs](#the-runs) · [fairness](#fairness) · [the proofs](#the-proofs) ·
[what the runs found](#what-the-runs-found) · [not modelled](#not-modelled) ·
[plan](#plan)

## The system

The program is single threaded. All concurrency is *simulated*: an operation
that takes time schedules a continuation (a callback and a context,
`continuation.h`) on the clock, and returns. Handlers run to completion, but a
handler may run a long chain of continuations: one that is refused a resource
has its continuation invoked before the call returns, one that ends hands its
resource to the next waiter before its own caller hears of it. The hard part of
this code is what holds in the middle of such a chain, and which chains can
interleave.

| Component | State | Operations | Talks to | What makes it correct |
|---|---|---|---|---|
| Clock (`clock.c`) and heap (`pq.c`) | time, counter, running; array of entries | schedule, schedule_delay, run, stop; push, pop, the two sifts | calls every handler | events come out by time, and by order of scheduling among equal times; none lost or repeated; time never goes back |
| Worker (`worker.c`) | queue_length, tallies, status | reserve_compute, reserve_disk, spin_down, log | RAM, CPU pool, disk | admission and completion balance on every path |
| CPU pool (`cpu.c`) | available_cpus, wait_queue, spinning_down; per CPU whom it serves | pool_reserve, got_cpu, release, spin_up, spin_down | clock, worker | no idle CPU while somebody waits; first come, first served; asserts never fail |
| RAM (`ram.c`) | utilized, ongoing reservations | reserve_pending, wrap_done | launches CPU or disk | utilized is the sum of what is held, never above capacity |
| Disk (`disk.c`) | start times, totals | read, write, done | clock | (no limit: operations run side by side) |
| Requests (`get.c`, `put.c`, `search.c`) | one context per request, one per branch | arrival, compute, disk, response, gathers, collation | workers, index, shards | logged once, freed once, with the right outcome |
| Index and shards (`index.c`, `shard.c`) | shards and their workers, hash parameters, tallies | routing, transfer, log | workers | a document has one shard; shards are spread evenly |
| Scaling (`collection.c`) | configuration, steady, the fleet, ScaleCtx | scale_to and its relatives, workers_ready, spin_down_done | spin-up, index transfer, spin-down | routes only lead to ready workers; the configuration agrees with the fleet |
| Registry (`actor.c`, `collection.c`) | actors, actors_by_type | register, unregister | profiler, scaling | lists the living actors |
| Profiler (`profiler.c`) | period, file | profile, tick | every registered actor, agents | visits every living actor and no other, at regular times; what is reported is what happened, each thing once |
| Wait queue (`bounded_queue.h`) | buffer, head, tail, count, finalized | push, pop, finalize | CPU pool | a bounded first-in first-out queue, also where the indices wrap |
| Generators (`workload.c`) | position, rate, active | load, start, dispatch_next, stop | requests, clock | every request is dispatched, in order and not early; the run ends, and cuts off only what takes longer than its headroom |
| Agents (`agent.c`) | list of actions, counts | act | scaling, clock | every due action is taken and counted once, and asks for nothing while a scaling is under way |

The hazards in this code, each with its line and the properties that cover it,
are listed in `PROJECT.json` under `hazards`.

## The modules

    WorkerOps  <-- Worker <-- WorkerQueue <-- MCWorker  (refines BoundedServer, Fifo)
        |                       `-- RingQueue           (refines Fifo)
        |---- Requests  <-- MCRequests
        |---- Scaling   <-- MCScaling
        `---- Profiling <-- MCProfiling
    Routing, Agents  <-- Simulation <-- MCSimulation
    PriorityQueue    <-- Clock      <-- MCClock         (refines EventQueue)

    proofs: WorkerLemmas <-- WorkerProofs (with RingQueueProofs)
                |---- RequestsProofs
                |---- ScalingProofs
                `---- ProfilingProofs
            SimulationProofs (with the theorems on Routing), ClockProofs

The parts meet where the code's do. The worker's operators serve four modules.
The time that a reservation, a request or a scaling takes is nondeterministic
where the order of events is the question (`Worker`, `Requests`, `Scaling`) and a
number where the time is (`Profiling`, `Simulation`). `Simulation` uses the event
queue that `Clock` is shown to be.

**WorkerOps** is the physical side of one worker as operators from one worker
record to the next. `available` is `available_cpus` in its order (removal of
the first element moves the last one to its place, as `dynarray_remove` does);
`task` says whom each CPU serves, which stands for `last_reserved_time` and the
`CPUReserveCtx`; `ongoing` maps a job to the bytes it holds; `io` is the set of
disk operations in flight. A job is one outstanding reservation, that is, the
chain of contexts that one call allocates. `CpuDone` shows the order of the
code: the CPU is pushed back, handed to the next waiter, and only then the
finished job returns RAM and queue place. Bytes are naturals, durations are
abstracted: a started reservation may end at any later event.

**Worker** drives one worker by the most general client: any job without an
outstanding reservation may call at any time, also between two turns of the
spin-down loop (a client called back by the loop). Actions correspond to
`worker_reserve_compute`, `worker_reserve_disk`, `cpu_reserve_done`,
`disk_reserve_done`, and `cpu_pool_spin_down` (one action up to its loop, one
per turn). The general client includes every reentrant call that request code makes.

**RingQueue** is `bounded_queue.h`: buffer, head, tail and count, in the hands of
any caller. **Fifo** is what it promises. **WorkerQueue** adds the ring to
`Worker`: each action also does to the ring what the code does, on the ring's
own conditions (full, empty, finalized), so that `RingHoldsLine` shows the
sequence in `WorkerOps` to be what the ring holds. `cpu.c:236` does not look at
the result of its push; the property says that none is refused.

**BoundedServer** is the abstract promise of the CPU pool: N servers, one line,
a common limit, first come first served. `Worker!ServerSpec` maps the pool to
it, and `ServerFairSpec` its liveness.

**Requests** runs the real request state machines over several such workers. A
continuation is an operator from a state record to a state record, so one
action (`CpuEvent`, `DiskEvent` or an arrival) is the whole chain of its event:
the completion, the hand-over, the continuation of the request, the
reservations it makes, the continuations of those refused, down to the gather
and the `free`. `Compute` and `Disk` are higher-order: they take the
continuation and run it at once on a refusal. `free(ctx)` is
`state = "freed"`; `Touch` records a read of a field of a freed context, which
yields the old value. Coins are those of the collation tie-break.

**Scaling** is `collection_scale_to` with spin-up, transfer, spin-down and
freeing, while GETs and PUTs come and go. `WorkersReady` is one action because
the code runs it in one event: transfer of every index, statuses, spin-down of
every old worker with the continuations of its failed waiters, freeing,
`steady`. Its loops (over the old workers, over the waiters of each, over the
registry) are recursive functions of the number of turns taken, so that the
continuation of each failed waiter runs before the next is popped. The requests
are the `Jobs` of `WorkerOps`, since each has at most one reservation at a time.
A worker that was freed keeps its record, so that an event still
pointing to it (`StaleEvent`) can be seen; what the code finds there is
undefined and the model only drops the request.

**Profiling** is one worker with a clock and with the fields that
`cpu_run_profiler`, `ram_run_profiler` and `disk_run_profiler` read and reset:
`busy_time`, `last_reserved_time`, the baseline of a scaling,
`empty_profile_count`, `integrated_utilization`, the start of each RAM
reservation, `last_read_start` and `last_write_start`, `last_profiled`. The
steps are those of `WorkerOps`; `CpuStep` and `RamStep` derive from a step which
CPUs and reservations it ends and starts, in the order of the code (the CPU's
bookkeeping ends before it is reserved again). Reports are kept as the numerators
of the code's fractions, since the denominators are the time since the last
profile. A sum of byte-seconds over reservations (`HeldTogether`) is a count of
distinct units, as `HeldUnits` counts bytes, so that no induction is needed to
reason about it. `truth` is a history that counts, unit of time by unit, what really
happened; the properties compare the sums with it.

**Routing** is `index_hash`, `index_compute_shard` and the deduplication of
`search_phase_arrived`, with the remainder of C. **Agents** is the action list of
the oblivious agent (a loop that drops items from the list it walks, by moving the last item
to the dropped place), the rule of the spendy agent and what
`collection_scale_to` answers them. **Simulation** is a whole run: loading a
workload (`Parsed`, `Load`), the chain of dispatches and the stop, the Poisson
process, arrivals and ends of requests, the profiler's ticks with index and
agents reporting and acting, and the two events of a scaling. `Load`, the search's
shards, the agents of a tick and the oblivious agent's loop are loops, written as
recursive functions of the number of turns taken. The agenda is a
sequence of events in order of time and, among equal times, of scheduling. A
handler is one action; several things it schedules are inserted in the order of
the code, so that for instance the arrival of a request comes before the next dispatch at
the same time.

**PriorityQueue** and **Clock** are the heap and the loop. The loops of
`pq_sift_up` and `pq_sift_down` take one step per turn, so the heap invariant
is stated for the middle of a sift as well. That the event taken is the least, that
time never goes back and that no event is lost or doubled is what the refinement of
`EventQueue` says. Positions are shifted by one
(parent `i \div 2`). A handler is any sequence of schedulings, perhaps a stop.
**EventQueue** is the abstract promise; `Clock!IsEventQueue` is the refinement,
where a sifting step is a stutter because it only permutes the entries.

## The runs

| Run | Question | Bounds |
|---|---|---|
| `worker` | Do pool, ring and counters stay consistent under every client, is every call answered, first come first served? | 2 CPUs, limit 4, RAM 4, 5 jobs of size 1: two run, two wait, one is refused; every start of the ring in a buffer of four |
| `requests_mix` | Do contexts, gathers and tallies survive refusals at any depth, and does every request end? | 2 workers of 1 CPU, limit 2, RAM 3, sizes 1 and 2, a replicated and a plain shard with their primaries on one worker, 2 requests of any kind |
| `requests_search` | Is collation last and well placed? | 3 shards dealt to 2 workers (one holds two), limit 3, RAM 4, GET and SEARCH: the queue can refuse a query whose later steps succeed |
| `scaling_stages` | Do routes, fleet and configuration agree at each stage, and does a scaling end? | 2 workers of 2 CPUs, 5 workers in all, so that one scaling may follow another; 2 indices with 2 and 1 shards per worker; 1 request |
| `scaling_crowded` | What becomes of the requests on workers that are replaced? | 2 workers of 1 CPU to 1 or 2 others, limit 2, RAM 2, 3 requests |
| `clock` | Is the heap an event queue, in the middle of a sift too, and is every event handled? | 6 events: three levels, both children; times 0 to 2, delays -1 to 2, so ties, past times and nulls occur |
| `simulation` | Are the chains of dispatches and ticks unbroken, does every request arrive, every action take place, every count add up, the run end? | every file of at most 3 of 6 lines, sorted or not, one a SEARCH with negative hashes, and files with blank lines; Poisson with and without rate and index; first delay 0 or 1, period 2; 3 rosters; time up to 12 |
| `profiling` | Is what CPUs and RAM report what they did? | 1 CPU, 2 jobs (one runs, one waits), sizes and durations 1 and 2, worker created at 0 or 1, time up to 3: a reservation may cross two ticks and a slow-down |
| `requests_stale`, `scaling_stale`, `scaling_profiler`, `profiling_disk` | four expected violations, see below | small instances like those above |

Two requests are enough for the request runs because requests interact only
through the workers: the second is whatever load makes a reservation of the
first be refused, wait or be overtaken, and two branches of one SEARCH or PUT
already compete with each other. Five jobs for four places in `worker` leave
both CPUs, both waiting places and a refusal at once; sizes other than 1 and a
RAM that binds before the queue does are in `requests_mix` and `profiling` (and
the theorems about the worker hold for all). Three requests
in `scaling_crowded` are one on the CPU of a worker, one waiting for it and one
refused. In `requests_mix` one SEARCH can fill the queue of a worker while its
RAM still has room, so that a PUT is refused compute and then writes all the same.

In `simulation` three lines are a first, a middle and a last request; requests
do not interact there except through the order of their events. The lines cover
each way to choose a shard, an unknown index and a line without a type. A request
lasts 0, 1 or 3, with a headroom of 2: some are cut off by the stop and some
end at its very time. The spin-up takes 3, longer than a period, so a tick falls
into a scaling. The Poisson end time is 3 with gaps of 1 and 4.

Bounds: `MaxWorkers` counts the workers ever created, `MaxEvents` the events
ever scheduled, `Horizon` is the last time; all are guards marked `bound`.
Requests and jobs are finite sets. A request of `Requests` arrives once; a job
of `Worker` or `Profiling` and a request of `Scaling` may call again and again.
`Horizon` in `simulation` is later than every run that has something to
generate can last: `SimulationEnds` would fail otherwise.

Deadlock checking is off where the program really stops or the bound on time
stops the model: the event queue runs empty in `Requests`, the clock ends in
`Clock` and `Simulation`, `Horizon` is reached in `Profiling`; the general client of
`Worker` always has a step. Symmetry is used for CPUs, jobs and requests in safety
runs only; workers are never permuted, since shards and registry order tell them
apart.

Each property has a mutant (under `mutants`): a variant of a definition of the
code, written above the original and marked `Mutant`, which that property must
refute.

## Fairness

- `Worker` (`Fairness`, in `QueueFairSpec`): weak fairness of the end of each
  reservation and of the spin-down loop. A reservation has a finite duration and
  the clock takes events in the order of time (which `Clock` checks), so its
  event comes up; a loop in a handler goes on. Nothing is assumed of the clients.
- `Requests`: weak fairness of `Event` as a whole only: the loop goes on while
  there are events, whichever it takes.
- `Scaling`: weak fairness of the spin-up events and of the ready event, which
  are on the clock with finite delays.
- `Clock`: weak fairness of the loop and the sifts, and that a handler returns.
- `Simulation`: weak fairness of `Next`, which is the event loop: it goes on
  while there are events. Which event is next is never a choice.

`FairSpecUnfolded` in `MCRequests` and `MCSimulation` is the same formula with
`ENABLED` written out (some CPU or disk is busy; the clock runs and has an
event), which TLC evaluates much faster.

## The proofs

`WorkerProofs` and `RingQueueProofs` prove, for every finite set of CPUs and
jobs, every limit, capacity and set of sizes (`WorkerAssumption`, `SizesAssumption`):

| Theorem | Property |
|---|---|
| `TypeCorrect` | `TypeOK` |
| `PoolIsConsistent` | `PoolConsistent`: `available_cpus` is the idle CPUs, each once; nobody waits while a CPU idles |
| `AccountingIsExact` | `Accounting`: `queue_length` and `utilized` are exact and within limits; QUEUE_FULL is dead until spin-down |
| `NothingIsLost` | `PendingIsPlaced`: every unanswered call is in exactly one place |
| `AcceptedAreServed` | `AcceptedIsServed`: an accepted call is failed only by a spin-down |
| `RingTyping` | the ring's indices stay in the buffer, for any caller and any capacity, 0 included |
| `RingImplementsFifo` | a ring in any hands implements `Fifo` |
| `RingAlwaysHoldsLine` | `RingHoldsLine`: the ring holds the waiters in order; no push is refused |
| `WorkerIsServer` | `ServerSpec`, the safety part of `ServerFairSpec`: the worker implements `BoundedServer` |
| `WaitQueueImplementsFifo` | `WaitQueueIsFifo`: so does the ring in the worker's hands |

`SimulationProofs` proves, for every hash function and number of shards
(`RoutingAssumption`): `HashInRange` (the hash of any document is in
`0..HashP-1`), `HashFitsLongLong` (no intermediate value of `index_hash` leaves
64 bits) and `ShardInRange` (GET and PUT are routed to a shard that exists). For
any files, loads, rosters, period, delays, durations, gaps and end time
(`SimulationAssumption`, `AgentsAssumption`, `RoutingAssumption`) it proves:

| Theorem | Property |
|---|---|
| `Invariance` | the inductive invariant, from which the others follow |
| `TypeCorrect` | `TypeOK`: the agenda is in order and nothing on it is in the past |
| `ChainsHold` | `EventChains`: the chains of dispatches and ticks are never broken nor doubled |
| `FiledArrivals` | `ArrivesAsFiled`: each request of a file arrives once, in its order, at its time or the latest before |
| `OnlyLongWorkCut` | `StopCutsOnlyLongWork`: the generator's stop cuts off only what takes the headroom or longer |
| `ActionsOnce` | `ActionsAreTakenOnce`: each due action is taken and counted once |
| `ScalingsOneByOne` | `OneScalingAtATime`: one scaling is under way at a time, its next event on the clock once |
| `CountsAddUp` | `MetricsAddUp`: the index's counts and reports add up to what arrived |
| `RoutedInRange` | `RoutesInRange`: a GET or PUT goes to one shard that exists, a SEARCH to some, each once, which exist unless a hash given to it is negative |

`ClockProofs` proves, for any times, delays and number of events
(`ClockAssumption`): `ClockTyped` (`TypeOK`), `HeapStaysOrdered` (`HeapOrder`,
also in the middle of a sift) and `ClockIsEventQueue` (`IsEventQueue`: the
loop over the heap implements `EventQueue`).

`RequestsProofs` proves, for any number of workers of any size, any shards on
them, any requests, any tasks and any sizes (`RequestsAssumption`,
`SizesAssumption`):

| Theorem | Property |
|---|---|
| `TypeCorrect` | `TypeOK` |
| `EachBranchIsPlaced` | `BranchesArePlaced`: every unfinished branch has its continuation in exactly one place |
| `LiveContextsAreAwaited` | `LiveIffAwaited`: a context is live exactly as long as something will still call it |
| `IndexLogsEveryOutcome` | `IndexLogsOutcome`: an index counts each request once, with its outcome |
| `WorkerTalliesAlwaysBalance` | `WorkerTalliesBalance`: what a worker counted in is what it counted out and still has |
| `PrimaryIsFirst` | `PrimaryFirst`: no replica is written before the primary is |
| `CollationIsLast` | `CollationLast`: a collation starts when no query is left, on a worker that holds most of the shards |

`ProfilingProofs` proves, for any CPUs, jobs, sizes, durations, slow-down,
profile period and time (`ProfilingAssumption`, `WorkerAssumption`):

| Theorem | Property |
|---|---|
| `TypeCorrect` | `TypeOK` |
| `RamReportsTruth` | `RamReportIsTrue`: the byte-seconds a RAM reports are those that were held |
| `CpusReportTruth` | `CpuReportIsTrue`: a CPU reports the work it did, or less if a slow-down caught it at work |
| `ReportsAlwaysFit` | `ReportsFitWindow`: no CPU reports more than the time since its last profile |

`ScalingProofs` proves, for any number of workers, CPUs, requests and indices,
any layout and any sequence of targets (`ScalingAssumption`, `WorkerAssumption`):

| Theorem | Property |
|---|---|
| `TypeCorrect` | `TypeOK`: among others, no more pools are counted than there are new workers |
| `RoutesReady` | `RoutesAreReady`: every shard is on a worker in service, registered and with all its CPUs |
| `FleetMatches` | `FleetMatchesConfig`: configuration, registry and colours agree at each stage |
| `SharesEven` | `SharesAreEven`: the workers' shares of an index differ by at most one |
| `RequestsPlaced` | `RequestsArePlaced`: a request waits where it was sent, nobody on a freed worker |

The argument for the worker. The inductive invariant `Inv` is `TypeOK`,
`WorkerOK(worker)` and `PendingIsPlaced` together; none is inductive alone. That
a wake-up finds a CPU needs `WorkConserving`; that the CPU is idle needs
`AvailableIsIdle`; that `queue_length` is exact needs `EachJobOnce`, or a
completion could remove a job counted twice; and that the pool never refuses an
admitted job needs `queue_length` exact, since then `queue_length < QueueLimit`
with all CPUs busy leaves fewer than `QueueLimit` waiters. `WorkerLemmas` proves
that each operation of `WorkerOps` preserves `WorkerOK` (one lemma per operation,
with lemmas on the swap-removal of `TakeFirst`, on appending to and taking from
sequences without repeats, and on the cardinality of `HeldUnits`, which stands
for the sum of the reservations, so that no induction is needed). `WorkerProofs`
then has one step per action. For the refinement it adds that as many jobs run as
CPUs are busy (a bijection, from `EachJobOnce`) and that all are busy exactly when
none is available; each action is then a step of `BoundedServer` or invisible to it.

The argument for the requests. One action runs a whole chain of continuations,
so an invariant of the states between two actions says nothing in the middle of
a chain. The inductive invariant is stated of a state record and a set of
continuations in hand: `Safe(s, hand)` is that the workers are `WorkerOK`, that
every continuation that is owed is either in hand or in exactly one place of a
worker (`Placed`), and that logs and tallies agree with the requests (`Logs`,
`Tallies`). Between actions nothing is in hand (`Safe(State, {})`) and every
request is in one of the states the code leaves it in (`Ready`): new, waiting for
its GET, for its primary, gathering, collating, or freed. An event takes one
continuation in hand; a reservation either puts it on a worker or hands it back
at once. One lemma per operator follows the chain from its end (`free`) to its
beginning. A chain touches only its own request: `Confined` and `Elsewhere` are
the frame, so that `Ready` of the others is kept. The loops that launch branches
are recursive functions; each turn is the lemma of one branch, and that the loop
reaches its end is by the least number of turns at which it would not be safe,
so no induction over data is needed.

`RequestsAssumption` includes that a shard has no worker twice. `shard.c:18` does
not check it, but `shard_worker_index` (`shard.c:27`) and the lookup of the primary
(`put.c:77`) take it for granted, and `index.c:72`, the only caller, gives each new
shard one worker. In `Requests` the workers of a shard are fixed, so the lookup
of the primary at the end of a write, in the live shard, finds what the request
found at its start; the models that move shards are those of `Scaling`.

The loop that picks the worker to collate on (`search.c:153-166`) is modelled
turn by turn (`CollationTurn`): it overwrites the best so far, also with an equal
one that wins the coin. Its invariant (`BestOf`, kept by `CollationTurnKeeps`) is
that the best so far is the branch recorded, that the count recorded is that of
its worker, and that no branch before has more; after the last turn this is the
second half of `CollationLast`. That the first turn always records its branch
rests on a count of at least 1 (`WeightIsPositive`).

The argument for scaling. `Inv` of `ScalingProofs` was model-checked first on the
bounds of `scaling_stages` and `scaling_crowded`. The five properties are parts of
it or follow from it, but none is inductive without the others. `WorkersInv` says
what a worker of each colour is: one in service is `WorkerOK`, a green one has
served nobody and has some of its CPUs, each once (`SpinningUp`), one not yet
created is untouched. `StagesInv` ties the gathers to the fleet: during a scaling
`pools_done` is the number of green workers whose last CPU is up, and the stage is
"ready" exactly when that is `num`, the number of green workers. So in the event
that ends the scaling every green worker is up, and one that is up is as good as
one created with all its CPUs (`SpunUp`): this is why the routes may move to all of
them at once. `BornInOrder` makes the ids of new workers new. Since a green worker
is never routed to (`Routed` is part of `Blue`), none is disturbed before.

Requests are followed as in `RequestsProofs`: `LoadOK(l, hand)` is of a pair of
workers and requests, with the one request whose continuation is running in
hand. `Taken` takes a request off a worker, `DiskStepKeeps`, `AnsweredKeeps` and
`EndKeeps` put it down again, `RequestStep` is the frame. The loop that fails the
waiters (`FailWaitersKeeps`) shortens the line by one in each turn whatever the
failed request does next, since a PUT that goes on reserves the disk and never the
CPU; the line is empty after as many turns as it had waiters. `SpinDownKeeps`
repeats this for the old workers, and says that no other is touched.
`UnregisteredRemoves` takes the old ones out of the registry by swap-removal, and
`NewWorkersAreGreen` reads the new ones out of it.

The shares are a matter of remainders. Shards dealt out in turn: worker `k` gets
the places `i` with `(i - 1) % m` its number. Moving each place of `k` but the first back to
the place of `l` in the turn before is an injection (`DealtEvenly`), so `k` has at
most one more. As main.c lays them out, the place in the block of `k` goes to the
same place in the block of `l` (`InitialEvenly`). `SharesInv` says that the shards
are always laid out one way or the other, over exactly the workers in service.

The argument for the profiler. `Inv` is `WorkerOK` of the worker, `Typed`,
`CpusKept`, `RamKept` and `DiskKept`. A CPU's bookkeeping is right because of a
relation that nothing in the code states (`Within`): as long as a CPU is busy,
`now` is at most the end of its reservation, and that end is at most
`last_reserved_time` plus the duration. A tick moves `last_reserved_time` up to
now without cutting the duration, so the sum grows past the end; but then
clipping the elapsed time to the duration takes nothing off, and the work is
counted in full. `Reported` says that what a CPU would report now is at most the
truth, equal to it unless a slow-down caught it at work, and that work and
baseline fit into the window. For RAM, what is integrated plus what is held since
each start is the truth. Byte-seconds are counted as a disjoint union, so a step
that ends or starts a reservation moves units from one part to the other, and
a unit of time adds `utilized` of them, which is what `WorkerOK` says of it.

The argument for the ring. `RingOK` is inductive by itself; its clause
`tail = Place(count + 1)` is what makes a push land after the youngest item.
Facts about remainders (`After` of a place, no two of `Capacity` consecutive
places equal) are proved once, so that `Contents` of a push is `Append` and of a pop
is `Tail`; the refinement is then one step per action. In the
worker's hands `RingHoldsLine` needs `Inv`: that a waiter's push is not refused
follows from `Accounting`, by counting.

The argument for whole runs. Two facts that no property states make `Inv` of
`SimulationProofs` inductive. The first is what an event on the clock stands for
(`EventOK`): a dispatch waits at the latest of the times of the file up to the
next request (`Latest`), the stop a headroom after the last of them, an arrival
is of the request that the generator has come to. The second is that an arrival
is ahead of whatever feeds the clock (`ArrivalFirst`): the handler schedules the
arrival at the present and only then the next dispatch, and equal times keep
their order. So when a dispatch is handled nothing is left to arrive, and when
the stop is, everything has arrived. Whether a clock was stopped by the generator
or by an agent makes a difference (`StopOK` is of the first). Counting does the
rest: the kinds of events on the clock (`Feeding`, `Arriving`, `Ending`,
`Ticking`, `Scalings`) change by one with each event taken or put there
(`WithCounts`), whatever its place. The insertion into the agenda is defined by
the number of events that are not later; in an agenda that is in order these are
the first ones (`PrefixCount`), so that the new one lands after them
(`InsertLands`). The loop of the oblivious agent is the subtle one
(`TurnKeeps`): the position, the actions before it, which are all in the future, and
the number of turns together say that after as many turns as there were actions the
loop is at its end; that none is taken twice is because those taken and those
left are disjoint and without repeats (`Apart`), also when the last item is moved
over the one taken. A loop is a recursive function, which the prover can take
apart only where the function is known to exist: `RunExists` shows this by the
least number of turns that would have none, `RunSteps` gives its turns, and `RunStays` is the
invariant of a loop, from the least turn at which it would fail (the same
lemmas serve the loops of `Scaling`, from `WorkerLemmas`).

`SimulationAssumption` says what the files and rosters are: any lines with times
that are not negative, with any documents and any hashes; agents as
`oblivious_agent_add` and its like leave them, the actions of a list told apart
by their `id`.

The argument for routing is one lemma on the remainder of C, which takes the
sign of its first argument, and bounds on products that split the cases of
negative documents from the others. After each turn of a search's loop the shards
found are distinct and are values of its hashes (`FoundKeeps`, `SearchVisits`);
that these are in range needs the hashes not to be negative, and is where the
proof of `RoutedInRange` uses the exception that `RoutesInRange` makes.

The argument for the clock. A sift has one exception to the heap's order: on the
way up the entry itself against its parent, on the way down its children against
it. One turn moves the exception one level (`UpTurn`, `DownTurn`), which needs the
second half of `HeapOrder`, that the children of the entry on its way respect its
parent. When a loop ends there is no exception left (`UpEnds`, `DownEnds`), and
then nothing is less than the root (`RootIsLeast`): the least position of such an
entry would have a parent that is not one. That a set of numbers has a least element is
derived from the well-foundedness of strict inclusion on finite sets, so no
induction over data is needed. The inductive invariant adds that sequence numbers
differ (`Distinct`), without which neither "the least" nor "taken once" means
anything, and that the time is that of the last event (`TimeIsTop`). A pop at rest
then takes the abstract least event, a scheduling adds one that is not in the
past, and a turn of a sift permutes the entries.

Only model-checked: liveness (`EveryRequestEnds`, `ScalingEnds`, `EventsAreHandled`,
`SimulationEnds`, `CallsEnd` and the fair part of `ServerFairSpec`), which with
`ENABLED` is out of the prover's reach. Every safety property of the passing runs is
a theorem. Induction over data is out of reach as well; where a loop must be followed
to its end, the least number of turns at which it would go wrong takes its place.
The properties of the four runs that expect a violation are false, and stay runs.

## What the runs found

- `requests_stale`: the fan-out loops of `search.c:77` and `put.c:107` read
  the context after the turn that may have freed it. If the last branch is
  refused at every step while the others have already ended, its chain runs the
  gather to its end inside the loop's body. The value read is normally still
  there, so the loop ends as intended; it is a read of freed memory all the
  same. With the default synthetic load (8e9 bytes a request, 4e9 bytes a worker)
  every search does this.
- `scaling_stale`: `collection.c:239` frees the old workers while events of
  their running reservations are on the clock. `actor.h:30` has a generation
  "for stale continuation detection", which nothing reads.
- `scaling_profiler`: RAM and disks of freed workers stay registered, and the
  profiler calls them at its next tick.
- `profiling_disk`: any number of disk operations may overlap, but one start
  time is kept per direction, so the first to end marks the direction idle
  (`disk.c:68`), which `disk.h:13` says means idle, while the others go on; a tick
  then reports a utilization of 0. (Nor is the start moved at a tick, as a CPU's
  is: an operation longer than a period is reported at more than 1, `disk.c:33`.)

Three more, which need no model to be seen. A negative hash given to a SEARCH is
read from a file unchecked (`workload.c:70-80`) and reduced only once
(`search.c:44`, `index.c:52-53`), so its remainder is negative and the shard is
read below `items[0]`, unless the remainder is 0; that a negative hash "means
direct shard index" (`index.c:59`) holds of GET and PUT only. Such requests are in the runs and the theorems of
`Simulation`, which says with `RoutesInRange` that they are the only ones whose
shards may not exist; what such a read returns is undefined, and the models
go on as if the request were an ordinary one. The loop of `collection.c:223` tests
`ctx->old_count` after its last turn freed `ctx`; and the context of
`workers_spin_up` (`worker.c:254`) is left to a caller that never receives it.

Also seen while modelling, and modelled as the code has it:

- A scheduled action is dropped whether or not the collection takes the scaling
  on (`agent.c:71`); during a scaling it has no effect and is counted.
- A CPU slowed down in the middle of a reservation is counted at too little, the
  lower share being applied to the whole of it (`CpuReportIsTrue` excepts it,
  and says it is never too much).
- `empty_profile_count` (`cpu.c:33`) is never reset: three idle profiles in the
  life of a CPU, not in a row, silence all its idle profiles.
- `last_profiled` of an actor created during the run is 0, so its first report
  is an average since the start of the run.
- The type filter of `workload.c:118` compares with the value that a line
  without a type has, so it drops nothing that is valid otherwise.
- The given hash of a GET or PUT is hashed again (`index.c:63`), that of a SEARCH
  is not.
- An empty file, no index, or a rate of 0 (`--rate-mean` without `--rate-period`,
  `main.c:194-199`) leave nobody to stop the clock: the profiler ticks for ever.
  `SimulationEnds` is about the other runs (`Fed`).
- `ignore_steady` and `enabled` are never changed from their defaults, so the
  branches on them are dead; so are the ones for no old or no new workers.
- `main.c` creates shards with one worker, so replicas exist only for a caller of
  `shard_assign_worker`; `Requests` covers them because `put.c` does. It gives the
  profiler no agents; the rosters of `Simulation` are those a program that
  uses the library may give `profiler_init`.

Inputs outside the models: by a named assumption, a profiler period of 0 (the
clock would stand still) and an index without shards; and the least `int` as a
given hash, whose negation (`index.c:60`) overflows. Of an index without shards a
SEARCH ends at once (`search.c:65-74`), while a GET or PUT divides by
zero (`index.c:48`); `main.c` creates six per worker unless told otherwise.

## Not modelled

- Latencies and shard metrics, the disk's totals of bytes, `request_count`: sums
  that only a report reads.
- Context pools (free lists without a state of their own), the random number
  generator (its choices are nondeterministic here), the JSON scanner (lines enter
  `Simulation` as the values of their keys), option parsing and output, and
  `GatherCtx`, which has no caller.
- Addresses: a new actor at the address of a freed one that is still registered
  would not be registered (`collection.c:82`). The models name objects by number
  and never reuse one.
- Transfers of shards with replicas (`index.c:101`), which `main.c` never makes.

## Plan

Done: worker with ring, requests, scaling, profiling values, routing, clock,
agents, generators and whole runs, and the proofs of every safety property of
these. Left, in this order:

1. A registry with addresses that are reused by size class, and the composition
   of `Scaling` with replicated PUTs.
2. `Scaling` as a refinement of the two scaling events of `Simulation`.
3. The totals of the disk and the shards' metrics, which only reports read.

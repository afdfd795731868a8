------------------------------ MODULE Requests ------------------------------
(***************************************************************************)
(* The GET, PUT and SEARCH state machines (src/requests/http) over a fixed *)
(* set of workers: arrival, the compute and disk steps of every worker     *)
(* involved, the replica and shard gathers, and the result counters of     *)
(* workers and index.                                                      *)
(*                                                                         *)
(* The program is single threaded and a refused reservation invokes its    *)
(* continuation before it returns, so one event can run a long chain of    *)
(* continuations.  A continuation is an operator from a state record to a  *)
(* state record, and an action runs the whole chain of its event.          *)
(* Which event is next depends on durations and is left open.              *)
(***************************************************************************)
EXTENDS WorkerOps, FiniteSetsExt

CONSTANTS
    Workers,
    Requests,
    ShardWorkers,   \* the index's shards, in order: the workers of each, primary first
    Kinds,          \* the request types generated
    Sizes           \* the mem_size values generated

Shards == DOMAIN ShardWorkers

\* The widest fan-out: all shards, or all the workers of one shard.
Width == Max({Len(ShardWorkers)} \cup {Len(ShardWorkers[i]) : i \in Shards})

\* A task is one branch of a request: the i-th worker it involves (1 is the
\* primary of a PUT), or 0 for the collation of a SEARCH.  A branch has at
\* most one reservation at a time, so it also names that reservation.
Tasks == Requests \X (0..Width)

\* A shard never has a worker twice: index.c:72 assigns one to each new shard, and
\* shard_worker_index could not tell two entries for one worker apart.
ASSUME RequestsAssumption ==
    /\ Jobs = Tasks
    /\ ShardWorkers \in Seq(Seq(Workers)) /\ ShardWorkers # <<>>
    /\ \A i \in Shards : ShardWorkers[i] # <<>> /\ NoRepeats(ShardWorkers[i])
    /\ Kinds \subseteq {"GET", "PUT", "SEARCH"}
    /\ Sizes \subseteq Nat

VARIABLES
    worker,     \* per worker: its record
    tally,      \* per worker: total_requests, results_4xx, results_5xx
    index,      \* the index: total_requests, results_4xx, results_5xx
    req,        \* per request: its context
    step,       \* per task: what it is waiting for
    response,   \* per task: wctx->response, sc->response
    refused,    \* history: the requests one of whose reservations was refused
    stale       \* history: the requests whose context was read after free()

vars == <<worker, tally, index, req, step, response, refused, stale>>

NewTally == [requests |-> 0, ok |-> 0, errors |-> 0]

\* A context: the request's kind, its memory sizes (query and response differ
\* for a SEARCH), the worker of each branch, the gather of replicas or shards,
\* and the worker picked for collation.
NewRequest ==
    [ kind |-> "GET", state |-> "new", mem |-> 0, mem_response |-> 0,
      workers |-> <<>>, done |-> 0, worst |-> "4XX", collator |-> 1 ]

Init ==
    /\ worker \in [Workers -> FreshWorkers]
    /\ tally = [w \in Workers |-> NewTally]
    /\ index = NewTally
    /\ req = [r \in Requests |-> NewRequest]
    /\ step = [t \in Tasks |-> "idle"]
    /\ response = [t \in Tasks |-> "4XX"]
    /\ refused = {}
    /\ stale = {}

\* The state as a record, and the step to a state so given.
State ==
    [ worker |-> worker, tally |-> tally, index |-> index, req |-> req,
      step |-> step, response |-> response, refused |-> refused, stale |-> stale ]

Becomes(s) ==
    /\ worker' = s.worker /\ tally' = s.tally /\ index' = s.index
    /\ req' = s.req /\ step' = s.step /\ response' = s.response
    /\ refused' = s.refused /\ stale' = s.stale

-----------------------------------------------------------------------------
(* Helpers shared by the three state machines.                             *)

\* The slot of the chosen worker list that a task runs on.
Slot(s, t) == IF t[2] = 0 THEN s.req[t[1]].collator ELSE t[2]
At(s, t)   == s.req[t[1]].workers[Slot(s, t)]

Fanout(s, r) == Len(s.req[r].workers)

Count(tallied, result) ==
    IF result = "4XX" THEN [tallied EXCEPT !.ok = @ + 1]
                      ELSE [tallied EXCEPT !.errors = @ + 1]

\* worker_log_request and worker_log_result.
LogRequest(s, t)        == [s EXCEPT !.tally[At(s, t)].requests = @ + 1]
LogResult(s, t, result) == [s EXCEPT !.tally[At(s, t)] = Count(@, result)]

\* Mutant: the error is forgotten.
NoteNothing(s, t, result) == s

\* A branch that sees an error remembers it.
Note(s, t, result) == IF result = "5XX" THEN [s EXCEPT !.response[t] = "5XX"] ELSE s

\* Mutants: only good results are counted; a result is counted twice.
GatherGood(s, r, result) ==
    IF result = "5XX" THEN [s EXCEPT !.req[r].worst = "5XX"]
                      ELSE [s EXCEPT !.req[r].done = @ + 1]
GatherTwice(s, r, result) ==
    [s EXCEPT !.req[r].worst = IF result = "5XX" THEN "5XX" ELSE @,
              !.req[r].done = @ + 2]

\* if (result > worst) worst = result; done++.
Gather(s, r, result) ==
    [s EXCEPT !.req[r].worst = IF result = "5XX" THEN "5XX" ELSE @,
              !.req[r].done = @ + 1]

\* A field of the context of r is read.  free() leaves the field's bytes in
\* place, so the value read is the old one.
Touch(s, r) == IF s.req[r].state = "freed" THEN [s EXCEPT !.stale = @ \cup {r}] ELSE s

\* index_log_result.
LogEnd(tallied, result) == Count([tallied EXCEPT !.requests = @ + 1], result)

\* index_log_result, then free(ctx).
Finish(s, r, result) ==
    [Touch(s, r) EXCEPT !.index = LogEnd(@, result), !.req[r].state = "freed"]

\* worker_reserve_compute with a continuation: a refusal runs it at once, an
\* acceptance leaves it to the event that ends the reservation.
Compute(s, t, purpose, m, Done(_, _, _)) ==
    LET w == At(s, t)
        u == [s EXCEPT !.worker[w] = ReserveCompute(@, t, m)]
    IN  IF ComputeRefused(s.worker[w], m)
          THEN Done([u EXCEPT !.refused = @ \cup {t[1]}], t, "5XX")
          ELSE [u EXCEPT !.step[t] = purpose]

\* worker_reserve_disk with a continuation.
Disk(s, t, m, Done(_, _, _)) ==
    LET w == At(s, t)
        u == [s EXCEPT !.worker[w] = ReserveDisk(@, t, m)]
    IN  IF DiskRefused(s.worker[w], m)
          THEN Done([u EXCEPT !.refused = @ \cup {t[1]}], t, "5XX")
          ELSE [u EXCEPT !.step[t] = "disk"]

\* A loop over the branches from..to of r whose test reads the context again
\* before and after every turn.
ForBranches(s, r, from, to, Body(_, _)) ==
    LET run[i \in (from - 1)..to] ==
            IF i < from THEN Touch(s, r) ELSE Touch(Body(run[i - 1], <<r, i>>), r)
    IN  run[to]

-----------------------------------------------------------------------------
(* GET.                                                                    *)

GetDiskDone(s, t, result) ==
    Finish(LogResult(s, t, result), t[1], result)

\* Mutant: the worker is not told of the refusal.
GetComputeDoneUntold(s, t, result) ==
    IF result = "5XX" THEN Finish(s, t[1], "5XX")
                      ELSE Disk(s, t, s.req[t[1]].mem, GetDiskDone)

GetComputeDone(s, t, result) ==
    IF result = "5XX" THEN Finish(LogResult(s, t, "5XX"), t[1], "5XX")
                      ELSE Disk(s, t, s.req[t[1]].mem, GetDiskDone)

GetStart(s, r) ==
    Compute(LogRequest(s, <<r, 1>>), <<r, 1>>, "compute", s.req[r].mem, GetComputeDone)

-----------------------------------------------------------------------------
(* PUT.                                                                    *)

\* Mutant: the primary is counted as a replica to wait for.
PutReplicaDoneLate(s, r, result) ==
    LET u == Gather(s, r, result)
    IN  IF u.req[r].done = Fanout(u, r) THEN Finish(u, r, u.req[r].worst) ELSE u

PutReplicaDone(s, r, result) ==
    LET u == Gather(s, r, result)
    IN  IF u.req[r].done = Fanout(u, r) - 1 THEN Finish(u, r, u.req[r].worst) ELSE u

\* The first branch of put_primary_done: an error, or nobody to replicate to.
PutPrimaryEnds(s, r, result) == Finish(s, r, result)

\* put_write_disk_done.  The role of the worker is looked up in the shard, not
\* remembered in the write's own context.  The shards do not change here, so the
\* context's list of workers is the shard's; Scaling.tla has the shards that do.
PutWriteDone(s, t, result, PrimaryDone(_, _, _)) ==
    LET r == t[1]
        u == Note(s, t, result)
        v == LogResult(u, t, u.response[t])
    IN  IF At(v, t) = v.req[r].workers[1] THEN PrimaryDone(v, r, v.response[t])
                                          ELSE PutReplicaDone(v, r, v.response[t])

\* put_write_disk_done called back by a refused worker_reserve_disk: the
\* response is then 5XX, so put_primary_done takes its first branch.
PutDiskRefused(s, t, result) == PutWriteDone(s, t, result, PutPrimaryEnds)

\* put_write_compute_done: an error is noted and the disk is written anyway.
PutComputeDone(s, t, result) ==
    Disk(Note(s, t, result), t, s.req[t[1]].mem, PutDiskRefused)

PutStartWrite(s, t) ==
    Compute([LogRequest(s, t) EXCEPT !.response[t] = "4XX"],
            t, "compute", s.req[t[1]].mem, PutComputeDone)

\* Mutant: the replicas are written whatever became of the primary.
PutPrimaryDoneAnyway(s, r, result) ==
    IF Fanout(s, r) = 1
      THEN PutPrimaryEnds(s, r, result)
      ELSE ForBranches([s EXCEPT !.req[r].done = 0, !.req[r].worst = "4XX"],
                       r, 2, Fanout(s, r), PutStartWrite)

\* put_primary_done: the replicas are written after the primary, together.
PutPrimaryDone(s, r, result) ==
    IF result = "5XX" \/ Fanout(s, r) = 1
      THEN PutPrimaryEnds(s, r, result)
      ELSE ForBranches([s EXCEPT !.req[r].done = 0, !.req[r].worst = "4XX"],
                       r, 2, Fanout(s, r), PutStartWrite)

PutDiskDone(s, t, result) == PutWriteDone(s, t, result, PutPrimaryDone)

-----------------------------------------------------------------------------
(* SEARCH.                                                                 *)

SearchCollateDone(s, t, result) == Finish(s, t[1], result)

\* Mutant: best_count is not updated.
CollationTurnForgets(ws, n, best, coins) ==
    LET count == Cardinality({k \in DOMAIN ws : ws[k] = ws[n]})
    IN  IF count > best.count THEN [best EXCEPT !.branch = n] ELSE best

\* One turn of the loop that picks the worker to collate on: branch n becomes the
\* best if its worker holds more shards, or as many and n wins the coin.
CollationTurn(ws, n, best, coins) ==
    LET count == Cardinality({k \in DOMAIN ws : ws[k] = ws[n]})
    IN  IF count > best.count \/ (count = best.count /\ n \in coins)
          THEN [branch |-> n, count |-> count]
          ELSE best

CollationBranch(ws, coins) ==
    LET best[n \in 0..Len(ws)] ==
            IF n = 0 THEN [branch |-> 1, count |-> 0]
                     ELSE CollationTurn(ws, n, best[n - 1], coins)
    IN  best[Len(ws)].branch

\* Mutant: one more answer is awaited than there are shards.
SearchShardFinishedLate(s, r, result, coins) == Gather(s, r, result)

SearchShardFinished(s, r, result, coins) ==
    LET u == Gather(s, r, result)
        v == [u EXCEPT !.req[r].collator = CollationBranch(u.req[r].workers, coins)]
    IN  CASE u.req[r].done < Fanout(u, r) -> u
          [] u.req[r].done >= Fanout(u, r) /\ u.req[r].worst = "5XX" ->
                Finish(u, r, "5XX")
          [] OTHER -> Compute(v, <<r, 0>>, "collate",
                              Fanout(v, r) * v.req[r].mem_response, SearchCollateDone)

SearchResponseDone(s, t, result, coins) ==
    LET u == Note(s, t, result)
    IN  SearchShardFinished(LogResult(u, t, u.response[t]), t[1], u.response[t], coins)

\* The response step is run even when the query or the read failed.
SearchDiskDone(s, t, result, coins) ==
    Compute(Note(s, t, result), t, "response", s.req[t[1]].mem_response,
            LAMBDA u, v, res : SearchResponseDone(u, v, res, coins))

\* Mutant: a refused query is not noted.
SearchComputeDoneUnnoted(s, t, result, coins) ==
    Disk(s, t, s.req[t[1]].mem_response,
         LAMBDA u, v, res : SearchDiskDone(u, v, res, coins))

SearchComputeDone(s, t, result, coins) ==
    Disk(Note(s, t, result), t, s.req[t[1]].mem_response,
         LAMBDA u, v, res : SearchDiskDone(u, v, res, coins))

\* One turn of the launching loop of search_phase_arrived.
SearchLaunch(s, t, coins) ==
    Compute([LogRequest(s, t) EXCEPT !.response[t] = "4XX"],
            t, "compute", s.req[t[1]].mem,
            LAMBDA u, v, res : SearchComputeDone(u, v, res, coins))

\* search_phase_arrived from its launching loop on.
SearchStart(s, r, coins) ==
    ForBranches(s, r, 1, Fanout(s, r), LAMBDA u, t : SearchLaunch(u, t, coins))

-----------------------------------------------------------------------------
(* Actions.                                                                *)

\* The outcomes of the coins one event may toss.
Coins == SUBSET (2..Width)

Arrives(r, context) ==
    /\ req[r].state = "new"
    /\ context.kind \in Kinds

Arrived(r, context) == [State EXCEPT !.req[r] = context]

\* get_phase_arrived: any shard (the hash of any document) and any of its
\* workers.
GetArrives(r) ==
    \E i \in Shards, m \in Sizes : \E w \in Elements(ShardWorkers[i]) :
        LET context == [NewRequest EXCEPT !.state = "live", !.mem = m, !.workers = <<w>>]
        IN  Arrives(r, context) /\ Becomes(GetStart(Arrived(r, context), r))

\* put_phase_arrived: any shard; its first worker is the primary.
PutArrives(r) ==
    \E i \in Shards, m \in Sizes :
        LET context == [NewRequest EXCEPT !.kind = "PUT", !.state = "live", !.mem = m,
                                          !.workers = ShardWorkers[i]]
        IN  Arrives(r, context) /\ Becomes(PutStartWrite(Arrived(r, context), <<r, 1>>))

\* search_phase_arrived: every shard, or the distinct shards of some given
\* hashes, with a random worker of each.
SearchArrives(r) ==
    \E n \in 1..Len(ShardWorkers), m \in Sizes, m2 \in Sizes, coins \in Coins :
      \E shards \in {f \in [1..n -> Shards] : NoRepeats(f)} :
        \E picks \in {f \in [1..n -> Workers] :
                        \A k \in 1..n : f[k] \in Elements(ShardWorkers[shards[k]])} :
          LET context == [NewRequest EXCEPT !.kind = "SEARCH", !.state = "live",
                            !.mem = m, !.mem_response = m2, !.workers = picks]
          IN  Arrives(r, context) /\ Becomes(SearchStart(Arrived(r, context), r, coins))

\* The continuation of a compute reservation that ended well.
ComputeContinues(s, t, coins) ==
    LET kind == s.req[t[1]].kind
        u    == [Touch(s, t[1]) EXCEPT !.step[t] = "idle"]
    IN  CASE s.step[t] = "collate"  -> SearchCollateDone(u, t, "4XX")
          [] s.step[t] = "response" -> SearchResponseDone(u, t, "4XX", coins)
          [] s.step[t] = "compute" /\ kind = "GET" -> GetComputeDone(u, t, "4XX")
          [] s.step[t] = "compute" /\ kind = "PUT" -> PutComputeDone(u, t, "4XX")
          [] s.step[t] = "compute" /\ kind = "SEARCH" ->
                SearchComputeDone(u, t, "4XX", coins)

\* The continuation of a disk reservation that ended.
DiskContinues(s, t, coins) ==
    LET kind == s.req[t[1]].kind
        u    == [Touch(s, t[1]) EXCEPT !.step[t] = "idle"]
    IN  CASE kind = "GET"    -> GetDiskDone(u, t, "4XX")
          [] kind = "PUT"    -> PutDiskDone(u, t, "4XX")
          [] kind = "SEARCH" -> SearchDiskDone(u, t, "4XX", coins)

\* cpu_reserve_done of CPU c: the CPU is handed over, the job leaves the
\* worker, then its continuation runs.
CpuEvent(w, c) ==
    /\ c \in Busy(worker[w])
    /\ \E coins \in Coins :
         Becomes(ComputeContinues([State EXCEPT !.worker[w] = CpuDone(@, c)],
                                  worker[w].task[c], coins))

\* disk_reserve_done of task t.
DiskEvent(w, t) ==
    /\ t \in worker[w].io
    /\ \E coins \in Coins :
         Becomes(DiskContinues([State EXCEPT !.worker[w] = DiskDone(@, t)], t, coins))

\* One turn of clock_run.
Event ==
    \/ \E w \in Workers, c \in Cpus : CpuEvent(w, c)
    \/ \E w \in Workers, t \in Tasks : DiskEvent(w, t)

Next ==
    \/ \E r \in Requests : GetArrives(r) \/ PutArrives(r) \/ SearchArrives(r)
    \/ Event

\* clock_run handles events as long as there are any; which one is left open,
\* so no request may count on its own event to come before those of others.
Fairness == WF_vars(Event)

Spec     == Init /\ [][Next]_vars
FairSpec == Spec /\ Fairness

-----------------------------------------------------------------------------
(* Properties.                                                             *)

Live      == {r \in Requests : req[r].state = "live"}
Freed     == {r \in Requests : req[r].state = "freed"}
Active(r) == {i \in 0..Width : step[<<r, i>>] # "idle"}

\* Workers, tallies and contexts have their types.
TypeOK ==
    LET Tally == [requests : Nat, ok : Nat, errors : Nat]
    IN  /\ worker \in [Workers -> WorkerState]
        /\ tally \in [Workers -> Tally]
        /\ index \in Tally
        /\ req \in [Requests ->
              [ kind : {"GET", "PUT", "SEARCH"}, state : {"new", "live", "freed"},
                mem : Sizes \cup {0}, mem_response : Sizes \cup {0},
                workers : Seq(Workers), done : 0..Width, worst : {"4XX", "5XX"},
                collator : 1..Width ]]
        /\ step \in [Tasks -> {"idle", "compute", "disk", "response", "collate"}]
        /\ response \in [Tasks -> {"4XX", "5XX"}]
        /\ refused \subseteq Requests
        /\ stale \subseteq Requests

\* A branch waits for compute exactly while its reservation is on a CPU or in
\* the queue of the worker it chose, and for the disk exactly while it is on
\* that worker's disk; nothing is reserved on any other worker.  The worker's own
\* invariant survives these clients, whose continuations reserve again on the same
\* worker from inside its event handlers.
BranchesArePlaced ==
    /\ \A w \in Workers : WorkerOK(worker[w])
    /\ \A t \in Tasks, w \in Workers :
           LET here == /\ t[1] \in Live
                       /\ t[2] <= Fanout(State, t[1])
                       /\ At(State, t) = w
           IN  /\ t \in Running(worker[w]) \cup Waiting(worker[w])
                     <=> here /\ step[t] \in {"compute", "response", "collate"}
               /\ t \in worker[w].io <=> here /\ step[t] = "disk"

\* A context is alive exactly while something will still call back into it:
\* no request is forgotten with its context leaked, and no callback is left
\* over that would enter a context already freed.
LiveIffAwaited == \A r \in Requests : r \in Live <=> Active(r) # {}

\* The index logs every request once, when its context dies, and logs it as
\* 5XX exactly when some reservation made for it was refused, however deep in
\* a fan-out and however far from the end.
IndexLogsOutcome ==
    /\ index.requests = Cardinality(Freed)
    /\ index.ok + index.errors = index.requests
    /\ index.errors = Cardinality(Freed \cap refused)

\* A worker has logged a result for every request logged at it but those of
\* the branches still at work there; collation is logged neither way.
WorkerTalliesBalance ==
    \A w \in Workers :
        tally[w].requests = tally[w].ok + tally[w].errors +
            Cardinality({t \in Tasks : t[2] # 0 /\ step[t] # "idle" /\ At(State, t) = w})

\* A replica is written only after the primary was written well.
PrimaryFirst ==
    \A r \in Live :
        req[r].kind = "PUT" /\ Active(r) \ {1} # {} =>
            1 \notin Active(r) /\ response[<<r, 1>>] = "4XX"

\* Collation starts only when every shard has answered well, and the loop of
\* search.c:155, which overwrites its best so far on a coin, ends on one of the
\* workers that hold the most of them.
CollationLast ==
    \A r \in Live :
        step[<<r, 0>>] = "collate" =>
            LET ws == req[r].workers
                weight(i) == Cardinality({k \in DOMAIN ws : ws[k] = ws[i]})
            IN  /\ Active(r) = {0}
                /\ \A i \in DOMAIN ws : /\ response[<<r, i>>] = "4XX"
                                        /\ weight(i) <= weight(req[r].collator)

\* No field of a request's context is read after free(ctx): what the fan-out
\* loops of search.c:77 and put.c:107 rely on is that a reservation is
\* asynchronous, as worker.h:62 says.
NoReadAfterFree == stale = {}

\* Every request that has arrived is eventually logged and freed, however the
\* others load the workers.
EveryRequestEnds == \A r \in Requests : r \in Live ~> r \in Freed
=============================================================================

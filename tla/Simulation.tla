----------------------------- MODULE Simulation -----------------------------
(***************************************************************************)
(* A whole run of the simulator as main.c sets it up: a workload generator *)
(* (workload.c) and the periodic profiler with its agents (profiler.c,     *)
(* agent.c) schedule themselves on the clock, requests arrive, are routed  *)
(* and end, and scalings take their time.                                  *)
(*                                                                         *)
(* The clock is what Clock.tla shows it to be: a list of events by time    *)
(* and, among equal times, by order of scheduling.  What goes on between a *)
(* request's arrival and its end (Requests.tla) is a duration, and a       *)
(* scaling (Scaling.tla) is the delay of its spin-up.  Times are naturals. *)
(***************************************************************************)
EXTENDS Routing, Agents, FiniteSets

CONSTANTS
    Workloads,      \* the JSONL files: sequences of lines
    SyntheticLoads, \* what --rate and --indices give: is the rate positive, is there an index
    Rosters,        \* the profiler's agents: sequences of new agents
    FirstDelays,    \* --profiler-first
    Period,         \* --profiler-period
    StopDelay,      \* the second after which the loaded workload stops the clock
    EndTime,        \* --end-time
    Gaps,           \* interarrival times drawn by rng_expovariate
    Documents,      \* document ids drawn by rng_int
    Durations,      \* times from a request's arrival to its end
    SpinUpDelay,    \* config.cpu_spin_up_delay
    ReadyTime,      \* config.worker_ready_time
    NumWorkers, HalfOcus,
    Horizon         \* bound: no event after this time is handled

\* A line of the file: blank, or the values of its keys.
Line ==
    [ type : {"blank", "none", "GET", "PUT", "SEARCH"}, time : Nat,
      known : BOOLEAN, document : Int, given : Seq(Int) ]

\* The agents are as agent_init leaves them.
ASSUME SimulationAssumption ==
    /\ Workloads \subseteq Seq(Line)
    /\ SyntheticLoads \subseteq [has_rate : BOOLEAN, has_index : BOOLEAN]
    /\ Rosters \subseteq Seq(NewAgents)
    /\ Period \in Nat \ {0}         \* with 0 the first tick would repeat for ever
    /\ FirstDelays \subseteq Nat
    /\ StopDelay \in Nat \ {0} /\ EndTime \in Nat \ {0} /\ SpinUpDelay \in Nat \ {0}
    /\ ReadyTime \in Nat
    /\ Gaps \subseteq Nat \ {0} /\ Durations \subseteq Nat
    /\ Documents \subseteq Int
    /\ NumWorkers \in Nat \ {0} /\ HalfOcus \in Nat \ {0}

VARIABLES
    now,        \* clock->time
    agenda,     \* the events on the clock, next first
    running,    \* clock->running
    gen,        \* the generator
    first,      \* the profiler's first delay
    ticks,      \* how often it has ticked
    agents,     \* profiler->agents
    coll,       \* dse_config and steady
    index,      \* idx->total_requests; history: those reported by ticks
    arrivals    \* history: the requests that arrived, when and where they were routed

vars == <<now, agenda, running, gen, first, ticks, agents, coll, index, arrivals>>

-----------------------------------------------------------------------------
(* The clock.                                                              *)

Elements(s)  == {s[i] : i \in 1..Len(s)}
NoRepeats(s) == \A i, k \in 1..Len(s) : s[i] = s[k] => i = k

NoRequest == [id |-> 0, type |-> "none", document |-> 0, given |-> <<>>]

Event(what, at)           == [what |-> what, at |-> at, request |-> NoRequest]
RequestEvent(what, at, r) == [what |-> what, at |-> at, request |-> r]

\* pq_push: after the events that come before it or at the same time.
Insert(events, e) ==
    InsertAt(events, Cardinality({i \in DOMAIN events : events[i].at <= e.at}) + 1, e)

\* Scheduling several events, one after the other.
InsertAll(events, es) ==
    LET after[n \in 0..Len(es)] == IF n = 0 THEN events ELSE Insert(after[n - 1], es[n])
    IN  after[Len(es)]

\* The time of the event at hand.
Present == Head(agenda).at

\* clock_schedule: a time in the past is the present.
NotBefore(t) == IF t < Present THEN Present ELSE t

\* clock_run takes the next event, a handler of this kind, which schedules some
\* others.
Handle(what, scheduled) ==
    /\ running
    /\ agenda # <<>>
    /\ Head(agenda).what = what
    /\ Present <= Horizon                       \* bound
    /\ now' = Present
    /\ agenda' = InsertAll(Tail(agenda), scheduled)

-----------------------------------------------------------------------------
(* The generators.                                                         *)

\* workload_load with parse_request_field.  Blank lines are skipped.  The field
\* a line does not have is zero: its type is then GET, the first of the enum,
\* so the test of line 118 drops nothing.  An empty array gives no hash.
Parsed(line, id) ==
    [ id |-> id, type |-> IF line.type = "none" THEN "GET" ELSE line.type,
      time |-> line.time, known |-> line.known, document |-> line.document,
      given |-> IF line.type = "SEARCH" \/ line.given = <<>> THEN line.given
                                                           ELSE <<line.given[1]>> ]

Load(lines) ==
    LET after[n \in 0..Len(lines)] ==
            IF n = 0 THEN <<>>
            ELSE IF lines[n].type = "blank" THEN after[n - 1]
            ELSE Append(after[n - 1], Parsed(lines[n], Len(after[n - 1]) + 1))
    IN  after[Len(lines)]

Loaded(lines) ==
    [ kind |-> "loaded", requests |-> Load(lines), current |-> 0,
      active |-> TRUE, has_rate |-> FALSE, has_index |-> FALSE ]

Poisson(load) ==
    [ kind |-> "poisson", requests |-> <<>>, current |-> 0,
      active |-> TRUE, has_rate |-> load.has_rate, has_index |-> load.has_index ]

\* workload_start: nothing is scheduled for an empty workload.
WorkloadStart(g) ==
    IF g.requests = <<>> THEN <<>> ELSE <<Event("dispatch", g.requests[1].time)>>

\* poisson_workload_start, and the end of poisson_dispatch_next.  A rate of 0
\* (--rate-mean without --rate-period) gives an infinite gap: the event is never
\* reached, and the model leaves it out.
NextGap(g, gap, time) == IF g.has_rate THEN <<Event("poisson", time + gap)>> ELSE <<>>

\* dispatch_request: a request for an unknown index is skipped with a warning.
\* get_request_start and its like schedule the arrival.
Dispatched(r) ==
    IF ~r.known THEN <<>>
    ELSE <<RequestEvent("arrive", NotBefore(r.time),
              [id |-> r.id, type |-> r.type, document |-> r.document, given |-> r.given])>>

\* Mutants: the next request is dispatched at once; the clock is stopped a delay
\* after the last request's own time; the last request is forgotten; the stop is.
NextDispatchAtOnce(requests, n) ==
    IF n < Len(requests) THEN Event("dispatch", Present)
                         ELSE Event("stop", Present + StopDelay)
NextDispatchByFile(requests, n) ==
    IF n < Len(requests) THEN Event("dispatch", NotBefore(requests[n + 1].time))
                         ELSE Event("stop", NotBefore(requests[n].time + StopDelay))
NextDispatchEarly(requests, n) ==
    IF n + 1 < Len(requests) THEN Event("dispatch", NotBefore(requests[n + 1].time))
                             ELSE Event("stop", Present + StopDelay)

NextDispatchForgetsStop(requests, n) ==
    Event("dispatch", IF n < Len(requests) THEN NotBefore(requests[n + 1].time)
                                           ELSE Present + StopDelay)

\* What workload_dispatch_next schedules after the n-th request: the next
\* dispatch, or the stop of the clock.
NextDispatch(requests, n) ==
    IF n < Len(requests) THEN Event("dispatch", NotBefore(requests[n + 1].time))
                         ELSE Event("stop", Present + StopDelay)

\* workload_dispatch_next.
DispatchNext ==
    LET n == gen.current + 1
    IN  /\ IF ~gen.active \/ gen.current >= Len(gen.requests)
             THEN Handle("dispatch", <<>>) /\ UNCHANGED gen
             ELSE /\ Handle("dispatch", Append(Dispatched(gen.requests[n]),
                                               NextDispatch(gen.requests, n)))
                  /\ gen' = [gen EXCEPT !.current = n, !.active = n < Len(gen.requests)]
        /\ UNCHANGED <<running, first, ticks, agents, coll, index, arrivals>>

\* workload_stop_clock.
StopClock ==
    /\ Handle("stop", <<>>)
    /\ running' = FALSE
    /\ UNCHANGED <<gen, first, ticks, agents, coll, index, arrivals>>

\* poisson_dispatch_next after the end time.
PoissonStops ==
    /\ Present >= EndTime
    /\ Handle("poisson", <<>>)
    /\ running' = FALSE
    /\ UNCHANGED <<gen, first, ticks, agents, coll, index, arrivals>>

\* poisson_dispatch_next.  Without an index it returns before it schedules
\* itself again.
PoissonNext ==
    /\ Present < EndTime
    /\ gen' = [gen EXCEPT !.current = @ + 1]
    /\ IF ~gen.has_index
         THEN Handle("poisson", <<>>)
         ELSE \E type \in {"GET", "PUT", "SEARCH"}, d \in Documents, gap \in Gaps :
                LET r == [ id |-> gen.current + 1, type |-> type, given |-> <<>>,
                           document |-> IF type = "SEARCH" THEN 0 ELSE d ]
                IN  Handle("poisson", <<RequestEvent("arrive", Present, r)>>
                                        \o NextGap(gen, gap, Present))
    /\ UNCHANGED <<running, first, ticks, agents, coll, index, arrivals>>

-----------------------------------------------------------------------------
(* Requests.                                                               *)

\* The shards that serve a request.  A number below 0 is none: the code then reads
\* below the start of the index's shards, which has no defined outcome, and the
\* model goes on as if it had found a shard there.
Route(r) ==
    IF r.type = "SEARCH" THEN SearchShards(r.given)
                         ELSE <<ComputeShard(r.document, r.given)>>

\* index_log_result.
LogResult == index' = [index EXCEPT !.total_requests = @ + 1]

\* The arrival: the request is routed, and ends after some time, or before the
\* event is over if all that it asks for is refused.
Arrive ==
    LET r == Head(agenda).request
    IN  /\ \/ \E d \in Durations : Handle("arrive", <<RequestEvent("end", Present + d, r)>>)
                                   /\ UNCHANGED index
           \/ Handle("arrive", <<>>) /\ LogResult
        /\ arrivals' = Append(arrivals, [request |-> r, at |-> Present, shards |-> Route(r)])
        /\ UNCHANGED <<running, gen, first, ticks, agents, coll>>

End ==
    /\ Handle("end", <<>>)
    /\ LogResult
    /\ UNCHANGED <<running, gen, first, ticks, agents, coll, arrivals>>

-----------------------------------------------------------------------------
(* The profiler.                                                           *)

\* profiler_profile calls one agent after the other.
ActAll(time, busy) ==
    LET after[n \in 0..Len(agents)] ==
            IF n = 0 THEN [ agents |-> <<>>,
                            world  |-> [coll |-> coll, started |-> 0, stopped |-> FALSE] ]
            ELSE LET done == Act(Report(agents[n]), after[n - 1].world, time, busy)
                 IN  [agents |-> Append(after[n - 1].agents, done.agent), world |-> done.world]
    IN  after[Len(agents)]

\* Mutant: what was counted before is reported again.
IndexReportKeeps == [index EXCEPT !.reported = @ + index.total_requests]

\* index_run_profiler.
IndexReport ==
    [total_requests |-> 0, reported |-> index.reported + index.total_requests]

\* Mutant: the delay is counted from the profiler's first delay.
NextTickDrifts(time) == Event("tick", time + Period + first)

\* The end of profiler_tick.
NextTick(time) == Event("tick", time + Period)

\* profiler_tick.  The spin-up of a scaling that an agent starts is put on the
\* clock before the next tick.
Tick ==
    \E busy \in BOOLEAN :
      LET s        == ActAll(Present, busy)
          spin_ups == [i \in 1..s.world.started |-> Event("spun_up", Present + SpinUpDelay)]
      IN  /\ Handle("tick", Append(spin_ups, NextTick(Present)))
          /\ agents' = s.agents
          /\ coll' = s.world.coll
          /\ running' = ~s.world.stopped
          /\ index' = IndexReport
          /\ ticks' = ticks + 1
          /\ UNCHANGED <<gen, first, arrivals>>

\* The last CPU of a scaling's new workers is up (workers_spin_up_pools_done).
SpunUp ==
    /\ Handle("spun_up", <<Event("scaled", Present + ReadyTime)>>)
    /\ UNCHANGED <<running, gen, first, ticks, agents, coll, index, arrivals>>

\* The event in which a scaling ends (Scaling!WorkersReady).
Scaled ==
    /\ Handle("scaled", <<>>)
    /\ coll' = [coll EXCEPT !.num_workers = coll.target, !.steady = TRUE]
    /\ UNCHANGED <<running, gen, first, ticks, agents, index, arrivals>>

-----------------------------------------------------------------------------
(* main.c: the profiler, then the generator, then clock_run.               *)

\* profiler_run_periodically.
FirstTick(delay) == Event("tick", IF delay > 0 THEN delay ELSE Period)

Init ==
    /\ now = 0
    /\ running = TRUE
    /\ first \in FirstDelays
    /\ \/ \E lines \in Workloads :
            /\ gen = Loaded(lines)
            /\ agenda = InsertAll(<<FirstTick(first)>>, WorkloadStart(gen))
       \/ \E load \in SyntheticLoads, gap \in Gaps :
            /\ gen = Poisson(load)
            /\ agenda = InsertAll(<<FirstTick(first)>>, NextGap(gen, gap, 0))
    /\ ticks = 0
    /\ agents \in Rosters
    /\ coll = [num_workers |-> NumWorkers, half_ocus |-> HalfOcus, steady |-> TRUE, target |-> 0]
    /\ index = [total_requests |-> 0, reported |-> 0]
    /\ arrivals = <<>>

Next ==
    \/ DispatchNext \/ StopClock
    \/ PoissonNext \/ PoissonStops
    \/ Arrive \/ End
    \/ Tick \/ SpunUp \/ Scaled

Spec == Init /\ [][Next]_vars

\* The event loop goes on while there are events.
FairSpec == Spec /\ WF_vars(Next)

-----------------------------------------------------------------------------
(* Properties.                                                             *)

Upcoming(what) == {i \in DOMAIN agenda : agenda[i].what = what}
IsLoaded       == gen.kind = "loaded"

\* The requests of the file that the generator has come to.
Come == {r \in Elements(gen.requests) : r.id <= gen.current}

\* The actions that the agents have taken.
TakenBy(a)  == Elements(a.taken)
TakenByAny  == UNION {TakenBy(agents[i]) : i \in DOMAIN agents}
ToldToStop  == \E a \in TakenByAny : a.action = "ShutDown"

\* The generator's own events will come to the one that stops the clock.
Fed == IF IsLoaded THEN gen.requests # <<>> ELSE gen.has_index /\ gen.has_rate

\* The agenda is in order and nothing on it is in the past, the configuration is
\* one that a scaling may have, and the books have their types.
TypeOK ==
    /\ now \in Nat /\ running \in BOOLEAN
    /\ \A i \in DOMAIN agenda :
         /\ agenda[i].at >= now
         /\ \A k \in DOMAIN agenda : i < k => agenda[i].at <= agenda[k].at
    /\ gen.current \in Nat /\ ticks \in Nat
    /\ coll \in [ num_workers : Nat \ {0}, half_ocus : Nat \ {0},
                  steady : BOOLEAN, target : Nat ]
    /\ index \in [total_requests : Nat, reported : Nat]

\* The time of the n-th tick.
TickTime(n) == (IF first > 0 THEN first ELSE Period) + (n - 1) * Period

\* The two chains of events are never broken and never doubled.  Of a loaded
\* workload one dispatch is on the clock until the last, then the stop, and at most
\* one request has been dispatched and has yet to arrive; a Poisson process has its
\* next arrival on the clock as long as it runs.  The profiler ticks at its first
\* delay, or a period if that is 0, and then every period.
EventChains ==
    LET stops      == Upcoming("stop")
        dispatches == Upcoming("dispatch")
        arriving   == {agenda[i].request.id : i \in Upcoming("arrive")}
    IN  /\ Cardinality(dispatches \cup stops \cup Upcoming("poisson")) <= 1
        /\ running /\ Fed => dispatches \cup stops \cup Upcoming("poisson") # {}
        /\ dispatches # {} => gen.current < Len(gen.requests)
        /\ stops # {} => gen.current = Len(gen.requests)
        /\ arriving \subseteq {gen.current} /\ Cardinality(Upcoming("arrive")) <= 1
        /\ Cardinality(Upcoming("tick")) = 1
        /\ \A i \in Upcoming("tick") : agenda[i].at = TickTime(ticks + 1)

\* A loaded workload arrives in the order of the file, each request for a known
\* index once, at its own time or, if the file is not sorted, at the latest of
\* the times before it: a request is never overtaken and never early.
ArrivesAsFiled ==
    IsLoaded =>
        /\ \A i, k \in DOMAIN arrivals :
             i < k => arrivals[i].request.id < arrivals[k].request.id
        /\ {a.request.id : a \in Elements(arrivals)}
              \cup {agenda[i].request.id : i \in Upcoming("arrive")}
             = {r.id : r \in {q \in Come : q.known}}
        /\ \A a \in Elements(arrivals) :
             a.at = Max({r.time : r \in {q \in Come : q.id <= a.request.id}})

\* workload.c:206: when the generator stops the clock every request has arrived,
\* and one that has not ended takes at least the second of headroom.
StopCutsOnlyLongWork ==
    IsLoaded /\ ~running /\ ~ToldToStop =>
        /\ gen.current = Len(gen.requests)
        /\ Upcoming("arrive") = {}
        /\ \A i \in Upcoming("end"), a \in Elements(arrivals) :
             a.request.id = agenda[i].request.id => agenda[i].at - a.at >= StopDelay

\* A tick takes every action that is due: dropping one by moving the last to its
\* place makes the loop miss none and repeat none.  An action is taken once, never
\* before its time, and counted once: what the profile has reported and what it
\* will report add up to the actions taken.
ActionsAreTakenOnce ==
    \A i \in DOMAIN agents :
        LET g == agents[i]
        IN  /\ \A t \in ActionTypes :
                 g.counts[t] + g.reported[t]
                    = Cardinality({n \in DOMAIN g.taken : g.taken[n].action = t})
            /\ g.kind = "oblivious" =>
                 /\ NoRepeats(g.taken) /\ NoRepeats(g.actions)
                 /\ TakenBy(g) \cap Elements(g.actions) = {}
                 /\ \A a \in TakenBy(g) : a.time <= now
            /\ \A a \in Elements(g.actions) : ticks > 0 => a.time > TickTime(ticks)

\* While a scaling is under way nothing that an agent asks for has an effect
\* (agent.c:71 drops the action all the same), and its end is on the clock once.
OneScalingAtATime ==
    /\ Cardinality(Upcoming("spun_up") \cup Upcoming("scaled")) = IF coll.steady THEN 0 ELSE 1
    /\ ~coll.steady => coll.num_workers > coll.target

\* The index's counts add up: every request that ended is in one tick's report or
\* in the next, and one that arrived has ended or is on the clock.
MetricsAddUp ==
    index.total_requests + index.reported + Cardinality(Upcoming("end")) = Len(arrivals)

\* A SEARCH that was given a negative hash (search.c:44 does not look for one).
GivenNegative(r) == r.type = "SEARCH" /\ \E i \in DOMAIN r.given : r.given[i] < 0

\* A GET or PUT is routed to one shard and a SEARCH to some, each once.  They are
\* shards of the index, whatever the document and the hash given to a GET or PUT;
\* for a SEARCH, unless a hash given to it is negative.
RoutesInRange ==
    \A a \in Elements(arrivals) :
        /\ a.shards # <<>> /\ NoRepeats(a.shards)
        /\ a.request.type # "SEARCH" => Len(a.shards) = 1
        /\ ~GivenNegative(a.request) => Elements(a.shards) \subseteq ShardNumbers

\* A run that has something to generate comes to its end.  With an empty file, no
\* index or no rate nobody schedules the stop, and the profiler ticks for ever.
SimulationEnds == Fed ~> ~running
=============================================================================

--------------------------- MODULE RequestsProofs ---------------------------
(***************************************************************************)
(* The invariants of Requests, for any set of requests and workers, any    *)
(* shards and fan-out, any queue limit, memory and sizes.                  *)
(***************************************************************************)
EXTENDS Requests, WorkerLemmas

Steps     == {"idle", "compute", "disk", "response", "collate"}
OnCpu     == {"compute", "response", "collate"}
Results   == {"4XX", "5XX"}
TallyType == [requests : Nat, ok : Nat, errors : Nat]
Context ==
    [ kind : {"GET", "PUT", "SEARCH"}, state : {"new", "live", "freed"},
      mem : Sizes \cup {0}, mem_response : Sizes \cup {0},
      workers : Seq(Workers), done : 0..Width, worst : Results,
      collator : 1..Width ]
StateType ==
    [ worker : [Workers -> WorkerState], tally : [Workers -> TallyType],
      index : TallyType, req : [Requests -> Context],
      step : [Tasks -> Steps], response : [Tasks -> Results],
      refused : SUBSET Requests, stale : SUBSET Requests ]

-----------------------------------------------------------------------------
(* The global part of the inductive invariant, of a state given as a       *)
(* record.  hand is the set of tasks whose continuation is running: they   *)
(* wait for nothing but still owe their worker a result.                   *)

Placed(s) ==
    /\ \A w \in Workers : WorkerInv(s.worker[w])
    /\ \A t \in Tasks, w \in Workers :
        /\ t \in Running(s.worker[w]) \cup Waiting(s.worker[w])
             <=> s.step[t] \in OnCpu /\ At(s, t) = w
        /\ t \in s.worker[w].io <=> s.step[t] = "disk" /\ At(s, t) = w

Ended(s) == {r \in Requests : s.req[r].state = "freed"}

Logs(s) ==
    /\ s.index.requests = Cardinality(Ended(s))
    /\ s.index.ok + s.index.errors = s.index.requests
    /\ s.index.errors = Cardinality(Ended(s) \cap s.refused)

AtWork(s, hand, w) ==
    {t \in Tasks : t[2] # 0 /\ (s.step[t] # "idle" \/ t \in hand) /\ At(s, t) = w}

Tallies(s, hand) ==
    \A w \in Workers :
        s.tally[w].requests = s.tally[w].ok + s.tally[w].errors
                              + Cardinality(AtWork(s, hand, w))

Safe(s, hand) == s \in StateType /\ Placed(s) /\ Logs(s) /\ Tallies(s, hand)

-----------------------------------------------------------------------------
(* The part about one request.                                             *)

St(s, r, i) == s.step[<<r, i>>]
Rs(s, r, i) == s.response[<<r, i>>]

IdleBut(s, r, B) == \A i \in (0..Width) \ B : St(s, r, i) = "idle"

\* The branches that a gather is about: all, or all but the primary.
First(s, r) == IF s.req[r].kind = "PUT" THEN 2 ELSE 1

Alive(s, r) ==
    /\ s.req[r].state = "live"
    /\ Fanout(s, r) \in 1..Width
    /\ s.req[r].kind = "PUT" => NoRepeats(s.req[r].workers)

IsNew(s, r) ==
    /\ s.req[r].state = "new"
    /\ IdleBut(s, r, {})
    /\ r \notin s.refused

IsFreed(s, r) ==
    /\ s.req[r].state = "freed"
    /\ IdleBut(s, r, {})

GetWaits(s, r) ==
    /\ Alive(s, r) /\ s.req[r].kind = "GET"
    /\ IdleBut(s, r, {1})
    /\ St(s, r, 1) \in {"compute", "disk"}
    /\ r \notin s.refused

PrimaryWaits(s, r) ==
    /\ Alive(s, r) /\ s.req[r].kind = "PUT"
    /\ IdleBut(s, r, {1})
    /\ St(s, r, 1) \in {"compute", "disk"}
    /\ r \in s.refused <=> Rs(s, r, 1) = "5XX"

\* The branches that have answered, of those started (up to the up-th), when
\* the continuations of the branches in hand are running.
Answered(s, r, up, hand) ==
    {k \in First(s, r)..up : St(s, r, k) = "idle" /\ k \notin hand}

\* Branches up to the up-th were started and not all have answered; result is
\* that of the branch in hand.
Gathering(s, r, up, hand, result) ==
    /\ Alive(s, r) /\ s.req[r].kind \in {"PUT", "SEARCH"}
    /\ up \in (First(s, r) - 1)..Fanout(s, r)
    /\ \A k \in hand : k \in First(s, r)..up /\ St(s, r, k) = "idle"
    /\ IdleBut(s, r, First(s, r)..up)
    /\ \A k \in First(s, r)..up :
         St(s, r, k) \in {"idle", "compute", "disk"} \cup
                         (IF s.req[r].kind = "PUT" THEN {} ELSE {"response"})
    /\ s.req[r].done = Cardinality(Answered(s, r, up, hand))
    /\ s.req[r].done < Fanout(s, r) - First(s, r) + 1
    /\ s.req[r].worst = "5XX" <=> \E k \in Answered(s, r, up, hand) : Rs(s, r, k) = "5XX"
    /\ r \in s.refused <=>
         result = "5XX" \/ \E k \in First(s, r)..up : Rs(s, r, k) = "5XX"
    /\ s.req[r].kind = "PUT" => Rs(s, r, 1) = "4XX"

Weight(ws, i) == Cardinality({k \in DOMAIN ws : ws[k] = ws[i]})

Collating(s, r) ==
    /\ Alive(s, r) /\ s.req[r].kind = "SEARCH"
    /\ IdleBut(s, r, {0})
    /\ St(s, r, 0) = "collate"
    /\ r \notin s.refused
    /\ s.req[r].collator \in 1..Fanout(s, r)
    /\ \A i \in 1..Fanout(s, r) :
         /\ Rs(s, r, i) = "4XX"
         /\ Weight(s.req[r].workers, i) <= Weight(s.req[r].workers, s.req[r].collator)

Ready(s, r) ==
    \/ IsNew(s, r) \/ IsFreed(s, r)
    \/ GetWaits(s, r) \/ PrimaryWaits(s, r)
    \/ Gathering(s, r, Fanout(s, r), {}, "4XX")
    \/ Collating(s, r)

Inv == Safe(State, {}) /\ \A r \in Requests : Ready(State, r)

-----------------------------------------------------------------------------
(* Numbers and constants.                                                  *)

\* A non-empty finite set of naturals has a greatest element.
LEMMA FiniteHasMax ==
    ASSUME NEW S \in SUBSET Nat, IsFiniteSet(S), S # {}
    PROVE  \E x \in S : \A y \in S : x >= y
<1> DEFINE HasMax(A) == \E x \in A : \A y \in A : x >= y
           T == {m \in Nat : \E A \in SUBSET S : A # {} /\ Cardinality(A) = m /\ ~HasMax(A)}
<1> SUFFICES ASSUME ~HasMax(S)  PROVE FALSE
  OBVIOUS
<1>1. T \in SUBSET Nat /\ T # {}
  <2>1. Cardinality(S) \in T
    BY FS_CardinalityType
  <2> QED  BY <2>1
<1>2. PICK m \in T : \A k \in T : m <= k
  <2> HIDE DEF T
  <2> QED  BY <1>1, LeastNatural
<1>3. PICK A \in SUBSET S : A # {} /\ Cardinality(A) = m /\ ~HasMax(A)
  BY <1>2
<1>4. PICK a \in A : TRUE
  BY <1>3
<1> DEFINE B == A \ {a}
<1>5. IsFiniteSet(A) /\ IsFiniteSet(B) /\ Cardinality(B) = m - 1 /\ m - 1 \in Nat
  <2>1. IsFiniteSet(A)
    BY FS_Subset
  <2>2. IsFiniteSet(B) /\ Cardinality(B) = m - 1
    BY <1>3, <1>4, <2>1, FS_RemoveElement
  <2> QED  BY <2>1, <2>2, FS_CardinalityType
<1>6. CASE B = {}
  <2>1. A = {a} /\ a \in Nat
    BY <1>4, <1>6
  <2> QED  BY <1>3, <2>1
<1>7. CASE B # {}
  <2>1. HasMax(B)
    <3>1. SUFFICES ASSUME ~HasMax(B)  PROVE FALSE
      OBVIOUS
    <3>2. m - 1 \in T
      BY <1>5, <1>7, <3>1
    <3> QED  BY <1>1, <1>2, <3>2
  <2>2. PICK x \in B : \A y \in B : x >= y
    BY <2>1
  <2>3. a \in Nat /\ x \in Nat /\ \A y \in A : y \in Nat /\ (y = a \/ y \in B)
    BY <1>4
  <2>4. CASE a >= x
    <3>1. \A y \in A : a >= y
      BY <2>2, <2>3, <2>4
    <3> QED  BY <1>3, <1>4, <3>1
  <2>5. CASE x >= a
    <3>1. x \in A /\ \A y \in A : x >= y
      BY <2>2, <2>3, <2>5
    <3> QED  BY <1>3, <3>1
  <2> QED  BY <2>3, <2>4, <2>5
<1> QED  BY <1>6, <1>7

\* Max is what its name says.
LEMMA MaxOfFinite ==
    ASSUME NEW S \in SUBSET Nat, IsFiniteSet(S), S # {}
    PROVE  Max(S) \in S /\ \A y \in S : Max(S) >= y
BY FiniteHasMax DEF Max

\* The fan-out of a request never exceeds Width, and there are finitely many
\* requests.
LEMMA ConstantFacts ==
    /\ Jobs = Tasks /\ IsFiniteSet(Requests) /\ Sizes \subseteq Nat
    /\ Width \in Nat \ {0}
    /\ Len(ShardWorkers) \in 1..Width
    /\ \A i \in Shards : /\ ShardWorkers[i] \in Seq(Workers)
                         /\ Len(ShardWorkers[i]) \in 1..Width
                         /\ NoRepeats(ShardWorkers[i])
<1> DEFINE n == Len(ShardWorkers)
           f == [i \in Shards |-> Len(ShardWorkers[i])]
           L == {Len(ShardWorkers[i]) : i \in Shards}
           S == {n} \cup L
<1>1. n \in Nat \ {0} /\ Shards = 1..n
  BY EmptySeq, RequestsAssumption DEF Shards
<1>2. \A i \in Shards : ShardWorkers[i] \in Seq(Workers) /\ ShardWorkers[i] # <<>>
  BY <1>1, RequestsAssumption, ElementOfSeq
<1>3. \A i \in Shards : Len(ShardWorkers[i]) \in Nat \ {0}
  BY <1>2, EmptySeq
<1>4. S \in SUBSET Nat /\ S # {} /\ IsFiniteSet(S)
  <2>1. IsFiniteSet(Shards)
    BY <1>1, FS_Interval
  <2>2. f \in Surjection(Shards, L)
    BY DEF Surjection
  <2>3. IsFiniteSet(L)
    <3> HIDE DEF f, L
    <3> QED  BY <2>1, <2>2, FS_Surjection
  <2>4. IsFiniteSet(L \cup {n})
    BY <2>3, FS_AddElement
  <2> QED  BY <1>1, <1>3, <2>4
<1>5. Width \in S /\ \A y \in S : Width >= y
  <2>1. Width = Max(S)
    BY DEF Width
  <2> HIDE DEF S
  <2> QED  BY <1>4, <2>1, MaxOfFinite
<1>6. Width \in Nat \ {0} /\ n \in 1..Width /\ \A i \in Shards : Len(ShardWorkers[i]) \in 1..Width
  BY <1>1, <1>3, <1>4, <1>5
<1>7. IsFiniteSet(Requests)
  <2> DEFINE g == [t \in Tasks |-> t[1]]
  <2>1. g \in Surjection(Tasks, Requests)
    <3>1. g \in [Tasks -> Requests]
      BY DEF Tasks
    <3>2. ASSUME NEW r \in Requests  PROVE \E t \in Tasks : g[t] = r
      <4>1. <<r, 0>> \in Tasks
        BY <1>6 DEF Tasks
      <4> QED  BY <4>1
    <3> QED  BY <3>1, <3>2 DEF Surjection
  <2>2. IsFiniteSet(Tasks)
    BY WorkerAssumption, RequestsAssumption
  <2> QED  BY <2>1, <2>2, FS_Surjection
<1>8. Jobs = Tasks /\ Sizes \subseteq Nat /\ \A i \in Shards : NoRepeats(ShardWorkers[i])
  BY RequestsAssumption
<1> QED  BY <1>2, <1>6, <1>7, <1>8

-----------------------------------------------------------------------------
(* What each helper does to the global part.                               *)

SameRequests(u, s) ==
    /\ u.req = s.req /\ u.step = s.step
    /\ u.response = s.response /\ u.refused = s.refused

\* Where a task runs depends on the contexts only.
LEMMA AtSame ==
    ASSUME NEW s, NEW u, u.req = s.req
    PROVE  \A t : At(u, t) = At(s, t)
BY DEF At, Slot

LEMMA AtWorkFinite ==
    ASSUME NEW s, NEW hand, NEW w
    PROVE  /\ IsFiniteSet(AtWork(s, hand, w))
           /\ Cardinality(AtWork(s, hand, w)) \in Nat
<1>1. AtWork(s, hand, w) \in SUBSET Tasks /\ IsFiniteSet(Tasks)
  BY WorkerAssumption, RequestsAssumption DEF AtWork
<1> QED  BY <1>1, FS_Subset, FS_CardinalityType

\* The parts that read neither the tallies nor the logs.
LEMMA PlacedFrame ==
    ASSUME NEW s, Placed(s), NEW u,
           u.worker = s.worker, u.step = s.step,
           \A t \in Tasks : s.step[t] # "idle" => At(u, t) = At(s, t)
    PROVE  Placed(u)
BY DEF Placed, OnCpu

LEMMA LogsFrame ==
    ASSUME NEW s, Logs(s), NEW u,
           u.index = s.index, u.req = s.req, u.refused = s.refused
    PROVE  Logs(u)
BY DEF Logs, Ended

\* A context that has not ended may change, and be refused, unlogged.
LEMMA LogsUnended ==
    ASSUME NEW s, Logs(s), NEW u, NEW r \in Requests, u.index = s.index,
           s.req[r].state # "freed", u.req[r].state # "freed",
           \A q \in Requests \ {r} : /\ u.req[q] = s.req[q]
                                     /\ q \in u.refused <=> q \in s.refused
    PROVE  Logs(u)
<1>1. Ended(u) = Ended(s) /\ Ended(u) \cap u.refused = Ended(s) \cap s.refused
  BY DEF Ended
<1> QED  BY <1>1 DEF Logs

LEMMA TalliesFrame ==
    ASSUME NEW s, NEW hand, Tallies(s, hand), NEW u,
           u.tally = s.tally, u.step = s.step,
           \A t \in Tasks : s.step[t] # "idle" \/ t \in hand => At(u, t) = At(s, t)
    PROVE  Tallies(u, hand)
<1>1. \A w \in Workers : AtWork(u, hand, w) = AtWork(s, hand, w)
  BY DEF AtWork
<1> QED  BY <1>1 DEF Tallies

\* worker_log_request: the request is now at work at that worker.
LEMMA LogRequestSafe ==
    ASSUME NEW s, Safe(s, {}), NEW t \in Tasks, t[2] # 0, s.step[t] = "idle",
           At(s, t) \in Workers, NEW u, u = LogRequest(s, t)
    PROVE  Safe(u, {t}) /\ SameRequests(u, s) /\ u.worker = s.worker
<1> DEFINE w == At(s, t)
           n == s.tally[w].requests + 1
           c == [s.tally[w] EXCEPT !.requests = n]
           f == [s.tally EXCEPT ![w] = c]
<1>1. s \in StateType /\ s.tally \in [Workers -> TallyType] /\ s.tally[w] \in TallyType
  BY DEF Safe, StateType
<1>2. n \in Nat /\ c \in TallyType /\ f \in [Workers -> TallyType]
  BY <1>1 DEF TallyType
<1>3. u = [s EXCEPT !.tally = f]
  BY DEF LogRequest
<1>4. /\ f[w].requests = n /\ f[w].ok = s.tally[w].ok /\ f[w].errors = s.tally[w].errors
      /\ \A v \in Workers \ {w} : f[v] = s.tally[v]
  BY <1>1, <1>2 DEF TallyType
<1> HIDE DEF f
<1>5. u \in StateType /\ u.tally = f
  BY <1>1, <1>2, <1>3 DEF StateType
<1>6. u.worker = s.worker /\ u.index = s.index /\ SameRequests(u, s)
  BY <1>1, <1>3 DEF StateType, SameRequests
<1>7. Placed(u) /\ Logs(u)
  BY <1>6, PlacedFrame, LogsFrame, AtSame DEF Safe, SameRequests
<1>8. AtWork(u, {t}, w) = AtWork(s, {}, w) \cup {t} /\ t \notin AtWork(s, {}, w)
  BY <1>6, AtSame DEF AtWork, SameRequests
<1>9. \A v \in Workers \ {w} : AtWork(u, {t}, v) = AtWork(s, {}, v)
  BY <1>6, AtSame DEF AtWork, SameRequests
<1>10. Cardinality(AtWork(u, {t}, w)) = Cardinality(AtWork(s, {}, w)) + 1
  BY <1>8, AtWorkFinite, FS_AddElement
<1>11. ASSUME NEW v \in Workers
       PROVE  u.tally[v].requests = u.tally[v].ok + u.tally[v].errors
                                    + Cardinality(AtWork(u, {t}, v))
  <2>1. s.tally[v].requests = s.tally[v].ok + s.tally[v].errors
                              + Cardinality(AtWork(s, {}, v))
    BY DEF Safe, Tallies
  <2>2. /\ s.tally[v].requests \in Nat /\ s.tally[v].ok \in Nat /\ s.tally[v].errors \in Nat
        /\ Cardinality(AtWork(s, {}, v)) \in Nat
    BY <1>1, AtWorkFinite DEF TallyType
  <2>3. CASE v = w
    BY <1>4, <1>5, <1>10, <2>1, <2>2, <2>3
  <2>4. CASE v # w
    BY <1>4, <1>5, <1>9, <2>1, <2>4
  <2> QED  BY <2>3, <2>4
<1> QED  BY <1>5, <1>6, <1>7, <1>11 DEF Safe, Tallies

\* Counting a result adds one to the sum of both counts.
LEMMA CountAddsOne ==
    ASSUME NEW c \in TallyType, NEW result \in Results, NEW d, d = Count(c, result)
    PROVE  /\ d \in TallyType /\ d.requests = c.requests
           /\ d.ok + d.errors = c.ok + c.errors + 1
           /\ d.errors = IF result = "5XX" THEN c.errors + 1 ELSE c.errors
<1>1. CASE result = "4XX"
  <2>1. d = [c EXCEPT !.ok = c.ok + 1] /\ c.ok + 1 \in Nat
    BY <1>1 DEF Count, TallyType
  <2>2. d \in TallyType /\ d.ok = c.ok + 1 /\ d.requests = c.requests /\ d.errors = c.errors
    BY <2>1 DEF TallyType
  <2> QED  BY <1>1, <2>2 DEF TallyType
<1>2. CASE result # "4XX"
  <2>1. d = [c EXCEPT !.errors = c.errors + 1] /\ c.errors + 1 \in Nat
    BY <1>2 DEF Count, TallyType
  <2>2. d \in TallyType /\ d.ok = c.ok /\ d.requests = c.requests /\ d.errors = c.errors + 1
    BY <2>1 DEF TallyType
  <2> QED  BY <1>2, <2>2 DEF TallyType, Results
<1> QED  BY <1>1, <1>2

\* worker_log_result: the branch in hand owes nothing any more.
LEMMA LogResultSafe ==
    ASSUME NEW s, NEW t \in Tasks, Safe(s, {t}), t[2] # 0, s.step[t] = "idle",
           At(s, t) \in Workers, NEW result \in Results,
           NEW u, u = LogResult(s, t, result)
    PROVE  Safe(u, {}) /\ SameRequests(u, s) /\ u.worker = s.worker
<1> DEFINE w == At(s, t)
           c == Count(s.tally[w], result)
           f == [s.tally EXCEPT ![w] = c]
<1>1. s \in StateType /\ s.tally \in [Workers -> TallyType] /\ s.tally[w] \in TallyType
  BY DEF Safe, StateType
<1>2. /\ c \in TallyType /\ c.requests = s.tally[w].requests
      /\ c.ok + c.errors = s.tally[w].ok + s.tally[w].errors + 1
  BY <1>1, CountAddsOne
<1>3. u = [s EXCEPT !.tally = f]
  BY DEF LogResult
<1> HIDE DEF c
<1>4. /\ f \in [Workers -> TallyType] /\ f[w] = c
      /\ \A v \in Workers \ {w} : f[v] = s.tally[v]
  BY <1>1, <1>2
<1> HIDE DEF f
<1>5. u \in StateType /\ u.tally = f
  BY <1>1, <1>3, <1>4 DEF StateType
<1>6. u.worker = s.worker /\ u.index = s.index /\ SameRequests(u, s)
  BY <1>1, <1>3 DEF StateType, SameRequests
<1>7. Placed(u) /\ Logs(u)
  BY <1>6, PlacedFrame, LogsFrame, AtSame DEF Safe, SameRequests
<1>8. AtWork(u, {}, w) = AtWork(s, {t}, w) \ {t} /\ t \in AtWork(s, {t}, w)
  BY <1>6, AtSame DEF AtWork, SameRequests
<1>9. \A v \in Workers \ {w} : AtWork(u, {}, v) = AtWork(s, {t}, v)
  BY <1>6, AtSame DEF AtWork, SameRequests
<1>10. Cardinality(AtWork(u, {}, w)) = Cardinality(AtWork(s, {t}, w)) - 1
  BY <1>8, AtWorkFinite, FS_RemoveElement
<1>11. ASSUME NEW v \in Workers
       PROVE  u.tally[v].requests = u.tally[v].ok + u.tally[v].errors
                                    + Cardinality(AtWork(u, {}, v))
  <2>1. s.tally[v].requests = s.tally[v].ok + s.tally[v].errors
                              + Cardinality(AtWork(s, {t}, v))
    BY DEF Safe, Tallies
  <2>2. /\ s.tally[v].requests \in Nat /\ s.tally[v].ok \in Nat /\ s.tally[v].errors \in Nat
        /\ Cardinality(AtWork(s, {t}, v)) \in Nat
    BY <1>1, AtWorkFinite DEF TallyType
  <2>3. CASE v = w
    <3>1. c.ok \in Nat /\ c.errors \in Nat
      BY <1>2 DEF TallyType
    <3> QED  BY <1>2, <1>4, <1>5, <1>10, <2>1, <2>2, <2>3, <3>1
  <2>4. CASE v # w
    BY <1>4, <1>5, <1>9, <2>1, <2>4
  <2> QED  BY <2>3, <2>4
<1> QED  BY <1>5, <1>6, <1>7, <1>11 DEF Safe, Tallies

Respond(s, t, x) == [s EXCEPT !.response[t] = x]

\* The results the branches remember are nobody else's business.
LEMMA RespondSafe ==
    ASSUME NEW s, NEW hand, Safe(s, hand), NEW t \in Tasks, NEW x \in Results,
           NEW u, u = Respond(s, t, x)
    PROVE  /\ Safe(u, hand)
           /\ u.req = s.req /\ u.step = s.step /\ u.refused = s.refused
           /\ u.worker = s.worker
           /\ u.response = [s.response EXCEPT ![t] = x]
<1> DEFINE f == [s.response EXCEPT ![t] = x]
<1>1. s \in StateType /\ f \in [Tasks -> Results] /\ u = [s EXCEPT !.response = f]
  BY DEF Safe, StateType, Respond
<1> HIDE DEF f
<1>2. /\ u \in StateType /\ u.response = f
      /\ u.worker = s.worker /\ u.tally = s.tally /\ u.index = s.index
      /\ u.req = s.req /\ u.step = s.step /\ u.refused = s.refused
  BY <1>1 DEF StateType
<1>3. \A v \in Tasks : At(u, v) = At(s, v)
  BY <1>2, AtSame
<1>4. Placed(u)
  BY <1>2, <1>3, PlacedFrame DEF Safe
<1>5. Logs(u)
  BY <1>2, LogsFrame DEF Safe
<1>6. Tallies(u, hand)
  <2>1. \A w \in Workers : AtWork(u, hand, w) = AtWork(s, hand, w)
    BY <1>2, <1>3 DEF AtWork
  <2> QED  BY <1>2, <2>1 DEF Safe, Tallies
<1> QED  BY <1>2, <1>4, <1>5, <1>6 DEF Safe, f

\* A read of a context leaves a trace, and no other.
LEMMA TouchFields ==
    ASSUME NEW s \in StateType, NEW r \in Requests, NEW u, u = Touch(s, r)
    PROVE  /\ u \in StateType /\ SameRequests(u, s)
           /\ u.worker = s.worker /\ u.tally = s.tally /\ u.index = s.index
<1>1. CASE s.req[r].state = "freed"
  <2> DEFINE f == s.stale \cup {r}
  <2>1. f \in SUBSET Requests /\ u = [s EXCEPT !.stale = f]
    BY <1>1 DEF StateType, Touch
  <2> HIDE DEF f
  <2> QED  BY <2>1 DEF StateType, SameRequests
<1>2. CASE s.req[r].state # "freed"
  <2>1. u = s
    BY <1>2 DEF Touch
  <2> QED  BY <2>1 DEF SameRequests
<1> QED  BY <1>1, <1>2

LEMMA TouchSafe ==
    ASSUME NEW s, NEW hand, Safe(s, hand), NEW r \in Requests, NEW u, u = Touch(s, r)
    PROVE  Safe(u, hand) /\ SameRequests(u, s)
<1>1. /\ u \in StateType /\ SameRequests(u, s)
      /\ u.worker = s.worker /\ u.tally = s.tally /\ u.index = s.index
  BY TouchFields DEF Safe
<1>2. Placed(u) /\ Logs(u) /\ Tallies(u, hand)
  BY <1>1, PlacedFrame, LogsFrame, TalliesFrame, AtSame DEF Safe, SameRequests
<1> QED  BY <1>1, <1>2 DEF Safe

\* The branches of r that are at work run where they did.
Unmoved(u, s, hand, r) ==
    \A i \in 0..Width :
        s.step[<<r, i>>] # "idle" \/ <<r, i>> \in hand =>
            At(u, <<r, i>>) = At(s, <<r, i>>)

\* A context changes, but neither ends nor moves a branch that is at work.
LEMMA RequestSafe ==
    ASSUME NEW s, NEW hand, Safe(s, hand), NEW r \in Requests, NEW c \in Context,
           NEW f, f = [s.req EXCEPT ![r] = c],
           NEW u, u = [s EXCEPT !.req = f],
           s.req[r].state # "freed", c.state # "freed", Unmoved(u, s, hand, r)
    PROVE  /\ Safe(u, hand)
           /\ u.step = s.step /\ u.response = s.response /\ u.refused = s.refused
           /\ u.worker = s.worker
           /\ u.req = f
<1>1. /\ s \in StateType /\ f \in [Requests -> Context]
      /\ f[r] = c /\ \A q \in Requests \ {r} : f[q] = s.req[q]
  BY DEF Safe, StateType
<1>2. /\ u \in StateType /\ u.req = f
      /\ u.worker = s.worker /\ u.tally = s.tally /\ u.index = s.index
      /\ u.response = s.response /\ u.step = s.step /\ u.refused = s.refused
  BY <1>1 DEF StateType
<1>3. ASSUME NEW t \in Tasks, s.step[t] # "idle" \/ t \in hand
      PROVE  At(u, t) = At(s, t)
  <2>1. t[1] \in Requests /\ t[2] \in 0..Width /\ t = <<t[1], t[2]>>
    BY DEF Tasks
  <2>2. CASE t[1] = r
    BY <1>3, <2>1, <2>2 DEF Unmoved
  <2>3. CASE t[1] # r
    BY <1>1, <1>2, <2>1, <2>3 DEF At, Slot
  <2> QED  BY <2>2, <2>3
<1>4. Placed(u)
  BY <1>2, <1>3, PlacedFrame DEF Safe
<1>5. Logs(u)
  <2>1. \A q \in Requests \ {r} : u.req[q] = s.req[q] /\ (q \in u.refused <=> q \in s.refused)
    BY <1>1, <1>2
  <2>2. u.req[r].state # "freed" /\ Logs(s)
    BY <1>1, <1>2 DEF Safe
  <2> QED  BY <1>2, <2>1, <2>2, LogsUnended
<1>6. Tallies(u, hand)
  <2>1. \A w \in Workers : AtWork(u, hand, w) = AtWork(s, hand, w)
    BY <1>2, <1>3 DEF AtWork
  <2> QED  BY <1>2, <2>1 DEF Safe, Tallies
<1> QED  BY <1>2, <1>4, <1>5, <1>6 DEF Safe

\* index_log_result and free(ctx).
LEMMA FinishSafe ==
    ASSUME NEW s, Safe(s, {}), NEW r \in Requests, NEW result \in Results,
           s.req[r].state = "live", IdleBut(s, r, {}),
           r \in s.refused <=> result = "5XX",
           NEW u, u = Finish(s, r, result)
    PROVE  /\ Safe(u, {})
           /\ u.step = s.step /\ u.response = s.response /\ u.refused = s.refused
           /\ u.req[r].state = "freed"
           /\ u.req[r].workers = s.req[r].workers /\ u.req[r].kind = s.req[r].kind
           /\ \A q \in Requests \ {r} : u.req[q] = s.req[q]
<1> DEFINE k == s.index.requests + 1
           j == [s.index EXCEPT !.requests = k]
           i == Count(j, result)
           c == [s.req[r] EXCEPT !.state = "freed"]
           f == [s.req EXCEPT ![r] = c]
<1>1. /\ s \in StateType /\ s.req \in [Requests -> Context] /\ s.req[r] \in Context
      /\ s.index \in TallyType /\ s.index.requests \in Nat
      /\ s.index.ok \in Nat /\ s.index.errors \in Nat
  BY DEF Safe, StateType, TallyType
<1>2. /\ c \in Context /\ c.state = "freed" /\ c.workers = s.req[r].workers
      /\ c.collator = s.req[r].collator /\ c.kind = s.req[r].kind
  BY <1>1 DEF Context
<1>3. /\ j \in TallyType /\ j.requests = k
      /\ j.ok = s.index.ok /\ j.errors = s.index.errors
  BY <1>1 DEF TallyType
<1>4. /\ i \in TallyType /\ i.requests = k
      /\ i.ok + i.errors = s.index.ok + s.index.errors + 1
      /\ i.errors = IF result = "5XX" THEN s.index.errors + 1 ELSE s.index.errors
  <2> HIDE DEF j
  <2> QED  BY <1>3, CountAddsOne
<1>5. u = [s EXCEPT !.index = i, !.req = f]
  <2>1. Touch(s, r) = s
    BY DEF Touch
  <2>2. u = [s EXCEPT !.index = LogEnd(s.index, result), !.req[r].state = "freed"]
    BY <2>1 DEF Finish
  <2>3. i = LogEnd(s.index, result)
    BY DEF LogEnd
  <2>4. [s EXCEPT !.index = i, !.req[r].state = "freed"] = [s EXCEPT !.index = i, !.req = f]
    <3> HIDE DEF i
    <3> QED  BY <1>1 DEF StateType
  <2> HIDE DEF i
  <2> QED  BY <2>2, <2>3, <2>4
<1> HIDE DEF i, c
<1>6. /\ f \in [Requests -> Context] /\ f[r] = c
      /\ \A q \in Requests \ {r} : f[q] = s.req[q]
  BY <1>1, <1>2
<1> HIDE DEF f
<1>7. /\ u \in StateType /\ u.req = f /\ u.index = i
      /\ u.worker = s.worker /\ u.tally = s.tally
      /\ u.response = s.response /\ u.step = s.step /\ u.refused = s.refused
  BY <1>1, <1>4, <1>5, <1>6 DEF StateType
<1>8. \A t \in Tasks : At(u, t) = At(s, t)
  <2>1. \A q \in Requests : /\ u.req[q].workers = s.req[q].workers
                            /\ u.req[q].collator = s.req[q].collator
    BY <1>2, <1>6, <1>7
  <2>2. \A t \in Tasks : t[1] \in Requests
    BY DEF Tasks
  <2> QED  BY <2>1, <2>2 DEF At, Slot
<1>9. Placed(u)
  BY <1>7, <1>8, PlacedFrame DEF Safe
<1>10. Tallies(u, {})
  <2>1. \A w \in Workers : AtWork(u, {}, w) = AtWork(s, {}, w)
    BY <1>7, <1>8 DEF AtWork
  <2> QED  BY <1>7, <2>1 DEF Safe, Tallies
<1>11. Logs(u)
  <2>1. Ended(u) = Ended(s) \cup {r} /\ r \notin Ended(s)
    BY <1>2, <1>6, <1>7 DEF Ended
  <2>2. /\ IsFiniteSet(Ended(s)) /\ IsFiniteSet(Ended(s) \cap s.refused)
        /\ Cardinality(Ended(s)) \in Nat /\ Cardinality(Ended(s) \cap s.refused) \in Nat
    <3>1. Ended(s) \in SUBSET Requests /\ Ended(s) \cap s.refused \in SUBSET Requests
      BY DEF Ended
    <3> QED  BY <3>1, ConstantFacts, FS_Subset, FS_CardinalityType
  <2>3. Cardinality(Ended(u)) = Cardinality(Ended(s)) + 1
    BY <2>1, <2>2, FS_AddElement
  <2>4. Cardinality(Ended(u) \cap u.refused)
          = IF result = "5XX" THEN Cardinality(Ended(s) \cap s.refused) + 1
                              ELSE Cardinality(Ended(s) \cap s.refused)
    <3>1. CASE result = "5XX"
      <4>1. /\ Ended(u) \cap u.refused = (Ended(s) \cap s.refused) \cup {r}
            /\ r \notin Ended(s) \cap s.refused
        BY <1>7, <2>1, <3>1
      <4> QED  BY <2>2, <3>1, <4>1, FS_AddElement
    <3>2. CASE result # "5XX"
      <4>1. Ended(u) \cap u.refused = Ended(s) \cap s.refused
        BY <1>7, <2>1, <3>2
      <4> QED  BY <3>2, <4>1
    <3> QED  BY <3>1, <3>2
  <2>5. /\ s.index.requests = Cardinality(Ended(s))
        /\ s.index.ok + s.index.errors = s.index.requests
        /\ s.index.errors = Cardinality(Ended(s) \cap s.refused)
    BY DEF Safe, Logs
  <2>6. u.index.requests = Cardinality(Ended(u))
    BY <1>4, <1>7, <2>3, <2>5
  <2>7. u.index.ok + u.index.errors = u.index.requests
    BY <1>1, <1>4, <1>7, <2>5
  <2>8. u.index.errors = Cardinality(Ended(u) \cap u.refused)
    BY <1>4, <1>7, <2>4, <2>5
  <2> QED  BY <2>6, <2>7, <2>8 DEF Logs
<1> QED  BY <1>2, <1>6, <1>7, <1>9, <1>10, <1>11 DEF Safe

\* A task that waits for nothing holds nothing on any worker.
LEMMA IdleIsNowhere ==
    ASSUME NEW s, Placed(s), NEW t \in Tasks, s.step[t] = "idle", NEW w \in Workers
    PROVE  t \notin Outstanding(s.worker[w])
BY DEF Placed, Outstanding, OnCpu

\* A refused reservation, before its continuation runs, and an accepted one.
ComputeRefusal(s, t, m) ==
    [[s EXCEPT !.worker[At(s, t)] = ReserveCompute(@, t, m)]
        EXCEPT !.refused = @ \cup {t[1]}]
ComputeWait(s, t, m, p) ==
    [[s EXCEPT !.worker[At(s, t)] = ReserveCompute(@, t, m)] EXCEPT !.step[t] = p]
DiskRefusal(s, t, m) ==
    [[s EXCEPT !.worker[At(s, t)] = ReserveDisk(@, t, m)]
        EXCEPT !.refused = @ \cup {t[1]}]
DiskWait(s, t, m) ==
    [[s EXCEPT !.worker[At(s, t)] = ReserveDisk(@, t, m)] EXCEPT !.step[t] = "disk"]

\* The history gains a refused request.
NowRefused(u, s, r) == u.refused = s.refused \cup {r}

\* worker_reserve_compute refuses: the workers are as before.
LEMMA ComputeRefusedSafe ==
    ASSUME NEW s, NEW t \in Tasks, Safe(s, {t}), s.step[t] = "idle",
           At(s, t) \in Workers, NEW m \in Nat,
           s.req[t[1]].state = "live",
           ComputeRefused(s.worker[At(s, t)], m),
           NEW u, u = ComputeRefusal(s, t, m)
    PROVE  /\ Safe(u, {t})
           /\ u.req = s.req /\ u.step = s.step /\ u.response = s.response
           /\ NowRefused(u, s, t[1])
<1> DEFINE w == At(s, t)
           f == s.refused \cup {t[1]}
<1>1. /\ s \in StateType /\ s.worker \in [Workers -> WorkerState]
      /\ WorkerInv(s.worker[w]) /\ t \notin Outstanding(s.worker[w])
      /\ t[1] \in Requests /\ t \in Jobs
  BY IdleIsNowhere, RequestsAssumption DEF Safe, StateType, Placed, Tasks
<1>2. ReserveCompute(s.worker[w], t, m) = s.worker[w]
  BY <1>1, ReserveComputeKeeps
<1>3. f \in SUBSET Requests /\ u = [s EXCEPT !.refused = f]
  <2>1. [s EXCEPT !.worker[w] = ReserveCompute(@, t, m)] = s
    BY <1>1, <1>2 DEF StateType
  <2> QED  BY <1>1, <2>1 DEF StateType, ComputeRefusal
<1> HIDE DEF f
<1>4. /\ u \in StateType /\ u.refused = f
      /\ u.worker = s.worker /\ u.tally = s.tally /\ u.index = s.index
      /\ u.req = s.req /\ u.step = s.step /\ u.response = s.response
  BY <1>1, <1>3 DEF StateType
<1>5. \A v \in Tasks : At(u, v) = At(s, v)
  BY <1>4, AtSame
<1>6. Placed(u)
  BY <1>4, <1>5, PlacedFrame DEF Safe
<1>7. Logs(u)
  <2>1. \A q \in Requests \ {t[1]} :
           u.req[q] = s.req[q] /\ (q \in u.refused <=> q \in s.refused)
    BY <1>4 DEF f
  <2>2. u.req[t[1]].state # "freed" /\ s.req[t[1]].state # "freed" /\ Logs(s)
    BY <1>4 DEF Safe
  <2> QED  BY <1>1, <1>4, <2>1, <2>2, LogsUnended
<1>8. Tallies(u, {t})
  <2>1. \A v \in Workers : AtWork(u, {t}, v) = AtWork(s, {t}, v)
    BY <1>4, <1>5 DEF AtWork
  <2> QED  BY <1>4, <2>1 DEF Safe, Tallies
<1> QED  BY <1>4, <1>6, <1>7, <1>8 DEF Safe, NowRefused, f

\* worker_reserve_compute accepts: the task in hand waits on that worker.
LEMMA ComputeAcceptedSafe ==
    ASSUME NEW s, NEW t \in Tasks, Safe(s, {t}), s.step[t] = "idle",
           At(s, t) \in Workers, NEW m \in Nat,
           NEW p \in OnCpu,
           ~ComputeRefused(s.worker[At(s, t)], m),
           NEW u, u = ComputeWait(s, t, m, p)
    PROVE  /\ Safe(u, {})
           /\ u.req = s.req /\ u.response = s.response /\ u.refused = s.refused
           /\ u.step = [s.step EXCEPT ![t] = p]
<1> DEFINE w == At(s, t)
           z == ReserveCompute(s.worker[w], t, m)
           f == [s.worker EXCEPT ![w] = z]
           g == [s.step EXCEPT ![t] = p]
<1>1. /\ s \in StateType /\ s.worker \in [Workers -> WorkerState]
      /\ s.step \in [Tasks -> Steps]
      /\ WorkerInv(s.worker[w]) /\ t \notin Outstanding(s.worker[w])
      /\ t[1] \in Requests /\ t \in Jobs
  BY IdleIsNowhere, RequestsAssumption DEF Safe, StateType, Placed, Tasks
<1>2. /\ WorkerInv(z) /\ z.io = s.worker[w].io
      /\ Running(z) \cup Waiting(z)
           = Running(s.worker[w]) \cup Waiting(s.worker[w]) \cup {t}
  BY <1>1, ReserveComputeKeeps
<1>3. u = [s EXCEPT !.worker = f, !.step = g]
  BY <1>1 DEF StateType, ComputeWait
<1> HIDE DEF z
<1>4. /\ f \in [Workers -> WorkerState] /\ f[w] = z
      /\ \A v \in Workers \ {w} : f[v] = s.worker[v]
      /\ g \in [Tasks -> Steps] /\ g[t] = p
      /\ \A v \in Tasks \ {t} : g[v] = s.step[v]
  BY <1>1, <1>2 DEF WorkerInv, WorkerOK, Steps, OnCpu
<1> HIDE DEF f, g
<1>5. /\ u \in StateType /\ u.worker = f /\ u.step = g
      /\ u.refused = s.refused /\ u.tally = s.tally /\ u.index = s.index
      /\ u.req = s.req /\ u.response = s.response
  BY <1>1, <1>3, <1>4 DEF StateType
<1>6. \A v \in Tasks : At(u, v) = At(s, v)
  <2>1. u.req = s.req
    BY <1>5
  <2> QED  BY <2>1, AtSame
<1>7. Placed(u)
  <2>1. Placed(s)
    BY DEF Safe
  <2>2. \A v \in Workers : WorkerInv(u.worker[v])
    BY <1>2, <1>4, <1>5, <2>1 DEF Placed
  <2>3. ASSUME NEW y \in Tasks, NEW v \in Workers
        PROVE  /\ y \in Running(u.worker[v]) \cup Waiting(u.worker[v])
                    <=> u.step[y] \in OnCpu /\ At(u, y) = v
               /\ y \in u.worker[v].io <=> u.step[y] = "disk" /\ At(u, y) = v
    <3>1. /\ y \in Running(s.worker[v]) \cup Waiting(s.worker[v])
               <=> s.step[y] \in OnCpu /\ At(s, y) = v
          /\ y \in s.worker[v].io <=> s.step[y] = "disk" /\ At(s, y) = v
      BY <2>1 DEF Placed
    <3>2. CASE v = w
      BY <1>2, <1>4, <1>5, <1>6, <3>1, <3>2 DEF OnCpu
    <3>3. CASE v # w
      BY <1>4, <1>5, <1>6, <3>1, <3>3
    <3> QED  BY <3>2, <3>3
  <2> QED  BY <2>2, <2>3 DEF Placed
<1>8. Logs(u)
  BY <1>5, LogsFrame DEF Safe
<1>9. Tallies(u, {})
  <2>1. \A v \in Workers : AtWork(u, {}, v) = AtWork(s, {t}, v)
    BY <1>4, <1>5, <1>6 DEF AtWork, OnCpu
  <2> QED  BY <1>5, <2>1 DEF Safe, Tallies
<1> QED  BY <1>5, <1>7, <1>8, <1>9 DEF Safe, g

\* worker_reserve_disk refuses.
LEMMA DiskRefusedSafe ==
    ASSUME NEW s, NEW t \in Tasks, Safe(s, {t}), s.step[t] = "idle",
           At(s, t) \in Workers, NEW m \in Nat,
           s.req[t[1]].state = "live",
           DiskRefused(s.worker[At(s, t)], m),
           NEW u, u = DiskRefusal(s, t, m)
    PROVE  /\ Safe(u, {t})
           /\ u.req = s.req /\ u.step = s.step /\ u.response = s.response
           /\ NowRefused(u, s, t[1])
<1> DEFINE w == At(s, t)
           f == s.refused \cup {t[1]}
<1>1. /\ s \in StateType /\ s.worker \in [Workers -> WorkerState]
      /\ t[1] \in Requests
  BY DEF Safe, StateType, Tasks
<1>2. ReserveDisk(s.worker[w], t, m) = s.worker[w]
  BY DEF ReserveDisk
<1>3. f \in SUBSET Requests /\ u = [s EXCEPT !.refused = f]
  <2>1. [s EXCEPT !.worker[w] = ReserveDisk(@, t, m)] = s
    BY <1>1, <1>2 DEF StateType
  <2> QED  BY <1>1, <2>1 DEF StateType, DiskRefusal
<1> HIDE DEF f
<1>4. /\ u \in StateType /\ u.refused = f
      /\ u.worker = s.worker /\ u.tally = s.tally /\ u.index = s.index
      /\ u.req = s.req /\ u.step = s.step /\ u.response = s.response
  BY <1>1, <1>3 DEF StateType
<1>5. \A v \in Tasks : At(u, v) = At(s, v)
  BY <1>4, AtSame
<1>6. Placed(u)
  BY <1>4, <1>5, PlacedFrame DEF Safe
<1>7. Logs(u)
  <2>1. \A q \in Requests \ {t[1]} :
           u.req[q] = s.req[q] /\ (q \in u.refused <=> q \in s.refused)
    BY <1>4 DEF f
  <2>2. u.req[t[1]].state # "freed" /\ s.req[t[1]].state # "freed" /\ Logs(s)
    BY <1>4 DEF Safe
  <2> QED  BY <1>1, <1>4, <2>1, <2>2, LogsUnended
<1>8. Tallies(u, {t})
  <2>1. \A v \in Workers : AtWork(u, {t}, v) = AtWork(s, {t}, v)
    BY <1>4, <1>5 DEF AtWork
  <2> QED  BY <1>4, <2>1 DEF Safe, Tallies
<1> QED  BY <1>4, <1>6, <1>7, <1>8 DEF Safe, NowRefused, f

\* worker_reserve_disk accepts.
LEMMA DiskAcceptedSafe ==
    ASSUME NEW s, NEW t \in Tasks, Safe(s, {t}), s.step[t] = "idle",
           At(s, t) \in Workers, NEW m \in Nat,
           ~DiskRefused(s.worker[At(s, t)], m),
           NEW u, u = DiskWait(s, t, m)
    PROVE  /\ Safe(u, {})
           /\ u.req = s.req /\ u.response = s.response /\ u.refused = s.refused
           /\ u.step = [s.step EXCEPT ![t] = "disk"]
<1> DEFINE w == At(s, t)
           z == ReserveDisk(s.worker[w], t, m)
           f == [s.worker EXCEPT ![w] = z]
           g == [s.step EXCEPT ![t] = "disk"]
<1>1. /\ s \in StateType /\ s.worker \in [Workers -> WorkerState]
      /\ s.step \in [Tasks -> Steps]
      /\ WorkerInv(s.worker[w]) /\ t \notin Outstanding(s.worker[w])
      /\ t[1] \in Requests /\ t \in Jobs
  BY IdleIsNowhere, RequestsAssumption DEF Safe, StateType, Placed, Tasks
<1>2. /\ WorkerInv(z) /\ z.io = s.worker[w].io \cup {t}
      /\ Running(z) = Running(s.worker[w]) /\ Waiting(z) = Waiting(s.worker[w])
  BY <1>1, ReserveDiskKeeps
<1>3. u = [s EXCEPT !.worker = f, !.step = g]
  BY <1>1 DEF StateType, DiskWait
<1> HIDE DEF z
<1>4. /\ f \in [Workers -> WorkerState] /\ f[w] = z
      /\ \A v \in Workers \ {w} : f[v] = s.worker[v]
      /\ g \in [Tasks -> Steps] /\ g[t] = "disk"
      /\ \A v \in Tasks \ {t} : g[v] = s.step[v]
  BY <1>1, <1>2 DEF WorkerInv, WorkerOK, Steps, OnCpu
<1> HIDE DEF f, g
<1>5. /\ u \in StateType /\ u.worker = f /\ u.step = g
      /\ u.refused = s.refused /\ u.tally = s.tally /\ u.index = s.index
      /\ u.req = s.req /\ u.response = s.response
  BY <1>1, <1>3, <1>4 DEF StateType
<1>6. \A v \in Tasks : At(u, v) = At(s, v)
  BY <1>5, AtSame
<1>7. Placed(u)
  <2>1. Placed(s)
    BY DEF Safe
  <2>2. \A v \in Workers : WorkerInv(u.worker[v])
    BY <1>2, <1>4, <1>5, <2>1 DEF Placed
  <2>3. ASSUME NEW y \in Tasks, NEW v \in Workers
        PROVE  /\ y \in Running(u.worker[v]) \cup Waiting(u.worker[v])
                    <=> u.step[y] \in OnCpu /\ At(u, y) = v
               /\ y \in u.worker[v].io <=> u.step[y] = "disk" /\ At(u, y) = v
    <3>1. /\ y \in Running(s.worker[v]) \cup Waiting(s.worker[v])
               <=> s.step[y] \in OnCpu /\ At(s, y) = v
          /\ y \in s.worker[v].io <=> s.step[y] = "disk" /\ At(s, y) = v
      BY <2>1 DEF Placed
    <3>2. CASE v = w
      BY <1>2, <1>4, <1>5, <1>6, <3>1, <3>2 DEF OnCpu
    <3>3. CASE v # w
      BY <1>4, <1>5, <1>6, <3>1, <3>3
    <3> QED  BY <3>2, <3>3
  <2> QED  BY <2>2, <2>3 DEF Placed
<1>8. Logs(u)
  BY <1>5, LogsFrame DEF Safe
<1>9. Tallies(u, {})
  <2>1. \A v \in Workers : AtWork(u, {}, v) = AtWork(s, {t}, v)
    BY <1>4, <1>5, <1>6 DEF AtWork, OnCpu
  <2> QED  BY <1>5, <2>1 DEF Safe, Tallies
<1> QED  BY <1>5, <1>7, <1>8, <1>9 DEF Safe, g

\* The reservation of task t ended, and left its worker w in state z.
Freeing(s, w, z)   == [s EXCEPT !.worker[w] = z]
Resume(s, w, z, t) == [Touch(Freeing(s, w, z), t[1]) EXCEPT !.step[t] = "idle"]

\* The end of a reservation: task t waits for nothing, and is off the worker.
LEMMA ReservationEndSafe ==
    ASSUME NEW s, Safe(s, {}), NEW t \in Tasks, NEW w \in Workers,
           At(s, t) = w, s.step[t] # "idle",
           NEW z, WorkerInv(z),
           Running(z) \cup Waiting(z) = (Running(s.worker[w]) \cup Waiting(s.worker[w])) \ {t},
           z.io = s.worker[w].io \ {t},
           NEW u, u = Resume(s, w, z, t)
    PROVE  /\ Safe(u, {t})
           /\ u.req = s.req /\ u.response = s.response /\ u.refused = s.refused
           /\ u.step = [s.step EXCEPT ![t] = "idle"]
<1> DEFINE f == [s.worker EXCEPT ![w] = z]
           g == [s.step EXCEPT ![t] = "idle"]
           x == [s EXCEPT !.worker = f]
           v == Touch(x, t[1])
<1>1. /\ s \in StateType /\ s.worker \in [Workers -> WorkerState]
      /\ s.step \in [Tasks -> Steps] /\ t[1] \in Requests
  BY DEF Safe, StateType, Tasks
<1>2. /\ f \in [Workers -> WorkerState] /\ f[w] = z
      /\ \A d \in Workers \ {w} : f[d] = s.worker[d]
      /\ g \in [Tasks -> Steps] /\ g[t] = "idle"
      /\ \A d \in Tasks \ {t} : g[d] = s.step[d]
  BY <1>1 DEF WorkerInv, WorkerOK, Steps
<1>3. u = [v EXCEPT !.step[t] = "idle"]
  BY DEF Resume, Freeing
<1> HIDE DEF f
<1>4. /\ x \in StateType /\ x.worker = f /\ x.step = s.step
      /\ x.refused = s.refused /\ x.tally = s.tally /\ x.index = s.index
      /\ x.req = s.req /\ x.response = s.response
  BY <1>1, <1>2 DEF StateType
<1> HIDE DEF x
<1>5. /\ v \in StateType /\ v.worker = f /\ v.step = s.step
      /\ v.refused = s.refused /\ v.tally = s.tally /\ v.index = s.index
      /\ v.req = s.req /\ v.response = s.response
  BY <1>1, <1>4, TouchFields DEF SameRequests
<1> HIDE DEF v
<1>6. u = [v EXCEPT !.step = g]
  BY <1>3, <1>5
<1> HIDE DEF g
<1>7. /\ u \in StateType /\ u.worker = f /\ u.step = g
      /\ u.refused = s.refused /\ u.tally = s.tally /\ u.index = s.index
      /\ u.req = s.req /\ u.response = s.response
  BY <1>2, <1>5, <1>6 DEF StateType
<1>8. \A d \in Tasks : At(u, d) = At(s, d)
  BY <1>7, AtSame
<1>9. Placed(u)
  <2>1. Placed(s)
    BY DEF Safe
  <2>2. \A d \in Workers : WorkerInv(u.worker[d])
    BY <1>2, <1>7, <2>1 DEF Placed
  <2>3. ASSUME NEW y \in Tasks, NEW d \in Workers
        PROVE  /\ y \in Running(u.worker[d]) \cup Waiting(u.worker[d])
                    <=> u.step[y] \in OnCpu /\ At(u, y) = d
               /\ y \in u.worker[d].io <=> u.step[y] = "disk" /\ At(u, y) = d
    <3>1. /\ y \in Running(s.worker[d]) \cup Waiting(s.worker[d])
               <=> s.step[y] \in OnCpu /\ At(s, y) = d
          /\ y \in s.worker[d].io <=> s.step[y] = "disk" /\ At(s, y) = d
      BY <2>1 DEF Placed
    <3>2. CASE d = w
      BY <1>2, <1>7, <1>8, <3>1, <3>2 DEF OnCpu
    <3>3. CASE d # w
      BY <1>2, <1>7, <1>8, <3>1, <3>3
    <3> QED  BY <3>2, <3>3
  <2> QED  BY <2>2, <2>3 DEF Placed
<1>10. Logs(u)
  BY <1>7, LogsFrame DEF Safe
<1>11. Tallies(u, {t})
  <2>1. \A d \in Workers : AtWork(u, {t}, d) = AtWork(s, {}, d)
    BY <1>2, <1>7, <1>8 DEF AtWork
  <2> QED  BY <1>7, <2>1 DEF Safe, Tallies
<1> QED  BY <1>7, <1>9, <1>10, <1>11 DEF Safe, g

\* Collation is logged neither way, so its task owes nothing.
LEMMA CollationOwesNothing ==
    ASSUME NEW s, NEW t, t[2] = 0
    PROVE  Safe(s, {t}) <=> Safe(s, {})
<1>1. \A w \in Workers : AtWork(s, {t}, w) = AtWork(s, {}, w)
  BY DEF AtWork
<1> QED  BY <1>1 DEF Safe, Tallies

-----------------------------------------------------------------------------
(* What each step does to the request it is for.                           *)

\* No other request differs.
Elsewhere(u, s, r) ==
    \A q \in Requests \ {r} :
        /\ u.req[q] = s.req[q]
        /\ q \in u.refused <=> q \in s.refused
        /\ \A i \in 0..Width : /\ u.step[<<q, i>>] = s.step[<<q, i>>]
                               /\ u.response[<<q, i>>] = s.response[<<q, i>>]

\* Nor does request r differ in its kind or in the workers chosen for it.
Confined(u, s, r) ==
    /\ u.req[r].kind = s.req[r].kind /\ u.req[r].workers = s.req[r].workers
    /\ \A q \in Requests \ {r} :
        /\ u.req[q] = s.req[q]
        /\ q \in u.refused <=> q \in s.refused
        /\ \A i \in 0..Width : /\ u.step[<<q, i>>] = s.step[<<q, i>>]
                               /\ u.response[<<q, i>>] = s.response[<<q, i>>]

LEMMA ConfinedTrans ==
    ASSUME NEW r, NEW s, NEW u, NEW v, Confined(u, s, r), Confined(v, u, r)
    PROVE  Confined(v, s, r)
BY DEF Confined

LEMMA ConfinedSame ==
    ASSUME NEW r, NEW s, NEW u, SameRequests(u, s)
    PROVE  Confined(u, s, r)
BY DEF Confined, SameRequests

LEMMA ConfinedStep ==
    ASSUME NEW s \in StateType, NEW r \in Requests, NEW i \in 0..Width, NEW p,
           NEW u, u.step = [s.step EXCEPT ![<<r, i>>] = p],
           u.req = s.req, u.response = s.response, u.refused = s.refused
    PROVE  Confined(u, s, r)
<1>1. s.step \in [Tasks -> Steps]
  BY DEF StateType
<1>2. ASSUME NEW q \in Requests \ {r}, NEW k \in 0..Width
      PROVE  u.step[<<q, k>>] = s.step[<<q, k>>]
  <2>1. <<q, k>> \in Tasks /\ <<q, k>> # <<r, i>>
    BY DEF Tasks
  <2> QED  BY <1>1, <2>1
<1> QED  BY <1>2 DEF Confined

LEMMA ConfinedResponse ==
    ASSUME NEW s \in StateType, NEW r \in Requests, NEW i \in 0..Width,
           NEW u, \A t \in Tasks \ {<<r, i>>} : u.response[t] = s.response[t],
           u.req = s.req, u.step = s.step, u.refused = s.refused
    PROVE  Confined(u, s, r)
<1>1. ASSUME NEW q \in Requests \ {r}, NEW k \in 0..Width
      PROVE  u.response[<<q, k>>] = s.response[<<q, k>>]
  <2>1. <<q, k>> \in Tasks /\ <<q, k>> # <<r, i>>
    BY DEF Tasks
  <2> QED  BY <2>1
<1> QED  BY <1>1 DEF Confined

LEMMA ConfinedRefused ==
    ASSUME NEW s, NEW r,
           NEW u, u.refused = s.refused \cup {r},
           u.req = s.req, u.step = s.step, u.response = s.response
    PROVE  Confined(u, s, r)
BY DEF Confined

LEMMA ConfinedRequest ==
    ASSUME NEW s, NEW r,
           NEW u, \A q \in Requests \ {r} : u.req[q] = s.req[q],
           u.req[r].kind = s.req[r].kind, u.req[r].workers = s.req[r].workers,
           u.refused = s.refused, u.step = s.step, u.response = s.response
    PROVE  Confined(u, s, r)
BY DEF Confined

\* What is said of one request depends on that request alone.
LEMMA ReadyElsewhere ==
    ASSUME NEW s, NEW u, NEW r, Elsewhere(u, s, r), NEW q \in Requests \ {r}, Ready(s, q)
    PROVE  Ready(u, q)
<1>1. /\ u.req[q] = s.req[q] /\ (q \in u.refused <=> q \in s.refused)
      /\ \A i \in 0..Width : St(u, q, i) = St(s, q, i) /\ Rs(u, q, i) = Rs(s, q, i)
  BY DEF Elsewhere, St, Rs
<1>2. /\ Fanout(u, q) = Fanout(s, q) /\ First(u, q) = First(s, q)
      /\ Alive(u, q) <=> Alive(s, q)
  BY <1>1 DEF Fanout, First, Alive
<1>3. IsNew(s, q) => IsNew(u, q)
  BY <1>1 DEF IsNew, IdleBut
<1>4. IsFreed(s, q) => IsFreed(u, q)
  BY <1>1 DEF IsFreed, IdleBut
<1>5. ASSUME Alive(s, q)
      PROVE  /\ Fanout(s, q) \in Nat /\ 1 \in 0..Width /\ 0 \in 0..Width
             /\ First(s, q) \in {1, 2}
             /\ \A i \in 1..Fanout(s, q) : i \in 0..Width
             /\ \A i \in First(s, q)..Fanout(s, q) : i \in 0..Width
  <2>1. Fanout(s, q) \in 1..Width /\ Width \in Nat \ {0} /\ First(s, q) \in {1, 2}
    BY <1>5, ConstantFacts DEF Alive, First
  <2> QED  BY <2>1
<1>6. GetWaits(s, q) => GetWaits(u, q)
  BY <1>1, <1>2, <1>5 DEF GetWaits, IdleBut
<1>7. PrimaryWaits(s, q) => PrimaryWaits(u, q)
  BY <1>1, <1>2, <1>5 DEF PrimaryWaits, IdleBut
<1>8. Collating(s, q) => Collating(u, q)
  BY <1>1, <1>2, <1>5 DEF Collating, IdleBut
<1>9. ASSUME Gathering(s, q, Fanout(s, q), {}, "4XX")
      PROVE  Gathering(u, q, Fanout(u, q), {}, "4XX")
  <2> DEFINE n == Fanout(s, q)
  <2>1. Alive(s, q)
    BY <1>9 DEF Gathering
  <2>2. Answered(u, q, n, {}) = Answered(s, q, n, {})
    BY <1>1, <1>2, <1>5, <2>1 DEF Answered
  <2>3. \A k \in Answered(s, q, n, {}) : k \in 0..Width
    BY <1>5, <2>1 DEF Answered
  <2>4. IdleBut(u, q, First(s, q)..n)
    BY <1>1, <1>9 DEF Gathering, IdleBut
  <2>5. Rs(u, q, 1) = Rs(s, q, 1)
    BY <1>1, <1>5, <2>1
  <2>6. \A k \in First(s, q)..n : Rs(u, q, k) = Rs(s, q, k) /\ St(u, q, k) = St(s, q, k)
    BY <1>1, <1>5, <2>1
  <2> QED  BY <1>1, <1>2, <1>9, <2>1, <2>2, <2>3, <2>4, <2>5, <2>6 DEF Gathering
<1> QED  BY <1>3, <1>4, <1>6, <1>7, <1>8, <1>9 DEF Ready

\* A branch of a live request runs on the worker chosen for it.
LEMMA BranchFacts ==
    ASSUME NEW s \in StateType, NEW r \in Requests, Alive(s, r)
    PROVE  /\ Fanout(s, r) \in Nat \ {0} /\ First(s, r) \in {1, 2}
           /\ 0 \in 0..Width /\ 1 \in 1..Fanout(s, r)
           /\ s.req[r] \in Context /\ s.req[r].workers \in Seq(Workers)
           /\ s.req[r].mem \in Nat /\ s.req[r].mem_response \in Nat
           /\ \A k \in 1..Fanout(s, r) :
                /\ k \in 0..Width /\ k # 0 /\ <<r, k>> \in Tasks
                /\ At(s, <<r, k>>) = s.req[r].workers[k]
                /\ At(s, <<r, k>>) \in Workers
<1>1. /\ s.req[r] \in Context /\ s.req[r].workers \in Seq(Workers)
      /\ Fanout(s, r) = Len(s.req[r].workers)
      /\ Width \in Nat \ {0} /\ Fanout(s, r) \in 1..Width
  BY ConstantFacts DEF StateType, Context, Alive, Fanout
<1>2. First(s, r) \in {1, 2}
  BY DEF First
<1>3. ASSUME NEW k \in 1..Fanout(s, r)
      PROVE  /\ k \in 0..Width /\ k # 0 /\ <<r, k>> \in Tasks
             /\ At(s, <<r, k>>) = s.req[r].workers[k]
             /\ At(s, <<r, k>>) \in Workers
  <2>1. k \in 0..Width /\ k # 0
    BY <1>1
  <2>2. <<r, k>> \in Tasks
    BY <2>1 DEF Tasks
  <2>3. At(s, <<r, k>>) = s.req[r].workers[k]
    BY <2>1 DEF At, Slot
  <2>4. s.req[r].workers[k] \in Workers
    BY <1>1, ElementOfSeq
  <2> QED  BY <2>1, <2>2, <2>3, <2>4
<1>4. s.req[r].mem \in Nat /\ s.req[r].mem_response \in Nat
  <2>1. s.req[r].mem \in Sizes \cup {0} /\ s.req[r].mem_response \in Sizes \cup {0}
    BY <1>1 DEF Context
  <2>2. Sizes \cup {0} \subseteq Nat
    BY ConstantFacts
  <2> QED  BY <2>1, <2>2
<1> QED  BY <1>1, <1>2, <1>3, <1>4

\* Remembering an error.
LEMMA NoteSafe ==
    ASSUME NEW s, NEW hand, Safe(s, hand), NEW r \in Requests, NEW k \in 0..Width,
           NEW result \in Results, NEW u, u = Note(s, <<r, k>>, result)
    PROVE  /\ Safe(u, hand) /\ Confined(u, s, r)
           /\ u.req = s.req /\ u.step = s.step /\ u.refused = s.refused
           /\ \A t \in Tasks \ {<<r, k>>} : u.response[t] = s.response[t]
           /\ Rs(u, r, k) = IF result = "5XX" THEN "5XX" ELSE Rs(s, r, k)
<1> DEFINE t == <<r, k>>
<1>1. t \in Tasks /\ s \in StateType /\ s.response \in [Tasks -> Results]
  BY DEF Tasks, Safe, StateType
<1>2. CASE result = "5XX"
  <2>1. u = Respond(s, t, "5XX") /\ "5XX" \in Results
    BY <1>2 DEF Note, Results, Respond
  <2>2. /\ Safe(u, hand)
        /\ u.req = s.req /\ u.step = s.step /\ u.refused = s.refused
        /\ u.response = [s.response EXCEPT ![t] = "5XX"]
    <3> HIDE DEF t
    <3> QED  BY <1>1, <2>1, RespondSafe
  <2>3. /\ \A x \in Tasks \ {t} : u.response[x] = s.response[x]
        /\ u.response[t] = "5XX"
    BY <1>1, <2>2
  <2>4. Confined(u, s, r)
    BY <1>1, <2>2, <2>3, ConfinedResponse
  <2> QED  BY <1>2, <2>2, <2>3, <2>4 DEF Rs
<1>3. CASE result # "5XX"
  <2>1. u = s
    BY <1>3 DEF Note
  <2> QED  BY <1>3, <2>1, ConfinedSame DEF SameRequests
<1> QED  BY <1>2, <1>3

\* The same branches are spoken of as long as the kind and the workers stay.
LEMMA SameShape ==
    ASSUME NEW s, NEW u, NEW r, u.req[r].kind = s.req[r].kind,
           u.req[r].workers = s.req[r].workers
    PROVE  /\ First(u, r) = First(s, r) /\ Fanout(u, r) = Fanout(s, r)
           /\ u.req[r].state = s.req[r].state => (Alive(u, r) <=> Alive(s, r))
BY DEF First, Fanout, Alive

\* The branch in hand remembers its error.
LEMMA GatherNoted ==
    ASSUME NEW s \in StateType, NEW r \in Requests, NEW up, NEW k \in 0..Width,
           NEW result \in Results, Gathering(s, r, up, {k}, result),
           NEW u, u.req = s.req, u.step = s.step, u.refused = s.refused,
           \A t \in Tasks \ {<<r, k>>} : u.response[t] = s.response[t],
           Rs(u, r, k) = IF result = "5XX" THEN "5XX" ELSE Rs(s, r, k)
    PROVE  Gathering(u, r, up, {k}, "4XX")
<1> DEFINE lo == First(s, r)
           D == Answered(s, r, up, {k})
<1>1. /\ First(u, r) = lo /\ Fanout(u, r) = Fanout(s, r)
      /\ Alive(s, r) /\ Alive(u, r) /\ up \in (lo - 1)..Fanout(s, r)
  BY SameShape DEF Gathering
<1>2. /\ Fanout(s, r) \in Nat \ {0} /\ lo \in {1, 2} /\ 1 \in 0..Width
      /\ \A i \in 1..Fanout(s, r) : i \in 0..Width /\ <<r, i>> \in Tasks
  BY <1>1, BranchFacts
<1>3. \A i \in 1..Fanout(s, r) : i # k => Rs(u, r, i) = Rs(s, r, i)
  BY <1>2 DEF Rs
<1>4. \A i : St(u, r, i) = St(s, r, i)
  BY DEF St
<1>5. Answered(u, r, up, {k}) = D
  BY <1>1, <1>4 DEF Answered
<1>6. \A i \in lo..up : i \in 1..Fanout(s, r)
  BY <1>1, <1>2
<1>7. k \in lo..up /\ (s.req[r].kind = "PUT" => k # 1)
  BY <1>1, <1>2 DEF Gathering, First
<1>8. \A i \in D : i \in lo..up /\ i # k
  BY DEF Answered
<1>9. (\E i \in D : Rs(u, r, i) = "5XX") <=> (\E i \in D : Rs(s, r, i) = "5XX")
  BY <1>3, <1>6, <1>8
<1>10. r \in u.refused <=> \E i \in lo..up : Rs(u, r, i) = "5XX"
  <2>1. r \in s.refused <=> result = "5XX" \/ \E i \in lo..up : Rs(s, r, i) = "5XX"
    BY DEF Gathering
  <2>2. CASE result = "5XX"
    BY <1>7, <2>1, <2>2
  <2>3. CASE result # "5XX"
    <3>1. \A i \in lo..up : Rs(u, r, i) = Rs(s, r, i)
      BY <1>3, <1>6, <2>3
    <3> QED  BY <2>1, <2>3, <3>1
  <2> QED  BY <2>2, <2>3
<1>11. s.req[r].kind = "PUT" => Rs(u, r, 1) = "4XX"
  BY <1>2, <1>3, <1>7 DEF Gathering
<1>12. IdleBut(u, r, lo..up)
  BY <1>4 DEF Gathering, IdleBut
<1> HIDE DEF lo, D
<1> QED  BY <1>1, <1>4, <1>5, <1>9, <1>10, <1>11, <1>12 DEF Gathering, lo, D

\* A reservation for the branch in hand is refused.
LEMMA GatherRefused ==
    ASSUME NEW s, NEW r, NEW up, NEW k, NEW result,
           Gathering(s, r, up, {k}, result),
           NEW u, u.req = s.req, u.step = s.step, u.response = s.response,
           u.refused = s.refused \cup {r}
    PROVE  Gathering(u, r, up, {k}, "5XX")
<1>1. /\ First(u, r) = First(s, r) /\ Fanout(u, r) = Fanout(s, r)
      /\ Alive(u, r) <=> Alive(s, r)
  BY SameShape
<1>2. \A i : St(u, r, i) = St(s, r, i) /\ Rs(u, r, i) = Rs(s, r, i)
  BY DEF St, Rs
<1>3. Answered(u, r, up, {k}) = Answered(s, r, up, {k})
  BY <1>1, <1>2 DEF Answered
<1>4. IdleBut(u, r, First(s, r)..up) <=> IdleBut(s, r, First(s, r)..up)
  BY <1>2 DEF IdleBut
<1> QED  BY <1>1, <1>2, <1>3, <1>4 DEF Gathering

\* The branch in hand waits again.
LEMMA GatherWaits ==
    ASSUME NEW s \in StateType, NEW r \in Requests, NEW up, NEW k,
           Gathering(s, r, up, {k}, "4XX"),
           NEW p \in {"compute", "disk"} \cup
                     (IF s.req[r].kind = "PUT" THEN {} ELSE {"response"}),
           NEW u, u.req = s.req, u.response = s.response, u.refused = s.refused,
           u.step = [s.step EXCEPT ![<<r, k>>] = p]
    PROVE  Gathering(u, r, up, {}, "4XX")
<1> DEFINE lo == First(s, r)
<1>1. /\ First(u, r) = lo /\ Fanout(u, r) = Fanout(s, r)
      /\ Alive(s, r) /\ Alive(u, r) /\ up \in (lo - 1)..Fanout(s, r)
      /\ k \in lo..up
  BY SameShape DEF Gathering
<1>2. /\ Fanout(s, r) \in Nat \ {0} /\ lo \in {1, 2}
      /\ \A i \in 1..Fanout(s, r) : i \in 0..Width /\ <<r, i>> \in Tasks
  BY <1>1, BranchFacts
<1>3. \A i : Rs(u, r, i) = Rs(s, r, i)
  BY DEF Rs
<1>4. <<r, k>> \in Tasks /\ s.step \in [Tasks -> Steps] /\ p # "idle"
  BY <1>1, <1>2 DEF StateType
<1>5. St(u, r, k) = p /\ \A i \in 0..Width : i # k => St(u, r, i) = St(s, r, i)
  <2>1. \A i \in 0..Width : <<r, i>> \in Tasks
    BY DEF Tasks
  <2> QED  BY <1>4, <2>1 DEF St
<1>6. \A i \in lo..up : i \in 0..Width
  <2>1. \A i \in lo..up : i \in 1..Fanout(s, r)
    BY <1>1, <1>2
  <2> QED  BY <1>2, <2>1
<1>7. Answered(u, r, up, {}) = Answered(s, r, up, {k})
  BY <1>1, <1>4, <1>5, <1>6 DEF Answered
<1>8. IdleBut(u, r, lo..up)
  BY <1>1, <1>5 DEF Gathering, IdleBut
<1>9. \A i \in lo..up :
         St(u, r, i) \in {"idle", "compute", "disk"} \cup
                         (IF s.req[r].kind = "PUT" THEN {} ELSE {"response"})
  BY <1>5, <1>6 DEF Gathering
<1>10. /\ u.req[r].done = Cardinality(Answered(u, r, up, {}))
       /\ u.req[r].done < Fanout(u, r) - First(u, r) + 1
  BY <1>1, <1>7 DEF Gathering
<1>11. u.req[r].worst = "5XX" <=> \E i \in Answered(u, r, up, {}) : Rs(u, r, i) = "5XX"
  BY <1>3, <1>7 DEF Gathering
<1>12. r \in u.refused <=> \E i \in lo..up : Rs(u, r, i) = "5XX"
  BY <1>3 DEF Gathering
<1>13. /\ u.req[r].kind \in {"PUT", "SEARCH"}
       /\ u.req[r].kind = "PUT" => Rs(u, r, 1) = "4XX"
  BY <1>3 DEF Gathering
<1> HIDE DEF lo
<1> QED  BY <1>1, <1>8, <1>9, <1>10, <1>11, <1>12, <1>13 DEF Gathering

\* The next branch is started.
LEMMA GatherLaunched ==
    ASSUME NEW s \in StateType, NEW r \in Requests, NEW k,
           Gathering(s, r, k - 1, {}, "4XX"), k \in First(s, r)..Fanout(s, r),
           NEW u, u.req = s.req, u.step = s.step, u.refused = s.refused,
           u.response = [s.response EXCEPT ![<<r, k>>] = "4XX"]
    PROVE  Gathering(u, r, k, {k}, "4XX")
<1> DEFINE lo == First(s, r)
           D == Answered(s, r, k - 1, {})
<1>1. /\ First(u, r) = lo /\ Fanout(u, r) = Fanout(s, r)
      /\ Alive(s, r) /\ Alive(u, r)
  BY SameShape DEF Gathering
<1>2. /\ Fanout(s, r) \in Nat \ {0} /\ lo \in {1, 2} /\ 1 \in 0..Width /\ k \in Nat
      /\ 1 \in 1..Fanout(s, r)
      /\ \A i \in 1..Fanout(s, r) : i \in 0..Width /\ <<r, i>> \in Tasks
  <2>1. /\ Fanout(s, r) \in Nat \ {0} /\ lo \in {1, 2}
        /\ 1 \in 1..Fanout(s, r)
        /\ \A i \in 1..Fanout(s, r) : i \in 0..Width /\ <<r, i>> \in Tasks
    BY <1>1, BranchFacts
  <2>2. k \in lo..Fanout(s, r)
    OBVIOUS
  <2> HIDE DEF lo
  <2>3. k \in Nat
    BY <2>1, <2>2
  <2>4. 1 \in 0..Width
    BY <2>1
  <2> QED  BY <2>1, <2>3, <2>4
<1>3. \A i : St(u, r, i) = St(s, r, i)
  BY DEF St
<1>4. k \in 1..Fanout(s, r) /\ <<r, k>> \in Tasks /\ s.response \in [Tasks -> Results]
  BY <1>1, <1>2 DEF StateType
<1>5. Rs(u, r, k) = "4XX" /\ \A i \in 1..Fanout(s, r) : i # k => Rs(u, r, i) = Rs(s, r, i)
  BY <1>2, <1>4 DEF Rs
<1>6. \A i : i \in lo..k <=> i \in lo..(k - 1) \/ i = k
  BY <1>2, <1>4
<1>7. St(s, r, k) = "idle"
  <2>1. k \in (0..Width) \ (lo..(k - 1))
    BY <1>2, <1>4
  <2> QED  BY <2>1 DEF Gathering, IdleBut
<1>8. Answered(u, r, k, {k}) = D
  BY <1>1, <1>2, <1>3, <1>6 DEF Answered
<1>9. \A i \in lo..(k - 1) : i \in 1..Fanout(s, r) /\ i # k
  BY <1>2, <1>4
<1>10. \A i \in D : Rs(u, r, i) = Rs(s, r, i)
  BY <1>5, <1>9 DEF Answered
<1>11. r \in u.refused <=> \E i \in lo..k : Rs(u, r, i) = "5XX"
  BY <1>5, <1>6, <1>9 DEF Gathering
<1>12. s.req[r].kind = "PUT" => Rs(u, r, 1) = "4XX"
  BY <1>2, <1>5 DEF Gathering
<1>13. IdleBut(u, r, lo..k)
  BY <1>3, <1>6 DEF Gathering, IdleBut
<1>14. \A i \in lo..k :
          St(u, r, i) \in {"idle", "compute", "disk"} \cup
                          (IF s.req[r].kind = "PUT" THEN {} ELSE {"response"})
  BY <1>3, <1>6, <1>7 DEF Gathering
<1>15. k \in lo..k /\ k \in (lo - 1)..Fanout(s, r)
  BY <1>2, <1>4
<1> HIDE DEF lo, D
<1> QED  BY <1>1, <1>3, <1>7, <1>8, <1>10, <1>11, <1>12, <1>13, <1>14, <1>15
         DEF Gathering, lo, D

\* The event of a waiting branch takes it in hand.
LEMMA GatherResumed ==
    ASSUME NEW s \in StateType, NEW r \in Requests, NEW k \in 0..Width,
           Gathering(s, r, Fanout(s, r), {}, "4XX"), St(s, r, k) # "idle",
           NEW u, u.req = s.req, u.response = s.response, u.refused = s.refused,
           u.step = [s.step EXCEPT ![<<r, k>>] = "idle"]
    PROVE  /\ Gathering(u, r, Fanout(u, r), {k}, "4XX")
           /\ k \in First(s, r)..Fanout(s, r) /\ k \in 1..Fanout(s, r)
<1> DEFINE lo == First(s, r)
           n == Fanout(s, r)
<1>1. First(u, r) = lo /\ Fanout(u, r) = n /\ Alive(s, r) /\ Alive(u, r)
  BY SameShape DEF Gathering
<1>2. /\ n \in Nat \ {0} /\ lo \in {1, 2}
      /\ \A i \in 1..n : i \in 0..Width /\ <<r, i>> \in Tasks
  BY <1>1, BranchFacts
<1>3. \A i : Rs(u, r, i) = Rs(s, r, i)
  BY DEF Rs
<1>4. k \in lo..n /\ k \in 1..n
  <2>1. k \in lo..n
    BY DEF Gathering, IdleBut
  <2> QED  BY <1>2, <2>1
<1>5. St(u, r, k) = "idle" /\ \A i \in 0..Width : i # k => St(u, r, i) = St(s, r, i)
  <2>1. /\ s.step \in [Tasks -> Steps] /\ <<r, k>> \in Tasks
        /\ \A i \in 0..Width : <<r, i>> \in Tasks
    BY DEF Tasks, StateType
  <2> QED  BY <2>1 DEF St
<1>6. \A i \in lo..n : i \in 0..Width
  <2>1. \A i \in lo..n : i \in 1..n
    BY <1>2
  <2> QED  BY <1>2, <2>1
<1>7. Answered(u, r, n, {k}) = Answered(s, r, n, {})
  BY <1>1, <1>5, <1>6 DEF Answered
<1>8. IdleBut(u, r, lo..n)
  BY <1>1, <1>5 DEF Gathering, IdleBut
<1>9. \A i \in lo..n :
         St(u, r, i) \in {"idle", "compute", "disk"} \cup
                         (IF s.req[r].kind = "PUT" THEN {} ELSE {"response"})
  BY <1>5, <1>6 DEF Gathering
<1>10. /\ u.req[r].done = Cardinality(Answered(u, r, n, {k}))
       /\ u.req[r].done < n - lo + 1
  BY <1>7 DEF Gathering
<1>11. u.req[r].worst = "5XX" <=> \E i \in Answered(u, r, n, {k}) : Rs(u, r, i) = "5XX"
  BY <1>3, <1>7 DEF Gathering
<1>12. r \in u.refused <=> \E i \in lo..n : Rs(u, r, i) = "5XX"
  BY <1>3 DEF Gathering
<1>13. /\ u.req[r].kind \in {"PUT", "SEARCH"}
       /\ u.req[r].kind = "PUT" => Rs(u, r, 1) = "4XX"
  BY <1>3 DEF Gathering
<1>14. n \in (lo - 1)..n
  BY <1>2
<1> HIDE DEF lo, n
<1>15. Gathering(u, r, n, {k}, "4XX")
  BY <1>1, <1>4, <1>5, <1>8, <1>9, <1>10, <1>11, <1>12, <1>13, <1>14 DEF Gathering
<1> QED  BY <1>1, <1>4, <1>15 DEF lo, n

\* All branches have answered; the worst answer tells whether any was refused.
AllAnswered(s, r) ==
    /\ Alive(s, r) /\ s.req[r].kind \in {"PUT", "SEARCH"}
    /\ IdleBut(s, r, {})
    /\ s.req[r].worst = "5XX" <=> r \in s.refused
    /\ s.req[r].worst = "5XX"
         <=> \E k \in First(s, r)..Fanout(s, r) : Rs(s, r, k) = "5XX"

\* A branch answered: the others are awaited, or it was the last of all.
Answers(u, s, r, up) ==
    /\ Safe(u, {}) /\ Confined(u, s, r)
    /\ u.step = s.step /\ u.response = s.response /\ u.refused = s.refused
    /\ u.req[r].done \in Nat
    /\ u.req[r].done < Fanout(u, r) - First(u, r) + 1 => Gathering(u, r, up, {}, "4XX")
    /\ ~(u.req[r].done < Fanout(u, r) - First(u, r) + 1) =>
         /\ u.req[r].done = Fanout(u, r) - First(u, r) + 1
         /\ up = Fanout(u, r) /\ AllAnswered(u, r)

\* The branch in hand answers, perhaps the last.
LEMMA GatherAnswered ==
    ASSUME NEW s, Safe(s, {}), NEW r \in Requests, NEW up, NEW k \in 0..Width,
           Gathering(s, r, up, {k}, "4XX"),
           NEW u, u = Gather(s, r, Rs(s, r, k))
    PROVE  Answers(u, s, r, up)
<1> DEFINE lo == First(s, r)
           n == Fanout(s, r)
           D == Answered(s, r, up, {k})
           E == Answered(s, r, up, {})
           x == Rs(s, r, k)
           y == IF x = "5XX" THEN "5XX" ELSE s.req[r].worst
           d == s.req[r].done + 1
           c == [s.req[r] EXCEPT !.worst = y, !.done = d]
           f == [s.req EXCEPT ![r] = c]
<1>1. s \in StateType /\ Alive(s, r) /\ up \in (lo - 1)..n /\ k \in lo..up
      /\ St(s, r, k) = "idle" /\ s.req[r].done < n - lo + 1
  BY DEF Safe, Gathering
<1>2. /\ n \in Nat \ {0} /\ lo \in {1, 2} /\ n <= Width /\ s.req[r] \in Context
      /\ \A i \in 1..n : i \in 0..Width /\ <<r, i>> \in Tasks
  BY <1>1, BranchFacts DEF Alive
<1>3. k \in 1..n /\ <<r, k>> \in Tasks /\ x \in Results /\ lo \in Nat /\ up \in Nat
  <2>1. lo \in Nat
    BY <1>2
  <2>2. k \in 1..n /\ up \in Nat
    BY <1>1, <1>2, <2>1
  <2>3. <<r, k>> \in Tasks
    BY <1>2, <2>2
  <2> QED  BY <1>1, <2>1, <2>2, <2>3 DEF StateType, Rs
<1>4. /\ s.req[r].done \in Nat /\ d \in 0..Width /\ y \in Results
  <2>1. s.req[r].done \in 0..Width /\ s.req[r].worst \in Results
    BY <1>2 DEF Context
  <2>2. s.req[r].done < Width /\ Width \in Nat
    <3>1. Width \in Nat
      BY ConstantFacts
    <3> HIDE DEF lo, n
    <3> QED  BY <1>1, <1>2, <1>3, <2>1, <3>1
  <2> QED  BY <1>3, <2>1, <2>2
<1>5. /\ c \in Context /\ c.done = d /\ c.worst = y
      /\ c.kind = s.req[r].kind /\ c.workers = s.req[r].workers
      /\ c.state = s.req[r].state /\ c.collator = s.req[r].collator
  BY <1>2, <1>4 DEF Context
<1>6. u = [s EXCEPT !.req = f]
  BY <1>1, <1>2 DEF Gather, StateType, Context
<1> HIDE DEF c
<1>7. /\ Safe(u, {})
      /\ u.step = s.step /\ u.response = s.response /\ u.refused = s.refused
      /\ u.req = f
  <2>1. s.req[r].state = "live"
    BY <1>1 DEF Alive
  <2>2. s.req[r].state # "freed" /\ c.state # "freed"
    BY <1>5, <2>1
  <2>3. u.req[r] = c
    BY <1>1, <1>6 DEF StateType
  <2>4. \A i \in 0..Width : At(u, <<r, i>>) = At(s, <<r, i>>)
    BY <1>5, <2>3 DEF At, Slot
  <2>5. Unmoved(u, s, {}, r)
    BY <2>4 DEF Unmoved
  <2>6. f = [s.req EXCEPT ![r] = c]
    OBVIOUS
  <2> HIDE DEF f
  <2> QED  BY <1>5, <1>6, <2>2, <2>5, <2>6, RequestSafe
<1>8. u.req[r] = c /\ \A q \in Requests \ {r} : u.req[q] = s.req[q]
  BY <1>1, <1>7 DEF StateType
<1>9. Confined(u, s, r)
  BY <1>5, <1>7, <1>8, ConfinedRequest
<1>10. First(u, r) = lo /\ Fanout(u, r) = n /\ Alive(u, r)
  BY <1>1, <1>5, <1>8, SameShape
<1>11. \A i : St(u, r, i) = St(s, r, i) /\ Rs(u, r, i) = Rs(s, r, i)
  BY <1>7 DEF St, Rs
<1>12. E = D \cup {k} /\ k \notin D /\ Answered(u, r, up, {}) = E
  BY <1>1, <1>10, <1>11 DEF Answered
<1>13. E \subseteq lo..up /\ IsFiniteSet(lo..up) /\ Cardinality(lo..up) = up - lo + 1
  <2>1. E \subseteq lo..up
    BY DEF Answered
  <2> HIDE DEF lo, n, E
  <2>2. lo > up => up - lo + 1 = 0
    BY <1>1, <1>2, <1>3
  <2>3. lo \in Int /\ up \in Int
    BY <1>3
  <2>4. IsFiniteSet(lo..up) /\ Cardinality(lo..up) = IF lo > up THEN 0 ELSE up - lo + 1
    BY <2>3, FS_Interval
  <2> QED  BY <2>1, <2>2, <2>4
<1>14. IsFiniteSet(D) /\ IsFiniteSet(E) /\ Cardinality(E) = Cardinality(D) + 1
  <2>1. D \subseteq lo..up
    BY <1>12, <1>13
  <2>2. IsFiniteSet(D)
    BY <1>13, <2>1, FS_Subset
  <2> QED  BY <1>12, <2>2, FS_AddElement
<1>15. u.req[r].done = Cardinality(E) /\ u.req[r].done \in Nat
  BY <1>4, <1>5, <1>8, <1>14 DEF Gathering
<1>16. u.req[r].worst = "5XX" <=> \E i \in E : Rs(u, r, i) = "5XX"
  <2>1. u.req[r].worst = y
    BY <1>5, <1>8
  <2>2. s.req[r].worst = "5XX" <=> \E i \in D : Rs(s, r, i) = "5XX"
    BY DEF Gathering
  <2> QED  BY <1>11, <1>12, <2>1, <2>2
<1>17. r \in u.refused <=> \E i \in lo..up : Rs(u, r, i) = "5XX"
  BY <1>7, <1>11 DEF Gathering
<1>18. u.req[r].kind = s.req[r].kind /\ u.req[r].kind \in {"PUT", "SEARCH"}
  BY <1>5, <1>8 DEF Gathering
<1>19. ASSUME u.req[r].done < n - lo + 1
       PROVE  Gathering(u, r, up, {}, "4XX")
  <2>1. IdleBut(u, r, lo..up)
    BY <1>11 DEF Gathering, IdleBut
  <2>2. \A i \in lo..up :
          St(u, r, i) \in {"idle", "compute", "disk"} \cup
                          (IF u.req[r].kind = "PUT" THEN {} ELSE {"response"})
    BY <1>11, <1>18 DEF Gathering
  <2>3. u.req[r].kind = "PUT" => Rs(u, r, 1) = "4XX"
    BY <1>11, <1>18 DEF Gathering
  <2> HIDE DEF lo, n, E
  <2> QED  BY <1>1, <1>10, <1>12, <1>15, <1>16, <1>17, <1>18, <1>19, <2>1, <2>2, <2>3
           DEF Gathering
<1>20. ASSUME ~(u.req[r].done < n - lo + 1)
       PROVE  /\ u.req[r].done = n - lo + 1
              /\ up = n /\ AllAnswered(u, r)
  <2>1. Cardinality(E) <= up - lo + 1
    BY <1>13, FS_Subset
  <2>2. up = n /\ u.req[r].done = n - lo + 1
    BY <1>1, <1>2, <1>3, <1>15, <1>20, <2>1
  <2>3. E = lo..n
    BY <1>13, <1>15, <2>2, FS_Subset
  <2>4. \A i \in lo..n : St(u, r, i) = "idle"
    BY <1>11, <2>3 DEF Answered
  <2>5. IdleBut(u, r, {})
    BY <1>11, <2>2, <2>4 DEF Gathering, IdleBut
  <2> HIDE DEF lo, n, E
  <2> QED  BY <1>10, <1>16, <1>17, <1>18, <2>2, <2>3, <2>5 DEF AllAnswered
<1> QED  BY <1>7, <1>9, <1>10, <1>15, <1>19, <1>20 DEF Answers

\* A request ends when its outcome is what its refusals say.
LEMMA FinishEnds ==
    ASSUME NEW s, Safe(s, {}), NEW r \in Requests, Alive(s, r), IdleBut(s, r, {}),
           NEW result \in Results, r \in s.refused <=> result = "5XX",
           NEW u, u = Finish(s, r, result)
    PROVE  Safe(u, {}) /\ Confined(u, s, r) /\ IsFreed(u, r)
<1>1. /\ Safe(u, {})
      /\ u.step = s.step /\ u.response = s.response /\ u.refused = s.refused
      /\ u.req[r].state = "freed"
      /\ u.req[r].workers = s.req[r].workers /\ u.req[r].kind = s.req[r].kind
      /\ \A q \in Requests \ {r} : u.req[q] = s.req[q]
  BY FinishSafe DEF Alive
<1>2. Confined(u, s, r)
  BY <1>1, ConfinedRequest
<1>3. IsFreed(u, r)
  BY <1>1 DEF IsFreed, IdleBut, St
<1> QED  BY <1>1, <1>2, <1>3

-----------------------------------------------------------------------------
(* A reservation made for the task in hand.                                *)

\* The continuation of task t, of a live request, is running.
InHand(s, t) ==
    /\ t \in Tasks /\ Safe(s, {t}) /\ s.step[t] = "idle"
    /\ At(s, t) \in Workers /\ s.req[t[1]].state = "live"

\* The reservation was refused: nothing but the history knows.
Refuses(v, s, t) ==
    /\ Safe(v, {t}) /\ Confined(v, s, t[1])
    /\ v.req = s.req /\ v.step = s.step /\ v.response = s.response
    /\ v.refused = s.refused \cup {t[1]}

\* The reservation was accepted: the task waits for step p.
Waits(v, s, t, p) ==
    /\ Safe(v, {}) /\ Confined(v, s, t[1])
    /\ v.req = s.req /\ v.response = s.response /\ v.refused = s.refused
    /\ v.step = [s.step EXCEPT ![t] = p]

\* Every task is a pair of a request and a branch number.
LEMMA TaskFacts ==
    ASSUME NEW t \in Tasks
    PROVE  t[1] \in Requests /\ t[2] \in 0..Width /\ t = <<t[1], t[2]>>
BY DEF Tasks

LEMMA ComputeTried ==
    ASSUME NEW s, NEW t, InHand(s, t), NEW m \in Nat,
           NEW p \in OnCpu
    PROVE  /\ ComputeRefused(s.worker[At(s, t)], m) =>
                Refuses(ComputeRefusal(s, t, m), s, t)
           /\ ~ComputeRefused(s.worker[At(s, t)], m) =>
                Waits(ComputeWait(s, t, m, p), s, t, p)
<1> DEFINE v == ComputeRefusal(s, t, m)
           u == ComputeWait(s, t, m, p)
<1>1. /\ t \in Tasks /\ Safe(s, {t}) /\ s.step[t] = "idle" /\ At(s, t) \in Workers
      /\ s.req[t[1]].state = "live" /\ s \in StateType
  BY DEF InHand, Safe
<1>2. ASSUME ComputeRefused(s.worker[At(s, t)], m)  PROVE Refuses(v, s, t)
  <2>1. v = ComputeRefusal(s, t, m)
    OBVIOUS
  <2> HIDE DEF v
  <2>2. /\ Safe(v, {t})
        /\ v.req = s.req /\ v.step = s.step /\ v.response = s.response
        /\ v.refused = s.refused \cup {t[1]}
    <3>1. /\ Safe(v, {t})
          /\ v.req = s.req /\ v.step = s.step /\ v.response = s.response
          /\ NowRefused(v, s, t[1])
      BY <1>1, <1>2, <2>1, ComputeRefusedSafe
    <3> QED  BY <3>1 DEF NowRefused
  <2>3. Confined(v, s, t[1])
    BY <2>2, ConfinedRefused
  <2> QED  BY <2>2, <2>3 DEF Refuses
<1>3. ASSUME ~ComputeRefused(s.worker[At(s, t)], m)  PROVE Waits(u, s, t, p)
  <2>1. u = ComputeWait(s, t, m, p)
    OBVIOUS
  <2> HIDE DEF u
  <2>2. /\ Safe(u, {})
        /\ u.req = s.req /\ u.response = s.response /\ u.refused = s.refused
        /\ u.step = [s.step EXCEPT ![t] = p]
    BY <1>1, <1>3, <2>1, ComputeAcceptedSafe
  <2>3. /\ t[1] \in Requests /\ t[2] \in 0..Width
        /\ u.step = [s.step EXCEPT ![<<t[1], t[2]>>] = p]
    BY <1>1, <2>2, TaskFacts
  <2>4. Confined(u, s, t[1])
    BY <1>1, <2>2, <2>3, ConfinedStep
  <2> QED  BY <2>2, <2>4 DEF Waits
<1> QED  BY <1>2, <1>3

LEMMA DiskTried ==
    ASSUME NEW s, NEW t, InHand(s, t), NEW m \in Nat
    PROVE  /\ DiskRefused(s.worker[At(s, t)], m) =>
                Refuses(DiskRefusal(s, t, m), s, t)
           /\ ~DiskRefused(s.worker[At(s, t)], m) =>
                Waits(DiskWait(s, t, m), s, t, "disk")
<1> DEFINE v == DiskRefusal(s, t, m)
           u == DiskWait(s, t, m)
<1>1. /\ t \in Tasks /\ Safe(s, {t}) /\ s.step[t] = "idle" /\ At(s, t) \in Workers
      /\ s.req[t[1]].state = "live" /\ s \in StateType
  BY DEF InHand, Safe
<1>2. ASSUME DiskRefused(s.worker[At(s, t)], m)  PROVE Refuses(v, s, t)
  <2>1. v = DiskRefusal(s, t, m)
    OBVIOUS
  <2> HIDE DEF v
  <2>2. /\ Safe(v, {t})
        /\ v.req = s.req /\ v.step = s.step /\ v.response = s.response
        /\ v.refused = s.refused \cup {t[1]}
    BY <1>1, <1>2, <2>1, DiskRefusedSafe DEF NowRefused
  <2>3. Confined(v, s, t[1])
    BY <2>2, ConfinedRefused
  <2> QED  BY <2>2, <2>3 DEF Refuses
<1>3. ASSUME ~DiskRefused(s.worker[At(s, t)], m)  PROVE Waits(u, s, t, "disk")
  <2>1. u = DiskWait(s, t, m)
    OBVIOUS
  <2> HIDE DEF u
  <2>2. /\ Safe(u, {})
        /\ u.req = s.req /\ u.response = s.response /\ u.refused = s.refused
        /\ u.step = [s.step EXCEPT ![t] = "disk"]
    BY <1>1, <1>3, <2>1, DiskAcceptedSafe
  <2>3. /\ t[1] \in Requests /\ t[2] \in 0..Width
        /\ u.step = [s.step EXCEPT ![<<t[1], t[2]>>] = "disk"]
    BY <1>1, <2>2, TaskFacts
  <2>4. Confined(u, s, t[1])
    BY <1>1, <2>2, <2>3, ConfinedStep
  <2> QED  BY <2>2, <2>4 DEF Waits
<1> QED  BY <1>2, <1>3

\* What a new step changes of the branches of its request.
LEMMA StepsAfter ==
    ASSUME NEW s \in StateType, NEW r \in Requests, NEW k \in 0..Width, NEW p,
           NEW u, u.step = [s.step EXCEPT ![<<r, k>>] = p]
    PROVE  St(u, r, k) = p /\ \A i \in 0..Width : i # k => St(u, r, i) = St(s, r, i)
<1>1. s.step \in [Tasks -> Steps] /\ \A i \in 0..Width : <<r, i>> \in Tasks
  BY DEF StateType, Tasks
<1> QED  BY <1>1 DEF St

-----------------------------------------------------------------------------
(* GET.                                                                    *)

\* The branch of a GET is in hand, with this result so far.
GetHand(s, r, result) ==
    /\ Alive(s, r) /\ s.req[r].kind = "GET"
    /\ IdleBut(s, r, {})
    /\ r \in s.refused <=> result = "5XX"

LEMMA GetInHand ==
    ASSUME NEW r \in Requests, NEW s, Safe(s, {<<r, 1>>}), NEW result, GetHand(s, r, result)
    PROVE  InHand(s, <<r, 1>>) /\ 1 \in 0..Width /\ s.req[r].mem \in Nat
<1>1. s \in StateType /\ Alive(s, r)
  BY DEF Safe, GetHand
<1>2. 1 \in 1..Fanout(s, r) /\ 1 \in 0..Width /\ s.req[r].mem \in Nat
  BY <1>1, BranchFacts
<1>3. <<r, 1>> \in Tasks /\ At(s, <<r, 1>>) \in Workers
  BY <1>1, <1>2, BranchFacts
<1>4. s.step[<<r, 1>>] = "idle"
  BY <1>2 DEF GetHand, IdleBut, St
<1> QED  BY <1>1, <1>2, <1>3, <1>4 DEF InHand, Alive

LEMMA GetEnds ==
    ASSUME NEW r \in Requests, NEW t, t = <<r, 1>>,
           NEW s, Safe(s, {t}), NEW result \in Results, GetHand(s, r, result),
           NEW u, u = Finish(LogResult(s, t, result), r, result)
    PROVE  Safe(u, {}) /\ Confined(u, s, r) /\ IsFreed(u, r)
<1> DEFINE v == LogResult(s, t, result)
<1>1. t \in Tasks /\ t[2] # 0 /\ At(s, t) \in Workers /\ s.step[t] = "idle"
  BY GetInHand DEF InHand
<1>2. Safe(v, {}) /\ SameRequests(v, s)
  BY <1>1, LogResultSafe
<1>3. u = Finish(v, r, result)
  OBVIOUS
<1> HIDE DEF v
<1>4. Alive(v, r) /\ IdleBut(v, r, {}) /\ (r \in v.refused <=> result = "5XX")
  BY <1>2 DEF SameRequests, GetHand, Alive, Fanout, IdleBut, St
<1>5. Safe(u, {}) /\ Confined(u, v, r) /\ IsFreed(u, r)
  BY <1>2, <1>3, <1>4, FinishEnds
<1> QED  BY <1>2, <1>5, ConfinedSame, ConfinedTrans

\* get_phase_disk_done.
LEMMA GetDiskDoneEnds ==
    ASSUME NEW r \in Requests, NEW t, t = <<r, 1>>,
           NEW s, Safe(s, {t}), NEW result \in Results, GetHand(s, r, result),
           NEW u, u = GetDiskDone(s, t, result)
    PROVE  Safe(u, {}) /\ Confined(u, s, r) /\ IsFreed(u, r)
<1>1. u = Finish(LogResult(s, t, result), r, result)
  BY DEF GetDiskDone
<1> QED  BY <1>1, GetEnds

\* The branch of a GET waits.
LEMMA GetIsWaiting ==
    ASSUME NEW r \in Requests, NEW t, t = <<r, 1>>, 1 \in 0..Width,
           NEW s \in StateType, GetHand(s, r, "4XX"),
           NEW p \in {"compute", "disk"}, NEW u, Waits(u, s, t, p)
    PROVE  GetWaits(u, r)
<1>1. Alive(u, r) /\ u.req[r].kind = "GET" /\ r \notin u.refused
  BY DEF Waits, GetHand, Alive, Fanout
<1>2. u.step = [s.step EXCEPT ![<<r, 1>>] = p]
  BY DEF Waits
<1>3. St(u, r, 1) = p /\ \A i \in 0..Width : i # 1 => St(u, r, i) = St(s, r, i)
  BY <1>2, StepsAfter
<1>4. IdleBut(u, r, {1})
  BY <1>3 DEF GetHand, IdleBut
<1> QED  BY <1>1, <1>3, <1>4 DEF GetWaits

\* get_phase_compute_done: an error ends the request, otherwise it reads.
LEMMA GetComputeDoneLeads ==
    ASSUME NEW r \in Requests, NEW t, t = <<r, 1>>,
           NEW s, Safe(s, {t}), NEW result \in Results, GetHand(s, r, result),
           NEW u, u = GetComputeDone(s, t, result)
    PROVE  Safe(u, {}) /\ Confined(u, s, r) /\ (IsFreed(u, r) \/ GetWaits(u, r))
<1> DEFINE m == s.req[t[1]].mem
           v == DiskRefusal(s, t, m)
<1>1. /\ InHand(s, t) /\ m \in Nat /\ t[1] = r /\ 1 \in 0..Width /\ s \in StateType
  BY GetInHand DEF Safe
<1>2. CASE result = "5XX"
  <2>1. u = Finish(LogResult(s, t, result), r, result)
    BY <1>2 DEF GetComputeDone
  <2> QED  BY <2>1, GetEnds
<1>3. CASE result # "5XX" /\ DiskRefused(s.worker[At(s, t)], m)
  <2>1. u = GetDiskDone(v, t, "5XX")
    BY <1>3 DEF GetComputeDone, Disk, DiskRefusal
  <2>2. Refuses(v, s, t)
    <3> HIDE DEF m
    <3> QED  BY <1>1, <1>3, DiskTried
  <2> HIDE DEF v
  <2>3. GetHand(v, r, "5XX")
    BY <1>1, <2>2 DEF Refuses, GetHand, Alive, Fanout, IdleBut, St
  <2>4. Safe(v, {t}) /\ Confined(v, s, r)
    BY <1>1, <2>2 DEF Refuses
  <2>5. Safe(u, {}) /\ Confined(u, v, r) /\ IsFreed(u, r)
    BY <2>1, <2>3, <2>4, GetDiskDoneEnds DEF Results
  <2> QED  BY <2>4, <2>5, ConfinedTrans
<1>4. CASE result # "5XX" /\ ~DiskRefused(s.worker[At(s, t)], m)
  <2>1. u = DiskWait(s, t, m)
    BY <1>4 DEF GetComputeDone, Disk, DiskWait
  <2>2. Waits(u, s, t, "disk")
    <3> HIDE DEF m
    <3> QED  BY <1>1, <1>4, <2>1, DiskTried
  <2>3. GetHand(s, r, "4XX")
    BY <1>4 DEF Results, GetHand
  <2>4. GetWaits(u, r)
    BY <1>1, <2>2, <2>3, GetIsWaiting
  <2> QED  BY <1>1, <2>2, <2>4 DEF Waits
<1> QED  BY <1>2, <1>3, <1>4

\* get_phase_arrived, from its call of worker_log_request on.
LEMMA GetStartLeads ==
    ASSUME NEW r \in Requests, NEW s, Safe(s, {}), GetHand(s, r, "4XX"),
           s.req[r].mem \in Nat, At(s, <<r, 1>>) \in Workers,
           NEW u, u = GetStart(s, r)
    PROVE  Safe(u, {}) /\ Confined(u, s, r) /\ (IsFreed(u, r) \/ GetWaits(u, r))
<1> DEFINE t == <<r, 1>>
           m == s.req[r].mem
           x == LogRequest(s, t)
           v == ComputeRefusal(x, t, m)
<1>1. Safe(x, {t}) /\ SameRequests(x, s)
  <2>1. t \in Tasks /\ t[2] # 0 /\ s.step[t] = "idle"
    <3>1. 1 \in 0..Width
      BY ConstantFacts
    <3> QED  BY <3>1 DEF GetHand, IdleBut, St, Tasks
  <2> HIDE DEF t
  <2> QED  BY <2>1, LogRequestSafe DEF t
<1>2. u = IF ComputeRefused(x.worker[At(x, t)], m)
            THEN GetComputeDone(v, t, "5XX")
            ELSE ComputeWait(x, t, m, "compute")
  BY DEF GetStart, Compute, ComputeRefusal, ComputeWait
<1> HIDE DEF x, m
<1>3. GetHand(x, r, "4XX") /\ Confined(x, s, r) /\ x \in StateType
  BY <1>1, ConfinedSame DEF SameRequests, GetHand, Alive, Fanout, IdleBut, St, Safe
<1>4. InHand(x, t) /\ m \in Nat /\ 1 \in 0..Width /\ t[1] = r
  BY <1>1, <1>3, GetInHand DEF m
<1>5. CASE ComputeRefused(x.worker[At(x, t)], m)
  <2>1. u = GetComputeDone(v, t, "5XX")
    BY <1>2, <1>5
  <2>2. Refuses(v, x, t)
    <3> HIDE DEF t
    <3>1. "compute" \in OnCpu
      BY DEF OnCpu
    <3> QED  BY <1>4, <1>5, <3>1, ComputeTried
  <2> HIDE DEF v
  <2>3. GetHand(v, r, "5XX")
    BY <1>3, <1>4, <2>2 DEF Refuses, GetHand, Alive, Fanout, IdleBut, St
  <2>4. Safe(v, {t}) /\ Confined(v, x, r)
    BY <1>4, <2>2 DEF Refuses
  <2>5. Safe(u, {}) /\ Confined(u, v, r) /\ (IsFreed(u, r) \/ GetWaits(u, r))
    BY <2>1, <2>3, <2>4, GetComputeDoneLeads DEF Results
  <2> QED  BY <1>3, <2>4, <2>5, ConfinedTrans
<1>6. CASE ~ComputeRefused(x.worker[At(x, t)], m)
  <2>1. u = ComputeWait(x, t, m, "compute")
    BY <1>2, <1>6
  <2>2. Waits(u, x, t, "compute")
    <3> HIDE DEF t
    <3>1. "compute" \in OnCpu
      BY DEF OnCpu
    <3> QED  BY <1>4, <1>6, <2>1, <3>1, ComputeTried
  <2>3. GetWaits(u, r)
    BY <1>3, <1>4, <2>2, GetIsWaiting
  <2>4. Safe(u, {}) /\ Confined(u, x, r)
    BY <1>4, <2>2 DEF Waits
  <2> QED  BY <1>3, <2>3, <2>4, ConfinedTrans
<1> QED  BY <1>5, <1>6

-----------------------------------------------------------------------------
(* The branches of a PUT or a SEARCH.                                      *)

\* The primary of a PUT is in hand, alone, with this result.
PrimaryHand(s, r, result) ==
    /\ Alive(s, r)
    /\ IdleBut(s, r, {})
    /\ r \in s.refused <=> result = "5XX" \/ Rs(s, r, 1) = "5XX"

\* No context changes.
SameContexts(u, s) == u.req = s.req

IsPrimary(s, r, k) == s.req[r].kind = "PUT" /\ k = 1

\* A branch is in hand: the primary, or one of those started, up to the up-th.
BranchHand(s, r, k, up, result) ==
    IF IsPrimary(s, r, k) THEN PrimaryHand(s, r, result)
                          ELSE Gathering(s, r, up, {k}, result)

\* The branches started, up to the up-th, wait, or were the last to answer.
Settled(s, r, up) ==
    \/ Gathering(s, r, up, {}, "4XX")
    \/ up = Fanout(s, r) /\ (IsFreed(s, r) \/ Collating(s, r))

BranchSettled(s, r, k, up) ==
    IF IsPrimary(s, r, k) THEN PrimaryWaits(s, r) \/ IsFreed(s, r) ELSE Settled(s, r, up)

LEMMA BranchInHand ==
    ASSUME NEW r \in Requests, NEW k, NEW t, t = <<r, k>>, NEW s, Safe(s, {t}),
           NEW up, NEW result, BranchHand(s, r, k, up, result)
    PROVE  /\ InHand(s, t) /\ k \in 0..Width /\ k # 0 /\ t[1] = r /\ t[2] = k
           /\ Alive(s, r) /\ s.req[r].mem \in Nat /\ s.req[r].mem_response \in Nat
           /\ k \in 1..Fanout(s, r) /\ s \in StateType
<1>1. s \in StateType /\ Alive(s, r)
  BY DEF Safe, BranchHand, PrimaryHand, Gathering
<1>2. /\ Fanout(s, r) \in Nat \ {0} /\ 1 \in 1..Fanout(s, r)
      /\ s.req[r].mem \in Nat /\ s.req[r].mem_response \in Nat
      /\ First(s, r) \in {1, 2}
      /\ \A i \in 1..Fanout(s, r) :
           i \in 0..Width /\ i # 0 /\ <<r, i>> \in Tasks /\ At(s, <<r, i>>) \in Workers
  BY <1>1, BranchFacts
<1>3. k \in 1..Fanout(s, r)
  <2>1. CASE IsPrimary(s, r, k)
    BY <1>2, <2>1 DEF IsPrimary
  <2>2. CASE ~IsPrimary(s, r, k)
    <3>1. k \in First(s, r)..up /\ up \in (First(s, r) - 1)..Fanout(s, r)
      BY <2>2 DEF BranchHand, Gathering
    <3> QED  BY <1>2, <3>1
  <2> QED  BY <2>1, <2>2
<1>4. St(s, r, k) = "idle"
  <2>1. CASE IsPrimary(s, r, k)
    BY <1>2, <1>3, <2>1 DEF BranchHand, PrimaryHand, IdleBut
  <2>2. CASE ~IsPrimary(s, r, k)
    BY <2>2 DEF BranchHand, Gathering
  <2> QED  BY <2>1, <2>2
<1> QED  BY <1>1, <1>2, <1>3, <1>4 DEF InHand, Alive, St

LEMMA HandNoted ==
    ASSUME NEW r \in Requests, NEW k, NEW t, t = <<r, k>>, NEW s, Safe(s, {t}),
           NEW up, NEW result \in Results, BranchHand(s, r, k, up, result),
           NEW u, u = Note(s, t, result)
    PROVE  /\ Safe(u, {t}) /\ Confined(u, s, r) /\ BranchHand(u, r, k, up, "4XX")
           /\ SameContexts(u, s)
<1>1. k \in 0..Width /\ s \in StateType /\ 1 \in 0..Width
  BY BranchInHand, ConstantFacts
<1>2. /\ Safe(u, {t}) /\ Confined(u, s, r)
      /\ u.req = s.req /\ u.step = s.step /\ u.refused = s.refused
      /\ \A x \in Tasks \ {<<r, k>>} : u.response[x] = s.response[x]
      /\ Rs(u, r, k) = IF result = "5XX" THEN "5XX" ELSE Rs(s, r, k)
  BY <1>1, NoteSafe
<1>3. IsPrimary(u, r, k) <=> IsPrimary(s, r, k)
  BY <1>2 DEF IsPrimary
<1>4. CASE IsPrimary(s, r, k)
  <2>1. r \in u.refused <=> Rs(u, r, 1) = "5XX"
    BY <1>2, <1>4 DEF BranchHand, PrimaryHand, IsPrimary
  <2>2. Alive(u, r) /\ IdleBut(u, r, {})
    BY <1>2, <1>4 DEF BranchHand, PrimaryHand, Alive, Fanout, IdleBut, St
  <2> QED  BY <1>2, <1>3, <1>4, <2>1, <2>2 DEF BranchHand, PrimaryHand, SameContexts
<1>5. CASE ~IsPrimary(s, r, k)
  <2>1. Gathering(s, r, up, {k}, result)
    BY <1>5 DEF BranchHand
  <2>2. Gathering(u, r, up, {k}, "4XX")
    BY <1>1, <1>2, <2>1, GatherNoted
  <2> QED  BY <1>2, <1>3, <1>5, <2>2 DEF BranchHand, SameContexts
<1> QED  BY <1>2, <1>4, <1>5

LEMMA HandRefused ==
    ASSUME NEW r \in Requests, NEW k, NEW t, t = <<r, k>>, NEW s,
           NEW up, NEW result, BranchHand(s, r, k, up, result),
           NEW u, Refuses(u, s, t)
    PROVE  BranchHand(u, r, k, up, "5XX")
<1>1. /\ u.req = s.req /\ u.step = s.step /\ u.response = s.response
      /\ u.refused = s.refused \cup {r}
  BY DEF Refuses
<1>2. IsPrimary(u, r, k) <=> IsPrimary(s, r, k)
  BY <1>1 DEF IsPrimary
<1>3. CASE IsPrimary(s, r, k)
  BY <1>1, <1>2, <1>3 DEF BranchHand, PrimaryHand, Alive, Fanout, IdleBut, St
<1>4. CASE ~IsPrimary(s, r, k)
  <2>1. Gathering(s, r, up, {k}, result)
    BY <1>4 DEF BranchHand
  <2>2. Gathering(u, r, up, {k}, "5XX")
    BY <1>1, <2>1, GatherRefused
  <2> QED  BY <1>2, <1>4, <2>2 DEF BranchHand
<1> QED  BY <1>3, <1>4

LEMMA HandWaits ==
    ASSUME NEW r \in Requests, NEW k \in 0..Width, NEW t, t = <<r, k>>,
           NEW s \in StateType, NEW up, BranchHand(s, r, k, up, "4XX"),
           NEW p, p \in {"compute", "disk"} \/ (s.req[r].kind = "SEARCH" /\ p = "response"),
           NEW u, Waits(u, s, t, p)
    PROVE  BranchSettled(u, r, k, up)
<1>1. /\ u.req = s.req /\ u.response = s.response /\ u.refused = s.refused
      /\ u.step = [s.step EXCEPT ![<<r, k>>] = p]
  BY DEF Waits
<1>2. IsPrimary(u, r, k) <=> IsPrimary(s, r, k)
  BY <1>1 DEF IsPrimary
<1>3. CASE IsPrimary(s, r, k)
  <2>1. St(u, r, 1) = p /\ \A i \in 0..Width : i # 1 => St(u, r, i) = St(s, r, i)
    <3>1. k = 1 /\ 1 \in 0..Width
      BY <1>3 DEF IsPrimary
    <3> QED  BY <1>1, <3>1, StepsAfter
  <2>2. Alive(u, r) /\ u.req[r].kind = "PUT" /\ p \in {"compute", "disk"}
    BY <1>1, <1>3 DEF BranchHand, PrimaryHand, Alive, Fanout, IsPrimary
  <2>3. IdleBut(u, r, {1})
    BY <1>3, <2>1 DEF BranchHand, PrimaryHand, IdleBut
  <2>4. r \in u.refused <=> Rs(u, r, 1) = "5XX"
    BY <1>1, <1>3 DEF BranchHand, PrimaryHand, Rs
  <2> QED  BY <1>2, <1>3, <2>1, <2>2, <2>3, <2>4 DEF BranchSettled, PrimaryWaits
<1>4. CASE ~IsPrimary(s, r, k)
  <2>1. Gathering(s, r, up, {k}, "4XX")
    BY <1>4 DEF BranchHand
  <2>2. p \in {"compute", "disk"} \cup (IF s.req[r].kind = "PUT" THEN {} ELSE {"response"})
    OBVIOUS
  <2>3. Gathering(u, r, up, {}, "4XX")
    BY <1>1, <2>1, <2>2, GatherWaits
  <2> QED  BY <1>2, <1>4, <2>3 DEF BranchSettled, Settled
<1> QED  BY <1>3, <1>4

LEMMA GatheringFrame ==
    ASSUME NEW s, NEW u, SameRequests(u, s), NEW r, NEW up, NEW hand, NEW result,
           Gathering(s, r, up, hand, result)
    PROVE  Gathering(u, r, up, hand, result)
<1>1. /\ u.req = s.req /\ First(u, r) = First(s, r) /\ Fanout(u, r) = Fanout(s, r)
      /\ Alive(u, r) <=> Alive(s, r)
      /\ \A i : St(u, r, i) = St(s, r, i) /\ Rs(u, r, i) = Rs(s, r, i)
      /\ u.refused = s.refused
  BY DEF SameRequests, First, Fanout, Alive, St, Rs
<1>2. Answered(u, r, up, hand) = Answered(s, r, up, hand)
  BY <1>1 DEF Answered
<1>3. IdleBut(u, r, First(s, r)..up)
  BY <1>1 DEF Gathering, IdleBut
<1> QED  BY <1>1, <1>2, <1>3 DEF Gathering

LEMMA HandFrame ==
    ASSUME NEW s, NEW u, SameRequests(u, s), NEW r, NEW k, NEW up, NEW result,
           BranchHand(s, r, k, up, result)
    PROVE  BranchHand(u, r, k, up, result)
<1>1. /\ u.req = s.req /\ u.step = s.step /\ u.response = s.response
      /\ u.refused = s.refused
  BY DEF SameRequests
<1>2. Gathering(s, r, up, {k}, result) => Gathering(u, r, up, {k}, result)
  BY GatheringFrame
<1>3. PrimaryHand(s, r, result) => PrimaryHand(u, r, result)
  BY <1>1 DEF PrimaryHand, Alive, Fanout, IdleBut, St, Rs
<1> QED  BY <1>1, <1>2, <1>3 DEF BranchHand, IsPrimary

\* The result of the last step is noted, and the response logged at the worker.
Written(s, t, result) ==
    LET u == Note(s, t, result) IN LogResult(u, t, u.response[t])

\* What the branch then replies.
Replies(s, v, r, k, result) ==
    /\ v.response[<<r, k>>] = Rs(v, r, k) /\ Rs(v, r, k) \in Results
    /\ Note(s, <<r, k>>, result).response[<<r, k>>] = Rs(v, r, k)

\* The primary is told from a replica by the worker it runs on.
KnowsPrimary(s, r, k) == At(s, <<r, k>>) = s.req[r].workers[1] <=> k = 1

LEMMA HandWritten ==
    ASSUME NEW r \in Requests, NEW k, NEW t, t = <<r, k>>, NEW s, Safe(s, {t}),
           NEW up, NEW result \in Results, BranchHand(s, r, k, up, result),
           NEW v, v = Written(s, t, result)
    PROVE  /\ Safe(v, {}) /\ Confined(v, s, r) /\ BranchHand(v, r, k, up, "4XX")
           /\ SameContexts(v, s) /\ k \in 0..Width /\ Replies(s, v, r, k, result)
           /\ s.req[r].kind = "PUT" => KnowsPrimary(v, r, k)
<1> DEFINE u == Note(s, t, result)
           x == u.response[t]
<1>1. /\ Safe(u, {t}) /\ Confined(u, s, r) /\ BranchHand(u, r, k, up, "4XX")
      /\ u.req = s.req
  <2>1. u = Note(s, t, result)
    OBVIOUS
  <2> HIDE DEF u
  <2> QED  BY <2>1, HandNoted DEF SameContexts
<1>2. v = LogResult(u, t, x)
  BY DEF Written
<1> HIDE DEF u
<1>3. /\ InHand(u, t) /\ k \in 0..Width /\ t[2] # 0 /\ t \in Tasks /\ u \in StateType
      /\ Alive(u, r) /\ k \in 1..Fanout(u, r)
  BY <1>1, BranchInHand DEF InHand
<1>4. x \in Results
  BY <1>3 DEF StateType
<1>5. Safe(v, {}) /\ SameRequests(v, u)
  <2> HIDE DEF x
  <2> QED  BY <1>1, <1>2, <1>3, <1>4, LogResultSafe DEF InHand
<1>6. Confined(v, s, r) /\ v.req = s.req
  BY <1>1, <1>5, ConfinedSame, ConfinedTrans DEF SameRequests
<1>7. BranchHand(v, r, k, up, "4XX")
  BY <1>1, <1>5, HandFrame
<1>8. v.response[t] = Rs(v, r, k) /\ x = Rs(v, r, k)
  BY <1>5 DEF SameRequests, Rs
<1>9. ASSUME s.req[r].kind = "PUT"
      PROVE  At(v, t) = v.req[r].workers[1] <=> k = 1
  <2>1. At(u, t) = u.req[r].workers[k]
    BY <1>3, BranchFacts
  <2>2. At(v, t) = v.req[r].workers[k]
    BY <1>5, <2>1, AtSame DEF SameRequests
  <2>3. NoRepeats(u.req[r].workers) /\ 1 \in 1..Len(u.req[r].workers)
    BY <1>1, <1>3, <1>9, BranchFacts DEF Alive, Fanout
  <2>4. v.req = u.req
    BY <1>5 DEF SameRequests
  <2> QED  BY <1>3, <2>2, <2>3, <2>4 DEF NoRepeats, Fanout
<1> QED  BY <1>3, <1>4, <1>5, <1>6, <1>7, <1>8, <1>9
         DEF u, SameContexts, Replies, KnowsPrimary

\* A branch is logged at its worker and its last response forgotten.
Launched(s, t) == [LogRequest(s, t) EXCEPT !.response[t] = "4XX"]

LEMMA LaunchedSafe ==
    ASSUME NEW s, Safe(s, {}), NEW t \in Tasks, t[2] # 0, s.step[t] = "idle",
           At(s, t) \in Workers, NEW u, u = Launched(s, t)
    PROVE  /\ Safe(u, {t}) /\ Confined(u, s, t[1])
           /\ u.req = s.req /\ u.step = s.step /\ u.refused = s.refused
           /\ u.response = [s.response EXCEPT ![t] = "4XX"]
<1> DEFINE v == LogRequest(s, t)
<1>1. Safe(v, {t}) /\ SameRequests(v, s) /\ s \in StateType /\ v \in StateType
  BY LogRequestSafe DEF Safe
<1>2. u = Respond(v, t, "4XX")
  BY DEF Launched, Respond
<1> HIDE DEF v
<1>3. /\ Safe(u, {t})
      /\ u.req = v.req /\ u.step = v.step /\ u.refused = v.refused
      /\ u.response = [v.response EXCEPT ![t] = "4XX"]
  <2>1. "4XX" \in Results
    BY DEF Results
  <2> QED  BY <1>1, <1>2, <2>1, RespondSafe
<1>4. /\ u.req = s.req /\ u.step = s.step /\ u.refused = s.refused
      /\ u.response = [s.response EXCEPT ![t] = "4XX"]
  BY <1>1, <1>3 DEF SameRequests
<1>5. \A x \in Tasks \ {<<t[1], t[2]>>} : u.response[x] = s.response[x]
  BY <1>1, <1>4, TaskFacts DEF StateType
<1>6. Confined(u, s, t[1])
  BY <1>1, <1>4, <1>5, TaskFacts, ConfinedResponse
<1> QED  BY <1>3, <1>4, <1>6

\* The next branch may be started.
CanLaunch(s, r, k) ==
    IF IsPrimary(s, r, k)
      THEN Alive(s, r) /\ IdleBut(s, r, {}) /\ r \notin s.refused
      ELSE Gathering(s, r, k - 1, {}, "4XX") /\ k \in First(s, r)..Fanout(s, r)

LEMMA HandLaunched ==
    ASSUME NEW r \in Requests, NEW k, NEW t, t = <<r, k>>, NEW s, Safe(s, {}),
           CanLaunch(s, r, k), NEW x, x = Launched(s, t)
    PROVE  /\ Safe(x, {t}) /\ Confined(x, s, r) /\ BranchHand(x, r, k, k, "4XX")
           /\ SameContexts(x, s)
<1>1. s \in StateType /\ Alive(s, r)
  BY DEF Safe, CanLaunch, Gathering
<1>2. /\ Fanout(s, r) \in Nat \ {0} /\ 1 \in 1..Fanout(s, r) /\ First(s, r) \in {1, 2}
      /\ \A i \in 1..Fanout(s, r) :
           i \in 0..Width /\ i # 0 /\ <<r, i>> \in Tasks /\ At(s, <<r, i>>) \in Workers
  BY <1>1, BranchFacts
<1>3. k \in 1..Fanout(s, r)
  <2>1. CASE IsPrimary(s, r, k)
    BY <1>2, <2>1 DEF IsPrimary
  <2>2. CASE ~IsPrimary(s, r, k)
    <3>1. k \in First(s, r)..Fanout(s, r)
      BY <2>2 DEF CanLaunch
    <3> QED  BY <1>2, <3>1
  <2> QED  BY <2>1, <2>2
<1>4. t \in Tasks /\ t[2] # 0 /\ t[1] = r /\ At(s, t) \in Workers /\ k \in 0..Width
  BY <1>2, <1>3
<1>5. s.step[t] = "idle"
  <2>1. CASE IsPrimary(s, r, k)
    BY <1>4, <2>1 DEF CanLaunch, IdleBut, St
  <2>2. CASE ~IsPrimary(s, r, k)
    <3>1. IdleBut(s, r, First(s, r)..(k - 1))
      BY <2>2 DEF CanLaunch, Gathering
    <3>2. k \in (0..Width) \ (First(s, r)..(k - 1))
      BY <1>2, <1>3, <1>4
    <3> QED  BY <3>1, <3>2 DEF IdleBut, St
  <2> QED  BY <2>1, <2>2
<1>6. /\ Safe(x, {t}) /\ Confined(x, s, r)
      /\ x.req = s.req /\ x.step = s.step /\ x.refused = s.refused
      /\ x.response = [s.response EXCEPT ![<<r, k>>] = "4XX"]
  <2>1. /\ Safe(x, {t}) /\ Confined(x, s, t[1])
        /\ x.req = s.req /\ x.step = s.step /\ x.refused = s.refused
        /\ x.response = [s.response EXCEPT ![t] = "4XX"]
    <3> HIDE DEF Launched
    <3> QED  BY <1>4, <1>5, LaunchedSafe
  <2> QED  BY <1>4, <2>1
<1>7. IsPrimary(x, r, k) <=> IsPrimary(s, r, k)
  BY <1>6 DEF IsPrimary
<1>8. CASE IsPrimary(s, r, k)
  <2>1. k = 1
    BY <1>8 DEF IsPrimary
  <2>2. Rs(x, r, 1) = "4XX"
    BY <1>1, <1>4, <1>6, <2>1 DEF StateType, Rs
  <2> QED  BY <1>6, <1>7, <1>8, <2>2
           DEF CanLaunch, BranchHand, PrimaryHand, Alive, Fanout, IdleBut, St, SameContexts
<1>9. CASE ~IsPrimary(s, r, k)
  <2>1. Gathering(s, r, k - 1, {}, "4XX") /\ k \in First(s, r)..Fanout(s, r)
    BY <1>9 DEF CanLaunch
  <2>2. Gathering(x, r, k, {k}, "4XX")
    BY <1>1, <1>6, <2>1, GatherLaunched
  <2> QED  BY <1>6, <1>7, <1>9, <2>2 DEF BranchHand, SameContexts
<1> QED  BY <1>8, <1>9

-----------------------------------------------------------------------------
(* PUT, up to the disk write of a branch.                                  *)

\* put_replica_done.
LEMMA PutReplicaDoneLeads ==
    ASSUME NEW r \in Requests, NEW k \in 0..Width, NEW s, Safe(s, {}),
           NEW up, Gathering(s, r, up, {k}, "4XX"), s.req[r].kind = "PUT",
           NEW u, u = PutReplicaDone(s, r, Rs(s, r, k))
    PROVE  Safe(u, {}) /\ Confined(u, s, r) /\ Settled(u, r, up)
<1> DEFINE v == Gather(s, r, Rs(s, r, k))
           n == Fanout(v, r)
           d == v.req[r].done
<1>1. u = IF d = n - 1 THEN Finish(v, r, v.req[r].worst) ELSE v
  BY DEF PutReplicaDone
<1>2. /\ Safe(v, {}) /\ Confined(v, s, r) /\ d \in Nat
      /\ d < n - First(v, r) + 1 => Gathering(v, r, up, {}, "4XX")
      /\ ~(d < n - First(v, r) + 1) =>
            d = n - First(v, r) + 1 /\ up = n /\ AllAnswered(v, r)
  <2>1. v = Gather(s, r, Rs(s, r, k))
    OBVIOUS
  <2> HIDE DEF v
  <2>2. Answers(v, s, r, up)
    BY <2>1, GatherAnswered
  <2> QED  BY <2>2 DEF Answers
<1> HIDE DEF v
<1>3. First(v, r) = 2 /\ v \in StateType /\ n \in Nat
  <2>1. v.req[r].kind = "PUT"
    BY <1>2 DEF Confined
  <2>2. Alive(v, r)
    BY <1>2 DEF Gathering, AllAnswered
  <2>3. v \in StateType
    BY <1>2 DEF Safe
  <2> QED  BY <2>1, <2>2, <2>3, BranchFacts DEF First
<1>4. CASE d < n - First(v, r) + 1
  <2>1. d # n - 1
    <3> HIDE DEF n, d
    <3> QED  BY <1>2, <1>3, <1>4
  <2> QED  BY <1>1, <1>2, <1>4, <2>1 DEF Settled
<1>5. CASE ~(d < n - First(v, r) + 1)
  <2>1. d = n - 1 /\ up = n /\ AllAnswered(v, r)
    <3>1. d = n - First(v, r) + 1 /\ up = n /\ AllAnswered(v, r)
      BY <1>2, <1>5
    <3> HIDE DEF n, d
    <3> QED  BY <1>3, <3>1
  <2>2. u = Finish(v, r, v.req[r].worst)
    BY <1>1, <2>1
  <2>3. Alive(v, r) /\ IdleBut(v, r, {}) /\ (r \in v.refused <=> v.req[r].worst = "5XX")
    BY <2>1 DEF AllAnswered
  <2>4. v.req[r].worst \in Results
    BY <1>3 DEF StateType, Context
  <2>5. Safe(u, {}) /\ Confined(u, v, r) /\ IsFreed(u, r)
    BY <1>2, <2>2, <2>3, <2>4, FinishEnds
  <2>6. Fanout(u, r) = n
    BY <2>5 DEF Confined, Fanout
  <2> QED  BY <1>2, <2>1, <2>5, <2>6, ConfinedTrans DEF Settled
<1> QED  BY <1>4, <1>5

\* put_write_disk_done called back by a refused reservation.
LEMMA PutDiskRefusedLeads ==
    ASSUME NEW r \in Requests, NEW k, NEW t, t = <<r, k>>, NEW s, Safe(s, {t}),
           NEW up, NEW result \in Results, BranchHand(s, r, k, up, result),
           s.req[r].kind = "PUT", NEW u, u = PutDiskRefused(s, t, result)
    PROVE  Safe(u, {}) /\ Confined(u, s, r) /\ BranchSettled(u, r, k, up)
<1> DEFINE v == Written(s, t, result)
<1>1. u = IF At(v, t) = v.req[r].workers[1] THEN Finish(v, r, v.response[t])
                                            ELSE PutReplicaDone(v, r, v.response[t])
  BY DEF PutDiskRefused, PutWriteDone, PutPrimaryEnds, Written
<1>2. /\ Safe(v, {}) /\ Confined(v, s, r) /\ BranchHand(v, r, k, up, "4XX")
      /\ v.req = s.req /\ v.response[t] = Rs(v, r, k) /\ k \in 0..Width
      /\ Rs(v, r, k) \in Results
      /\ At(v, t) = v.req[r].workers[1] <=> k = 1
  <2>1. v = Written(s, t, result)
    OBVIOUS
  <2> HIDE DEF v
  <2>2. /\ Safe(v, {}) /\ Confined(v, s, r) /\ BranchHand(v, r, k, up, "4XX")
        /\ SameContexts(v, s) /\ k \in 0..Width /\ Replies(s, v, r, k, result)
        /\ KnowsPrimary(v, r, k)
    BY <2>1, HandWritten
  <2> QED  BY <2>2 DEF SameContexts, Replies, KnowsPrimary
<1> HIDE DEF v
<1>3. CASE k = 1
  <2>1. u = Finish(v, r, Rs(v, r, 1)) /\ PrimaryHand(v, r, "4XX")
    BY <1>1, <1>2, <1>3 DEF BranchHand, IsPrimary
  <2>2. Rs(v, r, 1) \in Results
    BY <1>2, <1>3
  <2>3. Safe(u, {}) /\ Confined(u, v, r) /\ IsFreed(u, r)
    <3>1. PICK x \in Results : x = Rs(v, r, 1)
      BY <2>2
    <3>2. Safe(v, {}) /\ Alive(v, r) /\ IdleBut(v, r, {}) /\ (r \in v.refused <=> x = "5XX")
      BY <1>2, <2>1, <3>1 DEF PrimaryHand
    <3>3. u = Finish(v, r, x)
      BY <2>1, <3>1
    <3> QED  BY <3>2, <3>3, FinishEnds
  <2>4. BranchSettled(u, r, k, up)
    BY <1>2, <1>3, <2>3 DEF BranchSettled, IsPrimary, Confined
  <2> QED  BY <1>2, <2>3, <2>4, ConfinedTrans
<1>4. CASE k # 1
  <2>1. u = PutReplicaDone(v, r, Rs(v, r, k))
    BY <1>1, <1>2, <1>4
  <2>2. Gathering(v, r, up, {k}, "4XX") /\ v.req[r].kind = "PUT"
    BY <1>2, <1>4 DEF BranchHand, IsPrimary
  <2>3. Safe(u, {}) /\ Confined(u, v, r) /\ Settled(u, r, up)
    BY <1>2, <2>1, <2>2, PutReplicaDoneLeads
  <2>4. BranchSettled(u, r, k, up)
    BY <1>4, <2>3 DEF BranchSettled, IsPrimary
  <2> QED  BY <1>2, <2>3, <2>4, ConfinedTrans
<1> QED  BY <1>3, <1>4

\* put_write_compute_done.
LEMMA PutComputeDoneLeads ==
    ASSUME NEW r \in Requests, NEW k, NEW t, t = <<r, k>>, NEW s, Safe(s, {t}),
           NEW up, NEW result \in Results, BranchHand(s, r, k, up, result),
           s.req[r].kind = "PUT", NEW u, u = PutComputeDone(s, t, result)
    PROVE  Safe(u, {}) /\ Confined(u, s, r) /\ BranchSettled(u, r, k, up)
<1> DEFINE m == s.req[t[1]].mem
           x == Note(s, t, result)
           v == DiskRefusal(x, t, m)
<1>1. /\ Safe(x, {t}) /\ Confined(x, s, r) /\ BranchHand(x, r, k, up, "4XX")
      /\ x.req = s.req
  <2>1. x = Note(s, t, result)
    OBVIOUS
  <2> HIDE DEF x
  <2> QED  BY <2>1, HandNoted DEF SameContexts
<1>2. u = IF DiskRefused(x.worker[At(x, t)], m) THEN PutDiskRefused(v, t, "5XX")
                                                ELSE DiskWait(x, t, m)
  BY DEF PutComputeDone, Disk, DiskRefusal, DiskWait
<1>3. t[1] = r /\ m \in Nat
  BY BranchInHand
<1> HIDE DEF x, m
<1>4. InHand(x, t) /\ k \in 0..Width /\ x \in StateType /\ x.req[r].kind = "PUT"
  BY <1>1, BranchInHand
<1>5. CASE DiskRefused(x.worker[At(x, t)], m)
  <2>1. u = PutDiskRefused(v, t, "5XX")
    BY <1>2, <1>5
  <2>2. Refuses(v, x, t)
    BY <1>3, <1>4, <1>5, DiskTried
  <2> HIDE DEF v
  <2>3. BranchHand(v, r, k, up, "5XX")
    BY <1>1, <2>2, HandRefused
  <2>4. Safe(v, {t}) /\ Confined(v, x, r) /\ v.req[r].kind = "PUT"
    BY <1>3, <1>4, <2>2 DEF Refuses
  <2>5. Safe(u, {}) /\ Confined(u, v, r) /\ BranchSettled(u, r, k, up)
    BY <2>1, <2>3, <2>4, PutDiskRefusedLeads DEF Results
  <2> QED  BY <1>1, <2>4, <2>5, ConfinedTrans
<1>6. CASE ~DiskRefused(x.worker[At(x, t)], m)
  <2>1. u = DiskWait(x, t, m)
    BY <1>2, <1>6
  <2>2. Waits(u, x, t, "disk")
    BY <1>3, <1>4, <1>6, <2>1, DiskTried
  <2>3. BranchSettled(u, r, k, up)
    BY <1>1, <1>4, <2>2, HandWaits
  <2>4. Safe(u, {}) /\ Confined(u, x, r)
    BY <1>3, <2>2 DEF Waits
  <2> QED  BY <1>1, <2>3, <2>4, ConfinedTrans
<1> QED  BY <1>5, <1>6

\* put_start_write.
LEMMA PutStartWriteLeads ==
    ASSUME NEW r \in Requests, NEW k, NEW t, t = <<r, k>>, NEW s, Safe(s, {}),
           CanLaunch(s, r, k), s.req[r].kind = "PUT", NEW u, u = PutStartWrite(s, t)
    PROVE  Safe(u, {}) /\ Confined(u, s, r) /\ BranchSettled(u, r, k, k)
<1> DEFINE m == s.req[t[1]].mem
           x == Launched(s, t)
           v == ComputeRefusal(x, t, m)
<1>1. u = IF ComputeRefused(x.worker[At(x, t)], m)
            THEN PutComputeDone(v, t, "5XX")
            ELSE ComputeWait(x, t, m, "compute")
  BY DEF PutStartWrite, Launched, Compute, ComputeRefusal, ComputeWait
<1>2. /\ Safe(x, {t}) /\ Confined(x, s, r) /\ BranchHand(x, r, k, k, "4XX")
      /\ x.req = s.req
  <2>1. x = Launched(s, t)
    OBVIOUS
  <2> HIDE DEF x
  <2> QED  BY <2>1, HandLaunched DEF SameContexts
<1> HIDE DEF x
<1>3. InHand(x, t) /\ x \in StateType /\ k \in 0..Width /\ t[1] = r /\ m \in Nat
  BY <1>2, BranchInHand
<1>4. x.req[r].kind = "PUT" /\ "compute" \in OnCpu
  BY <1>2 DEF OnCpu
<1> HIDE DEF m
<1>5. CASE ComputeRefused(x.worker[At(x, t)], m)
  <2>1. u = PutComputeDone(v, t, "5XX")
    BY <1>1, <1>5
  <2>2. Refuses(v, x, t)
    BY <1>3, <1>4, <1>5, ComputeTried
  <2> HIDE DEF v
  <2>3. BranchHand(v, r, k, k, "5XX")
    BY <1>2, <2>2, HandRefused
  <2>4. Safe(v, {t}) /\ Confined(v, x, r) /\ v.req[r].kind = "PUT"
    BY <1>3, <1>4, <2>2 DEF Refuses
  <2>5. Safe(u, {}) /\ Confined(u, v, r) /\ BranchSettled(u, r, k, k)
    BY <2>1, <2>3, <2>4, PutComputeDoneLeads DEF Results
  <2> QED  BY <1>2, <2>4, <2>5, ConfinedTrans
<1>6. CASE ~ComputeRefused(x.worker[At(x, t)], m)
  <2>1. u = ComputeWait(x, t, m, "compute")
    BY <1>1, <1>6
  <2>2. Waits(u, x, t, "compute")
    BY <1>3, <1>4, <1>6, <2>1, ComputeTried
  <2>3. BranchSettled(u, r, k, k)
    BY <1>2, <1>3, <2>2, HandWaits
  <2>4. Safe(u, {}) /\ Confined(u, x, r)
    BY <1>3, <2>2 DEF Waits
  <2> QED  BY <1>2, <2>3, <2>4, ConfinedTrans
<1> QED  BY <1>5, <1>6

-----------------------------------------------------------------------------
(* SEARCH.                                                                 *)

\* How many branches have the worker of branch i.
LEMMA WeightIsPositive ==
    ASSUME NEW ws \in Seq(Workers), NEW i \in 1..Len(ws)
    PROVE  Weight(ws, i) \in Nat /\ Weight(ws, i) > 0
<1> DEFINE n == Len(ws)
           K == {k \in 1..n : ws[k] = ws[i]}
<1>1. n \in Nat /\ DOMAIN ws = 1..n
  OBVIOUS
<1>2. Weight(ws, i) = Cardinality(K)
  BY <1>1 DEF Weight
<1>3. K \subseteq 1..n /\ i \in K
  OBVIOUS
<1> HIDE DEF K, n
<1>4. IsFiniteSet(1..n)
  BY <1>1, FS_Interval
<1>5. IsFiniteSet(K) /\ Cardinality(K) \in Nat
  BY <1>3, <1>4, FS_Subset, FS_CardinalityType
<1>6. Cardinality(K) # 0
  BY <1>3, <1>5, FS_EmptySet
<1> QED  BY <1>2, <1>5, <1>6

\* The best of the first n branches: x is one that has the most, and how many.
BestOf(ws, n, x) ==
    /\ x \in [branch : 1..Len(ws), count : Nat]
    /\ n = 0 => x.count = 0
    /\ n > 0 => x.count = Weight(ws, x.branch)
    /\ \A i \in 1..n : Weight(ws, i) <= x.count

\* A turn of the loop minds one more branch, whatever its coin.
LEMMA CollationTurnKeeps ==
    ASSUME NEW ws \in Seq(Workers), NEW n \in 1..Len(ws), NEW x, BestOf(ws, n - 1, x),
           NEW coins
    PROVE  BestOf(ws, n, CollationTurn(ws, n, x, coins))
<1> DEFINE c == Weight(ws, n)
           y == CollationTurn(ws, n, x, coins)
<1> SUFFICES BestOf(ws, n, y)
  OBVIOUS
<1>1. c \in Nat /\ c > 0
  BY WeightIsPositive
<1>2. /\ x \in [branch : 1..Len(ws), count : Nat] /\ x.count \in Nat
      /\ n - 1 = 0 => x.count = 0
      /\ n - 1 > 0 => x.count = Weight(ws, x.branch)
      /\ \A i \in 1..(n - 1) : Weight(ws, i) <= x.count
  BY DEF BestOf
<1>3. y = IF c > x.count \/ (c = x.count /\ n \in coins)
            THEN [branch |-> n, count |-> c] ELSE x
  BY DEF CollationTurn, Weight
<1>4. \A i \in 1..n : i \in 1..(n - 1) \/ i = n
  OBVIOUS
<1>5. \A i \in 1..n : Weight(ws, i) \in Nat
  BY WeightIsPositive
<1>6. n \in Nat /\ n > 0
  OBVIOUS
<1> HIDE DEF y
<1>7. CASE c > x.count \/ (c = x.count /\ n \in coins)
  <2>1. y \in [branch : 1..Len(ws), count : Nat] /\ y.branch = n /\ y.count = c
    BY <1>1, <1>3, <1>7
  <2>2. c >= x.count
    BY <1>1, <1>2, <1>7
  <2> HIDE DEF c
  <2>3. \A i \in 1..n : Weight(ws, i) <= y.count
    <3> TAKE i \in 1..n
    <3>1. CASE i \in 1..(n - 1)
      BY <1>1, <1>2, <1>5, <2>1, <2>2, <3>1
    <3>2. CASE i = n
      BY <1>1, <2>1, <3>2 DEF c
    <3> QED  BY <1>4, <3>1, <3>2
  <2> QED  BY <1>6, <2>1, <2>3 DEF BestOf, c
<1>8. CASE ~(c > x.count \/ (c = x.count /\ n \in coins))
  <2>1. y = x
    BY <1>3, <1>8
  <2>2. c <= x.count
    BY <1>1, <1>2, <1>8
  <2>3. n - 1 > 0
    BY <1>1, <1>2, <1>6, <2>2
  <2>4. \A i \in 1..n : Weight(ws, i) <= x.count
    BY <1>2, <1>4, <2>2
  <2> QED  BY <1>2, <1>6, <2>1, <2>3, <2>4 DEF BestOf
<1> QED  BY <1>7, <1>8

\* The loop that picks the branch.
IsPicking(best, ws, coins) ==
    best = [n \in 0..Len(ws) |->
               IF n = 0 THEN [branch |-> 1, count |-> 0]
                        ELSE CollationTurn(ws, n, best[n - 1], coins)]

\* The branch picked for collation is one of those whose worker has most.
LEMMA CollationBranchIsBest ==
    ASSUME NEW ws \in Seq(Workers), Len(ws) > 0, NEW coins,
           NEW b, b = CollationBranch(ws, coins)
    PROVE  /\ b \in 1..Len(ws)
           /\ \A i \in 1..Len(ws) : Weight(ws, i) <= Weight(ws, b)
<1> DEFINE k == Len(ws)
           base == [branch |-> 1, count |-> 0]
           X == [branch : 1..k, count : Nat]
           D == [n \in 0..k |-> {x \in X : BestOf(ws, n, x)}]
           F == [p \in (1..k) \X X |-> CollationTurn(ws, p[1], p[2], coins)]
<1>1. k \in Nat \ {0}
  OBVIOUS
<1>2. base \in D[0]
  <2>1. base \in X /\ 0 \in 0..k
    BY <1>1
  <2>2. BestOf(ws, 0, base)
    BY <2>1 DEF BestOf
  <2> QED  BY <2>1, <2>2
<1>3. ASSUME NEW n \in 1..k, NEW x \in D[n - 1]
      PROVE  F[<<n, x>>] = CollationTurn(ws, n, x, coins) /\ F[<<n, x>>] \in D[n]
  <2>1. n \in 0..k /\ n - 1 \in 0..k
    BY <1>1
  <2>2. x \in X /\ BestOf(ws, n - 1, x)
    BY <2>1
  <2>3. BestOf(ws, n, CollationTurn(ws, n, x, coins))
    BY <2>2, CollationTurnKeeps
  <2>4. CollationTurn(ws, n, x, coins) \in X
    BY <2>3 DEF BestOf
  <2>5. <<n, x>> \in (1..k) \X X
    BY <2>2
  <2>6. F[<<n, x>>] = CollationTurn(ws, n, x, coins)
    BY <2>5
  <2> QED  BY <2>1, <2>3, <2>4, <2>6
<1> HIDE DEF D, F, base
<1>4. PICK h : RunOf(h, k, base, F) /\ \A n \in 0..k : h[n] \in D[n]
  <2> HIDE DEF k
  <2> QED  BY <1>1, <1>2, <1>3, LoopRuns
<1>5. IsPicking(h, ws, coins)
  <2>1. ASSUME NEW n \in 0..k
        PROVE  (IF n = 0 THEN base ELSE F[<<n, h[n - 1]>>])
                 = IF n = 0 THEN base ELSE CollationTurn(ws, n, h[n - 1], coins)
    <3>1. CASE n # 0
      <4>1. n \in 1..k /\ n - 1 \in 0..k
        BY <1>1, <3>1
      <4> QED  BY <1>3, <1>4, <4>1
    <3> QED  BY <3>1
  <2>2. h = [n \in 0..k |-> IF n = 0 THEN base ELSE F[<<n, h[n - 1]>>]]
    BY <1>4 DEF RunOf
  <2>3. h = [n \in 0..k |-> IF n = 0 THEN base ELSE CollationTurn(ws, n, h[n - 1], coins)]
    BY <2>1, <2>2
  <2> QED  BY <2>3 DEF IsPicking, base
<1> DEFINE f == CHOOSE g : IsPicking(g, ws, coins)
<1>6. IsPicking(f, ws, coins)
  BY <1>5
<1>7. b = f[k].branch
  BY DEF CollationBranch, IsPicking
<1> HIDE DEF f
<1>8. \A n \in 0..k : f[n] = IF n = 0 THEN base ELSE CollationTurn(ws, n, f[n - 1], coins)
  <2>1. f = [n \in 0..k |-> IF n = 0 THEN base ELSE CollationTurn(ws, n, f[n - 1], coins)]
    BY <1>6 DEF IsPicking, base
  <2> QED  BY <2>1
<1>9. \A n \in 0..k : f[n] \in D[n]
  <2>1. f[0] \in D[0]
    <3>1. 0 \in 0..k
      BY <1>1
    <3>2. f[0] = base
      BY <1>8, <3>1
    <3> QED  BY <1>2, <3>2
  <2>2. \A n \in 1..k : f[n - 1] \in D[n - 1] => f[n] = F[<<n, f[n - 1]>>]
    <3> SUFFICES ASSUME NEW n \in 1..k, f[n - 1] \in D[n - 1]
                 PROVE  f[n] = F[<<n, f[n - 1]>>]
      OBVIOUS
    <3>1. n \in 0..k /\ n # 0
      BY <1>1
    <3>2. f[n] = CollationTurn(ws, n, f[n - 1], coins)
      BY <1>8, <3>1
    <3> QED  BY <1>3, <3>2
  <2>3. \A n \in 1..k : \A x \in D[n - 1] : F[<<n, x>>] \in D[n]
    BY <1>3
  <2> HIDE DEF k
  <2> QED  BY <1>1, <2>1, <2>2, <2>3, RunStays
<1>10. BestOf(ws, k, f[k])
  <2>1. k \in 0..k
    BY <1>1
  <2> QED  BY <1>9, <2>1 DEF D
<1> QED  BY <1>1, <1>7, <1>10 DEF BestOf

\* search_collate_done.
LEMMA SearchCollateDoneEnds ==
    ASSUME NEW r \in Requests, NEW t, t = <<r, 0>>, NEW s, Safe(s, {}),
           Alive(s, r), IdleBut(s, r, {}),
           NEW result \in Results, r \in s.refused <=> result = "5XX",
           NEW u, u = SearchCollateDone(s, t, result)
    PROVE  Safe(u, {}) /\ Confined(u, s, r) /\ IsFreed(u, r)
<1>1. u = Finish(s, r, result)
  BY DEF SearchCollateDone
<1> QED  BY <1>1, FinishEnds

\* The collator is chosen.
Chosen(s, r, b) == [s EXCEPT !.req[r].collator = b]

LEMMA ChosenSafe ==
    ASSUME NEW r \in Requests, NEW s, Safe(s, {}), Alive(s, r), IdleBut(s, r, {}),
           NEW b \in 1..Fanout(s, r), NEW v, v = Chosen(s, r, b)
    PROVE  /\ Safe(v, {}) /\ Confined(v, s, r) /\ Alive(v, r)
           /\ v.step = s.step /\ v.response = s.response /\ v.refused = s.refused
           /\ v.req[r].collator = b /\ v.req[r].mem_response = s.req[r].mem_response
<1> DEFINE c == [s.req[r] EXCEPT !.collator = b]
           f == [s.req EXCEPT ![r] = c]
<1>1. s \in StateType /\ s.req[r] \in Context /\ s.req \in [Requests -> Context]
  BY DEF Safe, StateType
<1>2. b \in 1..Width
  BY ConstantFacts DEF Alive
<1>3. /\ c \in Context /\ c.collator = b /\ c.mem_response = s.req[r].mem_response
      /\ c.kind = s.req[r].kind /\ c.workers = s.req[r].workers /\ c.state = s.req[r].state
  BY <1>1, <1>2 DEF Context
<1>4. v = [s EXCEPT !.req = f]
  BY <1>1 DEF Chosen, StateType
<1> HIDE DEF c
<1>5. f[r] = c /\ \A q \in Requests \ {r} : f[q] = s.req[q]
  BY <1>1
<1>6. /\ Safe(v, {})
      /\ v.step = s.step /\ v.response = s.response /\ v.refused = s.refused
      /\ v.req = f
  <2>1. Unmoved(v, s, {}, r)
    BY DEF Unmoved, IdleBut, St
  <2>2. s.req[r].state # "freed" /\ c.state # "freed"
    BY <1>3 DEF Alive
  <2>3. f = [s.req EXCEPT ![r] = c]
    OBVIOUS
  <2> HIDE DEF f
  <2> QED  BY <1>3, <1>4, <2>1, <2>2, <2>3, RequestSafe
<1> HIDE DEF f
<1>7. Confined(v, s, r)
  BY <1>3, <1>5, <1>6, ConfinedRequest
<1>8. Alive(v, r)
  BY <1>3, <1>5, <1>6 DEF Alive, Fanout
<1> QED  BY <1>3, <1>5, <1>6, <1>7, <1>8

Collate(v, r) ==
    Compute(v, <<r, 0>>, "collate", Fanout(v, r) * v.req[r].mem_response,
            SearchCollateDone)

\* Every shard answered well: collation is reserved.
LEMMA CollationLeads ==
    ASSUME NEW r \in Requests, NEW s, Safe(s, {}), AllAnswered(s, r),
           s.req[r].kind = "SEARCH", s.req[r].worst # "5XX",
           NEW coins, NEW v, v = Chosen(s, r, CollationBranch(s.req[r].workers, coins)),
           NEW u, u = Collate(v, r)
    PROVE  Safe(u, {}) /\ Confined(u, s, r) /\ (IsFreed(u, r) \/ Collating(u, r))
<1> DEFINE b == CollationBranch(s.req[r].workers, coins)
           n == Fanout(s, r)
           t == <<r, 0>>
           m == Fanout(v, r) * v.req[r].mem_response
           w == ComputeRefusal(v, t, m)
<1>1. s \in StateType /\ Alive(s, r) /\ IdleBut(s, r, {}) /\ r \notin s.refused
  BY DEF Safe, AllAnswered
<1>2. /\ n \in Nat \ {0} /\ s.req[r].workers \in Seq(Workers) /\ n = Len(s.req[r].workers)
      /\ s.req[r].mem_response \in Nat /\ 0 \in 0..Width
      /\ \A k \in 1..n : k \in 0..Width /\ <<r, k>> \in Tasks
  BY <1>1, BranchFacts DEF Fanout
<1>3. /\ b \in 1..n
      /\ \A i \in 1..n : Weight(s.req[r].workers, i) <= Weight(s.req[r].workers, b)
  BY <1>2, CollationBranchIsBest
<1> HIDE DEF b
<1>4. /\ Safe(v, {}) /\ Confined(v, s, r) /\ Alive(v, r)
      /\ v.step = s.step /\ v.response = s.response /\ v.refused = s.refused
      /\ v.req[r].collator = b /\ v.req[r].mem_response = s.req[r].mem_response
  <2>1. v = Chosen(s, r, b)
    BY DEF b
  <2> QED  BY <1>1, <1>3, <2>1, ChosenSafe
<1>5. v \in StateType /\ v.req[r].workers = s.req[r].workers /\ Fanout(v, r) = n
      /\ v.req[r].kind = "SEARCH" /\ IdleBut(v, r, {})
  BY <1>1, <1>4 DEF Safe, Confined, Fanout, IdleBut, St
<1>6. t \in Tasks /\ t[1] = r /\ t[2] = 0 /\ m \in Nat
  BY <1>2, <1>4, <1>5 DEF Tasks
<1>7. InHand(v, t)
  <2>1. At(v, t) \in Workers
    <3>1. At(v, t) = v.req[r].workers[b]
      BY <1>4, <1>6 DEF At, Slot
    <3> QED  BY <1>2, <1>3, <1>5, <3>1, ElementOfSeq
  <2>2. v.step[t] = "idle"
    BY <1>2, <1>5 DEF IdleBut, St
  <2>3. Safe(v, {t})
    BY <1>4, <1>6, CollationOwesNothing
  <2> QED  BY <1>4, <1>6, <2>1, <2>2, <2>3 DEF InHand, Alive
<1>8. u = IF ComputeRefused(v.worker[At(v, t)], m)
            THEN SearchCollateDone(w, t, "5XX")
            ELSE ComputeWait(v, t, m, "collate")
  BY DEF Collate, Compute, ComputeRefusal, ComputeWait
<1>9. "collate" \in OnCpu /\ t = <<r, 0>>
  BY DEF OnCpu
<1> HIDE DEF m, t
<1>10. CASE ComputeRefused(v.worker[At(v, t)], m)
  <2>1. u = SearchCollateDone(w, t, "5XX")
    BY <1>8, <1>10
  <2>2. Refuses(w, v, t)
    BY <1>6, <1>7, <1>9, <1>10, ComputeTried
  <2> HIDE DEF w
  <2>3. Safe(w, {})
    BY <1>6, <2>2, CollationOwesNothing DEF Refuses
  <2>4. Alive(w, r) /\ IdleBut(w, r, {}) /\ r \in w.refused /\ Confined(w, v, r)
    BY <1>4, <1>5, <1>6, <2>2 DEF Refuses, Alive, Fanout, IdleBut, St
  <2>5. Safe(u, {}) /\ Confined(u, w, r) /\ IsFreed(u, r)
    BY <1>9, <2>1, <2>3, <2>4, SearchCollateDoneEnds DEF Results
  <2> QED  BY <1>4, <2>4, <2>5, ConfinedTrans
<1>11. CASE ~ComputeRefused(v.worker[At(v, t)], m)
  <2>1. u = ComputeWait(v, t, m, "collate")
    BY <1>8, <1>11
  <2>2. Waits(u, v, t, "collate")
    BY <1>6, <1>7, <1>9, <1>11, <2>1, ComputeTried
  <2>3. Safe(u, {}) /\ Confined(u, v, r)
    BY <1>6, <2>2 DEF Waits
  <2>4. /\ u.req = v.req /\ u.response = s.response /\ u.refused = s.refused
        /\ u.step = [v.step EXCEPT ![<<r, 0>>] = "collate"]
    BY <1>4, <1>9, <2>2 DEF Waits
  <2>5. St(u, r, 0) = "collate" /\ \A i \in 0..Width : i # 0 => St(u, r, i) = St(v, r, i)
    <3>1. 0 \in 0..Width /\ v \in StateType
      BY <1>2, <1>5
    <3>2. u.step = [v.step EXCEPT ![<<r, 0>>] = "collate"]
      BY <2>4
    <3> QED  BY <3>1, <3>2, StepsAfter
  <2>6. IdleBut(u, r, {0})
    BY <1>5, <2>5 DEF IdleBut
  <2>7. \A i \in 1..n : Rs(u, r, i) = "4XX"
    <3>1. First(s, r) = 1
      BY DEF First
    <3>2. \A i \in 1..n : Rs(s, r, i) # "5XX"
      BY <3>1 DEF AllAnswered
    <3>3. \A i \in 1..n : Rs(s, r, i) \in {"4XX", "5XX"}
      BY <1>1, <1>2 DEF StateType, Rs, Results
    <3> QED  BY <2>4, <3>2, <3>3 DEF Rs
  <2>8. Alive(u, r) /\ u.req[r].kind = "SEARCH" /\ Fanout(u, r) = n
    BY <1>4, <1>5, <2>4 DEF Alive, Fanout
  <2>9. /\ u.req[r].collator \in 1..n
        /\ \A i \in 1..n :
             Weight(u.req[r].workers, i) <= Weight(u.req[r].workers, u.req[r].collator)
    BY <1>3, <1>4, <1>5, <2>4
  <2> HIDE DEF n
  <2>10. Collating(u, r)
    BY <1>1, <2>4, <2>5, <2>6, <2>7, <2>8, <2>9 DEF Collating
  <2> QED  BY <1>4, <2>3, <2>10, ConfinedTrans
<1> QED  BY <1>10, <1>11

\* search_shard_finished.
LEMMA SearchShardFinishedLeads ==
    ASSUME NEW r \in Requests, NEW k \in 0..Width, NEW s, Safe(s, {}),
           NEW up, Gathering(s, r, up, {k}, "4XX"), s.req[r].kind = "SEARCH",
           NEW coins, NEW u, u = SearchShardFinished(s, r, Rs(s, r, k), coins)
    PROVE  Safe(u, {}) /\ Confined(u, s, r) /\ Settled(u, r, up)
<1> DEFINE g == Gather(s, r, Rs(s, r, k))
           n == Fanout(g, r)
           d == g.req[r].done
           v == Chosen(g, r, CollationBranch(g.req[r].workers, coins))
           x == Collate(v, r)
<1>1. Answers(g, s, r, up)
  <2>1. g = Gather(s, r, Rs(s, r, k))
    OBVIOUS
  <2> HIDE DEF g
  <2> QED  BY <2>1, GatherAnswered
<1> HIDE DEF g
<1>2. /\ Safe(g, {}) /\ Confined(g, s, r) /\ d \in Nat /\ g.req[r].kind = "SEARCH"
      /\ First(g, r) = 1
  BY <1>1 DEF Answers, Confined, First
<1>3. n \in Nat /\ n - First(g, r) + 1 = n
  <2>1. Alive(g, r)
    BY <1>1 DEF Answers, Gathering, AllAnswered
  <2>2. n \in Nat
    BY <1>2, <2>1, BranchFacts DEF Safe
  <2> HIDE DEF n
  <2> QED  BY <1>2, <2>2
<1>4. /\ d < n => u = g
      /\ ~(d < n) /\ d >= n /\ g.req[r].worst = "5XX" => u = Finish(g, r, "5XX")
      /\ ~(d < n) /\ g.req[r].worst # "5XX" => u = x
  <2>1. u = CASE d < n -> g
              [] d >= n /\ g.req[r].worst = "5XX" -> Finish(g, r, "5XX")
              [] OTHER -> x
    BY DEF SearchShardFinished, Chosen, Collate, g
  <2> HIDE DEF x, n, d
  <2>2. d < n => u = g
    BY <1>2, <1>3, <2>1
  <2>3. ~(d < n) /\ d >= n /\ g.req[r].worst = "5XX" => u = Finish(g, r, "5XX")
    BY <2>1
  <2>4. ~(d < n) /\ g.req[r].worst # "5XX" => u = x
    BY <2>1
  <2> QED  BY <2>2, <2>3, <2>4
<1>5. CASE d < n
  <2>1. Gathering(g, r, up, {}, "4XX")
    BY <1>1, <1>3, <1>5 DEF Answers
  <2> QED  BY <1>4, <1>2, <1>5, <2>1 DEF Settled
<1>6. CASE ~(d < n)
  <2>1. up = n /\ AllAnswered(g, r) /\ d >= n
    <3>1. d = n /\ up = n /\ AllAnswered(g, r)
      BY <1>1, <1>3, <1>6 DEF Answers
    <3> HIDE DEF d, n
    <3> QED  BY <1>2, <1>3, <3>1
  <2>2. Safe(u, {}) /\ Confined(u, g, r) /\ (IsFreed(u, r) \/ Collating(u, r))
    <3>1. CASE g.req[r].worst = "5XX"
      <4>1. u = Finish(g, r, "5XX")
        BY <1>4, <1>6, <2>1, <3>1
      <4>2. Alive(g, r) /\ IdleBut(g, r, {}) /\ r \in g.refused
        BY <2>1, <3>1 DEF AllAnswered
      <4> QED  BY <1>2, <4>1, <4>2, FinishEnds DEF Results
    <3>2. CASE g.req[r].worst # "5XX"
      <4>1. u = x
        BY <1>4, <1>6, <3>2
      <4>2. v = Chosen(g, r, CollationBranch(g.req[r].workers, coins))
        OBVIOUS
      <4>3. x = Collate(v, r)
        OBVIOUS
      <4> HIDE DEF x, v
      <4> QED  BY <1>2, <2>1, <3>2, <4>1, <4>2, <4>3, CollationLeads
    <3> QED  BY <3>1, <3>2
  <2>3. Fanout(u, r) = n
    BY <2>2 DEF Confined, Fanout
  <2> QED  BY <1>2, <2>1, <2>2, <2>3, ConfinedTrans DEF Settled
<1> QED  BY <1>5, <1>6

\* A branch of a SEARCH is in hand.
SearchHand(s, r, k, up, result) ==
    BranchHand(s, r, k, up, result) /\ s.req[r].kind = "SEARCH"

\* search_phase_response_done.
LEMMA SearchResponseDoneLeads ==
    ASSUME NEW r \in Requests, NEW k, NEW t, t = <<r, k>>, NEW s, Safe(s, {t}),
           NEW up, NEW result \in Results, SearchHand(s, r, k, up, result),
           NEW coins, NEW u, u = SearchResponseDone(s, t, result, coins)
    PROVE  Safe(u, {}) /\ Confined(u, s, r) /\ Settled(u, r, up)
<1> DEFINE v == Written(s, t, result)
<1>1. u = SearchShardFinished(v, r, Note(s, t, result).response[t], coins)
  BY DEF SearchResponseDone, Written
<1>2. /\ Safe(v, {}) /\ Confined(v, s, r) /\ BranchHand(v, r, k, up, "4XX")
      /\ v.req = s.req /\ k \in 0..Width
      /\ Note(s, t, result).response[t] = Rs(v, r, k)
  <2>1. v = Written(s, t, result) /\ BranchHand(s, r, k, up, result)
    BY DEF SearchHand
  <2> HIDE DEF v
  <2>2. /\ Safe(v, {}) /\ Confined(v, s, r) /\ BranchHand(v, r, k, up, "4XX")
        /\ SameContexts(v, s) /\ k \in 0..Width /\ Replies(s, v, r, k, result)
    BY <2>1, HandWritten
  <2> QED  BY <2>2 DEF SameContexts, Replies
<1> HIDE DEF v
<1>3. Gathering(v, r, up, {k}, "4XX") /\ v.req[r].kind = "SEARCH"
  BY <1>2 DEF BranchHand, IsPrimary, SearchHand
<1>4. Safe(u, {}) /\ Confined(u, v, r) /\ Settled(u, r, up)
  <2>1. u = SearchShardFinished(v, r, Rs(v, r, k), coins)
    BY <1>1, <1>2
  <2> QED  BY <1>2, <1>3, <2>1, SearchShardFinishedLeads
<1> QED  BY <1>2, <1>4, ConfinedTrans

\* search_phase_disk_done: the response is reserved whatever came before.
LEMMA SearchDiskDoneLeads ==
    ASSUME NEW r \in Requests, NEW k, NEW t, t = <<r, k>>, NEW s, Safe(s, {t}),
           NEW up, NEW result \in Results, SearchHand(s, r, k, up, result),
           NEW coins, NEW u, u = SearchDiskDone(s, t, result, coins)
    PROVE  Safe(u, {}) /\ Confined(u, s, r) /\ Settled(u, r, up)
<1> DEFINE m == s.req[t[1]].mem_response
           x == Note(s, t, result)
           v == ComputeRefusal(x, t, m)
<1>1. /\ Safe(x, {t}) /\ Confined(x, s, r) /\ BranchHand(x, r, k, up, "4XX")
      /\ x.req = s.req
  <2>1. x = Note(s, t, result) /\ BranchHand(s, r, k, up, result)
    BY DEF SearchHand
  <2> HIDE DEF x
  <2> QED  BY <2>1, HandNoted DEF SameContexts
<1>2. u = IF ComputeRefused(x.worker[At(x, t)], m)
            THEN SearchResponseDone(v, t, "5XX", coins)
            ELSE ComputeWait(x, t, m, "response")
  BY DEF SearchDiskDone, Compute, ComputeRefusal, ComputeWait
<1>3. t[1] = r /\ m \in Nat
  BY BranchInHand DEF SearchHand
<1> HIDE DEF x, m
<1>4. /\ InHand(x, t) /\ k \in 0..Width /\ x \in StateType /\ x.req[r].kind = "SEARCH"
      /\ "response" \in OnCpu
  BY <1>1, BranchInHand DEF SearchHand, OnCpu
<1>5. CASE ComputeRefused(x.worker[At(x, t)], m)
  <2>1. u = SearchResponseDone(v, t, "5XX", coins)
    BY <1>2, <1>5
  <2>2. Refuses(v, x, t)
    BY <1>3, <1>4, <1>5, ComputeTried
  <2> HIDE DEF v
  <2>3. SearchHand(v, r, k, up, "5XX")
    BY <1>1, <1>4, <2>2, HandRefused DEF SearchHand, Refuses
  <2>4. Safe(v, {t}) /\ Confined(v, x, r)
    BY <1>3, <2>2 DEF Refuses
  <2>5. Safe(u, {}) /\ Confined(u, v, r) /\ Settled(u, r, up)
    BY <2>1, <2>3, <2>4, SearchResponseDoneLeads DEF Results
  <2> QED  BY <1>1, <2>4, <2>5, ConfinedTrans
<1>6. CASE ~ComputeRefused(x.worker[At(x, t)], m)
  <2>1. u = ComputeWait(x, t, m, "response")
    BY <1>2, <1>6
  <2>2. Waits(u, x, t, "response")
    BY <1>3, <1>4, <1>6, <2>1, ComputeTried
  <2>3. BranchSettled(u, r, k, up) /\ u.req = x.req
    BY <1>1, <1>4, <2>2, HandWaits DEF Waits
  <2>4. Settled(u, r, up)
    BY <1>4, <2>3 DEF BranchSettled, IsPrimary
  <2>5. Safe(u, {}) /\ Confined(u, x, r)
    BY <1>3, <2>2 DEF Waits
  <2> QED  BY <1>1, <2>4, <2>5, ConfinedTrans
<1> QED  BY <1>5, <1>6

\* search_phase_compute_done: the disk is read whatever came before.
LEMMA SearchComputeDoneLeads ==
    ASSUME NEW r \in Requests, NEW k, NEW t, t = <<r, k>>, NEW s, Safe(s, {t}),
           NEW up, NEW result \in Results, SearchHand(s, r, k, up, result),
           NEW coins, NEW u, u = SearchComputeDone(s, t, result, coins)
    PROVE  Safe(u, {}) /\ Confined(u, s, r) /\ Settled(u, r, up)
<1> DEFINE m == s.req[t[1]].mem_response
           x == Note(s, t, result)
           v == DiskRefusal(x, t, m)
<1>1. /\ Safe(x, {t}) /\ Confined(x, s, r) /\ BranchHand(x, r, k, up, "4XX")
      /\ x.req = s.req
  <2>1. x = Note(s, t, result) /\ BranchHand(s, r, k, up, result)
    BY DEF SearchHand
  <2> HIDE DEF x
  <2> QED  BY <2>1, HandNoted DEF SameContexts
<1>2. u = IF DiskRefused(x.worker[At(x, t)], m)
            THEN SearchDiskDone(v, t, "5XX", coins)
            ELSE DiskWait(x, t, m)
  BY DEF SearchComputeDone, Disk, DiskRefusal, DiskWait
<1>3. t[1] = r /\ m \in Nat
  BY BranchInHand DEF SearchHand
<1> HIDE DEF x, m
<1>4. InHand(x, t) /\ k \in 0..Width /\ x \in StateType /\ x.req[r].kind = "SEARCH"
  BY <1>1, BranchInHand DEF SearchHand
<1>5. CASE DiskRefused(x.worker[At(x, t)], m)
  <2>1. u = SearchDiskDone(v, t, "5XX", coins)
    BY <1>2, <1>5
  <2>2. Refuses(v, x, t)
    BY <1>3, <1>4, <1>5, DiskTried
  <2> HIDE DEF v
  <2>3. SearchHand(v, r, k, up, "5XX")
    BY <1>1, <1>4, <2>2, HandRefused DEF SearchHand, Refuses
  <2>4. Safe(v, {t}) /\ Confined(v, x, r)
    BY <1>3, <2>2 DEF Refuses
  <2>5. Safe(u, {}) /\ Confined(u, v, r) /\ Settled(u, r, up)
    BY <2>1, <2>3, <2>4, SearchDiskDoneLeads DEF Results
  <2> QED  BY <1>1, <2>4, <2>5, ConfinedTrans
<1>6. CASE ~DiskRefused(x.worker[At(x, t)], m)
  <2>1. u = DiskWait(x, t, m)
    BY <1>2, <1>6
  <2>2. Waits(u, x, t, "disk")
    BY <1>3, <1>4, <1>6, <2>1, DiskTried
  <2>3. BranchSettled(u, r, k, up) /\ u.req = x.req
    BY <1>1, <1>4, <2>2, HandWaits DEF Waits
  <2>4. Settled(u, r, up)
    BY <1>4, <2>3 DEF BranchSettled, IsPrimary
  <2>5. Safe(u, {}) /\ Confined(u, x, r)
    BY <1>3, <2>2 DEF Waits
  <2> QED  BY <1>1, <2>4, <2>5, ConfinedTrans
<1> QED  BY <1>5, <1>6

\* One turn of the launching loop of search_phase_arrived.
LEMMA SearchLaunchLeads ==
    ASSUME NEW r \in Requests, NEW k, NEW t, t = <<r, k>>, NEW s, Safe(s, {}),
           CanLaunch(s, r, k), s.req[r].kind = "SEARCH",
           NEW coins, NEW u, u = SearchLaunch(s, t, coins)
    PROVE  Safe(u, {}) /\ Confined(u, s, r) /\ Settled(u, r, k)
<1> DEFINE m == s.req[t[1]].mem
           x == Launched(s, t)
           v == ComputeRefusal(x, t, m)
<1>1. u = IF ComputeRefused(x.worker[At(x, t)], m)
            THEN SearchComputeDone(v, t, "5XX", coins)
            ELSE ComputeWait(x, t, m, "compute")
  BY DEF SearchLaunch, Launched, Compute, ComputeRefusal, ComputeWait
<1>2. /\ Safe(x, {t}) /\ Confined(x, s, r) /\ BranchHand(x, r, k, k, "4XX")
      /\ x.req = s.req
  <2>1. x = Launched(s, t)
    OBVIOUS
  <2> HIDE DEF x
  <2> QED  BY <2>1, HandLaunched DEF SameContexts
<1> HIDE DEF x
<1>3. InHand(x, t) /\ x \in StateType /\ k \in 0..Width /\ t[1] = r /\ m \in Nat
  BY <1>2, BranchInHand
<1>4. x.req[r].kind = "SEARCH" /\ "compute" \in OnCpu
  BY <1>2 DEF OnCpu
<1> HIDE DEF m
<1>5. CASE ComputeRefused(x.worker[At(x, t)], m)
  <2>1. u = SearchComputeDone(v, t, "5XX", coins)
    BY <1>1, <1>5
  <2>2. Refuses(v, x, t)
    BY <1>3, <1>4, <1>5, ComputeTried
  <2> HIDE DEF v
  <2>3. SearchHand(v, r, k, k, "5XX")
    BY <1>2, <1>4, <2>2, HandRefused DEF SearchHand, Refuses
  <2>4. Safe(v, {t}) /\ Confined(v, x, r)
    BY <1>3, <2>2 DEF Refuses
  <2>5. Safe(u, {}) /\ Confined(u, v, r) /\ Settled(u, r, k)
    BY <2>1, <2>3, <2>4, SearchComputeDoneLeads DEF Results
  <2> QED  BY <1>2, <2>4, <2>5, ConfinedTrans
<1>6. CASE ~ComputeRefused(x.worker[At(x, t)], m)
  <2>1. u = ComputeWait(x, t, m, "compute")
    BY <1>1, <1>6
  <2>2. Waits(u, x, t, "compute")
    BY <1>3, <1>4, <1>6, <2>1, ComputeTried
  <2>3. BranchSettled(u, r, k, k) /\ u.req = x.req
    BY <1>2, <1>3, <2>2, HandWaits DEF Waits
  <2>4. Settled(u, r, k)
    BY <1>4, <2>3 DEF BranchSettled, IsPrimary
  <2>5. Safe(u, {}) /\ Confined(u, x, r)
    BY <1>3, <2>2 DEF Waits
  <2> QED  BY <1>2, <2>4, <2>5, ConfinedTrans
<1> QED  BY <1>5, <1>6

-----------------------------------------------------------------------------
(* The launching loops.                                                    *)

\* One turn: a branch is started, then the loop's test reads the context.
Turn(x, r, i, put, coins) ==
    Touch(IF put THEN PutStartWrite(x, <<r, i>>) ELSE SearchLaunch(x, <<r, i>>, coins), r)

\* g is the states before and after every turn.
FanoutRun(g, s, r, from, to, put, coins) ==
    g = [i \in (from - 1)..to |-> IF i < from THEN Touch(s, r)
                                              ELSE Turn(g[i - 1], r, i, put, coins)]

\* Every loop has its run: the least bound without one would have a predecessor.
LEMMA FanoutRunExists ==
    ASSUME NEW s, NEW r, NEW put, NEW coins, NEW from \in {1, 2}, NEW to \in Nat,
           to >= from - 1
    PROVE  \E g : FanoutRun(g, s, r, from, to, put, coins)
<1> DEFINE P(k) == \E g : FanoutRun(g, s, r, from, k, put, coins)
           T == {k \in Nat : k >= from - 1 /\ ~P(k)}
<1> SUFFICES ASSUME ~P(to)  PROVE FALSE
  OBVIOUS
<1>1. T \in SUBSET Nat /\ T # {}
  BY DEF T
<1>2. PICK m \in T : \A k \in T : m <= k
  <2> HIDE DEF T
  <2> QED  BY <1>1, LeastNatural
<1>3. m \in Nat /\ m >= from - 1 /\ ~P(m) /\ from \in Nat
  OBVIOUS
<1>4. CASE m = from - 1
  <2> DEFINE g == [i \in (from - 1)..m |-> Touch(s, r)]
  <2>1. g = [i \in (from - 1)..m |-> IF i < from THEN Touch(s, r)
                                                  ELSE Turn(g[i - 1], r, i, put, coins)]
    BY <1>3, <1>4
  <2>2. FanoutRun(g, s, r, from, m, put, coins)
    BY <2>1 DEF FanoutRun
  <2> QED  BY <1>3, <2>2
<1>5. CASE m # from - 1
  <2>1. m - 1 \in Nat /\ m - 1 >= from - 1 /\ m - 1 < m
    BY <1>3, <1>5
  <2>2. m - 1 \notin T
    <3> HIDE DEF T
    <3> QED  BY <1>2, <1>3, <2>1
  <2>3. PICK g : FanoutRun(g, s, r, from, m - 1, put, coins)
    <3>1. P(m - 1)
      BY <2>1, <2>2
    <3> QED  BY <3>1
  <2> DEFINE h == [i \in (from - 1)..m |-> IF i = m THEN Turn(g[m - 1], r, m, put, coins)
                                                     ELSE g[i]]
  <2>4. \A i \in (from - 1)..(m - 1) :
           g[i] = IF i < from THEN Touch(s, r) ELSE Turn(g[i - 1], r, i, put, coins)
    <3>1. g = [i \in (from - 1)..(m - 1) |->
                 IF i < from THEN Touch(s, r) ELSE Turn(g[i - 1], r, i, put, coins)]
      BY <2>3 DEF FanoutRun
    <3> QED  BY <3>1
  <2>5. ASSUME NEW i \in (from - 1)..m
        PROVE  h[i] = IF i < from THEN Touch(s, r) ELSE Turn(h[i - 1], r, i, put, coins)
    <3>1. CASE i = m
      <4>1. ~(i < from) /\ i - 1 \in (from - 1)..m /\ i - 1 # m
        BY <1>3, <2>1, <3>1
      <4>2. h[i - 1] = g[m - 1]
        BY <3>1, <4>1
      <4> QED  BY <3>1, <4>1, <4>2
    <3>2. CASE i # m
      <4>1. i \in (from - 1)..(m - 1)
        BY <1>3, <3>2
      <4>2. h[i] = g[i]
        BY <3>2
      <4>3. ~(i < from) => h[i - 1] = g[i - 1]
        <5>1. ~(i < from) => i - 1 \in (from - 1)..m /\ i - 1 # m
          BY <1>3, <4>1
        <5> QED  BY <5>1
      <4> HIDE DEF h
      <4> QED  BY <2>4, <4>1, <4>2, <4>3
    <3> QED  BY <3>1, <3>2
  <2>6. FanoutRun(h, s, r, from, m, put, coins)
    <3>1. h = [i \in (from - 1)..m |-> h[i]]
      OBVIOUS
    <3> HIDE DEF h
    <3>2. h = [i \in (from - 1)..m |-> IF i < from THEN Touch(s, r)
                                                    ELSE Turn(h[i - 1], r, i, put, coins)]
      BY <2>5, <3>1
    <3> QED  BY <3>2 DEF FanoutRun
  <2> QED  BY <1>3, <2>6
<1> QED  BY <1>4, <1>5

\* The two loops, as runs.
LEMMA PutLoop ==
    ASSUME NEW s, NEW r, NEW to \in Nat, to >= 1, NEW coins
    PROVE  \E g : /\ FanoutRun(g, s, r, 2, to, TRUE, coins)
                  /\ ForBranches(s, r, 2, to, PutStartWrite) = g[to]
<1> DEFINE IsRun(g) ==
      g = [i \in (2 - 1)..to |-> IF i < 2 THEN Touch(s, r)
                                          ELSE Touch(PutStartWrite(g[i - 1], <<r, i>>), r)]
<1>1. ForBranches(s, r, 2, to, PutStartWrite) = (CHOOSE g : IsRun(g))[to]
  BY DEF ForBranches
<1>2. \A g : FanoutRun(g, s, r, 2, to, TRUE, coins) <=> IsRun(g)
  BY DEF FanoutRun, Turn
<1>3. \E g : FanoutRun(g, s, r, 2, to, TRUE, coins)
  <2>1. 2 \in {1, 2} /\ to >= 2 - 1
    OBVIOUS
  <2> QED  BY <2>1, FanoutRunExists
<1>4. IsRun(CHOOSE g : IsRun(g))
  <2> HIDE DEF IsRun
  <2> QED  BY <1>2, <1>3
<1> HIDE DEF IsRun
<1> QED  BY <1>1, <1>2, <1>4

LEMMA SearchLoop ==
    ASSUME NEW s, NEW r, NEW coins, Fanout(s, r) \in Nat
    PROVE  \E g : /\ FanoutRun(g, s, r, 1, Fanout(s, r), FALSE, coins)
                  /\ SearchStart(s, r, coins) = g[Fanout(s, r)]
<1> DEFINE to == Fanout(s, r)
           IsRun(g) ==
      g = [i \in (1 - 1)..to |-> IF i < 1 THEN Touch(s, r)
                                          ELSE Touch(SearchLaunch(g[i - 1], <<r, i>>, coins), r)]
<1>1. SearchStart(s, r, coins) = (CHOOSE g : IsRun(g))[to]
  BY DEF SearchStart, ForBranches
<1>2. \A g : FanoutRun(g, s, r, 1, to, FALSE, coins) <=> IsRun(g)
  BY DEF FanoutRun, Turn
<1>3. \E g : FanoutRun(g, s, r, 1, to, FALSE, coins)
  <2> HIDE DEF to
  <2>1. to \in Nat
    BY DEF to
  <2>2. 1 \in {1, 2} /\ to >= 1 - 1
    BY <2>1
  <2> QED  BY <2>1, <2>2, FanoutRunExists
<1>4. IsRun(CHOOSE g : IsRun(g))
  <2> HIDE DEF IsRun
  <2> QED  BY <1>2, <1>3
<1> HIDE DEF IsRun
<1> QED  BY <1>1, <1>2, <1>4

LEMMA SettledFrame ==
    ASSUME NEW s, NEW u, SameRequests(u, s), NEW r, NEW up, Settled(s, r, up)
    PROVE  Settled(u, r, up)
<1>1. /\ u.req = s.req /\ u.step = s.step /\ u.response = s.response
      /\ u.refused = s.refused
  BY DEF SameRequests
<1>2. Gathering(s, r, up, {}, "4XX") => Gathering(u, r, up, {}, "4XX")
  BY GatheringFrame
<1>3. /\ Fanout(u, r) = Fanout(s, r) /\ (IsFreed(u, r) <=> IsFreed(s, r))
      /\ Alive(u, r) <=> Alive(s, r)
  BY <1>1 DEF Fanout, IsFreed, Alive, IdleBut, St
<1>4. Collating(s, r) => Collating(u, r)
  BY <1>1, <1>3 DEF Collating, IdleBut, St, Rs
<1> QED  BY <1>2, <1>3, <1>4 DEF Settled

\* One turn starts the next branch, unless the loop is over.
LEMMA TurnLeads ==
    ASSUME NEW r \in Requests, NEW s, Safe(s, {}), NEW k,
           k \in First(s, r)..Fanout(s, r), Settled(s, r, k - 1), Fanout(s, r) \in Nat,
           NEW put \in BOOLEAN, s.req[r].kind \in {"PUT", "SEARCH"},
           put <=> s.req[r].kind = "PUT",
           NEW coins, NEW u, u = Turn(s, r, k, put, coins)
    PROVE  Safe(u, {}) /\ Confined(u, s, r) /\ Settled(u, r, k)
<1> DEFINE t == <<r, k>>
           v == IF put THEN PutStartWrite(s, t) ELSE SearchLaunch(s, t, coins)
<1>1. First(s, r) \in {1, 2} /\ k \in Nat /\ k - 1 # Fanout(s, r)
  <2>1. First(s, r) \in {1, 2}
    BY DEF First
  <2> QED  BY <2>1
<1>2. CanLaunch(s, r, k) /\ ~IsPrimary(s, r, k)
  <2>1. Gathering(s, r, k - 1, {}, "4XX")
    BY <1>1 DEF Settled
  <2>2. ~IsPrimary(s, r, k)
    BY <1>1 DEF IsPrimary, First
  <2> QED  BY <2>1, <2>2 DEF CanLaunch
<1>3. Safe(v, {}) /\ Confined(v, s, r) /\ Settled(v, r, k)
  <2>1. CASE put
    <3>1. v = PutStartWrite(s, t) /\ s.req[r].kind = "PUT"
      BY <2>1
    <3> HIDE DEF v
    <3>2. Safe(v, {}) /\ Confined(v, s, r) /\ BranchSettled(v, r, k, k)
      BY <1>2, <3>1, PutStartWriteLeads
    <3>3. ~IsPrimary(v, r, k)
      BY <1>2, <3>2 DEF IsPrimary, Confined
    <3> QED  BY <3>2, <3>3 DEF BranchSettled
  <2>2. CASE ~put
    <3>1. v = SearchLaunch(s, t, coins) /\ s.req[r].kind = "SEARCH"
      BY <2>2
    <3> HIDE DEF v
    <3> QED  BY <1>2, <3>1, SearchLaunchLeads
  <2> QED  BY <2>1, <2>2
<1>4. u = Touch(v, r)
  BY DEF Turn
<1> HIDE DEF v
<1>5. Safe(u, {}) /\ SameRequests(u, v)
  BY <1>3, <1>4, TouchSafe
<1> QED  BY <1>3, <1>5, SettledFrame, ConfinedSame, ConfinedTrans

\* A loop starts every branch.
LEMMA LoopLeads ==
    ASSUME NEW r \in Requests, NEW s, Safe(s, {}), NEW from, from = First(s, r),
           NEW n \in Nat, n = Fanout(s, r), Gathering(s, r, from - 1, {}, "4XX"),
           NEW put \in BOOLEAN, put <=> s.req[r].kind = "PUT",
           NEW coins, NEW g, FanoutRun(g, s, r, from, n, put, coins)
    PROVE  Safe(g[n], {}) /\ Confined(g[n], s, r) /\ Settled(g[n], r, n)
<1> DEFINE P(k) == Safe(g[k], {}) /\ Confined(g[k], s, r) /\ Settled(g[k], r, k)
           T == {k \in Nat : k \in (from - 1)..n /\ ~P(k)}
<1>1. /\ from \in {1, 2} /\ s.req[r].kind \in {"PUT", "SEARCH"} /\ from - 1 <= n
      /\ from - 1 \in Nat
  <2>1. from \in {1, 2}
    BY DEF First
  <2>2. s.req[r].kind \in {"PUT", "SEARCH"} /\ from - 1 \in (from - 1)..n
    BY DEF Gathering
  <2> QED  BY <2>1, <2>2
<1>2. \A i \in (from - 1)..n :
         g[i] = IF i < from THEN Touch(s, r) ELSE Turn(g[i - 1], r, i, put, coins)
  <2>1. g = [i \in (from - 1)..n |-> IF i < from THEN Touch(s, r)
                                                 ELSE Turn(g[i - 1], r, i, put, coins)]
    BY DEF FanoutRun
  <2> QED  BY <2>1
<1>3. P(from - 1)
  <2>1. g[from - 1] = Touch(s, r)
    BY <1>1, <1>2
  <2>2. Safe(g[from - 1], {}) /\ SameRequests(g[from - 1], s)
    BY <2>1, TouchSafe
  <2>3. Settled(s, r, from - 1)
    BY DEF Settled
  <2> QED  BY <2>2, <2>3, SettledFrame, ConfinedSame
<1>4. ASSUME NEW k \in Nat, k \in from..n, P(k - 1)  PROVE P(k)
  <2>1. g[k] = Turn(g[k - 1], r, k, put, coins)
    <3>1. k \in (from - 1)..n /\ ~(k < from)
      BY <1>1, <1>4
    <3> QED  BY <1>2, <3>1
  <2> DEFINE x == g[k - 1]
  <2>2. Safe(x, {}) /\ Confined(x, s, r) /\ Settled(x, r, k - 1)
    BY <1>4
  <2>3. /\ x.req[r].kind = s.req[r].kind /\ First(x, r) = from /\ Fanout(x, r) = n
    BY <2>2 DEF Confined, First, Fanout
  <2> HIDE DEF x
  <2>4. PICK y : y = Turn(x, r, k, put, coins)
    OBVIOUS
  <2>5. Safe(y, {}) /\ Confined(y, x, r) /\ Settled(y, r, k)
    BY <1>1, <1>4, <2>2, <2>3, <2>4, TurnLeads
  <2>6. g[k] = y
    BY <2>1, <2>4 DEF x
  <2> QED  BY <2>2, <2>5, <2>6, ConfinedTrans
<1> HIDE DEF P
<1>5. T = {}
  <2>1. SUFFICES ASSUME T # {}  PROVE FALSE
    OBVIOUS
  <2>2. PICK m \in T : \A k \in T : m <= k
    <3>1. T \in SUBSET Nat
      OBVIOUS
    <3> HIDE DEF T
    <3> QED  BY <2>1, <3>1, LeastNatural
  <2>3. m \in Nat /\ m \in (from - 1)..n /\ ~P(m)
    OBVIOUS
  <2>4. m # from - 1
    BY <1>3, <2>3
  <2>5. m - 1 \in Nat /\ m - 1 \in (from - 1)..n /\ m - 1 < m /\ m \in from..n
    BY <1>1, <2>3, <2>4
  <2>6. m - 1 \notin T
    <3> HIDE DEF T
    <3> QED  BY <2>2, <2>3, <2>5
  <2>7. P(m - 1)
    BY <2>5, <2>6
  <2> QED  BY <1>4, <2>3, <2>5, <2>7
<1>6. P(n)
  <2>1. n \in (from - 1)..n
    BY <1>1
  <2> QED  BY <1>5, <2>1
<1> QED  BY <1>6 DEF P

-----------------------------------------------------------------------------
(* What follows the primary of a PUT, and the arrival of a SEARCH.         *)

\* The gather of the replicas begins.
Reset(s, r) == [s EXCEPT !.req[r].done = 0, !.req[r].worst = "4XX"]

LEMMA ResetSafe ==
    ASSUME NEW r \in Requests, NEW s, Safe(s, {}), Alive(s, r), IdleBut(s, r, {}),
           NEW v, v = Reset(s, r)
    PROVE  /\ Safe(v, {}) /\ Confined(v, s, r) /\ Alive(v, r)
           /\ v.step = s.step /\ v.response = s.response /\ v.refused = s.refused
           /\ v.req[r].done = 0 /\ v.req[r].worst = "4XX"
<1> DEFINE c == [s.req[r] EXCEPT !.done = 0, !.worst = "4XX"]
           f == [s.req EXCEPT ![r] = c]
<1>1. s \in StateType /\ s.req[r] \in Context /\ s.req \in [Requests -> Context]
  BY DEF Safe, StateType
<1>2. 0 \in 0..Width
  BY ConstantFacts
<1>3. /\ c \in Context /\ c.done = 0 /\ c.worst = "4XX"
      /\ c.kind = s.req[r].kind /\ c.workers = s.req[r].workers /\ c.state = s.req[r].state
      /\ c.collator = s.req[r].collator
  BY <1>1, <1>2 DEF Context, Results
<1>4. v = [s EXCEPT !.req = f]
  BY <1>1 DEF Reset, StateType, Context
<1> HIDE DEF c
<1>5. f[r] = c /\ \A q \in Requests \ {r} : f[q] = s.req[q]
  BY <1>1
<1>6. /\ Safe(v, {})
      /\ v.step = s.step /\ v.response = s.response /\ v.refused = s.refused
      /\ v.req = f
  <2>1. Unmoved(v, s, {}, r)
    BY DEF Unmoved, IdleBut, St
  <2>2. s.req[r].state # "freed" /\ c.state # "freed"
    BY <1>3 DEF Alive
  <2>3. f = [s.req EXCEPT ![r] = c]
    OBVIOUS
  <2> HIDE DEF f
  <2> QED  BY <1>3, <1>4, <2>1, <2>2, <2>3, RequestSafe
<1> HIDE DEF f
<1>7. Confined(v, s, r)
  BY <1>3, <1>5, <1>6, ConfinedRequest
<1>8. Alive(v, r)
  BY <1>3, <1>5, <1>6 DEF Alive, Fanout
<1> QED  BY <1>3, <1>5, <1>6, <1>7, <1>8

\* put_primary_done: an error or a lone primary ends the request, otherwise
\* every replica is started.
LEMMA PutPrimaryDoneLeads ==
    ASSUME NEW r \in Requests, NEW s, Safe(s, {}), PrimaryHand(s, r, "4XX"),
           s.req[r].kind = "PUT", NEW result \in Results, result = Rs(s, r, 1),
           NEW u, u = PutPrimaryDone(s, r, result)
    PROVE  Safe(u, {}) /\ Confined(u, s, r) /\ Settled(u, r, Fanout(u, r))
<1> DEFINE n == Fanout(s, r)
           v == Reset(s, r)
<1>1. Alive(s, r) /\ IdleBut(s, r, {}) /\ (r \in s.refused <=> result = "5XX")
  BY DEF PrimaryHand
<1>2. n \in Nat \ {0} /\ s \in StateType
  BY <1>1, BranchFacts DEF Safe
<1>3. CASE result = "5XX" \/ n = 1
  <2>1. u = Finish(s, r, result)
    BY <1>3 DEF PutPrimaryDone, PutPrimaryEnds
  <2> QED  BY <1>1, <2>1, FinishEnds DEF Settled
<1>4. CASE ~(result = "5XX" \/ n = 1)
  <2>1. u = ForBranches(v, r, 2, n, PutStartWrite)
    BY <1>4 DEF PutPrimaryDone, Reset
  <2>2. /\ Safe(v, {}) /\ Confined(v, s, r) /\ Alive(v, r)
        /\ v.step = s.step /\ v.response = s.response /\ v.refused = s.refused
        /\ v.req[r].done = 0 /\ v.req[r].worst = "4XX"
    <3>1. v = Reset(s, r)
      OBVIOUS
    <3> HIDE DEF v
    <3> QED  BY <1>1, <3>1, ResetSafe
  <2> HIDE DEF v
  <2>3. First(v, r) = 2 /\ Fanout(v, r) = n /\ v.req[r].kind = "PUT"
    BY <2>2 DEF Confined, First, Fanout
  <2> HIDE DEF n
  <2>4. Gathering(v, r, 1, {}, "4XX")
    <3>1. 2..1 = {}
      OBVIOUS
    <3>2. Answered(v, r, 1, {}) = {}
      BY <2>3, <3>1 DEF Answered
    <3>3. Cardinality({}) = 0
      BY FS_EmptySet
    <3>4. 0 < n - 2 + 1 /\ 1 \in (2 - 1)..n
      BY <1>2, <1>4
    <3>5. IdleBut(v, r, {})
      BY <1>1, <2>2 DEF IdleBut, St
    <3>6. Rs(v, r, 1) = "4XX" /\ r \notin v.refused
      BY <1>1, <1>4, <2>2 DEF Rs, Results
    <3> QED  BY <2>2, <2>3, <3>1, <3>2, <3>3, <3>4, <3>5, <3>6 DEF Gathering
  <2>5. PICK g : FanoutRun(g, v, r, 2, n, TRUE, 0) /\ u = g[n]
    <3>1. n \in Nat /\ n >= 1
      BY <1>2
    <3> QED  BY <2>1, <3>1, PutLoop
  <2>6. Safe(g[n], {}) /\ Confined(g[n], v, r) /\ Settled(g[n], r, n)
    <3>1. Gathering(v, r, 2 - 1, {}, "4XX") /\ n \in Nat /\ TRUE \in BOOLEAN
      BY <1>2, <2>4
    <3>2. TRUE <=> v.req[r].kind = "PUT"
      BY <2>3
    <3> QED  BY <2>2, <2>3, <2>5, <3>1, <3>2, LoopLeads
  <2>7. Fanout(u, r) = n
    BY <2>3, <2>5, <2>6 DEF Confined, Fanout
  <2> QED  BY <2>2, <2>5, <2>6, <2>7, ConfinedTrans
<1> QED  BY <1>3, <1>4

\* put_write_disk_done, called back by the event that ends the write.
LEMMA PutDiskDoneLeads ==
    ASSUME NEW r \in Requests, NEW k, NEW t, t = <<r, k>>, NEW s, Safe(s, {t}),
           BranchHand(s, r, k, Fanout(s, r), "4XX"), s.req[r].kind = "PUT",
           NEW u, u = PutDiskDone(s, t, "4XX")
    PROVE  Safe(u, {}) /\ Confined(u, s, r) /\ Settled(u, r, Fanout(u, r))
<1> DEFINE v == Written(s, t, "4XX")
           n == Fanout(s, r)
<1>1. u = IF At(v, t) = v.req[r].workers[1] THEN PutPrimaryDone(v, r, v.response[t])
                                            ELSE PutReplicaDone(v, r, v.response[t])
  BY DEF PutDiskDone, PutWriteDone, Written
<1>2. /\ Safe(v, {}) /\ Confined(v, s, r) /\ BranchHand(v, r, k, n, "4XX")
      /\ v.req = s.req /\ v.response[t] = Rs(v, r, k) /\ k \in 0..Width
      /\ Rs(v, r, k) \in Results
      /\ At(v, t) = v.req[r].workers[1] <=> k = 1
  <2>1. v = Written(s, t, "4XX") /\ "4XX" \in Results
    BY DEF Results
  <2> HIDE DEF v
  <2>2. /\ Safe(v, {}) /\ Confined(v, s, r) /\ BranchHand(v, r, k, n, "4XX")
        /\ SameContexts(v, s) /\ k \in 0..Width /\ Replies(s, v, r, k, "4XX")
        /\ KnowsPrimary(v, r, k)
    BY <2>1, HandWritten
  <2> QED  BY <2>2 DEF SameContexts, Replies, KnowsPrimary
<1> HIDE DEF v
<1>3. CASE k = 1
  <2>1. PICK x \in Results : x = Rs(v, r, 1)
    BY <1>2, <1>3
  <2>2. u = PutPrimaryDone(v, r, x) /\ PrimaryHand(v, r, "4XX")
    BY <1>1, <1>2, <1>3, <2>1 DEF BranchHand, IsPrimary
  <2>3. Safe(u, {}) /\ Confined(u, v, r) /\ Settled(u, r, Fanout(u, r))
    BY <1>2, <2>1, <2>2, PutPrimaryDoneLeads
  <2> QED  BY <1>2, <2>3, ConfinedTrans
<1>4. CASE k # 1
  <2>1. u = PutReplicaDone(v, r, Rs(v, r, k))
    BY <1>1, <1>2, <1>4
  <2>2. Gathering(v, r, n, {k}, "4XX") /\ v.req[r].kind = "PUT"
    BY <1>2, <1>4 DEF BranchHand, IsPrimary
  <2>3. Safe(u, {}) /\ Confined(u, v, r) /\ Settled(u, r, n)
    <3> HIDE DEF n
    <3> QED  BY <1>2, <2>1, <2>2, PutReplicaDoneLeads
  <2>4. Fanout(u, r) = n
    BY <1>2, <2>3 DEF Confined, Fanout
  <2> QED  BY <1>2, <2>3, <2>4, ConfinedTrans
<1> QED  BY <1>3, <1>4

\* search_phase_arrived, from its launching loop on.
LEMMA SearchStartLeads ==
    ASSUME NEW r \in Requests, NEW s, Safe(s, {}), Gathering(s, r, 0, {}, "4XX"),
           s.req[r].kind = "SEARCH", NEW coins, NEW u, u = SearchStart(s, r, coins)
    PROVE  Safe(u, {}) /\ Confined(u, s, r) /\ Settled(u, r, Fanout(u, r))
<1> DEFINE n == Fanout(s, r)
<1>1. n \in Nat /\ First(s, r) = 1
  BY BranchFacts DEF Safe, Gathering, First
<1>2. PICK g : FanoutRun(g, s, r, 1, n, FALSE, coins) /\ u = g[n]
  BY <1>1, SearchLoop
<1>3. Safe(g[n], {}) /\ Confined(g[n], s, r) /\ Settled(g[n], r, n)
  <2>1. Gathering(s, r, 1 - 1, {}, "4XX") /\ n = Fanout(s, r) /\ FALSE \in BOOLEAN
    OBVIOUS
  <2>2. FALSE <=> s.req[r].kind = "PUT"
    OBVIOUS
  <2> HIDE DEF n
  <2> QED  BY <1>1, <1>2, <2>1, <2>2, LoopLeads
<1>4. Fanout(u, r) = n
  BY <1>2, <1>3 DEF Confined, Fanout
<1> QED  BY <1>2, <1>3, <1>4

\* With every branch started, a request in a settled state is ready for its
\* next event.
LEMMA SettledIsReady ==
    ASSUME NEW s, NEW r, Settled(s, r, Fanout(s, r))
    PROVE  Ready(s, r)
BY DEF Settled, Ready

LEMMA BranchSettledIsReady ==
    ASSUME NEW s, NEW u, NEW r, NEW k, Confined(u, s, r),
           BranchSettled(u, r, k, Fanout(s, r))
    PROVE  Ready(u, r)
<1>1. Fanout(u, r) = Fanout(s, r)
  BY DEF Confined, Fanout
<1> QED  BY <1>1, SettledIsReady DEF BranchSettled, Ready

-----------------------------------------------------------------------------
(* The events.                                                             *)

\* Task t, which was waiting, is in hand.
Resumed(v, s, t) ==
    /\ Safe(v, {t}) /\ Confined(v, s, t[1])
    /\ v.req = s.req /\ v.response = s.response /\ v.refused = s.refused
    /\ v.step = [s.step EXCEPT ![t] = "idle"]

LEMMA ResumeSafe ==
    ASSUME NEW s, Safe(s, {}), NEW t \in Tasks, NEW w \in Workers,
           At(s, t) = w, s.step[t] # "idle",
           NEW z, WorkerInv(z),
           Running(z) \cup Waiting(z) = (Running(s.worker[w]) \cup Waiting(s.worker[w])) \ {t},
           z.io = s.worker[w].io \ {t},
           NEW v, v = Resume(s, w, z, t)
    PROVE  Resumed(v, s, t)
<1>1. /\ Safe(v, {t})
      /\ v.req = s.req /\ v.response = s.response /\ v.refused = s.refused
      /\ v.step = [s.step EXCEPT ![t] = "idle"]
  BY ReservationEndSafe
<1>2. v.step = [s.step EXCEPT ![<<t[1], t[2]>>] = "idle"]
  BY <1>1, TaskFacts
<1>3. Confined(v, s, t[1])
  BY <1>1, <1>2, TaskFacts, ConfinedStep DEF Safe
<1> QED  BY <1>1, <1>3 DEF Resumed

\* Which branch of a request can be resumed, and what it then holds.
LEMMA ResumedCollation ==
    ASSUME NEW r \in Requests, NEW k \in 0..Width, NEW t, t = <<r, k>>,
           NEW s, Safe(s, {}), Ready(s, r), s.step[t] = "collate",
           NEW v, Resumed(v, s, t)
    PROVE  /\ k = 0 /\ Safe(v, {}) /\ Confined(v, s, r)
           /\ Alive(v, r) /\ IdleBut(v, r, {}) /\ r \notin v.refused
<1>1. St(s, r, k) = "collate"
  BY DEF St
<1>2. Collating(s, r)
  <2>1. ~IsNew(s, r) /\ ~IsFreed(s, r)
    BY <1>1 DEF IsNew, IsFreed, IdleBut
  <2>2. ~GetWaits(s, r) /\ ~PrimaryWaits(s, r)
    BY <1>1 DEF GetWaits, PrimaryWaits, IdleBut
  <2>3. ~Gathering(s, r, Fanout(s, r), {}, "4XX")
    BY <1>1 DEF Gathering, IdleBut
  <2> QED  BY <2>1, <2>2, <2>3 DEF Ready
<1>3. k = 0
  BY <1>1, <1>2 DEF Collating, IdleBut
<1>4. /\ v.req = s.req /\ v.refused = s.refused
      /\ v.step = [s.step EXCEPT ![<<r, k>>] = "idle"] /\ Safe(v, {t})
      /\ Confined(v, s, r) /\ s \in StateType
  BY DEF Resumed, Safe
<1>5. St(v, r, k) = "idle" /\ \A i \in 0..Width : i # k => St(v, r, i) = St(s, r, i)
  BY <1>4, StepsAfter
<1>6. Alive(v, r) /\ IdleBut(v, r, {}) /\ r \notin v.refused
  BY <1>2, <1>3, <1>4, <1>5 DEF Collating, Alive, Fanout, IdleBut
<1>7. t[2] = 0
  BY <1>3
<1>8. Safe(v, {})
  BY <1>4, <1>7, CollationOwesNothing
<1> QED  BY <1>3, <1>4, <1>6, <1>8

LEMMA ResumedBranch ==
    ASSUME NEW r \in Requests, NEW k \in 0..Width, NEW t, t = <<r, k>>,
           NEW s, Safe(s, {}), Ready(s, r), s.step[t] # "idle", s.step[t] # "collate",
           NEW v, Resumed(v, s, t)
    PROVE  /\ v.req[r].kind = s.req[r].kind /\ s.req[r].kind \in {"GET", "PUT", "SEARCH"}
           /\ s.step[t] = "response" => s.req[r].kind = "SEARCH"
           /\ s.req[r].kind = "GET" => k = 1 /\ GetHand(v, r, "4XX")
           /\ s.req[r].kind # "GET" => BranchHand(v, r, k, Fanout(v, r), "4XX")
<1>1. St(s, r, k) # "idle" /\ St(s, r, k) # "collate" /\ St(s, r, k) = s.step[t]
  BY DEF St
<1>2. /\ v.req = s.req /\ v.response = s.response /\ v.refused = s.refused
      /\ v.step = [s.step EXCEPT ![<<r, k>>] = "idle"] /\ s \in StateType
  BY DEF Resumed, Safe
<1>3. St(v, r, k) = "idle" /\ \A i \in 0..Width : i # k => St(v, r, i) = St(s, r, i)
  BY <1>2, StepsAfter
<1>4. \/ GetWaits(s, r) \/ PrimaryWaits(s, r)
      \/ Gathering(s, r, Fanout(s, r), {}, "4XX")
  <2>1. ~IsNew(s, r) /\ ~IsFreed(s, r)
    BY <1>1 DEF IsNew, IsFreed, IdleBut
  <2>2. ~Collating(s, r)
    BY <1>1 DEF Collating, IdleBut
  <2> QED  BY <2>1, <2>2 DEF Ready
<1>5. CASE GetWaits(s, r)
  <2>1. k = 1 /\ s.req[r].kind = "GET" /\ s.step[t] # "response"
    BY <1>1, <1>5 DEF GetWaits, IdleBut
  <2>2. Alive(v, r) /\ IdleBut(v, r, {}) /\ r \notin v.refused
    BY <1>2, <1>3, <1>5, <2>1 DEF GetWaits, Alive, Fanout, IdleBut
  <2> QED  BY <1>2, <2>1, <2>2 DEF GetHand
<1>6. CASE PrimaryWaits(s, r)
  <2>1. k = 1 /\ s.req[r].kind = "PUT" /\ s.step[t] # "response"
    BY <1>1, <1>6 DEF PrimaryWaits, IdleBut
  <2>2. Alive(v, r) /\ IdleBut(v, r, {})
    BY <1>2, <1>3, <1>6, <2>1 DEF PrimaryWaits, Alive, Fanout, IdleBut
  <2>3. r \in v.refused <=> Rs(v, r, 1) = "5XX"
    BY <1>2, <1>6 DEF PrimaryWaits, Rs
  <2> QED  BY <1>2, <2>1, <2>2, <2>3 DEF BranchHand, IsPrimary, PrimaryHand
<1>7. CASE Gathering(s, r, Fanout(s, r), {}, "4XX")
  <2>1. /\ Gathering(v, r, Fanout(v, r), {k}, "4XX")
        /\ k \in First(s, r)..Fanout(s, r) /\ k \in 1..Fanout(s, r)
    BY <1>1, <1>2, <1>7, GatherResumed
  <2>2. s.req[r].kind \in {"PUT", "SEARCH"}
    BY <1>7 DEF Gathering
  <2>3. s.step[t] = "response" => s.req[r].kind = "SEARCH"
    <3>1. St(s, r, k) \in {"idle", "compute", "disk"} \cup
                          (IF s.req[r].kind = "PUT" THEN {} ELSE {"response"})
      BY <1>7, <2>1 DEF Gathering
    <3> QED  BY <1>1, <2>2, <3>1
  <2>4. ~IsPrimary(v, r, k)
    <3>1. k # 1 \/ s.req[r].kind # "PUT"
      BY <2>1 DEF First
    <3> QED  BY <1>2, <3>1 DEF IsPrimary
  <2> QED  BY <1>2, <2>1, <2>2, <2>3, <2>4 DEF BranchHand
<1> QED  BY <1>4, <1>5, <1>6, <1>7

\* cpu_reserve_done runs the continuation that its task waits for.
LEMMA ComputeContinuesAs ==
    ASSUME NEW s \in StateType, NEW t \in Tasks, NEW w \in Workers, NEW z,
           NEW coins, NEW v, v = Resume(s, w, z, t),
           NEW u, u = ComputeContinues(Freeing(s, w, z), t, coins)
    PROVE  /\ s.step[t] = "collate" => u = SearchCollateDone(v, t, "4XX")
           /\ s.step[t] = "response" => u = SearchResponseDone(v, t, "4XX", coins)
           /\ s.step[t] = "compute" =>
                /\ s.req[t[1]].kind = "GET" => u = GetComputeDone(v, t, "4XX")
                /\ s.req[t[1]].kind = "PUT" => u = PutComputeDone(v, t, "4XX")
                /\ s.req[t[1]].kind = "SEARCH" =>
                     u = SearchComputeDone(v, t, "4XX", coins)
<1> DEFINE x == Freeing(s, w, z)
<1>1. x.req = s.req /\ x.step = s.step
  BY DEF Freeing, StateType
<1>2. v = [Touch(x, t[1]) EXCEPT !.step[t] = "idle"]
  BY DEF Resume
<1> HIDE DEF x
<1>3. u = CASE s.step[t] = "collate"  -> SearchCollateDone(v, t, "4XX")
            [] s.step[t] = "response" -> SearchResponseDone(v, t, "4XX", coins)
            [] s.step[t] = "compute" /\ s.req[t[1]].kind = "GET" ->
                  GetComputeDone(v, t, "4XX")
            [] s.step[t] = "compute" /\ s.req[t[1]].kind = "PUT" ->
                  PutComputeDone(v, t, "4XX")
            [] s.step[t] = "compute" /\ s.req[t[1]].kind = "SEARCH" ->
                  SearchComputeDone(v, t, "4XX", coins)
  <2>1. u = ComputeContinues(x, t, coins)
    BY DEF x
  <2> QED  BY <1>1, <1>2, <2>1 DEF ComputeContinues
<1> QED  BY <1>3

\* disk_reserve_done likewise.
LEMMA DiskContinuesAs ==
    ASSUME NEW s \in StateType, NEW t \in Tasks, NEW w \in Workers, NEW z,
           NEW coins, NEW v, v = Resume(s, w, z, t),
           NEW u, u = DiskContinues(Freeing(s, w, z), t, coins)
    PROVE  /\ s.req[t[1]].kind = "GET" => u = GetDiskDone(v, t, "4XX")
           /\ s.req[t[1]].kind = "PUT" => u = PutDiskDone(v, t, "4XX")
           /\ s.req[t[1]].kind = "SEARCH" => u = SearchDiskDone(v, t, "4XX", coins)
<1> DEFINE x == Freeing(s, w, z)
<1>1. x.req = s.req /\ x.step = s.step
  BY DEF Freeing, StateType
<1>2. v = [Touch(x, t[1]) EXCEPT !.step[t] = "idle"]
  BY DEF Resume
<1> HIDE DEF x
<1>3. u = CASE s.req[t[1]].kind = "GET"    -> GetDiskDone(v, t, "4XX")
            [] s.req[t[1]].kind = "PUT"    -> PutDiskDone(v, t, "4XX")
            [] s.req[t[1]].kind = "SEARCH" -> SearchDiskDone(v, t, "4XX", coins)
  <2>1. u = DiskContinues(x, t, coins)
    BY DEF x
  <2> QED  BY <1>1, <1>2, <2>1 DEF DiskContinues
<1> QED  BY <1>3

\* The end of a compute reservation leaves its request ready for more.
LEMMA ComputeContinuesLeads ==
    ASSUME NEW r \in Requests, NEW k \in 0..Width, NEW t, t = <<r, k>>, t \in Tasks,
           NEW s, Safe(s, {}), Ready(s, r), s.step[t] \in OnCpu,
           NEW w \in Workers, NEW z, Resumed(Resume(s, w, z, t), s, t),
           NEW coins, NEW u, u = ComputeContinues(Freeing(s, w, z), t, coins)
    PROVE  Safe(u, {}) /\ Confined(u, s, r) /\ Ready(u, r)
<1>1. PICK v : v = Resume(s, w, z, t)
  OBVIOUS
<1>2. /\ s \in StateType /\ Resumed(v, s, t) /\ Safe(v, {t}) /\ Confined(v, s, r)
      /\ "4XX" \in Results
  BY <1>1 DEF Safe, Resumed, Results
<1>3. /\ s.step[t] = "collate" => u = SearchCollateDone(v, t, "4XX")
      /\ s.step[t] = "response" => u = SearchResponseDone(v, t, "4XX", coins)
      /\ s.step[t] = "compute" =>
           /\ s.req[r].kind = "GET" => u = GetComputeDone(v, t, "4XX")
           /\ s.req[r].kind = "PUT" => u = PutComputeDone(v, t, "4XX")
           /\ s.req[r].kind = "SEARCH" => u = SearchComputeDone(v, t, "4XX", coins)
  <2>1. t[1] = r
    OBVIOUS
  <2>2. /\ s.step[t] = "collate" => u = SearchCollateDone(v, t, "4XX")
        /\ s.step[t] = "response" => u = SearchResponseDone(v, t, "4XX", coins)
        /\ s.step[t] = "compute" =>
             /\ s.req[t[1]].kind = "GET" => u = GetComputeDone(v, t, "4XX")
             /\ s.req[t[1]].kind = "PUT" => u = PutComputeDone(v, t, "4XX")
             /\ s.req[t[1]].kind = "SEARCH" =>
                  u = SearchComputeDone(v, t, "4XX", coins)
    BY <1>1, <1>2, ComputeContinuesAs
  <2> QED  BY <2>1, <2>2
<1>4. CASE s.step[t] = "collate"
  <2>1. /\ k = 0 /\ Safe(v, {})
        /\ Alive(v, r) /\ IdleBut(v, r, {}) /\ r \notin v.refused
    BY <1>2, <1>4, ResumedCollation
  <2>2. u = SearchCollateDone(v, t, "4XX") /\ t = <<r, 0>>
    BY <1>3, <1>4, <2>1
  <2>3. Safe(u, {}) /\ Confined(u, v, r) /\ IsFreed(u, r)
    <3>1. r \in v.refused <=> "4XX" = "5XX"
      BY <2>1
    <3> QED  BY <1>2, <2>1, <2>2, <3>1, SearchCollateDoneEnds
  <2> QED  BY <1>2, <2>3, ConfinedTrans DEF Ready
<1>5. CASE s.step[t] # "collate"
  <2>1. s.step[t] \in {"compute", "response"} /\ s.step[t] # "idle"
    BY <1>5 DEF OnCpu
  <2>2. /\ v.req[r].kind = s.req[r].kind /\ s.req[r].kind \in {"GET", "PUT", "SEARCH"}
        /\ s.step[t] = "response" => s.req[r].kind = "SEARCH"
        /\ s.req[r].kind = "GET" => k = 1 /\ GetHand(v, r, "4XX")
        /\ s.req[r].kind # "GET" => BranchHand(v, r, k, Fanout(v, r), "4XX")
    BY <1>2, <1>5, <2>1, ResumedBranch
  <2>3. CASE s.req[r].kind = "GET"
    <3>1. u = GetComputeDone(v, t, "4XX") /\ t = <<r, 1>> /\ GetHand(v, r, "4XX")
      BY <1>3, <2>1, <2>2, <2>3
    <3>2. Safe(u, {}) /\ Confined(u, v, r) /\ (IsFreed(u, r) \/ GetWaits(u, r))
      BY <1>2, <3>1, GetComputeDoneLeads
    <3> QED  BY <1>2, <3>2, ConfinedTrans DEF Ready
  <2>4. CASE s.req[r].kind = "PUT"
    <3>1. u = PutComputeDone(v, t, "4XX") /\ BranchHand(v, r, k, Fanout(v, r), "4XX")
      BY <1>3, <2>1, <2>2, <2>4
    <3>2. Safe(u, {}) /\ Confined(u, v, r) /\ BranchSettled(u, r, k, Fanout(v, r))
      BY <1>2, <2>2, <2>4, <3>1, PutComputeDoneLeads
    <3> QED  BY <1>2, <3>2, BranchSettledIsReady, ConfinedTrans
  <2>5. CASE s.req[r].kind = "SEARCH"
    <3>1. SearchHand(v, r, k, Fanout(v, r), "4XX")
      BY <2>2, <2>5 DEF SearchHand
    <3>2. Safe(u, {}) /\ Confined(u, v, r) /\ Settled(u, r, Fanout(v, r))
      <4>1. CASE s.step[t] = "response"
        <5>1. u = SearchResponseDone(v, t, "4XX", coins)
          BY <1>3, <4>1
        <5> QED  BY <1>2, <3>1, <5>1, SearchResponseDoneLeads
      <4>2. CASE s.step[t] = "compute"
        <5>1. u = SearchComputeDone(v, t, "4XX", coins)
          BY <1>3, <2>5, <4>2
        <5> QED  BY <1>2, <3>1, <5>1, SearchComputeDoneLeads
      <4> QED  BY <2>1, <4>1, <4>2
    <3>3. Fanout(u, r) = Fanout(v, r)
      BY <3>2 DEF Confined, Fanout
    <3> QED  BY <1>2, <3>2, <3>3, SettledIsReady, ConfinedTrans
  <2> QED  BY <2>2, <2>3, <2>4, <2>5
<1> QED  BY <1>4, <1>5

\* So does the end of a disk reservation.
LEMMA DiskContinuesLeads ==
    ASSUME NEW r \in Requests, NEW k \in 0..Width, NEW t, t = <<r, k>>, t \in Tasks,
           NEW s, Safe(s, {}), Ready(s, r), s.step[t] = "disk",
           NEW w \in Workers, NEW z, Resumed(Resume(s, w, z, t), s, t),
           NEW coins, NEW u, u = DiskContinues(Freeing(s, w, z), t, coins)
    PROVE  Safe(u, {}) /\ Confined(u, s, r) /\ Ready(u, r)
<1>1. PICK v : v = Resume(s, w, z, t)
  OBVIOUS
<1>2. /\ s \in StateType /\ Resumed(v, s, t) /\ Safe(v, {t}) /\ Confined(v, s, r)
      /\ "4XX" \in Results /\ t[1] = r
  BY <1>1 DEF Safe, Resumed, Results
<1>3. /\ s.req[t[1]].kind = "GET" => u = GetDiskDone(v, t, "4XX")
      /\ s.req[t[1]].kind = "PUT" => u = PutDiskDone(v, t, "4XX")
      /\ s.req[t[1]].kind = "SEARCH" => u = SearchDiskDone(v, t, "4XX", coins)
  BY <1>1, <1>2, DiskContinuesAs
<1>4. /\ v.req[r].kind = s.req[r].kind /\ s.req[r].kind \in {"GET", "PUT", "SEARCH"}
      /\ s.req[r].kind = "GET" => k = 1 /\ GetHand(v, r, "4XX")
      /\ s.req[r].kind # "GET" => BranchHand(v, r, k, Fanout(v, r), "4XX")
  <2>1. s.step[t] # "idle" /\ s.step[t] # "collate"
    OBVIOUS
  <2> QED  BY <1>2, <2>1, ResumedBranch
<1>5. CASE s.req[r].kind = "GET"
  <2>1. u = GetDiskDone(v, t, "4XX") /\ t = <<r, 1>> /\ GetHand(v, r, "4XX")
    BY <1>2, <1>3, <1>4, <1>5
  <2>2. Safe(u, {}) /\ Confined(u, v, r) /\ IsFreed(u, r)
    BY <1>2, <2>1, GetDiskDoneEnds
  <2> QED  BY <1>2, <2>2, ConfinedTrans DEF Ready
<1>6. CASE s.req[r].kind = "PUT"
  <2>1. u = PutDiskDone(v, t, "4XX") /\ BranchHand(v, r, k, Fanout(v, r), "4XX")
    BY <1>2, <1>3, <1>4, <1>6
  <2>2. Safe(u, {}) /\ Confined(u, v, r) /\ Settled(u, r, Fanout(u, r))
    BY <1>2, <1>4, <1>6, <2>1, PutDiskDoneLeads
  <2> QED  BY <1>2, <2>2, SettledIsReady, ConfinedTrans
<1>7. CASE s.req[r].kind = "SEARCH"
  <2>1. u = SearchDiskDone(v, t, "4XX", coins) /\ SearchHand(v, r, k, Fanout(v, r), "4XX")
    BY <1>2, <1>3, <1>4, <1>7 DEF SearchHand
  <2>2. Safe(u, {}) /\ Confined(u, v, r) /\ Settled(u, r, Fanout(v, r))
    BY <1>2, <2>1, SearchDiskDoneLeads
  <2>3. Fanout(u, r) = Fanout(v, r)
    BY <2>2 DEF Confined, Fanout
  <2> QED  BY <1>2, <2>2, <2>3, SettledIsReady, ConfinedTrans
<1> QED  BY <1>4, <1>5, <1>6, <1>7

\* A step for one request, which it leaves ready, keeps the invariant.
LEMMA BecomesKeeps ==
    ASSUME Inv, NEW r \in Requests, NEW u, Safe(u, {}), Elsewhere(u, State, r),
           Ready(u, r), Becomes(u)
    PROVE  Inv'
<1>1. State' = u
  BY DEF Becomes, Safe, StateType, State
<1>2. ASSUME NEW q \in Requests  PROVE Ready(u, q)
  <2>1. CASE q = r
    BY <2>1
  <2>2. CASE q # r
    <3>1. Ready(State, q) /\ q \in Requests \ {r}
      BY <2>2 DEF Inv
    <3> QED  BY <3>1, ReadyElsewhere
  <2> QED  BY <2>1, <2>2
<1>3. Safe(State', {}) /\ \A q \in Requests : Ready(State', q)
  BY <1>1, <1>2
<1> QED  BY <1>3 DEF Inv

LEMMA CpuEventKeeps ==
    ASSUME Inv, NEW w \in Workers, NEW c \in Cpus, CpuEvent(w, c)
    PROVE  Inv'
<1> DEFINE s == State
           z == CpuDone(worker[w], c)
           t == worker[w].task[c]
<1>1. /\ Safe(s, {}) /\ s \in StateType /\ Placed(s)
      /\ s.worker = worker /\ worker \in [Workers -> WorkerState]
  BY DEF Inv, Safe, StateType, State
<1>2. PICK coins : Becomes(ComputeContinues([s EXCEPT !.worker[w] = CpuDone(@, c)], t, coins))
  BY DEF CpuEvent
<1>3. [s EXCEPT !.worker[w] = CpuDone(@, c)] = Freeing(s, w, z)
  BY <1>1 DEF Freeing
<1>4. WorkerInv(worker[w]) /\ c \in Busy(worker[w])
  BY <1>1 DEF Placed, CpuEvent
<1>5. /\ WorkerInv(z) /\ z.io = worker[w].io /\ t \in Jobs
      /\ Running(z) \cup Waiting(z) = (Running(worker[w]) \cup Waiting(worker[w])) \ {t}
  BY <1>4, CpuDoneKeeps
<1>6. t \in Running(worker[w])
  BY <1>4 DEF Running
<1> HIDE DEF z, t, s
<1>7. t \in Tasks /\ t[1] \in Requests /\ t[2] \in 0..Width /\ t = <<t[1], t[2]>>
  BY <1>5, RequestsAssumption, TaskFacts
<1>8. s.step[t] \in OnCpu /\ At(s, t) = w /\ s.step[t] # "idle" /\ s.step[t] # "disk"
  <2>1. s.step[t] \in OnCpu /\ At(s, t) = w
    BY <1>1, <1>6, <1>7 DEF Placed
  <2> QED  BY <2>1 DEF OnCpu
<1>9. z.io = s.worker[w].io \ {t}
  <2>1. t \notin worker[w].io
    BY <1>1, <1>7, <1>8 DEF Placed
  <2> QED  BY <1>1, <1>5, <2>1
<1>10. PICK v : v = Resume(s, w, z, t)
  OBVIOUS
<1>11. Resumed(v, s, t)
  BY <1>1, <1>5, <1>7, <1>8, <1>9, <1>10, ResumeSafe
<1>12. PICK u : u = ComputeContinues(Freeing(s, w, z), t, coins)
  OBVIOUS
<1>13. PICK r \in Requests, k \in 0..Width : t = <<r, k>>
  BY <1>7
<1>14. Safe(u, {}) /\ Confined(u, s, r) /\ Ready(u, r)
  <2>1. Resumed(Resume(s, w, z, t), s, t)
    BY <1>10, <1>11
  <2>2. Ready(s, r)
    BY DEF Inv, s
  <2> QED  BY <1>1, <1>7, <1>8, <1>12, <1>13, <2>1, <2>2, ComputeContinuesLeads
<1>15. Becomes(u)
  BY <1>2, <1>3, <1>12 DEF s, t, z
<1>16. Elsewhere(u, s, r)
  BY <1>14 DEF Confined, Elsewhere
<1> QED  BY <1>14, <1>15, <1>16, BecomesKeeps DEF s

LEMMA DiskEventKeeps ==
    ASSUME Inv, NEW w \in Workers, NEW t \in Tasks, DiskEvent(w, t)
    PROVE  Inv'
<1> DEFINE s == State
           z == DiskDone(worker[w], t)
<1>1. /\ Safe(s, {}) /\ s \in StateType /\ Placed(s)
      /\ s.worker = worker /\ worker \in [Workers -> WorkerState]
  BY DEF Inv, Safe, StateType, State
<1>2. PICK coins : Becomes(DiskContinues([s EXCEPT !.worker[w] = DiskDone(@, t)], t, coins))
  BY DEF DiskEvent
<1>3. [s EXCEPT !.worker[w] = DiskDone(@, t)] = Freeing(s, w, z)
  BY <1>1 DEF Freeing
<1>4. WorkerInv(worker[w]) /\ t \in worker[w].io
  BY <1>1 DEF Placed, DiskEvent
<1>5. /\ WorkerInv(z) /\ z.io = worker[w].io \ {t}
      /\ Running(z) = Running(worker[w]) /\ Waiting(z) = Waiting(worker[w])
  BY <1>4, DiskDoneKeeps
<1> HIDE DEF z, s
<1>6. s.step[t] = "disk" /\ At(s, t) = w
  BY <1>1, <1>4 DEF Placed
<1>7. Running(z) \cup Waiting(z) = (Running(s.worker[w]) \cup Waiting(s.worker[w])) \ {t}
  <2>1. t \notin Running(worker[w]) \cup Waiting(worker[w])
    <3>1. "disk" \notin OnCpu
      BY DEF OnCpu
    <3> QED  BY <1>1, <1>6, <3>1 DEF Placed
  <2> QED  BY <1>1, <1>5, <2>1
<1>8. PICK v : v = Resume(s, w, z, t)
  OBVIOUS
<1>9. Resumed(v, s, t)
  <2>1. z.io = s.worker[w].io \ {t} /\ s.step[t] # "idle"
    BY <1>1, <1>5, <1>6
  <2> QED  BY <1>1, <1>5, <1>6, <1>7, <1>8, <2>1, ResumeSafe
<1>10. PICK u : u = DiskContinues(Freeing(s, w, z), t, coins)
  OBVIOUS
<1>11. PICK r \in Requests, k \in 0..Width : t = <<r, k>>
  BY TaskFacts
<1>12. Safe(u, {}) /\ Confined(u, s, r) /\ Ready(u, r)
  <2>1. Resumed(Resume(s, w, z, t), s, t)
    BY <1>8, <1>9
  <2>2. Ready(s, r)
    BY DEF Inv, s
  <2> QED  BY <1>1, <1>6, <1>10, <1>11, <2>1, <2>2, DiskContinuesLeads
<1>13. Becomes(u)
  BY <1>2, <1>3, <1>10 DEF s, z
<1>14. Elsewhere(u, s, r)
  BY <1>12 DEF Confined, Elsewhere
<1> QED  BY <1>12, <1>13, <1>14, BecomesKeeps DEF s

-----------------------------------------------------------------------------
(* The arrivals.                                                           *)

\* A new request is given its context.
Arrival(s, r, c) == [s EXCEPT !.req[r] = c]

LEMMA ArrivalSafe ==
    ASSUME NEW r \in Requests, NEW s, Safe(s, {}), IsNew(s, r),
           NEW c \in Context, c.state = "live", Len(c.workers) \in 1..Width,
           c.kind = "PUT" => NoRepeats(c.workers),
           NEW x, x = Arrival(s, r, c)
    PROVE  /\ Safe(x, {}) /\ Elsewhere(x, s, r)
           /\ x.req[r] = c /\ Fanout(x, r) = Len(c.workers)
           /\ Alive(x, r) /\ IdleBut(x, r, {}) /\ r \notin x.refused
<1> DEFINE f == [s.req EXCEPT ![r] = c]
<1>1. s \in StateType /\ s.req \in [Requests -> Context]
  BY DEF Safe, StateType
<1>2. x = [s EXCEPT !.req = f]
  BY <1>1 DEF Arrival, StateType
<1>3. f[r] = c /\ \A q \in Requests \ {r} : f[q] = s.req[q]
  BY <1>1
<1>4. /\ Safe(x, {})
      /\ x.step = s.step /\ x.response = s.response /\ x.refused = s.refused
      /\ x.req = f
  <2>1. Unmoved(x, s, {}, r)
    BY DEF Unmoved, IsNew, IdleBut, St
  <2>2. s.req[r].state # "freed" /\ c.state # "freed"
    BY DEF IsNew
  <2>3. f = [s.req EXCEPT ![r] = c]
    OBVIOUS
  <2> HIDE DEF f
  <2> QED  BY <1>2, <2>1, <2>2, <2>3, RequestSafe
<1> HIDE DEF f
<1>5. Elsewhere(x, s, r)
  BY <1>3, <1>4 DEF Elsewhere
<1>6. Fanout(x, r) = Len(c.workers) /\ Alive(x, r)
  BY <1>3, <1>4 DEF Alive, Fanout
<1>7. IdleBut(x, r, {}) /\ r \notin x.refused
  BY <1>4 DEF IsNew, IdleBut, St
<1> QED  BY <1>3, <1>4, <1>5, <1>6, <1>7

LEMMA ArrivalKeeps ==
    ASSUME Inv, NEW r \in Requests, NEW x, Elsewhere(x, State, r),
           NEW u, Safe(u, {}), Confined(u, x, r), Ready(u, r), Becomes(u)
    PROVE  Inv'
<1>1. Elsewhere(u, State, r)
  BY DEF Confined, Elsewhere
<1> QED  BY <1>1, BecomesKeeps

\* A context before its fields are set.
LEMMA NewRequestFields ==
    /\ NewRequest \in Context /\ NewRequest.kind = "GET"
    /\ NewRequest.done = 0 /\ NewRequest.worst = "4XX"
BY ConstantFacts DEF NewRequest, Context, Results

\* What every arrival starts from.
LEMMA ArrivalFacts ==
    ASSUME Inv, NEW r \in Requests, NEW c, Arrives(r, c)
    PROVE  /\ Safe(State, {}) /\ IsNew(State, r)
           /\ Arrived(r, c) = Arrival(State, r, c)
           /\ \A m \in Sizes : m \in Nat
           /\ 0 \in 0..Width /\ 1 \in 1..Width /\ 1 \in 0..Width
<1>1. State.req[r].state = "new" /\ Ready(State, r)
  BY DEF Arrives, State, Inv
<1>2. IsNew(State, r)
  BY <1>1 DEF Ready, IsFreed, GetWaits, PrimaryWaits, Gathering, Collating, Alive
<1> QED  BY <1>2, ConstantFacts DEF Inv, Arrived, Arrival

LEMMA GetArrivesKeeps ==
    ASSUME Inv, NEW r \in Requests, GetArrives(r)
    PROVE  Inv'
<1>1. PICK i \in Shards, m \in Sizes : \E w \in Elements(ShardWorkers[i]) :
        LET context == [NewRequest EXCEPT !.state = "live", !.mem = m, !.workers = <<w>>]
        IN  Arrives(r, context) /\ Becomes(GetStart(Arrived(r, context), r))
  BY DEF GetArrives
<1>2. PICK w \in Elements(ShardWorkers[i]) :
        LET context == [NewRequest EXCEPT !.state = "live", !.mem = m, !.workers = <<w>>]
        IN  Arrives(r, context) /\ Becomes(GetStart(Arrived(r, context), r))
  BY <1>1
<1> DEFINE c == [NewRequest EXCEPT !.state = "live", !.mem = m, !.workers = <<w>>]
<1>3. Arrives(r, c) /\ Becomes(GetStart(Arrived(r, c), r))
  BY <1>2
<1>4. /\ Safe(State, {}) /\ IsNew(State, r)
      /\ Arrived(r, c) = Arrival(State, r, c)
      /\ m \in Nat /\ 0 \in 0..Width /\ 1 \in 1..Width /\ 1 \in 0..Width
  BY <1>3, ArrivalFacts
<1>5. w \in Workers
  <2>1. ShardWorkers[i] \in Seq(Workers)
    BY ConstantFacts
  <2>2. PICK j \in 1..Len(ShardWorkers[i]) : w = ShardWorkers[i][j]
    BY DEF Elements
  <2> QED  BY <2>1, <2>2, ElementOfSeq
<1>6. c.workers = <<w>>
  BY NewRequestFields DEF Context
<1>7. c \in Context /\ c.kind = "GET" /\ c.state = "live" /\ c.mem = m
  <2>1. <<w>> \in Seq(Workers)
    BY <1>5
  <2>2. PICK ws \in Seq(Workers) : ws = <<w>>
    BY <2>1
  <2>3. c = [NewRequest EXCEPT !.state = "live", !.mem = m, !.workers = ws]
    BY <2>2
  <2> HIDE DEF c
  <2> QED  BY <2>3, NewRequestFields DEF Context
<1> HIDE DEF c
<1>8. Len(c.workers) \in 1..Width /\ (c.kind = "PUT" => NoRepeats(c.workers))
  <2>1. Len(c.workers) = 1
    BY <1>6
  <2> QED  BY <1>4, <1>7, <2>1
<1>9. PICK x : x = Arrival(State, r, c)
  OBVIOUS
<1>10. /\ Safe(x, {}) /\ Elsewhere(x, State, r) /\ x.req[r] = c
      /\ Alive(x, r) /\ IdleBut(x, r, {}) /\ r \notin x.refused
  BY <1>8, <1>4, <1>7, <1>9, ArrivalSafe
<1>11. GetHand(x, r, "4XX") /\ x.req[r].mem \in Nat
  BY <1>4, <1>7, <1>10 DEF GetHand
<1>12. At(x, <<r, 1>>) \in Workers
  BY <1>5, <1>6, <1>10 DEF At, Slot
<1>13. PICK u : u = GetStart(x, r)
  OBVIOUS
<1>14. Safe(u, {}) /\ Confined(u, x, r) /\ (IsFreed(u, r) \/ GetWaits(u, r))
  BY <1>10, <1>11, <1>12, <1>13, GetStartLeads
<1>15. Becomes(u) /\ Ready(u, r)
  BY <1>3, <1>4, <1>9, <1>13, <1>14 DEF Ready
<1> QED  BY <1>10, <1>14, <1>15, ArrivalKeeps

LEMMA PutArrivesKeeps ==
    ASSUME Inv, NEW r \in Requests, PutArrives(r)
    PROVE  Inv'
<1>1. PICK i \in Shards, m \in Sizes :
        LET context == [NewRequest EXCEPT !.kind = "PUT", !.state = "live", !.mem = m,
                                          !.workers = ShardWorkers[i]]
        IN  Arrives(r, context) /\ Becomes(PutStartWrite(Arrived(r, context), <<r, 1>>))
  BY DEF PutArrives
<1> DEFINE c == [NewRequest EXCEPT !.kind = "PUT", !.state = "live", !.mem = m,
                                   !.workers = ShardWorkers[i]]
<1>2. Arrives(r, c) /\ Becomes(PutStartWrite(Arrived(r, c), <<r, 1>>))
  BY <1>1
<1>3. /\ Safe(State, {}) /\ IsNew(State, r)
      /\ Arrived(r, c) = Arrival(State, r, c)
      /\ 0 \in 0..Width /\ 1 \in 1..Width
  BY <1>2, ArrivalFacts
<1>4. /\ ShardWorkers[i] \in Seq(Workers) /\ Len(ShardWorkers[i]) \in 1..Width
      /\ NoRepeats(ShardWorkers[i])
  BY ConstantFacts
<1>5. /\ c \in Context /\ c.kind = "PUT" /\ c.state = "live"
      /\ c.workers = ShardWorkers[i]
  BY <1>4, NewRequestFields DEF Context
<1> HIDE DEF c
<1>6. PICK x : x = Arrival(State, r, c)
  OBVIOUS
<1>7. /\ Safe(x, {}) /\ Elsewhere(x, State, r) /\ x.req[r] = c
      /\ Alive(x, r) /\ IdleBut(x, r, {}) /\ r \notin x.refused
  BY <1>3, <1>4, <1>5, <1>6, ArrivalSafe
<1>8. CanLaunch(x, r, 1) /\ x.req[r].kind = "PUT"
  BY <1>5, <1>7 DEF CanLaunch, IsPrimary
<1>9. PICK t : t = <<r, 1>>
  OBVIOUS
<1>10. PICK u : u = PutStartWrite(x, t)
  OBVIOUS
<1>11. Safe(u, {}) /\ Confined(u, x, r) /\ BranchSettled(u, r, 1, 1)
  BY <1>7, <1>8, <1>9, <1>10, PutStartWriteLeads
<1>12. Becomes(u) /\ Ready(u, r)
  <2>1. IsPrimary(u, r, 1)
    BY <1>8, <1>11 DEF IsPrimary, Confined
  <2> QED  BY <1>2, <1>3, <1>6, <1>9, <1>10, <1>11, <2>1 DEF Ready, BranchSettled
<1> QED  BY <1>7, <1>11, <1>12, ArrivalKeeps

LEMMA SearchArrivesKeeps ==
    ASSUME Inv, NEW r \in Requests, SearchArrives(r)
    PROVE  Inv'
<1>1. PICK n \in 1..Len(ShardWorkers), m \in Sizes, m2 \in Sizes, coins \in Coins :
        \E shards \in {f \in [1..n -> Shards] : NoRepeats(f)} :
          \E picks \in {f \in [1..n -> Workers] :
                          \A k \in 1..n : f[k] \in Elements(ShardWorkers[shards[k]])} :
            LET context == [NewRequest EXCEPT !.kind = "SEARCH", !.state = "live",
                              !.mem = m, !.mem_response = m2, !.workers = picks]
            IN  Arrives(r, context) /\ Becomes(SearchStart(Arrived(r, context), r, coins))
  BY DEF SearchArrives
<1>2. PICK picks \in [1..n -> Workers] :
        LET context == [NewRequest EXCEPT !.kind = "SEARCH", !.state = "live",
                          !.mem = m, !.mem_response = m2, !.workers = picks]
        IN  Arrives(r, context) /\ Becomes(SearchStart(Arrived(r, context), r, coins))
  BY <1>1
<1> DEFINE c == [NewRequest EXCEPT !.kind = "SEARCH", !.state = "live",
                                   !.mem = m, !.mem_response = m2, !.workers = picks]
<1>3. Arrives(r, c) /\ Becomes(SearchStart(Arrived(r, c), r, coins))
  BY <1>2
<1>4. /\ Safe(State, {}) /\ IsNew(State, r)
      /\ Arrived(r, c) = Arrival(State, r, c)
      /\ 0 \in 0..Width /\ 1 \in 1..Width
  BY <1>3, ArrivalFacts
<1>5. n \in Nat \ {0} /\ n \in 1..Width
  BY ConstantFacts
<1>6. picks \in Seq(Workers) /\ Len(picks) = n
  BY <1>5
<1>7. /\ c \in Context /\ c.kind = "SEARCH" /\ c.state = "live" /\ c.workers = picks
      /\ c.done = 0 /\ c.worst = "4XX"
  BY <1>6, NewRequestFields DEF Context
<1> HIDE DEF c
<1>8. PICK x : x = Arrival(State, r, c)
  OBVIOUS
<1>9. /\ Safe(x, {}) /\ Elsewhere(x, State, r) /\ x.req[r] = c /\ Fanout(x, r) = n
       /\ Alive(x, r) /\ IdleBut(x, r, {}) /\ r \notin x.refused
  BY <1>4, <1>5, <1>6, <1>7, <1>8, ArrivalSafe
<1>10. Gathering(x, r, 0, {}, "4XX") /\ x.req[r].kind = "SEARCH"
  <2>1. First(x, r) = 1 /\ x.req[r].kind = "SEARCH"
    BY <1>7, <1>9 DEF First
  <2>2. 1..0 = {} /\ Cardinality({}) = 0
    BY FS_EmptySet
  <2>3. Answered(x, r, 0, {}) = {}
    BY <2>1, <2>2 DEF Answered
  <2>4. 0 < n - 1 + 1 /\ 0 \in (1 - 1)..n
    BY <1>5
  <2> QED  BY <1>7, <1>9, <2>1, <2>2, <2>3, <2>4 DEF Gathering
<1>11. PICK u : u = SearchStart(x, r, coins)
  OBVIOUS
<1>12. Safe(u, {}) /\ Confined(u, x, r) /\ Settled(u, r, Fanout(u, r))
  BY <1>9, <1>10, <1>11, SearchStartLeads
<1>13. Becomes(u) /\ Ready(u, r)
  BY <1>3, <1>4, <1>8, <1>11, <1>12, SettledIsReady
<1> QED  BY <1>9, <1>12, <1>13, ArrivalKeeps

-----------------------------------------------------------------------------
(* The invariant.                                                          *)

LEMMA InitInv == Init => Inv
<1> SUFFICES ASSUME Init  PROVE Inv
  OBVIOUS
<1> DEFINE s == State
<1>1. /\ s.worker = worker /\ s.tally = tally /\ s.index = index /\ s.req = req
      /\ s.step = step /\ s.response = response /\ s.refused = refused /\ s.stale = stale
  BY DEF State
<1>2. ASSUME NEW w \in Workers
      PROVE  /\ WorkerInv(worker[w])
             /\ Running(worker[w]) = {} /\ Waiting(worker[w]) = {} /\ worker[w].io = {}
  <2>1. worker[w] \in FreshWorkers
    BY DEF Init
  <2> QED  BY <2>1, FreshWorkerKeeps
<1>3. s \in StateType
  <2>1. worker \in [Workers -> WorkerState]
    BY <1>2 DEF Init, WorkerInv, WorkerOK
  <2>2. NewTally \in TallyType /\ NewRequest \in Context
    BY ConstantFacts DEF NewTally, TallyType, NewRequest, Context, Results
  <2> QED  BY <2>1, <2>2 DEF Init, State, StateType, Steps, Results
<1>4. \A t \in Tasks : step[t] = "idle"
  BY DEF Init
<1>5. Cardinality({}) = 0
  BY FS_EmptySet
<1>6. Placed(s)
  BY <1>1, <1>2, <1>4 DEF Placed, OnCpu
<1>7. Logs(s)
  <2>1. Ended(s) = {}
    BY <1>1 DEF Init, NewRequest, Ended
  <2> QED  BY <1>1, <1>5, <2>1 DEF Init, NewTally, Logs
<1>8. Tallies(s, {})
  <2>1. \A w : AtWork(s, {}, w) = {}
    BY <1>1, <1>4 DEF AtWork
  <2> QED  BY <1>1, <1>5, <2>1 DEF Init, NewTally, Tallies
<1>9. ASSUME NEW r \in Requests  PROVE Ready(s, r)
  <2>1. IdleBut(s, r, {})
    BY <1>1, <1>4 DEF IdleBut, St, Tasks
  <2> QED  BY <1>1, <2>1 DEF Init, NewRequest, Ready, IsNew
<1> QED  BY <1>3, <1>6, <1>7, <1>8, <1>9 DEF Inv, Safe

LEMMA NextKeeps == Inv /\ [Next]_vars => Inv'
<1> SUFFICES ASSUME Inv, [Next]_vars  PROVE Inv'
  OBVIOUS
<1>1. ASSUME NEW r \in Requests, GetArrives(r)  PROVE Inv'
  BY <1>1, GetArrivesKeeps
<1>2. ASSUME NEW r \in Requests, PutArrives(r)  PROVE Inv'
  BY <1>2, PutArrivesKeeps
<1>3. ASSUME NEW r \in Requests, SearchArrives(r)  PROVE Inv'
  BY <1>3, SearchArrivesKeeps
<1>4. ASSUME NEW w \in Workers, NEW c \in Cpus, CpuEvent(w, c)  PROVE Inv'
  BY <1>4, CpuEventKeeps
<1>5. ASSUME NEW w \in Workers, NEW t \in Tasks, DiskEvent(w, t)  PROVE Inv'
  BY <1>5, DiskEventKeeps
<1>6. CASE UNCHANGED vars
  <2>1. State' = State
    BY <1>6 DEF vars, State
  <2> QED  BY <2>1 DEF Inv
<1> QED  BY <1>1, <1>2, <1>3, <1>4, <1>5, <1>6 DEF Next, Event

THEOREM Invariance == Spec => []Inv
<1> QED  BY InitInv, NextKeeps, PTL DEF Spec

-----------------------------------------------------------------------------
(* The properties.                                                         *)

\* A branch that waits belongs to a live request, and is one of its branches.
LEMMA WaitingIsLive ==
    ASSUME NEW s \in StateType, NEW r \in Requests, Ready(s, r),
           NEW i \in 0..Width, St(s, r, i) # "idle"
    PROVE  s.req[r].state = "live" /\ i <= Fanout(s, r)
<1>1. ~IsNew(s, r) /\ ~IsFreed(s, r)
  BY DEF IsNew, IsFreed, IdleBut
<1>2. Alive(s, r) /\ s.req[r].state = "live"
  BY <1>1 DEF Ready, GetWaits, PrimaryWaits, Gathering, Collating, Alive
<1>3. Fanout(s, r) \in Nat \ {0} /\ First(s, r) \in {1, 2}
  BY <1>2, BranchFacts
<1>4. i \in {0, 1} \/ i \in First(s, r)..Fanout(s, r)
  BY <1>1 DEF Ready, GetWaits, PrimaryWaits, Gathering, Collating, IdleBut
<1> QED  BY <1>2, <1>3, <1>4

\* A live request waits for something: in a gather, fewer branches have answered
\* than there are.
LEMMA LiveIsWaiting ==
    ASSUME NEW s \in StateType, NEW r \in Requests, Ready(s, r), s.req[r].state = "live"
    PROVE  \E i \in 0..Width : St(s, r, i) # "idle"
<1>1. 0 \in 0..Width /\ 1 \in 0..Width
  BY ConstantFacts
<1>2. CASE GetWaits(s, r) \/ PrimaryWaits(s, r) \/ Collating(s, r)
  BY <1>1, <1>2 DEF GetWaits, PrimaryWaits, Collating
<1>3. CASE Gathering(s, r, Fanout(s, r), {}, "4XX")
  <2> DEFINE lo == First(s, r)
             n == Fanout(s, r)
  <2>1. Alive(s, r) /\ n - lo + 1 > Cardinality(Answered(s, r, n, {}))
    <3>1. /\ Alive(s, r) /\ s.req[r].done = Cardinality(Answered(s, r, n, {}))
          /\ s.req[r].done < n - lo + 1
      BY <1>3 DEF Gathering
    <3>2. s.req[r].done \in Int
      BY DEF StateType, Context
    <3>3. n \in Nat /\ lo \in {1, 2}
      BY <3>1, BranchFacts
    <3> HIDE DEF n, lo
    <3> QED  BY <3>1, <3>2, <3>3
  <2>2. /\ n \in Nat \ {0} /\ lo \in {1, 2}
        /\ \A i \in 1..n : i \in 0..Width
    BY <2>1, BranchFacts
  <2>3. SUFFICES ASSUME \A i \in 0..Width : St(s, r, i) = "idle"  PROVE FALSE
    OBVIOUS
  <2>4. Answered(s, r, n, {}) = lo..n
    <3>1. \A i \in lo..n : i \in 1..n
      BY <2>2
    <3> QED  BY <2>2, <2>3, <3>1 DEF Answered
  <2> HIDE DEF n, lo
  <2>5. Cardinality(lo..n) = IF lo > n THEN 0 ELSE n - lo + 1
    <3>1. lo \in Int /\ n \in Int
      BY <2>2
    <3> QED  BY <3>1, FS_Interval
  <2> QED  BY <2>1, <2>2, <2>4, <2>5
<1> QED  BY <1>2, <1>3 DEF Ready, IsNew, IsFreed

\* TypeOK, for any requests, workers, shards, sizes and limits.
THEOREM TypeCorrect == Spec => []TypeOK
<1>1. Inv => TypeOK
  <2> SUFFICES ASSUME Inv  PROVE TypeOK
    OBVIOUS
  <2>1. State \in StateType
    BY DEF Inv, Safe
  <2> QED  BY <2>1 DEF State, StateType, TypeOK, TallyType, Context, Steps, Results
<1> QED  BY <1>1, Invariance, PTL

\* Every outstanding reservation of every worker is one that a live request
\* waits for, at the worker it chose, and conversely; and the worker's own
\* invariant holds under these clients (worker.c, get.c, put.c, search.c).
THEOREM EachBranchIsPlaced == Spec => []BranchesArePlaced
<1>1. Inv => BranchesArePlaced
  <2> SUFFICES ASSUME Inv  PROVE BranchesArePlaced
    OBVIOUS
  <2>1. State \in StateType /\ Placed(State) /\ State.worker = worker /\ State.step = step
    BY DEF Inv, Safe, State
  <2>2. \A w \in Workers : WorkerOK(worker[w])
    BY <2>1 DEF Placed, WorkerInv
  <2>3. ASSUME NEW t \in Tasks, step[t] # "idle"
        PROVE  t[1] \in Live /\ t[2] <= Fanout(State, t[1])
    <3>1. t[1] \in Requests /\ t[2] \in 0..Width /\ t = <<t[1], t[2]>>
      BY TaskFacts
    <3>2. St(State, t[1], t[2]) # "idle"
      BY <2>1, <2>3, <3>1 DEF St
    <3>3. State.req[t[1]].state = "live" /\ t[2] <= Fanout(State, t[1])
      BY <2>1, <3>1, <3>2, WaitingIsLive DEF Inv
    <3> QED  BY <3>1, <3>3 DEF Live, State
  <2>4. ASSUME NEW t \in Tasks, NEW w \in Workers
        PROVE  /\ t \in Running(worker[w]) \cup Waiting(worker[w])
                    <=> step[t] \in OnCpu /\ At(State, t) = w
               /\ t \in worker[w].io <=> step[t] = "disk" /\ At(State, t) = w
    BY <2>1 DEF Placed
  <2> QED  BY <2>2, <2>3, <2>4 DEF BranchesArePlaced, OnCpu
<1> QED  BY <1>1, Invariance, PTL

\* A request's context is alive exactly while some event will call back into
\* it: no request is forgotten, and none is called after free(ctx).
THEOREM LiveContextsAreAwaited == Spec => []LiveIffAwaited
<1>1. Inv => LiveIffAwaited
  <2> SUFFICES ASSUME Inv, NEW r \in Requests  PROVE r \in Live <=> Active(r) # {}
    BY DEF LiveIffAwaited
  <2>1. State \in StateType /\ Ready(State, r)
    BY DEF Inv, Safe
  <2>2. \A i \in 0..Width : i \in Active(r) <=> St(State, r, i) # "idle"
    BY DEF Active, St, State
  <2>3. r \in Live <=> State.req[r].state = "live"
    BY DEF Live, State
  <2>4. \A i \in Active(r) : i \in 0..Width
    BY DEF Active
  <2> QED  BY <2>1, <2>2, <2>3, <2>4, WaitingIsLive, LiveIsWaiting
<1> QED  BY <1>1, Invariance, PTL

\* The index logs each request once, when its context dies, and as an error
\* exactly when a reservation made for it was refused (index_log_result).
THEOREM IndexLogsEveryOutcome == Spec => []IndexLogsOutcome
<1>1. Inv => IndexLogsOutcome
  <2> SUFFICES ASSUME Inv  PROVE IndexLogsOutcome
    OBVIOUS
  <2>1. Logs(State)
    BY DEF Inv, Safe
  <2>2. Ended(State) = Freed /\ State.index = index /\ State.refused = refused
    BY DEF Ended, Freed, State
  <2> QED  BY <2>1, <2>2 DEF Logs, IndexLogsOutcome
<1> QED  BY <1>1, Invariance, PTL

\* At every worker, the requests logged are the results logged and the branches
\* still at work there (worker_log_request, worker_log_result).
THEOREM WorkerTalliesAlwaysBalance == Spec => []WorkerTalliesBalance
<1>1. Inv => WorkerTalliesBalance
  <2> SUFFICES ASSUME Inv, NEW w \in Workers
               PROVE  tally[w].requests = tally[w].ok + tally[w].errors +
                        Cardinality({t \in Tasks : /\ t[2] # 0 /\ step[t] # "idle"
                                                   /\ At(State, t) = w})
    BY DEF WorkerTalliesBalance
  <2>1. Tallies(State, {}) /\ State.tally = tally /\ State.step = step
    BY DEF Inv, Safe, State
  <2>2. AtWork(State, {}, w) =
          {t \in Tasks : t[2] # 0 /\ step[t] # "idle" /\ At(State, t) = w}
    BY <2>1 DEF AtWork
  <2> QED  BY <2>1, <2>2 DEF Tallies
<1> QED  BY <1>1, Invariance, PTL

\* A PUT writes a replica only after its primary was written well.
THEOREM PrimaryIsFirst == Spec => []PrimaryFirst
<1>1. Inv => PrimaryFirst
  <2> SUFFICES ASSUME Inv, NEW r \in Live, req[r].kind = "PUT", Active(r) \ {1} # {}
               PROVE  1 \notin Active(r) /\ response[<<r, 1>>] = "4XX"
    BY DEF PrimaryFirst
  <2>1. /\ r \in Requests /\ Ready(State, r)
        /\ State.req[r].kind = "PUT" /\ State.req[r].state = "live"
    BY DEF Live, State, Inv
  <2>2. PICK i \in 0..Width : i # 1 /\ St(State, r, i) # "idle"
    BY DEF Active, St, State
  <2>3. Gathering(State, r, Fanout(State, r), {}, "4XX")
    BY <2>1, <2>2 DEF Ready, IsNew, IsFreed, GetWaits, PrimaryWaits, Collating, IdleBut
  <2>4. First(State, r) = 2
    BY <2>1 DEF First
  <2>5. 1 \in 0..Width /\ 1 \notin 2..Fanout(State, r)
    <3>1. 1 \in 0..Width
      BY ConstantFacts
    <3> QED  BY <3>1
  <2>6. St(State, r, 1) = "idle" /\ Rs(State, r, 1) = "4XX"
    BY <2>1, <2>3, <2>4, <2>5 DEF Gathering, IdleBut
  <2> QED  BY <2>6 DEF Active, St, Rs, State
<1> QED  BY <1>1, Invariance, PTL

\* Collation starts when every shard has answered well, on a worker that holds
\* as many of the searched shards as any (search_shard_finished).
THEOREM CollationIsLast == Spec => []CollationLast
<1>1. Inv => CollationLast
  <2> SUFFICES ASSUME Inv, NEW r \in Live, step[<<r, 0>>] = "collate"
               PROVE  LET ws == req[r].workers
                          weight(i) == Cardinality({k \in DOMAIN ws : ws[k] = ws[i]})
                      IN  /\ Active(r) = {0}
                          /\ \A i \in DOMAIN ws : /\ response[<<r, i>>] = "4XX"
                                                  /\ weight(i) <= weight(req[r].collator)
    BY DEF CollationLast
  <2>1. /\ r \in Requests /\ Ready(State, r) /\ State \in StateType
        /\ State.req = req /\ State.response = response /\ State.step = step
    BY DEF Live, State, Inv, Safe
  <2>2. St(State, r, 0) = "collate" /\ 0 \in 0..Width
    BY <2>1, ConstantFacts DEF St
  <2>3. Collating(State, r)
    <3>1. ~IsNew(State, r) /\ ~IsFreed(State, r)
      BY <2>2 DEF IsNew, IsFreed, IdleBut
    <3>2. ~GetWaits(State, r) /\ ~PrimaryWaits(State, r)
      BY <2>2 DEF GetWaits, PrimaryWaits, IdleBut
    <3>3. ~Gathering(State, r, Fanout(State, r), {}, "4XX")
      BY <2>2 DEF Gathering, IdleBut
    <3> QED  BY <2>1, <3>1, <3>2, <3>3 DEF Ready
  <2>4. Active(r) = {0}
    BY <2>1, <2>2, <2>3 DEF Active, Collating, IdleBut, St
  <2>5. DOMAIN req[r].workers = 1..Fanout(State, r)
    <3>1. req[r].workers \in Seq(Workers)
      BY <2>1 DEF StateType, Context
    <3> QED  BY <2>1, <3>1 DEF Fanout
  <2> QED  BY <2>1, <2>3, <2>4, <2>5 DEF Collating, Weight, Rs
<1> QED  BY <1>1, Invariance, PTL
=============================================================================

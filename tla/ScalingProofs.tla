---------------------------- MODULE ScalingProofs ----------------------------
(***************************************************************************)
(* The invariants of Scaling, for any number of workers, CPUs, requests    *)
(* and indices and any targets.  The inductive invariant says what a       *)
(* worker of each status is, what the stage of a scaling says of the       *)
(* workers, where each request is, and how the shards came to be where     *)
(* they are: as main.c laid them out, or dealt out in turn.                *)
(***************************************************************************)
EXTENDS Scaling, WorkerLemmas

-----------------------------------------------------------------------------
(* The inductive invariant.                                                *)

Blue  == {k \in Ids : status[k] = "BLUE"}
Green == {k \in Ids : status[k] = "GREEN"}

\* The new workers whose last CPU is up.
Up == {k \in Green : Len(worker[k].available) = Cardinality(Cpus)}

\* Identities are given in the order of creation.
BornInOrder == \E b \in 0..MaxWorkers : \A k \in Ids : status[k] = "unborn" <=> k > b

\* A worker that has served nobody: its CPUs come up one after the other.
SpinningUp(w) ==
    /\ w = [Unequipped EXCEPT !.available = w.available]
    /\ w.available \in Seq(Cpus) /\ NoRepeats(w.available)

WorkersInv ==
    \A k \in Ids :
        /\ status[k] = "BLUE" => WorkerInv(worker[k])
        /\ status[k] = "GREEN" => SpinningUp(worker[k])
        /\ status[k] = "unborn" => worker[k] = Unequipped

\* The stage of the scaling is told by the workers that are up.
StagesInv ==
    /\ scale \in [phase : {"none", "pools", "ready"}, num : Nat, old : Seq(Ids),
                  pools_done : Nat]
    /\ NoRepeats(scale.old)
    /\ steady => scale = NoScale
    /\ ~steady => /\ scale.num >= 1
                  /\ scale.pools_done = Cardinality(Up)
                  /\ scale.phase = IF scale.pools_done = scale.num THEN "ready" ELSE "pools"

\* The shards of an index are dealt out to the workers of s in turn.
Dealt(shard, s) == \A i \in 1..Len(shard) : shard[i] = s[((i - 1) % Len(s)) + 1]

SharesInv ==
    \/ Blue = 1..InitialWorkers /\ shards = InitialShards
    \/ \E s \in Seq(Ids) :
         /\ s # <<>> /\ NoRepeats(s) /\ Elements(s) = Blue
         /\ \A x \in Indices : Dealt(shards[x], s)

Inv ==
    /\ TypeOK
    /\ FleetMatchesConfig
    /\ BornInOrder
    /\ WorkersInv
    /\ StagesInv
    /\ RequestsArePlaced
    /\ Routed \subseteq Blue
    /\ SharesInv

-----------------------------------------------------------------------------
(* Workers and requests.                                                   *)

RequestType == [ kind : {"GET", "PUT"}, at : 0..MaxWorkers,
                 step : {"none", "compute", "disk"} ]

Loads == [worker : [Ids -> WorkerState], request : [Jobs -> RequestType]]

Computing(w) == Running(w) \cup Waiting(w)

\* Every request is where its record says, but for those in hand: their
\* reservation is over and their continuation runs.
Placed(l, hand) ==
    \A r \in Jobs, k \in Ids :
        /\ r \in Computing(l.worker[k])
             <=> r \notin hand /\ l.request[r].at = k /\ l.request[r].step = "compute"
        /\ r \in l.worker[k].io
             <=> r \notin hand /\ l.request[r].at = k /\ l.request[r].step = "disk"

LoadOK(l, hand) ==
    /\ l \in Loads
    /\ Placed(l, hand)
    /\ \A k \in Blue : WorkerInv(l.worker[k])

\* Only worker k may differ.
Elsewhere(u, l, k) == \A j \in Ids \ {k} : u.worker[j] = l.worker[j]

\* Worker k becomes v and request r becomes q.
Moved(l, k, v, r, q) ==
    [worker |-> [l.worker EXCEPT ![k] = v], request |-> [l.request EXCEPT ![r] = q]]

BothChanged(l, k, v, r, q) == [l EXCEPT !.request[r] = q, !.worker[k] = v]

LEMMA BothChange ==
    ASSUME NEW l \in Loads, NEW k, NEW v, NEW r, NEW q
    PROVE  BothChanged(l, k, v, r, q) = Moved(l, k, v, r, q)
<1> DEFINE W == l.worker  R == l.request
           a == [worker |-> W, request |-> [R EXCEPT ![r] = q]]
<1>1. l = [worker |-> W, request |-> R]
  BY DEF Loads
<1>2. [l EXCEPT !.request[r] = q] = a
  <2> HIDE DEF W, R
  <2>1. [[worker |-> W, request |-> R] EXCEPT !.request[r] = q] = a
    OBVIOUS
  <2> QED  BY <1>1, <2>1
<1>3. [a EXCEPT !.worker[k] = v] = Moved(l, k, v, r, q)
  BY DEF Moved
<1>4. BothChanged(l, k, v, r, q) = [[l EXCEPT !.request[r] = q] EXCEPT !.worker[k] = v]
  BY DEF BothChanged
<1> HIDE DEF a
<1> QED  BY <1>2, <1>3, <1>4

\* Worker k and request r change together.
LEMMA PlaceMoves ==
    ASSUME NEW l, NEW hand, LoadOK(l, hand), NEW r \in Jobs, NEW k \in Ids,
           hand \subseteq {r}, NEW v \in WorkerState, NEW q \in RequestType,
           k \in Blue => WorkerInv(v),
           Computing(v) \ {r} = Computing(l.worker[k]) \ {r},
           v.io \ {r} = l.worker[k].io \ {r},
           \A j \in Ids \ {k} : r \notin Outstanding(l.worker[j]),
           NEW u, u = Moved(l, k, v, r, q), NEW left, left \subseteq {r},
           r \in Computing(v) <=> r \notin left /\ q.step = "compute",
           r \in v.io <=> r \notin left /\ q.step = "disk",
           r \notin left /\ q.step # "none" => q.at = k
    PROVE  /\ LoadOK(u, left) /\ Elsewhere(u, l, k)
           /\ u.worker[k] = v /\ u.request[r] = q
<1>1. /\ l.worker \in [Ids -> WorkerState] /\ l.request \in [Jobs -> RequestType]
      /\ Placed(l, hand) /\ \A j \in Blue : WorkerInv(l.worker[j])
  BY DEF LoadOK, Loads
<1>2. /\ u \in Loads /\ u.worker[k] = v /\ u.request[r] = q
      /\ \A j \in Ids \ {k} : u.worker[j] = l.worker[j]
      /\ \A s \in Jobs \ {r} : u.request[s] = l.request[s]
  BY <1>1 DEF Loads, Moved
<1>3. \A j \in Blue : WorkerInv(u.worker[j])
  <2>1. Blue \subseteq Ids
    BY DEF Blue
  <2> QED  BY <1>1, <1>2, <2>1
<1>4. \A s \in Jobs \ {r}, j \in Ids :
        /\ s \in Computing(u.worker[j]) <=> s \in Computing(l.worker[j])
        /\ s \in u.worker[j].io <=> s \in l.worker[j].io
        /\ s \notin left /\ s \notin hand
  BY <1>2
<1>5. \A j \in Ids \ {k} : r \notin Computing(u.worker[j]) /\ r \notin u.worker[j].io
  BY <1>2 DEF Outstanding, Computing
<1>6. Placed(u, left)
  <2> SUFFICES ASSUME NEW s \in Jobs, NEW j \in Ids
      PROVE  /\ s \in Computing(u.worker[j])
                  <=> s \notin left /\ u.request[s].at = j /\ u.request[s].step = "compute"
             /\ s \in u.worker[j].io
                  <=> s \notin left /\ u.request[s].at = j /\ u.request[s].step = "disk"
    BY DEF Placed
  <2>1. CASE s # r
    BY <1>1, <1>2, <1>4, <2>1 DEF Placed
  <2>2. CASE s = r /\ j = k
    BY <1>2, <2>2
  <2>3. CASE s = r /\ j # k
    BY <1>2, <1>5, <2>3
  <2> QED  BY <2>1, <2>2, <2>3
<1> QED  BY <1>2, <1>3, <1>6 DEF LoadOK, Elsewhere

\* A request in hand holds nothing.
LEMMA HandIsFree ==
    ASSUME NEW l, NEW r \in Jobs, LoadOK(l, {r}), NEW k \in Ids
    PROVE  r \notin Outstanding(l.worker[k])
BY DEF LoadOK, Placed, Outstanding, Computing

\* A request that waits for nothing holds nothing.
LEMMA IdleIsFree ==
    ASSUME NEW l, NEW r \in Jobs, LoadOK(l, {}), l.request[r].step = "none", NEW k \in Ids
    PROVE  r \notin Outstanding(l.worker[k])
BY DEF LoadOK, Placed, Outstanding, Computing

\* A request that holds something at k holds nothing elsewhere.
LEMMA HeldOnce ==
    ASSUME NEW l, NEW r \in Jobs, LoadOK(l, {}), NEW k \in Ids,
           r \in Outstanding(l.worker[k])
    PROVE  /\ l.request[r].at = k /\ l.request[r].step # "none"
           /\ \A j \in Ids \ {k} : r \notin Outstanding(l.worker[j])
BY DEF LoadOK, Placed, Outstanding, Computing

WithWorker(l, k, v) == [l EXCEPT !.worker[k] = v]

\* A worker that was w becomes v when the reservation of r ends.
GivesUp(v, w, r) ==
    /\ r \in Outstanding(w)
    /\ Computing(v) = Computing(w) \ {r} /\ v.io = w.io \ {r}

\* Of l, u differs in worker k, and the request it served is in hand.
InHand(u, l, k, v, r) ==
    /\ LoadOK(u, {r}) /\ Elsewhere(u, l, k)
    /\ u.worker[k] = v /\ u.request = l.request /\ u.request[r].at = k

\* Worker k ends the reservation of r: r is in hand.
LEMMA Taken ==
    ASSUME NEW l, NEW r \in Jobs, LoadOK(l, {}), NEW k \in Ids,
           NEW v \in WorkerState, k \in Blue => WorkerInv(v),
           GivesUp(v, l.worker[k], r), NEW u, u = WithWorker(l, k, v)
    PROVE  InHand(u, l, k, v, r)
<1> DEFINE q == l.request[r]
<1>1. l \in Loads
  BY DEF LoadOK
<1>2. q \in RequestType /\ [l.request EXCEPT ![r] = q] = l.request
  BY <1>1 DEF Loads
<1>3. u = [ worker |-> [l.worker EXCEPT ![k] = v], request |-> l.request ]
  BY <1>1 DEF Loads, WithWorker
<1>4. \A j \in Ids \ {k} : r \notin Outstanding(l.worker[j])
  BY HeldOnce DEF GivesUp
<1>5. l.request[r].at = k
  BY HeldOnce DEF GivesUp
<1> HIDE DEF q
<1>6. r \notin Computing(v) /\ r \notin v.io
  BY DEF GivesUp
<1>7. /\ Computing(v) \ {r} = Computing(l.worker[k]) \ {r}
      /\ v.io \ {r} = l.worker[k].io \ {r}
  BY DEF GivesUp
<1>8. u = Moved(l, k, v, r, q)
  BY <1>2, <1>3 DEF Moved
<1>9. /\ LoadOK(u, {r}) /\ Elsewhere(u, l, k) /\ u.worker[k] = v
  <2>1. /\ r \in Computing(v) <=> r \notin {r} /\ q.step = "compute"
        /\ r \in v.io <=> r \notin {r} /\ q.step = "disk"
        /\ r \notin {r} /\ q.step # "none" => q.at = k
    BY <1>6
  <2>2. {} \subseteq {r} /\ {r} \subseteq {r} /\ q \in RequestType
    BY <1>2
  <2> QED  BY <1>4, <1>7, <1>8, <2>1, <2>2, PlaceMoves
<1> QED  BY <1>3, <1>5, <1>9 DEF InHand

\* The request in hand ends.
LEMMA EndKeeps ==
    ASSUME NEW l, NEW r \in Jobs, LoadOK(l, {r}), NEW u, u = End(l, r)
    PROVE  LoadOK(u, {}) /\ u.worker = l.worker
<1> DEFINE k == InitialWorkers
           v == l.worker[k]
<1>1. l \in Loads /\ \A j \in Blue : WorkerInv(l.worker[j])
  BY DEF LoadOK
<1>2. k \in Ids
  BY ScalingAssumption DEF Ids
<1>3. v \in WorkerState /\ [l.worker EXCEPT ![k] = v] = l.worker
  BY <1>1, <1>2 DEF Loads
<1>4. u = [ worker |-> l.worker, request |-> [l.request EXCEPT ![r] = Idle] ]
  BY <1>1 DEF End, Loads
<1>5. Idle \in RequestType /\ Idle.step = "none"
  BY ScalingAssumption DEF Idle, RequestType
<1>6. \A j \in Ids : r \notin Outstanding(l.worker[j])
  BY HandIsFree
<1>7. k \in Blue => WorkerInv(v)
  BY <1>1
<1>8. r \notin Computing(v) /\ r \notin v.io
  BY <1>2, <1>6 DEF Outstanding, Computing
<1> HIDE DEF k, v
<1>9. u = Moved(l, k, v, r, Idle)
  BY <1>3, <1>4 DEF Moved
<1>10. l.worker[k] = v
  BY DEF v
<1>11. LoadOK(u, {})
  BY <1>2, <1>3, <1>5, <1>6, <1>7, <1>8, <1>9, <1>10, PlaceMoves
<1> QED  BY <1>4, <1>11

\* The request in hand asks its worker for the disk, and waits or ends.
LEMMA DiskStepKeeps ==
    ASSUME NEW l, NEW r \in Jobs, LoadOK(l, {r}), NEW k \in Blue,
           l.request[r].at = k, NEW u, u = DiskStep(l, r)
    PROVE  /\ LoadOK(u, {}) /\ Elsewhere(u, l, k)
           /\ u.worker[k].wait_queue = l.worker[k].wait_queue
<1> DEFINE w == l.worker[k]
           v == ReserveDisk(w, r, 1)
<1>1. l \in Loads /\ WorkerInv(w) /\ k \in Ids /\ w \in WorkerState
  BY DEF LoadOK, Blue, Loads
<1>2. r \notin Outstanding(w) /\ \A j \in Ids : r \notin Outstanding(l.worker[j])
  BY <1>1, HandIsFree
<1>3. /\ WorkerInv(v)
      /\ Running(v) = Running(w) /\ Waiting(v) = Waiting(w)
      /\ DiskRefused(w, 1) => v.io = w.io
      /\ ~DiskRefused(w, 1) => v.io = w.io \cup {r}
  <2> HIDE DEF w
  <2> QED  BY <1>1, <1>2, ReserveDiskKeeps
<1>4. v.wait_queue = w.wait_queue
  BY <1>1 DEF ReserveDisk, RamReserve, WorkerState
<1>5. v \in WorkerState
  BY <1>3 DEF WorkerInv, WorkerOK
<1>6. CASE DiskRefused(w, 1)
  <2>1. v = w
    BY <1>6 DEF ReserveDisk
  <2>2. [l EXCEPT !.worker[k] = v] = l
    BY <1>1, <2>1 DEF Loads
  <2>3. u = End(l, r)
    BY <1>6, <2>2 DEF DiskStep
  <2>4. LoadOK(u, {}) /\ u.worker = l.worker
    BY <2>3, EndKeeps
  <2> QED  BY <2>4 DEF Elsewhere
<1>7. CASE ~DiskRefused(w, 1)
  <2> DEFINE q == [l.request[r] EXCEPT !.step = "disk"]
  <2>1. l.request[r] \in RequestType
    BY <1>1 DEF Loads
  <2>2. q \in RequestType /\ q.step = "disk" /\ q.at = k
    BY <2>1 DEF RequestType
  <2>3. u = Moved(l, k, v, r, q)
    BY <1>1, <1>7 DEF DiskStep, Loads, Moved
  <2>4. /\ Computing(v) \ {r} = Computing(w) \ {r} /\ v.io \ {r} = w.io \ {r}
        /\ r \notin Computing(v) /\ r \in v.io
    BY <1>2, <1>3, <1>7 DEF Computing, Outstanding
  <2> HIDE DEF q, v, w
  <2>5. l.worker[k] = w
    BY DEF w
  <2>6. LoadOK(u, {}) /\ Elsewhere(u, l, k) /\ u.worker[k] = v
    <3>1. /\ r \in Computing(v) <=> r \notin {} /\ q.step = "compute"
          /\ r \in v.io <=> r \notin {} /\ q.step = "disk"
          /\ r \notin {} /\ q.step # "none" => q.at = k
      BY <2>2, <2>4
    <3>2. {} \subseteq {r} /\ {r} \subseteq {r} /\ q \in RequestType
          /\ k \in Ids /\ WorkerInv(v)
      BY <1>1, <1>3, <2>2
    <3>3. /\ Computing(v) \ {r} = Computing(l.worker[k]) \ {r}
          /\ v.io \ {r} = l.worker[k].io \ {r}
          /\ \A j \in Ids \ {k} : r \notin Outstanding(l.worker[j])
      BY <1>2, <2>4, <2>5
    <3> QED  BY <1>5, <2>3, <3>1, <3>2, <3>3, PlaceMoves
  <2> QED  BY <1>4, <2>5, <2>6
<1> QED  BY <1>6, <1>7

LEMMA AnsweredKeeps ==
    ASSUME NEW l, NEW r \in Jobs, LoadOK(l, {r}), NEW k \in Blue,
           l.request[r].at = k, NEW result, NEW u, u = ComputeAnswered(l, r, result)
    PROVE  /\ LoadOK(u, {}) /\ Elsewhere(u, l, k)
           /\ u.worker[k].wait_queue = l.worker[k].wait_queue
<1>1. u = End(l, r) \/ u = DiskStep(l, r)
  BY DEF ComputeAnswered
<1>2. CASE u = End(l, r)
  BY <1>2, EndKeeps DEF Elsewhere
<1>3. CASE u = DiskStep(l, r)
  BY <1>3, DiskStepKeeps
<1> QED  BY <1>1, <1>2, <1>3

\* A request is launched: it is accepted, refused and given up, or refused and
\* sent on to the disk.
LEMMA LaunchKeeps ==
    ASSUME NEW l, NEW r \in Jobs, LoadOK(l, {}), l.request[r].step = "none",
           NEW kind \in {"GET", "PUT"}, NEW k \in Blue, NEW u, u = Launch(l, r, kind, k)
    PROVE  LoadOK(u, {}) /\ Elsewhere(u, l, k)
<1> DEFINE w == l.worker[k]
           v == ReserveCompute(w, r, 1)
           q == [kind |-> kind, at |-> k, step |-> "compute"]
           m == Moved(l, k, v, r, q)
<1>1. l \in Loads /\ WorkerInv(w) /\ k \in Ids /\ w \in WorkerState
  BY DEF LoadOK, Blue, Loads
<1>2. r \notin Outstanding(w) /\ \A j \in Ids : r \notin Outstanding(l.worker[j])
  BY <1>1, IdleIsFree
<1>3. q \in RequestType /\ q.at = k /\ q.step = "compute"
  BY <1>1, ScalingAssumption DEF RequestType, Ids
<1>4. /\ WorkerInv(v) /\ v.io = w.io
      /\ ComputeRefused(w, 1) => v = w
      /\ ~ComputeRefused(w, 1) => Computing(v) = Computing(w) \cup {r}
  <2> HIDE DEF w
  <2> QED  BY <1>1, <1>2, ReserveComputeKeeps DEF Computing
<1>5. v \in WorkerState
  BY <1>4 DEF WorkerInv, WorkerOK
<1>6. r \notin Computing(w) /\ r \notin w.io
  BY <1>2 DEF Outstanding, Computing
<1>7. m = BothChanged(l, k, v, r, q)
  <2>1. m = Moved(l, k, v, r, q) /\ l \in Loads
    BY <1>1
  <2> HIDE DEF v, q, m
  <2> QED  BY <2>1, BothChange
<1>8. u = IF ComputeRefused(w, 1) THEN ComputeAnswered(m, r, "5XX") ELSE m
  BY <1>7 DEF Launch, BothChanged
<1>9. ASSUME NEW left, left \subseteq {r}, r \in Computing(v) <=> r \notin left
      PROVE  /\ LoadOK(m, left) /\ Elsewhere(m, l, k)
             /\ m.worker[k] = v /\ m.request[r] = q
  <2>1. /\ r \in Computing(v) <=> r \notin left /\ q.step = "compute"
        /\ r \in v.io <=> r \notin left /\ q.step = "disk"
        /\ r \notin left /\ q.step # "none" => q.at = k
    BY <1>3, <1>4, <1>6, <1>9
  <2>2. Computing(v) \ {r} = Computing(w) \ {r} /\ v.io \ {r} = w.io \ {r}
    BY <1>4
  <2>3. l.worker[k] = w /\ {} \subseteq {r}
    OBVIOUS
  <2>4. m = Moved(l, k, v, r, q)
    OBVIOUS
  <2> HIDE DEF w, v, q, m
  <2> QED  BY <1>1, <1>2, <1>3, <1>4, <1>5, <1>9, <2>1, <2>2, <2>3, <2>4, PlaceMoves
<1> HIDE DEF m
<1>10. CASE ComputeRefused(w, 1)
  <2>1. r \in Computing(v) <=> r \notin {r}
    BY <1>4, <1>6, <1>10
  <2>2. LoadOK(m, {r}) /\ Elsewhere(m, l, k) /\ m.request[r].at = k
    <3> HIDE DEF v, w
    <3> QED  BY <1>3, <1>9, <2>1
  <2>3. LoadOK(u, {}) /\ Elsewhere(u, m, k)
    <3>1. u = ComputeAnswered(m, r, "5XX")
      BY <1>8, <1>10
    <3> HIDE DEF v, w, q
    <3> QED  BY <2>2, <3>1, AnsweredKeeps
  <2> QED  BY <2>2, <2>3 DEF Elsewhere
<1>11. CASE ~ComputeRefused(w, 1)
  <2>1. r \in Computing(v) <=> r \notin {}
    BY <1>4, <1>11
  <2>2. LoadOK(m, {}) /\ Elsewhere(m, l, k)
    <3> HIDE DEF v, w
    <3> QED  BY <1>9, <2>1
  <2> QED  BY <1>8, <1>11, <2>2
<1> QED  BY <1>10, <1>11

-----------------------------------------------------------------------------
(* Spinning down.                                                          *)

\* One waiter is popped and failed.
LEMMA FailHeadKeeps ==
    ASSUME NEW l, LoadOK(l, {}), NEW k \in Blue, l.worker[k].wait_queue # <<>>,
           NEW u, u = FailHead(l, k)
    PROVE  /\ LoadOK(u, {}) /\ Elsewhere(u, l, k)
           /\ u.worker[k].wait_queue = Tail(l.worker[k].wait_queue)
<1> DEFINE w == l.worker[k]
           v == WakeHead(w)
           r == Head(w.wait_queue)
           m == WithWorker(l, k, v)
<1>1. l \in Loads /\ WorkerInv(w) /\ k \in Ids /\ w \in WorkerState
  BY DEF LoadOK, Blue, Loads
<1>2. /\ WorkerInv(v) /\ WakeFails(w) /\ v.io = w.io /\ r \in Jobs
      /\ Computing(v) = Computing(w) \ {r}
  <2> HIDE DEF w
  <2> QED  BY <1>1, WakeHeadKeeps DEF Computing, w
<1>3. v \in WorkerState /\ v.wait_queue = Tail(w.wait_queue)
  <2>1. v \in WorkerState
    BY <1>2 DEF WorkerInv, WorkerOK
  <2> HIDE DEF w
  <2> QED  BY <1>1, <2>1, WakeHeadLine
<1>4. r \in Outstanding(w) /\ r \notin w.io
  <2>1. w.wait_queue \in Seq(Jobs) /\ NoRepeats(w.wait_queue) /\ w.wait_queue # <<>>
        /\ w.io \cap (Running(w) \cup Waiting(w)) = {}
    BY <1>1 DEF WorkerState, WorkerInv, WorkerOK, EachJobOnce
  <2>2. r \in Waiting(w)
    <3> HIDE DEF w
    <3> QED  BY <2>1, TailRemovesHead DEF Waiting
  <2> QED  BY <2>1, <2>2 DEF Outstanding
<1>5. u = ComputeAnswered(m, r, "5XX")
  BY <1>2 DEF FailHead, WithWorker
<1>6. InHand(m, l, k, v, r)
  <2>1. v.io = w.io \ {r}
    BY <1>2, <1>4
  <2>2. /\ GivesUp(v, l.worker[k], r) /\ (k \in Blue => WorkerInv(v))
        /\ k \in Ids /\ r \in Jobs /\ v \in WorkerState
    BY <1>1, <1>2, <1>3, <1>4, <2>1 DEF GivesUp
  <2>3. m = WithWorker(l, k, v)
    OBVIOUS
  <2> HIDE DEF w, v, r, m
  <2> QED  BY <2>2, <2>3, Taken
<1> HIDE DEF m, v, r
<1>8. LoadOK(u, {}) /\ Elsewhere(u, m, k) /\ u.worker[k].wait_queue = m.worker[k].wait_queue
  BY <1>2, <1>5, <1>6, AnsweredKeeps DEF InHand
<1> QED  BY <1>3, <1>6, <1>8 DEF Elsewhere, InHand

\* Worker k changes, but not whom it serves.
LEMMA SameJobsKeeps ==
    ASSUME NEW l, LoadOK(l, {}), NEW k \in Ids, NEW v \in WorkerState,
           k \in Blue => WorkerInv(v),
           Computing(v) = Computing(l.worker[k]), v.io = l.worker[k].io,
           NEW u, u = WithWorker(l, k, v)
    PROVE  LoadOK(u, {}) /\ Elsewhere(u, l, k) /\ u.worker[k] = v
<1>1. /\ l.worker \in [Ids -> WorkerState] /\ l.request \in [Jobs -> RequestType]
      /\ l \in Loads
  BY DEF LoadOK, Loads
<1>2. u = [worker |-> [l.worker EXCEPT ![k] = v], request |-> l.request]
  BY <1>1 DEF Loads, WithWorker
<1>3. /\ u \in Loads /\ u.worker[k] = v /\ u.request = l.request
      /\ \A j \in Ids \ {k} : u.worker[j] = l.worker[j]
  BY <1>1, <1>2 DEF Loads
<1>4. \A j \in Ids : /\ Computing(u.worker[j]) = Computing(l.worker[j])
                     /\ u.worker[j].io = l.worker[j].io
  BY <1>3
<1>5. Placed(l, {}) /\ \A j \in Blue : WorkerInv(l.worker[j])
  BY DEF LoadOK
<1>6. Placed(u, {})
  BY <1>3, <1>4, <1>5 DEF Placed
<1>7. \A j \in Blue : WorkerInv(u.worker[j])
  BY <1>3, <1>5 DEF Blue
<1> QED  BY <1>3, <1>6, <1>7 DEF LoadOK, Elsewhere

\* The loop of cpu_pool_spin_down.
IsFailing(f, l, k, turns) ==
    f = [n \in 0..turns |-> IF n = 0 THEN [l EXCEPT !.worker[k] = CloseQueue(@)]
                                     ELSE FailHead(f[n - 1], k)]

\* Spinning a worker down fails everyone who waits there.
LEMMA FailWaitersKeeps ==
    ASSUME NEW l, LoadOK(l, {}), NEW k \in Blue, NEW u, u = FailWaiters(l, k)
    PROVE  LoadOK(u, {}) /\ Elsewhere(u, l, k) /\ Waiting(u.worker[k]) = {}
<1> DEFINE w == l.worker[k]
           t == Len(w.wait_queue)
           v == CloseQueue(w)
           base == [l EXCEPT !.worker[k] = CloseQueue(@)]
           D == [n \in 0..t |-> {x \in Loads : /\ LoadOK(x, {}) /\ Elsewhere(x, l, k)
                                               /\ Len(x.worker[k].wait_queue) = t - n}]
           F == [p \in (1..t) \X Loads |-> FailHead(p[2], k)]
<1>1. l \in Loads /\ WorkerInv(w) /\ k \in Ids /\ w \in WorkerState
  BY DEF LoadOK, Blue, Loads
<1>2. t \in Nat
  BY <1>1 DEF WorkerState
<1>3. base \in D[0]
  <2>1. /\ WorkerInv(v) /\ v.io = w.io /\ Computing(v) = Computing(w)
    <3> HIDE DEF w
    <3> QED  BY <1>1, CloseQueueKeeps DEF Computing, v
  <2>2. v.wait_queue = w.wait_queue
    BY <1>1 DEF CloseQueue, WorkerState
  <2>3. v \in WorkerState /\ base = WithWorker(l, k, v)
    BY <2>1 DEF WorkerInv, WorkerOK, WithWorker
  <2>4. l.worker[k] = w
    OBVIOUS
  <2>5. LoadOK(base, {}) /\ Elsewhere(base, l, k) /\ base.worker[k] = v
    <3> HIDE DEF w, v, base
    <3> QED  BY <1>1, <2>1, <2>3, <2>4, SameJobsKeeps
  <2> HIDE DEF base, v, w
  <2>6. base \in Loads
    BY <2>5 DEF LoadOK
  <2>7. Len(base.worker[k].wait_queue) = t - 0 /\ 0 \in 0..t
    BY <1>2, <2>2, <2>5
  <2> HIDE DEF t
  <2> QED  BY <2>5, <2>6, <2>7
<1>4. ASSUME NEW n \in 1..t, NEW x \in D[n - 1]
      PROVE  F[<<n, x>>] = FailHead(x, k) /\ FailHead(x, k) \in D[n]
  <2> HIDE DEF w, t
  <2>1. n \in 0..t /\ n - 1 \in 0..t /\ t - (n - 1) > 0 /\ (t - (n - 1)) - 1 = t - n
    BY <1>2
  <2>2. /\ x \in Loads /\ LoadOK(x, {}) /\ Elsewhere(x, l, k)
        /\ Len(x.worker[k].wait_queue) = t - (n - 1)
    BY <2>1
  <2> DEFINE y == FailHead(x, k)
  <2>3. x.worker[k].wait_queue \in Seq(Jobs)
    BY <1>1, <2>2 DEF Loads, WorkerState
  <2>4. x.worker[k].wait_queue # <<>>
    BY <2>1, <2>2, <2>3
  <2>5. /\ LoadOK(y, {}) /\ Elsewhere(y, x, k)
        /\ y.worker[k].wait_queue = Tail(x.worker[k].wait_queue)
    <3> HIDE DEF D, F
    <3> QED  BY <2>2, <2>4, FailHeadKeeps
  <2>6. Len(y.worker[k].wait_queue) = t - n
    <3> HIDE DEF D, F, y
    <3>1. Len(Tail(x.worker[k].wait_queue)) = Len(x.worker[k].wait_queue) - 1
      BY <2>3, <2>4
    <3> QED  BY <2>1, <2>2, <2>5, <3>1
  <2>7. y \in Loads /\ Elsewhere(y, l, k)
    BY <2>2, <2>5 DEF LoadOK, Elsewhere
  <2>8. F[<<n, x>>] = y
    BY <2>2
  <2> HIDE DEF y
  <2>9. y \in D[n]
    BY <2>1, <2>5, <2>6, <2>7
  <2> QED  BY <2>8, <2>9 DEF y
<1>5. \A n \in 1..t : \A x \in D[n - 1] : F[<<n, x>>] \in D[n]
  <2> HIDE DEF D, F, t
  <2> QED  BY <1>4
<1>6. PICK h : RunOf(h, t, base, F) /\ \A n \in 0..t : h[n] \in D[n]
  <2> HIDE DEF D, F, t, base
  <2> QED  BY <1>2, <1>3, <1>5, LoopRuns
<1>7. IsFailing(h, l, k, t)
  <2>1. ASSUME NEW n \in 0..t
        PROVE  (IF n = 0 THEN base ELSE F[<<n, h[n - 1]>>])
                 = IF n = 0 THEN base ELSE FailHead(h[n - 1], k)
    <3> HIDE DEF base, D, F, t
    <3>1. CASE n # 0
      <4>1. n \in 1..t /\ n - 1 \in 0..t
        BY <1>2, <3>1
      <4> QED  BY <1>4, <1>6, <4>1
    <3> QED  BY <3>1
  <2>2. h = [n \in 0..t |-> IF n = 0 THEN base ELSE F[<<n, h[n - 1]>>]]
    BY <1>6 DEF RunOf
  <2> HIDE DEF base, D, F, t
  <2>3. h = [n \in 0..t |-> IF n = 0 THEN base ELSE FailHead(h[n - 1], k)]
    BY <2>1, <2>2
  <2> QED  BY <2>3 DEF IsFailing, base
<1> DEFINE f == CHOOSE x : IsFailing(x, l, k, t)
<1>8. IsFailing(f, l, k, t)
  <2> HIDE DEF D, F, t
  <2> QED  BY <1>7
<1>9. u = f[t]
  BY DEF FailWaiters, IsFailing
<1> HIDE DEF f
<1>10. f[0] = base /\ \A n \in 1..t : f[n] = FailHead(f[n - 1], k)
  <2> HIDE DEF t
  <2>1. \A n \in 0..t : f[n] = IF n = 0 THEN base ELSE FailHead(f[n - 1], k)
    <3>1. f = [n \in 0..t |-> IF n = 0 THEN base ELSE FailHead(f[n - 1], k)]
      BY <1>8 DEF IsFailing
    <3> HIDE DEF base
    <3> QED  BY <3>1
  <2> HIDE DEF base
  <2>2. 0 \in 0..t /\ \A n \in 1..t : n \in 0..t /\ n # 0
    BY <1>2
  <2> QED  BY <2>1, <2>2
<1>11. \A n \in 0..t : f[n] \in D[n]
  <2> HIDE DEF t, base, D, F
  <2>1. \A n \in 1..t : f[n - 1] \in D[n - 1] => f[n] = F[<<n, f[n - 1]>>]
    BY <1>4, <1>10
  <2> QED  BY <1>2, <1>3, <1>5, <1>10, <2>1, RunStays
<1>12. u \in D[t] /\ t \in 0..t /\ t - t = 0
  <2> HIDE DEF t, D
  <2> QED  BY <1>2, <1>9, <1>11
<1>13. LoadOK(u, {}) /\ Elsewhere(u, l, k) /\ Len(u.worker[k].wait_queue) = 0
  <2> HIDE DEF t
  <2> QED  BY <1>12
<1> QED  BY <1>13 DEF Waiting, Elements

\* The loop that spins down the old workers.
IsSpinning(f, l, s) ==
    f = [n \in 0..Len(s) |-> IF n = 0 THEN l ELSE FailWaiters(f[n - 1], s[n])]

\* Nobody waits on a worker that was spun down.
LEMMA SpinDownKeeps ==
    ASSUME NEW l, LoadOK(l, {}), NEW s \in Seq(Ids), Elements(s) \subseteq Blue,
           NEW u, u = SpinDown(l, s)
    PROVE  /\ LoadOK(u, {})
           /\ \A k \in Ids \ Elements(s) : u.worker[k] = l.worker[k]
           /\ \A k \in Elements(s) : Waiting(u.worker[k]) = {}
<1> DEFINE t == Len(s)
           D == [n \in 0..t |-> {x \in Loads :
                    /\ LoadOK(x, {})
                    /\ \A k \in Ids \ Elements(s) : x.worker[k] = l.worker[k]
                    /\ \A i \in 1..n : Waiting(x.worker[s[i]]) = {}}]
           F == [p \in (1..t) \X Loads |-> FailWaiters(p[2], s[p[1]])]
<1>1. t \in Nat /\ \A i \in 1..t : s[i] \in Blue /\ s[i] \in Ids /\ s[i] \in Elements(s)
  BY DEF Elements
<1>2. l \in D[0]
  <2>1. 0 \in 0..t /\ 1..0 = {} /\ l \in Loads
    BY <1>1 DEF LoadOK
  <2> HIDE DEF t
  <2> QED  BY <2>1
<1>3. ASSUME NEW n \in 1..t, NEW x \in D[n - 1]
      PROVE  F[<<n, x>>] = FailWaiters(x, s[n]) /\ FailWaiters(x, s[n]) \in D[n]
  <2> HIDE DEF t
  <2>1. n \in 0..t /\ n - 1 \in 0..t /\ \A i \in 1..n : i \in 1..(n - 1) \/ i = n
    BY <1>1
  <2>2. /\ x \in Loads /\ LoadOK(x, {})
        /\ \A k \in Ids \ Elements(s) : x.worker[k] = l.worker[k]
        /\ \A i \in 1..(n - 1) : Waiting(x.worker[s[i]]) = {}
    BY <2>1
  <2> DEFINE y == FailWaiters(x, s[n])
             k == s[n]
  <2>3. k \in Blue /\ k \in Ids /\ k \in Elements(s)
    BY <1>1
  <2>4. LoadOK(y, {}) /\ Elsewhere(y, x, k) /\ Waiting(y.worker[k]) = {}
    <3> HIDE DEF D, F, k
    <3>1. y = FailWaiters(x, k)
      BY DEF k
    <3> HIDE DEF y
    <3> QED  BY <2>2, <2>3, <3>1, FailWaitersKeeps
  <2>5. y \in Loads
    BY <2>4 DEF LoadOK
  <2>6. F[<<n, x>>] = y
    BY <2>2
  <2> HIDE DEF y
  <2>7. \A j \in Ids \ Elements(s) : y.worker[j] = l.worker[j]
    BY <2>2, <2>3, <2>4 DEF Elsewhere
  <2>8. \A i \in 1..n : Waiting(y.worker[s[i]]) = {}
    <3> SUFFICES ASSUME NEW i \in 1..n  PROVE Waiting(y.worker[s[i]]) = {}
      OBVIOUS
    <3>1. CASE s[i] = k
      BY <2>4, <3>1
    <3>2. CASE s[i] # k
      <4>1. i \in 1..(n - 1) /\ i \in 1..t
        BY <1>1, <2>1, <3>2
      <4>2. y.worker[s[i]] = x.worker[s[i]]
        BY <1>1, <2>4, <3>2, <4>1 DEF Elsewhere
      <4> QED  BY <2>2, <4>1, <4>2
    <3> QED  BY <3>1, <3>2
  <2>9. y \in D[n]
    BY <2>1, <2>4, <2>5, <2>7, <2>8
  <2> QED  BY <2>6, <2>9 DEF y
<1>4. \A n \in 1..t : \A x \in D[n - 1] : F[<<n, x>>] \in D[n]
  <2> HIDE DEF D, F, t
  <2> QED  BY <1>3
<1>5. PICK h : RunOf(h, t, l, F) /\ \A n \in 0..t : h[n] \in D[n]
  <2> HIDE DEF D, F, t
  <2> QED  BY <1>1, <1>2, <1>4, LoopRuns
<1>6. IsSpinning(h, l, s)
  <2>1. ASSUME NEW n \in 0..t
        PROVE  (IF n = 0 THEN l ELSE F[<<n, h[n - 1]>>])
                 = IF n = 0 THEN l ELSE FailWaiters(h[n - 1], s[n])
    <3> HIDE DEF D, F, t
    <3>1. CASE n # 0
      <4>1. n \in 1..t /\ n - 1 \in 0..t
        BY <1>1, <3>1
      <4> QED  BY <1>3, <1>5, <4>1
    <3> QED  BY <3>1
  <2>2. h = [n \in 0..t |-> IF n = 0 THEN l ELSE F[<<n, h[n - 1]>>]]
    BY <1>5 DEF RunOf
  <2>3. h = [n \in 0..t |-> IF n = 0 THEN l ELSE FailWaiters(h[n - 1], s[n])]
    <3> HIDE DEF D, F, t
    <3> QED  BY <2>1, <2>2
  <2> QED  BY <2>3 DEF IsSpinning
<1> DEFINE f == CHOOSE x : IsSpinning(x, l, s)
<1>7. IsSpinning(f, l, s)
  <2> HIDE DEF D, F, t
  <2> QED  BY <1>6
<1>8. u = f[t]
  BY DEF SpinDown, IsSpinning
<1> HIDE DEF f
<1>9. f[0] = l /\ \A n \in 1..t : f[n] = FailWaiters(f[n - 1], s[n])
  <2>1. \A n \in 0..t : f[n] = IF n = 0 THEN l ELSE FailWaiters(f[n - 1], s[n])
    <3>1. f = [n \in 0..t |-> IF n = 0 THEN l ELSE FailWaiters(f[n - 1], s[n])]
      BY <1>7 DEF IsSpinning
    <3> HIDE DEF t
    <3> QED  BY <3>1
  <2> HIDE DEF t
  <2>2. 0 \in 0..t /\ \A n \in 1..t : n \in 0..t /\ n # 0
    BY <1>1
  <2> QED  BY <2>1, <2>2
<1>10. \A n \in 0..t : f[n] \in D[n]
  <2> HIDE DEF t, D, F
  <2>1. \A n \in 1..t : f[n - 1] \in D[n - 1] => f[n] = F[<<n, f[n - 1]>>]
    BY <1>3, <1>9
  <2> QED  BY <1>1, <1>2, <1>4, <1>9, <2>1, RunStays
<1>11. u \in D[t] /\ t \in 0..t
  <2> HIDE DEF t, D
  <2> QED  BY <1>1, <1>8, <1>10
<1>12. /\ LoadOK(u, {})
       /\ \A k \in Ids \ Elements(s) : u.worker[k] = l.worker[k]
       /\ \A i \in 1..t : Waiting(u.worker[s[i]]) = {}
  <2> HIDE DEF t
  <2> QED  BY <1>11
<1> QED  BY <1>12 DEF Elements

-----------------------------------------------------------------------------
(* The registry.                                                           *)

\* dynarray_remove of an item that is there once removes it and no other.
LEMMA SwapRemoveRemoves ==
    ASSUME NEW S, NEW s \in Seq(S), NoRepeats(s), NEW k \in Elements(s),
           NEW r, r = SwapRemove(s, k)
    PROVE  /\ r \in Seq(S) /\ NoRepeats(r)
           /\ Elements(r) = Elements(s) \ {k}
           /\ Len(r) = Len(s) - 1 /\ Len(s) >= 1
<1> DEFINE p == CHOOSE n \in 1..Len(s) : s[n] = k
           m == Len(s)
<1>1. p \in 1..m /\ s[p] = k
  BY DEF Elements
<1>2. m \in Nat /\ m >= 1 /\ m - 1 \in Nat /\ \A i \in 1..m : s[i] \in S
  BY <1>1
<1>3. r = [n \in 1..(m - 1) |-> IF n = p THEN s[m] ELSE s[n]]
  BY DEF SwapRemove
<1>4. \A i, j \in 1..m : s[i] = s[j] => i = j
  BY DEF NoRepeats
<1> HIDE DEF p
<1>5. \A i \in 1..m : i \in 1..(m - 1) \/ i = m
  BY <1>2
<1>6. \A i \in 1..(m - 1) : i \in 1..m /\ i # m /\ m \in 1..m
  BY <1>2
<1> HIDE DEF m
<1>7. r \in [1..(m - 1) -> S]
  BY <1>2, <1>3, <1>6
<1>8. r \in Seq(S) /\ Len(r) = m - 1
  BY <1>2, <1>7
<1>9. \A i \in 1..(m - 1) : r[i] = IF i = p THEN s[m] ELSE s[i]
  BY <1>3
<1>10. NoRepeats(r)
  BY <1>1, <1>4, <1>6, <1>8, <1>9 DEF NoRepeats
<1>11. ASSUME NEW i \in 1..(m - 1)  PROVE r[i] \in Elements(s) \ {k}
  BY <1>1, <1>4, <1>6, <1>9 DEF Elements, m
<1>12. ASSUME NEW i \in 1..m, s[i] # k  PROVE \E j \in 1..(m - 1) : r[j] = s[i]
  <2>1. CASE i = m
    <3>1. p # m /\ p \in 1..(m - 1)
      BY <1>1, <1>5, <1>12, <2>1
    <3> QED  BY <1>9, <2>1, <3>1
  <2>2. CASE i # m
    <3>1. i \in 1..(m - 1) /\ i # p
      BY <1>1, <1>5, <1>12, <2>2
    <3> QED  BY <1>9, <3>1
  <2> QED  BY <2>1, <2>2
<1>13. Elements(r) = {r[i] : i \in 1..(m - 1)}
  BY <1>8 DEF Elements
<1>14. Elements(s) = {s[i] : i \in 1..m}
  BY DEF Elements, m
<1>15. Elements(r) = Elements(s) \ {k}
  BY <1>11, <1>12, <1>13, <1>14
<1> QED  BY <1>2, <1>8, <1>10, <1>15 DEF m

IsRemoving(f, s, gone) ==
    f = [n \in 0..Len(gone) |-> IF n = 0 THEN s ELSE SwapRemove(f[n - 1], gone[n])]

\* What leaves the registry is what was to leave it.
LEMMA UnregisteredRemoves ==
    ASSUME NEW S, NEW s \in Seq(S), NoRepeats(s), NEW gone \in Seq(S), NoRepeats(gone),
           Elements(gone) \subseteq Elements(s), NEW r, r = Unregistered(s, gone)
    PROVE  /\ r \in Seq(S) /\ NoRepeats(r)
           /\ Elements(r) = Elements(s) \ Elements(gone)
<1> DEFINE t == Len(gone)
           D == [n \in 0..t |-> {x \in Seq(S) :
                    NoRepeats(x) /\ Elements(x) = Elements(s) \ {gone[i] : i \in 1..n}}]
           F == [p \in (1..t) \X Seq(S) |-> SwapRemove(p[2], gone[p[1]])]
<1>1. /\ t \in Nat /\ \A i \in 1..t : gone[i] \in Elements(s)
      /\ \A i, j \in 1..t : gone[i] = gone[j] => i = j
  <2>1. \A i \in 1..t : gone[i] \in Elements(gone)
    BY DEF Elements
  <2>2. t \in Nat /\ \A i, j \in 1..t : gone[i] = gone[j] => i = j
    BY DEF NoRepeats
  <2> QED  BY <2>1, <2>2
<1>2. s \in D[0]
  <2>1. 0 \in 0..t /\ {gone[i] : i \in 1..0} = {}
    BY <1>1
  <2> HIDE DEF t
  <2> QED  BY <2>1
<1>3. ASSUME NEW n \in 1..t, NEW x \in D[n - 1]
      PROVE  F[<<n, x>>] = SwapRemove(x, gone[n]) /\ SwapRemove(x, gone[n]) \in D[n]
  <2> HIDE DEF t
  <2>1. n \in 0..t /\ n - 1 \in 0..t /\ n \notin 1..(n - 1)
        /\ 1..n = (1..(n - 1)) \cup {n} /\ 1..(n - 1) \subseteq 1..t
    BY <1>1
  <2>2. /\ x \in Seq(S) /\ NoRepeats(x)
        /\ Elements(x) = Elements(s) \ {gone[i] : i \in 1..(n - 1)}
    BY <2>1
  <2> DEFINE y == SwapRemove(x, gone[n])
  <2>3. gone[n] \in Elements(x)
    BY <1>1, <2>1, <2>2
  <2>4. /\ y \in Seq(S) /\ NoRepeats(y) /\ Elements(y) = Elements(x) \ {gone[n]}
    <3> HIDE DEF D, F
    <3> QED  BY <2>2, <2>3, SwapRemoveRemoves
  <2>5. F[<<n, x>>] = y
    BY <2>2
  <2> HIDE DEF y
  <2>6. {gone[i] : i \in 1..n} = {gone[i] : i \in 1..(n - 1)} \cup {gone[n]}
    BY <2>1
  <2>7. y \in D[n]
    BY <2>1, <2>2, <2>4, <2>6
  <2> QED  BY <2>5, <2>7 DEF y
<1>4. \A n \in 1..t : \A x \in D[n - 1] : F[<<n, x>>] \in D[n]
  <2> HIDE DEF D, F, t
  <2> QED  BY <1>3
<1>5. PICK h : RunOf(h, t, s, F) /\ \A n \in 0..t : h[n] \in D[n]
  <2> HIDE DEF D, F, t
  <2> QED  BY <1>1, <1>2, <1>4, LoopRuns
<1>6. IsRemoving(h, s, gone)
  <2>1. ASSUME NEW n \in 0..t
        PROVE  (IF n = 0 THEN s ELSE F[<<n, h[n - 1]>>])
                 = IF n = 0 THEN s ELSE SwapRemove(h[n - 1], gone[n])
    <3> HIDE DEF D, F, t
    <3>1. CASE n # 0
      <4>1. n \in 1..t /\ n - 1 \in 0..t
        BY <1>1, <3>1
      <4> QED  BY <1>3, <1>5, <4>1
    <3> QED  BY <3>1
  <2>2. h = [n \in 0..t |-> IF n = 0 THEN s ELSE F[<<n, h[n - 1]>>]]
    BY <1>5 DEF RunOf
  <2>3. h = [n \in 0..t |-> IF n = 0 THEN s ELSE SwapRemove(h[n - 1], gone[n])]
    <3> HIDE DEF D, F, t
    <3> QED  BY <2>1, <2>2
  <2> QED  BY <2>3 DEF IsRemoving
<1> DEFINE f == CHOOSE x : IsRemoving(x, s, gone)
<1>7. IsRemoving(f, s, gone)
  <2> HIDE DEF D, F, t
  <2> QED  BY <1>6
<1>8. r = f[t]
  BY DEF Unregistered, IsRemoving
<1> HIDE DEF f
<1>9. f[0] = s /\ \A n \in 1..t : f[n] = SwapRemove(f[n - 1], gone[n])
  <2>1. \A n \in 0..t : f[n] = IF n = 0 THEN s ELSE SwapRemove(f[n - 1], gone[n])
    <3>1. f = [n \in 0..t |-> IF n = 0 THEN s ELSE SwapRemove(f[n - 1], gone[n])]
      BY <1>7 DEF IsRemoving
    <3> HIDE DEF t
    <3> QED  BY <3>1
  <2> HIDE DEF t
  <2>2. 0 \in 0..t /\ \A n \in 1..t : n \in 0..t /\ n # 0
    BY <1>1
  <2> QED  BY <2>1, <2>2
<1>10. \A n \in 0..t : f[n] \in D[n]
  <2> HIDE DEF t, D, F
  <2>1. \A n \in 1..t : f[n - 1] \in D[n - 1] => f[n] = F[<<n, f[n - 1]>>]
    BY <1>3, <1>9
  <2> QED  BY <1>1, <1>2, <1>4, <1>9, <2>1, RunStays
<1>11. r \in D[t] /\ t \in 0..t
  <2> HIDE DEF t, D
  <2> QED  BY <1>1, <1>8, <1>10
<1>12. /\ r \in Seq(S) /\ NoRepeats(r)
       /\ Elements(r) = Elements(s) \ {gone[i] : i \in 1..t}
  <2> HIDE DEF t
  <2> QED  BY <1>11
<1> QED  BY <1>12 DEF Elements

IsCollecting(f) ==
    f = [n \in 0..Len(registry) |->
            IF n = 0 THEN <<>>
            ELSE IF status[registry[n]] = "GREEN" THEN Append(f[n - 1], registry[n])
                                                  ELSE f[n - 1]]

\* The new workers are the GREEN ones of the registry, each of them once.
LEMMA NewWorkersAreGreen ==
    ASSUME registry \in Seq(Ids), NoRepeats(registry), NEW r, r = NewWorkers
    PROVE  /\ r \in Seq(Ids) /\ NoRepeats(r)
           /\ Elements(r) = {k \in Elements(registry) : status[k] = "GREEN"}
<1> DEFINE t == Len(registry)
           G(n) == {k \in {registry[i] : i \in 1..n} : status[k] = "GREEN"}
           D == [n \in 0..t |-> {x \in Seq(Ids) : NoRepeats(x) /\ Elements(x) = G(n)}]
           T(n, x) == IF status[registry[n]] = "GREEN" THEN Append(x, registry[n]) ELSE x
           F == [p \in (1..t) \X Seq(Ids) |-> T(p[1], p[2])]
<1>1. /\ t \in Nat /\ \A i \in 1..t : registry[i] \in Ids
      /\ \A i, j \in 1..t : registry[i] = registry[j] => i = j
  BY DEF NoRepeats
<1>2. <<>> \in D[0]
  <2>1. 0 \in 0..t /\ G(0) = {} /\ <<>> \in Seq(Ids) /\ Len(<<>>) = 0
    BY <1>1
  <2>2. NoRepeats(<<>>) /\ Elements(<<>>) = {}
    BY DEF NoRepeats, Elements
  <2> HIDE DEF t, G
  <2> QED  BY <2>1, <2>2
<1>3. ASSUME NEW n \in 1..t, NEW x \in D[n - 1]
      PROVE  F[<<n, x>>] = T(n, x) /\ T(n, x) \in D[n]
  <2> HIDE DEF t
  <2>1. n \in 0..t /\ n - 1 \in 0..t /\ n \notin 1..(n - 1)
        /\ 1..n = (1..(n - 1)) \cup {n} /\ 1..(n - 1) \subseteq 1..t
    BY <1>1
  <2>2. x \in Seq(Ids) /\ NoRepeats(x) /\ Elements(x) = G(n - 1)
    BY <2>1
  <2> DEFINE e == registry[n]
             y == Append(x, e)
  <2>3. e \in Ids /\ e \notin {registry[i] : i \in 1..(n - 1)}
    BY <1>1, <2>1
  <2>4. G(n) = IF status[e] = "GREEN" THEN G(n - 1) \cup {e} ELSE G(n - 1)
    BY <2>1
  <2>5. e \notin Elements(x)
    BY <2>2, <2>3
  <2>6. y \in Seq(Ids) /\ Elements(y) = Elements(x) \cup {e} /\ NoRepeats(y)
    <3> HIDE DEF D, F, e, G, T
    <3> QED  BY <2>2, <2>3, <2>5, AppendAddsElement
  <2>7. T(n, x) \in Seq(Ids) /\ NoRepeats(T(n, x)) /\ Elements(T(n, x)) = G(n)
    <3> HIDE DEF G, y
    <3>1. T(n, x) = IF status[e] = "GREEN" THEN y ELSE x
      BY DEF y
    <3> HIDE DEF T, e
    <3> QED  BY <2>2, <2>4, <2>6, <3>1
  <2>8. F[<<n, x>>] = T(n, x)
    <3> HIDE DEF T
    <3> QED  BY <2>2
  <2> HIDE DEF G, T
  <2> QED  BY <2>1, <2>7, <2>8
<1>4. \A n \in 1..t : \A x \in D[n - 1] : F[<<n, x>>] \in D[n]
  <2> HIDE DEF D, F, T, t
  <2> QED  BY <1>3
<1>5. PICK h : RunOf(h, t, <<>>, F) /\ \A n \in 0..t : h[n] \in D[n]
  <2> HIDE DEF D, F, t
  <2> QED  BY <1>1, <1>2, <1>4, LoopRuns
<1>6. IsCollecting(h)
  <2>1. ASSUME NEW n \in 0..t
        PROVE  (IF n = 0 THEN <<>> ELSE F[<<n, h[n - 1]>>])
                 = IF n = 0 THEN <<>> ELSE T(n, h[n - 1])
    <3> HIDE DEF D, F, T, t
    <3>1. CASE n # 0
      <4>1. n \in 1..t /\ n - 1 \in 0..t
        BY <1>1, <3>1
      <4> QED  BY <1>3, <1>5, <4>1
    <3> QED  BY <3>1
  <2>2. h = [n \in 0..t |-> IF n = 0 THEN <<>> ELSE F[<<n, h[n - 1]>>]]
    BY <1>5 DEF RunOf
  <2>3. h = [n \in 0..t |-> IF n = 0 THEN <<>> ELSE T(n, h[n - 1])]
    <3> HIDE DEF D, F, T, t
    <3> QED  BY <2>1, <2>2
  <2> QED  BY <2>3 DEF IsCollecting
<1> DEFINE f == CHOOSE x : IsCollecting(x)
<1>7. IsCollecting(f)
  <2> HIDE DEF D, F, T, t
  <2> QED  BY <1>6
<1>8. r = f[t]
  BY DEF NewWorkers, IsCollecting
<1> HIDE DEF f
<1>9. f[0] = <<>> /\ \A n \in 1..t : f[n] = T(n, f[n - 1])
  <2>1. \A n \in 0..t : f[n] = IF n = 0 THEN <<>> ELSE T(n, f[n - 1])
    <3>1. f = [n \in 0..t |-> IF n = 0 THEN <<>> ELSE T(n, f[n - 1])]
      BY <1>7 DEF IsCollecting
    <3> HIDE DEF t, T
    <3> QED  BY <3>1
  <2> HIDE DEF t, T
  <2>2. 0 \in 0..t /\ \A n \in 1..t : n \in 0..t /\ n # 0
    BY <1>1
  <2> QED  BY <2>1, <2>2
<1>10. \A n \in 0..t : f[n] \in D[n]
  <2> HIDE DEF t, D, F, T
  <2>1. \A n \in 1..t : f[n - 1] \in D[n - 1] => f[n] = F[<<n, f[n - 1]>>]
    BY <1>3, <1>9
  <2> QED  BY <1>1, <1>2, <1>4, <1>9, <2>1, RunStays
<1>11. r \in D[t] /\ t \in 0..t
  <2> HIDE DEF t, D
  <2> QED  BY <1>1, <1>8, <1>10
<1>12. r \in Seq(Ids) /\ NoRepeats(r) /\ Elements(r) = G(t)
  <2> HIDE DEF t, G
  <2> QED  BY <1>11
<1> QED  BY <1>12 DEF Elements

\* A sequence without repetitions is as long as its set of elements is large.
LEMMA LenIsCount ==
    ASSUME NEW S, NEW s \in Seq(S), NoRepeats(s)
    PROVE  IsFiniteSet(Elements(s)) /\ Cardinality(Elements(s)) = Len(s)
<1> DEFINE t == Len(s)
           E == Elements(s)
<1>1. t \in Nat /\ E = {s[i] : i \in 1..t} /\ \A i, j \in 1..t : s[i] = s[j] => i = j
  BY DEF Elements, NoRepeats
<1>2. IsFiniteSet(1..t) /\ Cardinality(1..t) = t
  <2> HIDE DEF t
  <2>1. 1 \in Int /\ t \in Int
    BY <1>1
  <2>2. IsFiniteSet(1..t) /\ Cardinality(1..t) = IF 1 > t THEN 0 ELSE t - 1 + 1
    BY <2>1, FS_Interval
  <2> QED  BY <1>1, <2>2
<1> DEFINE b == [i \in 1..t |-> s[i]]
<1>3. b \in Bijection(1..t, E)
  <2> HIDE DEF t
  <2>1. b \in [1..t -> E] /\ \A i \in 1..t : b[i] = s[i]
    BY <1>1
  <2>2. \A i, j \in 1..t : b[i] = b[j] => i = j
    BY <1>1, <2>1
  <2>3. \A e \in E : \E i \in 1..t : b[i] = e
    BY <1>1, <2>1
  <2> HIDE DEF E, b
  <2> QED  BY <2>1, <2>2, <2>3 DEF Bijection, Injection, Surjection, IsInjective, Range
<1>4. ExistsBijection(1..t, E)
  BY <1>3 DEF ExistsBijection
<1> HIDE DEF t, E
<1>5. IsFiniteSet(E) /\ Cardinality(E) = Cardinality(1..t)
  BY <1>2, <1>4, FS_Bijection
<1> QED  BY <1>2, <1>5 DEF t, E

-----------------------------------------------------------------------------
(* Shares of the shards.                                                   *)

LEMMA DivMod ==
    ASSUME NEW m \in Nat, m > 0, NEW a \in Nat
    PROVE  /\ a = m * (a \div m) + (a % m)
           /\ a \div m \in Nat /\ a % m \in 0..(m - 1)
OBVIOUS

LEMMA PlaceOf ==
    ASSUME NEW m \in Nat, m > 0, NEW t \in Nat, NEW q \in 0..(m - 1)
    PROVE  m * t + q \in Nat /\ (m * t + q) \div m = t /\ (m * t + q) % m = q
OBVIOUS

LEMMA FirstTurn ==
    ASSUME NEW m \in Nat, NEW a \in 0..(m - 1)
    PROVE  a % m = a
OBVIOUS

\* Place q of row t, among n rows of m places.
LEMMA InRows ==
    ASSUME NEW m \in Nat, m > 0, NEW n \in Nat, NEW t \in 0..(n - 1), NEW q \in 0..(m - 1)
    PROVE  m * t + q \in 0..(n * m - 1)
<1>1. t + 1 <= n /\ n - (t + 1) \in Nat
  OBVIOUS
<1>2. m * (n - (t + 1)) \in Nat
  BY <1>1
<1>3. m * (n - (t + 1)) = n * m - m * t - m
  OBVIOUS
<1>4. m * t \in Nat /\ n * m \in Nat
  OBVIOUS
<1> QED  BY <1>2, <1>3, <1>4

\* What is among n rows of m places is in one of the rows.
LEMMA RowOf ==
    ASSUME NEW m \in Nat, m > 0, NEW n \in Nat, NEW a \in 0..(n * m - 1)
    PROVE  a \div m \in 0..(n - 1)
<1>1. a \in Nat /\ n * m \in Nat /\ a < n * m
  OBVIOUS
<1> DEFINE t == a \div m
<1>2. a = m * t + (a % m) /\ t \in Nat /\ a % m \in Nat
  BY <1>1, DivMod
<1> HIDE DEF t
<1>3. ASSUME t >= n  PROVE FALSE
  <2>1. t - n \in Nat /\ m * (t - n) \in Nat
    BY <1>2, <1>3
  <2>2. m * (t - n) = m * t - n * m
    BY <1>2
  <2>3. m * t \in Nat
    BY <1>2
  <2> QED  BY <1>1, <1>2, <2>1, <2>2, <2>3
<1> QED  BY <1>2, <1>3 DEF t

\* After the first turn of m, whoever is at q had its place in the turn before.
LEMMA TurnBefore ==
    ASSUME NEW m \in Nat, m > 0, NEW a \in Nat, NEW q \in 0..(m - 1), a \notin 0..(m - 1)
    PROVE  LET b == m * (a \div m - 1) + q
           IN  b \in Nat /\ b % m = q /\ b \div m = a \div m - 1 /\ b <= a
<1> DEFINE t == a \div m
           r == a % m
           b == m * (t - 1) + q
<1>1. a = m * t + r /\ t \in Nat /\ r \in 0..(m - 1)
  BY DivMod
<1> HIDE DEF t, r
<1>2. t # 0
  BY <1>1
<1>3. t - 1 \in Nat /\ m * (t - 1) = m * t - m
  BY <1>1, <1>2
<1>4. b \in Nat /\ b % m = q /\ b \div m = t - 1
  BY <1>3, PlaceOf
<1>5. b <= a
  <2>1. m * t \in Nat
    BY <1>1
  <2> QED  BY <1>1, <1>3, <2>1
<1> QED  BY <1>4, <1>5 DEF t

\* The shards of k, by their number.
Share(shard, k) == {i \in 1..Len(shard) : shard[i] = k}

LEMMA ShareFinite ==
    ASSUME NEW shard \in Seq(Ids), NEW k
    PROVE  IsFiniteSet(Share(shard, k)) /\ Cardinality(Share(shard, k)) \in Nat
<1>1. IsFiniteSet(1..Len(shard))
  <2>1. Len(shard) \in Int /\ 1 \in Int
    OBVIOUS
  <2> QED  BY <2>1, FS_Interval
<1>2. Share(shard, k) \in SUBSET (1..Len(shard))
  BY DEF Share
<1>3. IsFiniteSet(Share(shard, k))
  BY <1>1, <1>2, FS_Subset
<1> QED  BY <1>3, FS_CardinalityType

\* Dealing out in turn gives nobody two shards more than another: but for the
\* first, each of k's shards follows one of l's in the turn before.
LEMMA DealtEvenly ==
    ASSUME NEW shard \in Seq(Ids), NEW s \in Seq(Ids), s # <<>>, NoRepeats(s),
           Dealt(shard, s), NEW k \in Elements(s), NEW l \in Elements(s)
    PROVE  Cardinality(Share(shard, k)) - Cardinality(Share(shard, l)) <= 1
<1> DEFINE m == Len(s)
           n == Len(shard)
           A == Share(shard, k)
           B == Share(shard, l)
<1>1. m \in Nat /\ m > 0 /\ n \in Nat
  OBVIOUS
<1>2. PICK p \in 1..m : s[p] = k
  BY DEF Elements
<1>3. PICK q \in 1..m : s[q] = l
  BY DEF Elements
<1>4. \A i \in 1..n : shard[i] = s[((i - 1) % m) + 1] /\ ((i - 1) % m) + 1 \in 1..m
  <2>1. \A i \in 1..n : shard[i] = s[((i - 1) % m) + 1]
    BY DEF Dealt
  <2>2. ASSUME NEW i \in 1..n  PROVE ((i - 1) % m) + 1 \in 1..m
    <3> HIDE DEF m, n
    <3>1. i - 1 \in Nat
      BY <1>1
    <3>2. (i - 1) % m \in 0..(m - 1)
      BY <1>1, <3>1, DivMod
    <3> QED  BY <1>1, <3>2
  <2> QED  BY <2>1, <2>2
<1>5. \A i, j \in 1..m : s[i] = s[j] => i = j
  BY DEF NoRepeats
<1>6. \A i \in 1..n : /\ i \in A <=> (i - 1) % m = p - 1
                      /\ i \in B <=> (i - 1) % m = q - 1
  <2> SUFFICES ASSUME NEW i \in 1..n
      PROVE  /\ i \in A <=> (i - 1) % m = p - 1
             /\ i \in B <=> (i - 1) % m = q - 1
    OBVIOUS
  <2> DEFINE e == (i - 1) % m
  <2>1. shard[i] = s[e + 1] /\ e + 1 \in 1..m
    BY <1>4
  <2>2. e \in Int
    <3> HIDE DEF m, n
    <3>1. i - 1 \in Nat
      BY <1>1
    <3> QED  BY <1>1, <3>1, DivMod
  <2> HIDE DEF e, m
  <2>3. (i \in A <=> s[e + 1] = k) /\ (i \in B <=> s[e + 1] = l)
    BY <2>1 DEF Share
  <2>4. (s[e + 1] = k <=> e + 1 = p) /\ (s[e + 1] = l <=> e + 1 = q)
    BY <1>2, <1>3, <1>5, <2>1
  <2>5. (e + 1 = p <=> e = p - 1) /\ (e + 1 = q <=> e = q - 1)
    BY <1>2, <1>3, <2>2
  <2> QED  BY <2>3, <2>4, <2>5 DEF e, m
<1>7. A \subseteq 1..n /\ B \subseteq 1..n
  BY DEF Share
<1> DEFINE f == [i \in A \ {p} |-> m * ((i - 1) \div m - 1) + (q - 1) + 1]
<1> HIDE DEF m, n, A, B
<1>8. p - 1 \in 0..(m - 1) /\ q - 1 \in 0..(m - 1)
  BY <1>1, <1>2, <1>3
<1>9. ASSUME NEW i \in A \ {p}
      PROVE  /\ f[i] \in B
             /\ f[i] - 1 \in Nat /\ (f[i] - 1) \div m = (i - 1) \div m - 1
  <2>1. i \in 1..n /\ (i - 1) % m = p - 1 /\ i - 1 \in Nat
    BY <1>1, <1>6, <1>7
  <2> DEFINE a == i - 1
  <2>2. a \notin 0..(m - 1)
    <3> SUFFICES ASSUME a \in 0..(m - 1)  PROVE FALSE
      OBVIOUS
    <3>1. a = p - 1
      BY <1>1, <2>1, FirstTurn
    <3> QED  BY <1>2, <2>1, <3>1
  <2> DEFINE b == m * (a \div m - 1) + (q - 1)
  <2>3. b \in Nat /\ b % m = q - 1 /\ b \div m = a \div m - 1 /\ b <= a
    <3>1. a \in Nat
      BY <2>1
    <3> HIDE DEF a
    <3> QED  BY <1>1, <1>8, <2>2, <3>1, TurnBefore
  <2>4. f[i] = b + 1
    OBVIOUS
  <2> HIDE DEF b, f
  <2>5. f[i] - 1 = b /\ f[i] \in 1..n
    BY <1>1, <2>1, <2>3, <2>4
  <2>6. f[i] \in B
    BY <1>6, <2>3, <2>5
  <2> QED  BY <2>3, <2>5, <2>6
<1>10. f \in Injection(A \ {p}, B)
  <2>1. ASSUME NEW i \in A \ {p}, NEW j \in A \ {p}, f[i] = f[j]  PROVE i = j
    <3>1. (i - 1) \div m - 1 = (j - 1) \div m - 1
      BY <1>9, <2>1
    <3>2. i - 1 \in Nat /\ j - 1 \in Nat /\ (i - 1) % m = p - 1 /\ (j - 1) % m = p - 1
      BY <1>1, <1>6, <1>7
    <3>3. /\ i - 1 = m * ((i - 1) \div m) + (p - 1) /\ (i - 1) \div m \in Nat
          /\ j - 1 = m * ((j - 1) \div m) + (p - 1) /\ (j - 1) \div m \in Nat
      <4> HIDE DEF f
      <4> DEFINE a == i - 1  b == j - 1
      <4>1. /\ a = m * (a \div m) + (a % m) /\ a \div m \in Nat
            /\ b = m * (b \div m) + (b % m) /\ b \div m \in Nat
        <5>1. a \in Nat /\ b \in Nat
          BY <3>2
        <5> HIDE DEF a, b
        <5> QED  BY <1>1, <5>1, DivMod
      <4> QED  BY <3>2, <4>1
    <3>4. (i - 1) \div m = (j - 1) \div m
      <4> HIDE DEF f
      <4> DEFINE a == (i - 1) \div m  b == (j - 1) \div m
      <4>1. a \in Nat /\ b \in Nat /\ a - 1 = b - 1
        BY <3>1, <3>3
      <4> HIDE DEF a, b
      <4>2. a = b
        BY <4>1
      <4> QED  BY <4>2 DEF a, b
    <3>5. i - 1 = j - 1
      BY <3>3, <3>4
    <3>6. i \in Int /\ j \in Int
      BY <1>7
    <3> QED  BY <3>5, <3>6
  <2>2. f \in [A \ {p} -> B]
    BY <1>9
  <2> HIDE DEF f
  <2> QED  BY <2>1, <2>2 DEF Injection, IsInjective
<1>11. IsFiniteSet(A) /\ IsFiniteSet(B) /\ Cardinality(A) \in Nat /\ Cardinality(B) \in Nat
  BY ShareFinite DEF A, B
<1>12. Cardinality(A \ {p}) <= Cardinality(B)
  <2> HIDE DEF f
  <2> QED  BY <1>10, <1>11, FS_Injection
<1>13. Cardinality(A \ {p}) >= Cardinality(A) - 1
  <2>1. Cardinality(A \ {p}) = IF p \in A THEN Cardinality(A) - 1 ELSE Cardinality(A)
    BY <1>11, FS_RemoveElement
  <2> QED  BY <1>11, <2>1
<1>14. Cardinality(A \ {p}) \in Nat
  BY <1>11, FS_RemoveElement, FS_CardinalityType
<1> QED  BY <1>11, <1>12, <1>13, <1>14 DEF A, B

\* What main.c lays out.
LEMMA InitialLayout ==
    ASSUME NEW x \in Indices
    PROVE  LET m == ShardsPerWorker[x]
               shard == InitialShards[x]
           IN  /\ m \in Nat /\ InitialWorkers * m \in Nat
               /\ shard \in Seq(1..InitialWorkers) /\ Len(shard) = InitialWorkers * m
               /\ \A i \in 1..(InitialWorkers * m) : shard[i] = ((i - 1) \div m) + 1
<1> DEFINE m == ShardsPerWorker[x]
           n == InitialWorkers * m
           shard == InitialShards[x]
<1>1. m \in Nat /\ InitialWorkers \in Nat
  BY ScalingAssumption DEF Indices
<1> HIDE DEF m
<1>2. n \in Nat
  BY <1>1
<1>3. shard = [i \in 1..n |-> ((i - 1) \div m) + 1]
  BY DEF InitialShards, m
<1> HIDE DEF shard
<1>4. ASSUME NEW i \in 1..n  PROVE ((i - 1) \div m) + 1 \in 1..InitialWorkers
  <2>1. m > 0
    <3>1. m = 0 => n = 0
      BY <1>1
    <3> QED  BY <1>1, <1>2, <3>1
  <2> DEFINE a == i - 1
  <2>2. a \in 0..(InitialWorkers * m - 1)
    BY <1>2
  <2> HIDE DEF a, n
  <2>3. a \div m \in 0..(InitialWorkers - 1)
    BY <1>1, <2>1, <2>2, RowOf
  <2> QED  BY <1>1, <2>3 DEF a
<1> HIDE DEF n
<1>5. shard \in [1..n -> 1..InitialWorkers] /\ \A i \in 1..n : shard[i] = ((i - 1) \div m) + 1
  BY <1>3, <1>4
<1>6. shard \in Seq(1..InitialWorkers) /\ Len(shard) = n
  <2> DEFINE S == 1..InitialWorkers
  <2>1. shard \in [1..n -> S]
    BY <1>5
  <2> HIDE DEF S
  <2>2. shard \in Seq(S) /\ Len(shard) = n
    BY <1>2, <2>1
  <2> QED  BY <2>2 DEF S
<1> QED  BY <1>1, <1>2, <1>5, <1>6 DEF m, n, shard

\* Each of the first workers has as many shards of an index as any other.
LEMMA InitialEvenly ==
    ASSUME NEW x \in Indices, NEW k \in 1..InitialWorkers, NEW l \in 1..InitialWorkers
    PROVE  Cardinality(Share(InitialShards[x], k)) <= Cardinality(Share(InitialShards[x], l))
<1> DEFINE m == ShardsPerWorker[x]
           n == InitialWorkers * m
           shard == InitialShards[x]
           A == Share(shard, k)
           B == Share(shard, l)
<1>1. /\ m \in Nat /\ n \in Nat /\ shard \in Seq(1..InitialWorkers) /\ Len(shard) = n
      /\ \A i \in 1..n : shard[i] = ((i - 1) \div m) + 1
  BY InitialLayout
<1>2. InitialWorkers \in Nat /\ k - 1 \in 0..(InitialWorkers - 1)
      /\ l - 1 \in 0..(InitialWorkers - 1) /\ l - 1 \in Nat
  BY ScalingAssumption
<1>3. A \in SUBSET (1..n) /\ B \in SUBSET (1..n)
  BY <1>1 DEF Share
<1> HIDE DEF m, shard
<1> DEFINE f == [i \in A |-> m * (l - 1) + ((i - 1) % m) + 1]
<1>4. \A i \in 1..n : /\ i \in A <=> ((i - 1) \div m) + 1 = k
                      /\ i \in B <=> ((i - 1) \div m) + 1 = l
  BY <1>1 DEF Share
<1> HIDE DEF A, B
<1>5. ASSUME NEW i \in A
      PROVE  /\ f[i] \in B /\ (f[i] - 1) % m = (i - 1) % m
             /\ i - 1 = m * (k - 1) + ((i - 1) % m) /\ (i - 1) % m \in Int
  <2> DEFINE a == i - 1
             c == a % m
             b == m * (l - 1) + c
  <2>1. i \in 1..n /\ a \in Nat /\ m > 0
    <3>1. i \in 1..n
      BY <1>3
    <3>2. m = 0 => n = 0
      BY <1>1, <1>2
    <3> HIDE DEF n
    <3> QED  BY <1>1, <3>1, <3>2
  <2>2. (a \div m) + 1 = k
    BY <1>4, <2>1
  <2> HIDE DEF a
  <2>3. a = m * (a \div m) + c /\ a \div m \in Nat /\ c \in 0..(m - 1)
    BY <1>1, <2>1, DivMod
  <2>4. a \div m = k - 1
    BY <1>2, <2>2, <2>3
  <2>5. f[i] = b + 1
    BY DEF a
  <2> HIDE DEF c, f
  <2>6. b \in Nat /\ b \div m = l - 1 /\ b % m = c
    <3> DEFINE t == l - 1
    <3>1. t \in Nat
      BY <1>2
    <3> HIDE DEF t
    <3>2. m * t + c \in Nat /\ (m * t + c) \div m = t /\ (m * t + c) % m = c
      BY <1>1, <2>1, <2>3, <3>1, PlaceOf
    <3> QED  BY <3>2 DEF t
  <2>7. b \in 0..(n - 1)
    <3> DEFINE t == l - 1
    <3>1. t \in 0..(InitialWorkers - 1)
      BY <1>2
    <3> HIDE DEF t
    <3>2. m * t + c \in 0..(InitialWorkers * m - 1)
      BY <1>1, <1>2, <2>1, <2>3, <3>1, InRows
    <3> QED  BY <3>2 DEF t
  <2> HIDE DEF b, n
  <2>8. f[i] \in 1..n /\ f[i] - 1 = b
    BY <1>1, <2>5, <2>7
  <2>9. (b \div m) + 1 = l
    BY <1>2, <2>6
  <2>10. f[i] \in B
    BY <1>4, <2>8, <2>9
  <2>11. a = m * (k - 1) + c
    BY <2>3, <2>4
  <2>12. c \in Int
    BY <1>1, <2>3
  <2> QED  BY <2>6, <2>8, <2>10, <2>11, <2>12 DEF a, c
<1>6. f \in Injection(A, B)
  <2>1. f \in [A -> B]
    BY <1>5
  <2>2. ASSUME NEW i \in A, NEW j \in A, f[i] = f[j]  PROVE i = j
    <3>1. i - 1 = j - 1
      <4> HIDE DEF f
      <4> QED  BY <1>5, <2>2
    <3>2. i \in Int /\ j \in Int
      BY <1>3
    <3> QED  BY <3>1, <3>2
  <2> HIDE DEF f
  <2> QED  BY <2>1, <2>2 DEF Injection, IsInjective
<1>7. IsFiniteSet(B)
  <2>1. n \in Int /\ 1 \in Int
    BY <1>1
  <2> HIDE DEF n
  <2>2. IsFiniteSet(1..n)
    BY <2>1, FS_Interval
  <2> QED  BY <1>3, <2>2, FS_Subset
<1>8. Cardinality(A) <= Cardinality(B)
  <2> HIDE DEF f
  <2> QED  BY <1>6, <1>7, FS_Injection
<1> QED  BY <1>8 DEF A, B, shard

\* However the shards came to be where they are, the shares are even.
LEMMA SharesInvEven ==
    ASSUME TypeOK, SharesInv, NEW x \in Indices, NEW k \in Blue, NEW l \in Blue
    PROVE  Cardinality(Share(shards[x], k)) - Cardinality(Share(shards[x], l)) <= 1
<1> DEFINE a == Cardinality(Share(shards[x], k))
           b == Cardinality(Share(shards[x], l))
<1>1. shards[x] \in Seq(Ids)
  BY DEF TypeOK
<1>2. a \in Nat /\ b \in Nat
  BY <1>1, ShareFinite
<1>3. CASE Blue = 1..InitialWorkers /\ shards = InitialShards
  <2>1. a <= b
    BY <1>3, InitialEvenly
  <2> HIDE DEF a, b
  <2>2. a - b <= 1
    BY <1>2, <2>1
  <2> QED  BY <2>2 DEF a, b
<1>4. CASE \E s \in Seq(Ids) :
              /\ s # <<>> /\ NoRepeats(s) /\ Elements(s) = Blue
              /\ \A y \in Indices : Dealt(shards[y], s)
  <2>1. PICK s \in Seq(Ids) :
              /\ s # <<>> /\ NoRepeats(s) /\ Elements(s) = Blue
              /\ \A y \in Indices : Dealt(shards[y], s)
    BY <1>4
  <2> QED  BY <1>1, <2>1, DealtEvenly
<1> QED  BY <1>3, <1>4 DEF SharesInv

\* In a state of the invariant every request is placed.
LEMMA LoadPlaced ==
    ASSUME Inv
    PROVE  LoadOK(Load, {}) /\ Load.worker = worker /\ Load.request = request
<1>1. Load \in Loads
  BY DEF Inv, TypeOK, Load, Loads, RequestType
<1>2. Placed(Load, {})
  BY DEF Inv, RequestsArePlaced, Placed, Computing, Load
<1>3. \A k \in Blue : WorkerInv(Load.worker[k])
  BY DEF Inv, WorkersInv, Blue, Load
<1> QED  BY <1>1, <1>2, <1>3 DEF LoadOK, Load

-----------------------------------------------------------------------------
(* The initial states.                                                     *)

LEMMA InitInv ==
    ASSUME Init
    PROVE  Inv
<1> DEFINE N == InitialWorkers
<1>1. N \in Nat /\ N >= 1 /\ N <= MaxWorkers /\ MaxWorkers \in Nat
  BY ScalingAssumption
<1>2. PICK w \in FreshWorkers :
        worker = [k \in Ids |-> IF k <= N THEN w ELSE Unequipped]
  BY DEF Init
<1>3. /\ WorkerInv(w) /\ w \in WorkerState
      /\ Running(w) = {} /\ Waiting(w) = {} /\ w.io = {}
  BY FreshWorkerKeeps DEF WorkerInv, WorkerOK
<1>4. /\ Unequipped \in WorkerState
      /\ Running(Unequipped) = {} /\ Waiting(Unequipped) = {} /\ Unequipped.io = {}
  BY DEF Unequipped, WorkerState, Running, Busy, Waiting, Elements
<1>5. \A k \in Ids : worker[k] \in {w, Unequipped} /\ (k <= N => worker[k] = w)
                       /\ (~(k <= N) => worker[k] = Unequipped)
  BY <1>2
<1>6. worker \in [Ids -> WorkerState]
  BY <1>2, <1>3, <1>4
<1>7. \A k \in Ids : /\ status[k] = "BLUE" <=> k <= N
                     /\ status[k] = "unborn" <=> ~(k <= N)
                     /\ status[k] # "GREEN" /\ status[k] # "freed"
  BY DEF Init
<1>8. 1..N \subseteq Ids /\ \A k \in Ids : k <= N <=> k \in 1..N
  BY <1>1 DEF Ids
<1>9. Blue = 1..N
  BY <1>7, <1>8 DEF Blue
<1>10. /\ registry \in Seq(Ids) /\ Len(registry) = N /\ NoRepeats(registry)
       /\ Elements(registry) = 1..N
  <2>1. registry = [k \in 1..N |-> k]
    BY DEF Init
  <2>2. \A S : (\A i \in 1..N : i \in S) =>
                 [i \in 1..N |-> i] \in Seq(S) /\ Len([i \in 1..N |-> i]) = N
    BY <1>1
  <2>3. registry \in Seq(Ids) /\ Len(registry) = N
    <3>1. \A i \in 1..N : i \in Ids
      BY <1>8
    <3> HIDE DEF N
    <3> QED  BY <2>1, <2>2, <3>1
  <2>4. \A i \in 1..N : registry[i] = i
    BY <2>1
  <2> QED  BY <2>3, <2>4 DEF NoRepeats, Elements
<1>11. Routed \subseteq Blue
  <2> SUFFICES ASSUME NEW x \in Indices  PROVE Elements(shards[x]) \subseteq 1..N
    BY <1>9 DEF Routed
  <2>1. shards[x] = InitialShards[x] /\ InitialShards[x] \in Seq(1..N)
    BY InitialLayout DEF Init
  <2> DEFINE S == 1..N
  <2>2. shards[x] \in Seq(S)
    BY <2>1
  <2> HIDE DEF S
  <2>3. Elements(shards[x]) \subseteq S
    BY <2>2 DEF Elements
  <2> QED  BY <2>3 DEF S
<1>12. shards \in [Indices -> Seq(Ids)]
  <2>1. shards = InitialShards
    BY DEF Init
  <2>2. \A x \in Indices : InitialShards[x] \in Seq(Ids)
    <3> TAKE x \in Indices
    <3>1. InitialShards[x] \in Seq(1..N)
      BY InitialLayout
    <3> DEFINE S == 1..N
    <3>2. InitialShards[x] \in Seq(S) /\ S \subseteq Ids
      BY <3>1, <1>8
    <3> HIDE DEF S
    <3> QED  BY <3>2
  <2>3. InitialShards = [x \in Indices |-> InitialShards[x]]
    BY DEF InitialShards
  <2> QED  BY <2>1, <2>2, <2>3
<1>13. request \in [Jobs -> RequestType] /\ \A r \in Jobs : request[r].step = "none"
  BY <1>1 DEF Init, Idle, RequestType
<1>14. scale = NoScale /\ steady = TRUE /\ Old = {} /\ scale.old = <<>>
       /\ scale.num = 0 /\ scale.pools_done = 0 /\ scale.phase = "none"
  BY DEF Init, NoScale, Old, Elements
<1>15. TypeOK
  <2>1. /\ status \in [Ids -> {"unborn", "GREEN", "BLUE", "freed"}]
        /\ blue_green \subseteq Ids /\ components \subseteq Ids
        /\ config \in [num_workers : Nat, half_ocus : Nat]
        /\ steady \in BOOLEAN /\ stale \subseteq Jobs \cup {"profiler"}
    BY <1>1, <1>8 DEF Init
  <2>2. scale.old \in Seq(Ids) /\ scale.pools_done \in 0..scale.num /\ scale.num \in Nat
        /\ scale.phase \in {"none", "pools", "ready"}
    BY <1>14
  <2> QED  BY <2>1, <2>2, <1>6, <1>10, <1>12, <1>13 DEF TypeOK, RequestType
<1>16. FleetMatchesConfig
  <2>1. config.num_workers = Len(registry) /\ blue_green = Old /\ steady
    BY <1>10, <1>14 DEF Init
  <2>2. Elements(registry) = {k \in Ids : status[k] \in {"BLUE", "GREEN"}}
    BY <1>7, <1>8, <1>10
  <2>3. \A k \in Elements(registry) : status[k] = "BLUE"
    BY <1>7, <1>8, <1>10
  <2> QED  BY <1>10, <2>1, <2>2, <2>3 DEF FleetMatchesConfig
<1>17. BornInOrder
  <2>1. N \in 0..MaxWorkers
    BY <1>1
  <2>2. \A k \in Ids : status[k] = "unborn" <=> k > N
    BY <1>1, <1>7 DEF Ids
  <2> QED  BY <2>1, <2>2 DEF BornInOrder
<1>18. WorkersInv
  BY <1>3, <1>5, <1>7 DEF WorkersInv
<1>19. StagesInv
  BY <1>14 DEF StagesInv, NoScale, NoRepeats
<1>20. RequestsArePlaced
  <2>1. \A k \in Ids : /\ Running(worker[k]) \cup Waiting(worker[k]) = {}
                       /\ worker[k].io = {}
    BY <1>3, <1>4, <1>5
  <2> QED  BY <1>7, <1>13, <2>1 DEF RequestsArePlaced
<1>21. SharesInv
  BY <1>9 DEF SharesInv, Init
<1> QED  BY <1>11, <1>15, <1>16, <1>17, <1>18, <1>19, <1>20, <1>21 DEF Inv

-----------------------------------------------------------------------------
(* Steps of requests.                                                      *)

FleetUnchanged == UNCHANGED <<status, blue_green, registry, components, config, steady,
                              scale, shards>>

\* A step that changes the load of one worker that is in service, or was.
LEMMA RequestStep ==
    ASSUME Inv, NEW u, LoadOK(u, {}), ChangeLoad(u), NEW k \in Ids,
           Elsewhere(u, Load, k), status[k] \in {"BLUE", "freed"},
           status[k] = "freed" => Waiting(u.worker[k]) = {},
           FleetUnchanged, stale' \subseteq Jobs \cup {"profiler"}
    PROVE  Inv'
<1>1. /\ worker' = u.worker /\ request' = u.request
      /\ worker' \in [Ids -> WorkerState] /\ request' \in [Jobs -> RequestType]
  BY DEF LoadOK, Loads, ChangeLoad
<1>2. \A j \in Ids \ {k} : worker'[j] = worker[j]
  BY <1>1 DEF Elsewhere, Load
<1>3. TypeOK'
  BY <1>1 DEF Inv, TypeOK, RequestType, FleetUnchanged
<1>4. FleetMatchesConfig'
  BY DEF Inv, FleetMatchesConfig, FleetUnchanged, Old
<1>5. BornInOrder'
  BY DEF Inv, BornInOrder, FleetUnchanged
<1>6. Blue' = Blue /\ Green' = Green
  BY DEF Blue, Green, FleetUnchanged
<1>7. WorkersInv'
  <2> SUFFICES ASSUME NEW j \in Ids
               PROVE  /\ status[j] = "BLUE" => WorkerInv(worker'[j])
                      /\ status[j] = "GREEN" => SpinningUp(worker'[j])
                      /\ status[j] = "unborn" => worker'[j] = Unequipped
    <3>1. WorkersInv' <=> \A j \in Ids :
            /\ status'[j] = "BLUE" => WorkerInv(worker'[j])
            /\ status'[j] = "GREEN" => SpinningUp(worker'[j])
            /\ status'[j] = "unborn" => worker'[j] = Unequipped
      BY DEF WorkersInv
    <3> QED  BY <3>1 DEF FleetUnchanged
  <2>1. CASE j = k
    BY <1>1, <2>1 DEF LoadOK, Blue
  <2>2. CASE j # k
    BY <1>2, <2>2 DEF Inv, WorkersInv
  <2> QED  BY <2>1, <2>2
<1>8. StagesInv'
  <2>1. \A j \in Green : worker'[j] = worker[j]
    BY <1>2 DEF Green
  <2>2. Up' = Up
    BY <1>6, <2>1 DEF Up
  <2> QED  BY <2>2 DEF Inv, StagesInv, FleetUnchanged
<1>9. RequestsArePlaced'
  <2>1. \A r \in Jobs, j \in Ids :
          /\ r \in Computing(worker'[j])
               <=> request'[r].at = j /\ request'[r].step = "compute"
          /\ r \in worker'[j].io <=> request'[r].at = j /\ request'[r].step = "disk"
    BY <1>1 DEF LoadOK, Placed
  <2>2. \A j \in Ids : status[j] = "freed" => Waiting(worker'[j]) = {}
    BY <1>1, <1>2 DEF Inv, RequestsArePlaced
  <2>3. RequestsArePlaced' <=>
          /\ \A r \in Jobs, j \in Ids :
               /\ r \in Computing(worker'[j])
                    <=> request'[r].at = j /\ request'[r].step = "compute"
               /\ r \in worker'[j].io <=> request'[r].at = j /\ request'[r].step = "disk"
          /\ \A j \in Ids : status'[j] = "freed" => Waiting(worker'[j]) = {}
    BY DEF RequestsArePlaced, Computing
  <2> QED  BY <2>1, <2>2, <2>3 DEF FleetUnchanged
<1>10. (Routed \subseteq Blue)' /\ SharesInv'
  BY <1>6 DEF Inv, Routed, SharesInv, FleetUnchanged
<1> QED  BY <1>3, <1>4, <1>5, <1>7, <1>8, <1>9, <1>10 DEF Inv

LEMMA ArriveInv ==
    ASSUME Inv, NEW r \in Jobs, Arrive(r)
    PROVE  Inv'
<1>0. PICK x \in Indices : \E i \in DOMAIN shards[x], kind \in {"GET", "PUT"} :
        ChangeLoad(Launch(Load, r, kind, shards[x][i]))
  BY DEF Arrive
<1>1. PICK i \in DOMAIN shards[x], kind \in {"GET", "PUT"} :
        ChangeLoad(Launch(Load, r, kind, shards[x][i]))
  BY <1>0
<1> DEFINE k == shards[x][i]
           u == Launch(Load, r, kind, k)
<1>2. k \in Blue
  <2>1. shards[x] \in Seq(Ids)
    BY DEF Inv, TypeOK
  <2>2. k \in Elements(shards[x])
    BY <2>1 DEF Elements
  <2> QED  BY <2>2 DEF Inv, Routed
<1>3. k \in Ids /\ status[k] = "BLUE"
  BY <1>2 DEF Blue
<1>4. ChangeLoad(u)
  BY <1>1
<1>5. request[r].step = "none" /\ FleetUnchanged /\ stale' = stale
  BY DEF Arrive, FleetUnchanged
<1> HIDE DEF k, u
<1>6. LoadOK(u, {}) /\ Elsewhere(u, Load, k)
  <2>1. LoadOK(Load, {}) /\ Load.request[r].step = "none"
    BY <1>5, LoadPlaced
  <2>2. u = Launch(Load, r, kind, k)
    BY DEF u, k
  <2> QED  BY <1>2, <2>1, <2>2, LaunchKeeps
<1>7. stale' \subseteq Jobs \cup {"profiler"}
  BY <1>5 DEF Inv, TypeOK
<1> QED  BY <1>3, <1>4, <1>5, <1>6, <1>7, RequestStep

LEMMA CpuEventInv ==
    ASSUME Inv, NEW k \in Ids, NEW c \in Cpus, CpuEvent(k, c)
    PROVE  Inv'
<1> DEFINE w == worker[k]
           r == w.task[c]
           v == CpuDone(w, c)
           t == WithWorker(Load, k, v)
           u == ComputeAnswered(t, r, "4XX")
<1>1. /\ status[k] = "BLUE" /\ c \in Busy(w) /\ FleetUnchanged /\ stale' = stale
  BY DEF CpuEvent, FleetUnchanged
<1>2. ChangeLoad(u)
  <2>1. ChangeLoad(ComputeAnswered([Load EXCEPT !.worker[k] = CpuDone(@, c)],
                                   worker[k].task[c], "4XX"))
    BY DEF CpuEvent
  <2>2. [Load EXCEPT !.worker[k] = CpuDone(@, c)] = t
    BY DEF WithWorker, Load
  <2> QED  BY <2>1, <2>2
<1>3. k \in Blue /\ LoadOK(Load, {}) /\ Load.worker = worker /\ WorkerInv(w)
  BY <1>1, LoadPlaced DEF Blue, LoadOK
<1> HIDE DEF w
<1>4. /\ WorkerInv(v) /\ v.io = w.io /\ r \in Jobs
      /\ Computing(v) = Computing(w) \ {r}
  BY <1>1, <1>3, CpuDoneKeeps DEF Computing
<1>5. r \in Running(w) /\ r \notin w.io
  <2>1. r \in Running(w)
    BY <1>1 DEF Running
  <2> QED  BY <1>3, <2>1 DEF WorkerInv, WorkerOK, EachJobOnce
<1> HIDE DEF v, r
<1>6. GivesUp(v, w, r)
  BY <1>4, <1>5 DEF GivesUp, Outstanding
<1>7. v \in WorkerState /\ w = Load.worker[k]
  BY <1>3, <1>4 DEF WorkerInv, WorkerOK, w
<1>8. InHand(t, Load, k, v, r)
  <2>1. t = WithWorker(Load, k, v)
    OBVIOUS
  <2> HIDE DEF t
  <2> QED  BY <1>3, <1>4, <1>6, <1>7, <2>1, Taken
<1> HIDE DEF t
<1>9. LoadOK(u, {}) /\ Elsewhere(u, t, k)
  <2>1. LoadOK(t, {r}) /\ t.request[r].at = k
    BY <1>8 DEF InHand
  <2>2. u = ComputeAnswered(t, r, "4XX")
    OBVIOUS
  <2> HIDE DEF u
  <2> QED  BY <1>3, <1>4, <2>1, <2>2, AnsweredKeeps
<1> HIDE DEF u
<1>10. Elsewhere(u, Load, k)
  BY <1>8, <1>9 DEF InHand, Elsewhere
<1>11. stale' \subseteq Jobs \cup {"profiler"}
  BY <1>1 DEF Inv, TypeOK
<1> QED  BY <1>1, <1>2, <1>9, <1>10, <1>11, RequestStep

LEMMA DiskEventInv ==
    ASSUME Inv, NEW k \in Ids, NEW r \in Jobs, DiskEvent(k, r)
    PROVE  Inv'
<1> DEFINE w == worker[k]
           v == DiskDone(w, r)
           t == WithWorker(Load, k, v)
           u == End(t, r)
<1>1. /\ status[k] = "BLUE" /\ r \in w.io /\ FleetUnchanged /\ stale' = stale
  BY DEF DiskEvent, FleetUnchanged
<1>2. ChangeLoad(u)
  <2>1. ChangeLoad(End([Load EXCEPT !.worker[k] = DiskDone(@, r)], r))
    BY DEF DiskEvent
  <2>2. [Load EXCEPT !.worker[k] = DiskDone(@, r)] = t
    BY DEF WithWorker, Load
  <2> QED  BY <2>1, <2>2
<1>3. k \in Blue /\ LoadOK(Load, {}) /\ Load.worker = worker /\ WorkerInv(w)
  BY <1>1, LoadPlaced DEF Blue, LoadOK
<1> HIDE DEF w
<1>4. /\ WorkerInv(v) /\ v.io = w.io \ {r}
      /\ Computing(v) = Computing(w)
  BY <1>1, <1>3, DiskDoneKeeps DEF Computing
<1>5. r \notin Computing(w)
  BY <1>1, <1>3 DEF WorkerInv, WorkerOK, EachJobOnce, Computing
<1> HIDE DEF v
<1>6. GivesUp(v, w, r)
  BY <1>1, <1>4, <1>5 DEF GivesUp, Outstanding
<1>7. v \in WorkerState /\ w = Load.worker[k]
  BY <1>3, <1>4 DEF WorkerInv, WorkerOK, w
<1>8. InHand(t, Load, k, v, r)
  <2>1. t = WithWorker(Load, k, v)
    OBVIOUS
  <2> HIDE DEF t
  <2> QED  BY <1>3, <1>4, <1>6, <1>7, <2>1, Taken
<1> HIDE DEF t
<1>9. LoadOK(u, {}) /\ u.worker = t.worker
  <2>1. LoadOK(t, {r})
    BY <1>8 DEF InHand
  <2>2. u = End(t, r)
    OBVIOUS
  <2> HIDE DEF u
  <2> QED  BY <2>1, <2>2, EndKeeps
<1> HIDE DEF u
<1>10. Elsewhere(u, Load, k)
  BY <1>8, <1>9 DEF InHand, Elsewhere
<1>11. stale' \subseteq Jobs \cup {"profiler"}
  BY <1>1 DEF Inv, TypeOK
<1> QED  BY <1>1, <1>2, <1>9, <1>10, <1>11, RequestStep

LEMMA StaleEventInv ==
    ASSUME Inv, NEW k \in Ids, NEW r \in Jobs, StaleEvent(k, r)
    PROVE  Inv'
<1> DEFINE w == worker[k]
           task == [c \in Cpus |-> IF w.task[c] = r THEN NoJob ELSE w.task[c]]
           a == [w EXCEPT !.task = task]
           v == [a EXCEPT !.io = @ \ {r}]
           t == WithWorker(Load, k, v)
           u == End(t, r)
<1>1. /\ status[k] = "freed" /\ r \in Running(w) \cup w.io /\ FleetUnchanged
      /\ stale' = stale \cup {r}
  BY DEF StaleEvent, FleetUnchanged
<1>2. k \notin Blue /\ LoadOK(Load, {}) /\ Load.worker = worker /\ Load.request = request
  BY <1>1, LoadPlaced DEF Blue
<1>3. w \in WorkerState /\ worker \in [Ids -> WorkerState]
  BY <1>2 DEF LoadOK, Loads
<1>4. ChangeLoad(u)
  <2> DEFINE tk == [c \in Cpus |-> IF worker[k].task[c] = r THEN NoJob ELSE worker[k].task[c]]
             b == [Load EXCEPT !.worker[k].task = tk]
  <2>1. ChangeLoad(End([Load EXCEPT
            !.worker[k].task = [c \in Cpus |-> IF @[c] = r THEN NoJob ELSE @[c]],
            !.worker[k].io = @ \ {r}], r))
    BY DEF StaleEvent
  <2>2. ChangeLoad(End([b EXCEPT !.worker[k].io = @ \ {r}], r))
    BY <2>1, <1>2
  <2>3. Load = [worker |-> worker, request |-> request]
    BY DEF Load
  <2>4. b = [worker |-> [worker EXCEPT ![k] = a], request |-> request]
    <3> HIDE DEF task
    <3>1. tk = task
      BY DEF task
    <3> HIDE DEF tk
    <3> QED  BY <2>3, <3>1
  <2>5. [b EXCEPT !.worker[k].io = @ \ {r}] = t
    <3> HIDE DEF a
    <3> DEFINE p == [worker EXCEPT ![k] = a]
    <3>1. p[k] = a /\ [p EXCEPT ![k] = v] = [worker EXCEPT ![k] = v]
      <4> HIDE DEF v
      <4> QED  BY <1>3
    <3> HIDE DEF b
    <3>2. [b EXCEPT !.worker[k].io = @ \ {r}] = [worker |-> [p EXCEPT ![k] = v], request |-> request]
      <4> HIDE DEF p
      <4> QED  BY <2>4, <3>1 DEF p
    <3>3. t = [worker |-> [worker EXCEPT ![k] = v], request |-> request]
      <4> HIDE DEF v
      <4> QED  BY <2>3 DEF WithWorker
    <3> HIDE DEF p, v, t
    <3> QED  BY <3>1, <3>2, <3>3
  <2> QED  BY <2>2, <2>5
<1> HIDE DEF w
<1>5. /\ v \in WorkerState /\ v.task = task /\ v.io = w.io \ {r}
      /\ v.wait_queue = w.wait_queue
  BY <1>3, WorkerAssumption DEF WorkerState
<1>6. r \notin Waiting(w) /\ Waiting(w) = {}
  BY <1>1 DEF w, Inv, RequestsArePlaced
<1> HIDE DEF v
<1>7. Waiting(v) = {}
  BY <1>5, <1>6 DEF Waiting
<1>8. Running(v) = Running(w) \ {r}
  <2>1. NoJob # r
    BY WorkerAssumption
  <2> QED  BY <1>5, <2>1 DEF Running, Busy
<1>9. Computing(v) = Computing(w) \ {r}
  BY <1>6, <1>7, <1>8 DEF Computing
<1>10. GivesUp(v, w, r)
  BY <1>1, <1>5, <1>9 DEF GivesUp, Outstanding, w
<1>11. w = Load.worker[k]
  BY <1>2 DEF w
<1>12. InHand(t, Load, k, v, r)
  <2>1. t = WithWorker(Load, k, v) /\ (k \in Blue => WorkerInv(v))
    BY <1>2
  <2> HIDE DEF t
  <2> QED  BY <1>2, <1>5, <1>10, <1>11, <2>1, Taken
<1> HIDE DEF t
<1>13. LoadOK(u, {}) /\ u.worker = t.worker
  <2>1. LoadOK(t, {r})
    BY <1>12 DEF InHand
  <2>2. u = End(t, r)
    OBVIOUS
  <2> HIDE DEF u
  <2> QED  BY <2>1, <2>2, EndKeeps
<1> HIDE DEF u
<1>14. Elsewhere(u, Load, k) /\ Waiting(u.worker[k]) = {}
  BY <1>7, <1>12, <1>13 DEF InHand, Elsewhere
<1>15. stale' \subseteq Jobs \cup {"profiler"}
  BY <1>1 DEF Inv, TypeOK
<1> QED  BY <1>1, <1>4, <1>13, <1>14, <1>15, RequestStep

\* A step that changes no worker, no request and nothing of the fleet.
LEMMA QuietStep ==
    ASSUME Inv, FleetUnchanged, worker' = worker, request' = request,
           stale' \subseteq Jobs \cup {"profiler"}
    PROVE  Inv'
<1>1. TypeOK'
  BY DEF Inv, TypeOK, FleetUnchanged
<1>2. FleetMatchesConfig' /\ BornInOrder'
  BY DEF Inv, FleetMatchesConfig, BornInOrder, FleetUnchanged, Old
<1>3. WorkersInv'
  BY DEF Inv, WorkersInv, FleetUnchanged
<1>4. Blue' = Blue /\ Up' = Up
  BY DEF Blue, Green, Up, FleetUnchanged
<1>5. StagesInv'
  BY <1>4 DEF Inv, StagesInv, FleetUnchanged
<1>6. RequestsArePlaced'
  BY DEF Inv, RequestsArePlaced, FleetUnchanged
<1>7. (Routed \subseteq Blue)' /\ SharesInv'
  BY <1>4 DEF Inv, Routed, SharesInv, FleetUnchanged
<1> QED  BY <1>1, <1>2, <1>3, <1>5, <1>6, <1>7 DEF Inv

-----------------------------------------------------------------------------
(* The spin-up.                                                            *)

LEMMA IdsFinite == \A S : S \subseteq Ids => IsFiniteSet(S) /\ Cardinality(S) \in Nat
<1>1. IsFiniteSet(Ids)
  BY ScalingAssumption, FS_Interval DEF Ids
<1> QED  BY <1>1, FS_Subset, FS_CardinalityType

\* A worker that spins up and one more CPU of its.
LEMMA CpuComesUp ==
    ASSUME NEW w, SpinningUp(w), NEW c \in Cpus \ Elements(w.available),
           NEW v, v = [w EXCEPT !.available = Append(@, c)]
    PROVE  /\ v \in WorkerState /\ SpinningUp(v)
           /\ Running(v) = Running(w) /\ Waiting(v) = Waiting(w) /\ v.io = w.io
           /\ Len(w.available) # Cardinality(Cpus)
<1>1. /\ w.available \in Seq(Cpus) /\ NoRepeats(w.available)
      /\ w = [Unequipped EXCEPT !.available = w.available]
  BY DEF SpinningUp
<1> DEFINE s == w.available
           t == Append(s, c)
<1>2. t \in Seq(Cpus) /\ NoRepeats(t)
  BY <1>1, AppendAddsElement
<1>3. v = [Unequipped EXCEPT !.available = t]
  <2> HIDE DEF s
  <2>1. w = [Unequipped EXCEPT !.available = s] /\ v = [w EXCEPT !.available = Append(@, c)]
    BY <1>1 DEF s
  <2> QED  BY <2>1 DEF Unequipped
<1> HIDE DEF t
<1>4. v.available = t
  BY <1>3 DEF Unequipped
<1>5. SpinningUp(v)
  BY <1>2, <1>3, <1>4 DEF SpinningUp
<1>6. v \in WorkerState
  <2>1. Unequipped \in WorkerState
    BY DEF WorkerState, Unequipped
  <2>2. [Unequipped EXCEPT !.available = t] \in WorkerState
    BY <1>2, <2>1 DEF WorkerState
  <2> QED  BY <1>3, <2>2
<1>7. v.task = w.task /\ v.wait_queue = w.wait_queue /\ v.io = w.io
  BY <1>1, <1>3 DEF Unequipped
<1>8. Len(w.available) # Cardinality(Cpus)
  <2>1. Elements(w.available) \subseteq Cpus /\ Elements(w.available) # Cpus
    BY <1>1 DEF Elements
  <2>2. Cardinality(Elements(w.available)) = Len(w.available)
    BY <1>1, LenIsCount
  <2> QED  BY <2>1, <2>2, WorkerAssumption, FS_Subset
<1> QED  BY <1>5, <1>6, <1>7, <1>8 DEF Running, Busy, Waiting

LEMMA CpuSpunUpInv ==
    ASSUME Inv, NEW k \in Ids, CpuSpunUp(k)
    PROVE  Inv'
<1> DEFINE w == worker[k]
<1>1. PICK c \in Cpus \ Elements(w.available) :
        worker' = [worker EXCEPT ![k].available = Append(@, c)]
  BY DEF CpuSpunUp
<1> DEFINE v == [w EXCEPT !.available = Append(@, c)]
<1>2. /\ status[k] = "GREEN" /\ request' = request /\ stale' = stale
      /\ UNCHANGED <<status, blue_green, registry, components, config, steady, shards>>
      /\ scale' = PoolGather(Len(worker'[k].available) = Cardinality(Cpus))
  BY DEF CpuSpunUp
<1>3. worker \in [Ids -> WorkerState]
  BY DEF Inv, TypeOK
<1>4. worker' = [worker EXCEPT ![k] = v]
  BY <1>1
<1>5. SpinningUp(w)
  BY <1>2 DEF Inv, WorkersInv
<1> HIDE DEF w
<1>6. /\ v \in WorkerState /\ SpinningUp(v)
      /\ Running(v) = Running(w) /\ Waiting(v) = Waiting(w) /\ v.io = w.io
      /\ Len(w.available) # Cardinality(Cpus)
  <2>1. v = [w EXCEPT !.available = Append(@, c)]
    OBVIOUS
  <2> HIDE DEF v
  <2> QED  BY <1>1, <1>5, <2>1, CpuComesUp
<1> HIDE DEF v
<1>7. /\ worker' \in [Ids -> WorkerState] /\ worker'[k] = v
      /\ \A j \in Ids \ {k} : worker'[j] = worker[j]
  BY <1>3, <1>4, <1>6
<1>8. Blue' = Blue /\ Green' = Green /\ k \in Green /\ k \notin Up
  BY <1>2, <1>6 DEF Blue, Green, Up, w
<1> DEFINE done == Len(v.available) = Cardinality(Cpus)
<1>9. Up' = IF done THEN Up \cup {k} ELSE Up
  <2>1. \A j : j \in Up' <=> j \in Green /\ Len(worker'[j].available) = Cardinality(Cpus)
    BY <1>8 DEF Up
  <2>2. \A j \in Green \ {k} : worker'[j] = worker[j]
    BY <1>7 DEF Green
  <2> HIDE DEF done
  <2>3. \A j : j \in Up' <=> (j \in Up \/ (j = k /\ done))
    BY <1>7, <1>8, <2>1, <2>2 DEF Up, done
  <2> QED  BY <2>3
<1>10. ~steady
  <2>1. k \in Elements(registry)
    BY <1>2 DEF Inv, FleetMatchesConfig
  <2>2. status[k] # "BLUE"
    BY <1>2
  <2> QED  BY <2>1, <2>2 DEF Inv, FleetMatchesConfig
<1>11. /\ scale.num >= 1 /\ scale.pools_done = Cardinality(Up) /\ scale.num = Cardinality(Green)
       /\ scale.phase = IF scale.pools_done = scale.num THEN "ready" ELSE "pools"
       /\ scale \in [phase : {"none", "pools", "ready"}, num : Nat, old : Seq(Ids),
                     pools_done : Nat]
       /\ NoRepeats(scale.old)
  BY <1>10 DEF Inv, StagesInv, FleetMatchesConfig, Green
<1>12. scale' = PoolGather(done)
  BY <1>2, <1>7
<1> HIDE DEF done
<1>13. /\ scale' \in [phase : {"none", "pools", "ready"}, num : Nat, old : Seq(Ids),
                      pools_done : Nat]
       /\ scale'.old = scale.old /\ scale'.num = scale.num
       /\ scale'.pools_done = Cardinality(Up') /\ scale'.pools_done \in 0..scale.num
       /\ scale'.phase = IF scale'.pools_done = scale.num THEN "ready" ELSE "pools"
  <2>1. Up \subseteq Ids /\ Green \subseteq Ids /\ Up \subseteq Green
    BY DEF Up, Green
  <2>2. /\ IsFiniteSet(Up) /\ IsFiniteSet(Green)
        /\ Cardinality(Up) \in Nat /\ Cardinality(Green) \in Nat
    BY <2>1, IdsFinite
  <2>3. Cardinality(Up \cup {k}) = Cardinality(Up) + 1 /\ Up \cup {k} \subseteq Green
    BY <1>8, <2>1, <2>2, FS_AddElement
  <2>4. Cardinality(Up \cup {k}) <= Cardinality(Green) /\ Cardinality(Up) <= Cardinality(Green)
    BY <2>1, <2>2, <2>3, FS_Subset
  <2>5. CASE done
    <3>1. scale' = [scale EXCEPT !.pools_done = @ + 1,
                       !.phase = IF scale.pools_done + 1 = scale.num THEN "ready" ELSE @]
      BY <1>12, <2>5 DEF PoolGather
    <3>2. scale.phase = "pools" /\ scale.pools_done + 1 <= scale.num /\ scale.pools_done \in Nat
      BY <1>11, <2>2, <2>3, <2>4
    <3>3. Up' = Up \cup {k}
      BY <1>9, <2>5
    <3>4. /\ scale'.pools_done = scale.pools_done + 1 /\ scale'.old = scale.old
          /\ scale'.num = scale.num
          /\ scale'.phase = IF scale.pools_done + 1 = scale.num THEN "ready" ELSE "pools"
          /\ scale' \in [phase : {"none", "pools", "ready"}, num : Nat, old : Seq(Ids),
                         pools_done : Nat]
      <4> DEFINE a == [scale EXCEPT !.pools_done = @ + 1]
                 p == IF scale.pools_done + 1 = scale.num THEN "ready" ELSE scale.phase
      <4>1. scale' = [a EXCEPT !.phase = p]
        BY <1>11, <3>1
      <4>2. p \in {"none", "pools", "ready"}
        BY <3>2
      <4>3. /\ a.pools_done = scale.pools_done + 1 /\ a.old = scale.old /\ a.num = scale.num
            /\ a \in [phase : {"none", "pools", "ready"}, num : Nat, old : Seq(Ids),
                      pools_done : Nat]
        BY <1>11, <3>2
      <4> HIDE DEF a, p
      <4>4. /\ scale'.pools_done = a.pools_done /\ scale'.old = a.old /\ scale'.num = a.num
            /\ scale'.phase = p
            /\ scale' \in [phase : {"none", "pools", "ready"}, num : Nat, old : Seq(Ids),
                           pools_done : Nat]
        BY <4>1, <4>2, <4>3
      <4> QED  BY <3>2, <4>3, <4>4 DEF p
    <3>5. scale.num \in Nat /\ Cardinality(Up') = scale.pools_done + 1
      BY <1>11, <2>3, <3>3
    <3> QED  BY <3>2, <3>4, <3>5
  <2>6. CASE ~done
    BY <1>9, <1>11, <1>12, <2>2, <2>4, <2>6 DEF PoolGather
  <2> QED  BY <2>5, <2>6
<1>14. TypeOK'
  BY <1>2, <1>7, <1>13 DEF Inv, TypeOK
<1>15. FleetMatchesConfig' /\ BornInOrder'
  BY <1>2, <1>13 DEF Inv, FleetMatchesConfig, BornInOrder, Old
<1>16. WorkersInv'
  <2> SUFFICES ASSUME NEW j \in Ids
               PROVE  /\ status[j] = "BLUE" => WorkerInv(worker'[j])
                      /\ status[j] = "GREEN" => SpinningUp(worker'[j])
                      /\ status[j] = "unborn" => worker'[j] = Unequipped
    <3>1. WorkersInv' <=> \A j \in Ids :
            /\ status'[j] = "BLUE" => WorkerInv(worker'[j])
            /\ status'[j] = "GREEN" => SpinningUp(worker'[j])
            /\ status'[j] = "unborn" => worker'[j] = Unequipped
      BY DEF WorkersInv
    <3> QED  BY <1>2, <3>1
  <2> QED  BY <1>2, <1>6, <1>7 DEF Inv, WorkersInv
<1>17. StagesInv'
  BY <1>2, <1>10, <1>11, <1>13 DEF StagesInv
<1>18. RequestsArePlaced'
  <2>1. \A j \in Ids : /\ Running(worker'[j]) = Running(worker[j])
                       /\ Waiting(worker'[j]) = Waiting(worker[j])
                       /\ worker'[j].io = worker[j].io
    BY <1>6, <1>7 DEF w
  <2>2. RequestsArePlaced' <=>
          /\ \A r \in Jobs, j \in Ids :
               /\ r \in Running(worker'[j]) \cup Waiting(worker'[j])
                    <=> request'[r].at = j /\ request'[r].step = "compute"
               /\ r \in worker'[j].io <=> request'[r].at = j /\ request'[r].step = "disk"
          /\ \A j \in Ids : status'[j] = "freed" => Waiting(worker'[j]) = {}
    BY DEF RequestsArePlaced
  <2> QED  BY <1>2, <2>1, <2>2 DEF Inv, RequestsArePlaced
<1>19. (Routed \subseteq Blue)' /\ SharesInv'
  BY <1>2, <1>8 DEF Inv, Routed, SharesInv
<1> QED  BY <1>14, <1>15, <1>16, <1>17, <1>18, <1>19 DEF Inv

-----------------------------------------------------------------------------
(* The start of a scaling.                                                 *)

LEMMA ConcatAdds ==
    ASSUME NEW S, NEW s \in Seq(S), NEW t \in Seq(S), NoRepeats(s), NoRepeats(t),
           Elements(s) \cap Elements(t) = {}
    PROVE  /\ s \o t \in Seq(S) /\ NoRepeats(s \o t) /\ Len(s \o t) = Len(s) + Len(t)
           /\ Elements(s \o t) = Elements(s) \cup Elements(t)
<1> DEFINE m == Len(s)  n == Len(t)  r == s \o t
<1>1. /\ r \in Seq(S) /\ Len(r) = m + n /\ m \in Nat /\ n \in Nat
      /\ \A i \in 1..(m + n) : r[i] = IF i <= m THEN s[i] ELSE t[i - m]
  OBVIOUS
<1> HIDE DEF m, n, r
<1>2. /\ \A i \in 1..m : i \in 1..(m + n) /\ r[i] = s[i]
      /\ \A i \in 1..n : m + i \in 1..(m + n) /\ r[m + i] = t[i]
  <2>1. \A i \in 1..m : i \in 1..(m + n) /\ i <= m
    BY <1>1
  <2>2. \A i \in 1..n : m + i \in 1..(m + n) /\ ~(m + i <= m) /\ (m + i) - m = i
    BY <1>1
  <2> QED  BY <1>1, <2>1, <2>2
<1>3. \A i \in 1..(m + n) : \/ i \in 1..m /\ r[i] = s[i]
                            \/ i - m \in 1..n /\ r[i] = t[i - m]
  <2> TAKE i \in 1..(m + n)
  <2>1. i \in Int /\ (i <= m => i \in 1..m) /\ (~(i <= m) => i - m \in 1..n)
    BY <1>1
  <2> QED  BY <1>1, <2>1
<1>4. Elements(r) = Elements(s) \cup Elements(t)
  <2>1. \A x : x \in Elements(r) <=> \E i \in 1..(m + n) : x = r[i]
    BY <1>1 DEF Elements
  <2>2. \A x : /\ x \in Elements(s) <=> \E i \in 1..m : x = s[i]
               /\ x \in Elements(t) <=> \E i \in 1..n : x = t[i]
    BY DEF Elements, m, n
  <2>3. ASSUME NEW x \in Elements(r)  PROVE x \in Elements(s) \cup Elements(t)
    <3>1. PICK i \in 1..(m + n) : x = r[i]
      BY <2>1
    <3> QED  BY <1>3, <2>2, <3>1
  <2>4. ASSUME NEW x \in Elements(s)  PROVE x \in Elements(r)
    <3>1. PICK i \in 1..m : x = s[i]
      BY <2>2
    <3> QED  BY <1>2, <2>1, <3>1
  <2>5. ASSUME NEW x \in Elements(t)  PROVE x \in Elements(r)
    <3>1. PICK i \in 1..n : x = t[i]
      BY <2>2
    <3> QED  BY <1>2, <2>1, <3>1
  <2> QED  BY <2>3, <2>4, <2>5
<1>5. NoRepeats(r)
  <2> SUFFICES ASSUME NEW i \in 1..(m + n), NEW j \in 1..(m + n), r[i] = r[j]
               PROVE  i = j
    BY <1>1 DEF NoRepeats
  <2>1. /\ \A a \in 1..m : s[a] \in Elements(s)
        /\ \A a \in 1..n : t[a] \in Elements(t)
    BY DEF Elements, m, n
  <2>2. /\ \A a, b \in 1..m : s[a] = s[b] => a = b
        /\ \A a, b \in 1..n : t[a] = t[b] => a = b
    BY DEF NoRepeats, m, n
  <2>3. CASE i \in 1..m /\ r[i] = s[i] /\ j \in 1..m /\ r[j] = s[j]
    BY <2>2, <2>3
  <2>4. CASE i - m \in 1..n /\ r[i] = t[i - m] /\ j - m \in 1..n /\ r[j] = t[j - m]
    <3>1. i - m = j - m
      BY <2>2, <2>4
    <3> QED  BY <1>1, <3>1
  <2>5. CASE i \in 1..m /\ r[i] = s[i] /\ j - m \in 1..n /\ r[j] = t[j - m]
    BY <2>1, <2>5
  <2>6. CASE i - m \in 1..n /\ r[i] = t[i - m] /\ j \in 1..m /\ r[j] = s[j]
    BY <2>1, <2>6
  <2> QED  BY <1>3, <2>3, <2>4, <2>5, <2>6
<1> QED  BY <1>1, <1>4, <1>5 DEF m, n, r

LEMMA BornAreFirst ==
    ASSUME BornInOrder
    PROVE  /\ Cardinality(Born) \in 0..MaxWorkers
           /\ \A k \in Ids : status[k] = "unborn" <=> k > Cardinality(Born)
<1>1. PICK b \in 0..MaxWorkers : \A k \in Ids : status[k] = "unborn" <=> k > b
  BY DEF BornInOrder
<1>2. MaxWorkers \in Nat /\ b \in Nat /\ b <= MaxWorkers
  BY <1>1, ScalingAssumption
<1>3. Born = 1..b
  <2>1. \A k : k \in 1..b <=> k \in 1..MaxWorkers /\ ~(k > b)
    BY <1>2
  <2> QED  BY <1>1, <2>1 DEF Born, Ids
<1>4. Cardinality(1..b) = b
  BY <1>2, FS_Interval
<1> QED  BY <1>1, <1>3, <1>4

LEMMA ScaleToInv ==
    ASSUME Inv, NEW t \in Targets, ScaleTo(t[1], t[2])
    PROVE  Inv'
<1> DEFINE num == t[1]
           b == Cardinality(Born)
           new == [i \in 1..num |-> b + i]
<1>1. /\ steady /\ num >= 1 /\ t[2] >= 1 /\ b + num <= MaxWorkers
      /\ steady' = FALSE
      /\ scale' = [phase |-> "pools", num |-> num, old |-> registry, pools_done |-> 0]
      /\ blue_green' = blue_green \cup Elements(registry)
      /\ config' = [num_workers |-> config.num_workers + num, half_ocus |-> t[2]]
      /\ status' = [k \in Ids |-> IF k \in Elements(new) THEN "GREEN" ELSE status[k]]
      /\ registry' = registry \o new
      /\ components' = components \cup Elements(new)
      /\ worker' = worker /\ shards' = shards /\ request' = request /\ stale' = stale
  BY DEF ScaleTo, ScaleAccepted
<1>2. num \in Nat /\ t[2] \in Nat /\ MaxWorkers \in Nat
  <2>1. t \in Int \X Int
    BY ScalingAssumption
  <2>2. num \in Int /\ t[2] \in Int
    BY <2>1
  <2> QED  BY <1>1, <2>2, ScalingAssumption
<1>3. /\ b \in Nat /\ b <= MaxWorkers
      /\ \A k \in Ids : status[k] = "unborn" <=> k > b
  BY <1>2, BornAreFirst DEF Inv
<1> HIDE DEF b
<1>4. /\ new \in Seq(Ids) /\ NoRepeats(new) /\ Len(new) = num
      /\ Elements(new) = {k \in Ids : b < k /\ k <= b + num}
  <2>1. \A i \in 1..num : b + i \in Ids /\ b < b + i /\ b + i <= b + num
    BY <1>1, <1>2, <1>3 DEF Ids
  <2> HIDE DEF num
  <2>2. new \in Seq(Ids) /\ Len(new) = num /\ \A i \in 1..num : new[i] = b + i
    <3>1. new \in [1..num -> Ids]
      BY <2>1
    <3>2. \A f \in [1..num -> Ids] : f \in Seq(Ids) /\ Len(f) = num
      <4> DEFINE S == Ids
      <4> HIDE DEF S
      <4>1. \A f \in [1..num -> S] : f \in Seq(S) /\ Len(f) = num
        BY <1>2
      <4> QED  BY <4>1 DEF S
    <3> QED  BY <3>1, <3>2
  <2> HIDE DEF new
  <2>3. NoRepeats(new)
    BY <1>2, <1>3, <2>2 DEF NoRepeats
  <2>4. \A k : k \in Elements(new) <=> \E i \in 1..num : k = b + i
    BY <2>2 DEF Elements
  <2>5. \A k \in Ids : b < k /\ k <= b + num => k - b \in 1..num /\ k = b + (k - b)
    BY <1>2, <1>3 DEF Ids
  <2>6. \A k \in Elements(new) : k \in Ids /\ b < k /\ k <= b + num
    BY <2>1, <2>4
  <2> QED  BY <2>2, <2>3, <2>4, <2>5, <2>6
<1> DEFINE N == Elements(new)
<1> HIDE DEF new, num
<1>5. /\ registry \in Seq(Ids) /\ NoRepeats(registry)
      /\ config.num_workers = Len(registry)
      /\ Elements(registry) = {k \in Ids : status[k] \in {"BLUE", "GREEN"}}
      /\ \A k \in Elements(registry) : status[k] = "BLUE"
      /\ scale = NoScale /\ blue_green = {}
  <2>1. scale = NoScale /\ blue_green = Old
    BY <1>1 DEF Inv, StagesInv, FleetMatchesConfig
  <2>2. Old = {}
    BY <2>1 DEF Old, NoScale, Elements
  <2> QED  BY <1>1, <2>1, <2>2 DEF Inv, TypeOK, FleetMatchesConfig
<1>6. N \subseteq Ids /\ \A k \in N : status[k] = "unborn"
  BY <1>3, <1>4
<1>7. \A k \in Ids : status'[k] = IF k \in N THEN "GREEN" ELSE status[k]
  BY <1>1
<1> HIDE DEF N
<1>8. Elements(registry) \cap Elements(new) = {}
  BY <1>5, <1>6 DEF N
<1>9. /\ registry' \in Seq(Ids) /\ NoRepeats(registry')
      /\ Len(registry') = Len(registry) + num
      /\ Elements(registry') = Elements(registry) \cup N
  <2>1. \A s, t2 \in Seq(Ids) :
          NoRepeats(s) /\ NoRepeats(t2) /\ Elements(s) \cap Elements(t2) = {} =>
            /\ s \o t2 \in Seq(Ids) /\ NoRepeats(s \o t2)
            /\ Len(s \o t2) = Len(s) + Len(t2)
            /\ Elements(s \o t2) = Elements(s) \cup Elements(t2)
    BY ConcatAdds
  <2>2. /\ registry \o new \in Seq(Ids) /\ NoRepeats(registry \o new)
        /\ Len(registry \o new) = Len(registry) + Len(new)
        /\ Elements(registry \o new) = Elements(registry) \cup Elements(new)
    BY <1>4, <1>5, <1>8, <2>1
  <2> QED  BY <1>1, <1>4, <2>2 DEF N
<1>10. Blue' = Blue /\ Elements(registry) = Blue
  <2>1. \A k : k \in Blue' <=> k \in Ids /\ status'[k] = "BLUE"
    BY DEF Blue
  <2>2. \A k : k \in Blue' <=> k \in Blue
    BY <1>6, <1>7, <2>1 DEF Blue
  <2> QED  BY <1>5, <2>2 DEF Blue
<1>11. Green' = N
  <2>1. \A k : k \in Green' <=> k \in Ids /\ status'[k] = "GREEN"
    BY DEF Green
  <2>2. \A k \in Ids : status[k] # "GREEN"
    BY <1>5
  <2> QED  BY <1>6, <1>7, <2>1, <2>2
<1>12. TypeOK'
  <2>1. status' \in [Ids -> {"unborn", "GREEN", "BLUE", "freed"}]
    BY <1>1 DEF Inv, TypeOK
  <2>2. blue_green' \subseteq Ids /\ components' \subseteq Ids
    <3>1. Blue \subseteq Ids
      BY DEF Blue
    <3> QED  BY <1>1, <1>6, <1>10, <3>1 DEF Inv, TypeOK, N
  <2>3. config' \in [num_workers : Nat, half_ocus : Nat]
    BY <1>1, <1>2 DEF Inv, TypeOK
  <2>4. /\ steady' \in BOOLEAN /\ scale'.old \in Seq(Ids)
        /\ scale'.phase \in {"none", "pools", "ready"} /\ scale'.num \in Nat
        /\ scale'.pools_done \in 0..scale'.num
    <3>1. 0 \in 0..num /\ num \in Nat
      BY <1>2 DEF num
    <3>2. /\ scale'.old = registry /\ scale'.phase = "pools"
          /\ scale'.num = num /\ scale'.pools_done = 0
      BY <1>1
    <3> QED  BY <1>1, <1>5, <3>1, <3>2
  <2> QED  BY <1>1, <1>9, <2>1, <2>2, <2>3, <2>4 DEF Inv, TypeOK
<1>13. FleetMatchesConfig'
  <2>1. config'.num_workers = Len(registry')
    BY <1>1, <1>5, <1>9
  <2>2. Elements(registry') = {k \in Ids : status'[k] \in {"BLUE", "GREEN"}}
    BY <1>5, <1>6, <1>7, <1>9
  <2>3. scale'.old = registry /\ scale'.num = num /\ ~steady'
    BY <1>1
  <2>4. blue_green' = Blue
    BY <1>1, <1>5, <1>10
  <2>5. Cardinality(Green') = num
    BY <1>4, <1>11, LenIsCount DEF N
  <2>6. Old' = Elements(registry)
    BY <2>3 DEF Old
  <2>7. FleetMatchesConfig' <=>
          /\ config'.num_workers = Len(registry') /\ NoRepeats(registry')
          /\ Elements(registry') = {k \in Ids : status'[k] \in {"BLUE", "GREEN"}}
          /\ blue_green' = Old'
          /\ steady' => \A k \in Elements(registry') : status'[k] = "BLUE"
          /\ ~steady' => /\ Old' = Blue' /\ scale'.num = Cardinality(Green')
    BY DEF FleetMatchesConfig, Blue, Green
  <2> QED  BY <1>9, <1>10, <2>1, <2>2, <2>3, <2>4, <2>5, <2>6, <2>7
<1>14. BornInOrder'
  <2>1. b + num \in 0..MaxWorkers
    BY <1>1, <1>2, <1>3 DEF num
  <2>2. \A k \in Ids : status'[k] = "unborn" <=> k > b + num
    <3> TAKE k \in Ids
    <3>1. k \in Nat /\ num \in Nat
      BY <1>2 DEF Ids, num
    <3>2. k \in N <=> b < k /\ k <= b + num
      BY <1>4 DEF N
    <3>3. status[k] = "unborn" <=> k > b
      BY <1>3
    <3> QED  BY <1>3, <1>7, <3>1, <3>2, <3>3
  <2>3. BornInOrder' <=>
          \E c \in 0..MaxWorkers : \A k \in Ids : status'[k] = "unborn" <=> k > c
    BY DEF BornInOrder
  <2> QED  BY <2>1, <2>2, <2>3
<1>15. WorkersInv'
  <2>1. SpinningUp(Unequipped) /\ Unequipped.available = <<>>
    <3>1. Unequipped.available = <<>>
      BY DEF Unequipped
    <3>2. Unequipped = [Unequipped EXCEPT !.available = <<>>]
      <4> DEFINE u == [Unequipped EXCEPT !.available = <<>>]
      <4>1. Unequipped \in WorkerState
        BY DEF Unequipped, WorkerState
      <4>2. u \in WorkerState
        <5>1. \A s \in Seq(Cpus) : [Unequipped EXCEPT !.available = s] \in WorkerState
          BY <4>1 DEF WorkerState
        <5>2. <<>> \in Seq(Cpus)
          OBVIOUS
        <5> QED  BY <5>1, <5>2
      <4>3. /\ u.available = Unequipped.available /\ u.task = Unequipped.task
            /\ u.wait_queue = Unequipped.wait_queue
            /\ u.spinning_down = Unequipped.spinning_down
            /\ u.utilized = Unequipped.utilized /\ u.ongoing = Unequipped.ongoing
            /\ u.queue_length = Unequipped.queue_length /\ u.io = Unequipped.io
        BY <3>1, <4>1 DEF WorkerState
      <4> HIDE DEF u
      <4>4. u = Unequipped
        BY <4>1, <4>2, <4>3, RecordOfFields
      <4> QED  BY <4>4 DEF u
    <3>3. <<>> \in Seq(Cpus) /\ NoRepeats(<<>>)
      BY DEF NoRepeats
    <3> QED  BY <3>1, <3>2, <3>3 DEF SpinningUp
  <2>2. WorkersInv' <=> \A j \in Ids :
            /\ status'[j] = "BLUE" => WorkerInv(worker'[j])
            /\ status'[j] = "GREEN" => SpinningUp(worker'[j])
            /\ status'[j] = "unborn" => worker'[j] = Unequipped
    BY DEF WorkersInv
  <2> QED  BY <1>1, <1>6, <1>7, <2>1, <2>2 DEF Inv, WorkersInv
<1>16. StagesInv'
  <2>1. Up' = {}
    <3>1. \A k \in N : worker'[k] = Unequipped
      BY <1>1, <1>6 DEF Inv, WorkersInv
    <3>2. Len(Unequipped.available) = 0
      BY DEF Unequipped
    <3>3. Cardinality(Cpus) # 0
      BY WorkerAssumption, FS_EmptySet
    <3>4. Up' = {k \in Green' : Len(worker'[k].available) = Cardinality(Cpus)}
      BY DEF Up
    <3> QED  BY <1>11, <3>1, <3>2, <3>3, <3>4
  <2>2. Cardinality(Up') = 0
    BY <2>1, FS_EmptySet
  <2>3. num \in Nat /\ num >= 1 /\ num # 0
    BY <1>1, <1>2 DEF num
  <2>4. /\ scale' \in [phase : {"none", "pools", "ready"}, num : Nat, old : Seq(Ids),
                       pools_done : Nat]
        /\ scale'.old = registry /\ scale'.num = num /\ scale'.pools_done = 0
        /\ scale'.phase = "pools" /\ ~steady'
    BY <1>1, <1>5, <2>3
  <2> QED  BY <1>5, <2>2, <2>3, <2>4 DEF StagesInv
<1>17. RequestsArePlaced'
  <2>1. \A k \in Ids : status'[k] = "freed" => status[k] = "freed"
    BY <1>7
  <2>2. RequestsArePlaced' <=>
          /\ \A r \in Jobs, j \in Ids :
               /\ r \in Running(worker'[j]) \cup Waiting(worker'[j])
                    <=> request'[r].at = j /\ request'[r].step = "compute"
               /\ r \in worker'[j].io <=> request'[r].at = j /\ request'[r].step = "disk"
          /\ \A j \in Ids : status'[j] = "freed" => Waiting(worker'[j]) = {}
    BY DEF RequestsArePlaced
  <2> QED  BY <1>1, <2>1, <2>2 DEF Inv, RequestsArePlaced
<1>18. (Routed \subseteq Blue)' /\ SharesInv'
  BY <1>1, <1>10 DEF Inv, Routed, SharesInv
<1> QED  BY <1>12, <1>13, <1>14, <1>15, <1>16, <1>17, <1>18 DEF Inv

-----------------------------------------------------------------------------
(* The event that ends a scaling.                                          *)

\* A worker whose last CPU is up is as good as one created with all of them.
LEMMA SpunUp ==
    ASSUME NEW w, SpinningUp(w), Len(w.available) = Cardinality(Cpus)
    PROVE  WorkerInv(w)
<1> DEFINE n == Cardinality(Cpus)
           s == w.available
<1>1. s \in Seq(Cpus) /\ NoRepeats(s) /\ Len(s) = n /\ w = [Unequipped EXCEPT !.available = s]
  BY DEF SpinningUp
<1>2. Elements(s) = Cpus
  <2> HIDE DEF n, s
  <2>1. Elements(s) \subseteq Cpus
    BY <1>1 DEF Elements
  <2>2. Cardinality(Elements(s)) = n
    BY <1>1, LenIsCount
  <2> QED  BY <2>1, <2>2, WorkerAssumption, FS_Subset DEF n
<1>3. s \in [1..n -> Cpus]
  BY <1>1
<1> HIDE DEF n, s
<1>4. /\ w.available = s /\ w.task = [c \in Cpus |-> NoJob] /\ w.wait_queue = <<>>
      /\ w.spinning_down = FALSE /\ w.utilized = 0 /\ w.ongoing = [r \in Jobs |-> 0]
      /\ w.queue_length = 0 /\ w.io = {}
  BY <1>1 DEF Unequipped
<1>5. w \in WorkerState
  <2>1. Unequipped \in WorkerState
    BY DEF WorkerState, Unequipped
  <2>2. [Unequipped EXCEPT !.available = s] \in WorkerState
    BY <1>1, <2>1 DEF WorkerState
  <2> QED  BY <1>1, <2>2
<1>6. w = [ available |-> w.available, task |-> w.task, wait_queue |-> w.wait_queue,
            spinning_down |-> w.spinning_down, utilized |-> w.utilized,
            ongoing |-> w.ongoing, queue_length |-> w.queue_length, io |-> w.io ]
  BY <1>5, RecordOfFields
<1>7. w \in FreshWorkers
  <2>1. /\ w.available \in [1..n -> Cpus] /\ w.task \in [Cpus -> {NoJob}]
        /\ w.wait_queue \in {<<>>} /\ w.spinning_down \in {FALSE} /\ w.utilized \in {0}
        /\ w.ongoing \in [Jobs -> {0}] /\ w.queue_length \in {0} /\ w.io \in {{}}
    BY <1>3, <1>4
  <2>2. NoRepeats(w.available) /\ Elements(w.available) = Cpus
    BY <1>1, <1>2, <1>4
  <2> QED  BY <1>6, <2>1, <2>2 DEF FreshWorkers, n
<1> QED  BY <1>7, FreshWorkerKeeps

\* The shards of an index after the move.
LEMMA TransferDeals ==
    ASSUME TypeOK, NEW x \in Indices, NEW new \in Seq(Ids), new # <<>>,
           NEW shard, shard = Transfer(x, new)
    PROVE  /\ shard \in Seq(Ids) /\ Dealt(shard, new)
           /\ Elements(shard) \subseteq Elements(new)
<1> DEFINE n == Len(shards[x])
           m == Len(new)
<1>1. n \in Nat /\ DOMAIN shards[x] = 1..n /\ m \in Nat /\ m > 0
  BY DEF TypeOK
<1>2. shard = [i \in 1..n |-> new[((i - 1) % m) + 1]]
  BY <1>1 DEF Transfer
<1>3. ASSUME NEW i \in 1..n  PROVE ((i - 1) % m) + 1 \in 1..m
  <2>1. i - 1 \in Nat
    BY <1>1
  <2> DEFINE a == i - 1
  <2> HIDE DEF a, m, n
  <2>2. a % m \in 0..(m - 1)
    BY <1>1, <2>1, DivMod DEF a
  <2> QED  BY <1>1, <2>2 DEF a
<1>4. \A i \in 1..m : new[i] \in Ids /\ new[i] \in Elements(new)
  BY DEF Elements
<1>5. new \in Seq(Ids) /\ Len(new) = m
  OBVIOUS
<1> HIDE DEF n, m
<1>6. shard \in [1..n -> Ids] /\ \A i \in 1..n : shard[i] \in Elements(new)
  BY <1>2, <1>3, <1>4
<1>7. shard \in Seq(Ids) /\ Len(shard) = n
  <2> DEFINE S == Ids
  <2>1. shard \in [1..n -> S]
    BY <1>6
  <2> HIDE DEF S
  <2>2. shard \in Seq(S) /\ Len(shard) = n
    BY <1>1, <2>1
  <2> QED  BY <2>2 DEF S
<1>8. Dealt(shard, new)
  BY <1>2, <1>5, <1>7 DEF Dealt
<1>9. Elements(shard) \subseteq Elements(new)
  <2>1. Elements(shard) = {shard[i] : i \in 1..n}
    BY <1>7 DEF Elements
  <2> QED  BY <1>6, <2>1
<1> QED  BY <1>7, <1>8, <1>9

LEMMA WorkersReadyInv ==
    ASSUME Inv, WorkersReady
    PROVE  Inv'
<1> DEFINE new == NewWorkers
           u == SpinDown(Load, scale.old)
<1>1. /\ scale.phase = "ready"
      /\ shards' = [x \in Indices |-> Transfer(x, new)]
      /\ ChangeLoad(u)
      /\ registry' = Unregistered(registry, scale.old)
      /\ status' = [k \in Ids |-> CASE k \in Elements(new) -> "BLUE"
                                    [] k \in Old -> "freed"
                                    [] OTHER -> status[k]]
      /\ blue_green' = blue_green \ Old
      /\ config' = [config EXCEPT !.num_workers = scale.num]
      /\ steady' = TRUE /\ scale' = NoScale
      /\ components' = components /\ stale' = stale
  BY DEF WorkersReady
<1> HIDE DEF new, u
<1>2. /\ scale \in [phase : {"none", "pools", "ready"}, num : Nat, old : Seq(Ids),
                    pools_done : Nat]
      /\ NoRepeats(scale.old) /\ scale.num >= 1 /\ scale.num \in Nat
      /\ Cardinality(Up) = scale.num
  <2>1. StagesInv
    BY DEF Inv
  <2>2. ~steady
    BY <1>1, <2>1 DEF StagesInv, NoScale
  <2> QED  BY <1>1, <2>1, <2>2 DEF StagesInv
<1>3. /\ registry \in Seq(Ids) /\ NoRepeats(registry) /\ Old = Blue
      /\ Elements(registry) = Blue \cup Green /\ blue_green = Blue
      /\ Cardinality(Green) = scale.num
  <2>1. ~steady
    BY <1>1 DEF Inv, StagesInv, NoScale
  <2>2. Old = Blue /\ scale.num = Cardinality(Green) /\ blue_green = Old
    BY <2>1 DEF Inv, FleetMatchesConfig, Blue, Green
  <2>3. Elements(registry) = Blue \cup Green
    BY DEF Inv, FleetMatchesConfig, Blue, Green
  <2> QED  BY <2>2, <2>3 DEF Inv, FleetMatchesConfig, TypeOK
<1>4. Up = Green
  <2>1. Up \subseteq Green /\ Green \subseteq Ids
    BY DEF Up, Green
  <2> QED  BY <1>2, <1>3, <2>1, IdsFinite, FS_Subset
<1>5. Blue \cap Green = {} /\ Blue \subseteq Ids /\ Green \subseteq Ids
  BY DEF Blue, Green
<1>6. new \in Seq(Ids) /\ NoRepeats(new) /\ Elements(new) = Green
  <2>1. new = NewWorkers
    BY DEF new
  <2>2. /\ new \in Seq(Ids) /\ NoRepeats(new)
        /\ Elements(new) = {k \in Elements(registry) : status[k] = "GREEN"}
    BY <1>3, <2>1, NewWorkersAreGreen
  <2> QED  BY <1>3, <2>2 DEF Green, Blue
<1>7. new # <<>> /\ Len(new) = scale.num
  <2>1. Cardinality(Elements(new)) = Len(new)
    BY <1>6, LenIsCount
  <2>2. Len(<<>>) = 0
    OBVIOUS
  <2> QED  BY <1>2, <1>3, <1>6, <2>1, <2>2
<1>8. \A k \in Ids : status'[k] = IF k \in Green THEN "BLUE"
                                  ELSE IF k \in Blue THEN "freed" ELSE status[k]
  <2>1. \A k \in Ids : status'[k] = CASE k \in Green -> "BLUE"
                                      [] k \in Blue -> "freed"
                                      [] OTHER -> status[k]
    BY <1>1, <1>3, <1>6
  <2> QED  BY <1>5, <2>1
<1>9. Blue' = Green /\ Green' = {}
  <2>1. /\ \A k : k \in Blue' <=> k \in Ids /\ status'[k] = "BLUE"
        /\ \A k : k \in Green' <=> k \in Ids /\ status'[k] = "GREEN"
    BY DEF Blue, Green
  <2> QED  BY <1>5, <1>8, <2>1 DEF Blue, Green
<1>10. /\ LoadOK(u, {})
       /\ \A k \in Ids \ Blue : u.worker[k] = worker[k]
       /\ \A k \in Blue : Waiting(u.worker[k]) = {}
  <2>1. LoadOK(Load, {}) /\ Load.worker = worker
    BY LoadPlaced
  <2>2. scale.old \in Seq(Ids) /\ Elements(scale.old) = Blue /\ u = SpinDown(Load, scale.old)
    BY <1>2, <1>3 DEF Old, u
  <2>3. /\ LoadOK(u, {})
        /\ \A k \in Ids \ Elements(scale.old) : u.worker[k] = Load.worker[k]
        /\ \A k \in Elements(scale.old) : Waiting(u.worker[k]) = {}
    <3>1. Elements(scale.old) \subseteq Blue
      BY <2>2
    <3>2. \A v : v = SpinDown(Load, scale.old) =>
            /\ LoadOK(v, {})
            /\ \A k \in Ids \ Elements(scale.old) : v.worker[k] = Load.worker[k]
            /\ \A k \in Elements(scale.old) : Waiting(v.worker[k]) = {}
      BY <2>1, <2>2, <3>1, SpinDownKeeps
    <3> QED  BY <2>2, <3>2
  <2> QED  BY <2>1, <2>2, <2>3
<1>11. /\ worker' = u.worker /\ request' = u.request
       /\ worker' \in [Ids -> WorkerState] /\ request' \in [Jobs -> RequestType]
  BY <1>1, <1>10 DEF LoadOK, Loads, ChangeLoad
<1>12. /\ registry' \in Seq(Ids) /\ NoRepeats(registry')
       /\ Elements(registry') = Green
  <2>1. /\ registry' \in Seq(Ids) /\ NoRepeats(registry')
        /\ Elements(registry') = Elements(registry) \ Elements(scale.old)
    <3> DEFINE r == Unregistered(registry, scale.old)
    <3>1. r = Unregistered(registry, scale.old)
      OBVIOUS
    <3>2. Elements(scale.old) \subseteq Elements(registry) /\ scale.old \in Seq(Ids)
      BY <1>2, <1>3 DEF Old
    <3> HIDE DEF r
    <3>3. /\ r \in Seq(Ids) /\ NoRepeats(r)
          /\ Elements(r) = Elements(registry) \ Elements(scale.old)
      BY <1>2, <1>3, <3>1, <3>2, UnregisteredRemoves
    <3> QED  BY <1>1, <3>1, <3>3
  <2> QED  BY <1>3, <1>5, <2>1 DEF Old
<1>13. \A x \in Indices : /\ shards'[x] \in Seq(Ids) /\ Dealt(shards'[x], new)
                          /\ Elements(shards'[x]) \subseteq Green
  <2> TAKE x \in Indices
  <2>1. shards'[x] = Transfer(x, new)
    BY <1>1
  <2>2. \A z : z = Transfer(x, new) =>
           z \in Seq(Ids) /\ Dealt(z, new) /\ Elements(z) \subseteq Elements(new)
    BY <1>6, <1>7, TransferDeals DEF Inv
  <2> QED  BY <1>6, <2>1, <2>2
<1>14. TypeOK'
  <2>1. status' \in [Ids -> {"unborn", "GREEN", "BLUE", "freed"}]
    <3>1. \A k \in Ids : status'[k] \in {"unborn", "GREEN", "BLUE", "freed"}
      BY <1>8 DEF Inv, TypeOK
    <3>2. status' = [k \in Ids |-> status'[k]]
      BY <1>1
    <3> QED  BY <3>1, <3>2
  <2>2. shards' \in [Indices -> Seq(Ids)]
    <3>1. shards' = [x \in Indices |-> shards'[x]]
      BY <1>1
    <3> QED  BY <1>13, <3>1
  <2>3. /\ scale'.old \in Seq(Ids) /\ scale'.phase \in {"none", "pools", "ready"}
        /\ scale'.num \in Nat /\ scale'.pools_done \in 0..scale'.num
    BY <1>1 DEF NoScale
  <2>4. config' \in [num_workers : Nat, half_ocus : Nat]
    BY <1>1, <1>2 DEF Inv, TypeOK
  <2>5. blue_green' \subseteq Ids /\ components' \subseteq Ids /\ steady' \in BOOLEAN
        /\ stale' \subseteq Jobs \cup {"profiler"}
    BY <1>1 DEF Inv, TypeOK
  <2> QED  BY <1>11, <1>12, <2>1, <2>2, <2>3, <2>4, <2>5 DEF TypeOK, RequestType
<1>15. FleetMatchesConfig'
  <2>1. config'.num_workers = Len(registry')
    <3>1. config'.num_workers = scale.num
      BY <1>1 DEF Inv, TypeOK
    <3>2. \A s \in Seq(Ids) : NoRepeats(s) => Cardinality(Elements(s)) = Len(s)
      BY LenIsCount
    <3> QED  BY <1>3, <1>12, <3>1, <3>2
  <2>2. Elements(registry') = {k \in Ids : status'[k] \in {"BLUE", "GREEN"}}
    BY <1>5, <1>8, <1>12 DEF Blue, Green
  <2>3. blue_green' = {} /\ Old' = {}
    <3>1. Old' = Elements(scale'.old)
      BY DEF Old
    <3>2. scale'.old = <<>>
      BY <1>1 DEF NoScale
    <3>3. Elements(<<>>) = {}
      BY DEF Elements
    <3> QED  BY <1>1, <1>3, <3>1, <3>2, <3>3
  <2>4. \A k \in Elements(registry') : status'[k] = "BLUE"
    BY <1>5, <1>8, <1>12
  <2>5. FleetMatchesConfig' <=>
          /\ config'.num_workers = Len(registry') /\ NoRepeats(registry')
          /\ Elements(registry') = {k \in Ids : status'[k] \in {"BLUE", "GREEN"}}
          /\ blue_green' = Old'
          /\ steady' => \A k \in Elements(registry') : status'[k] = "BLUE"
          /\ ~steady' => /\ Old' = Blue' /\ scale'.num = Cardinality(Green')
    BY DEF FleetMatchesConfig, Blue, Green
  <2> QED  BY <1>1, <1>12, <2>1, <2>2, <2>3, <2>4, <2>5
<1>16. BornInOrder'
  <2>1. \A k \in Ids : status'[k] = "unborn" <=> status[k] = "unborn"
    BY <1>8 DEF Blue, Green
  <2>2. PICK c \in 0..MaxWorkers : \A k \in Ids : status[k] = "unborn" <=> k > c
    BY DEF Inv, BornInOrder
  <2>3. BornInOrder' <=>
          \E b \in 0..MaxWorkers : \A k \in Ids : status'[k] = "unborn" <=> k > b
    BY DEF BornInOrder
  <2> QED  BY <2>1, <2>2, <2>3
<1>17. WorkersInv'
  <2>1. \A k \in Green : WorkerInv(worker'[k])
    <3> TAKE k \in Green
    <3>1. worker'[k] = worker[k]
      BY <1>5, <1>10, <1>11
    <3>2. SpinningUp(worker[k]) /\ Len(worker[k].available) = Cardinality(Cpus)
      BY <1>4 DEF Inv, WorkersInv, Green, Up
    <3> QED  BY <3>1, <3>2, SpunUp
  <2>2. \A k \in Ids : /\ status'[k] # "GREEN"
                       /\ status'[k] = "BLUE" => k \in Green
                       /\ status'[k] = "unborn" => status[k] = "unborn"
    BY <1>8 DEF Blue, Green
  <2>3. \A k \in Ids : status[k] = "unborn" => worker'[k] = Unequipped
    BY <1>10, <1>11 DEF Inv, WorkersInv, Blue
  <2>4. WorkersInv' <=> \A j \in Ids :
            /\ status'[j] = "BLUE" => WorkerInv(worker'[j])
            /\ status'[j] = "GREEN" => SpinningUp(worker'[j])
            /\ status'[j] = "unborn" => worker'[j] = Unequipped
    BY DEF WorkersInv
  <2> QED  BY <2>1, <2>2, <2>3, <2>4
<1>18. StagesInv'
  BY <1>1 DEF StagesInv, NoScale, NoRepeats
<1>19. RequestsArePlaced'
  <2>1. \A r \in Jobs, j \in Ids :
          /\ r \in Computing(worker'[j])
               <=> request'[r].at = j /\ request'[r].step = "compute"
          /\ r \in worker'[j].io <=> request'[r].at = j /\ request'[r].step = "disk"
    BY <1>10, <1>11 DEF LoadOK, Placed
  <2>2. \A j \in Ids : status'[j] = "freed" => Waiting(worker'[j]) = {}
    <3>1. \A j \in Ids : status'[j] = "freed" => j \in Blue \/ status[j] = "freed"
      BY <1>8
    <3>2. \A j \in Ids : status[j] = "freed" => j \notin Blue /\ Waiting(worker[j]) = {}
      BY DEF Inv, RequestsArePlaced, Blue
    <3> QED  BY <1>10, <1>11, <3>1, <3>2
  <2>3. RequestsArePlaced' <=>
          /\ \A r \in Jobs, j \in Ids :
               /\ r \in Computing(worker'[j])
                    <=> request'[r].at = j /\ request'[r].step = "compute"
               /\ r \in worker'[j].io <=> request'[r].at = j /\ request'[r].step = "disk"
          /\ \A j \in Ids : status'[j] = "freed" => Waiting(worker'[j]) = {}
    BY DEF RequestsArePlaced, Computing
  <2> QED  BY <2>1, <2>2, <2>3
<1>20. (Routed \subseteq Blue)'
  <2>1. Routed' = UNION {Elements(shards'[x]) : x \in Indices}
    BY DEF Routed
  <2> QED  BY <1>9, <1>13, <2>1
<1>21. SharesInv'
  <2>1. SharesInv' <=>
          \/ Blue' = 1..InitialWorkers /\ shards' = InitialShards
          \/ \E s \in Seq(Ids) :
               /\ s # <<>> /\ NoRepeats(s) /\ Elements(s) = Blue'
               /\ \A x \in Indices : Dealt(shards'[x], s)
    BY DEF SharesInv
  <2> QED  BY <1>6, <1>7, <1>9, <1>13, <2>1
<1> QED  BY <1>14, <1>15, <1>16, <1>17, <1>18, <1>19, <1>20, <1>21 DEF Inv

-----------------------------------------------------------------------------
(* The theorems.                                                           *)

LEMMA NextInv ==
    ASSUME Inv, [Next]_vars
    PROVE  Inv'
<1>1. ASSUME NEW r \in Jobs, Arrive(r)  PROVE Inv'
  BY <1>1, ArriveInv
<1>2. ASSUME NEW k \in Ids, NEW c \in Cpus, CpuEvent(k, c)  PROVE Inv'
  BY <1>2, CpuEventInv
<1>3. ASSUME NEW k \in Ids, NEW r \in Jobs, DiskEvent(k, r)  PROVE Inv'
  BY <1>3, DiskEventInv
<1>4. ASSUME NEW k \in Ids, NEW r \in Jobs, StaleEvent(k, r)  PROVE Inv'
  BY <1>4, StaleEventInv
<1>5. ASSUME NEW t \in Targets, ScaleTo(t[1], t[2])  PROVE Inv'
  BY <1>5, ScaleToInv
<1>6. ASSUME NEW k \in Ids, CpuSpunUp(k)  PROVE Inv'
  BY <1>6, CpuSpunUpInv
<1>7. CASE WorkersReady
  BY <1>7, WorkersReadyInv
<1>8. CASE ProfilerTick
  <2>1. FleetUnchanged /\ worker' = worker /\ request' = request
    BY <1>8 DEF ProfilerTick, FleetUnchanged
  <2>2. stale' \subseteq Jobs \cup {"profiler"}
    BY <1>8 DEF ProfilerTick, Inv, TypeOK
  <2> QED  BY <2>1, <2>2, QuietStep
<1>9. CASE UNCHANGED vars
  <2>1. FleetUnchanged /\ worker' = worker /\ request' = request
    BY <1>9 DEF vars, FleetUnchanged
  <2>2. stale' \subseteq Jobs \cup {"profiler"}
    BY <1>9 DEF vars, Inv, TypeOK
  <2> QED  BY <2>1, <2>2, QuietStep
<1> QED  BY <1>1, <1>2, <1>3, <1>4, <1>5, <1>6, <1>7, <1>8, <1>9 DEF Next

\* What the invariant says of the routes and of the shares.
LEMMA InvImplies ==
    ASSUME Inv
    PROVE  RoutesAreReady /\ SharesAreEven
<1>1. Elements(registry) = {k \in Ids : status[k] \in {"BLUE", "GREEN"}}
  BY DEF Inv, FleetMatchesConfig
<1>2. RoutesAreReady
  <2> SUFFICES ASSUME NEW k \in Routed
               PROVE  status[k] = "BLUE" /\ k \in Elements(registry) /\ WorkerOK(worker[k])
    BY DEF RoutesAreReady
  <2>1. k \in Ids /\ status[k] = "BLUE"
    BY DEF Inv, Blue
  <2> QED  BY <1>1, <2>1 DEF Inv, WorkersInv, WorkerInv
<1>3. SharesAreEven
  <2> SUFFICES ASSUME NEW x \in Indices,
                      NEW k \in {n \in Elements(registry) : status[n] = "BLUE"},
                      NEW l \in {n \in Elements(registry) : status[n] = "BLUE"}
               PROVE  Cardinality({i \in DOMAIN shards[x] : shards[x][i] = k})
                        - Cardinality({i \in DOMAIN shards[x] : shards[x][i] = l}) <= 1
    BY DEF SharesAreEven
  <2>1. k \in Blue /\ l \in Blue
    BY <1>1 DEF Blue
  <2>2. DOMAIN shards[x] = 1..Len(shards[x])
    BY DEF Inv, TypeOK
  <2>3. Cardinality(Share(shards[x], k)) - Cardinality(Share(shards[x], l)) <= 1
    BY <2>1, SharesInvEven DEF Inv
  <2> QED  BY <2>2, <2>3 DEF Share
<1> QED  BY <1>2, <1>3

LEMMA Invariance == Spec => []Inv
<1>1. Init => Inv
  BY InitInv
<1>2. Inv /\ [Next]_vars => Inv'
  BY NextInv
<1> QED  BY <1>1, <1>2, PTL DEF Spec

\* Workers, books and contexts keep their types (collection.c): in particular
\* the gathers of a scaling never count more pools than there are new workers.
THEOREM TypeCorrect == Spec => []TypeOK
<1>1. Inv => TypeOK
  BY DEF Inv
<1> QED  BY <1>1, Invariance, PTL

\* No request is routed to a worker that is spinning up, lacks CPUs or is gone:
\* scale_phase_workers_ready runs when the last CPU of the last new worker is up,
\* and moves every shard of every index.
THEOREM RoutesReady == Spec => []RoutesAreReady
<1>1. Inv => RoutesAreReady
  BY InvImplies
<1> QED  BY <1>1, Invariance, PTL

\* dse_config.num_workers, the registry of workers and the colours of the
\* workers agree at every moment of a scaling, whatever is asked for and when.
THEOREM FleetMatches == Spec => []FleetMatchesConfig
<1>1. Inv => FleetMatchesConfig
  BY DEF Inv
<1> QED  BY <1>1, Invariance, PTL

\* As laid out by main.c, and after any number of scalings, the workers' shares
\* of the shards of an index differ by at most one.
THEOREM SharesEven == Spec => []SharesAreEven
<1>1. Inv => SharesAreEven
  BY InvImplies
<1> QED  BY <1>1, Invariance, PTL

\* A request waits on the worker it was sent to and nowhere else, and nobody is
\* left in the queue of a worker that was freed (worker_spin_down).
THEOREM RequestsPlaced == Spec => []RequestsArePlaced
<1>1. Inv => RequestsArePlaced
  BY DEF Inv
<1> QED  BY <1>1, Invariance, PTL

=============================================================================

-------------------------- MODULE SimulationProofs --------------------------
(***************************************************************************)
(* Whole runs, for any workload, roster, period and delays: the chains of  *)
(* events are unbroken, requests arrive as the file says, actions are      *)
(* taken once, one scaling is under way at a time, the counts add up, and  *)
(* requests are routed to shards that exist.  The inductive invariant      *)
(* says what each event on the clock stands for and in what order the      *)
(* kinds come; no property is inductive alone.  The theorems on the hash   *)
(* functions (Routing.tla) are here because the routes need them.          *)
(***************************************************************************)
EXTENDS Simulation, FiniteSetTheorems, SequenceTheorems, WellFoundedInduction,
        TLAPS

-----------------------------------------------------------------------------
(* The inductive invariant.                                                *)

Kinds == {"dispatch", "stop", "poisson", "arrive", "end", "tick", "spun_up", "scaled"}
Feeds == {"dispatch", "stop", "poisson"}

RequestTypes == {"none", "GET", "PUT", "SEARCH"}

RequestType == [id : Nat, type : RequestTypes, document : Int, given : Seq(Int)]

EventType == [what : Kinds, at : Nat, request : RequestType]

Descriptor ==
    [ id : Nat, type : RequestTypes, time : Nat, known : BOOLEAN, document : Int,
      given : Seq(Int) ]

GenType ==
    [ kind : {"loaded", "poisson"}, requests : Seq(Descriptor), current : Nat,
      active : BOOLEAN, has_rate : BOOLEAN, has_index : BOOLEAN ]

CollType ==
    [num_workers : Nat \ {0}, half_ocus : Nat \ {0}, steady : BOOLEAN, target : Nat]

Arrivals == [request : RequestType, at : Nat, shards : Seq(Int)]

\* The positions of the events of some kinds, and their number.
Places(u, W) == {i \in DOMAIN u : u[i].what \in W}
Count(u, W)  == Cardinality(Places(u, W))

Feeding(u)  == Count(u, Feeds)
Arriving(u) == Count(u, {"arrive"})
Ending(u)   == Count(u, {"end"})
Ticking(u)  == Count(u, {"tick"})
Scalings(u) == Count(u, {"spun_up", "scaled"})

Ordered(u) == \A i, k \in DOMAIN u : i < k => u[i].at <= u[k].at

\* An arrival comes before whatever feeds the clock.
ArrivalFirst(u) ==
    \A i, k \in DOMAIN u : u[i].what = "arrive" /\ u[k].what \in Feeds => i < k

\* t is the latest time of the first n requests of the file.
Latest(t, requests, n) ==
    /\ n \in 1..Len(requests)
    /\ \E i \in 1..n : requests[i].time = t
    /\ \A i \in 1..n : requests[i].time <= t

\* The file's requests are numbered in its order, and a generator has what its
\* kind has.
GenOK(g) ==
    /\ g \in GenType
    /\ \A i \in 1..Len(g.requests) : g.requests[i].id = i
    /\ g.kind = "loaded" => /\ g.current <= Len(g.requests)
                            /\ g.current < Len(g.requests) => g.active
    /\ g.kind = "poisson" => g.requests = <<>>

\* What an event on the clock says of the generator and the profiler.
EventOK(e, g, tick) ==
    /\ e.what = "dispatch" => /\ g.kind = "loaded" /\ g.current < Len(g.requests)
                              /\ Latest(e.at, g.requests, g.current + 1)
    /\ e.what = "stop" => /\ g.kind = "loaded" /\ g.current = Len(g.requests)
                          /\ Latest(e.at - StopDelay, g.requests, g.current)
    /\ e.what = "poisson" => g.kind = "poisson"
    /\ e.what = "arrive" =>
         /\ e.request.id = g.current
         /\ g.kind = "loaded" => /\ Latest(e.at, g.requests, g.current)
                                 /\ g.requests[g.current].known
    /\ e.what = "tick" => e.at = tick

AgendaOK(u, t, g, tick, isFed) ==
    /\ u \in Seq(EventType)
    /\ Ordered(u) /\ ArrivalFirst(u)
    /\ \A i \in DOMAIN u : u[i].at >= t /\ EventOK(u[i], g, tick)
    /\ Feeding(u) <= 1 /\ Arriving(u) <= 1 /\ Ticking(u) = 1
    /\ isFed => Feeding(u) = 1

\* The requests that have arrived, or are about to, are those of the file that
\* the generator has come to.
FileOK(u, g, arr) ==
    g.kind = "loaded" =>
        /\ \A i, k \in DOMAIN arr : i < k => arr[i].request.id < arr[k].request.id
        /\ \A i \in DOMAIN arr :
             /\ arr[i].request.id \in 1..g.current /\ g.requests[arr[i].request.id].known
             /\ Latest(arr[i].at, g.requests, arr[i].request.id)
             /\ Arriving(u) # 0 => arr[i].request.id < g.current
        /\ \A n \in 1..g.current :
             g.requests[n].known =>
                \/ \E i \in DOMAIN arr : arr[i].request.id = n
                \/ \E i \in DOMAIN u : u[i].what = "arrive" /\ u[i].request.id = n

\* A clock stopped by the generator was stopped after the last request.
StopOK(u, t, g) ==
    /\ g.current = Len(g.requests)
    /\ Arriving(u) = 0
    /\ Latest(t - StopDelay, g.requests, g.current)

CollOK(c) == c \in CollType /\ (~c.steady => c.target > 0 /\ c.num_workers > c.target)

OneScaling(u, c) == Scalings(u) = IF c.steady THEN 0 ELSE 1

\* The times of an agent's scheduled actions are after t.
Waits(g, t) == \A i \in DOMAIN g.actions : g.actions[i].time > t

\* Every action taken is counted once.
Counted(g) ==
    \A a \in ActionTypes :
        g.counts[a] + g.reported[a] = Cardinality({n \in DOMAIN g.taken : g.taken[n].action = a})

\* The actions taken and those scheduled, each once, and none both.
Apart(g) ==
    /\ NoRepeats(g.taken) /\ NoRepeats(g.actions)
    /\ Elements(g.taken) \cap Elements(g.actions) = {}

AgentOK(g, t) ==
    /\ g \in AgentType /\ Counted(g)
    /\ g.kind = "oblivious" =>
         Apart(g) /\ \A i \in DOMAIN g.taken : g.taken[i].time <= t
    /\ g.kind = "spendy" => g.actions = <<>>

AgentsOK(gs, t) == gs \in Seq(AgentType) /\ \A i \in DOMAIN gs : AgentOK(gs[i], t)

IndexType == [total_requests : Nat, reported : Nat]

Balanced(u, ix, arr) ==
    ix.total_requests + ix.reported + Ending(u) = Len(arr)

\* The shards ss serve r.
RoutedWell(r, ss) ==
    /\ ss # <<>> /\ NoRepeats(ss)
    /\ r.type # "SEARCH" => Len(ss) = 1
    /\ ~GivenNegative(r) => Elements(ss) \subseteq ShardNumbers

Routed(arr) ==
    \A i \in DOMAIN arr : RoutedWell(arr[i].request, arr[i].shards)

Inv ==
    /\ now \in Nat /\ running \in BOOLEAN /\ first \in Nat /\ ticks \in Nat
    /\ index \in IndexType /\ arrivals \in Seq(Arrivals)
    /\ GenOK(gen)
    /\ AgendaOK(agenda, now, gen, TickTime(ticks + 1), running /\ Fed)
    /\ FileOK(agenda, gen, arrivals)
    /\ IsLoaded /\ ~running /\ ~ToldToStop => StopOK(agenda, now, gen)
    /\ CollOK(coll) /\ OneScaling(agenda, coll)
    /\ AgentsOK(agents, now)
    /\ ticks > 0 => \A i \in DOMAIN agents : Waits(agents[i], TickTime(ticks))
    /\ Balanced(agenda, index, arrivals)
    /\ Routed(arrivals)

-----------------------------------------------------------------------------
(* Numbers.                                                                *)

\* A non-empty set of naturals has a least element, since the intervals 1..n
\* are finite and strict inclusion is well-founded on finite sets.
LEMMA LeastNatural ==
    ASSUME NEW T \in SUBSET Nat, T # {}
    PROVE  \E x \in T : \A y \in T : x <= y
<1> DEFINE U == {1..n : n \in T}
<1>1. U \subseteq FiniteSubsetsOf(Nat) /\ U # {}
  <2>1. ASSUME NEW n \in Nat  PROVE 1..n \in SUBSET Nat /\ IsFiniteSet(1..n)
    BY FS_Interval
  <2>2. ASSUME NEW n \in Nat  PROVE 1..n \in FiniteSubsetsOf(Nat)
    BY <2>1 DEF FiniteSubsetsOf
  <2> QED  BY <2>2
<1>2. PICK u \in U : \A v \in U : <<v, u>> \notin StrictSubsetOrdering(Nat)
  <2> HIDE DEF U
  <2> QED  BY <1>1, FS_StrictSubsetOrderingWellFounded, WFMin
<1>3. PICK x \in T : u = 1..x
  OBVIOUS
<1>4. ASSUME NEW y \in T, y < x  PROVE FALSE
  <2>1. 1..y \in U /\ 1..y \in FiniteSubsetsOf(Nat) /\ 1..x \in FiniteSubsetsOf(Nat)
    BY <1>1, <1>3
  <2>2. 1..y \subseteq 1..x /\ x \in 1..x /\ x \notin 1..y
    BY <1>4
  <2>3. <<1..y, 1..x>> \in StrictSubsetOrdering(Nat)
    BY <2>1, <2>2 DEF StrictSubsetOrdering
  <2> QED  BY <1>2, <1>3, <2>1, <2>3
<1> QED  BY <1>4

LEMMA DelayIsLater ==
    ASSUME NEW t \in Nat, NEW d \in Nat
    PROVE  t + d \in Nat /\ t + d >= t
OBVIOUS

\* Induction up to k, over a set in place of a predicate.
LEMMA UpTo ==
    ASSUME NEW k \in Nat, NEW S, 0 \in S,
           \A n \in 1..k : n - 1 \in S => n \in S
    PROVE  \A n \in 0..k : n \in S
<1> DEFINE T == {n \in 0..k : n \notin S}
<1> SUFFICES ASSUME T # {}  PROVE FALSE
  OBVIOUS
<1>1. PICK m \in T : \A n \in T : m <= n
  <2>1. T \in SUBSET Nat
    OBVIOUS
  <2> HIDE DEF T
  <2> QED  BY <2>1, LeastNatural
<1>2. m \in 1..k /\ m \notin S
  <2>1. m \in 0..k /\ m \notin S
    OBVIOUS
  <2>2. m # 0
    BY <2>1
  <2> QED  BY <2>1, <2>2
<1>3. m - 1 \in 0..k /\ m - 1 < m
  BY <1>2
<1>4. m - 1 \notin T
  <2> HIDE DEF T
  <2> QED  BY <1>1, <1>2, <1>3
<1> QED  BY <1>2, <1>3, <1>4

\* g is the values of a loop that begins with base, its n-th turn being F[<<n, x>>].
RunOf(g, k, base, F) == g = [n \in 0..k |-> IF n = 0 THEN base ELSE F[<<n, g[n - 1]>>]]

\* Every loop has its run: the least bound without one would have a predecessor.
LEMMA RunExists ==
    ASSUME NEW k \in Nat, NEW base, NEW F
    PROVE  \E g : RunOf(g, k, base, F)
<1> DEFINE P(m) == \E g : RunOf(g, m, base, F)
           S == {m \in 0..k : P(m)}
<1>1. 0 \in S
  <2> DEFINE g == [n \in 0..0 |-> base]
  <2>1. g = [n \in 0..0 |-> IF n = 0 THEN base ELSE F[<<n, g[n - 1]>>]]
    OBVIOUS
  <2>2. RunOf(g, 0, base, F)
    BY <2>1 DEF RunOf
  <2> QED  BY <2>2
<1>2. ASSUME NEW m \in 1..k, m - 1 \in S
      PROVE  m \in S
  <2>1. PICK g : RunOf(g, m - 1, base, F)
    BY <1>2
  <2>2. \A n \in 0..(m - 1) : g[n] = IF n = 0 THEN base ELSE F[<<n, g[n - 1]>>]
    <3>1. g = [n \in 0..(m - 1) |-> IF n = 0 THEN base ELSE F[<<n, g[n - 1]>>]]
      BY <2>1 DEF RunOf
    <3> QED  BY <3>1
  <2> DEFINE h == [n \in 0..m |-> IF n = m THEN F[<<m, g[m - 1]>>] ELSE g[n]]
  <2>3. ASSUME NEW n \in 0..m
        PROVE  h[n] = IF n = 0 THEN base ELSE F[<<n, h[n - 1]>>]
    <3>1. CASE n = m
      <4>1. n # 0 /\ n - 1 \in 0..m /\ n - 1 # m
        BY <3>1
      <4> QED  BY <3>1, <4>1
    <3>2. CASE n # m
      <4>1. n \in 0..(m - 1) /\ h[n] = g[n]
        BY <3>2
      <4>2. n # 0 => h[n - 1] = g[n - 1]
        <5>1. n # 0 => n - 1 \in 0..m /\ n - 1 # m
          BY <4>1
        <5> QED  BY <5>1
      <4> HIDE DEF h
      <4> QED  BY <2>2, <4>1, <4>2
    <3> QED  BY <3>1, <3>2
  <2>4. RunOf(h, m, base, F)
    <3>1. h = [n \in 0..m |-> h[n]]
      OBVIOUS
    <3> HIDE DEF h
    <3>2. h = [n \in 0..m |-> IF n = 0 THEN base ELSE F[<<n, h[n - 1]>>]]
      BY <2>3, <3>1
    <3> QED  BY <3>2 DEF RunOf
  <2> QED  BY <2>4
<1>3. \A n \in 0..k : n \in S
  <2> HIDE DEF S
  <2> QED  BY <1>1, <1>2, UpTo
<1>4. k \in 0..k
  OBVIOUS
<1> QED  BY <1>3, <1>4

LEMMA RunSteps ==
    ASSUME NEW k \in Nat, NEW base, NEW F, NEW g, RunOf(g, k, base, F)
    PROVE  g[0] = base /\ \A n \in 1..k : g[n] = F[<<n, g[n - 1]>>]
<1>1. \A n \in 0..k : g[n] = IF n = 0 THEN base ELSE F[<<n, g[n - 1]>>]
  <2>1. g = [n \in 0..k |-> IF n = 0 THEN base ELSE F[<<n, g[n - 1]>>]]
    BY DEF RunOf
  <2> QED  BY <2>1
<1>2. g[0] = base
  <2>1. 0 \in 0..k
    OBVIOUS
  <2>2. g[0] = IF 0 = 0 THEN base ELSE F[<<0, g[0 - 1]>>]
    BY <1>1, <2>1
  <2> QED  BY <2>2
<1>3. \A n \in 1..k : g[n] = F[<<n, g[n - 1]>>]
  <2> TAKE n \in 1..k
  <2>1. n \in 0..k /\ n # 0
    OBVIOUS
  <2>2. g[n] = IF n = 0 THEN base ELSE F[<<n, g[n - 1]>>]
    BY <1>1, <2>1
  <2> QED  BY <2>1, <2>2
<1> QED  BY <1>2, <1>3
-----------------------------------------------------------------------------
(* Routing.                                                                *)

\* C's remainder has the sign of the dividend and is less than the divisor.
LEMMA RemainderRange ==
    ASSUME NEW x \in Int, NEW m \in Nat \ {0}
    PROVE  /\ CRem(x, m) \in Int
           /\ x >= 0 => CRem(x, m) \in 0..(m - 1)
           /\ x < 0  => -CRem(x, m) \in 0..(m - 1)
  <1>1. \A y \in Nat : y % m \in 0..(m - 1)
    OBVIOUS
  <1>2. CASE x >= 0
    BY <1>1, <1>2 DEF CRem
  <1>3. CASE x < 0
    <2>1. -x \in Nat /\ CRem(x, m) = -((-x) % m)
      BY <1>3 DEF CRem
    <2>2. (-x) % m \in 0..(m - 1)
      BY <1>1, <2>1
    <2> QED BY <1>3, <2>1, <2>2
  <1> QED BY <1>2, <1>3

\* index_hash never returns a negative number: adding the modulus before the
\* second remainder makes up for a negative document number.
THEOREM HashInRange ==
    ASSUME NEW document \in Int
    PROVE  Hash(document) \in 0..(HashP - 1)
  <1> DEFINE x == HashA * document + HashB
             r == CRem(x, HashP)
  <1>1. HashP \in Nat \ {0} /\ x \in Int
    BY RoutingAssumption
  <1>2. r \in Int /\ r + HashP >= 0
    <2>1. /\ CRem(x, HashP) \in Int
          /\ x >= 0 => CRem(x, HashP) \in 0..(HashP - 1)
          /\ x < 0  => -CRem(x, HashP) \in 0..(HashP - 1)
      <3> HIDE DEF x
      <3> QED BY <1>1, RemainderRange
    <2> HIDE DEF x
    <2> QED BY <1>1, <2>1
  <1>3. CRem(r + HashP, HashP) \in 0..(HashP - 1)
    <2> HIDE DEF r
    <2> QED BY <1>1, <1>2, RemainderRange
  <1> QED BY <1>3 DEF Hash

\* Nothing overflows in index_hash when a long long (largest value MaxLong) is
\* wide enough for an int (MaxInt) times the modulus.  index.h:9 has 1610612741;
\* with 32 and 64 bits the product is 3.5e18 and MaxLong is 9.2e18.
THEOREM HashFitsLongLong ==
    ASSUME NEW MaxInt \in Nat, NEW MaxLong \in Nat, HashP * (MaxInt + 2) <= MaxLong,
           NEW document \in -(MaxInt + 1)..MaxInt
    PROVE  /\ HashA * document + HashB \in -MaxLong..MaxLong
           /\ CRem(HashA * document + HashB, HashP) + HashP \in -MaxLong..MaxLong
  <1> DEFINE m == HashP * (MaxInt + 2)
             x == HashA * document + HashB
  <1>1. HashA \in Nat /\ HashA < HashP /\ HashB \in Nat /\ HashB < HashP /\ HashP \in Nat \ {0}
    BY RoutingAssumption
  <1>2. \A a, k \in Nat : a * k \in Nat
    OBVIOUS
  <1>3. /\ HashA * (MaxInt + 1 - document) \in Nat
        /\ HashA * (MaxInt + 1 + document) \in Nat
        /\ (HashP - HashA) * (MaxInt + 1) \in Nat
    BY <1>1, <1>2
  <1>4. /\ HashA * (MaxInt + 1 - document) = HashA * (MaxInt + 1) - HashA * document
        /\ HashA * (MaxInt + 1 + document) = HashA * (MaxInt + 1) + HashA * document
        /\ (HashP - HashA) * (MaxInt + 1) = HashP * (MaxInt + 1) - HashA * (MaxInt + 1)
        /\ HashP * (MaxInt + 2) = HashP * (MaxInt + 1) + HashP
        /\ HashP * (MaxInt + 2) = HashP * MaxInt + HashP + HashP
    BY <1>1
  <1>5. /\ HashA * document \in Int /\ HashA * (MaxInt + 1) \in Int
        /\ HashP * (MaxInt + 1) \in Int /\ HashP * MaxInt \in Nat
    BY <1>1, <1>2
  <1>6. x \in Int /\ x <= m /\ -x <= m
    <2> DEFINE d == HashA * document
               e == HashA * (MaxInt + 1)
               f == HashP * (MaxInt + 1)
    <2>1. d \in Int /\ e \in Int /\ f \in Int /\ e - d \in Nat /\ e + d \in Nat /\ f - e \in Nat
      BY <1>3, <1>4, <1>5
    <2>2. m = f + HashP
      BY <1>4
    <2> HIDE DEF d, e, f, m
    <2>3. d + HashB \in Int /\ d + HashB <= m /\ -(d + HashB) <= m
      BY <1>1, <2>1, <2>2
    <2> QED BY <2>3 DEF d
  <1>7. m \in Int /\ HashP + HashP <= m
    <2>1. m = HashP * MaxInt + HashP + HashP
      BY <1>4
    <2> DEFINE g == HashP * MaxInt
    <2>2. g \in Nat
      BY <1>5
    <2>3. m = g + HashP + HashP
      BY <2>1
    <2> HIDE DEF m, g
    <2> QED BY <1>1, <2>2, <2>3
  <1>8. m <= MaxLong
    OBVIOUS
  <1>9. x \in -MaxLong..MaxLong
    <2> HIDE DEF x, m
    <2> QED BY <1>6, <1>7, <1>8
  <1>10. CRem(x, HashP) + HashP \in -MaxLong..MaxLong
    <2> HIDE DEF x, m
    <2>1. /\ CRem(x, HashP) \in Int
          /\ x >= 0 => CRem(x, HashP) \in 0..(HashP - 1)
          /\ x < 0  => -CRem(x, HashP) \in 0..(HashP - 1)
      BY <1>1, <1>6, RemainderRange
    <2> QED BY <1>1, <1>6, <1>7, <1>8, <2>1
  <1> QED BY <1>9, <1>10

\* The shard computed for a GET or a PUT is one of the index's shards, for every
\* document and every given hash, negative ones included.
THEOREM ShardInRange ==
    ASSUME NEW document \in Int, NEW given \in Seq(Int)
    PROVE  ComputeShard(document, given) \in ShardNumbers
  <1>1. NumShards \in Nat \ {0}
    BY RoutingAssumption
  <1>2. \A d \in Int : ShardFromHash(Hash(d)) \in ShardNumbers
    <2> TAKE d \in Int
    <2>1. Hash(d) \in Int /\ Hash(d) >= 0
      <3>1. Hash(d) \in 0..(HashP - 1)
        BY HashInRange
      <3> QED  BY <3>1
    <2> QED BY <1>1, <2>1, RemainderRange DEF ShardFromHash, ShardNumbers
  <1>3. CASE given = <<>>
    BY <1>2, <1>3 DEF ComputeShard
  <1>4. CASE given # <<>>
    <2>1. given[1] \in Int
      BY <1>4
    <2>2. CASE given[1] < 0
      <3>1. -given[1] - 1 \in Int /\ -given[1] - 1 >= 0
        BY <2>1, <2>2
      <3> QED BY <1>1, <1>4, <2>2, <3>1, RemainderRange DEF ComputeShard, ShardNumbers
    <2>3. CASE given[1] >= 0
      BY <1>2, <1>4, <2>1, <2>3 DEF ComputeShard
    <2> QED BY <2>1, <2>2, <2>3
  <1> QED BY <1>3, <1>4

\* A sequence of some shards, each once.
Shardwise(s, S) == s \in Seq(S) /\ NoRepeats(s)

\* One hash adds its shard, unless it is there.
Found(shards, hash) ==
    LET s == ShardFromHash(hash)
    IN  IF Contains(shards, s) THEN shards ELSE Append(shards, s)

LEMMA FoundKeeps ==
    ASSUME NEW S, NEW shards, Shardwise(shards, S), NEW hash, ShardFromHash(hash) \in S
    PROVE  Shardwise(Found(shards, hash), S) /\ Found(shards, hash) # <<>>
<1> DEFINE s == ShardFromHash(hash)
<1>1. s \in S
  OBVIOUS
<1> HIDE DEF s
<1>3. shards \in Seq(S) /\ NoRepeats(shards)
  BY DEF Shardwise
<1>4. CASE Contains(shards, s)
  <2>1. Found(shards, hash) = shards
    BY <1>4 DEF Found, s
  <2>2. shards # <<>>
    BY <1>3, <1>4 DEF Contains
  <2> QED  BY <2>1, <2>2
<1>5. CASE ~Contains(shards, s)
  <2> DEFINE t == Append(shards, s)
  <2>1. Found(shards, hash) = t
    BY <1>5 DEF Found, s
  <2>2. /\ t \in Seq(S) /\ Len(t) = Len(shards) + 1 /\ t[Len(shards) + 1] = s
        /\ \A i \in 1..Len(shards) : t[i] = shards[i]
        /\ Len(shards) \in Nat /\ t # <<>>
    BY <1>1, <1>3
  <2> HIDE DEF t
  <2>4. NoRepeats(t)
    <3> SUFFICES ASSUME NEW i \in 1..Len(t), NEW k \in 1..Len(t), t[i] = t[k]
                 PROVE  i = k
      BY DEF NoRepeats
    <3>1. (i \in 1..Len(shards) \/ i = Len(shards) + 1)
          /\ (k \in 1..Len(shards) \/ k = Len(shards) + 1)
      BY <2>2
    <3>2. \A n \in 1..Len(shards) : t[n] # s
      BY <1>5, <2>2 DEF Contains
    <3> QED  BY <1>3, <2>2, <3>1, <3>2 DEF NoRepeats
  <2> QED  BY <2>1, <2>2, <2>4 DEF Shardwise
<1> QED  BY <1>4, <1>5

\* The loop over the given hashes: after n turns.
IsSearching(found, hashes) ==
    found = [n \in 0..Len(hashes) |-> IF n = 0 THEN <<>> ELSE Found(found[n - 1], hashes[n])]

LEMMA SearchLoop ==
    ASSUME NEW hashes \in Seq(Int), NEW S,
           \A n \in 1..Len(hashes) : ShardFromHash(hashes[n]) \in S
    PROVE  \E f : /\ \A n \in 0..Len(hashes) : Shardwise(f[n], S) /\ (n > 0 => f[n] # <<>>)
                  /\ hashes # <<>> => SearchShards(hashes) = f[Len(hashes)]
<1> DEFINE k == Len(hashes)
           X == {s \in Seq(S) : Shardwise(s, S)}
           F == [p \in (1..k) \X X |-> Found(p[2], hashes[p[1]])]
<1>1. k \in Nat /\ \A n \in 1..k : ShardFromHash(hashes[n]) \in S
  OBVIOUS
<1>2. <<>> \in X
  BY DEF Shardwise, NoRepeats
<1>3. ASSUME NEW n \in 1..k, NEW x \in X
      PROVE  F[<<n, x>>] = Found(x, hashes[n]) /\ Found(x, hashes[n]) \in X
             /\ Found(x, hashes[n]) # <<>>
  <2>1. <<n, x>> \in (1..k) \X X
    OBVIOUS
  <2>2. F[<<n, x>>] = Found(x, hashes[n])
    BY <2>1
  <2>3. Shardwise(Found(x, hashes[n]), S) /\ Found(x, hashes[n]) # <<>>
    BY <1>1, FoundKeeps
  <2> QED  BY <2>2, <2>3 DEF Shardwise
<1> HIDE DEF F, X
<1>4. PICK g : RunOf(g, k, <<>>, F)
  BY <1>1, RunExists
<1>5. g[0] = <<>> /\ \A n \in 1..k : g[n] = F[<<n, g[n - 1]>>]
  BY <1>1, <1>4, RunSteps
<1> HIDE DEF k
<1>6. \A n \in 0..k : g[n] \in X
  <2> DEFINE T == {n \in 0..k : g[n] \in X}
  <2>1. 0 \in T
    <3>1. 0 \in 0..k /\ g[0] = <<>>
      BY <1>1, <1>5
    <3> QED  BY <1>2, <3>1
  <2>2. ASSUME NEW n \in 1..k, n - 1 \in T  PROVE n \in T
    <3>1. n \in 0..k /\ g[n - 1] \in X
      BY <1>1, <2>2
    <3>2. g[n] = F[<<n, g[n - 1]>>]
      BY <1>5, <3>1
    <3> QED  BY <1>3, <3>1, <3>2
  <2>3. \A n \in 0..k : n \in T
    <3> HIDE DEF T
    <3> QED  BY <1>1, <2>1, <2>2, UpTo
  <2> QED  BY <2>3
<1>7. IsSearching(g, hashes)
  <2>1. ASSUME NEW n \in 0..k
        PROVE  (IF n = 0 THEN <<>> ELSE F[<<n, g[n - 1]>>])
                 = IF n = 0 THEN <<>> ELSE Found(g[n - 1], hashes[n])
    <3>1. CASE n # 0
      <4>1. n \in 1..k /\ n - 1 \in 0..k
        BY <1>1, <3>1
      <4>2. g[n - 1] \in X
        BY <1>6, <4>1
      <4> QED  BY <1>3, <4>1, <4>2
    <3> QED  BY <3>1
  <2>2. g = [n \in 0..k |-> IF n = 0 THEN <<>> ELSE F[<<n, g[n - 1]>>]]
    BY <1>4 DEF RunOf
  <2>3. g = [n \in 0..k |-> IF n = 0 THEN <<>> ELSE Found(g[n - 1], hashes[n])]
    BY <2>1, <2>2
  <2> QED  BY <2>3 DEF IsSearching, k
<1> DEFINE f == CHOOSE h : IsSearching(h, hashes)
<1>8. IsSearching(f, hashes)
  <2> HIDE DEF F
  <2> QED  BY <1>7
<1>9. hashes # <<>> => SearchShards(hashes) = f[Len(hashes)]
  BY DEF SearchShards, IsSearching, Found
<1> HIDE DEF f
<1>10. \A n \in 0..k : f[n] = IF n = 0 THEN <<>> ELSE Found(f[n - 1], hashes[n])
  <2>1. f = [n \in 0..k |-> IF n = 0 THEN <<>> ELSE Found(f[n - 1], hashes[n])]
    BY <1>8 DEF IsSearching, k
  <2> QED  BY <2>1
<1>11. \A n \in 0..k : f[n] \in X
  <2> DEFINE T == {n \in 0..k : f[n] \in X}
  <2>1. 0 \in T
    <3>1. 0 \in 0..k /\ f[0] = <<>>
      BY <1>1, <1>10
    <3> QED  BY <1>2, <3>1
  <2>2. ASSUME NEW n \in 1..k, n - 1 \in T  PROVE n \in T
    <3>1. n \in 0..k /\ n # 0 /\ f[n - 1] \in X
      BY <1>1, <2>2
    <3>2. f[n] = Found(f[n - 1], hashes[n])
      BY <1>10, <3>1
    <3> QED  BY <1>3, <3>1, <3>2
  <2>3. \A n \in 0..k : n \in T
    <3> HIDE DEF T
    <3> QED  BY <1>1, <2>1, <2>2, UpTo
  <2> QED  BY <2>3
<1>12. \A n \in 0..k : n > 0 => f[n] # <<>>
  <2> SUFFICES ASSUME NEW n \in 0..k, n > 0  PROVE f[n] # <<>>
    OBVIOUS
  <2>1. n \in 1..k /\ n - 1 \in 0..k /\ n # 0
    BY <1>1
  <2>2. f[n] = Found(f[n - 1], hashes[n]) /\ f[n - 1] \in X
    BY <1>10, <1>11, <2>1
  <2> QED  BY <1>3, <2>1, <2>2
<1>13. \A n \in 0..Len(hashes) : Shardwise(f[n], S) /\ (n > 0 => f[n] # <<>>)
  BY <1>11, <1>12 DEF X, k
<1> QED  BY <1>9, <1>13

\* A search visits shards, each once, and at least one; those of the given hashes
\* if there are any.
LEMMA SearchVisits ==
    ASSUME NEW hashes \in Seq(Int), NEW S, ShardNumbers \subseteq S,
           \A n \in 1..Len(hashes) : ShardFromHash(hashes[n]) \in S
    PROVE  /\ SearchShards(hashes) \in Seq(S) /\ SearchShards(hashes) # <<>>
           /\ NoRepeats(SearchShards(hashes))
<1> DEFINE s == SearchShards(hashes)
<1>1. CASE hashes = <<>>
  <2>1. s = [i \in 1..NumShards |-> i - 1]
    BY <1>1 DEF SearchShards
  <2>2. NumShards \in Nat \ {0}
    BY RoutingAssumption
  <2>3. \A i \in 1..NumShards : i - 1 \in S
    BY <2>2 DEF ShardNumbers
  <2> HIDE DEF s
  <2>4. s \in Seq(S) /\ Len(s) = NumShards /\ \A i \in 1..NumShards : s[i] = i - 1
    BY <2>1, <2>2, <2>3
  <2>5. s # <<>> /\ NoRepeats(s)
    BY <2>2, <2>4 DEF NoRepeats
  <2> QED  BY <2>4, <2>5 DEF s
<1>2. CASE hashes # <<>>
  <2>1. PICK f : /\ \A n \in 0..Len(hashes) : Shardwise(f[n], S) /\ (n > 0 => f[n] # <<>>)
                 /\ s = f[Len(hashes)]
    BY <1>2, SearchLoop
  <2>2. Len(hashes) \in 0..Len(hashes) /\ Len(hashes) > 0
    BY <1>2
  <2>3. Shardwise(s, S) /\ s # <<>>
    BY <2>1, <2>2
  <2> HIDE DEF s
  <2> QED  BY <2>3 DEF Shardwise, s
<1> QED  BY <1>1, <1>2

-----------------------------------------------------------------------------
(* The agenda.                                                             *)

\* The positions that hold no more than a bound, in an ordered sequence, are the
\* first ones, as many as they are.
LEMMA PrefixCount ==
    ASSUME NEW m \in Nat, NEW D \in SUBSET (1..m),
           \A i \in D, k \in 1..m : k <= i => k \in D
    PROVE  Cardinality(D) \in 0..m /\ D = 1..Cardinality(D)
<1> DEFINE T == {n \in Nat \ {0} : n \notin D}
<1>1. T \in SUBSET Nat /\ m + 1 \in T
  OBVIOUS
<1>2. PICK n \in T : \A k \in T : n <= k
  <2> HIDE DEF T
  <2> QED  BY <1>1, LeastNatural
<1>3. n \in Nat \ {0} /\ n \notin D /\ n <= m + 1
  BY <1>1, <1>2
<1>4. D = 1..(n - 1)
  <2>1. ASSUME NEW i \in D  PROVE i \in 1..(n - 1)
    <3>1. CASE n \in 1..m
      <4>1. ~(n <= i)
        BY <1>3, <3>1
      <4> QED  BY <1>3, <4>1
    <3>2. CASE n \notin 1..m
      BY <1>3, <3>2
    <3> QED  BY <3>1, <3>2
  <2>2. ASSUME NEW i \in 1..(n - 1)  PROVE i \in D
    <3>1. i \in Nat \ {0} /\ i < n
      BY <1>3
    <3>2. i \notin T
      <4> HIDE DEF T
      <4> QED  BY <1>2, <1>3, <3>1
    <3> QED  BY <3>1, <3>2
  <2> QED  BY <2>1, <2>2
<1>5. Cardinality(D) = n - 1
  <2>1. Cardinality(1..(n - 1)) = n - 1
    BY <1>3, FS_Interval
  <2> QED  BY <1>4, <2>1
<1> QED  BY <1>3, <1>4, <1>5

\* v is u with e at position p.
With(v, u, e, p) ==
    /\ u \in Seq(EventType) /\ v \in Seq(EventType) /\ e \in EventType
    /\ p \in 1..(Len(u) + 1) /\ Len(v) = Len(u) + 1
    /\ \A i \in 1..Len(u) : v[IF i < p THEN i ELSE i + 1] = u[i]
    /\ v[p] = e

LEMMA WithPlaces ==
    ASSUME NEW v, NEW u, NEW e, NEW p, With(v, u, e, p)
    PROVE  /\ DOMAIN u = 1..Len(u) /\ DOMAIN v = 1..Len(v) /\ Len(u) \in Nat
           /\ \A i \in DOMAIN u : /\ (IF i < p THEN i ELSE i + 1) \in DOMAIN v \ {p}
                                  /\ v[IF i < p THEN i ELSE i + 1] = u[i]
           /\ p \in DOMAIN v /\ v[p] = e
           /\ \A i \in DOMAIN v \ {p} : /\ (IF i < p THEN i ELSE i - 1) \in DOMAIN u
                                        /\ v[i] = u[IF i < p THEN i ELSE i - 1]
<1>1. DOMAIN u = 1..Len(u) /\ DOMAIN v = 1..Len(v) /\ Len(u) \in Nat /\ p \in Nat
  BY DEF With
<1>2. Len(v) = Len(u) + 1 /\ p \in 1..(Len(u) + 1) /\ v[p] = e
      /\ \A i \in 1..Len(u) : v[IF i < p THEN i ELSE i + 1] = u[i]
  BY DEF With
<1>3. ASSUME NEW i \in DOMAIN u
      PROVE  (IF i < p THEN i ELSE i + 1) \in DOMAIN v \ {p}
  BY <1>1, <1>2
<1>4. ASSUME NEW i \in DOMAIN v \ {p}
      PROVE  /\ (IF i < p THEN i ELSE i - 1) \in DOMAIN u
             /\ v[i] = u[IF i < p THEN i ELSE i - 1]
  <2>1. CASE i < p
    BY <1>1, <1>2, <2>1
  <2>2. CASE i > p
    <3>1. i - 1 \in 1..Len(u) /\ ~(i - 1 < p) /\ (i - 1) + 1 = i
      BY <1>1, <1>2, <2>2
    <3>2. v[(i - 1) + 1] = u[i - 1]
      BY <1>2, <3>1
    <3> QED  BY <1>1, <2>2, <3>1, <3>2
  <2> QED  BY <1>1, <2>1, <2>2
<1> QED  BY <1>1, <1>2, <1>3, <1>4

\* Insert puts an event after all those that come no later.
LEMMA InsertLands ==
    ASSUME NEW u \in Seq(EventType), NEW e \in EventType, Ordered(u),
           NEW v, v = Insert(u, e)
    PROVE  \E p \in 1..(Len(u) + 1) :
              /\ With(v, u, e, p)
              /\ \A i \in DOMAIN u : i < p <=> u[i].at <= e.at
<1> DEFINE D == {i \in DOMAIN u : u[i].at <= e.at}
           n == Cardinality(D)
<1>1. DOMAIN u = 1..Len(u) /\ Len(u) \in Nat /\ e.at \in Nat /\ \A i \in DOMAIN u : u[i].at \in Nat
  <2>1. DOMAIN u = 1..Len(u) /\ Len(u) \in Nat /\ \A i \in DOMAIN u : u[i] \in EventType
    OBVIOUS
  <2>2. \A x \in EventType : x.at \in Nat
    BY DEF EventType
  <2> QED  BY <2>1, <2>2
<1>2. n \in 0..Len(u) /\ D = 1..n
  <2>1. D \in SUBSET (1..Len(u))
    BY <1>1
  <2>2. ASSUME NEW i \in D, NEW k \in 1..Len(u), k <= i  PROVE k \in D
    <3>1. CASE k = i
      BY <3>1
    <3>2. CASE k < i
      <4>1. u[k].at <= u[i].at
        BY <1>1, <3>2 DEF Ordered
      <4> QED  BY <1>1, <4>1
    <3> QED  BY <1>1, <2>2, <3>1, <3>2
  <2> HIDE DEF D
  <2> QED  BY <1>1, <2>1, <2>2, PrefixCount
<1> DEFINE p == n + 1
<1>3. v = InsertAt(u, p, e)
  BY DEF Insert
<1>4. \A i \in DOMAIN u : i < p <=> u[i].at <= e.at
  <2>1. \A i \in DOMAIN u : i \in D <=> u[i].at <= e.at
    OBVIOUS
  <2> HIDE DEF D, n
  <2> QED  BY <1>1, <1>2, <2>1
<1> HIDE DEF n
<1>5. /\ v \in Seq(EventType) /\ Len(v) = Len(u) + 1 /\ v[p] = e
      /\ \A i \in 1..Len(u) : v[IF i < p THEN i ELSE i + 1] = u[i]
  <2> DEFINE a == SubSeq(u, 1, p - 1)
             b == SubSeq(u, p, Len(u))
  <2>1. v = (a \o <<e>>) \o b
    BY <1>3 DEF InsertAt
  <2>2. a \in Seq(EventType) /\ Len(a) = n /\ \A i \in 1..n : a[i] = u[i]
    BY <1>1, <1>2
  <2>3. /\ b \in Seq(EventType) /\ Len(b) = Len(u) - n
        /\ \A i \in 1..(Len(u) - n) : b[i] = u[n + i]
    <3>1. p \in 1..(Len(u) + 1) /\ n \in 0..Len(u) /\ n = p - 1 /\ \A i \in p..Len(u) : u[i] \in EventType
      BY <1>1, <1>2
    <3> HIDE DEF p
    <3>2. b \in Seq(EventType)
      BY <1>1, <3>1
    <3>3. Len(b) = Len(u) - n
      BY <1>1, <3>1
    <3>4. \A i \in 1..(Len(u) - n) : b[i] = u[n + i]
      BY <1>1, <3>1
    <3> QED  BY <3>2, <3>3, <3>4
  <2> HIDE DEF a, b
  <2> DEFINE c == a \o <<e>>
  <2>4. c \in Seq(EventType) /\ Len(c) = n + 1 /\ c[n + 1] = e /\ \A i \in 1..n : c[i] = u[i]
    BY <1>2, <2>2
  <2> HIDE DEF c
  <2>5. v = c \o b
    BY <2>1 DEF c
  <2>6. v \in Seq(EventType) /\ Len(v) = Len(u) + 1
    BY <1>1, <1>2, <2>3, <2>4, <2>5
  <2>7. v[n + 1] = e /\ \A i \in 1..n : v[i] = u[i]
    BY <1>1, <1>2, <2>3, <2>4, <2>5
  <2>8. \A i \in (n + 1)..Len(u) : v[i + 1] = u[i]
    <3> SUFFICES ASSUME NEW i \in (n + 1)..Len(u)  PROVE v[i + 1] = u[i]
      OBVIOUS
    <3>1. i - n \in 1..(Len(u) - n) /\ n + (i - n) = i /\ (i + 1) - (n + 1) = i - n
          /\ i + 1 \in (n + 2)..(Len(u) + 1)
      BY <1>1, <1>2
    <3>2. v[i + 1] = b[i - n]
      BY <1>1, <1>2, <2>3, <2>4, <2>5, <3>1
    <3> QED  BY <2>3, <3>1, <3>2
  <2> QED  BY <1>1, <1>2, <2>6, <2>7, <2>8
<1>6. p \in 1..(Len(u) + 1)
  BY <1>1, <1>2
<1> QED  BY <1>4, <1>5, <1>6 DEF With

\* Taking the first event undoes an insertion at the first position.
LEMMA TailLands ==
    ASSUME NEW u \in Seq(EventType), u # <<>>
    PROVE  /\ With(u, Tail(u), Head(u), 1) /\ Head(u) = u[1]
           /\ 1 \in DOMAIN u
<1>1. Len(u) \in Nat \ {0} /\ DOMAIN u = 1..Len(u)
  OBVIOUS
<1>2. /\ Tail(u) \in Seq(EventType) /\ Head(u) = u[1] /\ Head(u) \in EventType
      /\ Len(Tail(u)) = Len(u) - 1 /\ \A i \in 1..(Len(u) - 1) : Tail(u)[i] = u[i + 1]
  BY <1>1
<1> QED  BY <1>1, <1>2 DEF With

\* An insertion adds one to the count of the event's kind.
LEMMA WithCounts ==
    ASSUME NEW v, NEW u, NEW e, NEW p, With(v, u, e, p), NEW W
    PROVE  /\ Count(u, W) \in Nat /\ Count(v, W) \in Nat
           /\ e.what \in W => Count(v, W) = Count(u, W) + 1
           /\ e.what \notin W => Count(v, W) = Count(u, W)
<1> DEFINE S == Places(u, W)
           R == Places(v, W) \ {p}
           f == [i \in S |-> IF i < p THEN i ELSE i + 1]
<1>1. /\ DOMAIN u = 1..Len(u) /\ DOMAIN v = 1..Len(v) /\ Len(u) \in Nat /\ Len(v) \in Nat
      /\ p \in DOMAIN v /\ v[p] = e
  BY WithPlaces DEF With
<1>2. f \in Bijection(S, R)
  <2>1. ASSUME NEW i \in S  PROVE f[i] \in R
    BY WithPlaces DEF Places
  <2>2. ASSUME NEW i \in S, NEW k \in S, f[i] = f[k]  PROVE i = k
    <3>1. i \in Nat /\ k \in Nat /\ p \in Nat
      BY <1>1 DEF Places
    <3> QED  BY <2>2, <3>1
  <2>3. ASSUME NEW k \in R  PROVE \E i \in S : f[i] = k
    <3> DEFINE i == IF k < p THEN k ELSE k - 1
    <3>1. k \in DOMAIN v \ {p} /\ v[k].what \in W
      BY DEF Places
    <3>2. i \in DOMAIN u /\ v[k] = u[i]
      BY <3>1, WithPlaces
    <3>3. i \in S
      BY <3>1, <3>2 DEF Places
    <3>4. k \in Nat /\ p \in Nat /\ k # p
      BY <1>1, <3>1
    <3>5. f[i] = k
      BY <3>3, <3>4
    <3> QED  BY <3>3, <3>5
  <2>4. f \in [S -> R]
    BY <2>1
  <2>5. f \in Injection(S, R)
    BY <2>2, <2>4 DEF Injection, IsInjective
  <2>6. f \in Surjection(S, R)
    BY <2>3, <2>4 DEF Surjection
  <2> QED  BY <2>5, <2>6 DEF Bijection
<1>3. IsFiniteSet(S) /\ IsFiniteSet(Places(v, W)) /\ IsFiniteSet(R)
  <2>1. IsFiniteSet(1..Len(u)) /\ IsFiniteSet(1..Len(v))
    BY <1>1, FS_Interval
  <2>2. S \subseteq 1..Len(u) /\ Places(v, W) \subseteq 1..Len(v) /\ R \subseteq 1..Len(v)
    BY <1>1 DEF Places
  <2> QED  BY <2>1, <2>2, FS_Subset
<1>4. Cardinality(S) = Cardinality(R) /\ Cardinality(S) \in Nat
      /\ Cardinality(Places(v, W)) \in Nat
  <2>1. \E g \in Bijection(S, R) : TRUE
    BY <1>2
  <2> HIDE DEF S, R, f
  <2>2. ExistsBijection(S, R)
    BY <2>1 DEF ExistsBijection
  <2> QED  BY <1>3, <2>2, FS_Bijection, FS_CardinalityType
<1>5. CASE e.what \in W
  <2>1. p \in Places(v, W)
    BY <1>1, <1>5 DEF Places
  <2>2. Cardinality(R) = Cardinality(Places(v, W)) - 1
    BY <1>3, <2>1, FS_RemoveElement
  <2> QED  BY <1>4, <1>5, <2>2 DEF Count
<1>6. CASE e.what \notin W
  <2>1. R = Places(v, W)
    BY <1>1, <1>6 DEF Places
  <2> QED  BY <1>4, <1>6, <2>1 DEF Count
<1> QED  BY <1>5, <1>6

\* No event of a kind, or some.
LEMMA CountZero ==
    ASSUME NEW u \in Seq(EventType), NEW W
    PROVE  /\ IsFiniteSet(Places(u, W)) /\ Count(u, W) \in Nat
           /\ Count(u, W) = 0 <=> Places(u, W) = {}
<1>1. IsFiniteSet(Places(u, W))
  <2>1. DOMAIN u = 1..Len(u) /\ Len(u) \in Nat /\ Places(u, W) \subseteq 1..Len(u)
    BY DEF Places
  <2>2. IsFiniteSet(1..Len(u))
    BY <2>1, FS_Interval
  <2> QED  BY <2>1, <2>2, FS_Subset
<1> QED  BY <1>1, FS_CardinalityType, FS_EmptySet DEF Count

LEMMA WithOrdered ==
    ASSUME NEW v, NEW u, NEW e, NEW p, With(v, u, e, p), Ordered(u),
           \A i \in DOMAIN u : i < p <=> u[i].at <= e.at
    PROVE  Ordered(v)
<1> SUFFICES ASSUME NEW i \in DOMAIN v, NEW k \in DOMAIN v, i < k
             PROVE  v[i].at <= v[k].at
  BY DEF Ordered
<1> DEFINE Old(n) == IF n < p THEN n ELSE n - 1
<1>1. /\ i \in Nat /\ k \in Nat /\ p \in Nat /\ DOMAIN u = 1..Len(u) /\ Len(u) \in Nat
      /\ DOMAIN v = 1..Len(v)
  BY WithPlaces DEF With
<1>2. \A n \in DOMAIN u : u[n].at \in Nat
  <2>1. \A n \in DOMAIN u : u[n] \in EventType
    BY <1>1 DEF With
  <2> QED  BY <2>1 DEF EventType
<1>3. e.at \in Nat /\ v[p] = e
  BY DEF With, EventType
<1>4. CASE i = p
  <2>1. Old(k) = k - 1 /\ k - 1 \in DOMAIN u /\ v[k] = u[k - 1] /\ ~(k - 1 < p)
    <3>1. k \in DOMAIN v \ {p} /\ ~(k < p)
      BY <1>1, <1>4
    <3>2. Old(k) \in DOMAIN u /\ v[k] = u[Old(k)]
      BY <3>1, WithPlaces
    <3> QED  BY <1>1, <1>4, <3>1, <3>2
  <2>2. ~(u[k - 1].at <= e.at)
    BY <2>1
  <2> QED  BY <1>2, <1>3, <1>4, <2>1, <2>2
<1>5. CASE k = p
  <2>1. i \in DOMAIN u /\ v[i] = u[i] /\ i < p
    <3>1. i \in DOMAIN v \ {p} /\ i < p
      BY <1>1, <1>5
    <3> QED  BY <3>1, WithPlaces
  <2> QED  BY <1>3, <1>5, <2>1
<1>6. CASE i # p /\ k # p
  <2>1. Old(i) \in DOMAIN u /\ v[i] = u[Old(i)] /\ Old(k) \in DOMAIN u /\ v[k] = u[Old(k)]
    BY <1>6, WithPlaces
  <2>2. Old(i) < Old(k)
    BY <1>1, <1>6
  <2> HIDE DEF Old
  <2> QED  BY <2>1, <2>2 DEF Ordered
<1> QED  BY <1>4, <1>5, <1>6

LEMMA WithArrivalFirst ==
    ASSUME NEW v, NEW u, NEW e, NEW p, With(v, u, e, p), ArrivalFirst(u),
           \A i \in DOMAIN u : i < p <=> u[i].at <= e.at,
           e.what = "arrive" => \A i \in DOMAIN u : u[i].what \notin Feeds,
           e.what \in Feeds => \A i \in DOMAIN u : u[i].what = "arrive" => u[i].at <= e.at
    PROVE  ArrivalFirst(v)
<1> SUFFICES ASSUME NEW i \in DOMAIN v, NEW k \in DOMAIN v,
                    v[i].what = "arrive", v[k].what \in Feeds
             PROVE  i < k
  BY DEF ArrivalFirst
<1> DEFINE Old(n) == IF n < p THEN n ELSE n - 1
<1>1. /\ i \in Nat /\ k \in Nat /\ p \in Nat /\ DOMAIN u = 1..Len(u) /\ Len(u) \in Nat
      /\ DOMAIN v = 1..Len(v) /\ v[p] = e
  BY WithPlaces DEF With
<1>2. "arrive" \notin Feeds
  BY DEF Feeds
<1>3. CASE i = p
  <2>1. k \in DOMAIN v \ {p}
    BY <1>1, <1>2, <1>3
  <2>2. Old(k) \in DOMAIN u /\ v[k] = u[Old(k)]
    BY <2>1, WithPlaces
  <2> QED  BY <1>1, <1>3, <2>2
<1>4. CASE k = p
  <2>1. i \in DOMAIN v \ {p}
    BY <1>1, <1>2, <1>4
  <2>2. Old(i) \in DOMAIN u /\ v[i] = u[Old(i)]
    BY <2>1, WithPlaces
  <2>3. Old(i) < p
    BY <1>1, <1>4, <2>2
  <2> QED  BY <1>1, <1>4, <2>1, <2>3
<1>5. CASE i # p /\ k # p
  <2>1. Old(i) \in DOMAIN u /\ v[i] = u[Old(i)] /\ Old(k) \in DOMAIN u /\ v[k] = u[Old(k)]
    BY <1>5, WithPlaces
  <2>2. Old(i) < Old(k)
    <3> HIDE DEF Old
    <3> QED  BY <2>1 DEF ArrivalFirst
  <2> QED  BY <1>1, <2>2
<1> QED  BY <1>3, <1>4, <1>5

\* v is u and one more event, somewhere.
Adds(v, u, e) == \E p : With(v, u, e, p)

LEMMA AddsEvents ==
    ASSUME NEW v, NEW u, NEW e, Adds(v, u, e)
    PROVE  /\ v \in Seq(EventType) /\ u \in Seq(EventType) /\ e \in EventType
           /\ \A i \in DOMAIN v : v[i] = e \/ \E k \in DOMAIN u : v[i] = u[k]
           /\ \A k \in DOMAIN u : \E i \in DOMAIN v : v[i] = u[k]
           /\ \E i \in DOMAIN v : v[i] = e
<1>1. PICK p : With(v, u, e, p)
  BY DEF Adds
<1>2. \A i \in DOMAIN v : v[i] = e \/ \E k \in DOMAIN u : v[i] = u[k]
  <2> TAKE i \in DOMAIN v
  <2>1. CASE i = p
    BY <1>1, <2>1, WithPlaces
  <2>2. CASE i # p
    BY <1>1, <2>2, WithPlaces
  <2> QED  BY <2>1, <2>2
<1>3. \A k \in DOMAIN u : \E i \in DOMAIN v : v[i] = u[k]
  BY <1>1, WithPlaces
<1>4. \E i \in DOMAIN v : v[i] = e
  BY <1>1, WithPlaces
<1> QED  BY <1>1, <1>2, <1>3, <1>4 DEF With

LEMMA AddsCounts ==
    ASSUME NEW v, NEW u, NEW e, Adds(v, u, e)
    PROVE  /\ Feeding(u) \in Nat /\ Arriving(u) \in Nat /\ Ending(u) \in Nat
           /\ Ticking(u) \in Nat /\ Scalings(u) \in Nat
           /\ Feeding(v)  = Feeding(u)  + IF e.what \in Feeds THEN 1 ELSE 0
           /\ Arriving(v) = Arriving(u) + IF e.what = "arrive" THEN 1 ELSE 0
           /\ Ending(v)   = Ending(u)   + IF e.what = "end" THEN 1 ELSE 0
           /\ Ticking(v)  = Ticking(u)  + IF e.what = "tick" THEN 1 ELSE 0
           /\ Scalings(v) = Scalings(u) + IF e.what \in {"spun_up", "scaled"} THEN 1 ELSE 0
<1>1. PICK p : With(v, u, e, p)
  BY DEF Adds
<1>2. ASSUME NEW W
      PROVE  /\ Count(u, W) \in Nat
             /\ Count(v, W) = Count(u, W) + IF e.what \in W THEN 1 ELSE 0
  <2>1. /\ Count(u, W) \in Nat
        /\ e.what \in W => Count(v, W) = Count(u, W) + 1
        /\ e.what \notin W => Count(v, W) = Count(u, W)
    BY <1>1, WithCounts
  <2> QED  BY <2>1
<1>3. Feeding(u) \in Nat /\ Feeding(v) = Feeding(u) + IF e.what \in Feeds THEN 1 ELSE 0
  BY <1>2 DEF Feeding
<1>4. Arriving(u) \in Nat /\ Arriving(v) = Arriving(u) + IF e.what \in {"arrive"} THEN 1 ELSE 0
  BY <1>2 DEF Arriving
<1>5. Ending(u) \in Nat /\ Ending(v) = Ending(u) + IF e.what \in {"end"} THEN 1 ELSE 0
  BY <1>2 DEF Ending
<1>6. Ticking(u) \in Nat /\ Ticking(v) = Ticking(u) + IF e.what \in {"tick"} THEN 1 ELSE 0
  BY <1>2 DEF Ticking
<1>7. Scalings(u) \in Nat
      /\ Scalings(v) = Scalings(u) + IF e.what \in {"spun_up", "scaled"} THEN 1 ELSE 0
  BY <1>2 DEF Scalings
<1> QED  BY <1>3, <1>4, <1>5, <1>6, <1>7

\* No arrival is counted when none is there, and none is there if none is counted.
LEMMA NoneArriving ==
    ASSUME NEW u \in Seq(EventType)
    PROVE  /\ Arriving(u) = 0 <=> \A i \in DOMAIN u : u[i].what # "arrive"
           /\ Feeding(u) = 0 <=> \A i \in DOMAIN u : u[i].what \notin Feeds
<1>1. /\ Arriving(u) = 0 <=> Places(u, {"arrive"}) = {}
      /\ Feeding(u) = 0 <=> Places(u, Feeds) = {}
  BY CountZero DEF Arriving, Feeding
<1> QED  BY <1>1 DEF Places

\* An agenda in order, with nothing before t.
InOrder(u, t) ==
    /\ u \in Seq(EventType) /\ Ordered(u) /\ ArrivalFirst(u)
    /\ \A i \in DOMAIN u : u[i].at >= t

\* Scheduling keeps an agenda in order, if the order of arrivals is minded.
LEMMA InsertInOrder ==
    ASSUME NEW t \in Nat, NEW u, InOrder(u, t), NEW e \in EventType, e.at >= t,
           e.what = "arrive" => Feeding(u) = 0,
           e.what \in Feeds => \A i \in DOMAIN u : u[i].what = "arrive" => u[i].at <= e.at,
           NEW v, v = Insert(u, e)
    PROVE  Adds(v, u, e) /\ InOrder(v, t)
<1>1. u \in Seq(EventType) /\ Ordered(u) /\ ArrivalFirst(u)
  BY DEF InOrder
<1>2. PICK p \in 1..(Len(u) + 1) : /\ With(v, u, e, p)
                                   /\ \A i \in DOMAIN u : i < p <=> u[i].at <= e.at
  BY <1>1, InsertLands
<1>3. Adds(v, u, e)
  BY <1>2 DEF Adds
<1>4. Ordered(v)
  BY <1>1, <1>2, WithOrdered
<1>5. ArrivalFirst(v)
  <2>1. e.what = "arrive" => \A i \in DOMAIN u : u[i].what \notin Feeds
    BY <1>1, NoneArriving
  <2> QED  BY <1>1, <1>2, <2>1, WithArrivalFirst
<1>6. v \in Seq(EventType) /\ \A i \in DOMAIN v : v[i].at >= t
  BY <1>3, AddsEvents DEF InOrder
<1> QED  BY <1>3, <1>4, <1>5, <1>6 DEF InOrder

\* Taking the first event: the rest is not before it, and if it feeds the clock
\* nothing is about to arrive.
LEMMA TailInOrder ==
    ASSUME NEW t \in Nat, NEW u, InOrder(u, t), u # <<>>
    PROVE  /\ Adds(u, Tail(u), Head(u)) /\ InOrder(Tail(u), Head(u).at)
           /\ Head(u) \in EventType /\ Head(u).at \in Nat /\ Head(u).at >= t
           /\ \E i \in DOMAIN u : Head(u) = u[i]
           /\ Head(u).what \in Feeds => Arriving(Tail(u)) = 0
<1> DEFINE w == Tail(u)
           e == Head(u)
<1>1. u \in Seq(EventType) /\ Ordered(u) /\ ArrivalFirst(u)
  BY DEF InOrder
<1>2. With(u, w, e, 1) /\ e = u[1] /\ 1 \in DOMAIN u
  BY <1>1, TailLands
<1> HIDE DEF w, e
<1>3. Adds(u, w, e)
  BY <1>2 DEF Adds
<1>4. DOMAIN w = 1..Len(w) /\ Len(w) \in Nat /\ DOMAIN u = 1..Len(u)
      /\ \A i \in DOMAIN w : i + 1 \in DOMAIN u /\ w[i] = u[i + 1] /\ i \in Nat /\ 1 < i + 1
  <2>1. DOMAIN w = 1..Len(w) /\ Len(w) \in Nat /\ DOMAIN u = 1..Len(u)
    BY <1>2, WithPlaces
  <2>2. ASSUME NEW i \in DOMAIN w
        PROVE  i + 1 \in DOMAIN u /\ w[i] = u[i + 1] /\ i \in Nat /\ 1 < i + 1
    <3>1. ~(i < 1) /\ i \in Nat /\ 1 < i + 1
      BY <2>1
    <3>2. (IF i < 1 THEN i ELSE i + 1) \in DOMAIN u /\ u[IF i < 1 THEN i ELSE i + 1] = w[i]
      BY <1>2, WithPlaces
    <3> QED  BY <3>1, <3>2
  <2> QED  BY <2>1, <2>2
<1>5. w \in Seq(EventType) /\ e \in EventType /\ e.at \in Nat
  BY <1>2 DEF With, EventType
<1>6. Ordered(w)
  <2> SUFFICES ASSUME NEW i \in DOMAIN w, NEW k \in DOMAIN w, i < k
               PROVE  w[i].at <= w[k].at
    BY DEF Ordered
  <2>1. i + 1 < k + 1
    BY <1>4
  <2> QED  BY <1>1, <1>4, <2>1 DEF Ordered
<1>7. ArrivalFirst(w)
  <2> SUFFICES ASSUME NEW i \in DOMAIN w, NEW k \in DOMAIN w,
                      w[i].what = "arrive", w[k].what \in Feeds
               PROVE  i < k
    BY DEF ArrivalFirst
  <2>1. i + 1 < k + 1
    BY <1>1, <1>4 DEF ArrivalFirst
  <2> QED  BY <1>4, <2>1
<1>8. \A i \in DOMAIN w : w[i].at >= e.at
  <2> SUFFICES ASSUME NEW i \in DOMAIN w  PROVE w[i].at >= e.at
    OBVIOUS
  <2>1. u[1].at <= u[i + 1].at
    BY <1>1, <1>2, <1>4 DEF Ordered
  <2>2. u[i + 1].at \in Nat
    <3>1. w[i] \in EventType
      BY <1>4, <1>5
    <3> QED  BY <1>4, <3>1 DEF EventType
  <2> QED  BY <1>2, <1>4, <1>5, <2>1, <2>2
<1>9. e.what \in Feeds => Arriving(w) = 0
  <2> SUFFICES ASSUME e.what \in Feeds, NEW i \in DOMAIN w, w[i].what = "arrive"
               PROVE  FALSE
    BY <1>5, NoneArriving
  <2>1. i + 1 < 1
    BY <1>1, <1>2, <1>4 DEF ArrivalFirst
  <2> QED  BY <1>4, <2>1
<1>10. e.at >= t
  BY <1>2 DEF InOrder
<1> QED  BY <1>2, <1>3, <1>5, <1>6, <1>7, <1>8, <1>9, <1>10 DEF InOrder, w, e

-----------------------------------------------------------------------------
(* Scheduling none, one or two events.                                     *)

\* after is the agenda before and after each of the events is scheduled.
IsScheduling(after, u, es) ==
    after = [n \in 0..Len(es) |-> IF n = 0 THEN u ELSE Insert(after[n - 1], es[n])]

LEMMA InsertAllRuns ==
    ASSUME NEW u, NEW es, NEW g, IsScheduling(g, u, es)
    PROVE  \E f : IsScheduling(f, u, es) /\ InsertAll(u, es) = f[Len(es)]
<1> DEFINE f == CHOOSE h : IsScheduling(h, u, es)
<1>1. IsScheduling(f, u, es)
  BY DEF f
<1>2. InsertAll(u, es) = f[Len(es)]
  BY DEF InsertAll, IsScheduling
<1> QED  BY <1>1, <1>2

LEMMA InsertNone ==
    ASSUME NEW u
    PROVE  InsertAll(u, <<>>) = u
<1> DEFINE es == <<>>
           g == [n \in 0..0 |-> u]
<1>1. Len(es) = 0
  OBVIOUS
<1>2. IsScheduling(g, u, es)
  <2>1. g = [n \in 0..0 |-> IF n = 0 THEN u ELSE Insert(g[n - 1], es[n])]
    OBVIOUS
  <2> QED  BY <1>1, <2>1 DEF IsScheduling
<1>3. PICK f : IsScheduling(f, u, es) /\ InsertAll(u, es) = f[Len(es)]
  <2> HIDE DEF es, g
  <2> QED  BY <1>2, InsertAllRuns
<1>4. f[0] = u
  <2> HIDE DEF es
  <2>1. f = [n \in 0..0 |-> IF n = 0 THEN u ELSE Insert(f[n - 1], es[n])]
    BY <1>1, <1>3 DEF IsScheduling
  <2> QED  BY <2>1
<1> QED  BY <1>1, <1>3, <1>4

LEMMA InsertOne ==
    ASSUME NEW u, NEW a
    PROVE  InsertAll(u, <<a>>) = Insert(u, a)
<1> DEFINE es == <<a>>
           g == [n \in 0..1 |-> IF n = 0 THEN u ELSE Insert(u, a)]
<1>1. Len(es) = 1 /\ es[1] = a
  OBVIOUS
<1> HIDE DEF es
<1>2. IsScheduling(g, u, es)
  <2>1. ASSUME NEW n \in 0..1
        PROVE  g[n] = IF n = 0 THEN u ELSE Insert(g[n - 1], es[n])
    <3>1. n = 0 \/ n = 1
      OBVIOUS
    <3>2. g[0] = u /\ g[1] = Insert(u, a) /\ 1 - 1 = 0
      OBVIOUS
    <3> HIDE DEF g
    <3> QED  BY <1>1, <3>1, <3>2
  <2>2. g = [n \in 0..1 |-> g[n]]
    OBVIOUS
  <2> HIDE DEF g
  <2>3. g = [n \in 0..1 |-> IF n = 0 THEN u ELSE Insert(g[n - 1], es[n])]
    BY <2>1, <2>2
  <2> QED  BY <1>1, <2>3 DEF IsScheduling
<1>3. PICK f : IsScheduling(f, u, es) /\ InsertAll(u, es) = f[Len(es)]
  <2> HIDE DEF g
  <2> QED  BY <1>2, InsertAllRuns
<1>4. f[0] = u /\ f[1] = Insert(f[0], a)
  <2>1. f = [n \in 0..1 |-> IF n = 0 THEN u ELSE Insert(f[n - 1], es[n])]
    BY <1>1, <1>3 DEF IsScheduling
  <2>2. \A n \in 0..1 : f[n] = IF n = 0 THEN u ELSE Insert(f[n - 1], es[n])
    BY <2>1
  <2>3. 0 \in 0..1 /\ 1 \in 0..1 /\ 1 - 1 = 0
    OBVIOUS
  <2> QED  BY <1>1, <2>2, <2>3
<1> QED  BY <1>1, <1>3, <1>4 DEF es

LEMMA InsertTwo ==
    ASSUME NEW u, NEW a, NEW b
    PROVE  InsertAll(u, <<a, b>>) = Insert(Insert(u, a), b)
<1> DEFINE es == <<a, b>>
           g == [n \in 0..2 |-> IF n = 0 THEN u
                                ELSE IF n = 1 THEN Insert(u, a) ELSE Insert(Insert(u, a), b)]
<1>1. Len(es) = 2 /\ es[1] = a /\ es[2] = b
  OBVIOUS
<1> HIDE DEF es
<1>2. IsScheduling(g, u, es)
  <2>1. ASSUME NEW n \in 0..2
        PROVE  g[n] = IF n = 0 THEN u ELSE Insert(g[n - 1], es[n])
    <3>1. n = 0 \/ n = 1 \/ n = 2
      OBVIOUS
    <3>2. g[0] = u /\ g[1] = Insert(u, a) /\ g[2] = Insert(Insert(u, a), b)
          /\ 1 - 1 = 0 /\ 2 - 1 = 1
      OBVIOUS
    <3> HIDE DEF g
    <3> QED  BY <1>1, <3>1, <3>2
  <2>2. g = [n \in 0..2 |-> g[n]]
    OBVIOUS
  <2> HIDE DEF g
  <2>3. g = [n \in 0..2 |-> IF n = 0 THEN u ELSE Insert(g[n - 1], es[n])]
    BY <2>1, <2>2
  <2> QED  BY <1>1, <2>3 DEF IsScheduling
<1>3. PICK f : IsScheduling(f, u, es) /\ InsertAll(u, es) = f[Len(es)]
  <2> HIDE DEF g
  <2> QED  BY <1>2, InsertAllRuns
<1>4. f[0] = u /\ f[1] = Insert(f[0], a) /\ f[2] = Insert(f[1], b)
  <2>1. f = [n \in 0..2 |-> IF n = 0 THEN u ELSE Insert(f[n - 1], es[n])]
    BY <1>1, <1>3 DEF IsScheduling
  <2>2. \A n \in 0..2 : f[n] = IF n = 0 THEN u ELSE Insert(f[n - 1], es[n])
    BY <2>1
  <2>3. 0 \in 0..2 /\ 1 \in 0..2 /\ 2 \in 0..2 /\ 1 - 1 = 0 /\ 2 - 1 = 1
    OBVIOUS
  <2> QED  BY <1>1, <2>2, <2>3
<1> QED  BY <1>1, <1>3, <1>4 DEF es

\* What a handler may count on: it has taken the first event, which is as the
\* invariant says, and the rest is in order.
Taken(what, u, e) ==
    /\ running /\ agenda # <<>>
    /\ e = Head(agenda) /\ e \in EventType /\ e.what = what
    /\ Present = e.at /\ e.at \in Nat /\ e.at >= now /\ now' = e.at
    /\ u = Tail(agenda) /\ Adds(agenda, u, e) /\ InOrder(u, e.at)
    /\ EventOK(e, gen, TickTime(ticks + 1))
    /\ \A i \in DOMAIN u : EventOK(u[i], gen, TickTime(ticks + 1))
    /\ what \in Feeds => Arriving(u) = 0

LEMMA HandleTakes ==
    ASSUME Inv, NEW what, NEW es, Handle(what, es)
    PROVE  \E u, e : Taken(what, u, e) /\ agenda' = InsertAll(u, es)
<1> DEFINE u == Tail(agenda)
           e == Head(agenda)
<1>1. /\ running /\ agenda # <<>> /\ e.what = what /\ Present = e.at
      /\ now' = e.at /\ agenda' = InsertAll(u, es)
  BY DEF Handle, Present
<1>2. InOrder(agenda, now) /\ now \in Nat
      /\ \A i \in DOMAIN agenda : EventOK(agenda[i], gen, TickTime(ticks + 1))
  BY DEF Inv, AgendaOK, InOrder
<1>3. /\ Adds(agenda, u, e) /\ InOrder(u, e.at)
      /\ e \in EventType /\ e.at \in Nat /\ e.at >= now
      /\ \E i \in DOMAIN agenda : e = agenda[i]
      /\ e.what \in Feeds => Arriving(u) = 0
  BY <1>1, <1>2, TailInOrder
<1> HIDE DEF u, e
<1>4. EventOK(e, gen, TickTime(ticks + 1))
  BY <1>2, <1>3
<1>5. \A k \in DOMAIN u : EventOK(u[k], gen, TickTime(ticks + 1))
  <2> TAKE k \in DOMAIN u
  <2>1. \E i \in DOMAIN agenda : agenda[i] = u[k]
    BY <1>3, AddsEvents
  <2> QED  BY <1>2, <2>1
<1>6. Taken(what, u, e)
  BY <1>1, <1>3, <1>4, <1>5 DEF Taken, u, e
<1> QED  BY <1>1, <1>6

-----------------------------------------------------------------------------
(* What taking an event leaves.                                            *)

\* The arrivals on u are on v, and no others.
SameArrivals(v, u) ==
    /\ Arriving(v) = Arriving(u)
    /\ \A i \in DOMAIN u : u[i].what = "arrive" => \E k \in DOMAIN v : v[k] = u[i]

LEMMA SameArrivalsTrans ==
    ASSUME NEW u, NEW v, NEW w, SameArrivals(w, v), SameArrivals(v, u)
    PROVE  SameArrivals(w, u)
BY DEF SameArrivals

LEMMA FileKeeps ==
    ASSUME NEW u, NEW v, NEW g, NEW arr, FileOK(u, g, arr), SameArrivals(v, u)
    PROVE  FileOK(v, g, arr)
<1> SUFFICES ASSUME g.kind = "loaded"
             PROVE  /\ \A i, k \in DOMAIN arr : i < k => arr[i].request.id < arr[k].request.id
                    /\ \A i \in DOMAIN arr :
                         /\ arr[i].request.id \in 1..g.current /\ g.requests[arr[i].request.id].known
                         /\ Latest(arr[i].at, g.requests, arr[i].request.id)
                         /\ Arriving(v) # 0 => arr[i].request.id < g.current
                    /\ \A n \in 1..g.current :
                         g.requests[n].known =>
                            \/ \E i \in DOMAIN arr : arr[i].request.id = n
                            \/ \E i \in DOMAIN v : v[i].what = "arrive" /\ v[i].request.id = n
  BY DEF FileOK
<1>1. Arriving(v) = Arriving(u)
      /\ \A i \in DOMAIN u : u[i].what = "arrive" => \E k \in DOMAIN v : v[k] = u[i]
  BY DEF SameArrivals
<1> QED  BY <1>1 DEF FileOK

\* Adding or removing any other event leaves the arrivals.
LEMMA AddsSameArrivals ==
    ASSUME NEW v, NEW u, NEW e, Adds(v, u, e), e.what # "arrive"
    PROVE  SameArrivals(v, u) /\ SameArrivals(u, v)
<1>1. Arriving(v) = Arriving(u) /\ Arriving(u) \in Nat
  BY AddsCounts
<1>2. \A i \in DOMAIN u : u[i].what = "arrive" => \E k \in DOMAIN v : v[k] = u[i]
  BY AddsEvents
<1>3. \A i \in DOMAIN v : v[i].what = "arrive" => \E k \in DOMAIN u : u[k] = v[i]
  BY AddsEvents
<1> QED  BY <1>1, <1>2, <1>3 DEF SameArrivals

\* The counts of what is left.
LEMMA LeftCounts ==
    ASSUME Inv, NEW what, NEW u, NEW e, Taken(what, u, e)
    PROVE  /\ Feeding(u) \in Nat /\ Arriving(u) \in Nat /\ Ending(u) \in Nat
           /\ Ticking(u) \in Nat /\ Scalings(u) \in Nat
           /\ Feeding(u) <= 1 /\ Arriving(u) <= 1
           /\ what \in Feeds => Feeding(u) = 0 /\ Arriving(u) = 0
           /\ what \notin Feeds => (Fed => Feeding(u) = 1)
           /\ what = "arrive" => Arriving(u) = 0
           /\ Ticking(u) = IF what = "tick" THEN 0 ELSE 1
           /\ Scalings(u) + (IF what \in {"spun_up", "scaled"} THEN 1 ELSE 0)
                = IF coll.steady THEN 0 ELSE 1
           /\ index.total_requests + index.reported + Ending(u)
                + (IF what = "end" THEN 1 ELSE 0) = Len(arrivals)
<1>1. Adds(agenda, u, e) /\ e.what = what /\ running /\ (what \in Feeds => Arriving(u) = 0)
  BY DEF Taken
<1>2. /\ Feeding(u) \in Nat /\ Arriving(u) \in Nat /\ Ending(u) \in Nat
      /\ Ticking(u) \in Nat /\ Scalings(u) \in Nat
      /\ Feeding(agenda)  = Feeding(u)  + IF what \in Feeds THEN 1 ELSE 0
      /\ Arriving(agenda) = Arriving(u) + IF what = "arrive" THEN 1 ELSE 0
      /\ Ending(agenda)   = Ending(u)   + IF what = "end" THEN 1 ELSE 0
      /\ Ticking(agenda)  = Ticking(u)  + IF what = "tick" THEN 1 ELSE 0
      /\ Scalings(agenda) = Scalings(u) + IF what \in {"spun_up", "scaled"} THEN 1 ELSE 0
  BY <1>1, AddsCounts
<1>3. /\ Feeding(agenda) <= 1 /\ Arriving(agenda) <= 1 /\ Ticking(agenda) = 1
      /\ running /\ Fed => Feeding(agenda) = 1
      /\ Scalings(agenda) = IF coll.steady THEN 0 ELSE 1
      /\ index.total_requests + index.reported + Ending(agenda) = Len(arrivals)
  BY DEF Inv, AgendaOK, OneScaling, Balanced
<1>4. index.total_requests \in Nat /\ index.reported \in Nat /\ Len(arrivals) \in Nat
  BY DEF Inv, IndexType
<1>5. Feeding(u) <= 1 /\ (what \in Feeds => Feeding(u) = 0)
      /\ (what \notin Feeds => (Fed => Feeding(u) = 1))
  BY <1>1, <1>2, <1>3
<1>6. Arriving(u) <= 1 /\ (what = "arrive" => Arriving(u) = 0)
  BY <1>2, <1>3
<1>7. Ticking(u) = IF what = "tick" THEN 0 ELSE 1
  BY <1>2, <1>3
<1>8. Scalings(u) + (IF what \in {"spun_up", "scaled"} THEN 1 ELSE 0)
         = IF coll.steady THEN 0 ELSE 1
  BY <1>2, <1>3
<1>9. index.total_requests + index.reported + Ending(u)
         + (IF what = "end" THEN 1 ELSE 0) = Len(arrivals)
  BY <1>2, <1>3, <1>4
<1> QED  BY <1>1, <1>2, <1>5, <1>6, <1>7, <1>8, <1>9

\* What agents have done before t they have done before any later time.
LEMMA AgentsLater ==
    ASSUME NEW gs, NEW t \in Nat, NEW s \in Nat, t <= s, AgentsOK(gs, t)
    PROVE  AgentsOK(gs, s)
<1> SUFFICES ASSUME NEW i \in DOMAIN gs  PROVE AgentOK(gs[i], s)
  BY DEF AgentsOK
<1>1. AgentOK(gs[i], t)
  BY DEF AgentsOK
<1>2. \A n \in DOMAIN gs[i].taken : gs[i].taken[n].time \in Int
  <2>1. gs[i] \in AgentType
    BY <1>1 DEF AgentOK
  <2>2. gs[i].taken \in Seq(Actions)
    BY <2>1 DEF AgentType
  <2>3. \A n \in DOMAIN gs[i].taken : gs[i].taken[n] \in Actions
    BY <2>2
  <2> QED  BY <2>3 DEF Actions
<1>3. ASSUME gs[i].kind = "oblivious", NEW n \in DOMAIN gs[i].taken
      PROVE  gs[i].taken[n].time <= s
  <2>1. gs[i].taken[n].time <= t
    BY <1>1, <1>3 DEF AgentOK
  <2> QED  BY <1>2, <2>1
<1> QED  BY <1>1, <1>3 DEF AgentOK

\* A step that leaves the generator, the profiler and its agents alone.
LEMMA QuietStep ==
    ASSUME Inv, NEW what, NEW u, NEW e, Taken(what, u, e),
           UNCHANGED <<gen, first, ticks, agents>>,
           running' \in BOOLEAN, index' \in IndexType, arrivals' \in Seq(Arrivals),
           InOrder(agenda', now'),
           \A i \in DOMAIN agenda' : EventOK(agenda'[i], gen, TickTime(ticks + 1)),
           Feeding(agenda') <= 1, Arriving(agenda') <= 1, Ticking(agenda') = 1,
           running' /\ Fed => Feeding(agenda') = 1,
           FileOK(agenda', gen, arrivals'),
           IsLoaded /\ ~running' => StopOK(agenda', now', gen),
           CollOK(coll'), OneScaling(agenda', coll'),
           Balanced(agenda', index', arrivals'), Routed(arrivals')
    PROVE  Inv'
<1>1. now' \in Nat /\ now \in Nat /\ now <= now'
  BY DEF Taken, Inv
<1>2. AgentsOK(agents', now')
  BY <1>1, AgentsLater DEF Inv
<1>3. TickTime(ticks)' = TickTime(ticks) /\ TickTime(ticks + 1)' = TickTime(ticks + 1)
  BY DEF TickTime
<1>4. (Fed)' = Fed /\ (IsLoaded)' = IsLoaded
  BY DEF Fed, IsLoaded
<1>5. AgendaOK(agenda', now', gen', TickTime(ticks + 1)', (running /\ Fed)')
  BY <1>3, <1>4 DEF AgendaOK, InOrder
<1>6. ticks' > 0 => \A i \in DOMAIN agents' : Waits(agents'[i], TickTime(ticks)')
  BY <1>3 DEF Inv
<1>7. GenOK(gen') /\ first' \in Nat /\ ticks' \in Nat
  BY DEF Inv
<1>8. (IsLoaded /\ ~running /\ ~ToldToStop)' => StopOK(agenda', now', gen')
  BY <1>4
<1>9. FileOK(agenda', gen', arrivals')
  OBVIOUS
<1> QED  BY <1>1, <1>2, <1>5, <1>6, <1>7, <1>8, <1>9 DEF Inv

-----------------------------------------------------------------------------
(* The actions that leave generator and profiler alone.                    *)

LEMMA EndKeeps ==
    ASSUME Inv, End
    PROVE  Inv'
<1>1. PICK u, e : Taken("end", u, e) /\ agenda' = u
  <2>1. PICK u, e : Taken("end", u, e) /\ agenda' = InsertAll(u, <<>>)
    BY HandleTakes DEF End
  <2> QED  BY <2>1, InsertNone
<1>2. /\ UNCHANGED <<running, gen, first, ticks, agents, coll, arrivals>>
      /\ index' = [index EXCEPT !.total_requests = @ + 1]
  BY DEF End, LogResult
<1>3. /\ index \in IndexType /\ index' \in IndexType /\ index'.reported = index.reported
      /\ index'.total_requests = index.total_requests + 1
  <2>1. index \in IndexType
    BY DEF Inv
  <2> QED  BY <1>2, <2>1 DEF IndexType
<1>4. /\ Feeding(u) <= 1 /\ Arriving(u) <= 1 /\ Ticking(u) = 1 /\ (Fed => Feeding(u) = 1)
      /\ Scalings(u) = IF coll.steady THEN 0 ELSE 1
      /\ Ending(u) \in Nat /\ index.total_requests + index.reported + Ending(u) + 1 = Len(arrivals)
  <2>1. "end" \notin Feeds /\ "end" # "arrive" /\ "end" # "tick" /\ "end" \notin {"spun_up", "scaled"}
    BY DEF Feeds
  <2> QED  BY <1>1, <2>1, LeftCounts
<1>5. /\ InOrder(u, now') /\ Adds(agenda, u, e) /\ e.what = "end" /\ running
      /\ \A i \in DOMAIN u : EventOK(u[i], gen, TickTime(ticks + 1))
  BY <1>1 DEF Taken
<1>6. FileOK(agenda', gen, arrivals')
  <2>1. SameArrivals(u, agenda)
    BY <1>5, AddsSameArrivals
  <2> QED  BY <1>1, <1>2, <2>1, FileKeeps DEF Inv
<1>7. Balanced(agenda', index', arrivals')
  BY <1>1, <1>2, <1>3, <1>4 DEF Balanced, IndexType
<1>8. CollOK(coll') /\ OneScaling(agenda', coll') /\ Routed(arrivals') /\ arrivals' \in Seq(Arrivals)
  BY <1>1, <1>2, <1>4 DEF OneScaling, Inv
<1>9. running' \in BOOLEAN /\ running'
  BY <1>2, <1>5 DEF Inv
<1> QED  BY <1>1, <1>2, <1>3, <1>4, <1>5, <1>6, <1>7, <1>8, <1>9, QuietStep

LEMMA StopClockKeeps ==
    ASSUME Inv, StopClock
    PROVE  Inv'
<1>1. PICK u, e : Taken("stop", u, e) /\ agenda' = u
  <2>1. PICK u, e : Taken("stop", u, e) /\ agenda' = InsertAll(u, <<>>)
    BY HandleTakes DEF StopClock
  <2> QED  BY <2>1, InsertNone
<1>2. UNCHANGED <<gen, first, ticks, agents, coll, index, arrivals>> /\ running' = FALSE
  BY DEF StopClock
<1>3. /\ Feeding(u) <= 1 /\ Arriving(u) = 0 /\ Ticking(u) = 1
      /\ Scalings(u) = IF coll.steady THEN 0 ELSE 1
      /\ Ending(u) \in Nat /\ index.total_requests + index.reported + Ending(u) = Len(arrivals)
  <2>1. "stop" \in Feeds /\ "stop" # "end" /\ "stop" # "tick" /\ "stop" \notin {"spun_up", "scaled"}
    BY DEF Feeds
  <2>2. index.total_requests \in Nat /\ index.reported \in Nat
    BY DEF Inv, IndexType
  <2>3. /\ Feeding(u) <= 1 /\ Arriving(u) = 0 /\ Ticking(u) = 1 /\ Ending(u) \in Nat
        /\ Scalings(u) \in Nat /\ Scalings(u) + 0 = IF coll.steady THEN 0 ELSE 1
        /\ index.total_requests + index.reported + Ending(u) + 0 = Len(arrivals)
    BY <1>1, <2>1, LeftCounts
  <2> QED  BY <2>2, <2>3
<1>4. /\ InOrder(u, now') /\ Adds(agenda, u, e) /\ e.what = "stop" /\ now' = e.at
      /\ EventOK(e, gen, TickTime(ticks + 1))
      /\ \A i \in DOMAIN u : EventOK(u[i], gen, TickTime(ticks + 1))
  BY <1>1 DEF Taken
<1>5. FileOK(agenda', gen, arrivals')
  <2>1. SameArrivals(u, agenda)
    BY <1>4, AddsSameArrivals
  <2> QED  BY <1>1, <1>2, <2>1, FileKeeps DEF Inv
<1>6. Balanced(agenda', index', arrivals')
  BY <1>1, <1>2, <1>3 DEF Balanced
<1>7. CollOK(coll') /\ OneScaling(agenda', coll') /\ Routed(arrivals') /\ arrivals' \in Seq(Arrivals)
      /\ index' \in IndexType
  BY <1>1, <1>2, <1>3 DEF OneScaling, Inv
<1>8. StopOK(agenda', now', gen)
  BY <1>1, <1>3, <1>4 DEF StopOK, EventOK
<1>9. Arriving(u) <= 1
  BY <1>3
<1>10. running' \in BOOLEAN
  BY <1>2
<1> QED  BY <1>1, <1>2, <1>3, <1>4, <1>5, <1>6, <1>7, <1>8, <1>9, <1>10, QuietStep

LEMMA PoissonStopsKeeps ==
    ASSUME Inv, PoissonStops
    PROVE  Inv'
<1>1. PICK u, e : Taken("poisson", u, e) /\ agenda' = u
  <2>1. PICK u, e : Taken("poisson", u, e) /\ agenda' = InsertAll(u, <<>>)
    BY HandleTakes DEF PoissonStops
  <2> QED  BY <2>1, InsertNone
<1>2. UNCHANGED <<gen, first, ticks, agents, coll, index, arrivals>> /\ running' = FALSE
  BY DEF PoissonStops
<1>3. /\ Feeding(u) <= 1 /\ Arriving(u) = 0 /\ Ticking(u) = 1
      /\ Scalings(u) = IF coll.steady THEN 0 ELSE 1
      /\ Ending(u) \in Nat /\ index.total_requests + index.reported + Ending(u) = Len(arrivals)
  <2>1. "poisson" \in Feeds /\ "poisson" # "end" /\ "poisson" # "tick" /\ "poisson" \notin {"spun_up", "scaled"}
    BY DEF Feeds
  <2>2. index.total_requests \in Nat /\ index.reported \in Nat
    BY DEF Inv, IndexType
  <2>3. /\ Feeding(u) <= 1 /\ Arriving(u) = 0 /\ Ticking(u) = 1 /\ Ending(u) \in Nat
        /\ Scalings(u) \in Nat /\ Scalings(u) + 0 = IF coll.steady THEN 0 ELSE 1
        /\ index.total_requests + index.reported + Ending(u) + 0 = Len(arrivals)
    BY <1>1, <2>1, LeftCounts
  <2> QED  BY <2>2, <2>3
<1>4. /\ InOrder(u, now') /\ Adds(agenda, u, e) /\ e.what = "poisson"
      /\ EventOK(e, gen, TickTime(ticks + 1))
      /\ \A i \in DOMAIN u : EventOK(u[i], gen, TickTime(ticks + 1))
  BY <1>1 DEF Taken
<1>5. FileOK(agenda', gen, arrivals')
  <2>1. SameArrivals(u, agenda)
    BY <1>4, AddsSameArrivals
  <2> QED  BY <1>1, <1>2, <2>1, FileKeeps DEF Inv
<1>6. Balanced(agenda', index', arrivals')
  BY <1>1, <1>2, <1>3 DEF Balanced
<1>7. CollOK(coll') /\ OneScaling(agenda', coll') /\ Routed(arrivals') /\ arrivals' \in Seq(Arrivals)
      /\ index' \in IndexType
  BY <1>1, <1>2, <1>3 DEF OneScaling, Inv
<1>8. ~IsLoaded
  BY <1>4 DEF EventOK, IsLoaded
<1>9. Arriving(u) <= 1
  BY <1>3
<1>10. running' \in BOOLEAN
  BY <1>2
<1> QED  BY <1>1, <1>2, <1>3, <1>4, <1>5, <1>6, <1>7, <1>8, <1>9, <1>10, QuietStep

\* What an event of a scaling leaves, the scaling itself not counted.
LEMMA ScalingLeaves ==
    ASSUME Inv, NEW what \in {"spun_up", "scaled"}, NEW u, NEW e, Taken(what, u, e)
    PROVE  /\ Feeding(u) <= 1 /\ Arriving(u) <= 1 /\ Ticking(u) = 1 /\ (Fed => Feeding(u) = 1)
           /\ Scalings(u) = 0 /\ ~coll.steady
           /\ Ending(u) \in Nat /\ index.total_requests + index.reported + Ending(u) = Len(arrivals)
           /\ FileOK(u, gen, arrivals) /\ InOrder(u, now') /\ now' \in Nat /\ running
           /\ Present = now'
           /\ \A i \in DOMAIN u : EventOK(u[i], gen, TickTime(ticks + 1))
<1>1. what \notin Feeds /\ what # "end" /\ what # "tick" /\ what # "arrive"
  BY DEF Feeds
<1>2. index.total_requests \in Nat /\ index.reported \in Nat /\ coll.steady \in BOOLEAN
  BY DEF Inv, IndexType, CollOK, CollType
<1>3. /\ Feeding(u) <= 1 /\ Arriving(u) <= 1 /\ Ticking(u) = 1 /\ Ending(u) \in Nat
      /\ (Fed => Feeding(u) = 1)
      /\ Scalings(u) \in Nat /\ Scalings(u) + 1 = IF coll.steady THEN 0 ELSE 1
      /\ index.total_requests + index.reported + Ending(u) + 0 = Len(arrivals)
  BY <1>1, LeftCounts
<1>4. /\ Adds(agenda, u, e) /\ e.what = what
  BY DEF Taken
<1>5. FileOK(u, gen, arrivals)
  <2>1. SameArrivals(u, agenda)
    BY <1>1, <1>4, AddsSameArrivals
  <2> QED  BY <2>1, FileKeeps DEF Inv
<1>6. /\ InOrder(u, now') /\ now' \in Nat /\ running /\ Present = now'
      /\ \A i \in DOMAIN u : EventOK(u[i], gen, TickTime(ticks + 1))
  BY DEF Taken
<1> QED  BY <1>2, <1>3, <1>5, <1>6

LEMMA ScaledKeeps ==
    ASSUME Inv, Scaled
    PROVE  Inv'
<1>1. PICK u, e : Taken("scaled", u, e) /\ agenda' = u
  <2>1. PICK u, e : Taken("scaled", u, e) /\ agenda' = InsertAll(u, <<>>)
    BY HandleTakes DEF Scaled
  <2> QED  BY <2>1, InsertNone
<1>2. UNCHANGED <<running, gen, first, ticks, agents, index, arrivals>>
      /\ coll' = [coll EXCEPT !.num_workers = coll.target, !.steady = TRUE]
  BY DEF Scaled
<1>3. /\ Feeding(u) <= 1 /\ Arriving(u) <= 1 /\ Ticking(u) = 1 /\ (Fed => Feeding(u) = 1)
      /\ Scalings(u) = 0 /\ ~coll.steady
      /\ Ending(u) \in Nat /\ index.total_requests + index.reported + Ending(u) = Len(arrivals)
      /\ FileOK(u, gen, arrivals) /\ InOrder(u, now') /\ running
      /\ \A i \in DOMAIN u : EventOK(u[i], gen, TickTime(ticks + 1))
  BY <1>1, ScalingLeaves
<1>4. CollOK(coll') /\ coll'.steady
  <2>1. coll \in CollType /\ coll.target > 0 /\ coll.target \in Nat
    BY <1>3 DEF Inv, CollOK, CollType
  <2>2. coll.target \in Nat \ {0}
    BY <2>1
  <2> DEFINE c == [coll EXCEPT !.num_workers = coll.target]
  <2>3. c \in CollType
    BY <2>1, <2>2 DEF CollType
  <2>4. coll' = [c EXCEPT !.steady = TRUE]
    BY <1>2, <2>1 DEF CollType
  <2> HIDE DEF c
  <2>5. coll' \in CollType /\ coll'.steady = TRUE
    BY <2>3, <2>4 DEF CollType
  <2> QED  BY <2>5 DEF CollOK
<1>5. OneScaling(agenda', coll')
  BY <1>1, <1>3, <1>4 DEF OneScaling
<1>6. Balanced(agenda', index', arrivals') /\ Routed(arrivals') /\ arrivals' \in Seq(Arrivals)
      /\ index' \in IndexType /\ running' \in BOOLEAN /\ running'
  BY <1>1, <1>2, <1>3 DEF Balanced, Inv
<1> QED  BY <1>1, <1>2, <1>3, <1>4, <1>5, <1>6, QuietStep

LEMMA SpunUpKeeps ==
    ASSUME Inv, SpunUp
    PROVE  Inv'
<1> DEFINE a == Event("scaled", Present + ReadyTime)
<1>1. PICK u, e : Taken("spun_up", u, e) /\ agenda' = Insert(u, a)
  <2>1. PICK u, e : Taken("spun_up", u, e) /\ agenda' = InsertAll(u, <<a>>)
    BY HandleTakes DEF SpunUp
  <2> QED  BY <2>1, InsertOne
<1>2. UNCHANGED <<running, gen, first, ticks, agents, coll, index, arrivals>>
  BY DEF SpunUp
<1>3. /\ Feeding(u) <= 1 /\ Arriving(u) <= 1 /\ Ticking(u) = 1 /\ (Fed => Feeding(u) = 1)
      /\ Scalings(u) = 0 /\ ~coll.steady
      /\ Ending(u) \in Nat /\ index.total_requests + index.reported + Ending(u) = Len(arrivals)
      /\ FileOK(u, gen, arrivals) /\ InOrder(u, now') /\ now' \in Nat /\ running
      /\ Present = now'
      /\ \A i \in DOMAIN u : EventOK(u[i], gen, TickTime(ticks + 1))
  BY <1>1, ScalingLeaves
<1>4. a \in EventType /\ a.what = "scaled" /\ a.at \in Nat /\ a.at >= now'
  <2>1. Present + ReadyTime \in Nat /\ Present + ReadyTime >= now'
    <3>1. ReadyTime \in Nat
      BY SimulationAssumption
    <3>2. Present \in Nat /\ Present = now'
      BY <1>3
    <3>3. Present + ReadyTime \in Nat /\ Present + ReadyTime >= Present
      BY <3>1, <3>2, DelayIsLater
    <3> QED  BY <3>2, <3>3
  <2> QED  BY <2>1 DEF Event, EventType, Kinds, NoRequest, RequestType, RequestTypes
<1>5. a.what \notin Feeds /\ a.what # "arrive" /\ a.what # "end" /\ a.what # "tick"
  BY <1>4 DEF Feeds
<1> HIDE DEF a
<1>6. Adds(agenda', u, a) /\ InOrder(agenda', now')
  BY <1>1, <1>3, <1>4, <1>5, InsertInOrder
<1>7. /\ Feeding(agenda') = Feeding(u) + 0 /\ Feeding(u) \in Nat
      /\ Arriving(agenda') = Arriving(u) + 0 /\ Arriving(u) \in Nat
      /\ Ending(agenda') = Ending(u) + 0
      /\ Ticking(agenda') = Ticking(u) + 0
      /\ Scalings(agenda') = Scalings(u) + 1
  BY <1>4, <1>5, <1>6, AddsCounts
<1>8. FileOK(agenda', gen, arrivals')
  BY <1>2, <1>3, <1>5, <1>6, AddsSameArrivals, FileKeeps
<1>9. /\ Feeding(agenda') <= 1 /\ Arriving(agenda') <= 1 /\ Ticking(agenda') = 1
      /\ Fed => Feeding(agenda') = 1
      /\ Ending(agenda') = Ending(u) /\ Scalings(agenda') = 1
  BY <1>3, <1>7
<1>10. \A i \in DOMAIN agenda' : EventOK(agenda'[i], gen, TickTime(ticks + 1))
  <2> SUFFICES ASSUME NEW i \in DOMAIN agenda'
               PROVE  EventOK(agenda'[i], gen, TickTime(ticks + 1))
    OBVIOUS
  <2>1. agenda'[i] = a \/ \E k \in DOMAIN u : agenda'[i] = u[k]
    BY <1>6, AddsEvents
  <2>2. EventOK(a, gen, TickTime(ticks + 1))
    BY <1>4 DEF EventOK
  <2> QED  BY <1>3, <2>1, <2>2
<1>11. CollOK(coll') /\ OneScaling(agenda', coll')
  BY <1>2, <1>3, <1>9 DEF OneScaling, Inv
<1>12. Balanced(agenda', index', arrivals') /\ Routed(arrivals') /\ arrivals' \in Seq(Arrivals)
       /\ index' \in IndexType /\ running' \in BOOLEAN /\ running'
  BY <1>2, <1>3, <1>9 DEF Balanced, Inv
<1> QED  BY <1>1, <1>2, <1>6, <1>8, <1>9, <1>10, <1>11, <1>12, QuietStep

-----------------------------------------------------------------------------
(* Arrivals.                                                               *)

\* Whatever is asked, it goes to some shards, each once, and to one of the index's
\* own unless a SEARCH gives a negative hash.
LEMMA RouteInRange ==
    ASSUME NEW r \in RequestType
    PROVE  Route(r) \in Seq(Int) /\ RoutedWell(r, Route(r))
<1>1. r.document \in Int /\ r.given \in Seq(Int)
  BY DEF RequestType
<1>2. CASE r.type = "SEARCH"
  <2> DEFINE s == SearchShards(r.given)
  <2>1. Route(r) = s
    BY <1>2 DEF Route
  <2>2. NumShards \in Nat \ {0} /\ \A n \in 1..Len(r.given) : r.given[n] \in Int
    BY <1>1, RoutingAssumption
  <2>3. s \in Seq(Int) /\ s # <<>> /\ NoRepeats(s)
    <3>1. \A n \in 1..Len(r.given) : ShardFromHash(r.given[n]) \in Int
      BY <2>2, RemainderRange DEF ShardFromHash
    <3>2. ShardNumbers \subseteq Int
      BY <2>2 DEF ShardNumbers
    <3> HIDE DEF s
    <3> QED  BY <1>1, <3>1, <3>2, SearchVisits DEF s
  <2>4. ASSUME ~GivenNegative(r)  PROVE Elements(s) \subseteq ShardNumbers
    <3>1. \A n \in 1..Len(r.given) : r.given[n] >= 0
      BY <1>1, <1>2, <2>2, <2>4 DEF GivenNegative
    <3>2. \A n \in 1..Len(r.given) : ShardFromHash(r.given[n]) \in ShardNumbers
      BY <2>2, <3>1, RemainderRange DEF ShardFromHash, ShardNumbers
    <3>3. s \in Seq(ShardNumbers)
      BY <1>1, <3>2, SearchVisits
    <3> HIDE DEF s
    <3> QED  BY <3>3 DEF Elements
  <2> HIDE DEF s
  <2> QED  BY <1>2, <2>1, <2>3, <2>4 DEF RoutedWell
<1>3. CASE r.type # "SEARCH"
  <2> DEFINE s == ComputeShard(r.document, r.given)
  <2>1. Route(r) = <<s>>
    BY <1>3 DEF Route
  <2>2. s \in ShardNumbers
    BY <1>1, ShardInRange
  <2>3. s \in Int
    BY <2>2 DEF ShardNumbers
  <2> HIDE DEF s
  <2> QED  BY <2>1, <2>2, <2>3 DEF NoRepeats, Elements, RoutedWell
<1> QED  BY <1>2, <1>3

\* The arrival is the one that the file has next, and goes to shards that exist.
LEMMA ArrivalRecorded ==
    ASSUME Inv, NEW u, NEW e, Taken("arrive", u, e),
           NEW a, a = [request |-> e.request, at |-> e.at, shards |-> Route(e.request)],
           NEW arr, arr = Append(arrivals, a)
    PROVE  /\ arr \in Seq(Arrivals) /\ Len(arr) = Len(arrivals) + 1
           /\ Routed(arr) /\ FileOK(u, gen, arr)
<1>1. /\ Adds(agenda, u, e) /\ e.what = "arrive" /\ e \in EventType /\ e.at \in Nat
      /\ EventOK(e, gen, TickTime(ticks + 1)) /\ u \in Seq(EventType)
  BY DEF Taken, InOrder
<1>2. e.request \in RequestType /\ e.request.id \in Nat
  <2>1. e.request \in RequestType
    BY <1>1 DEF EventType
  <2> QED  BY <2>1 DEF RequestType
<1>3. /\ e.request.id = gen.current
      /\ gen.kind = "loaded" => /\ Latest(e.at, gen.requests, gen.current)
                                /\ gen.requests[gen.current].known
  BY <1>1 DEF EventOK
<1> DEFINE s == Route(e.request)
<1>4. s \in Seq(Int) /\ RoutedWell(e.request, s)
  BY <1>2, RouteInRange
<1>5. a.request = e.request /\ a.request.id = gen.current /\ a.at = e.at /\ a.shards = s
  BY <1>3
<1>6. a \in Arrivals
  BY <1>1, <1>2, <1>4 DEF Arrivals
<1> HIDE DEF s
<1>7. arrivals \in Seq(Arrivals) /\ Routed(arrivals) /\ FileOK(agenda, gen, arrivals)
      /\ gen.current \in Nat
  BY DEF Inv, GenOK, GenType
<1>8. /\ arr \in Seq(Arrivals) /\ Len(arr) = Len(arrivals) + 1 /\ Len(arrivals) \in Nat
      /\ DOMAIN arrivals = 1..Len(arrivals) /\ DOMAIN arr = 1..(Len(arrivals) + 1)
      /\ arr[Len(arrivals) + 1] = a /\ \A i \in DOMAIN arrivals : arr[i] = arrivals[i]
  BY <1>6, <1>7
<1>9. \A i \in DOMAIN arr : i \in DOMAIN arrivals \/ i = Len(arrivals) + 1
  BY <1>8
<1>10. Routed(arr)
  <2> SUFFICES ASSUME NEW i \in DOMAIN arr
               PROVE  RoutedWell(arr[i].request, arr[i].shards)
    BY DEF Routed
  <2>1. CASE i \in DOMAIN arrivals
    BY <1>7, <1>8, <2>1 DEF Routed
  <2>2. CASE i = Len(arrivals) + 1
    BY <1>4, <1>5, <1>8, <2>2
  <2> QED  BY <1>9, <2>1, <2>2
<1>11. ASSUME gen.kind = "loaded"
       PROVE  FileOK(u, gen, arr)
  <2>1. /\ Arriving(u) = 0 /\ Arriving(agenda) # 0
    <3>1. Arriving(u) = 0
      BY LeftCounts
    <3>2. Arriving(agenda) = Arriving(u) + 1
      BY <1>1, AddsCounts
    <3> QED  BY <3>1, <3>2
  <2>2. \A i \in DOMAIN u : u[i].what # "arrive"
    BY <1>1, <2>1, NoneArriving
  <2>3. /\ \A i, k \in DOMAIN arrivals : i < k => arrivals[i].request.id < arrivals[k].request.id
        /\ \A i \in DOMAIN arrivals :
             /\ arrivals[i].request.id \in 1..gen.current /\ gen.requests[arrivals[i].request.id].known
             /\ Latest(arrivals[i].at, gen.requests, arrivals[i].request.id)
             /\ arrivals[i].request.id < gen.current
        /\ \A n \in 1..gen.current :
             gen.requests[n].known =>
                \/ \E i \in DOMAIN arrivals : arrivals[i].request.id = n
                \/ \E i \in DOMAIN agenda : agenda[i].what = "arrive" /\ agenda[i].request.id = n
    BY <1>7, <1>11, <2>1 DEF FileOK
  <2>4. \A i, k \in DOMAIN arr : i < k => arr[i].request.id < arr[k].request.id
    <3> SUFFICES ASSUME NEW i \in DOMAIN arr, NEW k \in DOMAIN arr, i < k
                 PROVE  arr[i].request.id < arr[k].request.id
      OBVIOUS
    <3>1. i \in DOMAIN arrivals
      BY <1>8
    <3>2. CASE k \in DOMAIN arrivals
      BY <1>8, <2>3, <3>1, <3>2
    <3>3. CASE k = Len(arrivals) + 1
      BY <1>5, <1>8, <2>3, <3>1, <3>3
    <3> QED  BY <1>9, <3>2, <3>3
  <2>5. gen.current \in 1..gen.current
    BY <1>3, <1>11 DEF Latest
  <2>6. ASSUME NEW i \in DOMAIN arr
        PROVE  /\ arr[i].request.id \in 1..gen.current /\ gen.requests[arr[i].request.id].known
               /\ Latest(arr[i].at, gen.requests, arr[i].request.id)
               /\ Arriving(u) # 0 => arr[i].request.id < gen.current
    <3>1. CASE i \in DOMAIN arrivals
      BY <1>8, <2>3, <3>1
    <3>2. CASE i = Len(arrivals) + 1
      BY <1>3, <1>5, <1>8, <1>11, <2>1, <2>5, <3>2
    <3> QED  BY <1>9, <3>1, <3>2
  <2>7. ASSUME NEW n \in 1..gen.current, gen.requests[n].known
        PROVE  \E i \in DOMAIN arr : arr[i].request.id = n
    <3>1. CASE \E i \in DOMAIN arrivals : arrivals[i].request.id = n
      BY <1>8, <3>1
    <3>2. CASE \E i \in DOMAIN agenda : agenda[i].what = "arrive" /\ agenda[i].request.id = n
      <4>1. PICK i \in DOMAIN agenda : agenda[i].what = "arrive" /\ agenda[i].request.id = n
        BY <3>2
      <4>2. agenda[i] = e \/ \E k \in DOMAIN u : agenda[i] = u[k]
        BY <1>1, AddsEvents
      <4>3. agenda[i] = e
        BY <2>2, <4>1, <4>2
      <4>4. a.request.id = n
        BY <1>3, <1>5, <4>1, <4>3
      <4> QED  BY <1>8, <4>4
    <3> QED  BY <2>3, <2>7, <3>1, <3>2
  <2> QED  BY <2>4, <2>6, <2>7 DEF FileOK
<1>12. FileOK(u, gen, arr)
  BY <1>11 DEF FileOK
<1> QED  BY <1>8, <1>10, <1>12

LEMMA ArriveKeeps ==
    ASSUME Inv, Arrive
    PROVE  Inv'
<1> DEFINE q == Head(agenda).request
           x == [request |-> q, at |-> Present, shards |-> Route(q)]
<1>1. UNCHANGED <<running, gen, first, ticks, agents, coll>> /\ arrivals' = Append(arrivals, x)
  BY DEF Arrive
<1>2. \/ \E d \in Durations : /\ Handle("arrive", <<RequestEvent("end", Present + d, q)>>)
                              /\ UNCHANGED index
      \/ Handle("arrive", <<>>) /\ LogResult
  BY DEF Arrive
<1>3. index \in IndexType /\ index.total_requests \in Nat /\ index.reported \in Nat
  BY DEF Inv, IndexType
<1>4. ASSUME NEW u, NEW e, Taken("arrive", u, e)
      PROVE  /\ Feeding(u) \in Nat /\ Feeding(u) <= 1 /\ Arriving(u) = 0 /\ Ticking(u) = 1
             /\ Fed => Feeding(u) = 1
             /\ Scalings(u) \in Nat /\ Scalings(u) = IF coll.steady THEN 0 ELSE 1
             /\ Ending(u) \in Nat
             /\ index.total_requests + index.reported + Ending(u) = Len(arrivals)
             /\ InOrder(u, now') /\ now' \in Nat /\ Present = now' /\ running /\ q = e.request
             /\ q \in RequestType
             /\ \A i \in DOMAIN u : EventOK(u[i], gen, TickTime(ticks + 1))
             /\ arrivals' \in Seq(Arrivals) /\ Len(arrivals') = Len(arrivals) + 1
             /\ Routed(arrivals') /\ FileOK(u, gen, arrivals')
  <2>1. "arrive" \notin Feeds /\ "arrive" # "end" /\ "arrive" # "tick"
        /\ "arrive" \notin {"spun_up", "scaled"}
    BY DEF Feeds
  <2>2. /\ Feeding(u) \in Nat /\ Feeding(u) <= 1 /\ Arriving(u) = 0 /\ Ticking(u) = 1
        /\ Fed => Feeding(u) = 1
        /\ Scalings(u) \in Nat /\ Scalings(u) + 0 = IF coll.steady THEN 0 ELSE 1
        /\ Ending(u) \in Nat
        /\ index.total_requests + index.reported + Ending(u) + 0 = Len(arrivals)
    BY <1>4, <2>1, LeftCounts
  <2>3. Scalings(u) = IF coll.steady THEN 0 ELSE 1
    BY <2>2
  <2>4. index.total_requests + index.reported + Ending(u) = Len(arrivals)
    BY <1>3, <2>2
  <2>5. /\ InOrder(u, now') /\ now' \in Nat /\ Present = now' /\ Present = e.at /\ running
        /\ e = Head(agenda) /\ e \in EventType
        /\ \A i \in DOMAIN u : EventOK(u[i], gen, TickTime(ticks + 1))
    BY <1>4 DEF Taken
  <2>6. q = e.request /\ x = [request |-> e.request, at |-> e.at, shards |-> Route(e.request)]
    BY <2>5
  <2>7. q \in RequestType
    BY <2>5, <2>6 DEF EventType
  <2>8. /\ arrivals' \in Seq(Arrivals) /\ Len(arrivals') = Len(arrivals) + 1
        /\ Routed(arrivals') /\ FileOK(u, gen, arrivals')
    <3> HIDE DEF x
    <3> QED  BY <1>1, <1>4, <2>6, ArrivalRecorded
  <2> HIDE DEF q, x
  <2> QED  BY <2>2, <2>3, <2>4, <2>5, <2>6, <2>7, <2>8
<1> HIDE DEF x, q
<1>5. CASE Handle("arrive", <<>>) /\ LogResult
  <2>1. PICK u, e : Taken("arrive", u, e) /\ agenda' = u
    <3>1. PICK u, e : Taken("arrive", u, e) /\ agenda' = InsertAll(u, <<>>)
      BY <1>5, HandleTakes
    <3> QED  BY <3>1, InsertNone
  <2>2. index' \in IndexType /\ index'.reported = index.reported
        /\ index'.total_requests = index.total_requests + 1
    BY <1>3, <1>5 DEF LogResult, IndexType
  <2>3. /\ Feeding(u) <= 1 /\ Arriving(u) = 0 /\ Ticking(u) = 1 /\ (Fed => Feeding(u) = 1)
        /\ Scalings(u) = IF coll.steady THEN 0 ELSE 1
        /\ Ending(u) \in Nat
        /\ index.total_requests + index.reported + Ending(u) = Len(arrivals)
        /\ InOrder(u, now') /\ running
        /\ \A i \in DOMAIN u : EventOK(u[i], gen, TickTime(ticks + 1))
        /\ arrivals' \in Seq(Arrivals) /\ Len(arrivals') = Len(arrivals) + 1
        /\ Routed(arrivals') /\ FileOK(u, gen, arrivals')
    BY <1>4, <2>1
  <2>4. index'.total_requests + index'.reported + Ending(u) = Len(arrivals')
    <3>1. (index.total_requests + 1) + index.reported + Ending(u) = Len(arrivals) + 1
      BY <1>3, <2>3
    <3> QED  BY <2>2, <2>3, <3>1
  <2>5. Balanced(agenda', index', arrivals') /\ CollOK(coll') /\ OneScaling(agenda', coll')
    BY <1>1, <2>1, <2>3, <2>4 DEF Balanced, OneScaling, Inv
  <2>6. Arriving(u) <= 1
    BY <2>3
  <2>7. running' \in BOOLEAN /\ running'
    BY <1>1, <2>3
  <2> QED  BY <1>1, <2>1, <2>2, <2>3, <2>5, <2>6, <2>7, QuietStep
<1>6. ASSUME NEW d \in Durations, Handle("arrive", <<RequestEvent("end", Present + d, q)>>),
             UNCHANGED index
      PROVE  Inv'
  <2> DEFINE a == RequestEvent("end", Present + d, q)
  <2>1. PICK u, e : Taken("arrive", u, e) /\ agenda' = Insert(u, a)
    <3>1. PICK u, e : Taken("arrive", u, e) /\ agenda' = InsertAll(u, <<a>>)
      BY <1>6, HandleTakes
    <3> QED  BY <3>1, InsertOne
  <2>2. /\ Feeding(u) \in Nat /\ Feeding(u) <= 1 /\ Arriving(u) = 0 /\ Ticking(u) = 1
        /\ (Fed => Feeding(u) = 1)
        /\ Scalings(u) \in Nat /\ Scalings(u) = IF coll.steady THEN 0 ELSE 1
        /\ Ending(u) \in Nat
        /\ index.total_requests + index.reported + Ending(u) = Len(arrivals)
        /\ InOrder(u, now') /\ running /\ Present = now' /\ now' \in Nat /\ q \in RequestType
        /\ \A i \in DOMAIN u : EventOK(u[i], gen, TickTime(ticks + 1))
        /\ arrivals' \in Seq(Arrivals) /\ Len(arrivals') = Len(arrivals) + 1
        /\ Routed(arrivals') /\ FileOK(u, gen, arrivals')
    BY <1>4, <2>1
  <2>3. a \in EventType /\ a.what = "end" /\ a.at \in Nat /\ a.at >= now'
    <3>1. d \in Nat /\ Present \in Nat
      BY <2>2, SimulationAssumption
    <3>2. Present + d \in Nat /\ Present + d >= Present
      BY <3>1, DelayIsLater
    <3> QED  BY <2>2, <3>2 DEF RequestEvent, EventType, Kinds
  <2>4. a.what \notin Feeds /\ a.what # "arrive" /\ a.what # "tick"
        /\ a.what \notin {"spun_up", "scaled"}
    BY <2>3 DEF Feeds
  <2> HIDE DEF a
  <2>5. Adds(agenda', u, a) /\ InOrder(agenda', now')
    BY <2>1, <2>2, <2>3, <2>4, InsertInOrder
  <2>6. /\ Feeding(agenda') = Feeding(u) + 0
        /\ Arriving(agenda') = Arriving(u) + 0
        /\ Ending(agenda') = Ending(u) + 1
        /\ Ticking(agenda') = Ticking(u) + 0
        /\ Scalings(agenda') = Scalings(u) + 0
    BY <2>3, <2>4, <2>5, AddsCounts
  <2>7. /\ Feeding(agenda') <= 1 /\ Arriving(agenda') <= 1 /\ Ticking(agenda') = 1
        /\ Fed => Feeding(agenda') = 1
    BY <2>2, <2>6
  <2>8. Scalings(agenda') = IF coll.steady THEN 0 ELSE 1
    BY <2>2, <2>6
  <2>9. index.total_requests + index.reported + Ending(agenda') = Len(arrivals')
    BY <1>3, <2>2, <2>6
  <2>10. FileOK(agenda', gen, arrivals')
    BY <2>2, <2>4, <2>5, AddsSameArrivals, FileKeeps
  <2>11. \A i \in DOMAIN agenda' : EventOK(agenda'[i], gen, TickTime(ticks + 1))
    <3> SUFFICES ASSUME NEW i \in DOMAIN agenda'
                 PROVE  EventOK(agenda'[i], gen, TickTime(ticks + 1))
      OBVIOUS
    <3>1. agenda'[i] = a \/ \E k \in DOMAIN u : agenda'[i] = u[k]
      BY <2>5, AddsEvents
    <3>2. EventOK(a, gen, TickTime(ticks + 1))
      BY <2>3 DEF EventOK
    <3> QED  BY <2>2, <3>1, <3>2
  <2>12. Balanced(agenda', index', arrivals') /\ CollOK(coll') /\ OneScaling(agenda', coll')
         /\ index' \in IndexType
    BY <1>1, <1>3, <1>6, <2>8, <2>9 DEF Balanced, OneScaling, Inv
  <2>13. running' \in BOOLEAN /\ running'
    BY <1>1, <2>2
  <2> QED  BY <1>1, <2>1, <2>2, <2>5, <2>7, <2>10, <2>11, <2>12, <2>13, QuietStep
<1> QED  BY <1>2, <1>5, <1>6

-----------------------------------------------------------------------------
(* The generators.                                                         *)

\* Events of the other kinds say nothing of the generator.
LEMMA EventOfOthers ==
    ASSUME NEW e, NEW g, NEW h, NEW t, EventOK(e, g, t), e.what # "arrive", e.what \notin Feeds
    PROVE  EventOK(e, h, t)
BY DEF EventOK, Feeds

LEMMA EventTyped ==
    ASSUME NEW what \in Kinds, NEW t \in Nat
    PROVE  /\ Event(what, t) \in EventType
           /\ Event(what, t).what = what /\ Event(what, t).at = t
BY DEF Event, EventType, NoRequest, RequestType, RequestTypes

\* A step of a generator that has taken its own event from the clock.
LEMMA GeneratorStep ==
    ASSUME Inv, NEW what \in Feeds, NEW u, NEW e, Taken(what, u, e),
           UNCHANGED <<running, first, ticks, agents, coll, index, arrivals>>,
           GenOK(gen'), gen'.kind = gen.kind, gen'.requests = gen.requests,
           gen'.has_rate = gen.has_rate, gen'.has_index = gen.has_index,
           InOrder(agenda', now'),
           \A i \in DOMAIN agenda' : EventOK(agenda'[i], gen', TickTime(ticks + 1)),
           Feeding(agenda') <= 1, Fed => Feeding(agenda') = 1, Arriving(agenda') <= 1,
           Ticking(agenda') = Ticking(u), Scalings(agenda') = Scalings(u),
           Ending(agenda') = Ending(u),
           FileOK(agenda', gen', arrivals)
    PROVE  Inv'
<1>1. now' \in Nat /\ now \in Nat /\ now <= now' /\ running
  BY DEF Taken, Inv
<1>2. AgentsOK(agents', now')
  BY <1>1, AgentsLater DEF Inv
<1>3. TickTime(ticks)' = TickTime(ticks) /\ TickTime(ticks + 1)' = TickTime(ticks + 1)
  BY DEF TickTime
<1>4. (Fed)' = Fed
  BY DEF Fed, IsLoaded
<1>5. what # "end" /\ what # "tick" /\ what \notin {"spun_up", "scaled"}
  BY DEF Feeds
<1>6. /\ Ticking(u) = 1 /\ Scalings(u) \in Nat
      /\ Scalings(u) + 0 = IF coll.steady THEN 0 ELSE 1
      /\ Ending(u) \in Nat /\ index.total_requests + index.reported + Ending(u) + 0 = Len(arrivals)
  BY <1>5, LeftCounts
<1>7. index.total_requests \in Nat /\ index.reported \in Nat
  BY DEF Inv, IndexType
<1>8. Scalings(u) = (IF coll.steady THEN 0 ELSE 1)
      /\ index.total_requests + index.reported + Ending(u) = Len(arrivals)
  BY <1>6, <1>7
<1>9. AgendaOK(agenda', now', gen', TickTime(ticks + 1)', (running /\ Fed)')
  <2>1. Ticking(agenda') = 1
    BY <1>6
  <2> QED  BY <1>3, <1>4, <2>1 DEF AgendaOK, InOrder
<1>10. ticks' > 0 => \A i \in DOMAIN agents' : Waits(agents'[i], TickTime(ticks)')
  BY <1>3 DEF Inv
<1>11. running' = running /\ first' \in Nat /\ ticks' \in Nat /\ CollOK(coll')
       /\ Routed(arrivals') /\ arrivals' \in Seq(Arrivals) /\ index' \in IndexType
       /\ running' \in BOOLEAN
  BY DEF Inv
<1>12. OneScaling(agenda', coll') /\ Balanced(agenda', index', arrivals')
  BY <1>8 DEF OneScaling, Balanced
<1>13. FileOK(agenda', gen', arrivals')
  OBVIOUS
<1> QED  BY <1>1, <1>2, <1>9, <1>10, <1>11, <1>12, <1>13 DEF Inv

\* The next request is the latest so far, or the present is.
LEMMA LatestGrows ==
    ASSUME NEW requests \in Seq(Descriptor), NEW n \in Nat, NEW t \in Nat, Latest(t, requests, n),
           n < Len(requests),
           NEW s, s = IF requests[n + 1].time < t THEN t ELSE requests[n + 1].time
    PROVE  s \in Nat /\ s >= t /\ Latest(s, requests, n + 1)
<1>1. n \in 1..Len(requests) /\ (\E i \in 1..n : requests[i].time = t)
      /\ \A i \in 1..n : requests[i].time <= t
  BY DEF Latest
<1>2. n + 1 \in 1..Len(requests) /\ \A i \in 1..(n + 1) : i \in 1..n \/ i = n + 1
  BY <1>1
<1>3. \A i \in 1..Len(requests) : requests[i].time \in Nat
  <2>1. \A i \in 1..Len(requests) : requests[i] \in Descriptor
    OBVIOUS
  <2> QED  BY <2>1 DEF Descriptor
<1>4. s \in Nat /\ s >= t /\ s >= requests[n + 1].time
  BY <1>2, <1>3
<1>5. \A i \in 1..(n + 1) : requests[i].time <= s
  <2> TAKE i \in 1..(n + 1)
  <2>1. CASE i = n + 1
    BY <1>4, <2>1
  <2>2. CASE i \in 1..n
    <3>1. requests[i].time <= t /\ requests[i].time \in Nat
      BY <1>1, <1>3, <2>2
    <3> QED  BY <1>4, <3>1
  <2> QED  BY <1>2, <2>1, <2>2
<1>6. \E i \in 1..(n + 1) : requests[i].time = s
  <2>1. CASE s = t
    BY <1>1, <1>2, <2>1
  <2>2. CASE s # t
    BY <1>2, <2>2
  <2> QED  BY <2>1, <2>2
<1> QED  BY <1>2, <1>4, <1>5, <1>6 DEF Latest

\* The n-th request r is dispatched: b is what the generator schedules to go on,
\* and g what it becomes.
Dispatching(n, r, b, g) ==
    /\ n = gen.current + 1 /\ r = gen.requests[n] /\ b = NextDispatch(gen.requests, n)
    /\ g = [gen EXCEPT !.current = n, !.active = n < Len(gen.requests)]

\* What a dispatch puts on the clock: a known request's arrival now, and then the
\* next dispatch or the stop.
LEMMA DispatchSchedules ==
    ASSUME Inv, NEW u, NEW e, Taken("dispatch", u, e),
           NEW n, NEW r, NEW b, NEW g, Dispatching(n, r, b, g)
    PROVE  /\ gen.kind = "loaded" /\ gen.active /\ n \in 1..Len(gen.requests) /\ n \in Nat
           /\ r \in Descriptor /\ r.id = n /\ NotBefore(r.time) = e.at /\ Latest(e.at, gen.requests, n)
           /\ GenOK(g) /\ g.kind = gen.kind /\ g.requests = gen.requests /\ g.current = n
           /\ g.has_rate = gen.has_rate /\ g.has_index = gen.has_index
           /\ b \in EventType /\ b.what \in Feeds /\ b.at \in Nat /\ b.at >= e.at
           /\ EventOK(b, g, TickTime(ticks + 1))
<1> USE DEF Dispatching
<1> DEFINE rs == gen.requests
<1>1. e.what = "dispatch" /\ e.at \in Nat /\ Present = e.at /\ EventOK(e, gen, TickTime(ticks + 1))
  BY DEF Taken
<1>2. gen.kind = "loaded" /\ gen.current < Len(rs) /\ Latest(e.at, rs, n)
  BY <1>1 DEF EventOK
<1>3. /\ gen \in GenType /\ rs \in Seq(Descriptor) /\ gen.current \in Nat /\ gen.active
      /\ \A i \in 1..Len(rs) : rs[i].id = i
  BY <1>2 DEF Inv, GenOK, GenType
<1>4. n \in 1..Len(rs) /\ n \in Nat /\ Len(rs) \in Nat /\ n = gen.current + 1
  BY <1>2, <1>3
<1>5. r \in Descriptor /\ r.id = n
  BY <1>3, <1>4
<1>6. r.time \in Nat /\ r.time <= e.at
  <2>1. r.time \in Nat
    BY <1>5 DEF Descriptor
  <2> QED  BY <1>2, <1>4, <2>1 DEF Latest
<1>7. NotBefore(r.time) = e.at
  BY <1>1, <1>6 DEF NotBefore
<1>8. /\ g \in GenType /\ g.kind = gen.kind /\ g.requests = rs /\ g.current = n
      /\ g.active = (n < Len(rs)) /\ g.has_rate = gen.has_rate /\ g.has_index = gen.has_index
  <2> DEFINE h == [gen EXCEPT !.current = n]
  <2>1. /\ h \in GenType /\ h.kind = gen.kind /\ h.requests = rs /\ h.current = n
        /\ h.has_rate = gen.has_rate /\ h.has_index = gen.has_index
    BY <1>3, <1>4 DEF GenType
  <2>2. g = [h EXCEPT !.active = n < Len(rs)]
    BY <1>3 DEF GenType
  <2> HIDE DEF h, rs
  <2>3. (n < Len(rs)) \in BOOLEAN
    BY <1>4
  <2> QED  BY <2>1, <2>2, <2>3 DEF GenType
<1>9. GenOK(g)
  <2>1. n <= Len(rs)
    BY <1>4
  <2>2. \A i \in 1..Len(rs) : rs[i].id = i
    BY <1>3
  <2>3. g.kind = "loaded"
    BY <1>2, <1>8
  <2> HIDE DEF rs
  <2>4. n < Len(rs) => g.active
    BY <1>8
  <2> QED  BY <1>8, <2>1, <2>2, <2>3, <2>4 DEF GenOK
<1>10. CASE n < Len(rs)
  <2> DEFINE s == NotBefore(rs[n + 1].time)
  <2>1. b = Event("dispatch", s)
    BY <1>10 DEF NextDispatch
  <2>2. s = IF rs[n + 1].time < e.at THEN e.at ELSE rs[n + 1].time
    BY <1>1 DEF NotBefore
  <2> HIDE DEF s, rs
  <2>3. s \in Nat /\ s >= e.at /\ Latest(s, rs, n + 1)
    BY <1>1, <1>2, <1>3, <1>4, <1>10, <2>2, LatestGrows
  <2>4. b \in EventType /\ b.what = "dispatch" /\ b.at = s
    <3>1. "dispatch" \in Kinds
      BY DEF Kinds
    <3> QED  BY <2>1, <2>3, <3>1, EventTyped
  <2>5. EventOK(b, g, TickTime(ticks + 1))
    BY <1>2, <1>8, <1>10, <2>3, <2>4 DEF EventOK
  <2> QED  BY <1>2, <1>3, <1>4, <1>5, <1>7, <1>8, <1>9, <2>3, <2>4, <2>5 DEF Feeds, rs
<1>11. CASE ~(n < Len(rs))
  <2> DEFINE s == e.at + StopDelay
  <2>1. b = Event("stop", s)
    BY <1>1, <1>11 DEF NextDispatch
  <2>2. s \in Nat /\ s >= e.at /\ s - StopDelay = e.at
    <3>1. StopDelay \in Nat
      BY SimulationAssumption
    <3> QED  BY <1>1, <3>1
  <2> HIDE DEF s, rs
  <2>3. n = Len(rs)
    BY <1>4, <1>11
  <2>4. b \in EventType /\ b.what = "stop" /\ b.at = s
    <3>1. "stop" \in Kinds
      BY DEF Kinds
    <3> QED  BY <2>1, <2>2, <3>1, EventTyped
  <2>5. EventOK(b, g, TickTime(ticks + 1))
    BY <1>2, <1>8, <2>2, <2>3, <2>4 DEF EventOK
  <2> QED  BY <1>2, <1>3, <1>4, <1>5, <1>7, <1>8, <1>9, <2>2, <2>4, <2>5 DEF Feeds, rs
<1> QED  BY <1>10, <1>11

\* A request comes no earlier than those that have arrived; when none is about to,
\* the generator may come to the next.
LEMMA FileGrows ==
    ASSUME NEW u \in Seq(EventType), Arriving(u) = 0, NEW g, g.kind = "loaded",
           g.current \in Nat, NEW arr, FileOK(u, g, arr),
           NEW h, h.kind = "loaded", h.requests = g.requests, h.current = g.current + 1,
           NEW v, g.requests[h.current].known =>
                    \E i \in DOMAIN v : v[i].what = "arrive" /\ v[i].request.id = h.current
    PROVE  FileOK(v, h, arr)
<1>1. \A i \in DOMAIN u : u[i].what # "arrive"
  BY NoneArriving
<1>2. /\ \A i, k \in DOMAIN arr : i < k => arr[i].request.id < arr[k].request.id
      /\ \A i \in DOMAIN arr :
           /\ arr[i].request.id \in 1..g.current /\ g.requests[arr[i].request.id].known
           /\ Latest(arr[i].at, g.requests, arr[i].request.id)
      /\ \A n \in 1..g.current :
           g.requests[n].known => \E i \in DOMAIN arr : arr[i].request.id = n
  BY <1>1 DEF FileOK
<1>3. ASSUME NEW i \in DOMAIN arr
      PROVE  arr[i].request.id \in 1..h.current /\ arr[i].request.id < h.current
  <2>1. arr[i].request.id \in 1..g.current
    BY <1>2
  <2> QED  BY <2>1
<1>4. ASSUME NEW n \in 1..h.current, h.requests[n].known
      PROVE  \/ \E i \in DOMAIN arr : arr[i].request.id = n
             \/ \E i \in DOMAIN v : v[i].what = "arrive" /\ v[i].request.id = n
  <2>1. n \in 1..g.current \/ n = h.current
    OBVIOUS
  <2>2. CASE n \in 1..g.current
    BY <1>2, <1>4, <2>2
  <2>3. CASE n = h.current
    BY <1>4, <2>3
  <2> QED  BY <2>1, <2>2, <2>3
<1> QED  BY <1>2, <1>3, <1>4 DEF FileOK

LEMMA Pair ==
    ASSUME NEW S, NEW a \in S, NEW b \in S
    PROVE  Append(<<a>>, b) = <<a, b>> /\ <<a>> \o <<b>> = <<a, b>>
<1> DEFINE s == <<a, b>>
<1>1. s \in Seq(S) /\ Len(s) = 2 /\ s[1] = a /\ s[2] = b
  OBVIOUS
<1>2. \A i \in 1..2 : i = 1 \/ i = 2
  OBVIOUS
<1> HIDE DEF s
<1>3. ASSUME NEW t \in Seq(S), Len(t) = 2, t[1] = a, t[2] = b  PROVE t = s
  <2>1. \A i \in 1..Len(t) : t[i] = s[i]
    BY <1>1, <1>2, <1>3
  <2> QED  BY <1>1, <1>3, <2>1, SeqEqual
<1>4. LET t == Append(<<a>>, b) IN t \in Seq(S) /\ Len(t) = 2 /\ t[1] = a /\ t[2] = b
  OBVIOUS
<1>5. LET t == <<a>> \o <<b>> IN t \in Seq(S) /\ Len(t) = 2 /\ t[1] = a /\ t[2] = b
  OBVIOUS
<1> QED  BY <1>3, <1>4, <1>5 DEF s

\* An arrival is put on a clock that nothing feeds.
LEMMA ArrivalScheduled ==
    ASSUME NEW t \in Nat, NEW u, InOrder(u, t), Feeding(u) = 0, Arriving(u) = 0,
           NEW a \in EventType, a.what = "arrive", a.at = t, NEW v, v = Insert(u, a)
    PROVE  /\ Adds(v, u, a) /\ InOrder(v, t) /\ Feeding(v) = 0 /\ Arriving(v) = 1
           /\ Ending(v) = Ending(u) /\ Ticking(v) = Ticking(u) /\ Scalings(v) = Scalings(u)
           /\ \A i \in DOMAIN v : v[i].what = "arrive" => v[i].at <= t
<1>1. a.what \notin Feeds
  BY DEF Feeds
<1>2. Adds(v, u, a) /\ InOrder(v, t)
  BY <1>1, InsertInOrder
<1>3. /\ Feeding(v)  = Feeding(u) + 0 /\ Arriving(v) = Arriving(u) + 1
      /\ Ending(u) \in Nat /\ Ending(v) = Ending(u) + 0
      /\ Ticking(u) \in Nat /\ Ticking(v) = Ticking(u) + 0
      /\ Scalings(u) \in Nat /\ Scalings(v) = Scalings(u) + 0
  BY <1>1, <1>2, AddsCounts
<1>4. \A i \in DOMAIN v : v[i].what = "arrive" => v[i].at <= t
  <2> SUFFICES ASSUME NEW i \in DOMAIN v, v[i].what = "arrive"  PROVE v[i].at <= t
    OBVIOUS
  <2>1. v[i] = a \/ \E k \in DOMAIN u : v[i] = u[k]
    BY <1>2, AddsEvents
  <2>2. \A k \in DOMAIN u : u[k].what # "arrive"
    <3>1. u \in Seq(EventType)
      BY DEF InOrder
    <3> QED  BY <3>1, NoneArriving
  <2> QED  BY <2>1, <2>2
<1> QED  BY <1>2, <1>3, <1>4

\* What feeds the clock next comes after an arrival.
LEMMA FeedScheduled ==
    ASSUME NEW t \in Nat, NEW u, InOrder(u, t), Feeding(u) = 0,
           \A i \in DOMAIN u : u[i].what = "arrive" => u[i].at <= t,
           NEW b \in EventType, b.what \in Feeds, b.at >= t, NEW v, v = Insert(u, b)
    PROVE  /\ Adds(v, u, b) /\ InOrder(v, t) /\ Feeding(v) = 1 /\ Arriving(v) = Arriving(u)
           /\ Ending(v) = Ending(u) /\ Ticking(v) = Ticking(u) /\ Scalings(v) = Scalings(u)
<1>1. b.what # "arrive" /\ b.what # "end" /\ b.what # "tick" /\ b.what \notin {"spun_up", "scaled"}
  BY DEF Feeds
<1>2. \A i \in DOMAIN u : u[i].what = "arrive" => u[i].at <= b.at
  <2> SUFFICES ASSUME NEW i \in DOMAIN u, u[i].what = "arrive"  PROVE u[i].at <= b.at
    OBVIOUS
  <2>1. u[i] \in EventType
    BY DEF InOrder
  <2>2. u[i].at \in Nat /\ b.at \in Nat /\ u[i].at <= t
    BY <2>1 DEF EventType
  <2> QED  BY <2>2
<1>3. Adds(v, u, b) /\ InOrder(v, t)
  BY <1>1, <1>2, InsertInOrder
<1>4. /\ Feeding(v)  = Feeding(u) + 1
      /\ Arriving(u) \in Nat /\ Arriving(v) = Arriving(u) + 0
      /\ Ending(u) \in Nat /\ Ending(v) = Ending(u) + 0
      /\ Ticking(u) \in Nat /\ Ticking(v) = Ticking(u) + 0
      /\ Scalings(u) \in Nat /\ Scalings(v) = Scalings(u) + 0
  BY <1>1, <1>3, AddsCounts
<1> QED  BY <1>3, <1>4

LEMMA ArrivalTyped ==
    ASSUME NEW t \in Nat, NEW q \in RequestType, NEW a, a = RequestEvent("arrive", t, q)
    PROVE  /\ a \in EventType /\ a.what = "arrive" /\ a.at = t /\ a.request = q
BY DEF RequestEvent, EventType, Kinds

\* What a generator's event leaves says nothing of the generator.
LEMMA GeneratorLeaves ==
    ASSUME Inv, NEW what \in Feeds, NEW u, NEW e, Taken(what, u, e)
    PROVE  /\ u \in Seq(EventType) /\ InOrder(u, now') /\ now' \in Nat /\ Present = now'
           /\ e.at = now' /\ e.what = what
           /\ Feeding(u) = 0 /\ Arriving(u) = 0
           /\ FileOK(u, gen, arrivals)
           /\ \A g : \A i \in DOMAIN u : EventOK(u[i], g, TickTime(ticks + 1))
<1>1. /\ InOrder(u, now') /\ u \in Seq(EventType) /\ now' \in Nat /\ Present = now'
      /\ e.at = now' /\ e.what = what /\ Adds(agenda, u, e)
      /\ \A i \in DOMAIN u : EventOK(u[i], gen, TickTime(ticks + 1))
  BY DEF Taken, InOrder
<1>2. Feeding(u) = 0 /\ Arriving(u) = 0
  BY LeftCounts
<1>3. \A i \in DOMAIN u : u[i].what # "arrive" /\ u[i].what \notin Feeds
  BY <1>1, <1>2, NoneArriving
<1>4. ASSUME NEW g, NEW i \in DOMAIN u
      PROVE  EventOK(u[i], g, TickTime(ticks + 1))
  BY <1>1, <1>3, EventOfOthers
<1>5. FileOK(u, gen, arrivals)
  <2>1. e.what # "arrive"
    BY <1>1 DEF Feeds
  <2>2. SameArrivals(u, agenda)
    BY <1>1, <2>1, AddsSameArrivals
  <2> QED  BY <2>2, FileKeeps DEF Inv
<1> QED  BY <1>1, <1>2, <1>4, <1>5

LEMMA DispatchNextKeeps ==
    ASSUME Inv, DispatchNext
    PROVE  Inv'
<1> DEFINE n == gen.current + 1
           r == gen.requests[n]
           b == NextDispatch(gen.requests, n)
           g == [gen EXCEPT !.current = n, !.active = n < Len(gen.requests)]
           q == [id |-> r.id, type |-> r.type, document |-> r.document, given |-> r.given]
           a == RequestEvent("arrive", NotBefore(r.time), q)
<1>1. UNCHANGED <<running, first, ticks, agents, coll, index, arrivals>>
  BY DEF DispatchNext
<1>2. \/ /\ ~gen.active \/ gen.current >= Len(gen.requests)
         /\ Handle("dispatch", <<>>)
      \/ Handle("dispatch", Append(Dispatched(r), b)) /\ gen' = g
  BY DEF DispatchNext
<1>3. gen.current \in Nat /\ gen.requests \in Seq(Descriptor) /\ gen.kind \in {"loaded", "poisson"}
  BY DEF Inv, GenOK, GenType
<1>4. "dispatch" \in Feeds
  BY DEF Feeds
<1>5. CASE /\ ~gen.active \/ gen.current >= Len(gen.requests)
           /\ Handle("dispatch", <<>>)
  <2>1. PICK u, e : Taken("dispatch", u, e)
    BY <1>5, HandleTakes
  <2>2. gen.active /\ n \in 1..Len(gen.requests)
    <3>1. Dispatching(n, r, b, g)
      BY DEF Dispatching
    <3> HIDE DEF n, r, b, g
    <3> QED  BY <2>1, <3>1, DispatchSchedules
  <2>3. ~(gen.current >= Len(gen.requests))
    BY <1>3, <2>2
  <2> QED  BY <1>5, <2>2, <2>3
<1>6. CASE Handle("dispatch", Append(Dispatched(r), b)) /\ gen' = g
  <2>1. PICK u, e : /\ Taken("dispatch", u, e)
                    /\ agenda' = InsertAll(u, Append(Dispatched(r), b))
    BY <1>6, HandleTakes
  <2>2. n = gen.current + 1 /\ r = gen.requests[n] /\ b = NextDispatch(gen.requests, n)
        /\ g = [gen EXCEPT !.current = n, !.active = n < Len(gen.requests)]
    OBVIOUS
  <2>13. /\ a = RequestEvent("arrive", NotBefore(r.time), q)
         /\ q = [id |-> r.id, type |-> r.type, document |-> r.document, given |-> r.given]
    OBVIOUS
  <2>3. Dispatched(r) = IF ~r.known THEN <<>> ELSE <<a>>
    BY DEF Dispatched
  <2>14. Dispatching(n, r, b, g)
    BY DEF Dispatching
  <2> HIDE DEF n, r, b, g, q, a
  <2>4. /\ gen.kind = "loaded" /\ n \in 1..Len(gen.requests) /\ n \in Nat
        /\ r \in Descriptor /\ r.id = n /\ NotBefore(r.time) = e.at /\ Latest(e.at, gen.requests, n)
        /\ GenOK(g) /\ g.kind = gen.kind /\ g.requests = gen.requests /\ g.current = n
        /\ g.has_rate = gen.has_rate /\ g.has_index = gen.has_index
        /\ b \in EventType /\ b.what \in Feeds /\ b.at \in Nat /\ b.at >= e.at
        /\ EventOK(b, g, TickTime(ticks + 1))
    <3>1. Taken("dispatch", u, e)
      BY <2>1
    <3> QED  BY <2>14, <3>1, DispatchSchedules
  <2>5. /\ u \in Seq(EventType) /\ InOrder(u, now') /\ now' \in Nat /\ e.at = now'
        /\ Feeding(u) = 0 /\ Arriving(u) = 0 /\ FileOK(u, gen, arrivals)
        /\ \A i \in DOMAIN u : EventOK(u[i], g, TickTime(ticks + 1))
    BY <1>4, <2>1, GeneratorLeaves
  <2>6. /\ a \in EventType /\ a.what = "arrive" /\ a.at = now'
        /\ a.request.id = n
    <3>1. r.id \in Nat /\ r.type \in RequestTypes /\ r.document \in Int /\ r.given \in Seq(Int)
      BY <2>4 DEF Descriptor
    <3>2. q \in RequestType /\ q.id = r.id
      BY <2>13, <3>1 DEF RequestType
    <3>3. a = RequestEvent("arrive", now', q)
      BY <2>4, <2>5, <2>13
    <3>4. a \in EventType /\ a.what = "arrive" /\ a.at = now' /\ a.request = q
      BY <2>5, <3>2, <3>3, ArrivalTyped
    <3> QED  BY <2>4, <3>2, <3>4
  <2>7. r.known => EventOK(a, g, TickTime(ticks + 1))
    BY <2>2, <2>4, <2>5, <2>6 DEF EventOK
  <2>8. PICK v : /\ InOrder(v, now') /\ Feeding(v) = 0 /\ Arriving(v) <= 1
                 /\ Ending(v) = Ending(u) /\ Ticking(v) = Ticking(u) /\ Scalings(v) = Scalings(u)
                 /\ \A i \in DOMAIN v : v[i].what = "arrive" => v[i].at <= now'
                 /\ \A i \in DOMAIN v : EventOK(v[i], g, TickTime(ticks + 1))
                 /\ r.known => \E i \in DOMAIN v : v[i] = a
                 /\ agenda' = Insert(v, b)
    <3>1. CASE ~r.known
      <4>1. agenda' = Insert(u, b)
        <5>1. Append(<<>>, b) = <<b>>
          OBVIOUS
        <5> QED  BY <2>1, <2>3, <3>1, <5>1, InsertOne
      <4>2. \A i \in DOMAIN u : u[i].what # "arrive"
        BY <2>5, NoneArriving
      <4> QED  BY <2>5, <3>1, <4>1, <4>2
    <3>2. CASE r.known
      <4> DEFINE v == Insert(u, a)
      <4>1. agenda' = Insert(v, b)
        <5>1. Append(<<a>>, b) = <<a, b>>
          BY <2>4, <2>6, Pair
        <5>2. agenda' = InsertAll(u, <<a, b>>)
          BY <2>1, <2>3, <3>2, <5>1
        <5> QED  BY <5>2, InsertTwo
      <4>2. v = Insert(u, a)
        OBVIOUS
      <4> HIDE DEF v
      <4>3. /\ Adds(v, u, a) /\ InOrder(v, now') /\ Feeding(v) = 0 /\ Arriving(v) = 1
            /\ Ending(v) = Ending(u) /\ Ticking(v) = Ticking(u) /\ Scalings(v) = Scalings(u)
            /\ \A i \in DOMAIN v : v[i].what = "arrive" => v[i].at <= now'
        BY <2>5, <2>6, <4>2, ArrivalScheduled
      <4>4. ASSUME NEW i \in DOMAIN v  PROVE EventOK(v[i], g, TickTime(ticks + 1))
        <5>1. v[i] = a \/ \E k \in DOMAIN u : v[i] = u[k]
          BY <4>3, AddsEvents
        <5> QED  BY <2>5, <2>7, <3>2, <5>1
      <4>5. \E i \in DOMAIN v : v[i] = a
        BY <4>3, AddsEvents
      <4>6. Arriving(v) <= 1
        BY <4>3
      <4> QED  BY <4>1, <4>3, <4>4, <4>5, <4>6
    <3> QED  BY <3>1, <3>2
  <2>9. /\ Adds(agenda', v, b) /\ InOrder(agenda', now') /\ Feeding(agenda') = 1
        /\ Arriving(agenda') = Arriving(v)
        /\ Ending(agenda') = Ending(u) /\ Ticking(agenda') = Ticking(u)
        /\ Scalings(agenda') = Scalings(u)
    BY <2>4, <2>5, <2>8, FeedScheduled
  <2>10. \A i \in DOMAIN agenda' : EventOK(agenda'[i], gen', TickTime(ticks + 1))
    <3> SUFFICES ASSUME NEW i \in DOMAIN agenda'
                 PROVE  EventOK(agenda'[i], g, TickTime(ticks + 1))
      BY <1>6
    <3>1. agenda'[i] = b \/ \E k \in DOMAIN v : agenda'[i] = v[k]
      BY <2>9, AddsEvents
    <3> QED  BY <2>4, <2>8, <3>1
  <2>11. FileOK(agenda', gen', arrivals)
    <3>1. gen.requests[g.current].known =>
            \E i \in DOMAIN agenda' :
               agenda'[i].what = "arrive" /\ agenda'[i].request.id = g.current
      <4> SUFFICES ASSUME r.known
                   PROVE  \E i \in DOMAIN agenda' : agenda'[i].what = "arrive" /\ agenda'[i].request.id = n
        BY <2>2, <2>4
      <4>1. PICK k \in DOMAIN v : v[k] = a
        BY <2>8
      <4>2. \E i \in DOMAIN agenda' : agenda'[i] = v[k]
        BY <2>9, AddsEvents
      <4> QED  BY <2>6, <4>1, <4>2
    <3> QED  BY <1>3, <1>6, <2>2, <2>4, <2>5, <3>1, FileGrows
  <2>12. Feeding(agenda') <= 1 /\ Arriving(agenda') <= 1
    BY <2>8, <2>9
  <2> QED  BY <1>1, <1>4, <1>6, <2>1, <2>4, <2>9, <2>10, <2>11, <2>12, GeneratorStep
<1> HIDE DEF n, r, b, g, q, a
<1> QED  BY <1>2, <1>5, <1>6

\* A Poisson process counts its requests, and has no file.
LEMMA PoissonCounts ==
    ASSUME Inv, gen.kind = "poisson", NEW g, g = [gen EXCEPT !.current = @ + 1]
    PROVE  /\ GenOK(g) /\ g.kind = gen.kind /\ g.requests = gen.requests
           /\ g.current = gen.current + 1 /\ g.current \in Nat
           /\ g.has_rate = gen.has_rate /\ g.has_index = gen.has_index
           /\ \A v : FileOK(v, g, arrivals)
<1>1. gen \in GenType /\ gen.requests = <<>> /\ gen.current \in Nat
  BY DEF Inv, GenOK, GenType
<1>2. /\ g \in GenType /\ g.kind = gen.kind /\ g.requests = gen.requests
      /\ g.current = gen.current + 1 /\ g.current \in Nat
      /\ g.has_rate = gen.has_rate /\ g.has_index = gen.has_index
  BY <1>1 DEF GenType
<1>3. GenOK(g)
  BY <1>1, <1>2 DEF GenOK
<1>4. \A v : FileOK(v, g, arrivals)
  BY <1>2 DEF FileOK
<1> QED  BY <1>2, <1>3, <1>4

LEMMA PoissonNextKeeps ==
    ASSUME Inv, PoissonNext
    PROVE  Inv'
<1>1. UNCHANGED <<running, first, ticks, agents, coll, index, arrivals>>
      /\ gen' = [gen EXCEPT !.current = @ + 1]
  BY DEF PoissonNext
<1>2. \/ ~gen.has_index /\ Handle("poisson", <<>>)
      \/ \E type \in {"GET", "PUT", "SEARCH"}, d \in Documents, gap \in Gaps :
           Handle("poisson",
              <<RequestEvent("arrive", Present,
                  [ id |-> gen.current + 1, type |-> type, given |-> <<>>,
                    document |-> IF type = "SEARCH" THEN 0 ELSE d ])>>
                \o NextGap(gen, gap, Present))
  BY DEF PoissonNext
<1>3. "poisson" \in Feeds
  BY DEF Feeds
<1>4. ASSUME NEW u, NEW e, Taken("poisson", u, e)
      PROVE  /\ u \in Seq(EventType) /\ InOrder(u, now') /\ now' \in Nat /\ Present = now'
             /\ Feeding(u) = 0 /\ Arriving(u) = 0
             /\ \A i \in DOMAIN u : EventOK(u[i], gen', TickTime(ticks + 1))
             /\ gen.kind = "poisson"
             /\ GenOK(gen') /\ gen'.kind = gen.kind /\ gen'.requests = gen.requests
             /\ gen'.current = gen.current + 1 /\ gen'.current \in Nat
             /\ gen'.has_rate = gen.has_rate /\ gen'.has_index = gen.has_index
             /\ \A v : FileOK(v, gen', arrivals)
  <2>1. gen.kind = "poisson"
    BY <1>4 DEF Taken, EventOK
  <2> QED  BY <1>1, <1>3, <1>4, <2>1, GeneratorLeaves, PoissonCounts
<1>5. CASE ~gen.has_index /\ Handle("poisson", <<>>)
  <2>1. PICK u, e : Taken("poisson", u, e) /\ agenda' = u
    <3>1. PICK u, e : Taken("poisson", u, e) /\ agenda' = InsertAll(u, <<>>)
      BY <1>5, HandleTakes
    <3> QED  BY <3>1, InsertNone
  <2>2. ~Fed
    BY <1>4, <1>5, <2>1 DEF Fed, IsLoaded
  <2>3. Feeding(u) <= 1 /\ Arriving(u) <= 1
    BY <1>4, <2>1
  <2> QED  BY <1>1, <1>3, <1>4, <2>1, <2>2, <2>3, GeneratorStep
<1>6. ASSUME NEW type \in {"GET", "PUT", "SEARCH"}, NEW d \in Documents, NEW gap \in Gaps,
             NEW a, a = RequestEvent("arrive", Present,
                          [ id |-> gen.current + 1, type |-> type,
                            document |-> IF type = "SEARCH" THEN 0 ELSE d, given |-> <<>> ]),
             Handle("poisson", <<a>> \o NextGap(gen, gap, Present))
      PROVE  Inv'
  <2>1. PICK u, e : /\ Taken("poisson", u, e)
                    /\ agenda' = InsertAll(u, <<a>> \o NextGap(gen, gap, Present))
    BY <1>6, HandleTakes
  <2>2. /\ u \in Seq(EventType) /\ InOrder(u, now') /\ now' \in Nat /\ Present = now'
        /\ Feeding(u) = 0 /\ Arriving(u) = 0
        /\ \A i \in DOMAIN u : EventOK(u[i], gen', TickTime(ticks + 1))
        /\ gen'.kind = "poisson" /\ gen.kind = "poisson"
        /\ gen'.current = gen.current + 1 /\ gen'.current \in Nat
    BY <1>4, <2>1
  <2>3. /\ a \in EventType /\ a.what = "arrive" /\ a.at = now'
        /\ a.request.id = gen'.current
    <3>1. type \in RequestTypes
      BY DEF RequestTypes
    <3>4. <<>> \in Seq(Int)
      OBVIOUS
    <3>2. (IF type = "SEARCH" THEN 0 ELSE d) \in Int
      <4>1. Documents \subseteq Int
        BY SimulationAssumption
      <4> QED  BY <4>1
    <3> DEFINE q == [ id |-> gen.current + 1, type |-> type,
                      document |-> IF type = "SEARCH" THEN 0 ELSE d, given |-> <<>> ]
    <3>3. q \in RequestType /\ q.id = gen'.current
      BY <2>2, <3>1, <3>2, <3>4 DEF RequestType
    <3>5. a = RequestEvent("arrive", now', q)
      BY <1>6, <2>2
    <3> HIDE DEF q
    <3> QED  BY <2>2, <3>3, <3>5, ArrivalTyped
  <2>4. EventOK(a, gen', TickTime(ticks + 1))
    BY <2>2, <2>3 DEF EventOK
  <2> DEFINE v == Insert(u, a)
  <2>5. /\ Adds(v, u, a) /\ InOrder(v, now') /\ Feeding(v) = 0 /\ Arriving(v) = 1
        /\ Ending(v) = Ending(u) /\ Ticking(v) = Ticking(u) /\ Scalings(v) = Scalings(u)
        /\ \A i \in DOMAIN v : v[i].what = "arrive" => v[i].at <= now'
    BY <2>2, <2>3, ArrivalScheduled
  <2>6. \A i \in DOMAIN v : EventOK(v[i], gen', TickTime(ticks + 1))
    <3> HIDE DEF v
    <3> SUFFICES ASSUME NEW i \in DOMAIN v  PROVE EventOK(v[i], gen', TickTime(ticks + 1))
      OBVIOUS
    <3>1. v[i] = a \/ \E k \in DOMAIN u : v[i] = u[k]
      BY <2>5, AddsEvents
    <3> QED  BY <2>2, <2>4, <3>1
  <2>7. v = Insert(u, a)
    OBVIOUS
  <2> HIDE DEF v
  <2>8. CASE ~gen.has_rate
    <3>1. agenda' = v
      <4>1. <<a>> \o <<>> = <<a>>
        OBVIOUS
      <4>2. NextGap(gen, gap, Present) = <<>>
        BY <2>8 DEF NextGap
      <4> QED  BY <2>1, <2>7, <4>1, <4>2, InsertOne
    <3>2. ~Fed
      BY <2>2, <2>8 DEF Fed, IsLoaded
    <3>3. Feeding(v) <= 1 /\ Arriving(v) <= 1
      BY <2>5
    <3>4. /\ GenOK(gen') /\ gen'.kind = gen.kind /\ gen'.requests = gen.requests
          /\ gen'.has_rate = gen.has_rate /\ gen'.has_index = gen.has_index
          /\ FileOK(v, gen', arrivals)
      BY <1>4, <2>1
    <3> QED  BY <1>1, <1>3, <2>1, <2>5, <2>6, <3>1, <3>2, <3>3, <3>4, GeneratorStep
  <2>9. CASE gen.has_rate
    <3> DEFINE b == Event("poisson", Present + gap)
    <3>1. NextGap(gen, gap, Present) = <<b>>
      BY <2>9 DEF NextGap
    <3>2. b \in EventType /\ b.what = "poisson" /\ b.at \in Nat /\ b.at >= now'
      <4>1. gap \in Nat
        BY SimulationAssumption
      <4>2. Present + gap \in Nat /\ Present + gap >= now'
        BY <2>2, <4>1, DelayIsLater
      <4>3. "poisson" \in Kinds
        BY DEF Kinds
      <4> QED  BY <4>2, <4>3, EventTyped
    <3> HIDE DEF b
    <3>8. agenda' = Insert(v, b)
      <4>1. <<a>> \o <<b>> = <<a, b>>
        BY <2>3, <3>2, Pair
      <4>2. agenda' = InsertAll(u, <<a, b>>)
        BY <2>1, <3>1, <4>1
      <4> QED  BY <2>7, <4>2, InsertTwo
    <3>3. /\ Adds(agenda', v, b) /\ InOrder(agenda', now') /\ Feeding(agenda') = 1
          /\ Arriving(agenda') = Arriving(v)
          /\ Ending(agenda') = Ending(v) /\ Ticking(agenda') = Ticking(v)
          /\ Scalings(agenda') = Scalings(v)
      BY <1>3, <2>2, <2>5, <3>2, <3>8, FeedScheduled
    <3>4. \A i \in DOMAIN agenda' : EventOK(agenda'[i], gen', TickTime(ticks + 1))
      <4> SUFFICES ASSUME NEW i \in DOMAIN agenda'
                   PROVE  EventOK(agenda'[i], gen', TickTime(ticks + 1))
        OBVIOUS
      <4>1. agenda'[i] = b \/ \E k \in DOMAIN v : agenda'[i] = v[k]
        BY <3>3, AddsEvents
      <4>2. EventOK(b, gen', TickTime(ticks + 1))
        BY <2>2, <3>2 DEF EventOK
      <4> QED  BY <2>6, <4>1, <4>2
    <3>5. Feeding(agenda') <= 1 /\ Arriving(agenda') <= 1
      BY <2>5, <3>3
    <3>6. /\ GenOK(gen') /\ gen'.kind = gen.kind /\ gen'.requests = gen.requests
          /\ gen'.has_rate = gen.has_rate /\ gen'.has_index = gen.has_index
          /\ FileOK(agenda', gen', arrivals)
      BY <1>4, <2>1
    <3>7. Ending(agenda') = Ending(u) /\ Ticking(agenda') = Ticking(u)
          /\ Scalings(agenda') = Scalings(u)
      BY <2>5, <3>3
    <3> QED  BY <1>1, <1>3, <2>1, <3>3, <3>4, <3>5, <3>6, <3>7, GeneratorStep
  <2> QED  BY <2>8, <2>9
<1>7. ASSUME NEW type \in {"GET", "PUT", "SEARCH"}, NEW d \in Documents, NEW gap \in Gaps,
             Handle("poisson",
              <<RequestEvent("arrive", Present,
                  [ id |-> gen.current + 1, type |-> type, given |-> <<>>,
                    document |-> IF type = "SEARCH" THEN 0 ELSE d ])>>
                \o NextGap(gen, gap, Present))
      PROVE  Inv'
  BY <1>6, <1>7
<1> QED  BY <1>2, <1>5, <1>7

-----------------------------------------------------------------------------
(* The agents.                                                             *)

\* Where a loop's turns lead from D[n - 1] to D[n], its values are in these sets.
LEMMA RunStays ==
    ASSUME NEW k \in Nat, NEW D, NEW F, NEW f, f[0] \in D[0],
           \A n \in 1..k : \A x \in D[n - 1] : F[<<n, x>>] \in D[n],
           \A n \in 1..k : f[n - 1] \in D[n - 1] => f[n] = F[<<n, f[n - 1]>>]
    PROVE  \A n \in 0..k : f[n] \in D[n]
<1> DEFINE S == {n \in 0..k : f[n] \in D[n]}
<1>1. 0 \in S
  <2>1. 0 \in 0..k
    OBVIOUS
  <2> QED  BY <2>1
<1>2. ASSUME NEW n \in 1..k, n - 1 \in S  PROVE n \in S
  <2>1. n \in 0..k /\ f[n - 1] \in D[n - 1]
    BY <1>2
  <2>2. f[n] = F[<<n, f[n - 1]>>] /\ F[<<n, f[n - 1]>>] \in D[n]
    BY <2>1
  <2> QED  BY <2>1, <2>2
<1>3. \A n \in 0..k : n \in S
  <2> HIDE DEF S
  <2> QED  BY <1>1, <1>2, UpTo
<1> QED  BY <1>3

WorldType == [coll : CollType, started : {0, 1}, stopped : BOOLEAN]

\* From c on, at most one scaling has been taken on, and only if none was under way.
WorldOK(w, c) ==
    /\ w \in WorldType /\ CollOK(w.coll)
    /\ \/ w.started = 0 /\ w.coll = c
       \/ w.started = 1 /\ c.steady /\ ~w.coll.steady

\* A scaling is taken on, or nothing changes.
Scales(d, c) == d = c \/ (CollOK(d) /\ c.steady /\ ~d.steady)

LEMMA ScaleToKeeps ==
    ASSUME NEW c, CollOK(c), NEW num \in Int, NEW half \in Int
    PROVE  Scales(ScaleTo(c, num, half), c)
<1> DEFINE d == ScaleTo(c, num, half)
<1>1. CASE ~Accepts(c, num, half)
  BY <1>1 DEF ScaleTo, Scales
<1>2. CASE Accepts(c, num, half)
  <2>1. c.steady /\ num >= 1 /\ half >= 1
    BY <1>2 DEF Accepts
  <2>2. c.num_workers \in Nat \ {0}
    BY DEF CollOK, CollType
  <2>3. c.num_workers + num \in Nat \ {0} /\ num \in Nat \ {0} /\ half \in Nat \ {0}
        /\ num > 0 /\ c.num_workers + num > num
    BY <2>1, <2>2
  <2>4. d = [ num_workers |-> c.num_workers + num, half_ocus |-> half,
              steady |-> FALSE, target |-> num ]
    BY <1>2 DEF ScaleTo
  <2> HIDE DEF d
  <2>5. d \in CollType /\ d.num_workers = c.num_workers + num /\ d.target = num /\ d.steady = FALSE
    BY <2>3, <2>4 DEF CollType
  <2>6. CollOK(d) /\ ~d.steady
    BY <2>3, <2>5 DEF CollOK
  <2> QED  BY <2>1, <2>6 DEF Scales, d
<1> QED  BY <1>1, <1>2

LEMMA AskedKeeps ==
    ASSUME NEW c, CollOK(c), NEW a \in Actions
    PROVE  Scales(Asked(c, a), c)
<1>1. a.action \in ActionTypes /\ a.count \in Int /\ a.half_ocus \in Int
  BY DEF Actions
<1>2. c.num_workers \in Int /\ c.half_ocus \in Int
  BY DEF CollOK, CollType
<1>3. /\ c.half_ocus + a.count \in Int /\ c.half_ocus - a.count \in Int
      /\ c.num_workers + a.count \in Int /\ c.num_workers - a.count \in Int
  BY <1>1, <1>2
<1>4. CASE a.action = "ScaleUp"
  <2>1. Asked(c, a) = ScaleTo(c, c.num_workers, c.half_ocus + a.count)
    BY <1>4 DEF Asked
  <2> QED  BY <1>2, <1>3, <2>1, ScaleToKeeps
<1>5. CASE a.action = "ScaleDown"
  <2>1. Asked(c, a) = ScaleTo(c, c.num_workers, c.half_ocus - a.count)
    BY <1>5 DEF Asked
  <2> QED  BY <1>2, <1>3, <2>1, ScaleToKeeps
<1>6. CASE a.action = "ScaleOut"
  <2>1. Asked(c, a) = ScaleTo(c, c.num_workers + a.count, c.half_ocus)
    BY <1>6 DEF Asked
  <2> QED  BY <1>2, <1>3, <2>1, ScaleToKeeps
<1>7. CASE a.action = "ScaleIn"
  <2>1. Asked(c, a) = ScaleTo(c, c.num_workers - a.count, c.half_ocus)
    BY <1>7 DEF Asked
  <2> QED  BY <1>2, <1>3, <2>1, ScaleToKeeps
<1>8. CASE a.action = "ScaleTo"
  <2>1. Asked(c, a) = ScaleTo(c, a.count, a.half_ocus)
    BY <1>8 DEF Asked
  <2> QED  BY <1>1, <2>1, ScaleToKeeps
<1>9. CASE a.action = "ShutDown"
  <2>1. Asked(c, a) = c
    BY <1>9 DEF Asked
  <2> QED  BY <2>1 DEF Scales
<1> QED  BY <1>1, <1>4, <1>5, <1>6, <1>7, <1>8, <1>9 DEF ActionTypes

\* The clock is stopped by an action that says so.
LEMMA AffectKeeps ==
    ASSUME NEW w, NEW c, WorldOK(w, c), NEW a \in Actions, NEW v, v = Affect(w, a)
    PROVE  WorldOK(v, c) /\ (v.stopped => w.stopped \/ a.action = "ShutDown")
<1> DEFINE d == Asked(w.coll, a)
<1>1. w \in WorldType /\ CollOK(w.coll) /\ w.stopped \in BOOLEAN
  BY DEF WorldOK, WorldType
<1>2. Scales(d, w.coll)
  BY <1>1, AskedKeeps
<1>3. v = [ coll |-> d, started |-> w.started + IF d # w.coll THEN 1 ELSE 0,
            stopped |-> w.stopped \/ a.action = "ShutDown" ]
  BY DEF Affect
<1> HIDE DEF d
<1>4. (w.stopped \/ a.action = "ShutDown") \in BOOLEAN
  OBVIOUS
<1>5. CASE d = w.coll
  <2>1. w.started + 0 = w.started /\ w.started \in {0, 1}
    BY <1>1 DEF WorldType
  <2>2. v = [ coll |-> w.coll, started |-> w.started,
              stopped |-> w.stopped \/ a.action = "ShutDown" ]
    BY <1>3, <1>5, <2>1
  <2>3. v \in WorldType /\ v.coll = w.coll /\ v.started = w.started
        /\ v.stopped = (w.stopped \/ a.action = "ShutDown")
    BY <1>1, <1>4, <2>1, <2>2 DEF WorldType
  <2> QED  BY <1>1, <2>3 DEF WorldOK
<1>6. CASE d # w.coll
  <2>1. CollOK(d) /\ w.coll.steady /\ ~d.steady
    BY <1>2, <1>6 DEF Scales
  <2>2. w.started = 0 /\ w.coll = c
    BY <2>1 DEF WorldOK
  <2>3. v = [ coll |-> d, started |-> 1, stopped |-> w.stopped \/ a.action = "ShutDown" ]
    BY <1>3, <1>6, <2>2
  <2>4. d \in CollType
    BY <2>1 DEF CollOK
  <2>5. v \in WorldType /\ v.coll = d /\ v.started = 1
        /\ v.stopped = (w.stopped \/ a.action = "ShutDown")
    BY <1>4, <2>3, <2>4 DEF WorldType
  <2> QED  BY <2>1, <2>2, <2>5 DEF WorldOK
<1> QED  BY <1>5, <1>6

\* Taking an action counts it.
LEMMA TakeCounts ==
    ASSUME NEW g \in AgentType, Counted(g), NEW a \in Actions, NEW h, h = Take(g, a)
    PROVE  /\ h \in AgentType /\ Counted(h)
           /\ h.kind = g.kind /\ h.actions = g.actions /\ h.taken = Append(g.taken, a)
<1> DEFINE x == [g EXCEPT !.counts[a.action] = @ + 1]
<1>1. /\ g.taken \in Seq(Actions) /\ g.counts \in [ActionTypes -> Nat]
      /\ g.reported \in [ActionTypes -> Nat] /\ a.action \in ActionTypes
  BY DEF AgentType, Actions
<1>2. /\ x \in AgentType /\ x.kind = g.kind /\ x.actions = g.actions /\ x.taken = g.taken
      /\ x.reported = g.reported /\ x.counts = [g.counts EXCEPT ![a.action] = @ + 1]
  <2>1. [g.counts EXCEPT ![a.action] = @ + 1] \in [ActionTypes -> Nat]
    BY <1>1
  <2>2. x = [g EXCEPT !.counts = [g.counts EXCEPT ![a.action] = @ + 1]]
    OBVIOUS
  <2> HIDE DEF x
  <2> QED  BY <2>1, <2>2 DEF AgentType
<1>3. h = [x EXCEPT !.taken = Append(g.taken, a)]
  BY DEF Take, AgentType
<1> HIDE DEF x
<1> DEFINE s == g.taken
           u == Append(s, a)
<1>4. /\ u \in Seq(Actions) /\ Len(u) = Len(s) + 1 /\ u[Len(s) + 1] = a
      /\ DOMAIN s = 1..Len(s) /\ DOMAIN u = 1..(Len(s) + 1) /\ Len(s) \in Nat
      /\ \A n \in DOMAIN s : u[n] = s[n]
  BY <1>1
<1>5. /\ h \in AgentType /\ h.kind = g.kind /\ h.actions = g.actions /\ h.taken = u
      /\ h.reported = g.reported /\ h.counts = [g.counts EXCEPT ![a.action] = @ + 1]
  BY <1>2, <1>3, <1>4 DEF AgentType
<1> HIDE DEF s, u
<1>6. ASSUME NEW t \in ActionTypes
      PROVE  h.counts[t] + h.reported[t] = Cardinality({n \in DOMAIN h.taken : h.taken[n].action = t})
  <2> DEFINE T == {n \in DOMAIN s : s[n].action = t}
             U == {n \in DOMAIN u : u[n].action = t}
  <2>1. g.counts[t] + g.reported[t] = Cardinality(T) /\ g.counts[t] \in Nat /\ g.reported[t] \in Nat
    BY <1>1 DEF Counted, s
  <2>2. IsFiniteSet(T) /\ Len(s) + 1 \notin T
    <3>1. T \subseteq 1..Len(s) /\ IsFiniteSet(1..Len(s)) /\ Len(s) + 1 \notin 1..Len(s)
      BY <1>4, FS_Interval
    <3> QED  BY <3>1, FS_Subset
  <2>3. CASE t = a.action
    <3>1. U = T \cup {Len(s) + 1}
      BY <1>4, <2>3
    <3>2. Cardinality(U) = Cardinality(T) + 1
      <4> HIDE DEF T, U
      <4> QED  BY <2>2, <3>1, FS_AddElement
    <3>3. h.counts[t] = g.counts[t] + 1 /\ h.reported[t] = g.reported[t]
      BY <1>1, <1>5, <2>3
    <3> HIDE DEF T
    <3>4. h.counts[t] + h.reported[t] = Cardinality(U)
      BY <2>1, <3>2, <3>3
    <3> QED  BY <1>5, <3>4
  <2>4. CASE t # a.action
    <3>1. U = T
      BY <1>4, <2>4
    <3>2. h.counts[t] = g.counts[t] /\ h.reported[t] = g.reported[t]
      BY <1>1, <1>5, <2>4
    <3> HIDE DEF T
    <3>3. h.counts[t] + h.reported[t] = Cardinality(U)
      BY <2>1, <3>1, <3>2
    <3> QED  BY <1>5, <3>3
  <2> QED  BY <2>3, <2>4
<1>7. Counted(h)
  BY <1>6 DEF Counted
<1> QED  BY <1>5, <1>7 DEF s, u

\* Moving the last item to the place of the i-th drops the i-th and no other.
LEMMA DropActionDrops ==
    ASSUME NEW s \in Seq(Actions), NEW i \in 1..Len(s), NEW d, d = DropAction(s, i)
    PROVE  /\ d \in Seq(Actions) /\ Len(d) = Len(s) - 1
           /\ \A k \in 1..Len(d) : d[k] = s[IF k = i THEN Len(s) ELSE k]
<1> DEFINE x == [s EXCEPT ![i] = Last(s)]
<1>1. Len(s) \in Nat \ {0} /\ Last(s) = s[Len(s)] /\ Last(s) \in Actions
  BY DEF Last
<1>2. /\ x \in Seq(Actions) /\ Len(x) = Len(s)
      /\ \A k \in 1..Len(s) : x[k] = s[IF k = i THEN Len(s) ELSE k]
  <2>1. /\ x \in Seq(Actions) /\ Len(x) = Len(s)
        /\ \A k \in 1..Len(s) : x[k] = IF k = i THEN Last(s) ELSE s[k]
    BY <1>1, ExceptSeq
  <2> QED  BY <1>1, <2>1
<1>3. d = SubSeq(x, 1, Len(x) - 1)
  BY DEF DropAction, Front
<1> HIDE DEF x
<1>4. Len(d) = Len(s) - 1 /\ d \in Seq(Actions) /\ \A k \in 1..(Len(s) - 1) : d[k] = x[k]
  BY <1>1, <1>2, <1>3
<1>5. \A k \in 1..Len(d) : d[k] = s[IF k = i THEN Len(s) ELSE k]
  <2> TAKE k \in 1..Len(d)
  <2>1. k \in 1..(Len(s) - 1) /\ k \in 1..Len(s)
    BY <1>1, <1>4
  <2> QED  BY <1>2, <1>4, <2>1
<1> QED  BY <1>4, <1>5

\* What is taken is no longer scheduled, and everything else is as before.
LEMMA TakenApart ==
    ASSUME NEW g \in AgentType, Apart(g), NEW i \in 1..Len(g.actions), NEW a, a = g.actions[i],
           NEW h, h.taken = Append(g.taken, a), h.actions = DropAction(g.actions, i)
    PROVE  Apart(h)
<1> DEFINE s == g.actions
           d == h.actions
           t == g.taken
           u == h.taken
<1>1. s \in Seq(Actions) /\ t \in Seq(Actions) /\ a \in Actions /\ Len(s) \in Nat
  BY DEF AgentType
<1>2. /\ d \in Seq(Actions) /\ Len(d) = Len(s) - 1
      /\ \A k \in 1..Len(d) : d[k] = s[IF k = i THEN Len(s) ELSE k]
  <2>1. d = DropAction(s, i) /\ i \in 1..Len(s)
    OBVIOUS
  <2> HIDE DEF s, d
  <2> QED  BY <1>1, <2>1, DropActionDrops
<1>3. /\ u \in Seq(Actions) /\ Len(u) = Len(t) + 1 /\ u[Len(t) + 1] = a /\ Len(t) \in Nat
      /\ \A k \in 1..Len(t) : u[k] = t[k]
  BY <1>1
<1>4. /\ \A m, n \in 1..Len(t) : t[m] = t[n] => m = n
      /\ \A m, n \in 1..Len(s) : s[m] = s[n] => m = n
      /\ \A m \in 1..Len(t), n \in 1..Len(s) : t[m] # s[n]
      /\ a = s[i] /\ i \in 1..Len(s)
  <2>1. /\ NoRepeats(t) /\ NoRepeats(s) /\ Elements(t) \cap Elements(s) = {}
        /\ a = s[i] /\ i \in 1..Len(s)
    BY DEF Apart
  <2> HIDE DEF s, t
  <2>2. \A m \in 1..Len(t), n \in 1..Len(s) : t[m] \in Elements(t) /\ s[n] \in Elements(s)
    BY DEF Elements
  <2> QED  BY <2>1, <2>2 DEF NoRepeats
<1> HIDE DEF s, t, d, u
<1>5. ASSUME NEW k \in 1..Len(d)
      PROVE  \E m \in 1..Len(s) : d[k] = s[m] /\ m # i /\ m = IF k = i THEN Len(s) ELSE k
  <2>1. (IF k = i THEN Len(s) ELSE k) \in 1..Len(s) /\ (IF k = i THEN Len(s) ELSE k) # i
    BY <1>1, <1>2
  <2> QED  BY <1>2, <2>1
<1>6. NoRepeats(d)
  <2> SUFFICES ASSUME NEW k \in 1..Len(d), NEW l \in 1..Len(d), d[k] = d[l]  PROVE k = l
    BY DEF NoRepeats
  <2>1. PICK m \in 1..Len(s) : d[k] = s[m] /\ m = IF k = i THEN Len(s) ELSE k
    BY <1>5
  <2>2. PICK n \in 1..Len(s) : d[l] = s[n] /\ n = IF l = i THEN Len(s) ELSE l
    BY <1>5
  <2>3. m = n
    BY <1>4, <2>1, <2>2
  <2>4. k # Len(s) /\ l # Len(s)
    BY <1>1, <1>2
  <2> QED  BY <2>1, <2>2, <2>3, <2>4
<1>7. \A k \in 1..Len(u) : k \in 1..Len(t) \/ k = Len(t) + 1
  BY <1>3
<1>8. NoRepeats(u)
  <2> SUFFICES ASSUME NEW k \in 1..Len(u), NEW l \in 1..Len(u), u[k] = u[l]  PROVE k = l
    BY DEF NoRepeats
  <2> QED  BY <1>3, <1>4, <1>7
<1>9. Elements(u) \cap Elements(d) = {}
  <2> SUFFICES ASSUME NEW k \in 1..Len(u), NEW l \in 1..Len(d), u[k] = d[l]  PROVE FALSE
    BY DEF Elements
  <2>1. PICK m \in 1..Len(s) : d[l] = s[m] /\ m # i
    BY <1>5
  <2>2. CASE k \in 1..Len(t)
    BY <1>3, <1>4, <2>1, <2>2
  <2>3. CASE k = Len(t) + 1
    BY <1>3, <1>4, <2>1, <2>3
  <2> QED  BY <1>7, <2>2, <2>3
<1> QED  BY <1>6, <1>8, <1>9 DEF Apart, d, u

Turns == [agent : AgentType, world : WorldType, at : Nat]

\* Someone has been told to stop the clock.
Told(g) == \E a \in Elements(g.taken) : a.action = "ShutDown"

LEMMA ToldGrows ==
    ASSUME NEW g, g.taken \in Seq(Actions), NEW a \in Actions,
           NEW h, h.taken = Append(g.taken, a)
    PROVE  (Told(g) => Told(h)) /\ (a.action = "ShutDown" => Told(h))
<1> DEFINE t == g.taken
           u == h.taken
<1>1. t \in Seq(Actions) /\ u = Append(t, a)
  OBVIOUS
<1> HIDE DEF t, u
<1>2. /\ Len(t) \in Nat /\ Len(u) = Len(t) + 1 /\ u[Len(t) + 1] = a
      /\ \A i \in 1..Len(t) : u[i] = t[i]
  BY <1>1
<1>3. \A i \in 1..Len(t) : i \in 1..Len(u)
  BY <1>2
<1>4. Elements(t) \subseteq Elements(u)
  BY <1>2, <1>3 DEF Elements
<1>5. a \in Elements(u)
  <2>1. Len(t) + 1 \in 1..Len(u)
    BY <1>2
  <2> QED  BY <1>2, <2>1 DEF Elements
<1> QED  BY <1>4, <1>5 DEF Told, t, u

\* After n of k turns at a time, which began in world w: what is before the place
\* has been passed over, and each turn went on by one or dropped one.
TurnOK(s, n, k, time, w, c) ==
    /\ s.agent.kind = "oblivious" /\ Counted(s.agent) /\ Apart(s.agent)
    /\ \A i \in DOMAIN s.agent.taken : s.agent.taken[i].time <= time
    /\ s.at \in Nat \ {0} /\ s.at + k = Len(s.agent.actions) + n + 1
    /\ \A i \in 1..(s.at - 1) : s.agent.actions[i].time > time
    /\ WorldOK(s.world, c)
    /\ s.world.stopped => w.stopped \/ Told(s.agent)

\* A place before the end, of which n - 1 of k turns are over.
LEMMA PlaceAdvances ==
    ASSUME NEW k \in Nat, NEW n \in 1..k, NEW at \in Nat \ {0}, NEW l \in Nat,
           at + k = l + (n - 1) + 1
    PROVE  /\ at \in 1..l /\ at + 1 \in Nat \ {0}
           /\ (at + 1) + k = l + n + 1 /\ at + k = (l - 1) + n + 1
OBVIOUS

LEMMA TurnKeeps ==
    ASSUME NEW k \in Nat, NEW n \in 1..k, NEW time \in Nat, NEW w, NEW c,
           NEW s \in Turns, TurnOK(s, n - 1, k, time, w, c), NEW r, r = ObliviousTurn(time, s)
    PROVE  r \in Turns /\ TurnOK(r, n, k, time, w, c)
<1> DEFINE g == s.agent
           a == g.actions[s.at]
<1>1. g \in AgentType /\ s.world \in WorldType /\ s.at \in Nat \ {0}
  BY DEF Turns, TurnOK
<1>2. g.actions \in Seq(Actions) /\ g.taken \in Seq(Actions) /\ Len(g.actions) \in Nat
  BY <1>1 DEF AgentType
<1>8. /\ s.at \in 1..Len(g.actions) /\ s.at + 1 \in Nat \ {0}
      /\ (s.at + 1) + k = Len(g.actions) + n + 1 /\ s.at + k = (Len(g.actions) - 1) + n + 1
  <2> DEFINE l == Len(g.actions)
             at == s.at
  <2>1. at + k = l + (n - 1) + 1 /\ l \in Nat /\ at \in Nat \ {0}
    BY <1>1, <1>2 DEF TurnOK
  <2> HIDE DEF l, at
  <2>2. /\ at \in 1..l /\ at + 1 \in Nat \ {0}
        /\ (at + 1) + k = l + n + 1 /\ at + k = (l - 1) + n + 1
    BY <2>1, PlaceAdvances
  <2> QED  BY <2>2 DEF l, at
<1>3. s.at \in 1..Len(g.actions)
  BY <1>8
<1>4. a \in Actions /\ a.time \in Int
  <2>1. a \in Actions
    BY <1>2, <1>3
  <2> QED  BY <2>1 DEF Actions
<1>5. /\ g.kind = "oblivious" /\ Counted(g) /\ Apart(g) /\ WorldOK(s.world, c)
      /\ \A i \in DOMAIN g.taken : g.taken[i].time <= time
      /\ \A i \in 1..(s.at - 1) : g.actions[i].time > time
      /\ s.world.stopped => w.stopped \/ Told(g)
  BY DEF TurnOK
<1>6. CASE ~(time >= a.time)
  <2>1. r = [s EXCEPT !.at = @ + 1]
    BY <1>6 DEF ObliviousTurn
  <2>2. r \in Turns /\ r.agent = g /\ r.world = s.world /\ r.at = s.at + 1
    BY <1>1, <2>1 DEF Turns
  <2>3. r.at \in Nat \ {0} /\ r.at + k = Len(g.actions) + n + 1
    <3> HIDE DEF g
    <3> QED  BY <1>8, <2>2
  <2>4. \A i \in 1..(r.at - 1) : g.actions[i].time > time
    <3> TAKE i \in 1..(r.at - 1)
    <3>1. i \in 1..(s.at - 1) \/ i = s.at
      BY <1>1, <2>2
    <3>2. a.time > time
      <4> HIDE DEF a
      <4> QED  BY <1>4, <1>6
    <3> QED  BY <1>5, <3>1, <3>2
  <2> QED  BY <1>5, <2>2, <2>3, <2>4 DEF TurnOK
<1>7. CASE time >= a.time
  <2> DEFINE h == Take(g, a)
             d == DropAction(g.actions, s.at)
             v == Affect(s.world, a)
             q == [h EXCEPT !.actions = d]
  <2>1. /\ h \in AgentType /\ Counted(h) /\ h.kind = g.kind /\ h.actions = g.actions
        /\ h.taken = Append(g.taken, a)
    <3>1. h = Take(g, a) /\ Counted(g)
      BY <1>5
    <3> HIDE DEF h, g, a
    <3> QED  BY <1>1, <1>4, <3>1, TakeCounts
  <2>2. r = [agent |-> q, world |-> v, at |-> s.at]
    <3>1. r = [agent |-> [h EXCEPT !.actions = DropAction(@, s.at)], world |-> v, at |-> s.at]
      BY <1>7 DEF ObliviousTurn
    <3>2. [h EXCEPT !.actions = DropAction(@, s.at)] = [h EXCEPT !.actions = DropAction(h.actions, s.at)]
      OBVIOUS
    <3> HIDE DEF h
    <3> QED  BY <2>1, <3>1, <3>2
  <2>3. /\ d \in Seq(Actions) /\ Len(d) = Len(g.actions) - 1
        /\ \A i \in 1..Len(d) : d[i] = g.actions[IF i = s.at THEN Len(g.actions) ELSE i]
    <3> DEFINE l  == g.actions
               at == s.at
    <3>1. l \in Seq(Actions) /\ at \in 1..Len(l) /\ d = DropAction(l, at)
      BY <1>2, <1>3
    <3> HIDE DEF d, l, at
    <3>2. /\ d \in Seq(Actions) /\ Len(d) = Len(l) - 1
          /\ \A i \in 1..Len(d) : d[i] = l[IF i = at THEN Len(l) ELSE i]
      BY <3>1, DropActionDrops
    <3> QED  BY <3>2 DEF l, at
  <2>4. WorldOK(v, c) /\ (v.stopped => s.world.stopped \/ a.action = "ShutDown")
    BY <1>4, <1>5, AffectKeeps
  <2> HIDE DEF h, d, v
  <2>5. /\ q \in AgentType /\ q.kind = "oblivious" /\ q.actions = d /\ q.taken = Append(g.taken, a)
        /\ q.counts = h.counts /\ q.reported = h.reported
    BY <1>5, <2>1, <2>3 DEF AgentType
  <2>6. Counted(q)
    BY <2>1, <2>5 DEF Counted
  <2> HIDE DEF q
  <2>7. Apart(q)
    BY <1>1, <1>3, <1>5, <2>5, TakenApart DEF d
  <2>8. /\ r \in Turns /\ r.agent = q /\ r.world = v /\ r.at = s.at
    <3>1. v \in WorldType
      BY <2>4 DEF WorldOK
    <3> QED  BY <1>1, <2>2, <2>5, <3>1 DEF Turns
  <2>9. /\ Len(q.taken) = Len(g.taken) + 1 /\ DOMAIN q.taken = 1..(Len(g.taken) + 1)
        /\ DOMAIN g.taken = 1..Len(g.taken) /\ Len(g.taken) \in Nat
        /\ q.taken[Len(g.taken) + 1] = a /\ \A i \in 1..Len(g.taken) : q.taken[i] = g.taken[i]
    <3> HIDE DEF g, a
    <3> QED  BY <1>2, <1>4, <2>5
  <2>10. \A i \in DOMAIN q.taken : q.taken[i].time <= time
    <3> TAKE i \in DOMAIN q.taken
    <3>1. i \in 1..Len(g.taken) \/ i = Len(g.taken) + 1
      BY <2>9
    <3>2. a.time <= time
      <4> HIDE DEF a
      <4> QED  BY <1>4, <1>7
    <3> HIDE DEF a, g
    <3> QED  BY <1>5, <2>9, <3>1, <3>2
  <2>11. r.at \in Nat \ {0} /\ r.at + k = Len(q.actions) + n + 1
    <3> HIDE DEF g
    <3> QED  BY <1>1, <1>8, <2>3, <2>5, <2>8
  <2>12. \A i \in 1..(r.at - 1) : q.actions[i].time > time
    <3> TAKE i \in 1..(r.at - 1)
    <3>1. i \in 1..Len(d) /\ i # s.at /\ i \in 1..(s.at - 1)
      <4> HIDE DEF g
      <4> QED  BY <1>1, <1>2, <1>3, <2>3, <2>8
    <3>2. q.actions[i] = g.actions[i]
      BY <2>3, <2>5, <3>1
    <3> QED  BY <1>5, <3>1, <3>2
  <2>13. r.world.stopped => w.stopped \/ Told(q)
    <3>1. (Told(g) => Told(q)) /\ (a.action = "ShutDown" => Told(q))
      <4> HIDE DEF g, a
      <4> QED  BY <1>2, <1>4, <2>5, ToldGrows
    <3> QED  BY <1>5, <2>4, <2>8, <3>1
  <2> QED  BY <2>4, <2>5, <2>6, <2>7, <2>8, <2>10, <2>11, <2>12, <2>13 DEF TurnOK
<1> QED  BY <1>6, <1>7

\* The turns of an agent's loop.
IsActing(f, g, w, time) ==
    f = [n \in 0..Len(g.actions) |-> IF n = 0 THEN [agent |-> g, world |-> w, at |-> 1]
                                     ELSE ObliviousTurn(time, f[n - 1])]

\* What an agent and the world are after it has acted: all that was due is taken.
HasActed(d, w, c, time) ==
    /\ AgentOK(d.agent, time) /\ Waits(d.agent, time)
    /\ WorldOK(d.world, c)
    /\ d.world.stopped => w.stopped \/ Told(d.agent)

LEMMA ObliviousActs ==
    ASSUME NEW time \in Nat, NEW g, AgentOK(g, time), g.kind = "oblivious",
           NEW w, NEW c, WorldOK(w, c), NEW d, d = ObliviousAct(g, w, time)
    PROVE  HasActed(d, w, c, time)
<1> DEFINE k == Len(g.actions)
           base == [agent |-> g, world |-> w, at |-> 1]
           D == [n \in 0..k |-> {s \in Turns : TurnOK(s, n, k, time, w, c)}]
           F == [p \in (1..k) \X Turns |-> ObliviousTurn(time, p[2])]
<1>1. /\ g \in AgentType /\ Counted(g) /\ Apart(g) /\ k \in Nat
      /\ \A i \in DOMAIN g.taken : g.taken[i].time <= time
  <2>1. /\ g \in AgentType /\ Counted(g) /\ Apart(g)
        /\ \A i \in DOMAIN g.taken : g.taken[i].time <= time
    BY DEF AgentOK
  <2>2. g.actions \in Seq(Actions)
    BY <2>1 DEF AgentType
  <2> QED  BY <2>1, <2>2
<1>2. base \in D[0]
  <2>1. w \in WorldType
    BY DEF WorldOK
  <2>2. base \in Turns /\ base.agent = g /\ base.world = w /\ base.at = 1
    BY <1>1, <2>1 DEF Turns
  <2> HIDE DEF base
  <2>3. base.at \in Nat \ {0} /\ base.at + k = k + 0 + 1 /\ \A i \in 1..(base.at - 1) : FALSE
    <3> HIDE DEF k
    <3> QED  BY <1>1, <2>2
  <2>4. TurnOK(base, 0, k, time, w, c)
    BY <1>1, <2>2, <2>3 DEF TurnOK
  <2>5. 0 \in 0..k
    BY <1>1
  <2> QED  BY <2>2, <2>4, <2>5
<1>3. ASSUME NEW n \in 1..k, NEW x \in D[n - 1]
      PROVE  F[<<n, x>>] = ObliviousTurn(time, x) /\ ObliviousTurn(time, x) \in D[n]
  <2>1. n \in 0..k /\ n - 1 \in 0..k
    BY <1>1
  <2>2. x \in Turns /\ TurnOK(x, n - 1, k, time, w, c)
    BY <2>1
  <2>3. ObliviousTurn(time, x) \in Turns /\ TurnOK(ObliviousTurn(time, x), n, k, time, w, c)
    <3> HIDE DEF k, D, F
    <3> QED  BY <1>1, <2>2, TurnKeeps
  <2>4. <<n, x>> \in (1..k) \X Turns
    BY <2>2
  <2>5. F[<<n, x>>] = ObliviousTurn(time, x)
    BY <2>4
  <2> QED  BY <2>1, <2>3, <2>5
<1>4. \A n \in 1..k : \A x \in D[n - 1] : F[<<n, x>>] \in D[n]
  <2> HIDE DEF D, F
  <2> QED  BY <1>3
<1> HIDE DEF F
<1>5. PICK h : RunOf(h, k, base, F)
  <2> HIDE DEF k, base
  <2> QED  BY <1>1, RunExists
<1>6. h[0] = base /\ \A n \in 1..k : h[n] = F[<<n, h[n - 1]>>]
  <2> HIDE DEF k, base
  <2> QED  BY <1>1, <1>5, RunSteps
<1>7. \A n \in 0..k : h[n] \in D[n]
  <2>1. h[0] \in D[0] /\ \A n \in 1..k : h[n - 1] \in D[n - 1] => h[n] = F[<<n, h[n - 1]>>]
    <3> HIDE DEF base, D, k
    <3> QED  BY <1>2, <1>6
  <2> HIDE DEF k, base, D
  <2> QED  BY <1>1, <1>4, <2>1, RunStays
<1>8. IsActing(h, g, w, time)
  <2>1. ASSUME NEW n \in 0..k
        PROVE  (IF n = 0 THEN base ELSE F[<<n, h[n - 1]>>])
                 = IF n = 0 THEN base ELSE ObliviousTurn(time, h[n - 1])
    <3> HIDE DEF base, D
    <3>1. CASE n # 0
      <4>1. n \in 1..k /\ n - 1 \in 0..k
        BY <1>1, <3>1
      <4> QED  BY <1>3, <1>7, <4>1
    <3> QED  BY <3>1
  <2> HIDE DEF D
  <2>2. h = [n \in 0..k |-> IF n = 0 THEN base ELSE F[<<n, h[n - 1]>>]]
    BY <1>5 DEF RunOf
  <2>3. h = [n \in 0..k |-> IF n = 0 THEN base ELSE ObliviousTurn(time, h[n - 1])]
    <3> HIDE DEF base, k
    <3> QED  BY <2>1, <2>2
  <2> QED  BY <2>3 DEF IsActing
<1> DEFINE f == CHOOSE x : IsActing(x, g, w, time)
<1>9. IsActing(f, g, w, time)
  <2> HIDE DEF D
  <2> QED  BY <1>8
<1>10. ObliviousAct(g, w, time) = f[k]
  BY DEF ObliviousAct, IsActing
<1> HIDE DEF f
<1>11. f[0] = base /\ \A n \in 1..k : f[n] = ObliviousTurn(time, f[n - 1])
  <2> HIDE DEF base
  <2>1. \A n \in 0..k : f[n] = IF n = 0 THEN base ELSE ObliviousTurn(time, f[n - 1])
    <3>1. f = [n \in 0..k |-> IF n = 0 THEN base ELSE ObliviousTurn(time, f[n - 1])]
      BY <1>9 DEF IsActing, base
    <3> QED  BY <3>1
  <2>2. 0 \in 0..k /\ \A n \in 1..k : n \in 0..k /\ n # 0
    BY <1>1
  <2> QED  BY <2>1, <2>2
<1>12. \A n \in 0..k : f[n] \in D[n]
  <2> HIDE DEF k, base, D
  <2>1. \A n \in 1..k : f[n - 1] \in D[n - 1] => f[n] = F[<<n, f[n - 1]>>]
    BY <1>3, <1>11
  <2> QED  BY <1>1, <1>2, <1>4, <1>11, <2>1, RunStays
<1>13. d \in Turns /\ TurnOK(d, k, k, time, w, c)
  <2>1. k \in 0..k
    BY <1>1
  <2>2. d = f[k]
    BY <1>10
  <2> QED  BY <1>12, <2>1, <2>2
<1>14. d.agent \in AgentType /\ d.at \in Nat \ {0} /\ d.at + k = Len(d.agent.actions) + k + 1
       /\ \A i \in 1..(d.at - 1) : d.agent.actions[i].time > time
  BY <1>13 DEF TurnOK, Turns
<1>15. Waits(d.agent, time)
  <2>1. d.agent.actions \in Seq(Actions)
    BY <1>14 DEF AgentType
  <2>2. Len(d.agent.actions) \in Nat /\ DOMAIN d.agent.actions = 1..Len(d.agent.actions)
    BY <2>1
  <2>3. d.at - 1 = Len(d.agent.actions)
    <3> HIDE DEF k
    <3> QED  BY <1>1, <1>14, <2>2
  <2> QED  BY <1>14, <2>2, <2>3 DEF Waits
<1>16. AgentOK(d.agent, time)
  BY <1>13, <1>14 DEF AgentOK, TurnOK
<1> QED  BY <1>13, <1>15, <1>16 DEF HasActed, TurnOK

LEMMA SpendyActs ==
    ASSUME NEW time \in Nat, NEW g, AgentOK(g, time), g.kind = "spendy",
           NEW w, NEW c, WorldOK(w, c), NEW busy, NEW d, d = SpendyAct(g, w, time, busy)
    PROVE  HasActed(d, w, c, time)
<1> DEFINE a == [id |-> 0, time |-> time, action |-> "ScaleUp", count |-> 1, half_ocus |-> 0]
<1>1. g \in AgentType /\ Counted(g) /\ g.actions = <<>>
  BY DEF AgentOK
<1>2. a \in Actions /\ a.action = "ScaleUp"
  BY DEF Actions, ActionTypes
<1>3. \/ d = [agent |-> Take(g, a), world |-> Affect(w, a)]
      \/ d = [agent |-> g, world |-> w]
  BY DEF SpendyAct
<1> HIDE DEF a
<1>4. CASE d = [agent |-> g, world |-> w]
  <2>1. d.agent = g /\ d.world = w /\ Waits(g, time) /\ w.stopped \in BOOLEAN
    BY <1>1, <1>4 DEF Waits, WorldOK, WorldType
  <2> QED  BY <2>1 DEF HasActed
<1>5. CASE d = [agent |-> Take(g, a), world |-> Affect(w, a)]
  <2>1. d.agent = Take(g, a) /\ d.world = Affect(w, a)
    BY <1>5
  <2>2. /\ d.agent \in AgentType /\ Counted(d.agent)
        /\ d.agent.kind = "spendy" /\ d.agent.actions = <<>>
    BY <1>1, <1>2, <2>1, TakeCounts
  <2>3. WorldOK(d.world, c) /\ (d.world.stopped => w.stopped \/ a.action = "ShutDown")
    BY <1>2, <2>1, AffectKeeps
  <2>4. AgentOK(d.agent, time) /\ Waits(d.agent, time)
    BY <2>2 DEF AgentOK, Waits
  <2> QED  BY <1>2, <2>3, <2>4 DEF HasActed
<1> QED  BY <1>3, <1>4, <1>5

LEMMA Acts ==
    ASSUME NEW time \in Nat, NEW g, AgentOK(g, time),
           NEW w, NEW c, WorldOK(w, c), NEW busy, NEW d, d = Act(g, w, time, busy)
    PROVE  HasActed(d, w, c, time)
<1>1. g.kind = "oblivious" \/ g.kind = "spendy"
  BY DEF AgentOK, AgentType
<1>2. CASE g.kind = "spendy"
  <2>1. d = SpendyAct(g, w, time, busy)
    BY <1>2 DEF Act
  <2> QED  BY <1>2, <2>1, SpendyActs
<1>3. CASE g.kind = "oblivious"
  <2>1. d = ObliviousAct(g, w, time)
    BY <1>3 DEF Act
  <2> QED  BY <1>3, <2>1, ObliviousActs
<1> QED  BY <1>1, <1>2, <1>3

\* What is reported is no longer counted.
LEMMA ReportKeepsCount ==
    ASSUME NEW g, NEW t, AgentOK(g, t)
    PROVE  AgentOK(Report(g), t)
<1> DEFINE r == [a \in ActionTypes |-> g.reported[a] + g.counts[a]]
           x == [g EXCEPT !.reported = r]
           h == Report(g)
<1>1. g \in AgentType /\ Counted(g) /\ g.counts \in [ActionTypes -> Nat]
      /\ g.reported \in [ActionTypes -> Nat]
  BY DEF AgentOK, AgentType
<1>2. r \in [ActionTypes -> Nat] /\ \A a \in ActionTypes : r[a] = g.reported[a] + g.counts[a]
  BY <1>1
<1>3. h = [x EXCEPT !.counts = NoCounts]
  BY <1>1 DEF Report, AgentType
<1>4. NoCounts \in [ActionTypes -> Nat] /\ \A a \in ActionTypes : NoCounts[a] = 0
  BY DEF NoCounts
<1> HIDE DEF r, h
<1>5. /\ h \in AgentType /\ h.kind = g.kind /\ h.actions = g.actions /\ h.taken = g.taken
      /\ h.reported = r /\ h.counts = NoCounts
  BY <1>1, <1>2, <1>3, <1>4 DEF AgentType
<1>6. Counted(h)
  <2> SUFFICES ASSUME NEW a \in ActionTypes
               PROVE  h.counts[a] + h.reported[a]
                        = Cardinality({n \in DOMAIN h.taken : h.taken[n].action = a})
    BY DEF Counted
  <2>1. g.counts[a] + g.reported[a] = Cardinality({n \in DOMAIN g.taken : g.taken[n].action = a})
        /\ g.counts[a] \in Nat /\ g.reported[a] \in Nat
    BY <1>1 DEF Counted
  <2>2. h.counts[a] + h.reported[a] = g.counts[a] + g.reported[a]
    BY <1>2, <1>4, <1>5, <2>1
  <2> QED  BY <1>5, <2>1, <2>2
<1>7. AgentOK(h, t)
  BY <1>5, <1>6 DEF AgentOK, Apart
<1> QED  BY <1>7 DEF h

Rounds == [agents : Seq(AgentType), world : WorldType]

\* The first n of the agents have acted at a time.
RoundOK(x, n, time, c) ==
    /\ Len(x.agents) = n
    /\ \A i \in 1..n : AgentOK(x.agents[i], time) /\ Waits(x.agents[i], time)
    /\ WorldOK(x.world, c)
    /\ x.world.stopped => \E i \in 1..n : Told(x.agents[i])

\* The profiler calls the next agent.
Called(x, g, time, busy) ==
    LET done == Act(Report(g), x.world, time, busy)
    IN  [agents |-> Append(x.agents, done.agent), world |-> done.world]

LEMMA CalledKeeps ==
    ASSUME NEW time \in Nat, NEW c, NEW n \in Nat, NEW busy, NEW g, AgentOK(g, time),
           NEW x \in Rounds, RoundOK(x, n, time, c), NEW y, y = Called(x, g, time, busy)
    PROVE  y \in Rounds /\ RoundOK(y, n + 1, time, c)
<1> DEFINE d == Act(Report(g), x.world, time, busy)
<1>1. /\ x.agents \in Seq(AgentType) /\ Len(x.agents) = n /\ WorldOK(x.world, c)
      /\ \A i \in 1..n : AgentOK(x.agents[i], time) /\ Waits(x.agents[i], time)
      /\ x.world.stopped => \E i \in 1..n : Told(x.agents[i])
  BY DEF Rounds, RoundOK
<1>2. HasActed(d, x.world, c, time)
  <2>1. AgentOK(Report(g), time)
    BY ReportKeepsCount
  <2> QED  BY <1>1, <2>1, Acts
<1>3. y.agents = Append(x.agents, d.agent) /\ y.world = d.world
      /\ y = [agents |-> Append(x.agents, d.agent), world |-> d.world]
  BY DEF Called
<1> HIDE DEF d
<1>4. /\ AgentOK(d.agent, time) /\ Waits(d.agent, time) /\ WorldOK(d.world, c)
      /\ d.world.stopped => x.world.stopped \/ Told(d.agent)
      /\ d.agent \in AgentType /\ d.world \in WorldType
  BY <1>2 DEF HasActed, AgentOK, WorldOK
<1>5. /\ y.agents \in Seq(AgentType) /\ Len(y.agents) = n + 1 /\ y.agents[n + 1] = d.agent
      /\ \A i \in 1..n : y.agents[i] = x.agents[i]
  BY <1>1, <1>3, <1>4
<1>6. y \in Rounds
  BY <1>3, <1>4, <1>5 DEF Rounds
<1>7. \A i \in 1..(n + 1) : i \in 1..n \/ i = n + 1
  OBVIOUS
<1>8. \A i \in 1..(n + 1) : AgentOK(y.agents[i], time) /\ Waits(y.agents[i], time)
  BY <1>1, <1>4, <1>5, <1>7
<1>9. y.world.stopped => \E i \in 1..(n + 1) : Told(y.agents[i])
  <2>1. n + 1 \in 1..(n + 1) /\ \A i \in 1..n : i \in 1..(n + 1)
    OBVIOUS
  <2> QED  BY <1>1, <1>3, <1>4, <1>5, <2>1
<1> QED  BY <1>3, <1>4, <1>5, <1>6, <1>8, <1>9 DEF RoundOK

\* The profiler's calls, one after the other.
IsRound(f, gs, c, time, busy) ==
    f = [n \in 0..Len(gs) |->
            IF n = 0 THEN [ agents |-> <<>>,
                            world  |-> [coll |-> c, started |-> 0, stopped |-> FALSE] ]
            ELSE Called(f[n - 1], gs[n], time, busy)]

LEMMA AllAct ==
    ASSUME NEW time \in Nat, AgentsOK(agents, time), CollOK(coll), NEW busy,
           NEW d, d = ActAll(time, busy)
    PROVE  d \in Rounds /\ RoundOK(d, Len(agents), time, coll)
<1> DEFINE k == Len(agents)
           base == [ agents |-> <<>>,
                     world  |-> [coll |-> coll, started |-> 0, stopped |-> FALSE] ]
           D == [n \in 0..k |-> {x \in Rounds : RoundOK(x, n, time, coll)}]
           F == [p \in (1..k) \X Rounds |-> Called(p[2], agents[p[1]], time, busy)]
<1>1. k \in Nat /\ \A n \in 1..k : AgentOK(agents[n], time)
  <2>1. agents \in Seq(AgentType) /\ \A i \in DOMAIN agents : AgentOK(agents[i], time)
    BY DEF AgentsOK
  <2> QED  BY <2>1
<1>2. base \in D[0]
  <2> DEFINE w == [coll |-> coll, started |-> 0, stopped |-> FALSE]
  <2>1. w \in WorldType /\ w.coll = coll /\ w.started = 0 /\ w.stopped = FALSE
    BY DEF CollOK, WorldType
  <2> HIDE DEF w
  <2>2. base = [agents |-> <<>>, world |-> w]
    BY DEF w
  <2>3. <<>> \in Seq(AgentType) /\ Len(<<>>) = 0
    OBVIOUS
  <2> HIDE DEF base
  <2>4. base \in Rounds /\ base.world = w /\ Len(base.agents) = 0
    BY <2>1, <2>2, <2>3 DEF Rounds
  <2>5. WorldOK(w, coll)
    BY <2>1 DEF WorldOK
  <2>6. RoundOK(base, 0, time, coll)
    BY <2>1, <2>4, <2>5 DEF RoundOK
  <2>7. 0 \in 0..k
    BY <1>1
  <2> QED  BY <2>4, <2>6, <2>7
<1>3. ASSUME NEW n \in 1..k, NEW x \in D[n - 1]
      PROVE  F[<<n, x>>] = Called(x, agents[n], time, busy)
             /\ Called(x, agents[n], time, busy) \in D[n]
  <2>1. n \in 0..k /\ n - 1 \in 0..k /\ n - 1 \in Nat /\ (n - 1) + 1 = n
    BY <1>1
  <2>2. x \in Rounds /\ RoundOK(x, n - 1, time, coll)
    BY <2>1
  <2>3. Called(x, agents[n], time, busy) \in Rounds
        /\ RoundOK(Called(x, agents[n], time, busy), n, time, coll)
    <3>1. AgentOK(agents[n], time)
      BY <1>1
    <3> DEFINE m == n - 1
               y == Called(x, agents[n], time, busy)
    <3>2. m \in Nat /\ m + 1 = n /\ RoundOK(x, m, time, coll)
      BY <2>1, <2>2
    <3> HIDE DEF k, D, F, m
    <3>3. y \in Rounds /\ RoundOK(y, m + 1, time, coll)
      BY <2>2, <3>1, <3>2, CalledKeeps
    <3> QED  BY <3>2, <3>3
  <2>4. <<n, x>> \in (1..k) \X Rounds
    BY <2>2
  <2>5. F[<<n, x>>] = Called(x, agents[n], time, busy)
    BY <2>4
  <2> QED  BY <2>1, <2>3, <2>5
<1>4. \A n \in 1..k : \A x \in D[n - 1] : F[<<n, x>>] \in D[n]
  <2> HIDE DEF D, F
  <2> QED  BY <1>3
<1> HIDE DEF F
<1>5. PICK h : RunOf(h, k, base, F)
  <2> HIDE DEF k, base
  <2> QED  BY <1>1, RunExists
<1>6. h[0] = base /\ \A n \in 1..k : h[n] = F[<<n, h[n - 1]>>]
  <2> HIDE DEF k, base
  <2> QED  BY <1>1, <1>5, RunSteps
<1>7. \A n \in 0..k : h[n] \in D[n]
  <2>1. h[0] \in D[0] /\ \A n \in 1..k : h[n - 1] \in D[n - 1] => h[n] = F[<<n, h[n - 1]>>]
    <3> HIDE DEF base, D, k
    <3> QED  BY <1>2, <1>6
  <2> HIDE DEF k, base, D
  <2> QED  BY <1>1, <1>4, <2>1, RunStays
<1>8. IsRound(h, agents, coll, time, busy)
  <2>1. ASSUME NEW n \in 0..k
        PROVE  (IF n = 0 THEN base ELSE F[<<n, h[n - 1]>>])
                 = IF n = 0 THEN base ELSE Called(h[n - 1], agents[n], time, busy)
    <3> HIDE DEF base, D
    <3>1. CASE n # 0
      <4>1. n \in 1..k /\ n - 1 \in 0..k
        BY <1>1, <3>1
      <4> QED  BY <1>3, <1>7, <4>1
    <3> QED  BY <3>1
  <2> HIDE DEF D
  <2>2. h = [n \in 0..k |-> IF n = 0 THEN base ELSE F[<<n, h[n - 1]>>]]
    BY <1>5 DEF RunOf
  <2>3. h = [n \in 0..k |-> IF n = 0 THEN base ELSE Called(h[n - 1], agents[n], time, busy)]
    <3> HIDE DEF base, k
    <3> QED  BY <2>1, <2>2
  <2> QED  BY <2>3 DEF IsRound
<1> DEFINE f == CHOOSE x : IsRound(x, agents, coll, time, busy)
<1>9. IsRound(f, agents, coll, time, busy)
  <2> HIDE DEF D
  <2> QED  BY <1>8
<1>10. ActAll(time, busy) = f[k]
  BY DEF ActAll, IsRound, Called
<1> HIDE DEF f
<1>11. f[0] = base /\ \A n \in 1..k : f[n] = Called(f[n - 1], agents[n], time, busy)
  <2> HIDE DEF base
  <2>1. \A n \in 0..k : f[n] = IF n = 0 THEN base ELSE Called(f[n - 1], agents[n], time, busy)
    <3>1. f = [n \in 0..k |-> IF n = 0 THEN base ELSE Called(f[n - 1], agents[n], time, busy)]
      BY <1>9 DEF IsRound, base
    <3> QED  BY <3>1
  <2>2. 0 \in 0..k /\ \A n \in 1..k : n \in 0..k /\ n # 0
    BY <1>1
  <2> QED  BY <2>1, <2>2
<1>12. \A n \in 0..k : f[n] \in D[n]
  <2> HIDE DEF k, base, D
  <2>1. \A n \in 1..k : f[n - 1] \in D[n - 1] => f[n] = F[<<n, f[n - 1]>>]
    BY <1>3, <1>11
  <2> QED  BY <1>1, <1>2, <1>4, <1>11, <2>1, RunStays
<1> QED
  <2>1. k \in 0..k
    BY <1>1
  <2> QED  BY <1>10, <1>12, <2>1

-----------------------------------------------------------------------------
(* The profiler.                                                           *)

\* The next tick is a period later.
LEMMA TickAdvances ==
    ASSUME NEW n \in Nat, first \in Nat
    PROVE  TickTime(n + 1) \in Nat /\ TickTime((n + 1) + 1) = TickTime(n + 1) + Period
<1> DEFINE b == IF first > 0 THEN first ELSE Period
<1>1. Period \in Nat
  BY SimulationAssumption
<1>2. b \in Nat
  BY <1>1
<1>3. TickTime(n + 1) = b + ((n + 1) - 1) * Period
      /\ TickTime((n + 1) + 1) = b + (((n + 1) + 1) - 1) * Period
  BY DEF TickTime
<1> HIDE DEF b
<1>4. (n + 1) - 1 = n /\ ((n + 1) + 1) - 1 = n + 1
  OBVIOUS
<1>5. n * Period \in Nat /\ (n + 1) * Period = n * Period + Period
  BY <1>1
<1>6. TickTime(n + 1) = b + n * Period /\ TickTime((n + 1) + 1) = b + (n + 1) * Period
  BY <1>3, <1>4
<1> DEFINE x == n * Period
<1>7. x \in Nat /\ TickTime(n + 1) = b + x /\ TickTime((n + 1) + 1) = b + (x + Period)
  BY <1>5, <1>6
<1> HIDE DEF x
<1>8. b + x \in Nat /\ b + (x + Period) = (b + x) + Period
  BY <1>1, <1>2, <1>7
<1> QED  BY <1>7, <1>8

\* At most one spin-up is scheduled before the tick.
LEMMA SpinUpsAre ==
    ASSUME NEW a \in EventType, NEW b \in EventType, NEW n \in {0, 1}
    PROVE  Append([i \in 1..n |-> a], b) = IF n = 0 THEN <<b>> ELSE <<a, b>>
<1>1. [i \in 1..0 |-> a] = <<>>
  <2> DEFINE s == [i \in 1..0 |-> a]
  <2>1. s \in Seq(EventType) /\ Len(s) = 0
    OBVIOUS
  <2> HIDE DEF s
  <2>2. s = <<>>
    BY <2>1
  <2> QED  BY <2>2 DEF s
<1>2. [i \in 1..1 |-> a] = <<a>>
  <2> DEFINE s == [i \in 1..1 |-> a]
             t == <<a>>
  <2>1. s \in Seq(EventType) /\ Len(s) = 1 /\ s[1] = a
    OBVIOUS
  <2>2. t \in Seq(EventType) /\ Len(t) = 1 /\ t[1] = a
    OBVIOUS
  <2> HIDE DEF s, t
  <2>3. \A i \in 1..Len(s) : s[i] = t[i]
    <3>1. \A i \in 1..Len(s) : i = 1
      BY <2>1
    <3> QED  BY <2>1, <2>2, <3>1
  <2>4. s = t
    BY <2>1, <2>2, <2>3, SeqEqual
  <2> QED  BY <2>4 DEF s, t
<1>3. Append(<<>>, b) = <<b>> /\ Append(<<a>>, b) = <<a, b>>
  <2>1. Append(<<>>, b) = <<b>>
    OBVIOUS
  <2>2. Append(<<a>>, b) = <<a, b>>
    BY Pair
  <2> QED  BY <2>1, <2>2
<1>4. CASE n = 0
  BY <1>1, <1>3, <1>4
<1>5. CASE n = 1
  BY <1>2, <1>3, <1>5
<1> QED  BY <1>4, <1>5

\* Scheduling what neither feeds the clock nor is an arrival.
LEMMA OtherScheduled ==
    ASSUME NEW t \in Nat, NEW u, InOrder(u, t), NEW b \in EventType, b.at >= t,
           b.what \notin Feeds, b.what # "arrive", NEW v, v = Insert(u, b)
    PROVE  /\ Adds(v, u, b) /\ InOrder(v, t) /\ SameArrivals(v, u)
           /\ Feeding(v) = Feeding(u) /\ Arriving(v) = Arriving(u)
           /\ Ending(v)   = Ending(u)   + IF b.what = "end" THEN 1 ELSE 0
           /\ Ticking(v)  = Ticking(u)  + IF b.what = "tick" THEN 1 ELSE 0
           /\ Scalings(v) = Scalings(u) + IF b.what \in {"spun_up", "scaled"} THEN 1 ELSE 0
<1>1. Adds(v, u, b) /\ InOrder(v, t)
  BY InsertInOrder
<1>2. /\ Feeding(u) \in Nat /\ Feeding(v) = Feeding(u) + 0
      /\ Arriving(u) \in Nat /\ Arriving(v) = Arriving(u) + 0
      /\ Ending(v)   = Ending(u)   + IF b.what = "end" THEN 1 ELSE 0
      /\ Ticking(v)  = Ticking(u)  + IF b.what = "tick" THEN 1 ELSE 0
      /\ Scalings(v) = Scalings(u) + IF b.what \in {"spun_up", "scaled"} THEN 1 ELSE 0
  BY <1>1, AddsCounts
<1>3. Feeding(v) = Feeding(u) /\ Arriving(v) = Arriving(u)
  BY <1>2
<1>4. SameArrivals(v, u)
  BY <1>1, AddsSameArrivals
<1> QED  BY <1>1, <1>2, <1>3, <1>4

\* What a tick puts on the clock: the spin-up of a scaling, and the next tick.
LEMMA TickSchedules ==
    ASSUME Inv, NEW u, NEW e, Taken("tick", u, e), NEW n \in {0, 1},
           agenda' = InsertAll(u, Append([i \in 1..n |-> Event("spun_up", Present + SpinUpDelay)],
                                         NextTick(Present)))
    PROVE  /\ InOrder(agenda', now') /\ SameArrivals(agenda', u)
           /\ Feeding(agenda') = Feeding(u) /\ Arriving(agenda') = Arriving(u)
           /\ Ending(agenda') = Ending(u)
           /\ Ticking(agenda') = 1 /\ Scalings(agenda') = Scalings(u) + n
           /\ \A i \in DOMAIN agenda' : EventOK(agenda'[i], gen, TickTime((ticks + 1) + 1))
<1> DEFINE a == Event("spun_up", Present + SpinUpDelay)
           b == NextTick(Present)
           t == TickTime((ticks + 1) + 1)
<1>1. /\ InOrder(u, now') /\ Present = now' /\ Present = e.at /\ now' \in Nat /\ e.what = "tick"
      /\ EventOK(e, gen, TickTime(ticks + 1))
      /\ \A i \in DOMAIN u : EventOK(u[i], gen, TickTime(ticks + 1))
  BY DEF Taken
<1>2. first \in Nat /\ ticks \in Nat
  BY DEF Inv
<1>3. Present = TickTime(ticks + 1)
  BY <1>1 DEF EventOK
<1>4. t = Present + Period
  BY <1>2, <1>3, TickAdvances
<1>5. /\ a \in EventType /\ a.what = "spun_up" /\ a.at \in Nat /\ a.at >= now'
      /\ b \in EventType /\ b.what = "tick" /\ b.at \in Nat /\ b.at >= now' /\ b.at = Present + Period
  <2>1. SpinUpDelay \in Nat /\ Period \in Nat
    BY SimulationAssumption
  <2>2. /\ Present + SpinUpDelay \in Nat /\ Present + SpinUpDelay >= now'
        /\ Present + Period \in Nat /\ Present + Period >= now'
    BY <1>1, <2>1, DelayIsLater
  <2>3. "spun_up" \in Kinds /\ "tick" \in Kinds
    BY DEF Kinds
  <2> QED  BY <2>2, <2>3, EventTyped DEF NextTick
<1>6. /\ a.what \notin Feeds /\ a.what # "arrive" /\ a.what # "end" /\ a.what # "tick"
      /\ a.what \in {"spun_up", "scaled"}
      /\ b.what \notin Feeds /\ b.what # "arrive" /\ b.what # "end"
      /\ b.what \notin {"spun_up", "scaled"}
  BY <1>5 DEF Feeds
<1>7. agenda' = InsertAll(u, IF n = 0 THEN <<b>> ELSE <<a, b>>)
  <2>1. agenda' = InsertAll(u, Append([i \in 1..n |-> a], b))
    OBVIOUS
  <2> HIDE DEF a, b
  <2> QED  BY <1>5, <2>1, SpinUpsAre
<1>8. EventOK(a, gen, t) /\ EventOK(b, gen, t)
  <2> HIDE DEF a, b, t
  <2> QED  BY <1>4, <1>5 DEF EventOK
<1> HIDE DEF a, b, t
<1>9. Ticking(u) = 0 /\ Ticking(u) \in Nat /\ Scalings(u) \in Nat /\ Ending(u) \in Nat
  BY LeftCounts
<1>10. \A i \in DOMAIN u : EventOK(u[i], gen, t)
  <2> SUFFICES ASSUME NEW i \in DOMAIN u  PROVE EventOK(u[i], gen, t)
    OBVIOUS
  <2>1. u[i].what # "tick"
    <3>1. u \in Seq(EventType)
      BY <1>1 DEF InOrder
    <3>2. Places(u, {"tick"}) = {}
      BY <1>9, <3>1, CountZero DEF Ticking
    <3> QED  BY <3>2 DEF Places
  <2> QED  BY <1>1, <2>1 DEF EventOK
<1>11. PICK v : /\ InOrder(v, now') /\ SameArrivals(v, u)
                /\ Feeding(v) = Feeding(u) /\ Arriving(v) = Arriving(u)
                /\ Ending(v) = Ending(u)
                /\ Ticking(v) = 0 /\ Scalings(v) = Scalings(u) + n
                /\ \A i \in DOMAIN v : EventOK(v[i], gen, t)
                /\ agenda' = Insert(v, b)
  <2>1. CASE n = 0
    <3>1. agenda' = Insert(u, b)
      BY <1>7, <2>1, InsertOne
    <3>2. Scalings(u) = Scalings(u) + n
      BY <1>9, <2>1
    <3>3. SameArrivals(u, u)
      BY DEF SameArrivals
    <3> QED  BY <1>1, <1>9, <1>10, <3>1, <3>2, <3>3
  <2>2. CASE n = 1
    <3> DEFINE v == Insert(u, a)
    <3>1. agenda' = Insert(v, b)
      <4>1. n # 0
        BY <2>2
      <4> QED  BY <1>7, <4>1, InsertTwo
    <3>2. v = Insert(u, a)
      OBVIOUS
    <3> HIDE DEF v
    <3>3. /\ Adds(v, u, a) /\ InOrder(v, now') /\ SameArrivals(v, u)
          /\ Feeding(v) = Feeding(u) /\ Arriving(v) = Arriving(u)
          /\ Ending(v) = Ending(u) + 0
          /\ Ticking(v) = Ticking(u) + 0 /\ Scalings(v) = Scalings(u) + 1
      BY <1>1, <1>5, <1>6, <3>2, OtherScheduled
    <3>4. Ending(v) = Ending(u) /\ Ticking(v) = 0
      BY <1>9, <3>3
    <3>5. \A i \in DOMAIN v : EventOK(v[i], gen, t)
      <4> SUFFICES ASSUME NEW i \in DOMAIN v  PROVE EventOK(v[i], gen, t)
        OBVIOUS
      <4>1. v[i] = a \/ \E j \in DOMAIN u : v[i] = u[j]
        BY <3>3, AddsEvents
      <4> QED  BY <1>8, <1>10, <4>1
    <3> QED  BY <2>2, <3>1, <3>3, <3>4, <3>5
  <2> QED  BY <2>1, <2>2
<1>12. /\ Adds(agenda', v, b) /\ InOrder(agenda', now') /\ SameArrivals(agenda', v)
       /\ Feeding(agenda') = Feeding(v) /\ Arriving(agenda') = Arriving(v)
       /\ Ending(agenda') = Ending(v) + 0
       /\ Ticking(agenda') = Ticking(v) + 1 /\ Scalings(agenda') = Scalings(v) + 0
  BY <1>1, <1>5, <1>6, <1>11, OtherScheduled
<1>13. Ending(agenda') = Ending(u) /\ Ticking(agenda') = 1 /\ Scalings(agenda') = Scalings(u) + n
  BY <1>9, <1>11, <1>12
<1>14. SameArrivals(agenda', u)
  BY <1>11, <1>12, SameArrivalsTrans
<1>15. \A i \in DOMAIN agenda' : EventOK(agenda'[i], gen, t)
  <2> SUFFICES ASSUME NEW i \in DOMAIN agenda'  PROVE EventOK(agenda'[i], gen, t)
    OBVIOUS
  <2>1. agenda'[i] = b \/ \E j \in DOMAIN v : agenda'[i] = v[j]
    <3>1. Adds(agenda', v, b)
      BY <1>12
    <3>2. \A z : Adds(z, v, b) => \A j \in DOMAIN z : z[j] = b \/ \E m \in DOMAIN v : z[j] = v[m]
      BY AddsEvents
    <3> QED  BY <3>1, <3>2
  <2> QED  BY <1>8, <1>11, <2>1
<1> QED  BY <1>11, <1>12, <1>13, <1>14, <1>15 DEF t

LEMMA TickKeeps ==
    ASSUME Inv, Tick
    PROVE  Inv'
<1>1. PICK busy \in BOOLEAN :
        LET s == ActAll(Present, busy)
        IN  /\ Handle("tick", Append([i \in 1..s.world.started |-> Event("spun_up", Present + SpinUpDelay)],
                                     NextTick(Present)))
            /\ agents' = s.agents /\ coll' = s.world.coll /\ running' = ~s.world.stopped
            /\ index' = IndexReport /\ ticks' = ticks + 1
            /\ UNCHANGED <<gen, first, arrivals>>
  BY DEF Tick
<1> DEFINE s == ActAll(Present, busy)
           n == s.world.started
<1>2. PICK u, e : /\ Taken("tick", u, e)
                  /\ agenda' = InsertAll(u, Append([i \in 1..n |-> Event("spun_up", Present + SpinUpDelay)],
                                                   NextTick(Present)))
  BY <1>1, HandleTakes
<1>3. /\ Present = now' /\ now' \in Nat /\ now \in Nat /\ now <= now' /\ Present = e.at
      /\ e.what = "tick" /\ EventOK(e, gen, TickTime(ticks + 1)) /\ Adds(agenda, u, e) /\ running
  BY <1>2 DEF Taken, Inv
<1>4. Present = TickTime(ticks + 1)
  BY <1>3 DEF EventOK
<1>5. s \in Rounds /\ RoundOK(s, Len(agents), Present, coll)
  <2>1. AgentsOK(agents, Present)
    BY <1>3, AgentsLater DEF Inv
  <2>2. CollOK(coll) /\ Present \in Nat
    BY <1>3 DEF Inv
  <2> HIDE DEF s
  <2> QED  BY <2>1, <2>2, AllAct DEF s
<1>6. /\ agents' = s.agents /\ coll' = s.world.coll /\ running' = ~s.world.stopped
      /\ index' = IndexReport /\ ticks' = ticks + 1
      /\ UNCHANGED <<gen, first, arrivals>>
  BY <1>1
<1> HIDE DEF s
<1>7. /\ s.agents \in Seq(AgentType) /\ Len(s.agents) = Len(agents)
      /\ \A i \in 1..Len(agents) : AgentOK(s.agents[i], Present) /\ Waits(s.agents[i], Present)
      /\ WorldOK(s.world, coll) /\ s.world \in WorldType
      /\ s.world.stopped => \E i \in 1..Len(agents) : Told(s.agents[i])
  BY <1>5 DEF Rounds, RoundOK, WorldOK
<1>8. n \in {0, 1} /\ s.world.stopped \in BOOLEAN
  BY <1>7 DEF WorldType
<1> HIDE DEF n
<1>9. /\ InOrder(agenda', now') /\ SameArrivals(agenda', u)
      /\ Feeding(agenda') = Feeding(u) /\ Arriving(agenda') = Arriving(u)
      /\ Ending(agenda') = Ending(u)
      /\ Ticking(agenda') = 1 /\ Scalings(agenda') = Scalings(u) + n
      /\ \A i \in DOMAIN agenda' : EventOK(agenda'[i], gen, TickTime((ticks + 1) + 1))
  BY <1>2, <1>8, TickSchedules
<1>10. /\ Feeding(u) <= 1 /\ Arriving(u) <= 1 /\ (Fed => Feeding(u) = 1)
       /\ Scalings(u) \in Nat /\ Scalings(u) + 0 = (IF coll.steady THEN 0 ELSE 1)
       /\ Ending(u) \in Nat
       /\ index.total_requests + index.reported + Ending(u) + 0 = Len(arrivals)
  <2>1. "tick" \notin Feeds /\ "tick" # "end" /\ "tick" \notin {"spun_up", "scaled"}
    BY DEF Feeds
  <2> QED  BY <1>2, <2>1, LeftCounts
<1>11. FileOK(agenda', gen', arrivals')
  <2>1. SameArrivals(u, agenda)
    BY <1>3, AddsSameArrivals
  <2> QED  BY <1>6, <1>9, <2>1, FileKeeps DEF Inv
<1>12. TickTime(ticks)' = TickTime(ticks + 1) /\ TickTime(ticks + 1)' = TickTime((ticks + 1) + 1)
  BY <1>6 DEF TickTime
<1>13. AgendaOK(agenda', now', gen', TickTime(ticks + 1)', (running /\ Fed)')
  <2>1. (Fed)' = Fed
    BY <1>6 DEF Fed, IsLoaded
  <2> QED  BY <1>6, <1>9, <1>10, <1>12, <2>1 DEF AgendaOK, InOrder
<1>14. AgentsOK(agents', now') /\ \A i \in DOMAIN agents' : Waits(agents'[i], TickTime(ticks)')
  <2>1. DOMAIN s.agents = 1..Len(agents)
    BY <1>7
  <2> QED  BY <1>3, <1>4, <1>6, <1>7, <1>12, <2>1 DEF AgentsOK
<1>15. CollOK(coll') /\ OneScaling(agenda', coll')
  <2>1. CollOK(s.world.coll)
    BY <1>7 DEF WorldOK
  <2>2. \/ n = 0 /\ s.world.coll = coll
        \/ n = 1 /\ coll.steady /\ ~s.world.coll.steady
    BY <1>7 DEF WorldOK, n
  <2>3. Scalings(u) = (IF coll.steady THEN 0 ELSE 1)
    BY <1>10
  <2>4. CASE n = 0 /\ s.world.coll = coll
    <3>1. Scalings(agenda') = Scalings(u)
      BY <1>9, <1>10, <2>4
    <3> QED  BY <1>6, <2>1, <2>3, <2>4, <3>1 DEF OneScaling
  <2>5. CASE n = 1 /\ coll.steady /\ ~s.world.coll.steady
    <3>1. Scalings(agenda') = 1
      BY <1>9, <2>3, <2>5
    <3> QED  BY <1>6, <2>1, <2>5, <3>1 DEF OneScaling
  <2> QED  BY <2>2, <2>4, <2>5
<1>16. index' \in IndexType /\ Balanced(agenda', index', arrivals')
  <2>1. index \in IndexType /\ index.total_requests \in Nat /\ index.reported \in Nat
    BY DEF Inv, IndexType
  <2>2. index' = [total_requests |-> 0, reported |-> index.reported + index.total_requests]
    BY <1>6 DEF IndexReport
  <2>3. index' \in IndexType /\ index'.total_requests = 0
        /\ index'.reported = index.reported + index.total_requests
    BY <2>1, <2>2 DEF IndexType
  <2>4. 0 + (index.reported + index.total_requests) + Ending(u) = Len(arrivals)
    BY <1>10, <2>1
  <2>5. index'.total_requests + index'.reported + Ending(agenda') = Len(arrivals')
    BY <1>6, <1>9, <2>3, <2>4
  <2> QED  BY <2>3, <2>5 DEF Balanced
<1>17. ~running' => (ToldToStop)'
  <2> SUFFICES ASSUME ~running'  PROVE (ToldToStop)'
    OBVIOUS
  <2>1. PICK i \in 1..Len(agents) : Told(s.agents[i])
    BY <1>6, <1>7, <1>8
  <2>2. i \in DOMAIN agents' /\ Told(agents'[i])
    BY <1>6, <1>7, <2>1
  <2>3. PICK a \in Elements(agents'[i].taken) : a.action = "ShutDown"
    BY <2>2 DEF Told
  <2> QED  BY <2>2, <2>3 DEF ToldToStop, TakenByAny, TakenBy
<1>18. GenOK(gen') /\ first' \in Nat /\ ticks' \in Nat /\ running' \in BOOLEAN
       /\ Routed(arrivals') /\ arrivals' \in Seq(Arrivals)
  BY <1>6, <1>8 DEF Inv
<1> QED  BY <1>3, <1>11, <1>13, <1>14, <1>15, <1>16, <1>17, <1>18 DEF Inv

-----------------------------------------------------------------------------
(* The beginning.                                                          *)

\* Descriptors numbered in their order.
Numbered(rs) ==
    /\ rs \in Seq(Descriptor)
    /\ \A i \in 1..Len(rs) : rs[i].id = i

\* One line of the file adds its request, unless it is blank.
Read(rs, line) ==
    IF line.type = "blank" THEN rs ELSE Append(rs, Parsed(line, Len(rs) + 1))

LEMMA ReadKeeps ==
    ASSUME NEW rs, Numbered(rs), NEW line \in Line
    PROVE  Numbered(Read(rs, line))
<1> DEFINE id == Len(rs) + 1
           r == Parsed(line, id)
<1>1. rs \in Seq(Descriptor) /\ id \in Nat
  BY DEF Numbered
<1>2. /\ line.type \in {"blank", "none", "GET", "PUT", "SEARCH"} /\ line.time \in Nat
      /\ line.known \in BOOLEAN /\ line.document \in Int /\ line.given \in Seq(Int)
  BY DEF Line
<1>3. CASE line.type = "blank"
  BY <1>3 DEF Read
<1>4. CASE line.type # "blank"
  <2> DEFINE type  == IF line.type = "none" THEN "GET" ELSE line.type
             given == IF line.type = "SEARCH" \/ line.given = <<>> THEN line.given
                                                                  ELSE <<line.given[1]>>
  <2>1. type \in RequestTypes
    BY <1>2, <1>4 DEF RequestTypes
  <2>2. given \in Seq(Int)
    <3>1. CASE line.type = "SEARCH" \/ line.given = <<>>
      BY <1>2, <3>1
    <3>2. CASE ~(line.type = "SEARCH" \/ line.given = <<>>)
      <4>1. line.given[1] \in Int
        BY <1>2, <3>2
      <4> QED  BY <3>2, <4>1
    <3> QED  BY <3>1, <3>2
  <2>3. r = [ id |-> id, type |-> type, time |-> line.time, known |-> line.known,
              document |-> line.document, given |-> given ]
    BY DEF Parsed
  <2> HIDE DEF type, given, id, r
  <2>4. r \in Descriptor /\ r.id = id
    BY <1>1, <1>2, <2>1, <2>2, <2>3 DEF Descriptor
  <2> DEFINE t == Append(rs, r)
  <2>5. /\ t \in Seq(Descriptor) /\ Len(t) = Len(rs) + 1 /\ t[Len(rs) + 1] = r
        /\ \A i \in 1..Len(rs) : t[i] = rs[i]
        /\ Len(rs) \in Nat
    BY <1>1, <2>4
  <2>6. Read(rs, line) = t
    BY <1>4 DEF Read, r, id
  <2> HIDE DEF t
  <2>7. ASSUME NEW i \in 1..Len(t)
        PROVE  t[i].id = i
    <3>1. CASE i \in 1..Len(rs)
      BY <2>5, <3>1 DEF Numbered
    <3>2. CASE i = Len(rs) + 1
      <4>1. t[i] = r /\ id = i
        BY <2>5, <3>2 DEF id
      <4> QED  BY <2>4, <4>1
    <3>3. i \in 1..Len(rs) \/ i = Len(rs) + 1
      BY <2>5
    <3> QED  BY <3>1, <3>2, <3>3
  <2> QED  BY <2>5, <2>6, <2>7 DEF Numbered
<1> QED  BY <1>3, <1>4

\* The loop over the lines of the file.
IsLoading(f, lines) ==
    f = [n \in 0..Len(lines) |-> IF n = 0 THEN <<>> ELSE Read(f[n - 1], lines[n])]

LEMMA LoadNumbers ==
    ASSUME NEW lines \in Seq(Line)
    PROVE  Numbered(Load(lines))
<1> DEFINE k == Len(lines)
           X == {rs \in Seq(Descriptor) : Numbered(rs)}
           D == [n \in 0..k |-> X]
           F == [p \in (1..k) \X X |-> Read(p[2], lines[p[1]])]
<1>1. k \in Nat /\ \A n \in 1..k : lines[n] \in Line
  OBVIOUS
<1>2. <<>> \in D[0]
  <2>1. 0 \in 0..k /\ <<>> \in Seq(Descriptor) /\ Len(<<>>) = 0
    BY <1>1
  <2>2. Numbered(<<>>)
    BY <2>1 DEF Numbered
  <2> QED  BY <2>1, <2>2
<1>3. ASSUME NEW n \in 1..k, NEW x \in D[n - 1]
      PROVE  F[<<n, x>>] = Read(x, lines[n]) /\ Read(x, lines[n]) \in D[n]
  <2>1. n \in 0..k /\ n - 1 \in 0..k
    BY <1>1
  <2>2. x \in X /\ Numbered(x)
    BY <2>1
  <2>3. Numbered(Read(x, lines[n]))
    BY <1>1, <2>2, ReadKeeps
  <2>4. Read(x, lines[n]) \in X
    BY <2>3 DEF Numbered
  <2>5. <<n, x>> \in (1..k) \X X
    BY <2>2
  <2>6. F[<<n, x>>] = Read(x, lines[n])
    <3> HIDE DEF X
    <3> QED  BY <2>5
  <2> QED  BY <2>1, <2>4, <2>6
<1>4. \A n \in 1..k : \A x \in D[n - 1] : F[<<n, x>>] \in D[n]
  <2> HIDE DEF D, F
  <2> QED  BY <1>3
<1>5. PICK h : RunOf(h, k, <<>>, F)
  <2> HIDE DEF k, F
  <2> QED  BY <1>1, RunExists
<1> HIDE DEF F
<1>6. h[0] = <<>> /\ \A n \in 1..k : h[n] = F[<<n, h[n - 1]>>]
  <2> HIDE DEF k
  <2> QED  BY <1>1, <1>5, RunSteps
<1>7. \A n \in 0..k : h[n] \in D[n]
  <2>1. h[0] \in D[0]
    <3> HIDE DEF D
    <3> QED  BY <1>2, <1>6
  <2>2. \A n \in 1..k : h[n - 1] \in D[n - 1] => h[n] = F[<<n, h[n - 1]>>]
    BY <1>6
  <2> HIDE DEF k, D
  <2> QED  BY <1>1, <1>4, <2>1, <2>2, RunStays
<1>8. IsLoading(h, lines)
  <2>1. ASSUME NEW n \in 0..k
        PROVE  (IF n = 0 THEN <<>> ELSE F[<<n, h[n - 1]>>])
                 = IF n = 0 THEN <<>> ELSE Read(h[n - 1], lines[n])
    <3> HIDE DEF D
    <3>1. CASE n # 0
      <4>1. n \in 1..k /\ n - 1 \in 0..k
        BY <1>1, <3>1
      <4> QED  BY <1>3, <1>7, <4>1
    <3> QED  BY <3>1
  <2> HIDE DEF D
  <2>2. h = [n \in 0..k |-> IF n = 0 THEN <<>> ELSE F[<<n, h[n - 1]>>]]
    BY <1>5 DEF RunOf
  <2>3. h = [n \in 0..k |-> IF n = 0 THEN <<>> ELSE Read(h[n - 1], lines[n])]
    <3> HIDE DEF k
    <3> QED  BY <2>1, <2>2
  <2> QED  BY <2>3 DEF IsLoading
<1> DEFINE f == CHOOSE x : IsLoading(x, lines)
<1>9. IsLoading(f, lines)
  <2> HIDE DEF D
  <2> QED  BY <1>8
<1>10. Load(lines) = f[k]
  BY DEF Load, IsLoading, Read
<1> HIDE DEF f
<1>11. f[0] = <<>> /\ \A n \in 1..k : f[n] = Read(f[n - 1], lines[n])
  <2>1. \A n \in 0..k : f[n] = IF n = 0 THEN <<>> ELSE Read(f[n - 1], lines[n])
    <3>1. f = [n \in 0..k |-> IF n = 0 THEN <<>> ELSE Read(f[n - 1], lines[n])]
      BY <1>9 DEF IsLoading
    <3> QED  BY <3>1
  <2>2. 0 \in 0..k /\ \A n \in 1..k : n \in 0..k /\ n # 0
    BY <1>1
  <2>3. f[0] = <<>>
    <3>1. f[0] = IF 0 = 0 THEN <<>> ELSE Read(f[0 - 1], lines[0])
      BY <2>1, <2>2
    <3> QED  BY <3>1
  <2>4. \A n \in 1..k : f[n] = Read(f[n - 1], lines[n])
    BY <2>1, <2>2
  <2> QED  BY <2>3, <2>4
<1>12. \A n \in 0..k : f[n] \in D[n]
  <2> HIDE DEF k, D
  <2>1. \A n \in 1..k : f[n - 1] \in D[n - 1] => f[n] = F[<<n, f[n - 1]>>]
    BY <1>3, <1>11
  <2>2. f[0] \in D[0]
    BY <1>2, <1>11
  <2> QED  BY <1>1, <1>4, <2>1, <2>2, RunStays
<1> QED
  <2>1. k \in 0..k
    BY <1>1
  <2> QED  BY <1>10, <1>12, <2>1

\* A clock with nothing but the first tick on it.
LEMMA FirstTickAlone ==
    ASSUME NEW e \in EventType, e.what = "tick", NEW u, u = <<e>>
    PROVE  /\ InOrder(u, 0) /\ Feeding(u) = 0 /\ Arriving(u) = 0 /\ Ending(u) = 0
           /\ Ticking(u) = 1 /\ Scalings(u) = 0
           /\ DOMAIN u = {1} /\ u[1] = e
<1>1. u \in Seq(EventType) /\ DOMAIN u = {1} /\ u[1] = e
  OBVIOUS
<1>2. ASSUME NEW W
      PROVE  /\ e.what \in W => Count(u, W) = 1
             /\ e.what \notin W => Count(u, W) = 0
  <2>1. CASE e.what \in W
    <3>1. Places(u, W) = {1}
      BY <1>1, <2>1 DEF Places
    <3> QED  BY <2>1, <3>1, FS_Singleton DEF Count
  <2>2. CASE e.what \notin W
    <3>1. Places(u, W) = {}
      BY <1>1, <2>2 DEF Places
    <3> QED  BY <2>2, <3>1, FS_EmptySet DEF Count
  <2> QED  BY <2>1, <2>2
<1>3. /\ "tick" \notin Feeds /\ "tick" \notin {"arrive"} /\ "tick" \notin {"end"}
      /\ "tick" \in {"tick"} /\ "tick" \notin {"spun_up", "scaled"}
  BY DEF Feeds
<1>4. /\ Feeding(u) = 0 /\ Arriving(u) = 0 /\ Ending(u) = 0 /\ Ticking(u) = 1 /\ Scalings(u) = 0
  BY <1>2, <1>3 DEF Feeding, Arriving, Ending, Ticking, Scalings
<1>5. e.at \in Nat
  BY DEF EventType
<1>6. Ordered(u) /\ ArrivalFirst(u) /\ \A i \in DOMAIN u : u[i].at >= 0
  <2>1. Ordered(u)
    BY <1>1 DEF Ordered
  <2>2. ArrivalFirst(u)
    BY <1>1, <1>3 DEF ArrivalFirst
  <2>3. \A i \in DOMAIN u : u[i].at >= 0
    BY <1>1, <1>5
  <2> QED  BY <2>1, <2>2, <2>3
<1> QED  BY <1>1, <1>4, <1>6 DEF InOrder

\* An agent that has not acted.
LEMMA NewAgentOK ==
    ASSUME NEW g \in NewAgents
    PROVE  AgentOK(g, 0)
<1>1. /\ g \in AgentType /\ g.counts = NoCounts /\ g.reported = NoCounts /\ g.taken = <<>>
      /\ g.kind = "spendy" => g.actions = <<>>
      /\ \A i, k \in DOMAIN g.actions : g.actions[i] = g.actions[k] => i = k
  <2>1. g = NewAgent(g.kind, g.actions)
    BY DEF NewAgents
  <2>2. g.counts = NoCounts /\ g.reported = NoCounts /\ g.taken = <<>>
    BY <2>1 DEF NewAgent
  <2> QED  BY <2>2 DEF NewAgents
<1>2. Counted(g)
  <2> SUFFICES ASSUME NEW a \in ActionTypes
               PROVE  g.counts[a] + g.reported[a]
                        = Cardinality({n \in DOMAIN g.taken : g.taken[n].action = a})
    BY DEF Counted
  <2>1. NoCounts[a] = 0
    BY DEF NoCounts
  <2>2. {n \in DOMAIN g.taken : g.taken[n].action = a} = {}
    BY <1>1
  <2> QED  BY <1>1, <2>1, <2>2, FS_EmptySet
<1>3. Apart(g)
  <2>1. g.actions \in Seq(Actions)
    BY <1>1 DEF AgentType
  <2>2. DOMAIN g.actions = 1..Len(g.actions)
    BY <2>1
  <2>3. NoRepeats(g.actions)
    BY <1>1, <2>2 DEF NoRepeats
  <2>4. NoRepeats(g.taken) /\ Elements(g.taken) = {}
    BY <1>1 DEF NoRepeats, Elements
  <2> QED  BY <2>3, <2>4 DEF Apart
<1>4. \A i \in DOMAIN g.taken : g.taken[i].time <= 0
  BY <1>1
<1> QED  BY <1>1, <1>2, <1>3, <1>4 DEF AgentOK

\* What a generator schedules when it starts: nothing, or its first event.
LEMMA StartSchedules ==
    ASSUME NEW u, NEW tick \in EventType, tick.what = "tick", u = <<tick>>, NEW g, GenOK(g), NEW isFed,
           g.current = 0, NEW v,
           \/ v = InsertAll(u, <<>>) /\ ~isFed
           \/ \E b \in EventType : /\ b.what \in Feeds /\ EventOK(b, g, tick.at)
                                   /\ v = InsertAll(u, <<b>>)
    PROVE  /\ AgendaOK(v, 0, g, tick.at, isFed)
           /\ Arriving(v) = 0 /\ Ending(v) = 0 /\ Scalings(v) = 0
<1>1. /\ InOrder(u, 0) /\ Feeding(u) = 0 /\ Arriving(u) = 0 /\ Ending(u) = 0
      /\ Ticking(u) = 1 /\ Scalings(u) = 0
      /\ DOMAIN u = {1} /\ u[1] = tick
  BY FirstTickAlone
<1>2. \A i \in DOMAIN u : EventOK(u[i], g, tick.at)
  <2>1. EventOK(tick, g, tick.at)
    BY DEF EventOK
  <2> QED  BY <1>1, <2>1
<1>3. CASE v = InsertAll(u, <<>>) /\ ~isFed
  <2>1. v = u
    BY <1>3, InsertNone
  <2>2. Feeding(v) <= 1 /\ Arriving(v) <= 1
    BY <1>1, <2>1
  <2> QED  BY <1>1, <1>2, <1>3, <2>1, <2>2 DEF AgendaOK, InOrder
<1>4. ASSUME NEW b \in EventType, b.what \in Feeds, EventOK(b, g, tick.at), v = InsertAll(u, <<b>>)
      PROVE  /\ AgendaOK(v, 0, g, tick.at, isFed)
             /\ Arriving(v) = 0 /\ Ending(v) = 0 /\ Scalings(v) = 0
  <2>1. v = Insert(u, b)
    BY <1>4, InsertOne
  <2>2. b.at >= 0 /\ b.at \in Nat
    BY DEF EventType
  <2>3. \A i \in DOMAIN u : u[i].what = "arrive" => u[i].at <= 0
    BY <1>1
  <2>4. /\ Adds(v, u, b) /\ InOrder(v, 0) /\ Feeding(v) = 1 /\ Arriving(v) = 0
        /\ Ending(v) = 0 /\ Ticking(v) = 1 /\ Scalings(v) = 0
    BY <1>1, <1>4, <2>1, <2>2, <2>3, FeedScheduled
  <2>5. \A i \in DOMAIN v : EventOK(v[i], g, tick.at)
    <3> SUFFICES ASSUME NEW i \in DOMAIN v  PROVE EventOK(v[i], g, tick.at)
      OBVIOUS
    <3>1. v[i] = b \/ \E k \in DOMAIN u : v[i] = u[k]
      BY <2>4, AddsEvents
    <3> QED  BY <1>2, <1>4, <3>1
  <2>6. Feeding(v) <= 1 /\ Arriving(v) <= 1
    BY <2>4
  <2> QED  BY <2>4, <2>5, <2>6 DEF AgendaOK, InOrder
<1> QED  BY <1>3, <1>4

LEMMA InitHolds ==
    ASSUME Init
    PROVE  Inv
<1> DEFINE tick == FirstTick(first)
           u == <<tick>>
<1>1. /\ now = 0 /\ running = TRUE /\ first \in FirstDelays /\ ticks = 0 /\ agents \in Rosters
      /\ coll = [num_workers |-> NumWorkers, half_ocus |-> HalfOcus, steady |-> TRUE, target |-> 0]
      /\ index = [total_requests |-> 0, reported |-> 0] /\ arrivals = <<>>
  BY DEF Init
<1>2. first \in Nat /\ Period \in Nat
  BY <1>1, SimulationAssumption
<1>3. tick \in EventType /\ tick.what = "tick" /\ tick.at = TickTime(ticks + 1)
  <2> DEFINE t == IF first > 0 THEN first ELSE Period
  <2>1. t \in Nat /\ "tick" \in Kinds
    BY <1>2 DEF Kinds
  <2>2. tick = Event("tick", t)
    BY DEF FirstTick
  <2>3. TickTime(ticks + 1) = t + ((0 + 1) - 1) * Period
    BY <1>1 DEF TickTime
  <2> HIDE DEF t, tick
  <2>4. t + ((0 + 1) - 1) * Period = t
    <3>1. ((0 + 1) - 1) * Period = 0
      BY <1>2
    <3> QED  BY <2>1, <3>1
  <2> QED  BY <2>1, <2>2, <2>3, <2>4, EventTyped
<1> HIDE DEF tick
<1>4. /\ GenOK(gen) /\ gen.current = 0
      /\ \/ agenda = InsertAll(u, <<>>) /\ ~Fed
         \/ \E b \in EventType : /\ b.what \in Feeds /\ EventOK(b, gen, tick.at)
                                 /\ agenda = InsertAll(u, <<b>>)
  <2>1. CASE \E lines \in Workloads :
               /\ gen = Loaded(lines)
               /\ agenda = InsertAll(u, WorkloadStart(gen))
    <3>1. PICK lines \in Workloads : /\ gen = Loaded(lines)
                                     /\ agenda = InsertAll(u, WorkloadStart(gen))
      BY <2>1
    <3> DEFINE rs == Load(lines)
    <3>2. lines \in Seq(Line)
      BY SimulationAssumption
    <3>3. Numbered(rs)
      BY <3>2, LoadNumbers
    <3>4. gen = [ kind |-> "loaded", requests |-> rs, current |-> 0,
                  active |-> TRUE, has_rate |-> FALSE, has_index |-> FALSE ]
      BY <3>1 DEF Loaded
    <3> HIDE DEF rs
    <3>5. rs \in Seq(Descriptor) /\ Len(rs) \in Nat
      BY <3>3 DEF Numbered
    <3>6. /\ gen \in GenType /\ gen.kind = "loaded" /\ gen.requests = rs /\ gen.current = 0
          /\ gen.active = TRUE
      BY <3>4, <3>5 DEF GenType
    <3>7. GenOK(gen)
      <4>1. gen.current <= Len(gen.requests)
        BY <3>5, <3>6
      <4> QED  BY <3>3, <3>6, <4>1 DEF GenOK, Numbered
    <3>8. CASE rs = <<>>
      <4>1. WorkloadStart(gen) = <<>> /\ ~Fed
        BY <3>6, <3>8 DEF WorkloadStart, Fed, IsLoaded
      <4> QED  BY <3>1, <3>6, <3>7, <4>1
    <3>9. CASE rs # <<>>
      <4> DEFINE b == Event("dispatch", rs[1].time)
      <4>1. Len(rs) \in Nat \ {0} /\ 1 \in 1..Len(rs) /\ rs[1] \in Descriptor
        BY <3>5, <3>9
      <4>2. rs[1].time \in Nat /\ "dispatch" \in Kinds
        BY <4>1 DEF Descriptor, Kinds
      <4>3. b \in EventType /\ b.what = "dispatch" /\ b.at = rs[1].time
        BY <4>2, EventTyped
      <4>4. WorkloadStart(gen) = <<b>>
        BY <3>6, <3>9 DEF WorkloadStart
      <4> HIDE DEF b
      <4>5. Latest(b.at, rs, 0 + 1)
        <5>1. 0 + 1 = 1 /\ \A i \in 1..1 : i = 1
          OBVIOUS
        <5>2. 1 \in 1..1 /\ rs[1].time <= rs[1].time
          BY <4>2
        <5> QED  BY <4>1, <4>3, <5>1, <5>2 DEF Latest
      <4>6. EventOK(b, gen, tick.at)
        <5>1. 0 < Len(rs)
          BY <4>1
        <5> QED  BY <3>6, <4>3, <4>5, <5>1 DEF EventOK
      <4>7. b.what \in Feeds
        BY <4>3 DEF Feeds
      <4> QED  BY <3>1, <3>6, <3>7, <4>3, <4>4, <4>6, <4>7
    <3> QED  BY <3>8, <3>9
  <2>2. CASE \E load \in SyntheticLoads, gap \in Gaps :
               /\ gen = Poisson(load)
               /\ agenda = InsertAll(u, NextGap(gen, gap, 0))
    <3>1. PICK load \in SyntheticLoads, gap \in Gaps :
               /\ gen = Poisson(load)
               /\ agenda = InsertAll(u, NextGap(gen, gap, 0))
      BY <2>2
    <3>2. load \in [has_rate : BOOLEAN, has_index : BOOLEAN] /\ gap \in Nat
      BY SimulationAssumption
    <3>3. <<>> \in Seq(Descriptor) /\ Len(<<>>) = 0
      OBVIOUS
    <3>4. /\ gen \in GenType /\ gen.kind = "poisson" /\ gen.requests = <<>> /\ gen.current = 0
          /\ gen.has_rate = load.has_rate
      BY <3>1, <3>2, <3>3 DEF Poisson, GenType
    <3>5. GenOK(gen)
      BY <3>3, <3>4 DEF GenOK
    <3>6. CASE ~gen.has_rate
      <4>1. NextGap(gen, gap, 0) = <<>> /\ ~Fed
        BY <3>4, <3>6 DEF NextGap, Fed, IsLoaded
      <4> QED  BY <3>1, <3>4, <3>5, <4>1
    <3>7. CASE gen.has_rate
      <4> DEFINE b == Event("poisson", 0 + gap)
      <4>1. NextGap(gen, gap, 0) = <<b>>
        BY <3>7 DEF NextGap
      <4>2. b \in EventType /\ b.what = "poisson"
        <5>1. 0 + gap \in Nat /\ "poisson" \in Kinds
          BY <3>2 DEF Kinds
        <5> QED  BY <5>1, EventTyped
      <4> HIDE DEF b
      <4>3. EventOK(b, gen, tick.at) /\ b.what \in Feeds
        BY <3>4, <4>2 DEF EventOK, Feeds
      <4> QED  BY <3>1, <3>4, <3>5, <4>1, <4>2, <4>3
    <3> QED  BY <3>6, <3>7
  <2>3. \/ \E lines \in Workloads :
             /\ gen = Loaded(lines)
             /\ agenda = InsertAll(u, WorkloadStart(gen))
        \/ \E load \in SyntheticLoads, gap \in Gaps :
             /\ gen = Poisson(load)
             /\ agenda = InsertAll(u, NextGap(gen, gap, 0))
    BY DEF Init, tick
  <2> QED  BY <2>1, <2>2, <2>3
<1>5. /\ AgendaOK(agenda, 0, gen, tick.at, Fed)
      /\ Arriving(agenda) = 0 /\ Ending(agenda) = 0 /\ Scalings(agenda) = 0
  BY <1>3, <1>4, StartSchedules
<1>6. AgendaOK(agenda, now, gen, TickTime(ticks + 1), running /\ Fed)
  BY <1>1, <1>3, <1>5 DEF AgendaOK
<1>7. FileOK(agenda, gen, arrivals)
  <2>1. DOMAIN arrivals = {} /\ 1..gen.current = {}
    BY <1>1, <1>4
  <2> QED  BY <2>1 DEF FileOK
<1>8. CollOK(coll) /\ OneScaling(agenda, coll)
  <2>1. coll \in CollType /\ coll.steady = TRUE
    <3>1. NumWorkers \in Nat \ {0} /\ HalfOcus \in Nat \ {0}
      BY SimulationAssumption
    <3> QED  BY <1>1, <3>1 DEF CollType
  <2> QED  BY <1>5, <2>1 DEF CollOK, OneScaling
<1>9. AgentsOK(agents, now)
  <2>1. agents \in Seq(NewAgents)
    BY <1>1, SimulationAssumption
  <2>2. NewAgents \subseteq AgentType
    BY DEF NewAgents
  <2>3. agents \in Seq(AgentType) /\ \A i \in DOMAIN agents : agents[i] \in NewAgents
    BY <2>1, <2>2, SeqMonotonic
  <2> QED  BY <1>1, <2>3, NewAgentOK DEF AgentsOK
<1>10. index \in IndexType /\ Balanced(agenda, index, arrivals)
  BY <1>1, <1>5 DEF IndexType, Balanced
<1>11. arrivals \in Seq(Arrivals) /\ Routed(arrivals)
  BY <1>1 DEF Routed
<1>12. now \in Nat /\ running \in BOOLEAN /\ running /\ first \in Nat /\ ticks \in Nat /\ ~(ticks > 0)
  BY <1>1, <1>2
<1> QED  BY <1>4, <1>6, <1>7, <1>8, <1>9, <1>10, <1>11, <1>12 DEF Inv

-----------------------------------------------------------------------------
(* The invariant holds throughout every run.                               *)

LEMMA StutterKeeps ==
    ASSUME Inv, UNCHANGED vars
    PROVE  Inv'
<1>1. TickTime(ticks + 1)' = TickTime(ticks + 1) /\ TickTime(ticks)' = TickTime(ticks)
  BY DEF vars, TickTime
<1>2. Fed' = Fed /\ IsLoaded' = IsLoaded
  BY DEF vars, Fed, IsLoaded
<1>3. ToldToStop' = ToldToStop
  BY DEF vars, ToldToStop, TakenByAny
<1>4. UNCHANGED <<now, agenda, running, gen, first, ticks, agents, coll, index, arrivals>>
  BY DEF vars
<1> QED  BY <1>1, <1>2, <1>3, <1>4 DEF Inv

\* The inductive invariant holds in every state of a run, whatever the workload,
\* the roster and the times.
THEOREM Invariance == Spec => []Inv
<1>1. Init => Inv
  BY InitHolds
<1>2. Inv /\ [Next]_vars => Inv'
  <2> SUFFICES ASSUME Inv, [Next]_vars
               PROVE  Inv'
    OBVIOUS
  <2>1. CASE DispatchNext
    BY <2>1, DispatchNextKeeps
  <2>2. CASE StopClock
    BY <2>2, StopClockKeeps
  <2>3. CASE PoissonNext
    BY <2>3, PoissonNextKeeps
  <2>4. CASE PoissonStops
    BY <2>4, PoissonStopsKeeps
  <2>5. CASE Arrive
    BY <2>5, ArriveKeeps
  <2>6. CASE End
    BY <2>6, EndKeeps
  <2>7. CASE Tick
    BY <2>7, TickKeeps
  <2>8. CASE SpunUp
    BY <2>8, SpunUpKeeps
  <2>9. CASE Scaled
    BY <2>9, ScaledKeeps
  <2>10. CASE UNCHANGED vars
    BY <2>10, StutterKeeps
  <2> QED  BY <2>1, <2>2, <2>3, <2>4, <2>5, <2>6, <2>7, <2>8, <2>9, <2>10 DEF Next
<1> QED  BY <1>1, <1>2, PTL DEF Spec

-----------------------------------------------------------------------------
(* The properties.                                                         *)

\* The agenda is in order and nothing on it is in the past, the configuration is
\* one that a scaling may have, and the books have their types.
THEOREM TypeCorrect == Spec => []TypeOK
<1>1. Inv => TypeOK
  BY DEF Inv, TypeOK, AgendaOK, Ordered, GenOK, GenType, CollOK, CollType, IndexType
<1> QED  BY <1>1, Invariance, PTL

\* The chains of events that the generator and the profiler make of themselves are
\* neither broken nor doubled, and the n-th tick comes at its time.
THEOREM ChainsHold == Spec => []EventChains
<1>1. Inv => EventChains
  <2> SUFFICES ASSUME Inv  PROVE EventChains
    OBVIOUS
  <2> DEFINE feeding  == Upcoming("dispatch") \cup Upcoming("stop") \cup Upcoming("poisson")
             arriving == {agenda[i].request.id : i \in Upcoming("arrive")}
  <2>1. /\ agenda \in Seq(EventType)
        /\ \A i \in DOMAIN agenda : EventOK(agenda[i], gen, TickTime(ticks + 1))
        /\ Feeding(agenda) <= 1 /\ Arriving(agenda) <= 1 /\ Ticking(agenda) = 1
        /\ running /\ Fed => Feeding(agenda) = 1
    BY DEF Inv, AgendaOK
  <2>2. feeding = Places(agenda, Feeds) /\ \A what : Upcoming(what) = Places(agenda, {what})
    BY DEF Upcoming, Places, Feeds
  <2>3. /\ Cardinality(feeding) = Feeding(agenda)
        /\ Cardinality(Upcoming("arrive")) = Arriving(agenda)
        /\ Cardinality(Upcoming("tick")) = Ticking(agenda)
    BY <2>2 DEF Count, Feeding, Arriving, Ticking
  <2>4. running /\ Fed => feeding # {}
    BY <2>1, <2>2, CountZero DEF Feeding
  <2>5. /\ Upcoming("dispatch") # {} => gen.current < Len(gen.requests)
        /\ Upcoming("stop") # {} => gen.current = Len(gen.requests)
        /\ arriving \subseteq {gen.current}
        /\ \A i \in Upcoming("tick") : agenda[i].at = TickTime(ticks + 1)
    BY <2>1 DEF Upcoming, EventOK
  <2> QED  BY <2>1, <2>3, <2>4, <2>5 DEF EventChains
<1> QED  BY <1>1, Invariance, PTL

LEMMA LatestIsMax ==
    ASSUME NEW requests \in Seq(Descriptor), NEW n, NEW t \in Nat, Latest(t, requests, n),
           NEW S, S = {requests[i].time : i \in 1..n}
    PROVE  t = Max(S)
<1>1. n \in 1..Len(requests) /\ \A i \in 1..n : requests[i].time \in Nat
  <2>1. n \in 1..Len(requests) /\ Len(requests) \in Nat
    BY DEF Latest
  <2>2. \A i \in 1..n : i \in 1..Len(requests)
    BY <2>1
  <2>3. \A i \in 1..Len(requests) : requests[i] \in Descriptor
    OBVIOUS
  <2> QED  BY <2>1, <2>2, <2>3 DEF Descriptor
<1>2. t \in S /\ \A y \in S : t >= y /\ y \in Nat
  BY <1>1 DEF Latest
<1>3. ASSUME NEW x \in S, \A y \in S : x >= y
      PROVE  x = t
  <2>1. t >= x /\ x >= t /\ x \in Nat
    BY <1>2, <1>3
  <2> QED  BY <2>1
<1> QED  BY <1>2, <1>3 DEF Max

\* A loaded workload arrives in the order of the file, each request for a known
\* index once, at the latest of the times up to its own.
THEOREM FiledArrivals == Spec => []ArrivesAsFiled
<1>1. Inv => ArrivesAsFiled
  <2> SUFFICES ASSUME Inv, IsLoaded
               PROVE  /\ \A i, k \in DOMAIN arrivals : i < k => arrivals[i].request.id < arrivals[k].request.id
                      /\ {a.request.id : a \in Elements(arrivals)}
                            \cup {agenda[i].request.id : i \in Upcoming("arrive")}
                           = {r.id : r \in {q \in Come : q.known}}
                      /\ \A a \in Elements(arrivals) :
                           a.at = Max({r.time : r \in {q \in Come : q.id <= a.request.id}})
    BY DEF ArrivesAsFiled
  <2> DEFINE rs == gen.requests
             n  == gen.current
  <2>1. /\ rs \in Seq(Descriptor) /\ n \in Nat /\ n <= Len(rs)
        /\ \A i \in 1..Len(rs) : rs[i].id = i
    BY DEF Inv, GenOK, GenType, IsLoaded
  <2>2. /\ \A i, k \in DOMAIN arrivals : i < k => arrivals[i].request.id < arrivals[k].request.id
        /\ \A i \in DOMAIN arrivals :
             /\ arrivals[i].request.id \in 1..n /\ rs[arrivals[i].request.id].known
             /\ Latest(arrivals[i].at, rs, arrivals[i].request.id)
        /\ \A m \in 1..n : rs[m].known =>
                \/ \E i \in DOMAIN arrivals : arrivals[i].request.id = m
                \/ \E i \in DOMAIN agenda : agenda[i].what = "arrive" /\ agenda[i].request.id = m
    BY DEF Inv, FileOK, IsLoaded
  <2>3. /\ arrivals \in Seq(Arrivals)
        /\ \A a \in Elements(arrivals) : \E i \in DOMAIN arrivals : a = arrivals[i]
        /\ \A i \in DOMAIN arrivals : arrivals[i] \in Elements(arrivals) /\ arrivals[i].at \in Nat
    <3>1. arrivals \in Seq(Arrivals)
      BY DEF Inv
    <3>2. \A i \in DOMAIN arrivals : arrivals[i] \in Arrivals
      BY <3>1
    <3> QED  BY <3>1, <3>2 DEF Elements, Arrivals
  <2>4. \A i \in Upcoming("arrive") :
           agenda[i].request.id = n /\ n \in 1..Len(rs) /\ rs[n].known
    BY DEF Inv, AgendaOK, EventOK, Upcoming, Latest, IsLoaded
  <2>5. Come = {rs[m] : m \in 1..n}
    BY <2>1 DEF Come, Elements
  <2> HIDE DEF rs, n
  <2>6. \A m \in 1..n : m \in 1..Len(rs) /\ rs[m].id = m
    BY <2>1
  <2>7. {r.id : r \in {q \in Come : q.known}} = {m \in 1..n : rs[m].known}
    BY <2>5, <2>6
  <2>8. \A m \in {m \in 1..n : rs[m].known} :
           m \in {a.request.id : a \in Elements(arrivals)}
                    \cup {agenda[i].request.id : i \in Upcoming("arrive")}
    BY <2>2, <2>3 DEF Upcoming
  <2>9. \A a \in Elements(arrivals) : a.request.id \in {m \in 1..n : rs[m].known}
    BY <2>2, <2>3
  <2>10. \A i \in Upcoming("arrive") : agenda[i].request.id \in {m \in 1..n : rs[m].known}
    BY <2>1, <2>4
  <2>11. ASSUME NEW a \in Elements(arrivals)
         PROVE  a.at = Max({r.time : r \in {q \in Come : q.id <= a.request.id}})
    <3>1. a.request.id \in 1..n /\ Latest(a.at, rs, a.request.id) /\ a.at \in Nat
      BY <2>2, <2>3
    <3>2. {q \in Come : q.id <= a.request.id} = {rs[m] : m \in 1..a.request.id}
      <4>1. \A m \in 1..a.request.id : m \in 1..n
        BY <2>1, <3>1
      <4>2. \A m \in 1..n : m <= a.request.id => m \in 1..a.request.id
        BY <2>1, <3>1
      <4> QED  BY <2>5, <2>6, <4>1, <4>2
    <3>3. {r.time : r \in {q \in Come : q.id <= a.request.id}} = {rs[m].time : m \in 1..a.request.id}
      BY <3>2
    <3> QED  BY <2>1, <3>1, <3>3, LatestIsMax
  <2>12. {a.request.id : a \in Elements(arrivals)} \cup {agenda[i].request.id : i \in Upcoming("arrive")}
           = {m \in 1..n : rs[m].known}
    BY <2>8, <2>9, <2>10
  <2>13. \A a \in Elements(arrivals) :
            a.at = Max({r.time : r \in {q \in Come : q.id <= a.request.id}})
    BY <2>11
  <2> QED  BY <2>2, <2>7, <2>12, <2>13
<1> QED  BY <1>1, Invariance, PTL

\* When the generator stops the clock every request has arrived, and one that has
\* not ended takes at least the headroom.
THEOREM OnlyLongWorkCut == Spec => []StopCutsOnlyLongWork
<1>1. Inv => StopCutsOnlyLongWork
  <2> SUFFICES ASSUME Inv, IsLoaded, ~running, ~ToldToStop
               PROVE  /\ gen.current = Len(gen.requests)
                      /\ Upcoming("arrive") = {}
                      /\ \A i \in Upcoming("end"), a \in Elements(arrivals) :
                           a.request.id = agenda[i].request.id => agenda[i].at - a.at >= StopDelay
    BY DEF StopCutsOnlyLongWork
  <2> DEFINE rs == gen.requests
             n  == gen.current
  <2>1. n = Len(rs) /\ Arriving(agenda) = 0 /\ Latest(now - StopDelay, rs, n)
    BY DEF Inv, StopOK
  <2>2. agenda \in Seq(EventType) /\ \A i \in DOMAIN agenda : agenda[i].at >= now
    BY DEF Inv, AgendaOK
  <2>3. Upcoming("arrive") = {}
    BY <2>1, <2>2, NoneArriving DEF Upcoming
  <2>4. rs \in Seq(Descriptor) /\ n \in Nat
    BY DEF Inv, GenOK, GenType
  <2>5. \A i \in DOMAIN arrivals : arrivals[i].request.id \in 1..n /\ Latest(arrivals[i].at, rs, arrivals[i].request.id)
    BY DEF Inv, FileOK, IsLoaded
  <2>6. now \in Nat /\ StopDelay \in Nat
    BY SimulationAssumption DEF Inv
  <2> HIDE DEF rs, n
  <2>7. ASSUME NEW i \in Upcoming("end"), NEW k \in DOMAIN arrivals
        PROVE  agenda[i].at - arrivals[k].at >= StopDelay
    <3>1. PICK m \in 1..arrivals[k].request.id : rs[m].time = arrivals[k].at
      BY <2>5 DEF Latest
    <3>2. m \in 1..n
      BY <2>4, <2>5, <3>1
    <3>3. rs[m].time <= now - StopDelay
      BY <2>1, <3>2 DEF Latest
    <3>4. agenda[i].at >= now /\ agenda[i].at \in Nat
      <4>1. i \in DOMAIN agenda /\ agenda[i] \in EventType
        BY <2>2 DEF Upcoming
      <4> QED  BY <2>2, <4>1 DEF EventType
    <3>5. arrivals[k].at \in Nat
      <4>1. m \in 1..Len(rs)
        BY <2>1, <3>2
      <4>2. rs[m] \in Descriptor
        BY <2>4, <4>1
      <4> QED  BY <3>1, <4>2 DEF Descriptor
    <3> QED  BY <2>6, <3>1, <3>3, <3>4, <3>5
  <2> QED  BY <2>1, <2>3, <2>7 DEF Elements, rs, n
<1> QED  BY <1>1, Invariance, PTL

\* Every action that is due is taken, once, at its time or later, and is counted
\* in one report.
THEOREM ActionsOnce == Spec => []ActionsAreTakenOnce
<1>1. Inv => ActionsAreTakenOnce
  <2> SUFFICES ASSUME Inv, NEW i \in DOMAIN agents
               PROVE  LET g == agents[i]
                      IN  /\ \A t \in ActionTypes :
                               g.counts[t] + g.reported[t]
                                  = Cardinality({n \in DOMAIN g.taken : g.taken[n].action = t})
                          /\ g.kind = "oblivious" =>
                               /\ NoRepeats(g.taken) /\ NoRepeats(g.actions)
                               /\ TakenBy(g) \cap Elements(g.actions) = {}
                               /\ \A a \in TakenBy(g) : a.time <= now
                          /\ \A a \in Elements(g.actions) : ticks > 0 => a.time > TickTime(ticks)
    BY DEF ActionsAreTakenOnce
  <2> DEFINE g == agents[i]
  <2>1. AgentOK(g, now) /\ (ticks > 0 => Waits(g, TickTime(ticks)))
    BY DEF Inv, AgentsOK
  <2> HIDE DEF g
  <2>2. /\ \A t \in ActionTypes :
             g.counts[t] + g.reported[t]
                = Cardinality({n \in DOMAIN g.taken : g.taken[n].action = t})
        /\ g \in AgentType
        /\ g.kind = "oblivious" =>
             Apart(g) /\ \A n \in DOMAIN g.taken : g.taken[n].time <= now
    BY <2>1 DEF AgentOK, Counted
  <2>3. DOMAIN g.taken = 1..Len(g.taken) /\ DOMAIN g.actions = 1..Len(g.actions)
    BY <2>2 DEF AgentType
  <2>4. \A a \in Elements(g.actions) : ticks > 0 => a.time > TickTime(ticks)
    BY <2>1, <2>3 DEF Waits, Elements
  <2>5. g.kind = "oblivious" =>
             /\ NoRepeats(g.taken) /\ NoRepeats(g.actions)
             /\ TakenBy(g) \cap Elements(g.actions) = {}
             /\ \A a \in TakenBy(g) : a.time <= now
    BY <2>2, <2>3 DEF Apart, TakenBy, Elements
  <2> QED  BY <2>2, <2>4, <2>5 DEF g
<1> QED  BY <1>1, Invariance, PTL

\* While a scaling is under way no other starts, and its end is on the clock once.
THEOREM ScalingsOneByOne == Spec => []OneScalingAtATime
<1>1. Inv => OneScalingAtATime
  <2> SUFFICES ASSUME Inv  PROVE OneScalingAtATime
    OBVIOUS
  <2>1. CollOK(coll) /\ OneScaling(agenda, coll)
    BY DEF Inv
  <2>2. Upcoming("spun_up") \cup Upcoming("scaled") = Places(agenda, {"spun_up", "scaled"})
    BY DEF Upcoming, Places
  <2> QED  BY <2>1, <2>2 DEF OneScalingAtATime, OneScaling, CollOK, Scalings, Count
<1> QED  BY <1>1, Invariance, PTL

\* Every request that arrived is on the clock, counted by the index, or in one of
\* its reports.
THEOREM CountsAddUp == Spec => []MetricsAddUp
<1>1. Inv => MetricsAddUp
  <2> SUFFICES ASSUME Inv  PROVE MetricsAddUp
    OBVIOUS
  <2>1. Balanced(agenda, index, arrivals)
    BY DEF Inv
  <2>2. Upcoming("end") = Places(agenda, {"end"})
    BY DEF Upcoming, Places
  <2> QED  BY <2>1, <2>2 DEF MetricsAddUp, Balanced, Ending, Count
<1> QED  BY <1>1, Invariance, PTL

\* A GET or PUT goes to one shard of the index, whatever its document and hash; a
\* SEARCH to some, each once, of the index unless a hash given to it is negative.
THEOREM RoutedInRange == Spec => []RoutesInRange
<1>1. Inv => RoutesInRange
  BY DEF Inv, RoutesInRange, Routed, RoutedWell, Elements
<1> QED  BY <1>1, Invariance, PTL
=============================================================================

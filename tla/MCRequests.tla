----------------------------- MODULE MCRequests -----------------------------
(* Requests on small instances.                                            *)
EXTENDS Requests, TLC

CONSTANTS w1, w2

\* Two shards with their primaries on one worker, one replicated to the other:
\* one search may fill the worker's queue, one write uses both.
Replicated == << <<w1, w2>>, <<w1>> >>

\* Three shards dealt to two workers (index_create_shards_distributed).
Distributed == << <<w1>>, <<w2>>, <<w1>> >>

\* The requests and the CPUs are interchangeable; the workers are not.
Symmetry == Permutations(Requests) \cup Permutations(Cpus)

\* No event is left: some CPU or disk is busy exactly when Event is enabled.
Idle == \A w \in Workers : Busy(worker[w]) = {} /\ worker[w].io = {}

\* FairSpec, with the ENABLED of its WF_vars(Event) written out as ~Idle, which
\* TLC evaluates much faster.
FairSpecUnfolded == Spec /\ ([]<>Idle \/ []<><<Event>>_vars)
=============================================================================

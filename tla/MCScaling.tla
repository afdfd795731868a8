----------------------------- MODULE MCScaling -----------------------------
(* Scaling on a small instance: two workers, then up to three more.        *)
EXTENDS Scaling, TLC

\* Fewer, as many with other OCUs, more; and two that are refused.
SomeTargets == {<<1, 2>>, <<2, 4>>, <<3, 2>>, <<0, 2>>, <<2, 0>>}

\* Two indices, one with several shards per worker.
TwoIndices == <<2, 1>>

Symmetry == Permutations(Jobs) \cup Permutations(Cpus)
=============================================================================

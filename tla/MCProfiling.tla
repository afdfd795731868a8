----------------------------- MODULE MCProfiling -----------------------------
(* Profiling on small instances.                                           *)
EXTENDS Profiling, TLC

\* The jobs and the CPUs are interchangeable.
Symmetry == Permutations(Jobs) \cup Permutations(Cpus)
=============================================================================

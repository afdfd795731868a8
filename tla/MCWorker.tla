------------------------------ MODULE MCWorker ------------------------------
(* Worker and its ring on a small instance: two CPUs, and one job more than *)
(* the limit, so that calls run, wait and are refused.                      *)
EXTENDS WorkerQueue
=============================================================================

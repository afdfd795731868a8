------------------------------ MODULE MCClock ------------------------------
(* Clock on a small instance.                                              *)
EXTENDS Clock

\* Durations before, at and after the present.
SomeDelays == {-1, 0, 1, 2}
=============================================================================

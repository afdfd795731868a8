---------------------------- MODULE BoundedServer ----------------------------
(***************************************************************************)
(* What a worker's CPU pool promises (abstract specification): N servers   *)
(* and one waiting line shared by at most Limit customers.  A customer is  *)
(* served at once when a server is free, else waits its turn; a finishing  *)
(* server takes the customer that has waited longest.  After closing,      *)
(* nobody joins the line and those still in it may be turned away.         *)
(***************************************************************************)
EXTENDS Integers, Sequences, FiniteSets

CONSTANTS
    Customers,
    N,          \* how many servers, at least one
    Limit       \* how many customers at most, waiting or served

VARIABLES serving, line, open

vars == <<serving, line, open>>

InLine == {line[i] : i \in 1..Len(line)}

Init == serving = {} /\ line = <<>> /\ open = TRUE

\* A free server takes an arriving customer; nobody waits at that time.
Serve(j) ==
    /\ j \notin serving \cup InLine
    /\ Cardinality(serving) < N
    /\ line = <<>>
    /\ Cardinality(serving) < Limit
    /\ serving' = serving \cup {j}
    /\ UNCHANGED <<line, open>>

\* All servers are taken: the customer joins the line.
Wait(j) ==
    /\ open
    /\ j \notin serving \cup InLine
    /\ Cardinality(serving) = N
    /\ N + Len(line) < Limit
    /\ line' = Append(line, j)
    /\ UNCHANGED <<serving, open>>

\* A customer leaves, and whoever has waited longest takes the server.
Leave(j) ==
    /\ j \in serving
    /\ IF line = <<>>
         THEN serving' = serving \ {j} /\ line' = line
         ELSE serving' = (serving \ {j}) \cup {Head(line)} /\ line' = Tail(line)
    /\ UNCHANGED open

Close == open /\ open' = FALSE /\ UNCHANGED <<serving, line>>

TurnAway ==
    /\ ~open
    /\ line # <<>>
    /\ line' = Tail(line)
    /\ UNCHANGED <<serving, open>>

Next ==
    \/ \E j \in Customers : Serve(j) \/ Wait(j) \/ Leave(j)
    \/ Close
    \/ TurnAway

\* A customer who is served eventually leaves.
Fairness == \A j \in Customers : WF_vars(Leave(j))

Spec     == Init /\ [][Next]_vars
FairSpec == Spec /\ Fairness
==============================================================================

---------------------------- MODULE MCSimulation ----------------------------
(* Simulation on a small instance.                                         *)
EXTENDS Simulation

\* Lines of a workload file, not in order of time.  Shards are chosen by the
\* document, also a negative one, by a given hash or by its negative.  A hash given
\* to a SEARCH may be negative too.
SomeLines ==
    { [type |-> "GET",    time |-> 2, known |-> TRUE,  document |-> -2, given |-> <<>>],
      [type |-> "PUT",    time |-> 0, known |-> TRUE,  document |-> 4,  given |-> <<-3, 1>>],
      [type |-> "SEARCH", time |-> 1, known |-> TRUE,  document |-> 0,  given |-> <<3, 4, 5>>],
      [type |-> "SEARCH", time |-> 1, known |-> TRUE,  document |-> 0,  given |-> <<2, -1, -4>>],
      [type |-> "GET",    time |-> 1, known |-> TRUE,  document |-> 6,  given |-> <<2>>],
      [type |-> "none",   time |-> 3, known |-> FALSE, document |-> 4,  given |-> <<2>>] }

BlankLine == [type |-> "blank", time |-> 0, known |-> FALSE, document |-> 0, given |-> <<>>]

\* Every file of at most three of these lines, and some with blank lines.
SomeWorkloads ==
    UNION {[1..n -> SomeLines] : n \in 0..3} \cup {<<BlankLine, l, BlankLine>> : l \in SomeLines}

SomeSyntheticLoads == [has_rate : BOOLEAN, has_index : BOOLEAN]

Scripted(id, time, action, count) ==
    [id |-> id, time |-> time, action |-> action, count |-> count, half_ocus |-> 3]

\* Actions due together and later, refused and taken on, that stop the clock.
SomeRosters ==
    { <<>>,
      << NewAgent("oblivious", << Scripted(1, 1, "ScaleDown", 2), Scripted(2, 4, "ScaleIn", 1),
                                  Scripted(3, 0, "ScaleOut", 1), Scripted(4, 2, "ScaleTo", 1) >>),
         NewAgent("spendy", <<>>) >>,
      << NewAgent("spendy", <<>>),
         NewAgent("oblivious", << Scripted(1, 2, "ShutDown", 0), Scripted(2, 2, "ScaleUp", 1) >>) >> }

\* No event can be handled: the ENABLED of Next, written out.
Stuck == ~running \/ agenda = <<>> \/ Present > Horizon

\* FairSpec, with the ENABLED of its WF_vars(Next) written out as ~Stuck, which
\* TLC evaluates much faster.
FairSpecUnfolded == Spec /\ ([]<>Stuck \/ []<><<Next>>_vars)
=============================================================================

------------------------------- MODULE Agents -------------------------------
(***************************************************************************)
(* The agents that the profiler calls at each tick (agent.c) and what the  *)
(* collection answers when they ask for a scaling (collection_scale_to and *)
(* its relatives; Scaling.tla has what a scaling then does).               *)
(*                                                                         *)
(* An agent acts on a world: the collection's configuration, the scalings  *)
(* taken on at this tick and whether the clock has been told to stop.      *)
(***************************************************************************)
EXTENDS Integers, Sequences, SequencesExt

CONSTANT Minute         \* 60.0 seconds

ASSUME AgentsAssumption == Minute \in Nat \ {0}

ActionTypes == {"ScaleUp", "ScaleDown", "ScaleOut", "ScaleIn", "ScaleTo", "ShutDown"}

NoCounts == [t \in ActionTypes |-> 0]

\* trigger_time, action, count or num_workers, half_ocus; id tells the actions of
\* a list apart.
Actions ==
    [id : Nat, time : Int, action : ActionTypes, count : Int, half_ocus : Int]

\* An agent; taken and reported are histories.
AgentType ==
    [ kind : {"oblivious", "spendy"}, actions : Seq(Actions), counts : [ActionTypes -> Nat],
      taken : Seq(Actions), reported : [ActionTypes -> Nat] ]

\* An agent that has not acted: an oblivious one with its list of actions, or a
\* spendy one.
NewAgent(kind, actions) ==
    [ kind |-> kind, actions |-> actions, counts |-> NoCounts,
      taken |-> <<>>, reported |-> NoCounts ]

NewAgents ==
    {g \in AgentType :
        /\ g = NewAgent(g.kind, g.actions)
        /\ g.kind = "spendy" => g.actions = <<>>
        /\ \A i, k \in DOMAIN g.actions : g.actions[i] = g.actions[k] => i = k}

-----------------------------------------------------------------------------
(* The collection's configuration.                                         *)

\* Mutants: a scaling may start while another is under way; the numbers asked
\* for are not looked at.
AcceptsAlways(coll, num, half) ==
    /\ <<num, half>> # <<coll.num_workers, coll.half_ocus>>
    /\ num >= 1 /\ half >= 1
AcceptsAnything(coll, num, half) ==
    /\ coll.steady
    /\ <<num, half>> # <<coll.num_workers, coll.half_ocus>>

\* The conditions of collection_scale_to.
Accepts(coll, num, half) ==
    /\ coll.steady
    /\ <<num, half>> # <<coll.num_workers, coll.half_ocus>>
    /\ num >= 1 /\ half >= 1

\* collection_scale_to: num_workers counts old and new workers until the
\* scaling ends.
ScaleTo(coll, num, half) ==
    IF Accepts(coll, num, half)
      THEN [ num_workers |-> coll.num_workers + num, half_ocus |-> half,
             steady |-> FALSE, target |-> num ]
      ELSE coll

\* What an action asks of the collection.
Asked(coll, a) ==
    CASE a.action = "ScaleUp"   -> ScaleTo(coll, coll.num_workers, coll.half_ocus + a.count)
      [] a.action = "ScaleDown" -> ScaleTo(coll, coll.num_workers, coll.half_ocus - a.count)
      [] a.action = "ScaleOut"  -> ScaleTo(coll, coll.num_workers + a.count, coll.half_ocus)
      [] a.action = "ScaleIn"   -> ScaleTo(coll, coll.num_workers - a.count, coll.half_ocus)
      [] a.action = "ScaleTo"   -> ScaleTo(coll, a.count, a.half_ocus)
      [] a.action = "ShutDown"  -> coll

-----------------------------------------------------------------------------
(* Acting.  world is [coll, started, stopped]: the collection, how many    *)
(* scalings it has taken on at this tick, whether the clock was stopped.   *)

\* The action is counted and carried out; whether the collection takes it on is
\* not looked at.
Take(agent, a) ==
    [agent EXCEPT !.counts[a.action] = @ + 1, !.taken = Append(@, a)]

Affect(world, a) ==
    LET coll == Asked(world.coll, a)
    IN  [ coll    |-> coll,
          started |-> world.started + IF coll # world.coll THEN 1 ELSE 0,
          stopped |-> world.stopped \/ a.action = "ShutDown" ]

\* The last item takes the place of the i-th.
DropAction(actions, i) == Front([actions EXCEPT ![i] = Last(actions)])

\* Mutant: the loop goes on after the place of an action it has dropped.
ObliviousTurnOn(time, s) ==
    LET a == s.agent.actions[s.at]
    IN  CASE s.at > Len(s.agent.actions) -> s
          [] s.at <= Len(s.agent.actions) /\ time >= a.time ->
               [ agent |-> [Take(s.agent, a) EXCEPT !.actions = DropAction(@, s.at)],
                 world |-> Affect(s.world, a), at |-> s.at + 1 ]
          [] OTHER -> [s EXCEPT !.at = @ + 1]

\* A turn of the loop of oblivious_act, at position at.
ObliviousTurn(time, s) ==
    LET a == s.agent.actions[s.at]
    IN  IF time >= a.time
          THEN [ agent |-> [Take(s.agent, a) EXCEPT !.actions = DropAction(@, s.at)],
                 world |-> Affect(s.world, a), at |-> s.at ]
          ELSE [s EXCEPT !.at = @ + 1]

\* oblivious_act: each turn drops an action or passes over it, so there are as
\* many turns as actions.
ObliviousAct(agent, world, time) ==
    LET after[n \in 0..Len(agent.actions)] ==
            IF n = 0 THEN [agent |-> agent, world |-> world, at |-> 1]
                     ELSE ObliviousTurn(time, after[n - 1])
    IN  after[Len(agent.actions)]

\* spendy_act: in the first of every five minutes it adds half an OCU to every
\* worker if the CPUs' mean utilization was high.
SpendyAct(agent, world, time, busy) ==
    LET a == [id |-> 0, time |-> time, action |-> "ScaleUp", count |-> 1, half_ocus |-> 0]
    IN  IF busy /\ (time \div Minute) % 5 = 0
          THEN [agent |-> Take(agent, a), world |-> Affect(world, a)]
          ELSE [agent |-> agent, world |-> world]

\* agent_act.
Act(agent, world, time, busy) ==
    IF agent.kind = "spendy" THEN SpendyAct(agent, world, time, busy)
                             ELSE ObliviousAct(agent, world, time)

\* Mutant: the counts are not reset.
ReportKeeps(agent) ==
    [agent EXCEPT !.reported = [t \in ActionTypes |-> @[t] + agent.counts[t]]]

\* agent_run_profiler.
Report(agent) ==
    [agent EXCEPT !.reported = [t \in ActionTypes |-> @[t] + agent.counts[t]],
                  !.counts   = NoCounts]
=============================================================================

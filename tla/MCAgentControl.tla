---------------------------- MODULE MCAgentControl ----------------------------
(* The instances of AgentControl: a store that has to prune between two turns, *)
(* where one task runs at a time, and a budget that three tasks of one turn,   *)
(* two of them at a time, compete for.                                         *)
EXTENDS AgentControl

Pruning ==
  [depth |-> 2, children |-> 2, per_turn |-> 3, stored |-> 2, concurrent |-> 1,
   steps |-> 2, tokens |-> 3, requested |-> 1, turns |-> 2]

Competing ==
  [depth |-> 2, children |-> 2, per_turn |-> 3, stored |-> 3, concurrent |-> 2,
   steps |-> 3, tokens |-> 3, requested |-> 2, turns |-> 1]

MCConfigs == {Pruning, Competing}

=============================================================================

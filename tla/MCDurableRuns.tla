----------------------------- MODULE MCDurableRuns -----------------------------
(* DurableRuns on a small instance.  Runs and tool calls are interchangeable:  *)
(* no definition singles one out, and no liveness property is checked.         *)
EXTENDS DurableRuns, TLC

Symmetry == Permutations(Runs) \cup Permutations(Tools)

=============================================================================

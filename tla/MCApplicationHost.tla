--------------------------- MODULE MCApplicationHost ---------------------------
(* ApplicationHost on small instances: two runs, each of a session of its own, *)
(* and a single run of a single session.                                       *)
EXTENDS ApplicationHost, TLC

CONSTANTS r1, r2, s1, s2

\* The source session of each run.
MCSessionOf  == (r1 :> s1) @@ (r2 :> s2)
MCOneSession == r1 :> s1

\* The assembly of a child session does not raise: what is found is found
\* without a fault of the environment.
CleanAssembly ==
  \A t \in Hosts \X Runs :
    launch[t] = "assemble" /\ launch'[t] = "none" => worker'[t] = "agent" \/ lease' = Free

CleanSpec == Init /\ [][Next /\ CleanAssembly]_vars

=============================================================================

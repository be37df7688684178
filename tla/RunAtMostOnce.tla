----------------------------- MODULE RunAtMostOnce -----------------------------
(***************************************************************************)
(* What durable execution promises about one run, whatever crashes: it may *)
(* be begun again as long as none of its tools has had an effect; once one *)
(* has, the run can only be continued by the same attempt or be closed,    *)
(* and a closed run stays closed with the outcome it was given.            *)
(***************************************************************************)
CONSTANTS
  Runs,
  Outcomes,  \* how a run can end
  Open       \* it has not ended: none of the Outcomes

VARIABLES
  executing,  \* runs that an attempt is executing, or that died doing so
  touched,    \* runs one of whose tools has been executed
  outcome     \* for each run, its final status or Open

Init ==
  /\ executing = {}
  /\ touched = {}
  /\ outcome = [r \in Runs |-> Open]

Begin(r) ==
  /\ r \notin executing /\ r \notin touched /\ outcome[r] = Open
  /\ executing' = executing \cup {r}
  /\ UNCHANGED <<touched, outcome>>

Touch(r) ==
  /\ r \in executing
  /\ touched' = touched \cup {r}
  /\ UNCHANGED <<executing, outcome>>

\* Runs whose attempt ended are put back or closed; several at once, since
\* recovery after a crash and the claim of the next run are one transaction.
Settle(back, closed) ==
  /\ executing' = executing \ (back \cup closed)
  /\ \A r \in Runs : IF r \in closed THEN outcome[r] = Open /\ outcome'[r] \in Outcomes
                                     ELSE outcome'[r] = outcome[r]
  /\ UNCHANGED touched

Next ==
  \/ \E r \in Runs : Begin(r) \/ Touch(r)
  \/ \E back, closed \in SUBSET Runs : Settle(back, closed)

Spec == Init /\ [][Next]_<<executing, touched, outcome>>

=============================================================================

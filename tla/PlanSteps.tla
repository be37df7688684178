------------------------------- MODULE PlanSteps -------------------------------
(***************************************************************************)
(* The plan of a session: steps in the order in which they are to be       *)
(* done, moved by an agent's tool calls, cut short by a new plan or a new  *)
(* turn, and kept in the checkpoint.  Every operation holds the lock of    *)
(* the manager, so each is one step here.                                  *)
(*                                                                         *)
(* Objective, titles, notes, times and the revision are left out; their    *)
(* limits are checks of the input that leave the plan as it is.            *)
(***************************************************************************)
EXTENDS Naturals, Sequences

CONSTANTS
  MaxPlanSteps,  \* MAX_PLAN_STEPS: steps in one call
  MaxTotalSteps  \* MAX_TOTAL_PLAN_STEPS: history and new steps

PlanStepsAssumption ==
  MaxPlanSteps \in Nat \ {0} /\ MaxTotalSteps \in Nat /\ MaxPlanSteps <= MaxTotalSteps

VARIABLES
  steps,    \* [id, status] each
  counter,  \* _step_counter
  saved     \* the snapshot in the checkpoint: its steps and its status

vars == <<steps, counter, saved>>

Statuses == {"pending", "in_progress", "completed", "blocked", "skipped"}
Terminal == {"completed", "skipped"}
Step     == [id : Nat, status : Statuses]

Open(s) == s.status \notin Terminal

\* _derive_status
StatusOf(plan) ==
  LET some(status) == \E i \in DOMAIN plan : plan[i].status = status IN
  CASE plan = <<>>                               -> "empty"
    [] plan # <<>> /\ \A i \in DOMAIN plan : ~Open(plan[i]) -> "completed"
    [] some("in_progress")                       -> "in_progress"
    [] ~some("in_progress") /\ some("blocked")   -> "blocked"
    [] OTHER                                     -> "pending"

Snapshot == [steps |-> steps, status |-> StatusOf(steps)]

Init == steps = <<>> /\ counter = 0 /\ saved = Snapshot

\* Mutant of NewSteps: every route numbers its steps from one.
NewStepsAgain(from, n) == [i \in 1 .. n |-> [id |-> i, status |-> "pending"]]

\* _new_step, for each of n titles.
NewSteps(from, n) == [i \in 1 .. n |-> [id |-> from + i, status |-> "pending"]]

\* create_plan: an open plan is replaced only where the call says so.
Create(n, replace) ==
  /\ steps = <<>> \/ StatusOf(steps) = "completed" \/ replace
  /\ steps' = NewSteps(0, n) /\ counter' = n
  /\ UNCHANGED saved

\* _require_predecessors_terminal
InOrder(i) == \A j \in 1 .. i - 1 : ~Open(steps[j])

\* update_step: what has ended stays ended, one step at a time is worked on,
\* and no step is begun, blocked or completed before those ahead of it ended.
Allowed(i, status) ==
  /\ Open(steps[i]) \/ status = steps[i].status
  /\ status = "in_progress" =>
       \A j \in DOMAIN steps \ {i} : steps[j].status # "in_progress"
  /\ status \in {"in_progress", "completed", "blocked"} => InOrder(i)

Update(i, status) ==
  /\ Allowed(i, status)
  /\ steps' = [steps EXCEPT ![i].status = status]
  /\ UNCHANGED <<counter, saved>>

\* replan: what is open is skipped, and the new route follows.
Skipped(s) == [s EXCEPT !.status = IF Open(s) THEN "skipped" ELSE @]

Replan(n) ==
  /\ steps # <<>> /\ StatusOf(steps) # "completed"
  /\ Len(steps) + n <= MaxTotalSteps
  /\ steps' = [i \in 1 .. Len(steps) + n |->
                 IF i <= Len(steps) THEN Skipped(steps[i])
                 ELSE NewSteps(counter, n)[i - Len(steps)]]
  /\ counter' = counter + n
  /\ UNCHANGED saved

\* Agent.run: the plan of the turn before does not bind this one.
Reset == steps' = <<>> /\ counter' = 0 /\ UNCHANGED saved

Checkpoint == saved' = Snapshot /\ UNCHANGED <<steps, counter>>

\* restore: everything is checked before anything is taken over.
Restorable(snapshot) ==
  LET plan == snapshot.steps IN
  /\ Len(plan) <= MaxTotalSteps
  /\ \A i \in DOMAIN plan : plan[i].id >= 1
  /\ \A i, j \in DOMAIN plan : i # j => plan[i].id # plan[j].id
  /\ \A i, j \in DOMAIN plan :
       plan[i].status = "in_progress" /\ plan[j].status = "in_progress" => i = j
  /\ snapshot.status = StatusOf(plan)

Highest(plan) ==
  IF plan = <<>> THEN 0
  ELSE CHOOSE n \in {plan[i].id : i \in DOMAIN plan} :
         \A i \in DOMAIN plan : plan[i].id <= n

\* A new process, with what was saved.
Restart ==
  /\ Restorable(saved)
  /\ steps' = saved.steps /\ counter' = Highest(saved.steps)
  /\ UNCHANGED saved

Next ==
  \/ \E n \in 1 .. MaxPlanSteps, replace \in BOOLEAN : Create(n, replace)
  \/ \E i \in DOMAIN steps, status \in Statuses : Update(i, status)
  \/ \E n \in 1 .. MaxPlanSteps : Replan(n)
  \/ Reset \/ Checkpoint \/ Restart

Spec == Init /\ [][Next]_vars

-----------------------------------------------------------------------------
TypeOK ==
  /\ steps \in Seq(Step) /\ counter \in Nat
  /\ saved.steps \in Seq(Step)

\* What a plan shows is where the work is: whatever sequence of calls, new
\* routes, turns and restarts came before, all steps ahead of one that was
\* begun, is blocked or is done have ended, and no more than one is open that
\* is not waiting (PlanManager.update_step, replan, restore).
WorkIsInOrder ==
  \A i, j \in DOMAIN steps :
    i < j /\ Open(steps[i]) => steps[j].status \in {"pending", "skipped"}

\* No sequence of calls leaves a plan that its own checkpoint could not bring
\* back as it was: ids do not repeat over new routes, and the counter is found.
CheckpointBringsItBack ==
  /\ Restorable(saved)
  /\ Restorable(Snapshot) /\ Highest(steps) = counter


\* Both at any moment: a plan that is resumed is worked on in the same order.
PlanIsSound == WorkIsInOrder /\ CheckpointBringsItBack

=============================================================================

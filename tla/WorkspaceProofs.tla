---------------------------- MODULE WorkspaceProofs ----------------------------
(***************************************************************************)
(* Proofs about what a session makes and changes outside of itself, for    *)
(* every value of the constants: its plan, the rules its user approved     *)
(* and the assembly of its runtime.  The last section of each part states  *)
(* what MCWorkspace checks of it.                                          *)
(***************************************************************************)
EXTENDS MCWorkspace, FiniteSetTheorems, TLAPS

(* Plans.  What the tools plan and update_plan and a checkpoint make of a  *)
(* plan is good: ids are positions, the counter is their number, steps are *)
(* done in order.                                                          *)

Numbered(plan) == \A i \in DOMAIN plan : plan[i].id = i

Ordered(plan) ==
  \A i, j \in DOMAIN plan :
    i < j /\ Open(plan[i]) => plan[j].status \in {"pending", "skipped"}

Good(plan) ==
  plan \in Seq(Step) /\ Len(plan) <= MaxTotalSteps /\ Numbered(plan) /\ Ordered(plan)

PlanInv ==
  /\ Good(steps) /\ counter = Len(steps)
  /\ Good(saved.steps)
  /\ saved = [steps |-> saved.steps, status |-> StatusOf(saved.steps)]

-----------------------------------------------------------------------------
\* The highest id of a plan that is numbered is its length.
LEMMA HighestIsLength ==
  ASSUME NEW plan, Good(plan)
  PROVE  Highest(plan) = Len(plan)
<1> USE DEF Good, Numbered
<1>1. CASE plan = <<>>
  BY <1>1 DEF Highest
<1>2. CASE plan # <<>>
  <2> DEFINE ids == {plan[i].id : i \in DOMAIN plan}
  <2>1. Len(plan) \in Nat \ {0} /\ DOMAIN plan = 1 .. Len(plan)
    BY <1>2
  <2>2. ids = 1 .. Len(plan)
    BY <2>1
  <2>3. \A n \in ids : (\A i \in DOMAIN plan : plan[i].id <= n) => n = Len(plan)
    <3> SUFFICES ASSUME NEW n \in ids, \A i \in DOMAIN plan : plan[i].id <= n
                 PROVE  n = Len(plan)
      OBVIOUS
    <3>1. Len(plan) \in DOMAIN plan /\ plan[Len(plan)].id = Len(plan)
      BY <2>1
    <3>2. Len(plan) <= n
      BY <3>1
    <3> QED BY <2>1, <2>2, <3>2
  <2>4. Len(plan) \in ids /\ \A i \in DOMAIN plan : plan[i].id <= Len(plan)
    BY <2>1, <2>2
  <2>5. Highest(plan) = CHOOSE n \in ids : \A i \in DOMAIN plan : plan[i].id <= n
    BY <1>2 DEF Highest
  <2> HIDE DEF ids
  <2> QED BY <2>3, <2>4, <2>5
<1> QED BY <1>1, <1>2

\* Nothing that restore checks refuses such a plan.
LEMMA GoodIsRestorable ==
  ASSUME NEW plan, Good(plan)
  PROVE  Restorable([steps |-> plan, status |-> StatusOf(plan)])
<1>1. DOMAIN plan = 1 .. Len(plan) /\ Len(plan) \in Nat /\ Len(plan) <= MaxTotalSteps
  BY DEF Good
<1>2. \A i \in DOMAIN plan : plan[i].id >= 1
  BY <1>1 DEF Good, Numbered
<1>3. \A i, j \in DOMAIN plan : i # j => plan[i].id # plan[j].id
  BY DEF Good, Numbered
<1>4. ASSUME NEW i \in DOMAIN plan, NEW j \in DOMAIN plan,
             plan[i].status = "in_progress", plan[j].status = "in_progress"
      PROVE  i = j
  <2>1. ~(i < j) /\ ~(j < i)
    BY <1>4 DEF Good, Ordered, Open, Terminal
  <2> QED BY <1>1, <2>1
<1> QED BY <1>1, <1>2, <1>3, <1>4 DEF Restorable

\* What a plan of good steps is made of.
LEMMA Members ==
  ASSUME NEW plan, Good(plan)
  PROVE  /\ Len(plan) \in Nat /\ DOMAIN plan = 1 .. Len(plan)
         /\ \A i \in DOMAIN plan :
              plan[i] \in Step /\ plan[i].id = i /\ plan[i].status \in Statuses
<1>1. Len(plan) \in Nat /\ DOMAIN plan = 1 .. Len(plan)
  BY DEF Good
<1>2. ASSUME NEW i \in DOMAIN plan
      PROVE  plan[i] \in Step /\ plan[i].id = i /\ plan[i].status \in Statuses
  <2>1. plan[i] \in Step
    BY DEF Good
  <2>2. plan[i].id = i
    BY DEF Good, Numbered
  <2>3. plan[i].status \in Statuses
    BY <2>1 DEF Step
  <2> QED BY <2>1, <2>2, <2>3
<1> QED BY <1>1, <1>2

\* A route behind a part where nothing is open keeps the order.
LEMMA NewRoute ==
  ASSUME NEW old, Good(old), NEW n \in Nat, Len(old) + n <= MaxTotalSteps,
         \A i \in DOMAIN old : ~Open(old[i]),
         NEW new, DOMAIN new = 1 .. Len(old) + n, new = [i \in DOMAIN new |-> new[i]],
         \A i \in DOMAIN new :
           \/ i \in DOMAIN old /\ new[i] = old[i]
           \/ i > Len(old) /\ new[i] = [id |-> i, status |-> "pending"]
  PROVE  Good(new) /\ Len(new) = Len(old) + n
<1>1. Len(old) \in Nat /\ DOMAIN old = 1 .. Len(old)
  BY Members
<1>2. ASSUME NEW i \in DOMAIN new
      PROVE  /\ new[i] \in Step /\ new[i].id = i
             /\ Open(new[i]) => new[i].status = "pending" /\ i > Len(old)
  <2>1. CASE i \in DOMAIN old /\ new[i] = old[i]
    BY <2>1, Members
  <2>2. CASE i > Len(old) /\ new[i] = [id |-> i, status |-> "pending"]
    <3>1. i \in Nat
      BY <1>1
    <3> QED BY <2>2, <3>1 DEF Step, Statuses
  <2> QED BY <2>1, <2>2
<1>3. new \in Seq(Step) /\ Len(new) = Len(old) + n
  BY <1>1, <1>2
<1>4. ASSUME NEW i \in DOMAIN new, NEW j \in DOMAIN new, i < j, Open(new[i])
      PROVE  new[j].status = "pending"
  <2>1. i > Len(old)
    BY <1>2, <1>4
  <2>2. j \notin DOMAIN old
    BY <1>1, <1>4, <2>1
  <2> QED BY <2>2
<1> QED BY <1>2, <1>3, <1>4 DEF Good, Numbered, Ordered

-----------------------------------------------------------------------------
LEMMA EmptyIsGood == ASSUME PlanStepsAssumption PROVE Good(<<>>)
  BY DEF Good, Numbered, Ordered, PlanStepsAssumption

LEMMA CreateGood ==
  ASSUME PlanStepsAssumption, NEW n \in 1 .. MaxPlanSteps, NEW replace \in BOOLEAN,
         PlanInv, Create(n, replace)
  PROVE  PlanInv'
<1>1. n \in Nat /\ n <= MaxTotalSteps
  BY DEF PlanStepsAssumption
<1>2. steps' = [i \in 1 .. n |-> [id |-> i, status |-> "pending"]]
  BY <1>1 DEF Create, NewSteps
<1>3. steps' \in Seq(Step) /\ Len(steps') = n
  BY <1>1, <1>2 DEF Step, Statuses
<1>4. Good(steps')
  BY <1>1, <1>2, <1>3 DEF Good, Numbered, Ordered
<1> QED BY <1>3, <1>4 DEF PlanInv, Create

LEMMA UpdateGood ==
  ASSUME NEW i \in DOMAIN steps, NEW status \in Statuses, PlanInv, Update(i, status)
  PROVE  PlanInv'
<1>1. Good(steps) /\ DOMAIN steps = 1 .. Len(steps) /\ Len(steps) \in Nat
  BY DEF PlanInv, Good
<1>2. steps' = [steps EXCEPT ![i].status = status]
  BY DEF Update
<1>3. /\ DOMAIN steps' = DOMAIN steps
      /\ \A j \in DOMAIN steps :
           /\ steps'[j] \in Step /\ steps'[j].id = steps[j].id
           /\ j # i => steps'[j] = steps[j]
      /\ steps'[i].status = status
  <2>1. steps \in Seq(Step) /\ steps[i] \in Step
    BY <1>1, Members DEF Good
  <2>2. /\ [steps[i] EXCEPT !.status = status] \in Step
        /\ [steps[i] EXCEPT !.status = status].id = steps[i].id
        /\ [steps[i] EXCEPT !.status = status].status = status
    BY <2>1 DEF Step
  <2>3. /\ DOMAIN steps' = DOMAIN steps
        /\ steps'[i] = [steps[i] EXCEPT !.status = status]
        /\ \A j \in DOMAIN steps : j # i => steps'[j] = steps[j]
    BY <1>2, <2>1
  <2> QED BY <1>1, <2>2, <2>3, Members
<1>4. steps' \in Seq(Step) /\ Len(steps') = Len(steps)
  <2>1. steps' = [j \in 1 .. Len(steps) |-> steps'[j]]
    BY <1>1, <1>2
  <2> QED BY <1>1, <1>3, <2>1
<1>5. Ordered(steps')
  <2> SUFFICES ASSUME NEW k \in DOMAIN steps, NEW j \in DOMAIN steps,
                      k < j, Open(steps'[k])
               PROVE  steps'[j].status \in {"pending", "skipped"}
    BY <1>3 DEF Ordered
  <2>1. CASE j = i
    <3>1. steps'[k] = steps[k] /\ k \in 1 .. i - 1
      BY <1>1, <1>3, <2>1
    <3>2. ~InOrder(i)
      BY <3>1 DEF InOrder
    <3>3. status \notin {"in_progress", "completed", "blocked"}
      BY <3>2 DEF Update, Allowed
    <3> QED BY <1>3, <2>1, <3>3 DEF Statuses
  <2>2. CASE j # i /\ k # i
    BY <1>1, <1>3, <2>2 DEF Good, Ordered
  <2>3. CASE k = i
    <3>1. j # i /\ steps'[j] = steps[j]
      BY <1>1, <1>3, <2>3
    <3>2. Open(steps[i])
      BY <1>3, <2>3 DEF Update, Allowed, Open
    <3> QED BY <1>1, <2>3, <3>1, <3>2 DEF Good, Ordered
  <2> QED BY <2>1, <2>2, <2>3
<1>6. Good(steps')
  BY <1>1, <1>3, <1>4, <1>5 DEF Good, Numbered
<1> QED BY <1>4, <1>6 DEF PlanInv, Update

LEMMA ReplanGood ==
  ASSUME PlanStepsAssumption, NEW n \in 1 .. MaxPlanSteps, PlanInv, Replan(n)
  PROVE  PlanInv'
<1> DEFINE old == [i \in DOMAIN steps |-> Skipped(steps[i])]
<1>1. Good(steps) /\ DOMAIN steps = 1 .. Len(steps) /\ Len(steps) \in Nat
      /\ counter = Len(steps)
  BY DEF PlanInv, Good
<1>2. ASSUME NEW i \in DOMAIN steps
      PROVE  old[i] \in Step /\ old[i].id = i /\ ~Open(old[i])
  <2>1. steps[i] \in Step /\ steps[i].id = i /\ old[i] = Skipped(steps[i])
    BY <1>1, Members
  <2>2. CASE Open(steps[i])
    <3>1. old[i] = [steps[i] EXCEPT !.status = "skipped"]
      BY <2>1, <2>2 DEF Skipped
    <3> QED BY <2>1, <3>1 DEF Step, Statuses, Open, Terminal
  <2>3. CASE ~Open(steps[i])
    <3>1. old[i] = steps[i]
      BY <2>1, <2>3 DEF Skipped, Step
    <3> QED BY <2>1, <2>3, <3>1
  <2> QED BY <2>2, <2>3
<1>3. old \in Seq(Step) /\ Len(old) = Len(steps) /\ DOMAIN old = DOMAIN steps
  BY <1>1, <1>2
<1>4. Good(old)
  BY <1>1, <1>2, <1>3 DEF Good, Numbered, Ordered
<1>5. n \in Nat /\ Len(old) + n <= MaxTotalSteps
  BY <1>3 DEF Replan, PlanStepsAssumption
<1>6. steps' = [i \in 1 .. Len(steps) + n |->
                  IF i <= Len(steps) THEN Skipped(steps[i])
                  ELSE NewSteps(Len(steps), n)[i - Len(steps)]]
  BY <1>1 DEF Replan
<1>7. ASSUME NEW i \in 1 .. Len(steps) + n
      PROVE  \/ i \in DOMAIN old /\ steps'[i] = old[i]
             \/ i > Len(old) /\ steps'[i] = [id |-> i, status |-> "pending"]
  <2>1. CASE i <= Len(steps)
    BY <1>1, <1>3, <1>6, <2>1
  <2>2. CASE i > Len(steps)
    <3>1. i - Len(steps) \in 1 .. n /\ Len(steps) + (i - Len(steps)) = i
      BY <1>1, <1>5, <2>2
    <3>2. steps'[i] = NewSteps(Len(steps), n)[i - Len(steps)]
      BY <1>1, <1>6, <2>2
    <3> QED BY <1>3, <2>2, <3>1, <3>2 DEF NewSteps
  <2> QED BY <1>1, <1>5, <2>1, <2>2
<1> HIDE DEF old
<1>8. /\ DOMAIN steps' = 1 .. Len(old) + n
      /\ steps' = [i \in DOMAIN steps' |-> steps'[i]]
      /\ \A i \in DOMAIN old : ~Open(old[i])
  BY <1>2, <1>3, <1>6
<1>9. Good(steps') /\ Len(steps') = Len(old) + n
  BY <1>3, <1>4, <1>5, <1>7, <1>8, NewRoute
<1> QED BY <1>1, <1>3, <1>9 DEF PlanInv, Replan

-----------------------------------------------------------------------------
\* However long plans may be, the invariant holds at the start and every call,
\* turn, checkpoint and restart keeps it.
LEMMA PlanHolds == ASSUME PlanStepsAssumption PROVE Spec => []PlanInv
<1>1. Init => PlanInv
  BY EmptyIsGood DEF Init, PlanInv, Snapshot
<1>2. PlanInv /\ [Next]_vars => PlanInv'
  <2> SUFFICES ASSUME PlanInv, [Next]_vars PROVE PlanInv'
    OBVIOUS
  <2>1. CASE \E n \in 1 .. MaxPlanSteps, replace \in BOOLEAN : Create(n, replace)
    BY <2>1, CreateGood
  <2>2. CASE \E i \in DOMAIN steps, status \in Statuses : Update(i, status)
    BY <2>2, UpdateGood
  <2>3. CASE \E n \in 1 .. MaxPlanSteps : Replan(n)
    BY <2>3, ReplanGood
  <2>4. CASE Reset
    BY <2>4, EmptyIsGood DEF Reset, PlanInv
  <2>5. CASE Checkpoint
    BY <2>5 DEF Checkpoint, Snapshot, PlanInv
  <2>6. CASE Restart
    BY <2>6, HighestIsLength DEF Restart, PlanInv
  <2>7. CASE UNCHANGED vars
    BY <2>7 DEF vars, PlanInv
  <2> QED BY <2>1, <2>2, <2>3, <2>4, <2>5, <2>6, <2>7 DEF Next
<1> QED BY <1>1, <1>2, PTL DEF Spec

\* The plan, its counter and its checkpoint keep their types.
THEOREM TypeCorrect == ASSUME PlanStepsAssumption PROVE Spec => []TypeOK
<1>1. PlanInv => TypeOK
  BY DEF PlanInv, Good, TypeOK
<1> QED BY <1>1, PlanHolds, PTL

\* PlanIsSound, whatever the limits: no sequence of calls, new routes, turns and
\* restarts begins a step before those ahead of it have ended, or leaves a plan
\* that could not be resumed as it was.
THEOREM PlansAreSound == ASSUME PlanStepsAssumption PROVE Spec => []PlanIsSound
<1>1. PlanInv => PlanIsSound
  <2> SUFFICES ASSUME PlanInv PROVE PlanIsSound
    OBVIOUS
  <2>1. WorkIsInOrder
    BY DEF PlanInv, Good, Ordered, WorkIsInOrder
  <2>2. Restorable(saved) /\ Restorable(Snapshot)
    BY GoodIsRestorable DEF PlanInv, Snapshot
  <2>3. Highest(steps) = counter
    BY HighestIsLength DEF PlanInv
  <2> QED BY <2>1, <2>2, <2>3 DEF PlanIsSound, CheckpointBringsItBack
<1> QED BY <1>1, PlanHolds, PTL

-----------------------------------------------------------------------------
(* Rules.  A deny or an ask rule never opens anything, and nothing that is *)
(* remembered passes a deny rule, an ask rule or the mode "plan".  Over all *)
(* approvals, revocations and conversations, rules let through what users  *)
(* were shown, and let it through again.                                   *)

\* Two policies that differ in their restrictions only.
Stricter(q, p) ==
  /\ q.rules = p.rules /\ q.mode = p.mode /\ q.at = p.at
  /\ p.deny \subseteq q.deny /\ p.ask \subseteq q.ask

\* Where a call is, what is opened, what a rule allows and what a mode allows
\* depends on the rules, the mode and the workspace alone.
LEMMA SamePlaces ==
  ASSUME NEW p, NEW q, NEW c, Stricter(q, p)
  PROVE  /\ Rules!Files(q, c) = Rules!Files(p, c)
         /\ Rules!Roots(q) = Rules!Roots(p) /\ Rules!ReadOnly(q) = Rules!ReadOnly(p)
         /\ Rules!Refused(q, c) = Rules!Refused(p, c) /\ Rules!Ceiling(q, c) = Rules!Ceiling(p, c)
         /\ Rules!ByMode(q, c) = Rules!ByMode(p, c)
         /\ \A r : Rules!Restricts(q, r, c) = Rules!Restricts(p, r, c)
         /\ Rules!Allowed(q, c) = Rules!Allowed(p, c)
<1>1. Rules!Files(q, c) = Rules!Files(p, c)
  BY DEF Stricter, Rules!Files
<1>2. \A r : Rules!RootOf(q, r) = Rules!RootOf(p, r)
  BY DEF Stricter, Rules!RootOf
<1>3. Rules!Directories(q) = Rules!Directories(p)
  BY DEF Stricter, Rules!Directories
<1>4. Rules!Roots(q) = Rules!Roots(p) /\ Rules!ReadOnly(q) = Rules!ReadOnly(p)
  BY <1>2, <1>3 DEF Stricter, Rules!Roots, Rules!ReadOnly
<1>5. \A r, f : Rules!FileMatches(q, r, f) = Rules!FileMatches(p, r, f)
  BY <1>2 DEF Stricter, Rules!FileMatches
<1>6. Rules!Refused(q, c) = Rules!Refused(p, c)
  BY <1>1, <1>4 DEF Rules!Refused
<1>7. Rules!Ceiling(q, c) = Rules!Ceiling(p, c)
  BY DEF Stricter, Rules!Ceiling
<1>8. Rules!ByMode(q, c) = Rules!ByMode(p, c)
  BY <1>1, <1>4 DEF Stricter, Rules!ByMode, Rules!InScope
<1>9. \A r : Rules!Restricts(q, r, c) = Rules!Restricts(p, r, c)
  BY <1>1, <1>5 DEF Rules!Restricts
<1>10. Rules!SandboxKey(q) = Rules!SandboxKey(p)
  BY <1>4 DEF Rules!SandboxKey, Stricter
<1>11. Rules!Answered(q, c) = Rules!Answered(p, c)
  BY DEF Rules!Answered, Stricter
<1>12. \A r : Rules!Allows(q, r, c) = Rules!Allows(p, r, c)
  BY <1>10 DEF Rules!Allows
<1>13. Rules!Allowed(q, c) = Rules!Allowed(p, c)
  BY <1>1, <1>5, <1>11, <1>12 DEF Rules!Allowed, Stricter
<1>14. QED
  BY <1>1, <1>4, <1>6, <1>7, <1>8, <1>9, <1>13

\* Whoever adds a deny or an ask rule closes something or nothing: what is
\* allowed after it was allowed before, and what was denied stays denied.
THEOREM RestrictionsOnlyRestrict ==
  ASSUME NEW p, NEW q, NEW c, Stricter(q, p)
  PROVE  /\ Rules!Decision(q, c) = "allow" => Rules!Decision(p, c) = "allow"
         /\ Rules!Decision(p, c) = "deny" => Rules!Decision(q, c) = "deny"
<1>1. Rules!Denied(p, c) => Rules!Denied(q, c)
  BY SamePlaces DEF Rules!Denied, Stricter
<1>2. Rules!MustAsk(p, c) => Rules!MustAsk(q, c)
  BY SamePlaces DEF Rules!MustAsk, Stricter
<1>3. Rules!Allowed(q, c) = Rules!Allowed(p, c) /\ Rules!ByMode(q, c) = Rules!ByMode(p, c)
  BY SamePlaces
<1>4. QED
  BY <1>1, <1>2, <1>3 DEF Rules!Decision

\* No answer that is remembered, whatever it is, opens what the mode "plan", a
\* deny rule or a protected path closes, or answers what an ask rule asks.
THEOREM RememberedOpensNoRestriction ==
  ASSUME NEW p, NEW more, NEW c,
         p = [rules |-> p.rules, deny |-> p.deny, ask |-> p.ask, mode |-> p.mode, at |-> p.at]
  PROVE  LET q == [p EXCEPT !.rules = @ \cup more] IN
         Rules!Denied(p, c) \/ Rules!MustAsk(p, c) => Rules!Decision(q, c) # "allow"
<1> DEFINE q == [p EXCEPT !.rules = @ \cup more]
<1>1. /\ q.deny = p.deny /\ q.ask = p.ask /\ q.mode = p.mode /\ q.at = p.at
      /\ q.rules = p.rules \cup more
  OBVIOUS
<1> HIDE DEF q
<1>2. Rules!Files(q, c) = Rules!Files(p, c)
  BY <1>1 DEF Rules!Files
<1>3. \A r : Rules!RootOf(q, r) = Rules!RootOf(p, r)
  BY <1>1 DEF Rules!RootOf
<1>4. \A r, f : Rules!FileMatches(q, r, f) = Rules!FileMatches(p, r, f)
  BY <1>1, <1>3 DEF Rules!FileMatches
<1>5. \A r : Rules!Restricts(q, r, c) = Rules!Restricts(p, r, c)
  BY <1>2, <1>4 DEF Rules!Restricts
<1>6. Rules!ReadOnly(p) \subseteq Rules!ReadOnly(q)
  BY <1>1, <1>3 DEF Rules!ReadOnly, Rules!Directories
<1>7. Rules!Refused(p, c) => Rules!Refused(q, c)
  BY <1>2, <1>6 DEF Rules!Refused
<1>8. Rules!Ceiling(p, c) => Rules!Ceiling(q, c)
  BY <1>1 DEF Rules!Ceiling
<1>9. Rules!Denied(p, c) => Rules!Denied(q, c)
  BY <1>1, <1>5, <1>7, <1>8 DEF Rules!Denied
<1>10. Rules!MustAsk(p, c) => Rules!MustAsk(q, c)
  BY <1>1, <1>5 DEF Rules!MustAsk
<1>11. Rules!Denied(p, c) \/ Rules!MustAsk(p, c) => Rules!Decision(q, c) # "allow"
  BY <1>9, <1>10 DEF Rules!Decision
<1>12. QED
  BY <1>11 DEF q
-----------------------------------------------------------------------------
(* What is remembered is what was approved.                                *)
(*                                                                         *)
(* RulesAreApprovals is about decisions.  The invariant is about the rules *)
(* themselves: each stands for a rule that some approval showed, placed    *)
(* where that approval was given; and what an approval showed is one of    *)
(* the choices of that call under the rules of that moment.                *)

\* The policy at an approval, as far as the choices depend on it.
PolicyAt(a) ==
  [rules |-> {r[2] : r \in a.before}, deny |-> {}, ask |-> {}, mode |-> "default", at |-> a.at]

Approved(a) ==
  /\ a.call \in RuleCalls /\ a.lifetime \in Lifetimes /\ a.at \in Workspaces
  /\ <<a.lifetime, a.shown>> \in Rules!Offers(PolicyAt(a), a.call)

Remembers(a, x) ==
  \E s \in a.shown : x = <<a.lifetime, Rules!Placed([at |-> a.at], a.lifetime, s)>>

RInv ==
  /\ r_workspace \in Workspaces
  /\ \A a \in r_approvals : Approved(a)
  /\ \A x \in r_rules : \E a \in r_approvals : Remembers(a, x)

\* Paths: what is cut off below a root and put below it again is the same.
LEMMA CutAndPut ==
  ASSUME NEW path \in Seq(STRING), NEW root \in Seq(STRING), Rules!Under(path, root)
  PROVE  root \o SubSeq(path, Len(root) + 1, Len(path)) = path
<1>1. Len(root) \in Nat /\ Len(path) \in Nat /\ Len(root) <= Len(path)
  BY DEF Rules!Under, Rules!IsPrefix
<1>2. \A i \in 1 .. Len(root) : root[i] = path[i]
  <2>1. SubSeq(root, 1, Len(root)) = SubSeq(path, 1, Len(root))
    BY DEF Rules!Under, Rules!IsPrefix
  <2> QED BY <1>1, <2>1
<1> DEFINE rest == SubSeq(path, Len(root) + 1, Len(path))
<1>3. /\ rest \in Seq(STRING) /\ Len(rest) = Len(path) - Len(root)
      /\ \A i \in 1 .. Len(rest) : rest[i] = path[Len(root) + i]
  BY <1>1
<1> HIDE DEF rest
<1>4. /\ root \o rest \in Seq(STRING) /\ Len(root \o rest) = Len(path)
      /\ \A i \in 1 .. Len(path) :
           (root \o rest)[i] = IF i <= Len(root) THEN root[i] ELSE rest[i - Len(root)]
  BY <1>1, <1>3
<1>5. \A i \in 1 .. Len(path) : (root \o rest)[i] = path[i]
  BY <1>1, <1>2, <1>3, <1>4
<1>6. root \o rest = path
  <2> DEFINE whole == root \o rest
  <2>1. whole \in Seq(STRING) /\ Len(whole) = Len(path) /\ \A i \in 1 .. Len(path) : whole[i] = path[i]
    BY <1>4, <1>5
  <2> HIDE DEF whole
  <2>2. whole = path
    BY <2>1, <1>1
  <2> QED BY <2>2 DEF whole
<1> QED BY <1>6 DEF rest

LEMMA UnderFacts ==
  ASSUME NEW path \in Seq(STRING)
  PROVE  /\ Rules!Under(path, path)
         /\ Rules!Parent(path) \in Seq(STRING) /\ Rules!Under(path, Rules!Parent(path))
<1>1. Rules!Under(path, path)
  BY DEF Rules!Under, Rules!IsPrefix
<1>2. Len(path) \in Nat
  OBVIOUS
<1>3. CASE Len(path) = 0
  <2>1. Rules!Parent(path) = <<>>
    BY <1>3 DEF Rules!Parent, Rules!Front
  <2>2. SubSeq(path, 1, 0) = <<>>
    OBVIOUS
  <2> QED BY <1>1, <2>1, <2>2, <1>2 DEF Rules!Under, Rules!IsPrefix
<1>4. CASE Len(path) > 0
  <2>1. /\ Rules!Parent(path) \in Seq(STRING) /\ Len(Rules!Parent(path)) = Len(path) - 1
        /\ \A i \in 1 .. (Len(path) - 1) : Rules!Parent(path)[i] = path[i]
    <3>1. Rules!Parent(path) = SubSeq(path, 1, Len(path) - 1)
      BY DEF Rules!Parent, Rules!Front
    <3>2. Len(path) - 1 \in Nat
      BY <1>2, <1>4
    <3> DEFINE n == Len(path) - 1
    <3>3. n \in Nat /\ n <= Len(path)
      BY <1>2, <3>2
    <3> HIDE DEF n
    <3>4. /\ SubSeq(path, 1, n) \in Seq(STRING) /\ Len(SubSeq(path, 1, n)) = n
          /\ \A i \in 1 .. n : SubSeq(path, 1, n)[i] = path[i]
      BY <1>2, <3>3
    <3> QED BY <3>1, <3>4 DEF n
  <2> DEFINE a == Rules!Parent(path)
  <2> HIDE DEF a
  <2>2. a \in Seq(STRING) /\ Len(a) = Len(path) - 1 /\ \A i \in 1 .. Len(a) : a[i] = path[i]
    BY <2>1 DEF a
  <2>3. SubSeq(a, 1, Len(a)) = SubSeq(path, 1, Len(a))
    BY <2>2, <1>2, <1>4
  <2> QED BY <1>1, <2>2, <2>3, <1>2 DEF Rules!Under, Rules!IsPrefix, a
<1> QED BY <1>2, <1>3, <1>4

LEMMA UnderConcat ==
  ASSUME NEW path \in Seq(STRING), NEW root \in Seq(STRING)
  PROVE  root \o path \in Seq(STRING) /\ Rules!Under(root \o path, root)
<1>1. /\ root \o path \in Seq(STRING) /\ Len(root \o path) = Len(root) + Len(path)
      /\ Len(root) \in Nat /\ Len(path) \in Nat
      /\ \A i \in 1 .. Len(root) : (root \o path)[i] = root[i]
  OBVIOUS
<1> DEFINE whole == root \o path
<1> HIDE DEF whole
<1>2. SubSeq(root, 1, Len(root)) = SubSeq(whole, 1, Len(root))
  BY <1>1 DEF whole
<1> QED BY <1>1, <1>2 DEF Rules!Under, Rules!IsPrefix, whole

LEMMA UnderTransitive ==
  ASSUME NEW path \in Seq(STRING), NEW mid \in Seq(STRING), NEW root \in Seq(STRING),
         Rules!Under(path, mid), Rules!Under(mid, root)
  PROVE  Rules!Under(path, root)
<1>1. /\ Len(root) \in Nat /\ Len(mid) \in Nat /\ Len(path) \in Nat
      /\ Len(root) <= Len(mid) /\ Len(mid) <= Len(path)
  BY DEF Rules!Under, Rules!IsPrefix
<1>2. \A i \in 1 .. Len(mid) : mid[i] = path[i]
  <2>1. SubSeq(mid, 1, Len(mid)) = SubSeq(path, 1, Len(mid))
    BY DEF Rules!Under, Rules!IsPrefix
  <2> QED BY <1>1, <2>1
<1>3. \A i \in 1 .. Len(root) : root[i] = mid[i]
  <2>1. SubSeq(root, 1, Len(root)) = SubSeq(mid, 1, Len(root))
    BY DEF Rules!Under, Rules!IsPrefix
  <2> QED BY <1>1, <2>1
<1>4. \A i \in 1 .. Len(root) : root[i] = path[i]
  BY <1>1, <1>2, <1>3
<1>5. SubSeq(root, 1, Len(root)) = SubSeq(path, 1, Len(root))
  BY <1>1, <1>4
<1> QED BY <1>1, <1>5 DEF Rules!Under, Rules!IsPrefix

\* A call on files is about one path, and its targets pair it with the
\* operations.
LEMMA OnePath ==
  ASSUME Rules!PermissionRulesAssumption,
         NEW c \in RuleCalls, c.kind \in {"file", "directory"},
         NEW p, p.at \in Workspaces
  PROVE  /\ Rules!Target(p, c) \in Seq(STRING)
         /\ Rules!Files(p, c) # {}
         /\ \A f \in Rules!Files(p, c) : f.path = Rules!Target(p, c) /\ f.op \in c.ops
         /\ \A q : q.at = p.at => Rules!Files(q, c) = Rules!Files(p, c) /\ Rules!Target(q, c) = Rules!Target(p, c)
<1>1. Rules!WellFormed(c) /\ p.at \in Seq(STRING)
  BY DEF Rules!PermissionRulesAssumption
<1>2. \A t \in c.targets : t[1] \in Seq(STRING) /\ t[2] \in c.ops
  BY <1>1 DEF Rules!WellFormed
<1>3. \A t, u \in c.targets : t[1] = u[1]
  BY <1>1 DEF Rules!WellFormed
<1>4. PICK t \in c.targets : TRUE
  BY <1>1 DEF Rules!WellFormed
<1> DEFINE path == IF c.inside THEN p.at \o t[1] ELSE t[1]
<1>5. path \in Seq(STRING)
  BY <1>1, <1>2, <1>4, UnderConcat
<1>6. \A f \in Rules!Files(p, c) : f.path = path /\ f.op \in c.ops
  <2> TAKE f \in Rules!Files(p, c)
  <2>1. PICK u \in c.targets : f = [path |-> IF c.inside THEN p.at \o u[1] ELSE u[1], op |-> u[2]]
    BY DEF Rules!Files
  <2>2. u[1] = t[1]
    BY <1>3, <1>4
  <2> QED BY <1>2, <2>1, <2>2
<1>7. [path |-> path, op |-> t[2]] \in Rules!Files(p, c)
  BY <1>4 DEF Rules!Files
<1>8. Rules!Target(p, c) = path
  BY <1>6, <1>7 DEF Rules!Target
<1>9. ASSUME NEW q, q.at = p.at
      PROVE  Rules!Files(q, c) = Rules!Files(p, c) /\ Rules!Target(q, c) = Rules!Target(p, c)
  BY <1>9 DEF Rules!Files, Rules!Target
<1> QED BY <1>5, <1>6, <1>7, <1>8, <1>9

\* The rules that an approval can show: one of the file or of a directory around
\* it that covers the call, rules of commands, the line, or one of the host.
FileShape(a, s) ==
  /\ a.call.kind \in {"file", "directory"} /\ a.shown = {s}
  /\ \/ s = Rules!FileRule(Rules!Target(PolicyAt(a), a.call), a.call.ops)
     \/ \E d \in {Rules!Target(PolicyAt(a), a.call), Rules!Parent(Rules!Target(PolicyAt(a), a.call))}, ops \in SUBSET Rules!Edits :
          a.call.ops \subseteq ops /\ s = Rules!DirectoryRule(d, ops)

ShellShape(a, s) ==
  /\ a.call.kind = "shell"
  /\ s = Rules!ShellRule(PolicyAt(a), a.call) \/ \E argv : s = Rules!CommandRule(argv)

WebShape(a, s) ==
  /\ a.call.kind = "web" /\ a.shown = {s}
  /\ \E page \in {a.call.page, None} : s = Rules!NetworkRule(a.call, page)

LEMMA ShapesOffered ==
  ASSUME Rules!PermissionRulesAssumption, NEW a, Approved(a)
  PROVE  /\ a.shown # {} \/ a.call.kind = "shell"
         /\ \A s \in a.shown : FileShape(a, s) \/ ShellShape(a, s) \/ WebShape(a, s)
         /\ a.call.kind \in {"file", "directory", "web"} => \E s : a.shown = {s}
<1> DEFINE c == a.call
           p == PolicyAt(a)
<1>1. c \in RuleCalls /\ c.kind \in {"file", "directory", "shell", "web"} /\ Rules!WellFormed(c)
  BY DEF Approved, Rules!PermissionRulesAssumption
<1>2. <<a.lifetime, a.shown>> \in Rules!Offers(p, c)
  BY DEF Approved
<1>3. CASE c.kind \in {"file", "directory"}
  <2>1. a.shown \in Rules!FileChoices(p, c)
    BY <1>2, <1>3 DEF Rules!Offers
  <2> DEFINE path == Rules!Target(p, c)
             around == IF c.kind = "file" THEN Rules!Parent(path) ELSE path
  <2>2. \/ c.kind = "file" /\ a.shown = {Rules!FileRule(path, c.ops)}
        \/ c.kind = "directory" /\ a.shown = {Rules!DirectoryRule(path, {"file_read"})}
        \/ a.shown = {Rules!DirectoryRule(around, Rules!Edits)}
        \/ "file_write" \notin c.ops /\ a.shown = {Rules!DirectoryRule(around, {"file_read"})}
    BY <2>1, <1>3 DEF Rules!FileChoices
  <2>3. c.ops \subseteq Rules!Edits /\ (c.kind = "directory" => c.ops \subseteq {"file_read"})
    BY <1>1, <1>3 DEF Rules!WellFormed, Rules!Edits
  <2>4. "file_write" \notin c.ops => c.ops \subseteq {"file_read"}
    BY <2>3 DEF Rules!Edits
  <2>5. {"file_read"} \in SUBSET Rules!Edits /\ Rules!Edits \in SUBSET Rules!Edits
    BY DEF Rules!Edits
  <2>6. around \in {path, Rules!Parent(path)}
    OBVIOUS
  <2>7. CASE c.kind = "file" /\ a.shown = {Rules!FileRule(path, c.ops)}
    BY <2>7, <1>3 DEF FileShape
  <2>8. CASE c.kind = "directory" /\ a.shown = {Rules!DirectoryRule(path, {"file_read"})}
    BY <2>8, <2>3, <2>5, <1>3 DEF FileShape
  <2>9. CASE a.shown = {Rules!DirectoryRule(around, Rules!Edits)}
    <3> HIDE DEF around
    <3>1. FileShape(a, Rules!DirectoryRule(around, Rules!Edits))
      BY <2>9, <2>3, <2>5, <2>6, <1>3 DEF FileShape
    <3> QED BY <2>9, <3>1
  <2>10. CASE "file_write" \notin c.ops /\ a.shown = {Rules!DirectoryRule(around, {"file_read"})}
    <3> HIDE DEF around
    <3>1. FileShape(a, Rules!DirectoryRule(around, {"file_read"}))
      BY <2>10, <2>4, <2>5, <2>6, <1>3 DEF FileShape
    <3> QED BY <2>10, <3>1
  <2> QED BY <2>2, <2>7, <2>8, <2>9, <2>10
<1>4. CASE c.kind = "shell"
  <2>1. a.shown \in Rules!CommandChoices(p, c) \/ a.shown = {Rules!ShellRule(p, c)}
    BY <1>2, <1>4 DEF Rules!Offers
  <2>2. ASSUME a.shown \in Rules!CommandChoices(p, c), NEW s \in a.shown
        PROVE  \E argv : s = Rules!CommandRule(argv)
    <3>1. CASE c.plain
      BY <2>2, <3>1 DEF Rules!CommandChoices
    <3>2. CASE ~c.plain
      BY <2>2, <3>2 DEF Rules!CommandChoices
    <3> QED BY <3>1, <3>2
  <2> QED BY <2>1, <2>2, <1>4 DEF ShellShape
<1>5. CASE c.kind = "web"
  <2>1. a.shown \in Rules!WebChoices(c)
    BY <1>2, <1>5 DEF Rules!Offers
  <2>2. \E page \in {c.page, None} : a.shown = {Rules!NetworkRule(c, page)}
    BY <2>1 DEF Rules!WebChoices
  <2> QED BY <2>2, <1>5 DEF WebShape
<1> QED BY <1>1, <1>3, <1>4, <1>5

\* The path of a rule in the workspace of a policy, as an approval showed it.
RootAsShown(a, s, r) ==
  \A p : Rules!RootOf(p, r) =
    IF a.lifetime # "user" /\ Rules!Under(s.path, a.at)
      THEN p.at \o SubSeq(s.path, Len(a.at) + 1, Len(s.path)) ELSE s.path

\* Placing a rule keeps what it says: its kind, its operations, whether it is
\* exact; and where the approval was given it is about the path that was shown.
LEMMA PlacedKeeps ==
  ASSUME Rules!PermissionRulesAssumption, NEW a, Approved(a), NEW s \in a.shown,
         NEW r, r = Rules!Placed([at |-> a.at], a.lifetime, s)
  PROVE  /\ r.kind = s.kind
         /\ FileShape(a, s) =>
              /\ s.kind \in {"file", "directory"} /\ s.path \in Seq(STRING)
              /\ r.ops = s.ops /\ (s.kind = "file" => r.exact)
              /\ RootAsShown(a, s, r)
         /\ ShellShape(a, s) => r = s /\ s.kind \in {"shell", "command"}
         /\ WebShape(a, s) => r = s /\ s.kind = "network"
<1> DEFINE path == Rules!Target(PolicyAt(a), a.call)
<1>1. ASSUME FileShape(a, s)
      PROVE  path \in Seq(STRING) /\ Rules!Parent(path) \in Seq(STRING)
  BY <1>1, OnePath, UnderFacts DEF FileShape, Approved, PolicyAt
<1> HIDE DEF path
<1>2. ASSUME NEW d \in Seq(STRING), NEW ops, s = Rules!FileRule(d, ops) \/ s = Rules!DirectoryRule(d, ops)
      PROVE  /\ r.kind = s.kind /\ s.kind \in {"file", "directory"} /\ s.path = d
             /\ r.ops = s.ops /\ (s.kind = "file" => r.exact)
             /\ RootAsShown(a, s, r)
  <2> DEFINE cut == SubSeq(d, Len(a.at) + 1, Len(d))
  <2>1. CASE s = Rules!FileRule(d, ops)
    <3>1. s.kind = "file" /\ s.path = d /\ s.exact = TRUE /\ s.inside = FALSE
      BY <2>1 DEF Rules!FileRule
    <3>2. CASE a.lifetime # "user" /\ Rules!Under(d, a.at)
      <4>1. r = [s EXCEPT !.inside = TRUE, !.path = cut]
        BY <3>1, <3>2 DEF Rules!Placed
      <4>2. r = [kind |-> "file", path |-> cut, inside |-> TRUE, exact |-> TRUE, ops |-> s.ops]
        BY <4>1, <2>1 DEF Rules!FileRule
      <4>3. r.kind = "file" /\ r.path = cut /\ r.inside = TRUE /\ r.exact = TRUE /\ r.ops = s.ops
        <5> HIDE DEF cut
        <5> QED BY <4>2
      <4>4. \A p : Rules!RootOf(p, r) = p.at \o cut
        BY <4>3 DEF Rules!RootOf
      <4> QED BY <4>3, <4>4, <3>1, <3>2 DEF RootAsShown
    <3>3. CASE ~(a.lifetime # "user" /\ Rules!Under(d, a.at))
      <4>1. r = s
        BY <3>1, <3>3 DEF Rules!Placed
      <4> QED BY <4>1, <3>1, <3>3 DEF Rules!RootOf, RootAsShown
    <3> QED BY <3>2, <3>3
  <2>2. CASE s = Rules!DirectoryRule(d, ops)
    <3>1. s.kind = "directory" /\ s.path = d /\ s.inside = FALSE
      BY <2>2 DEF Rules!DirectoryRule
    <3>2. CASE a.lifetime # "user" /\ Rules!Under(d, a.at)
      <4>1. r = [s EXCEPT !.inside = TRUE, !.path = cut]
        BY <3>1, <3>2 DEF Rules!Placed
      <4>2. r = [kind |-> "directory", path |-> cut, inside |-> TRUE, ops |-> s.ops]
        BY <4>1, <2>2 DEF Rules!DirectoryRule
      <4>3. r.kind = "directory" /\ r.path = cut /\ r.inside = TRUE /\ r.ops = s.ops
        <5> HIDE DEF cut
        <5> QED BY <4>2
      <4>4. \A p : Rules!RootOf(p, r) = p.at \o cut
        BY <4>3 DEF Rules!RootOf
      <4> QED BY <4>3, <4>4, <3>1, <3>2 DEF RootAsShown
    <3>3. CASE ~(a.lifetime # "user" /\ Rules!Under(d, a.at))
      <4>1. r = s
        BY <3>1, <3>3 DEF Rules!Placed
      <4> QED BY <4>1, <3>1, <3>3 DEF Rules!RootOf, RootAsShown
    <3> QED BY <3>2, <3>3
  <2> QED BY <1>2, <2>1, <2>2
<1>3. ASSUME FileShape(a, s)
      PROVE  \E d \in Seq(STRING) : \E ops : s = Rules!FileRule(d, ops) \/ s = Rules!DirectoryRule(d, ops)
  BY <1>1, <1>3 DEF FileShape, path
<1>4. ShellShape(a, s) => s.kind \in {"shell", "command"}
  BY DEF ShellShape, Rules!ShellRule, Rules!CommandRule
<1>5. WebShape(a, s) => s.kind = "network"
  BY DEF WebShape, Rules!NetworkRule
<1>6. s.kind \notin {"file", "directory"} => r = s
  BY DEF Rules!Placed
<1>7. FileShape(a, s) \/ ShellShape(a, s) \/ WebShape(a, s)
  BY ShapesOffered
<1>8. CASE FileShape(a, s)
  <2>0. PICK d \in Seq(STRING) : \E ops : s = Rules!FileRule(d, ops) \/ s = Rules!DirectoryRule(d, ops)
    BY <1>3, <1>8
  <2>1. PICK ops : s = Rules!FileRule(d, ops) \/ s = Rules!DirectoryRule(d, ops)
    BY <2>0
  <2>2. /\ r.kind = s.kind /\ s.kind \in {"file", "directory"} /\ s.path = d
        /\ r.ops = s.ops /\ (s.kind = "file" => r.exact)
        /\ RootAsShown(a, s, r)
    BY <2>1, <1>2
  <2>3. ~ShellShape(a, s) /\ ~WebShape(a, s)
    BY <1>8 DEF FileShape, ShellShape, WebShape
  <2> QED BY <2>2, <2>3
<1>9. CASE ~FileShape(a, s)
  BY <1>9, <1>4, <1>5, <1>6, <1>7
<1> QED BY <1>8, <1>9

\* What else has a type.
RTyped ==
  /\ r_deny \subseteq Restrictions /\ r_ask \subseteq Restrictions
  /\ r_mode \in Rules!Modes /\ r_edits \in 0..MaxEdits

RulesInv == RInv /\ RTyped

LEMMA RulesInit == ASSUME Rules!PermissionRulesAssumption PROVE Rules!Init => RulesInv
BY DEF Rules!PermissionRulesAssumption, Rules!Init, RInv, RTyped, RulesInv, Rules!Modes

LEMMA RTypedStep ==
  ASSUME Rules!PermissionRulesAssumption, RTyped, Rules!Next \/ UNCHANGED Rules!vars
  PROVE  RTyped'
BY DEF Rules!PermissionRulesAssumption, RTyped, Rules!Next, Rules!Approve, Rules!Revoke,
   Rules!AddRestriction, Rules!SetMode, Rules!NewSession, Rules!Edited, Rules!vars

\* The invariant is kept, whoever approves, revokes, restricts, or begins another
\* conversation.
LEMMA RInvStep ==
  ASSUME Rules!PermissionRulesAssumption, RInv, Rules!Next \/ UNCHANGED Rules!vars
  PROVE  RInv'
<1>0. RInv /\ (Rules!Next \/ UNCHANGED Rules!vars)
  OBVIOUS
<1>1. ASSUME NEW c \in RuleCalls, Rules!Approve(c)
      PROVE  RInv'
  <2>1. PICK choice \in Rules!Offers(Rules!Policy, c) :
          /\ r_rules' = r_rules \cup {<<choice[1], Rules!Placed(Rules!Policy, choice[1], r)>> : r \in choice[2]}
          /\ r_approvals' = r_approvals \cup
               {[call |-> c, lifetime |-> choice[1], shown |-> choice[2], at |-> r_workspace,
                before |-> r_rules]}
    BY <1>1 DEF Rules!Approve
  <2> DEFINE new == [call |-> c, lifetime |-> choice[1], shown |-> choice[2], at |-> r_workspace,
                     before |-> r_rules]
  <2>2. choice = <<choice[1], choice[2]>> /\ choice[1] \in Lifetimes
    BY DEF Rules!Offers, Rules!PermissionRulesAssumption
  <2>3. Rules!Offers(PolicyAt(new), c) = Rules!Offers(Rules!Policy, c)
    <3>1. PolicyAt(new).rules = Rules!Policy.rules /\ PolicyAt(new).at = Rules!Policy.at
      BY DEF PolicyAt, Rules!Policy
    <3> DEFINE p == PolicyAt(new)
               q == Rules!Policy
    <3> HIDE DEF p, q, new
    <3>2. p.rules = q.rules /\ p.at = q.at
      BY <3>1 DEF p, q, new
    <3>3. Rules!Target(p, c) = Rules!Target(q, c)
      BY <3>2 DEF Rules!Target, Rules!Files
    <3>4. \A r : Rules!RootOf(p, r) = Rules!RootOf(q, r)
      BY <3>2 DEF Rules!RootOf
    <3>5. Rules!SandboxKey(p) = Rules!SandboxKey(q)
      BY <3>2, <3>4 DEF Rules!SandboxKey, Rules!Roots, Rules!ReadOnly, Rules!Directories
    <3>6. Rules!FileChoices(p, c) = Rules!FileChoices(q, c) /\ Rules!ShellRule(p, c) = Rules!ShellRule(q, c)
      BY <3>3, <3>5 DEF Rules!FileChoices, Rules!ShellRule
    <3>7. Rules!CommandChoices(p, c) = Rules!CommandChoices(q, c)
      BY <3>2 DEF Rules!CommandChoices, Rules!Missing
    <3>8. Rules!Offers(p, c) = Rules!Offers(q, c)
      BY <3>6, <3>7 DEF Rules!Offers
    <3> QED BY <3>8 DEF p, q
  <2>4. Approved(new)
    BY <2>1, <2>2, <2>3, <1>0 DEF Approved, RInv
  <2>5. \A r : Rules!Placed(Rules!Policy, choice[1], r) = Rules!Placed([at |-> new.at], new.lifetime, r)
    BY DEF Rules!Placed, Rules!Policy
  <2>6. \A r \in choice[2] : Remembers(new, <<choice[1], Rules!Placed(Rules!Policy, choice[1], r)>>)
    BY <2>5 DEF Remembers
  <2>7. r_approvals' = r_approvals \cup {new}
    BY <2>1
  <2> HIDE DEF new
  <2>8. r_workspace' = r_workspace
    BY <1>1 DEF Rules!Approve
  <2>9. \A x \in r_rules' : \E a \in r_approvals' : Remembers(a, x)
    BY <2>1, <2>6, <2>7, <1>0 DEF RInv
  <2>10. \A a \in r_approvals' : Approved(a)
    BY <2>4, <2>7, <1>0 DEF RInv
  <2> QED BY <2>8, <2>9, <2>10, <1>0 DEF RInv, Remembers, Approved
<1>2. ASSUME r_approvals' = r_approvals, r_rules' \subseteq r_rules, r_workspace' \in Workspaces
      PROVE  RInv'
  <2>1. \A x \in r_rules' : \E a \in r_approvals' : Remembers(a, x)
    BY <1>2, <1>0 DEF RInv
  <2>2. \A a \in r_approvals' : Approved(a)
    BY <1>2, <1>0 DEF RInv
  <2> QED BY <1>2, <2>1, <2>2 DEF RInv, Remembers, Approved
<1>3. ASSUME NEW r \in r_rules, Rules!Revoke(r)
      PROVE  RInv'
  BY <1>2, <1>3, <1>0 DEF Rules!Revoke, RInv
<1>4. ASSUME NEW r \in Restrictions, Rules!AddRestriction(r)
      PROVE  RInv'
  BY <1>2, <1>4, <1>0 DEF Rules!AddRestriction, RInv
<1>5. ASSUME NEW m \in Rules!Modes, Rules!SetMode(m)
      PROVE  RInv'
  BY <1>2, <1>5, <1>0 DEF Rules!SetMode, RInv
<1>6. ASSUME NEW w \in Workspaces, Rules!NewSession(w)
      PROVE  RInv'
  BY <1>2, <1>6, <1>0 DEF Rules!NewSession
<1>7. CASE UNCHANGED Rules!vars
  BY <1>2, <1>7, <1>0 DEF Rules!vars, RInv
<1> QED BY <1>0, <1>1, <1>3, <1>4, <1>5, <1>6, <1>7 DEF Rules!Next

\* A rule in force stands for one that an approval showed, and that is live.
LEMMA FromApproval ==
  ASSUME Rules!PermissionRulesAssumption, RInv, NEW r \in Rules!Policy.rules
  PROVE  \E a \in r_approvals : \E s \in Rules!Live(a) :
           /\ Approved(a) /\ s \in a.shown
           /\ r = Rules!Placed([at |-> a.at], a.lifetime, s)
<1>1. PICK x \in r_rules : r = x[2]
  BY DEF Rules!Policy
<1>2. PICK a \in r_approvals : Remembers(a, x)
  BY DEF RInv
<1>3. PICK s \in a.shown : x = <<a.lifetime, Rules!Placed([at |-> a.at], a.lifetime, s)>>
  BY <1>2 DEF Remembers
<1>4. s \in Rules!Live(a)
  BY <1>3 DEF Rules!Live
<1>5. Approved(a)
  BY DEF RInv
<1> QED BY <1>1, <1>3, <1>4, <1>5

\* What the rules let through, users approved.
LEMMA ApprovedOnly ==
  ASSUME Rules!PermissionRulesAssumption, RInv
  PROVE  Rules!OnlyTheApproved
<1> SUFFICES ASSUME NEW c \in RuleCalls, Rules!Decision(Rules!Policy, c) = "allow", ~Rules!ByMode(Rules!Policy, c)
             PROVE  \/ \E a \in r_approvals : Rules!Answers(a, c)
                    \/ /\ c.targets # {}
                       /\ \A f \in Rules!Files(Rules!Policy, c) : \E a \in r_approvals : Rules!AnswersFile(a, f)
                    \/ /\ c.kind = "shell" /\ c.programs # <<>>
                       /\ \A argv \in Rules!Range(c.programs) : \E a \in r_approvals :
                            \E r \in Rules!Live(a) : r.kind = "command" /\ Rules!IsPrefix(r.argv, argv)
  BY DEF Rules!OnlyTheApproved
<1>1. Rules!Allowed(Rules!Policy, c)
  BY DEF Rules!Decision
<1>2. c.kind \in {"file", "directory", "shell", "web"} /\ Rules!WellFormed(c)
  BY DEF Rules!PermissionRulesAssumption
<1>3. ASSUME NEW r \in Rules!Policy.rules
      PROVE  \E a \in r_approvals : \E s \in Rules!Live(a) :
               /\ r.kind = s.kind
               /\ r.kind \in {"file", "directory"} =>
                    /\ r.ops = s.ops /\ (s.kind = "file" => r.exact)
                    /\ Rules!RootOf(Rules!Policy, r) = Rules!ShownPath(a, s)
               /\ r.kind \notin {"file", "directory"} => r = s
               /\ r.kind \in {"file", "directory", "shell", "command", "network"}
  <2>0. PICK a \in r_approvals : \E s \in Rules!Live(a) :
          Approved(a) /\ s \in a.shown /\ r = Rules!Placed([at |-> a.at], a.lifetime, s)
    BY <1>3, FromApproval
  <2>1. PICK s \in Rules!Live(a) :
          Approved(a) /\ s \in a.shown /\ r = Rules!Placed([at |-> a.at], a.lifetime, s)
    BY <2>0
  <2>2. FileShape(a, s) \/ ShellShape(a, s) \/ WebShape(a, s)
    BY <2>1, ShapesOffered
  <2>3. Rules!Policy.at = r_workspace
    BY DEF Rules!Policy
  <2>4. r.kind = s.kind
    BY <2>1, PlacedKeeps
  <2>5. CASE FileShape(a, s)
    <3>1. /\ s.kind \in {"file", "directory"}
          /\ r.ops = s.ops /\ (s.kind = "file" => r.exact)
          /\ RootAsShown(a, s, r)
      BY <2>1, <2>5, PlacedKeeps
    <3>2. Rules!RootOf(Rules!Policy, r) = Rules!ShownPath(a, s)
      BY <3>1, <2>3 DEF Rules!ShownPath, RootAsShown
    <3> QED BY <2>4, <3>1, <3>2
  <2>6. CASE ShellShape(a, s)
    <3>1. r = s /\ s.kind \in {"shell", "command"}
      BY <2>1, <2>6, PlacedKeeps
    <3> QED BY <3>1
  <2>7. CASE WebShape(a, s)
    <3>1. r = s /\ s.kind = "network"
      BY <2>1, <2>7, PlacedKeeps
    <3> QED BY <3>1
  <2> QED BY <2>2, <2>5, <2>6, <2>7
<1>4. CASE c.kind \in {"file", "directory"}
  <2>1. c.targets # {}
    BY <1>2, <1>4 DEF Rules!WellFormed
  <2>2. ASSUME NEW f \in Rules!Files(Rules!Policy, c)
        PROVE  \E a \in r_approvals : Rules!AnswersFile(a, f)
    <3>1. PICK r \in Rules!Policy.rules : r.kind \in {"file", "directory"} /\ Rules!FileMatches(Rules!Policy, r, f)
      BY <1>1, <1>4 DEF Rules!Allowed
    <3>2. PICK a \in r_approvals : \E s \in Rules!Live(a) :
            /\ r.kind = s.kind /\ r.ops = s.ops /\ (s.kind = "file" => r.exact)
            /\ Rules!RootOf(Rules!Policy, r) = Rules!ShownPath(a, s)
      BY <1>3, <3>1
    <3>3. Rules!AnswersFile(a, f)
      BY <3>1, <3>2 DEF Rules!AnswersFile, Rules!FileMatches, Rules!Operated
    <3> QED BY <3>3
  <2> QED BY <2>1, <2>2
<1>5. CASE c.kind = "shell"
  <2>1. ASSUME NEW r \in Rules!Policy.rules, Rules!Allows(Rules!Policy, r, c)
        PROVE  \E a \in r_approvals : Rules!Answers(a, c)
    <3>0. PICK a \in r_approvals : \E s \in Rules!Live(a) :
            /\ r.kind = s.kind
            /\ r.kind \notin {"file", "directory"} => r = s
            /\ r.kind \in {"file", "directory", "shell", "command", "network"}
      BY <1>3, <2>1
    <3>1. PICK s \in Rules!Live(a) :
            /\ r.kind = s.kind
            /\ r.kind \notin {"file", "directory"} => r = s
            /\ r.kind \in {"file", "directory", "shell", "command", "network"}
      BY <3>0
    <3>2. CASE r.kind = "command"
      <4>1. Rules!Covers(r, Rules!Argv(c)) /\ r = s
        BY <2>1, <3>1, <3>2 DEF Rules!Allows
      <4>2. Rules!Argv(c) # <<>> /\ Rules!IsPrefix(s.argv, Rules!Argv(c))
        BY <4>1 DEF Rules!Covers
      <4>3. c.plain /\ Rules!Argv(c) = c.programs[1]
        BY <4>2 DEF Rules!Argv
      <4>4. s.kind = "command" /\ c.plain /\ Rules!IsPrefix(s.argv, c.programs[1])
        BY <4>1, <4>2, <4>3, <3>2
      <4>5. Rules!Answers(a, c)
        BY <4>4, <1>5 DEF Rules!Answers
      <4> QED BY <4>5
    <3>3. CASE r.kind = "shell"
      <4>1. s.kind = "shell" /\ s.line = c.line
        BY <2>1, <3>1, <3>3 DEF Rules!Allows
      <4>2. Rules!Answers(a, c)
        BY <4>1, <1>5 DEF Rules!Answers
      <4> QED BY <4>2
    <3>4. r.kind # "network" /\ r.kind \notin {"file", "directory"}
      BY <2>1, <3>1, <1>5 DEF Rules!Allows
    <3> QED BY <3>1, <3>2, <3>3, <3>4
  <2>2. ASSUME Rules!Answered(Rules!Policy, c)
        PROVE  /\ c.programs # <<>>
               /\ \A argv \in Rules!Range(c.programs) : \E a \in r_approvals :
                    \E r \in Rules!Live(a) : r.kind = "command" /\ Rules!IsPrefix(r.argv, argv)
    <3>1. ASSUME NEW argv \in Rules!Range(c.programs)
          PROVE  \E a \in r_approvals : \E r \in Rules!Live(a) : r.kind = "command" /\ Rules!IsPrefix(r.argv, argv)
      <4>1. PICK r \in Rules!Policy.rules : r.kind = "command" /\ Rules!Covers(r, argv)
        BY <2>2, <3>1 DEF Rules!Answered
      <4>2. PICK a \in r_approvals : \E s \in Rules!Live(a) : r = s
        BY <1>3, <4>1
      <4> QED BY <4>1, <4>2 DEF Rules!Covers
    <3> QED BY <2>2, <3>1 DEF Rules!Answered
  <2> QED BY <1>1, <1>5, <2>1, <2>2 DEF Rules!Allowed
<1>6. CASE c.kind = "web"
  <2>1. ~Rules!Answered(Rules!Policy, c)
    BY <1>2, <1>6 DEF Rules!WellFormed, Rules!Answered
  <2>2. PICK r \in Rules!Policy.rules : Rules!Allows(Rules!Policy, r, c)
    BY <1>1, <1>6, <2>1 DEF Rules!Allowed
  <2>3. PICK a \in r_approvals : \E s \in Rules!Live(a) :
          /\ r.kind = s.kind
          /\ r.kind \notin {"file", "directory"} => r = s
          /\ r.kind \in {"file", "directory", "shell", "command", "network"}
    BY <1>3, <2>2
  <2>4. r.kind = "network" /\ r.host = c.host /\ c.method = r.method
    BY <2>2, <2>3, <1>6 DEF Rules!Allows
  <2>5. Rules!Answers(a, c)
    BY <2>3, <2>4, <1>6 DEF Rules!Answers
  <2> QED BY <2>5
<1> QED BY <1>2, <1>4, <1>5, <1>6

\* What was approved goes through again.
LEMMA NotAskedAgain ==
  ASSUME Rules!PermissionRulesAssumption, RInv
  PROVE  Rules!RememberedIsAnswered
<1> SUFFICES ASSUME NEW a \in r_approvals,
                    Rules!Live(a) = a.shown, a.before \subseteq r_rules,
                    ~Rules!Denied(Rules!Policy, a.call), ~Rules!MustAsk(Rules!Policy, a.call),
                    a.call.kind = "shell" \/ (\E f \in Rules!Files([at |-> a.at], a.call) : Rules!Under(f.path, a.at))
                      => r_workspace = a.at,
                    \A r \in Rules!Live(a) : r.kind = "shell" => r.key = Rules!SandboxKey(Rules!Policy)
             PROVE  Rules!Decision(Rules!Policy, a.call) = "allow"
  BY DEF Rules!RememberedIsAnswered
<1> DEFINE c == a.call
<1>1. Approved(a)
  BY DEF RInv
<1>2. c \in RuleCalls /\ c.kind \in {"file", "directory", "shell", "web"} /\ Rules!WellFormed(c)
  BY <1>1 DEF Approved, Rules!PermissionRulesAssumption
<1>3. Rules!Allowed(Rules!Policy, c) => Rules!Decision(Rules!Policy, c) = "allow"
  BY DEF Rules!Decision
<1>4. Rules!Policy.at = r_workspace /\ r_workspace \in Workspaces
  BY DEF Rules!Policy, RInv
<1>5. ASSUME NEW s \in a.shown
      PROVE  Rules!Placed([at |-> a.at], a.lifetime, s) \in Rules!Policy.rules
  <2>1. s \in Rules!Live(a)
    BY <1>5
  <2>2. <<a.lifetime, Rules!Placed([at |-> a.at], a.lifetime, s)>> \in r_rules
    BY <2>1 DEF Rules!Live
  <2> QED BY <2>2 DEF Rules!Policy
<1>6. CASE c.kind \in {"file", "directory"}
  <2> DEFINE was == Rules!Target(PolicyAt(a), c)
  <2>1. PICK s : a.shown = {s} /\ FileShape(a, s)
    <3>1. PICK s : a.shown = {s}
      BY <1>1, <1>6, ShapesOffered
    <3>2. FileShape(a, s) \/ ShellShape(a, s) \/ WebShape(a, s)
      BY <1>1, <3>1, ShapesOffered
    <3> QED BY <3>1, <3>2, <1>6 DEF ShellShape, WebShape
  <2> DEFINE r == Rules!Placed([at |-> a.at], a.lifetime, s)
  <2>2. /\ r \in Rules!Policy.rules /\ r.kind = s.kind /\ s.kind \in {"file", "directory"}
        /\ s.path \in Seq(STRING) /\ r.ops = s.ops /\ (s.kind = "file" => r.exact)
        /\ RootAsShown(a, s, r)
    BY <1>1, <1>5, <2>1, PlacedKeeps
  <2> HIDE DEF r
  <2>3. /\ was \in Seq(STRING) /\ Rules!Files(PolicyAt(a), c) # {}
        /\ \A f \in Rules!Files(PolicyAt(a), c) : f.path = was
        /\ a.at \in Seq(STRING) /\ PolicyAt(a).at = a.at
    BY <1>1, <1>2, <1>6, OnePath DEF Approved, PolicyAt, Rules!PermissionRulesAssumption
  <2>4. Rules!Under(was, a.at) => r_workspace = a.at
    <3>1. Rules!Files([at |-> a.at], c) = Rules!Files(PolicyAt(a), c)
      BY <2>3 DEF Rules!Files
    <3> QED BY <2>3, <3>1
  <2>5. /\ Rules!Files(Rules!Policy, c) # {}
        /\ \A f \in Rules!Files(Rules!Policy, c) : f.path = Rules!Target(Rules!Policy, c) /\ f.op \in c.ops
    BY <1>2, <1>4, <1>6, OnePath
  <2>6. Rules!Target(Rules!Policy, c) = was
    <3>1. CASE r_workspace = a.at
      BY <3>1, <2>3, <1>4 DEF Rules!Target, Rules!Files
    <3>2. CASE r_workspace # a.at
      <4>1. ~Rules!Under(was, a.at)
        BY <2>4, <3>2
      <4>2. ~c.inside
        <5>1. PICK f \in Rules!Files(PolicyAt(a), c) : TRUE
          BY <2>3
        <5>2. PICK t \in c.targets : f.path = IF c.inside THEN a.at \o t[1] ELSE t[1]
          <6>1. PICK t \in c.targets :
                  f = [path |-> IF c.inside THEN PolicyAt(a).at \o t[1] ELSE t[1], op |-> t[2]]
            BY <5>1 DEF Rules!Files
          <6>2. f.path = IF c.inside THEN a.at \o t[1] ELSE t[1]
            BY <6>1 DEF PolicyAt
          <6> QED BY <6>2
        <5>3. t[1] \in Seq(STRING)
          BY <1>2, <1>6 DEF Rules!WellFormed
        <5>4. f.path = was
          BY <2>3
        <5> HIDE DEF was
        <5> QED BY <2>3, <4>1, <5>2, <5>3, <5>4, UnderConcat
      <4>3. Rules!Files(Rules!Policy, c) = Rules!Files(PolicyAt(a), c)
        BY <4>2 DEF Rules!Files
      <4> QED BY <4>3 DEF Rules!Target
    <3> QED BY <3>1, <3>2
  <2>7. s.path \in {was, Rules!Parent(was)} /\ Rules!Under(was, s.path) /\ (s.kind = "file" => s.path = was)
    <3>1. Rules!Under(was, was) /\ Rules!Under(was, Rules!Parent(was))
      BY <2>3, UnderFacts
    <3> HIDE DEF was
    <3>2. \/ s = Rules!FileRule(was, c.ops)
          \/ \E d \in {was, Rules!Parent(was)}, ops \in SUBSET Rules!Edits : s = Rules!DirectoryRule(d, ops)
      BY <2>1 DEF FileShape, was
    <3> QED BY <3>1, <3>2 DEF Rules!FileRule, Rules!DirectoryRule
  <2>8. c.ops \subseteq s.ops
    BY <2>1 DEF FileShape, Rules!FileRule, Rules!DirectoryRule
  <2>9. Rules!RootOf(Rules!Policy, r) = s.path
    <3>1. CASE Rules!Under(s.path, a.at)
      <4>1. Rules!Under(was, a.at)
        <5> HIDE DEF was
        <5> QED BY <2>2, <2>3, <2>7, <3>1, UnderTransitive
      <4>2. Rules!Policy.at = a.at
        BY <4>1, <2>4, <1>4
      <4>3. a.at \o SubSeq(s.path, Len(a.at) + 1, Len(s.path)) = s.path
        BY <2>2, <2>3, <3>1, CutAndPut
      <4> QED BY <4>2, <4>3, <2>2, <3>1 DEF RootAsShown
    <3>2. CASE ~Rules!Under(s.path, a.at)
      BY <2>2, <3>2 DEF RootAsShown
    <3> QED BY <3>1, <3>2
  <2>10. ASSUME NEW f \in Rules!Files(Rules!Policy, c)
         PROVE  Rules!FileMatches(Rules!Policy, r, f)
    <3>1. f.path = was /\ f.op \in r.ops
      BY <2>2, <2>5, <2>6, <2>8
    <3> HIDE DEF was
    <3> QED BY <2>2, <2>7, <2>9, <3>1 DEF Rules!FileMatches, Rules!Operated
  <2> QED BY <1>3, <1>6, <2>2, <2>10 DEF Rules!Allowed
<1>7. CASE c.kind = "shell"
  <2>1. CASE a.shown = {Rules!ShellRule(PolicyAt(a), c)}
    <3> DEFINE s == Rules!ShellRule(PolicyAt(a), c)
    <3>1. s.kind = "shell" /\ s.line = c.line
      BY DEF Rules!ShellRule
    <3>2. s \in a.shown /\ s \in Rules!Policy.rules
      <4>1. Rules!Placed([at |-> a.at], a.lifetime, s) = s
        BY <3>1 DEF Rules!Placed
      <4> QED BY <2>1, <4>1, <1>5
    <3>3. s.key = Rules!SandboxKey(Rules!Policy)
      BY <3>1, <3>2
    <3> HIDE DEF s
    <3>4. Rules!Allows(Rules!Policy, s, c)
      BY <3>1, <3>3, <1>7 DEF Rules!Allows
    <3> QED BY <1>3, <1>7, <3>2, <3>4 DEF Rules!Allowed
  <2>2. CASE a.shown \in Rules!CommandChoices(PolicyAt(a), c)
    <3>1. \A s \in a.shown : (\E argv : s = Rules!CommandRule(argv)) => s \in Rules!Policy.rules
      <4> SUFFICES ASSUME NEW s \in a.shown, NEW argv, s = Rules!CommandRule(argv)
                   PROVE  s \in Rules!Policy.rules
        OBVIOUS
      <4>1. Rules!Placed([at |-> a.at], a.lifetime, s) = s
        BY DEF Rules!Placed, Rules!CommandRule
      <4> QED BY <4>1, <1>5
    <3>2. CASE c.plain
      <4> DEFINE argv == c.programs[1]
      <4>1. Rules!Argv(c) = argv /\ argv \in Seq(STRING) /\ argv # <<>>
        BY <1>2, <1>7, <3>2 DEF Rules!Argv, Rules!WellFormed
      <4>2. /\ Head(argv) \in Installed
            /\ \/ a.shown = {Rules!CommandRule(<<Head(argv)>>)}
               \/ \E n \in {m \in {2} : Len(argv) >= m} : a.shown = {Rules!CommandRule(SubSeq(argv, 1, n))}
        BY <2>2, <3>2, <4>1 DEF Rules!CommandChoices
      <4> HIDE DEF argv
      <4>3. PICK n \in {1, 2} : Len(argv) >= n /\ a.shown = {Rules!CommandRule(SubSeq(argv, 1, n))}
        <5>1. Len(argv) \in Nat /\ Len(argv) >= 1 /\ SubSeq(argv, 1, 1) = <<Head(argv)>>
          <6>1. Len(argv) \in Nat /\ Len(argv) >= 1 /\ Head(argv) = argv[1]
            BY <4>1
          <6>2. SubSeq(argv, 1, 1) = <<argv[1]>>
            <7> DEFINE t == SubSeq(argv, 1, 1)
            <7>1. t \in Seq(STRING) /\ Len(t) = 1 /\ t[1] = argv[1]
              BY <4>1, <6>1
            <7>2. argv[1] \in STRING
              BY <4>1, <6>1
            <7> HIDE DEF t
            <7>3. t = <<argv[1]>>
              BY <7>1, <7>2
            <7> QED BY <7>3 DEF t
          <6> QED BY <6>1, <6>2
        <5>2. CASE a.shown = {Rules!CommandRule(<<Head(argv)>>)}
          BY <5>1, <5>2
        <5>3. CASE \E n \in {m \in {2} : Len(argv) >= m} : a.shown = {Rules!CommandRule(SubSeq(argv, 1, n))}
          BY <5>3
        <5> QED BY <4>2, <5>2, <5>3
      <4> DEFINE s == Rules!CommandRule(SubSeq(argv, 1, n))
      <4>4. s.kind = "command" /\ s.argv = SubSeq(argv, 1, n)
        BY DEF Rules!CommandRule
      <4>5. s \in Rules!Policy.rules
        BY <3>1, <4>3
      <4> HIDE DEF s
      <4>6. Rules!IsPrefix(SubSeq(argv, 1, n), argv)
        <5> DEFINE front == SubSeq(argv, 1, n)
        <5>1. /\ front \in Seq(STRING) /\ Len(front) = n /\ n <= Len(argv) /\ Len(argv) \in Nat
              /\ \A i \in 1 .. n : front[i] = argv[i]
          BY <4>1, <4>3
        <5> HIDE DEF front
        <5>2. SubSeq(front, 1, n) = SubSeq(argv, 1, n)
          BY <4>3, <5>1
        <5>3. Rules!IsPrefix(front, argv)
          BY <5>1, <5>2 DEF Rules!IsPrefix
        <5> QED BY <5>3 DEF front
      <4>7. Rules!Covers(s, Rules!Argv(c))
        BY <4>1, <4>2, <4>4, <4>6 DEF Rules!Covers
      <4>8. Rules!Allows(Rules!Policy, s, c)
        BY <4>4, <4>7, <1>7 DEF Rules!Allows
      <4> QED BY <1>3, <1>7, <4>5, <4>8 DEF Rules!Allowed
    <3>3. CASE ~c.plain
      <4>1. /\ Rules!Missing(PolicyAt(a), c) # {}
            /\ a.shown = {Rules!CommandRule(<<program>>) : program \in Rules!Missing(PolicyAt(a), c)}
        BY <2>2, <3>3 DEF Rules!CommandChoices
      <4>2. c.programs # <<>>
        BY <4>1 DEF Rules!Missing, Rules!Range
      <4>3. ASSUME NEW argv \in Rules!Range(c.programs)
            PROVE  \E r \in Rules!Policy.rules : r.kind = "command" /\ Rules!Covers(r, argv)
        <5>1. argv \in Seq(STRING) /\ argv # <<>>
          BY <1>2, <1>7 DEF Rules!WellFormed, Rules!Range
        <5>2. Head(argv) \in Installed
          BY <3>3 DEF Rules!Denied, Rules!Refused
        <5>3. CASE \E r \in PolicyAt(a).rules : r.kind = "command" /\ Rules!Covers(r, argv)
          <6>1. PolicyAt(a).rules \subseteq Rules!Policy.rules
            BY DEF PolicyAt, Rules!Policy
          <6> QED BY <5>3, <6>1
        <5>4. CASE ~\E r \in PolicyAt(a).rules : r.kind = "command" /\ Rules!Covers(r, argv)
          <6> DEFINE s == Rules!CommandRule(<<argv[1]>>)
          <6>1. argv[1] \in Rules!Missing(PolicyAt(a), c)
            BY <5>4 DEF Rules!Missing
          <6>2. s \in Rules!Policy.rules
            BY <3>1, <4>1, <6>1
          <6>3. s.kind = "command" /\ s.argv = <<argv[1]>>
            BY DEF Rules!CommandRule
          <6> HIDE DEF s
          <6>4. Rules!IsPrefix(<<argv[1]>>, argv)
            BY <5>1 DEF Rules!IsPrefix
          <6>5. Rules!Covers(s, argv)
            BY <5>1, <5>2, <6>3, <6>4 DEF Rules!Covers
          <6> QED BY <6>2, <6>3, <6>5
        <5> QED BY <5>3, <5>4
      <4>4. Rules!Answered(Rules!Policy, c)
        BY <3>3, <4>2, <4>3 DEF Rules!Answered
      <4> QED BY <1>3, <1>7, <4>4 DEF Rules!Allowed
    <3> QED BY <3>2, <3>3
  <2>3. <<a.lifetime, a.shown>> \in Rules!Offers(PolicyAt(a), c)
    BY <1>1 DEF Approved
  <2>4. a.shown \in Rules!CommandChoices(PolicyAt(a), c) \/ a.shown = {Rules!ShellRule(PolicyAt(a), c)}
    BY <2>3, <1>7 DEF Rules!Offers
  <2> QED BY <2>1, <2>2, <2>4
<1>8. CASE c.kind = "web"
  <2>1. a.shown \in Rules!WebChoices(c)
    BY <1>1, <1>8 DEF Approved, Rules!Offers
  <2>2. PICK page \in {c.page, None} : a.shown = {Rules!NetworkRule(c, page)}
    BY <2>1 DEF Rules!WebChoices
  <2> DEFINE s == Rules!NetworkRule(c, page)
  <2>3. s.kind = "network" /\ s.host = c.host /\ s.method = c.method /\ s.page = page
    BY DEF Rules!NetworkRule
  <2>4. s \in Rules!Policy.rules
    <3>1. Rules!Placed([at |-> a.at], a.lifetime, s) = s
      BY <2>3 DEF Rules!Placed
    <3> QED BY <2>2, <3>1, <1>5
  <2> HIDE DEF s
  <2>5. Rules!Allows(Rules!Policy, s, c)
    BY <2>2, <2>3, <1>8 DEF Rules!Allows
  <2> QED BY <1>3, <1>8, <2>4, <2>5 DEF Rules!Allowed
<1> QED BY <1>2, <1>6, <1>7, <1>8

LEMMA RulesKept == ASSUME Rules!PermissionRulesAssumption, RulesInv PROVE Rules!TypeOK /\ Rules!RulesAreApprovals
<1>1. Rules!RulesAreApprovals
  BY ApprovedOnly, NotAskedAgain DEF Rules!RulesAreApprovals, RulesInv
<1>4. ASSUME NEW x \in r_rules
      PROVE  x[1] \in Lifetimes /\ x[2].kind \in {"file", "directory", "shell", "command", "network"}
  <2>1. PICK a \in r_approvals : Remembers(a, x)
    BY <1>4 DEF RInv, RulesInv
  <2>2. Approved(a)
    BY <1>4 DEF RInv, RulesInv
  <2>3. PICK s \in a.shown : x = <<a.lifetime, Rules!Placed([at |-> a.at], a.lifetime, s)>>
    BY <2>1 DEF Remembers
  <2>4. FileShape(a, s) \/ ShellShape(a, s) \/ WebShape(a, s)
    BY <2>2, ShapesOffered
  <2>5. s.kind \in {"file", "directory", "shell", "command", "network"}
    BY <2>2, <2>4, PlacedKeeps
  <2>6. Rules!Placed([at |-> a.at], a.lifetime, s).kind = s.kind
    BY <2>2, PlacedKeeps
  <2> QED BY <2>2, <2>3, <2>5, <2>6 DEF Approved
<1>5. Rules!TypeOK
  BY <1>4 DEF Rules!TypeOK, RulesInv, RInv, RTyped
<1> QED BY <1>1, <1>5

LEMMA RulesStep == ASSUME Rules!PermissionRulesAssumption PROVE RulesInv /\ Rules!Next => RulesInv'
BY RInvStep, RTypedStep DEF RulesInv

LEMMA RulesStutter == ASSUME Rules!PermissionRulesAssumption PROVE RulesInv /\ UNCHANGED Rules!vars => RulesInv'
BY RInvStep, RTypedStep DEF RulesInv
LEMMA PermissionRulesAssumed == Rules!PermissionRulesAssumption
BY MCWorkspaceAssumption

\* A step of the suite is a step of this part, or leaves it alone.
LEMMA RulesAlone == [SuiteNext]_suite_vars => Rules!Next \/ UNCHANGED Rules!vars
<1>1. SuiteNext => Rules!Next \/ UNCHANGED r_vars
  BY DEF SuiteNext, InPlan, InJournal, InEdits, InSemantic, InRuntime, InAnswer, InSearch,
     InCore, InEpisodes, r_vars
<1>2. UNCHANGED suite_vars => UNCHANGED r_vars
  BY DEF suite_vars
<1>3. UNCHANGED r_vars => UNCHANGED Rules!vars
  BY DEF r_vars, Rules!vars
<1> QED
  BY <1>1, <1>2, <1>3

LEMMA RulesHolds == SuiteSpec => []RulesInv
<1>1. SuiteInit => RulesInv
  BY RulesInit, PermissionRulesAssumed DEF SuiteInit
<1>2. RulesInv /\ [SuiteNext]_suite_vars => RulesInv'
  BY RulesAlone, PermissionRulesAssumed, RulesStep, RulesStutter
<1> QED
  BY <1>1, <1>2, PTL DEF SuiteSpec

\* RulesAreApprovals of PermissionRules, whatever is approved, revoked and restricted, in
\* whatever workspaces of the project: what goes through only because of rules was approved
\* for that very path, program, line or host, and what was approved is not asked again in
\* the same place.
THEOREM RulesAlwaysApprovals == SuiteSpec => []RulesAreApprovals
<1>1. RulesInv => RulesAreApprovals
  BY RulesKept, PermissionRulesAssumed DEF RulesAreApprovals
<1> QED
  BY <1>1, RulesHolds, PTL

-----------------------------------------------------------------------------
(* The assembly of a runtime.  What is open is recorded, or was given; what is *)
(* left of a shutdown is what is still open, so nothing is closed twice.   *)

LEMMA RuntimeAssemblyAssumed == Runtime!RuntimeAssemblyAssumption
BY MCWorkspaceAssumption

Over == {"aborted", "left", "ended"}

\* While a runtime is assembled nothing is closed, and what is recorded is what is
\* open, but for a publisher that was passed in.
Assembling ==
  u_stage \in Runtime!Steps \union {"ready"} =>
    /\ u_todo = {} /\ u_refused = {} /\ ~u_complete /\ ~u_late
    /\ \A r \in Runtime!Resources : u_closings[r] = 0
    /\ u_given \subseteq u_open /\ u_opened = u_open \ (u_given \intersect {"publisher"})
    /\ u_stage = "store" => u_open = u_given
    /\ u_stage = "adopt" => u_open = u_given \union {"store"}
    /\ u_stage # "store" /\ "host" \notin u_given => "store" \in u_open
    /\ u_stage \in {"tools", "host", "agent", "start", "ready"} => "publisher" \in u_open
    /\ u_stage \in {"agent", "start", "ready"} => "host" \in u_open

\* What remains to be closed is what comes last in the order; what came before it
\* is closed, or would not be.
ClosedInOrder(all) ==
  /\ u_todo \subseteq all
  /\ \A r \in u_todo : u_closings[r] = 0
  /\ \A r, q \in all : r \in u_todo /\ Runtime!Order[r] <= Runtime!Order[q] => q \in u_todo

Aborting ==
  u_stage = "aborting" =>
    /\ ClosedInOrder(Runtime!ToAbort(u_opened))
    /\ u_open \subseteq u_opened \union u_given
    /\ u_given \ {"broker"} \subseteq u_open
    /\ \A r \in Runtime!ToAbort(u_opened) \ u_todo :
         \/ r \notin u_open \/ r \in u_refused \/ r \in Runtime!Late
         \/ u_refused \intersect {"commands", "broker"} # {}
         \/ r = "publisher" /\ "mcp" \in u_refused

Ending ==
  u_stage = "ending" =>
    /\ ClosedInOrder(Runtime!ToShutdown)
    /\ u_open \subseteq u_opened \union {"publisher"} /\ u_complete
    /\ "host" \in u_opened
    /\ u_refused = {} =>
         \A r \in Runtime!ToShutdown : r \in u_open => r \in u_todo \union Runtime!Late
    /\ "publisher" \in u_todo => "publisher" \in u_open
    /\ u_owner /\ "host" \notin u_todo /\ u_refused = {} =>
         "store" \notin u_open \/ "store" \in Runtime!Late

\* A host whose closing goes on is one that this runtime had to close.
ClosesLate ==
  u_late =>
    /\ "host" \notin u_given /\ u_stage \in {"aborting", "aborted", "ending", "ended"}
    /\ u_stage \in {"ending", "ended"} => u_owner

StoreOutlivesHost ==
  "host" \in u_open \ u_given /\ u_refused = {} =>
    "store" \in u_open \/ (u_late /\ u_stage \in {"aborting", "aborted"})

RuntimeInv ==
  /\ Runtime!TypeOK
  /\ Assembling /\ Aborting /\ Ending
  /\ u_stage \in Over => u_todo = {}
  /\ "host" \in u_given => ~u_owner
  /\ Runtime!ClosedOnce
  /\ ClosesLate /\ StoreOutlivesHost
  /\ Runtime!AbortReleases /\ Runtime!ShutdownReleases

LEMMA TheSteps ==
  Runtime!Steps = {"store", "adopt", "commands", "loops", "hooks", "mcp", "publisher",
           "tools", "host", "agent", "start"}
BY DEF Runtime!Steps, Runtime!Following

LEMMA RuntimeInit == Runtime!Init => RuntimeInv
<1> SUFFICES ASSUME Runtime!Init PROVE RuntimeInv
  OBVIOUS
<1>1. Runtime!TypeOK
  <2>1. u_given \subseteq Runtime!Resources /\ u_open \subseteq Runtime!Resources /\ u_opened \subseteq Runtime!Resources
    BY DEF Runtime!Init, Runtime!Resources
  <2>2. u_closings \in [Runtime!Resources -> Nat]
    BY DEF Runtime!Init
  <2> QED BY <2>1, <2>2, TheSteps DEF Runtime!Init, Runtime!TypeOK
<1>2. Assembling
  BY TheSteps DEF Runtime!Init, Assembling
<1> QED
  BY <1>1, <1>2, TheSteps
     DEF Runtime!Init, RuntimeInv, Aborting, Ending, Over, Runtime!ClosedOnce, Runtime!AbortReleases, Runtime!ShutdownReleases,
       ClosesLate, StoreOutlivesHost, Runtime!Late

LEMMA RuntimeStep == RuntimeInv /\ Runtime!Next => RuntimeInv'
<1> SUFFICES ASSUME RuntimeInv, Runtime!Next PROVE RuntimeInv'
  OBVIOUS
<1>1. CASE Runtime!Make
  <2> USE DEF RuntimeInv, Runtime!TypeOK, Assembling, Runtime!Resources
  <2>1. Runtime!Makes(u_stage) \subseteq Runtime!Resources
    BY DEF Runtime!Makes
  <2>2. u_stage' \in Runtime!Steps \union {"ready"}
    BY <1>1, TheSteps DEF Runtime!Make, Runtime!NextStep, Runtime!Following
  <2>3. Runtime!TypeOK'
    BY <1>1, <2>1, <2>2 DEF Runtime!Make
  <2>4. Assembling'
    <3>1. /\ u_todo' = {} /\ u_refused' = {} /\ ~u_complete' /\ ~u_late'
          /\ \A r \in Runtime!Resources : u_closings'[r] = 0
      BY <1>1 DEF Runtime!Make
    <3>2. u_given' \subseteq u_open' /\ u_opened' = u_open' \ (u_given' \intersect {"publisher"})
      BY <1>1, TheSteps DEF Runtime!Make, Runtime!Makes
    <3>3. /\ u_stage' # "store"
          /\ u_stage' = "adopt" => u_stage = "store"
          /\ u_stage' \in {"tools", "host", "agent", "start", "ready"} =>
               u_stage \in {"publisher", "tools", "host", "agent", "start"}
          /\ u_stage' \in {"agent", "start", "ready"} => u_stage \in {"host", "agent", "start"}
      BY <1>1, TheSteps DEF Runtime!Make, Runtime!NextStep, Runtime!Following
    <3>4. u_stage = "store" => u_open' = u_given \union {"store"}
      BY <1>1 DEF Runtime!Make, Runtime!Makes
    <3>5. u_stage # "store" /\ "host" \notin u_given => "store" \in u_open'
      BY <1>1, TheSteps DEF Runtime!Make
    <3>6. u_stage \in {"publisher", "tools", "host", "agent", "start"} => "publisher" \in u_open'
      BY <1>1, TheSteps DEF Runtime!Make, Runtime!Makes
    <3>7. u_stage \in {"host", "agent", "start"} => "host" \in u_open'
      BY <1>1, TheSteps DEF Runtime!Make, Runtime!Makes
    <3>8. u_given' = u_given
      BY <1>1 DEF Runtime!Make
    <3> QED BY <3>1, <3>2, <3>3, <3>4, <3>5, <3>6, <3>7, <3>8
  <2>5. StoreOutlivesHost'
    <3>1. u_stage = "store" => "store" \in u_open'
      BY <1>1 DEF Runtime!Make, Runtime!Makes
    <3>2. u_stage # "store" /\ "host" \notin u_given => "store" \in u_open'
      BY <1>1, TheSteps DEF Runtime!Make
    <3> QED BY <1>1, <3>1, <3>2 DEF Runtime!Make, StoreOutlivesHost
  <2> QED
    BY <1>1, <2>2, <2>3, <2>4, <2>5, TheSteps
       DEF Runtime!Make, Aborting, Ending, Over, Runtime!ClosedOnce, Runtime!AbortReleases, Runtime!ShutdownReleases,
       ClosesLate, StoreOutlivesHost, Runtime!Late
<1>2. CASE Runtime!Adopt
  <2> USE DEF RuntimeInv, Runtime!TypeOK, Assembling, Runtime!Resources
  <2>1. u_stage' = "commands"
    BY <1>2 DEF Runtime!Adopt, Runtime!NextStep, Runtime!Following
  <2> QED
    BY <1>2, <2>1, TheSteps
       DEF Runtime!Adopt, Aborting, Ending, Over, Runtime!ClosedOnce, Runtime!AbortReleases, Runtime!ShutdownReleases,
       ClosesLate, StoreOutlivesHost, Runtime!Late
<1>3. CASE Runtime!FailAdopt
  <2> USE DEF RuntimeInv, Runtime!TypeOK, Assembling, Runtime!Resources
  <2>1. Runtime!TypeOK' /\ Runtime!ClosedOnce'
    BY <1>3, TheSteps DEF Runtime!FailAdopt, Runtime!ClosedOnce
  <2>2. Runtime!AbortReleases'
    BY <1>3, TheSteps DEF Runtime!FailAdopt, Runtime!AbortReleases
  <2> QED
    BY <1>3, <2>1, <2>2, TheSteps DEF Runtime!FailAdopt, Aborting, Ending, Over,
       Runtime!ShutdownReleases, ClosesLate, StoreOutlivesHost, Runtime!Late
<1>4. CASE Runtime!FailUnguarded
  BY <1>4, TheSteps
     DEF RuntimeInv, Runtime!TypeOK, Assembling, Runtime!Resources, Runtime!FailUnguarded, Aborting, Ending, Over,
         Runtime!ClosedOnce, Runtime!AbortReleases, Runtime!ShutdownReleases,
       ClosesLate, StoreOutlivesHost, Runtime!Late
<1>5. CASE Runtime!FailGuarded
  <2> USE DEF RuntimeInv, Runtime!TypeOK, Assembling, Runtime!Resources
  <2>1. Runtime!Makes(u_stage) \subseteq Runtime!Resources /\ Runtime!Makes(u_stage) \intersect u_given = {}
    BY <1>5 DEF Runtime!FailGuarded, Runtime!Guarded, Runtime!Makes
  <2>2. /\ u_stage \in Runtime!Steps /\ u_stage \notin {"store", "adopt"} /\ u_stage' = "aborting"
        /\ u_todo' = Runtime!ToAbort(u_opened)' /\ ~u_late
        /\ UNCHANGED <<u_given, u_owner, u_complete, u_calls, u_late, u_closings, u_refused>>
    BY <1>5, TheSteps DEF Runtime!FailGuarded, Runtime!Guarded, Runtime!ToAbort
  <2>6. /\ u_given \subseteq u_open' /\ u_open' \subseteq u_opened' \union u_given
        /\ u_open' \union u_opened' \subseteq Runtime!Resources
        /\ "host" \in u_open' \ u_given => "store" \in u_open'
    <3>1. CASE UNCHANGED <<u_open, u_opened>>
      BY <2>2, <3>1, TheSteps DEF StoreOutlivesHost
    <3>2. CASE u_open' = u_open \ Runtime!ClosedBy("host") /\ "host" \notin u_given /\ UNCHANGED u_opened
      BY <2>2, <3>2, TheSteps DEF Runtime!ClosedBy
    <3>3. CASE /\ u_open' = u_open \union Runtime!Makes(u_stage)
               /\ u_opened' = u_opened \union Runtime!Makes(u_stage)
      <4>1. "host" \notin Runtime!Makes(u_stage)
        BY <1>5 DEF Runtime!FailGuarded, Runtime!Guarded, Runtime!Makes
      <4> QED BY <2>1, <2>2, <3>3, <4>1, TheSteps DEF StoreOutlivesHost
    <3> QED BY <1>5, <3>1, <3>2, <3>3 DEF Runtime!FailGuarded, Runtime!RecordedAtFailure
  <2>3. Runtime!TypeOK'
    BY <2>2, <2>6 DEF Runtime!ToAbort
  <2>4. Aborting'
    BY <2>2, <2>6 DEF Aborting, ClosedInOrder, Runtime!ToAbort
  <2>5. StoreOutlivesHost'
    BY <2>2, <2>6 DEF StoreOutlivesHost
  <2> QED
    BY <2>2, <2>3, <2>4, <2>5, TheSteps DEF Ending, Over, Runtime!ClosedOnce,
       Runtime!AbortReleases, Runtime!ShutdownReleases,
       ClosesLate, StoreOutlivesHost, Runtime!Late
<1>6. ASSUME NEW c \in Callers, Runtime!Call(c) PROVE RuntimeInv'
  <2> USE DEF RuntimeInv, Runtime!TypeOK, Assembling, Runtime!Resources
  <2>1. CASE u_complete
    BY <1>6, <2>1, TheSteps DEF Runtime!Call, Aborting, Ending, ClosedInOrder, Runtime!Order,
       Runtime!ToShutdown, Over, Runtime!ClosedOnce,
       Runtime!AbortReleases, Runtime!ShutdownReleases,
       ClosesLate, StoreOutlivesHost, Runtime!Late
  <2>2. CASE ~u_complete
    <3>1. /\ u_stage = "ready" /\ u_stage' = "ending" /\ u_complete' /\ u_complete' \in BOOLEAN
          /\ u_todo' = Runtime!ToShutdown /\ Runtime!ToShutdown' = Runtime!ToShutdown
          /\ u_calls' \subseteq Callers
          /\ UNCHANGED <<u_given, u_open, u_opened, u_owner, u_late, u_closings, u_refused>>
      BY <1>6, <2>2 DEF Runtime!Call, Ending, Runtime!ToShutdown
    <3>2. Runtime!TypeOK'
      BY <3>1 DEF Runtime!ToShutdown
    <3>3. Ending'
      BY <3>1 DEF Ending, ClosedInOrder, Runtime!ToShutdown
    <3> QED
      BY <3>1, <3>2, <3>3, TheSteps DEF Aborting, Over, Runtime!ClosedOnce,
         Runtime!AbortReleases, Runtime!ShutdownReleases,
       ClosesLate, StoreOutlivesHost, Runtime!Late
  <2> QED BY <2>1, <2>2
<1>7. ASSUME NEW r \in Runtime!Resources, Runtime!Close(r) PROVE RuntimeInv'
  <2> USE DEF RuntimeInv, Runtime!TypeOK
  <2>1. /\ r \in u_todo /\ \A q \in u_todo : Runtime!Order[r] <= Runtime!Order[q]
        /\ u_stage \in {"aborting", "ending"} /\ Runtime!Order' = Runtime!Order
        /\ u_open' = u_open \ Runtime!ClosedBy(r) /\ u_todo' = u_todo \ {r}
        /\ u_closings' = [u_closings EXCEPT ![r] = @ + 1]
        /\ UNCHANGED <<u_given, u_stage, u_opened, u_owner, u_complete, u_calls, u_late, u_refused>>
    BY <1>7, TheSteps DEF Runtime!Close, Runtime!IsFirst, Assembling, Over, Runtime!Order
  <2>2. u_closings[r] = 0
    BY <2>1 DEF Aborting, Ending, ClosedInOrder
  <2>3. Runtime!TypeOK' /\ Runtime!ClosedOnce'
    BY <2>1, <2>2 DEF Runtime!ClosedOnce, Runtime!Resources
  <2>4. ASSUME NEW all \in SUBSET Runtime!Resources, ClosedInOrder(all), all' = all
        PROVE  ClosedInOrder(all)'
    <3>5. u_closings \in [Runtime!Resources -> Nat] /\ u_todo \subseteq Runtime!Resources
      OBVIOUS
    <3> HIDE DEF RuntimeInv, Runtime!TypeOK
    <3>1. \A q \in u_todo' : u_closings'[q] = 0
      BY <2>1, <2>4, <3>5 DEF ClosedInOrder, Runtime!Resources
    <3>2. ASSUME NEW a \in all, NEW q \in all, a \in u_todo', Runtime!Order[a] <= Runtime!Order[q]
          PROVE  q \in u_todo'
      <4>1. q \in u_todo /\ a # r /\ Runtime!Order[r] <= Runtime!Order[a]
        BY <2>1, <2>4, <3>2 DEF ClosedInOrder
      <4>2. q # r
        BY <4>1, <3>2, <2>4 DEF Runtime!Resources, Runtime!Order
      <4> QED BY <2>1, <4>1, <4>2
    <3> QED BY <2>1, <2>4, <3>1, <3>2 DEF ClosedInOrder
  <2>5. Aborting'
    <3> SUFFICES ASSUME u_stage = "aborting" PROVE Aborting'
      BY <2>1 DEF Aborting
    <3>1. ClosedInOrder(Runtime!ToAbort(u_opened))'
      BY <2>1, <2>4 DEF Aborting, Runtime!ToAbort, Runtime!Resources
    <3>2. u_given \ {"broker"} \subseteq u_open'
      BY <2>1 DEF Aborting, Runtime!ClosedBy, Runtime!ToAbort, ClosedInOrder
    <3> QED BY <2>1, <3>1, <3>2 DEF Aborting, Runtime!ToAbort, Runtime!ClosedBy, Runtime!Late
  <2>6. Ending'
    <3> SUFFICES ASSUME u_stage = "ending" PROVE Ending'
      BY <2>1 DEF Ending
    <3>1. ClosedInOrder(Runtime!ToShutdown)'
      BY <2>1, <2>4 DEF Ending, Runtime!ToShutdown, Runtime!Resources
    <3>2. "publisher" \in u_todo' => "publisher" \in u_open'
      BY <2>1 DEF Ending, Runtime!ClosedBy
    <3>3. r # "host" => ("host" \in u_todo' <=> "host" \in u_todo)
      BY <2>1
    <3> QED BY <2>1, <3>1, <3>2, <3>3 DEF Ending, Runtime!ToShutdown, Runtime!ClosedBy, Runtime!Late
  <2>7. StoreOutlivesHost'
    <3>1. CASE r = "store"
      <4>1. u_stage = "aborting"
        BY <2>1, <3>1 DEF Ending, ClosedInOrder, Runtime!ToShutdown
      <4>2. ASSUME "host" \in u_open \ u_given, u_refused = {}, ~u_late PROVE FALSE
        <5>1. "host" \in Runtime!ToAbort(u_opened)
          BY <4>1, <4>2 DEF Aborting, Runtime!ToAbort
        <5>2. "host" \in u_todo
          BY <4>1, <4>2, <5>1 DEF Aborting, Runtime!Late
        <5>3. Runtime!Order["store"] <= Runtime!Order["host"]
          BY <2>1, <3>1, <5>2
        <5> QED BY <4>1, <5>3 DEF Runtime!Order
      <4> QED BY <2>1, <4>1, <4>2, <3>1 DEF StoreOutlivesHost
    <3>2. CASE r # "store"
      BY <2>1, <3>2 DEF Runtime!ClosedBy, StoreOutlivesHost
    <3> QED BY <3>1, <3>2
  <2> QED
    BY <2>1, <2>3, <2>5, <2>6, <2>7, TheSteps DEF Assembling, Over, Runtime!AbortReleases,
       Runtime!ShutdownReleases, ClosesLate, StoreOutlivesHost, Runtime!Late
<1>8. ASSUME NEW r \in Runtime!Resources, Runtime!Refuse(r) PROVE RuntimeInv'
  <2> USE DEF RuntimeInv, Runtime!TypeOK
  <2>1. /\ r \in u_todo /\ \A q \in u_todo : Runtime!Order[r] <= Runtime!Order[q]
        /\ u_stage \in {"aborting", "ending"} /\ Runtime!Order' = Runtime!Order
        /\ u_refused' = u_refused \union {r}
        /\ u_closings' = [u_closings EXCEPT ![r] = @ + 1]
        /\ u_todo' = IF Runtime!GoesOn(r) THEN u_todo \ {r} ELSE {}
        /\ UNCHANGED <<u_given, u_stage, u_open, u_opened, u_owner, u_complete, u_calls, u_late>>
    BY <1>8, TheSteps DEF Runtime!Refuse, Runtime!IsFirst, Assembling, Over, Runtime!Order
  <2>2. u_closings[r] = 0
    BY <2>1 DEF Aborting, Ending, ClosedInOrder
  <2>3. Runtime!TypeOK' /\ Runtime!ClosedOnce'
    BY <2>1, <2>2 DEF Runtime!ClosedOnce, Runtime!Resources
  <2>4. ASSUME NEW all \in SUBSET Runtime!Resources, ClosedInOrder(all), all' = all
        PROVE  ClosedInOrder(all)'
    <3>5. u_closings \in [Runtime!Resources -> Nat] /\ u_todo \subseteq Runtime!Resources
      OBVIOUS
    <3> HIDE DEF RuntimeInv, Runtime!TypeOK
    <3>0. CASE ~Runtime!GoesOn(r)
      BY <2>1, <2>4, <3>0 DEF ClosedInOrder
    <3>9. CASE Runtime!GoesOn(r)
      <4>1. \A q \in u_todo' : u_closings'[q] = 0
        BY <2>1, <2>4, <3>5, <3>9 DEF ClosedInOrder, Runtime!Resources
      <4>2. ASSUME NEW a \in all, NEW q \in all, a \in u_todo', Runtime!Order[a] <= Runtime!Order[q]
            PROVE  q \in u_todo'
        <5>1. q \in u_todo /\ a # r /\ Runtime!Order[r] <= Runtime!Order[a]
          BY <2>1, <2>4, <4>2, <3>9 DEF ClosedInOrder
        <5>2. q # r
          BY <5>1, <4>2, <2>4 DEF Runtime!Resources, Runtime!Order
        <5> QED BY <2>1, <5>1, <5>2, <3>9
      <4> QED BY <2>1, <2>4, <4>1, <4>2, <3>9 DEF ClosedInOrder
    <3> QED BY <3>0, <3>9
  <2>5. Aborting'
    <3> SUFFICES ASSUME u_stage = "aborting" PROVE Aborting'
      BY <2>1 DEF Aborting
    <3>1. ClosedInOrder(Runtime!ToAbort(u_opened))'
      BY <2>1, <2>4 DEF Aborting, Runtime!ToAbort, Runtime!Resources
    <3>2. ASSUME NEW q \in Runtime!ToAbort(u_opened), q \notin u_todo'
          PROVE  \/ q \notin u_open' \/ q \in u_refused' \/ q \in Runtime!Late'
                 \/ u_refused' \intersect {"commands", "broker"} # {}
                 \/ q = "publisher" /\ "mcp" \in u_refused'
      <4>1. CASE q \notin u_todo
        BY <2>1, <3>2, <4>1 DEF Aborting, Runtime!Late
      <4>2. CASE q \in u_todo /\ q # r
        <5>1. ~Runtime!GoesOn(r) /\ Runtime!Order[r] <= Runtime!Order[q]
          BY <2>1, <3>2, <4>2
        <5>2. r \in {"commands", "broker", "mcp", "publisher"}
          BY <5>1 DEF Runtime!GoesOn, Runtime!Resources
        <5>3. r \in {"mcp", "publisher"} => r = "mcp" /\ q = "publisher"
          BY <5>1, <4>2 DEF Runtime!Order, Runtime!Resources
        <5> QED BY <2>1, <5>2, <5>3
      <4>3. CASE q = r
        BY <2>1, <4>3
      <4> QED BY <4>1, <4>2, <4>3
    <3> QED BY <2>1, <3>1, <3>2 DEF Aborting, Runtime!ToAbort, Runtime!Late
  <2>6. Ending'
    <3> SUFFICES ASSUME u_stage = "ending" PROVE Ending'
      BY <2>1 DEF Ending
    <3>1. ClosedInOrder(Runtime!ToShutdown)'
      BY <2>1, <2>4 DEF Ending, Runtime!ToShutdown, Runtime!Resources
    <3> QED BY <2>1, <3>1 DEF Ending, Runtime!ToShutdown, Runtime!Late
  <2> QED
    BY <2>1, <2>3, <2>5, <2>6, TheSteps DEF Assembling, Over, Runtime!AbortReleases,
       Runtime!ShutdownReleases, ClosesLate, StoreOutlivesHost, Runtime!Late
<1>9. CASE Runtime!EndRelease
  <2> USE DEF RuntimeInv, Runtime!TypeOK
  <2>1. Runtime!AbortReleases'
    BY <1>9 DEF Runtime!EndRelease, Runtime!AbortReleases, Aborting, Runtime!ToAbort, Runtime!Late
  <2>2. Runtime!ShutdownReleases'
    <3> SUFFICES ASSUME u_stage = "ending", u_refused = {}
                 PROVE  u_open \subseteq (IF u_owner THEN Runtime!Late ELSE {"host", "store"})
      BY <1>9 DEF Runtime!EndRelease, Runtime!ShutdownReleases, Runtime!Late
    <3>1. \A q \in Runtime!ToShutdown : q \notin u_open \/ q \in Runtime!Late
      BY <1>9 DEF Runtime!EndRelease, Ending
    <3>2. \A q \in u_open : q = "store" \/ q \in Runtime!Late \/ (q = "host" /\ ~u_owner)
      BY <3>1 DEF Ending, Runtime!ToShutdown
    <3>3. u_owner => "store" \notin u_open \/ "store" \in Runtime!Late
      BY <1>9 DEF Runtime!EndRelease, Ending
    <3>4. Runtime!Late \subseteq {"host", "store"}
      BY DEF Runtime!Late, Runtime!ClosedBy
    <3> QED BY <3>2, <3>3, <3>4
  <2> QED
    BY <1>9, <2>1, <2>2, TheSteps DEF Runtime!EndRelease, Assembling, Aborting, Ending, Over,
       Runtime!ClosedOnce, ClosesLate, StoreOutlivesHost
<1>10. CASE Runtime!CloseLate
  <2> USE DEF RuntimeInv, Runtime!TypeOK
  <2>1. /\ "host" \in u_todo /\ \A q \in u_todo : Runtime!Order["host"] <= Runtime!Order[q]
        /\ u_stage \in {"aborting", "ending"} /\ Runtime!Order' = Runtime!Order
        /\ u_late' = TRUE /\ u_todo' = u_todo \ {"host"} /\ "host" \in u_open
        /\ u_closings' = [u_closings EXCEPT !["host"] = @ + 1]
        /\ UNCHANGED <<u_given, u_stage, u_open, u_opened, u_owner, u_complete, u_calls, u_refused>>
    BY <1>10, TheSteps DEF Runtime!CloseLate, Runtime!IsFirst, Assembling, Over, Runtime!Order
  <2>2. u_closings["host"] = 0
    BY <2>1 DEF Aborting, Ending, ClosedInOrder
  <2>3. Runtime!TypeOK' /\ Runtime!ClosedOnce'
    BY <2>1, <2>2 DEF Runtime!ClosedOnce, Runtime!Resources
  <2>4. ASSUME NEW all \in SUBSET Runtime!Resources, ClosedInOrder(all), all' = all
        PROVE  ClosedInOrder(all)'
    <3>5. u_closings \in [Runtime!Resources -> Nat] /\ u_todo \subseteq Runtime!Resources
      OBVIOUS
    <3> HIDE DEF RuntimeInv, Runtime!TypeOK
    <3>1. \A q \in u_todo' : u_closings'[q] = 0
      BY <2>1, <2>4, <3>5 DEF ClosedInOrder, Runtime!Resources
    <3>2. ASSUME NEW a \in all, NEW q \in all, a \in u_todo', Runtime!Order[a] <= Runtime!Order[q]
          PROVE  q \in u_todo'
      <4>1. q \in u_todo /\ a # "host" /\ Runtime!Order["host"] <= Runtime!Order[a]
        BY <2>1, <2>4, <3>2 DEF ClosedInOrder
      <4>2. q # "host"
        BY <4>1, <3>2, <2>4 DEF Runtime!Resources, Runtime!Order
      <4> QED BY <2>1, <4>1, <4>2
    <3> QED BY <2>1, <2>4, <3>1, <3>2 DEF ClosedInOrder
  <2>5. Aborting'
    <3> SUFFICES ASSUME u_stage = "aborting" PROVE Aborting'
      BY <2>1 DEF Aborting
    <3>1. ClosedInOrder(Runtime!ToAbort(u_opened))'
      BY <2>1, <2>4 DEF Aborting, Runtime!ToAbort, Runtime!Resources
    <3> QED BY <2>1, <3>1 DEF Aborting, Runtime!ToAbort, Runtime!ClosedBy, Runtime!Late
  <2>6. Ending'
    <3> SUFFICES ASSUME u_stage = "ending" PROVE Ending'
      BY <2>1 DEF Ending
    <3>1. ClosedInOrder(Runtime!ToShutdown)'
      BY <2>1, <2>4 DEF Ending, Runtime!ToShutdown, Runtime!Resources
    <3> QED BY <2>1, <3>1 DEF Ending, Runtime!ToShutdown, Runtime!ClosedBy, Runtime!Late
  <2>7. ClosesLate'
    BY <2>1 DEF ClosesLate, Aborting, Ending, ClosedInOrder, Runtime!ToAbort, Runtime!ToShutdown
  <2>8. StoreOutlivesHost'
    BY <2>1 DEF StoreOutlivesHost
  <2> QED
    BY <2>1, <2>3, <2>5, <2>6, <2>7, <2>8, TheSteps DEF Assembling, Over,
       Runtime!AbortReleases, Runtime!ShutdownReleases
<1>11. CASE Runtime!FinishClose
  <2> USE DEF RuntimeInv, Runtime!TypeOK
  <2>1. /\ u_late /\ u_late' = FALSE /\ u_open' = u_open \ {"host", "store"}
        /\ Runtime!Late = {"host", "store"} /\ Runtime!Late' = {}
        /\ Runtime!Order' = Runtime!Order
        /\ UNCHANGED <<u_given, u_stage, u_opened, u_owner, u_complete, u_todo, u_calls,
                       u_closings, u_refused>>
    BY <1>11 DEF Runtime!FinishClose, Runtime!ClosedBy, Runtime!Late, Runtime!Order
  <2>2. u_stage \in {"aborting", "aborted", "ending", "ended"} /\ "host" \notin u_given
    BY <2>1 DEF ClosesLate
  <2>3. Aborting'
    BY <2>1, <2>2 DEF Aborting, ClosedInOrder, Runtime!ToAbort
  <2>4. Ending'
    BY <2>1 DEF Ending, ClosedInOrder, Runtime!ToShutdown
  <2>5. Runtime!AbortReleases'
    BY <2>1, <2>2 DEF Runtime!AbortReleases
  <2>6. Runtime!ShutdownReleases'
    BY <2>1 DEF Runtime!ShutdownReleases
  <2> QED
    BY <2>1, <2>2, <2>3, <2>4, <2>5, <2>6, TheSteps DEF Assembling, Over,
       Runtime!ClosedOnce, ClosesLate, StoreOutlivesHost
<1> QED BY <1>1, <1>2, <1>3, <1>4, <1>5, <1>6, <1>7, <1>8, <1>9, <1>10, <1>11 DEF Runtime!Next

LEMMA RuntimeKept == RuntimeInv => Runtime!TypeOK /\ Runtime!RuntimeIsReleased
<1> SUFFICES ASSUME RuntimeInv PROVE Runtime!TypeOK /\ Runtime!RuntimeIsReleased
  OBVIOUS
<1>1. Runtime!UsersGoFirst
  <2> SUFFICES ASSUME u_stage = "ending", "publisher" \notin u_open, u_refused = {}
               PROVE  u_open \subseteq (IF u_owner THEN Runtime!Late ELSE {"host", "store"})
    BY DEF RuntimeInv, StoreOutlivesHost, Runtime!UsersGoFirst
  <2>1. "publisher" \in Runtime!ToShutdown /\ "publisher" \notin u_todo
    BY DEF RuntimeInv, Ending, Runtime!ToShutdown
  <2>2. u_todo = {}
    <3>1. \A q \in Runtime!ToShutdown : Runtime!Order[q] <= Runtime!Order["publisher"]
      BY DEF RuntimeInv, Runtime!TypeOK, Runtime!ToShutdown, Runtime!Order, Runtime!Resources
    <3> QED BY <2>1, <3>1 DEF RuntimeInv, Ending, ClosedInOrder
  <2>3. \A q \in u_open : q = "store" \/ q \in Runtime!Late \/ (q = "host" /\ ~u_owner)
    BY <2>2 DEF RuntimeInv, Ending, Runtime!ToShutdown
  <2>4. u_owner => "store" \notin u_open \/ "store" \in Runtime!Late
    BY <2>2 DEF RuntimeInv, Ending
  <2>5. Runtime!Late \subseteq {"host", "store"}
    BY DEF Runtime!Late, Runtime!ClosedBy
  <2> QED BY <2>3, <2>4, <2>5
<1> QED BY <1>1 DEF RuntimeInv, Runtime!RuntimeIsReleased

LEMMA RuntimeStutter == RuntimeInv /\ UNCHANGED Runtime!vars => RuntimeInv'
BY DEF RuntimeInv, Runtime!vars, Runtime!TypeOK, Assembling, Aborting, Ending, ClosedInOrder,
   Runtime!Order, Runtime!ToAbort, Runtime!ToShutdown,
   Runtime!ClosedOnce, Runtime!AbortReleases, Runtime!ShutdownReleases,
       ClosesLate, StoreOutlivesHost, Runtime!Late

\* A step of the suite is a step of this part, or leaves it alone.
LEMMA RuntimeAlone == [SuiteNext]_suite_vars => Runtime!Next \/ UNCHANGED Runtime!vars
<1>1. SuiteNext => Runtime!Next \/ UNCHANGED u_vars
  BY DEF SuiteNext, InPlan, InJournal, InEdits, InSemantic, InRules, InAnswer, InSearch, InCore,
     InEpisodes, u_vars
<1>2. UNCHANGED suite_vars => UNCHANGED u_vars
  BY DEF suite_vars
<1>3. UNCHANGED u_vars => UNCHANGED Runtime!vars
  BY DEF u_vars, Runtime!vars
<1> QED
  BY <1>1, <1>2, <1>3

LEMMA RuntimeHolds == SuiteSpec => []RuntimeInv
<1>1. SuiteInit => RuntimeInv
  BY RuntimeInit DEF SuiteInit
<1>2. RuntimeInv /\ [SuiteNext]_suite_vars => RuntimeInv'
  BY RuntimeAlone, RuntimeStep, RuntimeStutter
<1> QED
  BY <1>1, <1>2, PTL DEF SuiteSpec

\* RuntimeIsReleased of RuntimeAssembly, for any callers of shutdown_runtime and any
\* closings that raise: an assembly that fails leaves nothing open that was not passed in,
\* an ended runtime has closed what it had, and nothing is closed twice.
THEOREM RuntimesAreReleased == SuiteSpec => []RuntimeIsReleased
<1>1. RuntimeInv => RuntimeIsReleased
  BY RuntimeKept DEF RuntimeIsReleased
<1> QED
  BY <1>1, RuntimeHolds, PTL

=============================================================================

--------------------------- MODULE DurableRunsProofs ---------------------------
(***************************************************************************)
(* Proofs about DurableRuns for any number of runs, tools, retries and     *)
(* crashes.  The inductive invariant says what the journal of a run may    *)
(* hold in each status: a row that can be started has no effective call,   *)
(* an unconfirmed call belongs to a running or an unknown row, and whoever *)
(* executed a tool did so in the row's current attempt.                    *)
(***************************************************************************)
EXTENDS DurableRuns, TLAPS

StartableIsClean ==
  \A r \in Runs : status[r] \in {"absent", "dispatched"} => ~Effective(r)

ExecutedIsEffective == \A r \in Runs : executed[r] # {} => Effective(r)

DoubtIsPlaced ==
  \A r \in Runs : \A t \in Tools :
    /\ effects[r][t] = "started" => status[r] = "running"
    /\ effects[r][t] = "unknown" => status[r] = "unknown"

BudgetLeft ==
  \A r \in Runs :
    status[r] \in Waiting \cup {"absent", "dispatched"} => attempt[r] <= max_retries[r]

WorkersRun ==
  /\ \A r \in workers : status[r] = "running" /\ owner[r] = host
  /\ ~recovered => workers = {}

IInv ==
  /\ TypeOK /\ NoReplayAfterEffect /\ AttemptsBounded /\ UnconfirmedIsUnknown
  /\ CancelledNeverCompletes /\ SlotsAreLive
  /\ StartableIsClean /\ ExecutedIsEffective /\ DoubtIsPlaced /\ BudgetLeft
  /\ WorkersRun

-----------------------------------------------------------------------------
(* Types                                                                   *)

\* The rows and the volatile state keep their shape.
THEOREM TypeCorrect == Spec => []TypeOK
<1>1. Init => TypeOK
  BY BoundsAssumption DEF Init, TypeOK, Statuses, EffectStatuses
<1>2. TypeOK /\ [Next]_vars => TypeOK'
  <2> SUFFICES ASSUME TypeOK, [Next]_vars
               PROVE  TypeOK'
    OBVIOUS
  <2> USE DEF TypeOK, rows, volatile
  <2>1. ASSUME NEW r \in Runs, InsertRun(r) \/ StartRun(r) \/ CancelRun(r)
        PROVE  TypeOK'
    <3>0. {"queued", "running", "cancelled"} \subseteq Statuses
      BY DEF Statuses, Terminal, Waiting
    <3>1. CASE InsertRun(r) BY <3>0, <3>1 DEF InsertRun
    <3>2. CASE StartRun(r) BY <3>0, <3>2 DEF StartRun
    <3>3. CASE CancelRun(r) BY <3>0, <3>3 DEF CancelRun
    <3> QED BY <2>1, <3>1, <3>2, <3>3
  <2>2. ASSUME NEW refused \in SUBSET Runs, NEW claimed \in SUBSET Runs,
               ClaimNext(refused, claimed)
        PROVE  TypeOK'
    <3>1. status' \in [Runs -> Statuses]
      BY <2>2 DEF ClaimNext, Statuses, Terminal, Waiting
    <3>2. effects' \in [Runs -> [Tools -> EffectStatuses]]
      BY <2>2 DEF ClaimNext, Doubted, EffectStatuses
    <3>3. owner' \in [Runs -> Nat]
      BY <2>2 DEF ClaimNext
    <3> QED BY <2>2, <3>1, <3>2, <3>3 DEF ClaimNext
  <2>3. ASSUME NEW r \in Runs, NEW reported \in {"completed", "failed", "cancelled"},
               NEW policy \in Policies, FinishRun(r, reported, policy)
        PROVE  TypeOK'
    <3>1. FinalStatus(r, reported, policy) \in Statuses
      BY DEF FinalStatus, Statuses, Terminal, Waiting
    <3>2. effects' \in [Runs -> [Tools -> EffectStatuses]]
      BY <2>3 DEF FinishRun, Doubted, EffectStatuses
    <3> QED BY <2>3, <3>1, <3>2 DEF FinishRun
  <2>4. ASSUME NEW r \in Runs, NEW t \in Tools, ToolStep(r, t)
        PROVE  TypeOK'
    <3>1. CASE RecordIntent(r, t)
      BY <3>1 DEF RecordIntent, EffectStatuses
    <3>2. CASE MarkStarted(r, t)
      BY <3>2 DEF MarkStarted, EffectStatuses
    <3>3. CASE CallTool(r, t)
      BY <3>3 DEF CallTool
    <3>4. ASSUME NEW result \in {"succeeded", "failed"}, RecordResult(r, t, result)
          PROVE  TypeOK'
      BY <3>4 DEF RecordResult, EffectStatuses
    <3> QED BY <2>4, <3>1, <3>2, <3>3, <3>4 DEF ToolStep
  <2>5. ASSUME Crash PROVE TypeOK'
    <3>1. UNCHANGED <<status, attempt, max_retries, cancel_requested, owner, effects, executed>>
      BY <2>5 DEF Crash
    <3>2. host' \in Nat
      BY <2>5 DEF Crash
    <3>3. recovered' \in BOOLEAN
      BY <2>5, Zenon DEF Crash
    <3>4. workers' \subseteq Runs
      BY <2>5 DEF Crash
    <3>5. call_keys' \in [Runs -> SUBSET Tools]
      BY <2>5 DEF Crash
    <3> QED BY <3>1, <3>2, <3>3, <3>4, <3>5
  <2>6. ASSUME NEW policy \in [Runs -> Policies], Recover(policy)
        PROVE  TypeOK'
    <3>1. \A r \in Runs : RecoveredStatus(r, policy) \in Statuses
      BY DEF RecoveredStatus, Statuses, Terminal, Waiting
    <3>2. effects' \in [Runs -> [Tools -> EffectStatuses]]
      BY <2>6 DEF Recover, Doubted, EffectStatuses
    <3> QED BY <2>6, <3>1, <3>2 DEF Recover
  <2>7. CASE UNCHANGED vars
    BY <2>7 DEF vars
  <2>8. \A r \in Runs : {r} \in SUBSET Runs
    OBVIOUS
  <2> QED
    BY <2>1, <2>2, <2>3, <2>4, <2>5, <2>6, <2>7, <2>8 DEF Next
<1> QED
  BY <1>1, <1>2, PTL DEF Spec

-----------------------------------------------------------------------------
(* The inductive invariant: one lemma per action.                          *)

LEMMA InitInv == Init => IInv
PROOF
  <1> SUFFICES ASSUME Init PROVE IInv
    OBVIOUS
  <1> USE DEF Init, Effective, Unresolved, Unconfirmed, Terminal, Waiting
  <1>1. TypeOK
    BY BoundsAssumption DEF TypeOK, Statuses, EffectStatuses
  <1>2. NoReplayAfterEffect /\ AttemptsBounded /\ UnconfirmedIsUnknown
    BY BoundsAssumption DEF NoReplayAfterEffect, AttemptsBounded, UnconfirmedIsUnknown
  <1>3. CancelledNeverCompletes /\ SlotsAreLive /\ WorkersRun
    BY DEF CancelledNeverCompletes, SlotsAreLive, WorkersRun
  <1>4. StartableIsClean /\ ExecutedIsEffective /\ DoubtIsPlaced /\ BudgetLeft
    BY BoundsAssumption DEF StartableIsClean, ExecutedIsEffective, DoubtIsPlaced, BudgetLeft
  <1> QED BY <1>1, <1>2, <1>3, <1>4 DEF IInv

\* Inserting, starting and cancelling touch no journal.
LEMMA RowKeeps ==
  ASSUME IInv, TypeOK', NEW r \in Runs, InsertRun(r) \/ StartRun(r) \/ CancelRun(r)
  PROVE  IInv'
PROOF
  <1> USE DEF IInv, TypeOK, Effective, Unresolved, Unconfirmed, Terminal, Waiting,
              volatile
  <1>1. NoReplayAfterEffect'
    <2>1. CASE StartRun(r)
      <3>1. executed[r] = {}
        BY <2>1 DEF StartRun, StartableIsClean, ExecutedIsEffective
      <3> QED BY <2>1, <3>1 DEF StartRun, NoReplayAfterEffect
    <2>2. CASE InsertRun(r) \/ CancelRun(r)
      BY <2>2 DEF InsertRun, CancelRun, NoReplayAfterEffect
    <2> QED BY <2>1, <2>2
  <1>2. AttemptsBounded' /\ BudgetLeft'
    <2>1. CASE StartRun(r)
      <3>1. attempt[r] <= max_retries[r] /\ attempt'[r] = attempt[r] + 1
        BY <2>1 DEF StartRun, BudgetLeft
      <3>2. AttemptsBounded'
        BY <2>1, <3>1 DEF StartRun, AttemptsBounded
      <3>3. BudgetLeft'
        BY <2>1 DEF StartRun, BudgetLeft
      <3> QED BY <3>2, <3>3
    <2>2. CASE InsertRun(r) \/ CancelRun(r)
      BY <2>2 DEF InsertRun, CancelRun, AttemptsBounded, BudgetLeft
    <2> QED BY <2>1, <2>2
  <1>3. DoubtIsPlaced'
    BY DEF InsertRun, StartRun, CancelRun, DoubtIsPlaced, StartableIsClean
  <1>4. UnconfirmedIsUnknown'
    BY <1>3 DEF UnconfirmedIsUnknown, DoubtIsPlaced
  <1>5. CancelledNeverCompletes'
    BY DEF InsertRun, StartRun, CancelRun, CancelledNeverCompletes
  <1>6. SlotsAreLive' /\ WorkersRun'
    BY DEF InsertRun, StartRun, CancelRun, SlotsAreLive, WorkersRun
  <1>7. StartableIsClean' /\ ExecutedIsEffective'
    BY DEF InsertRun, StartRun, CancelRun, StartableIsClean, ExecutedIsEffective
  <1> QED BY <1>1, <1>2, <1>3, <1>4, <1>5, <1>6, <1>7

\* claim_next_run dispatches clean rows only and closes the others.
LEMMA ClaimKeeps ==
  ASSUME IInv, TypeOK', NEW refused \in SUBSET Runs, NEW claimed \in SUBSET Runs,
         ClaimNext(refused, claimed)
  PROVE  IInv'
PROOF
  <1> USE DEF IInv, TypeOK, Unconfirmed, Terminal, Waiting
  <1>1. /\ \A r \in claimed : /\ status[r] \in Waiting /\ status'[r] = "dispatched"
                              /\ ~Effective(r) /\ owner'[r] = host
        /\ \A r \in refused : /\ status[r] \in Waiting
                              /\ status'[r] \in {"unknown", "failed"}
                              /\ Unresolved(r) => status'[r] = "unknown"
        /\ \A r \in Runs \ (claimed \cup refused) :
             status'[r] = status[r] /\ owner'[r] = owner[r]
        /\ UNCHANGED <<attempt, max_retries, cancel_requested, volatile, executed>>
    BY DEF ClaimNext, Effective
  <1>2. \A r \in Runs : effects'[r] = IF r \in refused THEN Doubted(effects[r]) ELSE effects[r]
    BY DEF ClaimNext
  <1>3. \A r \in Runs : Effective(r)' <=> Effective(r)
    BY <1>2 DEF Effective, Doubted
  <1>4. DoubtIsPlaced'
    <2> SUFFICES ASSUME NEW r \in Runs, NEW t \in Tools
                 PROVE  /\ effects'[r][t] = "started" => status'[r] = "running"
                        /\ effects'[r][t] = "unknown" => status'[r] = "unknown"
      BY DEF DoubtIsPlaced
    <2>1. CASE r \in refused
      <3>1. effects[r][t] \notin {"started", "unknown"}
        BY <1>1, <2>1 DEF DoubtIsPlaced
      <3> QED BY <1>2, <2>1, <3>1 DEF Doubted
    <2>2. CASE r \in claimed \ refused
      <3>1. effects'[r] = effects[r] /\ status[r] \in Waiting
        BY <1>1, <1>2, <2>2
      <3> QED BY <3>1 DEF DoubtIsPlaced
    <2>3. CASE r \notin claimed \cup refused
      <3>1. effects'[r] = effects[r] /\ status'[r] = status[r]
        BY <1>1, <1>2, <2>3
      <3> QED BY <3>1 DEF DoubtIsPlaced
    <2> QED BY <2>1, <2>2, <2>3
  <1>5. UnconfirmedIsUnknown'
    BY <1>4 DEF UnconfirmedIsUnknown, DoubtIsPlaced, Unresolved
  <1>6. NoReplayAfterEffect' /\ AttemptsBounded' /\ BudgetLeft'
    BY <1>1 DEF NoReplayAfterEffect, AttemptsBounded, BudgetLeft
  <1>7. CancelledNeverCompletes'
    BY <1>1 DEF CancelledNeverCompletes
  <1>8. SlotsAreLive' /\ WorkersRun'
    <2>1. UNCHANGED <<host, recovered, workers>>
      BY <1>1 DEF volatile
    <2>2. \A r \in Runs : status[r] = "running" <=> status'[r] = "running"
      BY <1>1
    <2>3. WorkersRun'
      BY <1>1, <2>1, <2>2 DEF WorkersRun
    <2>4. SlotsAreLive'
      BY <1>1, <2>1, <2>2 DEF SlotsAreLive
    <2> QED BY <2>3, <2>4
  <1>9. StartableIsClean' /\ ExecutedIsEffective'
    BY <1>1, <1>3 DEF StartableIsClean, ExecutedIsEffective
  <1> QED BY <1>4, <1>5, <1>6, <1>7, <1>8, <1>9

\* finish_run closes the row, or puts it back when no call was effective.
LEMMA FinishKeeps ==
  ASSUME IInv, TypeOK', NEW r \in Runs,
         NEW reported \in {"completed", "failed", "cancelled"}, NEW policy \in Policies,
         FinishRun(r, reported, policy)
  PROVE  IInv'
PROOF
  <1> USE DEF IInv, TypeOK, Unconfirmed, Terminal, Waiting
  <1> DEFINE final == FinalStatus(r, reported, policy)
  <1>1. /\ status[r] = "running" /\ r \in workers
        /\ status' = [status EXCEPT ![r] = final]
        /\ workers' = workers \ {r}
        /\ UNCHANGED <<attempt, max_retries, cancel_requested, owner, host, recovered,
                       executed>>
    BY DEF FinishRun
  <1>2. /\ Unresolved(r) => final = "unknown"
        /\ r \in cancel_requested => final \in {"unknown", "cancelled"}
        /\ final = "waiting_retry" => ~Effective(r) /\ attempt[r] <= max_retries[r]
        /\ final \in Terminal \cup {"waiting_retry"}
    BY DEF FinalStatus, MayRetry
  <1>3. \A s \in Runs : effects'[s] = IF s = r /\ Unresolved(r) THEN Doubted(effects[s])
                                      ELSE effects[s]
    BY DEF FinishRun
  <1>4. \A s \in Runs : Effective(s)' <=> Effective(s)
    BY <1>3 DEF Effective, Doubted
  <1>5. DoubtIsPlaced'
    BY <1>1, <1>2, <1>3 DEF DoubtIsPlaced, Doubted, Unresolved
  <1>6. UnconfirmedIsUnknown'
    BY <1>5 DEF UnconfirmedIsUnknown, DoubtIsPlaced, Unresolved
  <1>7. NoReplayAfterEffect' /\ AttemptsBounded' /\ BudgetLeft'
    BY <1>1, <1>2 DEF NoReplayAfterEffect, AttemptsBounded, BudgetLeft
  <1>8. CancelledNeverCompletes'
    BY <1>1, <1>2 DEF CancelledNeverCompletes
  <1>9. SlotsAreLive' /\ WorkersRun'
    BY <1>1, <1>2 DEF SlotsAreLive, WorkersRun
  <1>10. StartableIsClean' /\ ExecutedIsEffective'
    BY <1>1, <1>2, <1>4 DEF StartableIsClean, ExecutedIsEffective
  <1> QED BY <1>5, <1>6, <1>7, <1>8, <1>9, <1>10

\* The journal writes of a worker, and the tool call itself.
LEMMA ToolKeeps ==
  ASSUME IInv, TypeOK', NEW r \in Runs, NEW t \in Tools, ToolStep(r, t)
  PROVE  IInv'
PROOF
  <1> USE DEF IInv, TypeOK, Unconfirmed, Terminal, Waiting
  <1>1. /\ r \in workers /\ status[r] = "running"
        /\ UNCHANGED <<status, attempt, max_retries, cancel_requested, owner, host,
                       recovered, workers>>
        /\ \A s \in Runs \ {r} : effects'[s] = effects[s] /\ executed'[s] = executed[s]
        /\ \A x \in Tools : effects'[r][x] # "unknown" \/ effects'[r][x] = effects[r][x]
    BY DEF ToolStep, RecordIntent, MarkStarted, CallTool, RecordResult, WorkersRun,
       rows, volatile
  <1>2. /\ executed'[r] \subseteq executed[r] \cup {attempt[r]}
        /\ Effective(r) => Effective(r)'
        /\ executed'[r] # executed[r] => Effective(r)'
    BY DEF ToolStep, RecordIntent, MarkStarted, CallTool, RecordResult, Effective,
       rows, volatile
  <1>3. DoubtIsPlaced'
    <2> SUFFICES ASSUME NEW s \in Runs, NEW x \in Tools
                 PROVE  /\ effects'[s][x] = "started" => status[s] = "running"
                        /\ effects'[s][x] = "unknown" => status[s] = "unknown"
      BY <1>1 DEF DoubtIsPlaced
    <2>1. CASE s = r BY <1>1, <2>1 DEF DoubtIsPlaced
    <2>2. CASE s # r BY <1>1, <2>2 DEF DoubtIsPlaced
    <2> QED BY <2>1, <2>2
  <1>4. UnconfirmedIsUnknown'
    BY <1>3 DEF UnconfirmedIsUnknown, DoubtIsPlaced, Unresolved
  <1>5. NoReplayAfterEffect' /\ AttemptsBounded' /\ BudgetLeft'
    BY <1>1, <1>2 DEF NoReplayAfterEffect, AttemptsBounded, BudgetLeft
  <1>6. CancelledNeverCompletes' /\ SlotsAreLive' /\ WorkersRun'
    BY <1>1 DEF CancelledNeverCompletes, SlotsAreLive, WorkersRun
  <1>7. StartableIsClean' /\ ExecutedIsEffective'
    BY <1>1, <1>2 DEF StartableIsClean, ExecutedIsEffective, Effective
  <1> QED BY <1>3, <1>4, <1>5, <1>6, <1>7

\* A crash keeps the rows; recover_interrupted requeues what never started and
\* puts a running row back only if no call of it is still in doubt.
LEMMA CrashKeeps ==
  ASSUME IInv, TypeOK', Crash
  PROVE  IInv'
  BY DEF IInv, TypeOK, Crash, rows, NoReplayAfterEffect, AttemptsBounded, BudgetLeft,
     UnconfirmedIsUnknown, Unresolved, CancelledNeverCompletes, SlotsAreLive, WorkersRun,
     StartableIsClean, ExecutedIsEffective, Effective, DoubtIsPlaced

LEMMA RecoverKeeps ==
  ASSUME IInv, TypeOK', NEW policy \in [Runs -> Policies], Recover(policy)
  PROVE  IInv'
PROOF
  <1> USE DEF IInv, TypeOK, Unconfirmed, Terminal, Waiting
  <1>1. /\ recovered' /\ ~recovered /\ workers = {}
        /\ \A r \in Runs : status'[r] = RecoveredStatus(r, policy)
        /\ \A r \in Runs : effects'[r] = IF status[r] = "running" THEN Doubted(effects[r])
                                         ELSE effects[r]
        /\ UNCHANGED <<attempt, max_retries, cancel_requested, owner, host, workers,
                       executed>>
    BY DEF Recover, WorkersRun
  <1>2. \A r \in Runs :
          /\ status[r] \notin {"running", "dispatched"} => status'[r] = status[r]
          /\ status[r] = "dispatched" => status'[r] = "queued"
          /\ status[r] = "running" =>
               \/ status'[r] = "unknown"
               \/ /\ status'[r] = "waiting_retry" /\ attempt[r] <= max_retries[r]
                  /\ \A t \in Tools : effects[r][t] # "started"
    BY <1>1 DEF RecoveredStatus, MayRetry
  <1>3. \A r \in Runs : Effective(r)' <=> Effective(r)
    BY <1>1 DEF Effective, Doubted
  <1>4. DoubtIsPlaced'
    <2> SUFFICES ASSUME NEW r \in Runs, NEW t \in Tools
                 PROVE  /\ effects'[r][t] = "started" => status'[r] = "running"
                        /\ effects'[r][t] = "unknown" => status'[r] = "unknown"
      BY DEF DoubtIsPlaced
    <2>1. CASE status[r] = "running"
      <3>1. effects'[r][t] = IF effects[r][t] = "started" THEN "unknown" ELSE effects[r][t]
        BY <1>1, <2>1 DEF Doubted
      <3>2. effects[r][t] # "unknown"
        BY <2>1 DEF DoubtIsPlaced
      <3> QED BY <1>2, <2>1, <3>1, <3>2
    <2>2. CASE status[r] # "running"
      <3>1. effects'[r] = effects[r]
        BY <1>1, <2>2
      <3> QED BY <1>2, <2>2, <3>1 DEF DoubtIsPlaced
    <2> QED BY <2>1, <2>2
  <1>5. UnconfirmedIsUnknown'
    BY <1>4 DEF UnconfirmedIsUnknown, DoubtIsPlaced, Unresolved
  <1>6. NoReplayAfterEffect' /\ AttemptsBounded' /\ BudgetLeft'
    BY <1>1, <1>2 DEF NoReplayAfterEffect, AttemptsBounded, BudgetLeft
  <1>7. CancelledNeverCompletes' /\ SlotsAreLive' /\ WorkersRun'
    BY <1>1, <1>2 DEF CancelledNeverCompletes, SlotsAreLive, WorkersRun
  <1>8. StartableIsClean' /\ ExecutedIsEffective'
    BY <1>1, <1>2, <1>3 DEF StartableIsClean, ExecutedIsEffective
  <1> QED BY <1>4, <1>5, <1>6, <1>7, <1>8

LEMMA Invariance == Spec => []IInv
PROOF
  <1>1. IInv /\ TypeOK' /\ [Next]_vars => IInv'
    <2> SUFFICES ASSUME IInv, TypeOK', [Next]_vars PROVE IInv'
      OBVIOUS
    <2>1. \A r \in Runs : {r} \in SUBSET Runs
      OBVIOUS
    <2>2. CASE Next
      BY <2>1, <2>2, RowKeeps, ClaimKeeps, FinishKeeps, ToolKeeps, CrashKeeps, RecoverKeeps
         DEF Next
    <2>3. CASE UNCHANGED vars
      BY <2>3 DEF vars, rows, volatile, IInv, TypeOK, NoReplayAfterEffect, AttemptsBounded,
         BudgetLeft, UnconfirmedIsUnknown, Unresolved, CancelledNeverCompletes, SlotsAreLive,
         WorkersRun, StartableIsClean, ExecutedIsEffective, Effective, DoubtIsPlaced
    <2> QED BY <2>2, <2>3
  <1> QED
    BY InitInv, <1>1, TypeCorrect, PTL DEF Spec

\* Only one attempt of a run ever executes tools, for any number of crashes.
THEOREM NoReplay == Spec => []NoReplayAfterEffect
  BY Invariance, PTL DEF IInv

\* Crashes and failures together never exceed the retry budget.
THEOREM RetriesBounded == Spec => []AttemptsBounded
  BY Invariance, PTL DEF IInv

\* A closed run with an unconfirmed tool call is recorded as unknown.
THEOREM UnknownIsRecorded == Spec => []UnconfirmedIsUnknown
  BY Invariance, PTL DEF IInv

\* A run whose cancellation was accepted never ends as completed.
THEOREM CancellationWins == Spec => []CancelledNeverCompletes
  BY Invariance, PTL DEF IInv

\* The three together: what a row says of its run is what happened.
THEOREM RowsTell == Spec => []RowsTellWhatHappened
  BY RetriesBounded, UnknownIsRecorded, CancellationWins, PTL DEF RowsTellWhatHappened

\* After recovery a dispatched or running row belongs to the live process.
THEOREM NoDeadSlot == Spec => []SlotsAreLive
  BY Invariance, PTL DEF IInv

\* No store call rewrites or restarts a terminal row.
THEOREM TerminalRowsFinal == Spec => TerminalIsFinal
PROOF
  <1> DEFINE Final ==
        \A r \in Runs : status[r] \in Terminal =>
          status'[r] = status[r] /\ attempt'[r] = attempt[r]
  <1>1. IInv /\ [Next]_vars => [Final]_vars
    <2> SUFFICES ASSUME IInv, Next PROVE Final
      BY DEF vars
    <2> USE DEF IInv, TypeOK, Terminal, Waiting
    <2>1. ASSUME NEW r \in Runs, InsertRun(r) \/ StartRun(r) \/ CancelRun(r)
          PROVE  Final
      BY <2>1 DEF InsertRun, StartRun, CancelRun
    <2>2. ASSUME NEW refused \in SUBSET Runs, NEW claimed \in SUBSET Runs,
                 ClaimNext(refused, claimed)
          PROVE  Final
      BY <2>2 DEF ClaimNext
    <2>3. ASSUME NEW r \in Runs, NEW reported \in {"completed", "failed", "cancelled"},
                 NEW policy \in Policies, FinishRun(r, reported, policy)
          PROVE  Final
      BY <2>3 DEF FinishRun
    <2>4. ASSUME NEW policy \in [Runs -> Policies], Recover(policy)
          PROVE  Final
      BY <2>4 DEF Recover, RecoveredStatus
    <2>5. CASE UNCHANGED <<status, attempt>>
      BY <2>5
    <2>6. \A r \in Runs : {r} \in SUBSET Runs
      OBVIOUS
    <2> QED
      BY <2>1, <2>2, <2>3, <2>4, <2>5, <2>6 DEF Next, ToolStep, RecordIntent, MarkStarted,
         CallTool, RecordResult, Crash, rows
  <1> QED
    BY <1>1, Invariance, PTL DEF Spec, TerminalIsFinal

-----------------------------------------------------------------------------
(* Refinement                                                              *)

executingNow == {r \in Runs : status[r] = "running"}
touchedNow   == {r \in Runs : executed[r] # {}}
outcomeNow   == [r \in Runs |-> IF status[r] \in Terminal THEN status[r] ELSE "open"]

\* Claiming, finishing, cancelling and recovering put attempts back or close runs.
LEMMA SettleImplements ==
  ASSUME IInv, IInv', UNCHANGED executed,
         \A r \in Runs : status[r] \in Terminal => status'[r] = status[r],
         \A r \in Runs : status'[r] = "running" => status[r] = "running"
  PROVE  Promise!Next
PROOF
  <1> USE DEF Terminal
  <1> DEFINE closed == {r \in Runs : status[r] \notin Terminal /\ status'[r] \in Terminal}
  <1> DEFINE back == {r \in Runs : status[r] = "running" /\ status'[r] # "running"}
  <1>1. executingNow' = executingNow \ (back \cup closed)
    BY DEF executingNow
  <1>2. touchedNow' = touchedNow
    BY DEF touchedNow
  <1>3. ASSUME NEW r \in Runs
        PROVE  IF r \in closed THEN outcomeNow[r] = "open" /\ outcomeNow'[r] \in Terminal
                               ELSE outcomeNow'[r] = outcomeNow[r]
    BY <1>3 DEF outcomeNow
  <1>4. PICK b \in SUBSET Runs : b = back
    OBVIOUS
  <1>5. PICK c \in SUBSET Runs : c = closed
    OBVIOUS
  <1> HIDE DEF back, closed
  <1>6. Promise!Settle(b, c)
    BY <1>1, <1>2, <1>3, <1>4, <1>5
    DEF Promise!Settle, executingNow, touchedNow, outcomeNow
  <1> QED BY <1>6 DEF Promise!Next

\* start_run begins an attempt only of a run that was never touched.
LEMMA StartImplements ==
  ASSUME IInv, IInv', NEW r \in Runs, StartRun(r)
  PROVE  Promise!Next
PROOF
  <1> USE DEF IInv, TypeOK, Terminal
  <1>1. /\ status[r] = "dispatched" /\ status' = [status EXCEPT ![r] = "running"]
        /\ UNCHANGED executed
    BY DEF StartRun
  <1>2. executed[r] = {}
    BY <1>1 DEF StartableIsClean, ExecutedIsEffective
  <1>3. Promise!Begin(r)
    BY <1>1, <1>2 DEF Promise!Begin
  <1> QED BY <1>3 DEF Promise!Next

\* A journal write is invisible; a tool call touches a run being executed.
LEMMA ToolImplements ==
  ASSUME IInv, IInv', NEW r \in Runs, NEW t \in Tools, ToolStep(r, t)
  PROVE  Promise!Next \/ UNCHANGED <<status, executed>>
PROOF
  <1> USE DEF IInv, TypeOK
  <1>1. CASE CallTool(r, t)
    <2>1. /\ status[r] = "running" /\ UNCHANGED status
          /\ executed' = [executed EXCEPT ![r] = @ \cup {attempt[r]}]
      BY <1>1 DEF CallTool, WorkersRun, rows
    <2>2. executingNow' = executingNow /\ r \in executingNow
      BY <2>1 DEF executingNow
    <2>3. touchedNow' = touchedNow \cup {r}
      <3>1. executed'[r] # {} /\ \A x \in Runs \ {r} : executed'[x] = executed[x]
        BY <2>1
      <3> QED BY <3>1 DEF touchedNow
    <2>4. outcomeNow' = outcomeNow
      BY <2>1 DEF outcomeNow
    <2>5. Promise!Touch(r)
      BY <2>2, <2>3, <2>4 DEF Promise!Touch, executingNow, touchedNow, outcomeNow
    <2> QED BY <2>5 DEF Promise!Next
  <1>2. CASE ~CallTool(r, t)
    BY <1>2 DEF ToolStep, RecordIntent, MarkStarted, RecordResult
  <1> QED BY <1>1, <1>2

\* The durable store with crash recovery implements whole-run at-most-once.
THEOREM Refinement == Spec => ImplementsAtMostOnce
PROOF
  <1>1. Init => Promise!Init
    BY DEF Init, Promise!Init, Terminal
  <1>2. IInv /\ IInv' /\ [Next]_vars
          => [Promise!Next]_<<{r \in Runs : status[r] = "running"},
                             {r \in Runs : executed[r] # {}},
                             [r \in Runs |-> IF status[r] \in Terminal THEN status[r]
                                             ELSE "open"]>>
    <2> SUFFICES ASSUME IInv, IInv', [Next]_vars
                 PROVE  Promise!Next \/ UNCHANGED <<status, executed>>
      OBVIOUS
    <2> USE DEF IInv, TypeOK, Terminal, Waiting, volatile, rows
    <2>1. ASSUME NEW r \in Runs, InsertRun(r) \/ CancelRun(r)
          PROVE  Promise!Next
      <3>1. UNCHANGED executed
        BY <2>1 DEF InsertRun, CancelRun
      <3> QED BY <2>1, <3>1, SettleImplements DEF InsertRun, CancelRun
    <2>2. ASSUME NEW refused \in SUBSET Runs, NEW claimed \in SUBSET Runs,
                 ClaimNext(refused, claimed)
          PROVE  Promise!Next
      BY <2>2, SettleImplements DEF ClaimNext
    <2>3. ASSUME NEW r \in Runs, NEW reported \in {"completed", "failed", "cancelled"},
                 NEW policy \in Policies, FinishRun(r, reported, policy)
          PROVE  Promise!Next
      <3>1. FinalStatus(r, reported, policy) # "running"
        BY DEF FinalStatus
      <3>2. /\ status' = [status EXCEPT ![r] = FinalStatus(r, reported, policy)]
            /\ status[r] = "running" /\ UNCHANGED executed
        BY <2>3 DEF FinishRun
      <3> QED BY <3>1, <3>2, SettleImplements
    <2>4. ASSUME NEW policy \in [Runs -> Policies], Recover(policy)
          PROVE  Promise!Next
      BY <2>4, SettleImplements DEF Recover, RecoveredStatus
    <2>5. CASE Crash \/ UNCHANGED vars
      BY <2>5 DEF Crash, vars
    <2>6. \A r \in Runs : {r} \in SUBSET Runs
      OBVIOUS
    <2> QED
      BY <2>1, <2>2, <2>3, <2>4, <2>5, <2>6, StartImplements, ToolImplements DEF Next
  <1> QED
    BY <1>1, <1>2, Invariance, PTL DEF Spec, ImplementsAtMostOnce, Promise!Spec

=============================================================================

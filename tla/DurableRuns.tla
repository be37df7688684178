------------------------------ MODULE DurableRuns ------------------------------
(***************************************************************************)
(* The run rows and the tool journal of the SQLite task store              *)
(* (infrastructure/persistence/autonomy_store/_runs.py, _tool_executions)  *)
(* together with the workers that write them and the process that may die. *)
(*                                                                         *)
(* Every store method is one BEGIN IMMEDIATE transaction, so it is one     *)
(* action.  A crash loses the workers and keeps the rows; the next host    *)
(* has a new host_id and runs recover_interrupted before its scheduler     *)
(* thread starts.  Clock values are left out: a row whose scheduled_for is *)
(* in the future is one that claim_next_run may pass over.                 *)
(***************************************************************************)
EXTENDS Naturals, FiniteSets

CONSTANTS
  Runs,       \* ids of run rows
  Tools,      \* tool calls a run may make; each attempt uses fresh ones
  MaxRetries, \* bound on JobDefinition.max_retries (20 in the code)
  MaxCrashes  \* bound on process deaths, for model checking

ASSUME BoundsAssumption == MaxRetries \in Nat /\ MaxCrashes \in Nat

VARIABLES
  status,           \* durable_runs.status; "absent" before the row exists
  attempt,          \* durable_runs.attempt
  max_retries,      \* durable_runs.max_retries, copied from the job
  cancel_requested, \* rows with cancel_requested = 1
  owner,            \* durable_runs.owner_id: the host that claimed the row
  effects,          \* durable_tool_executions.status of each tool call
  host,             \* number of the current process: its host_id
  recovered,        \* the current host has run recover_interrupted
  workers,          \* runs that have a live worker in this process
  call_keys,        \* _RunJournal._call_keys: the intents of this attempt
  executed          \* history: attempts of each run that executed a tool

rows     == <<status, attempt, max_retries, cancel_requested, owner, effects>>
volatile == <<host, recovered, workers, call_keys>>
vars     == <<rows, volatile, executed>>

Terminal == {"completed", "failed", "cancelled", "unknown"}
Waiting  == {"queued", "waiting_retry"}
Statuses == Terminal \cup Waiting \cup {"absent", "dispatched", "running"}
EffectStatuses == {"none", "intended", "started", "succeeded", "failed", "unknown"}
Unconfirmed == {"started", "unknown"}

TypeOK ==
  /\ status \in [Runs -> Statuses]
  /\ attempt \in [Runs -> Nat]
  /\ max_retries \in [Runs -> 0..MaxRetries]
  /\ cancel_requested \subseteq Runs
  /\ owner \in [Runs -> Nat]
  /\ effects \in [Runs -> [Tools -> EffectStatuses]]
  /\ host \in Nat
  /\ recovered \in BOOLEAN
  /\ workers \subseteq Runs
  /\ call_keys \in [Runs -> SUBSET Tools]
  /\ executed \in [Runs -> SUBSET Nat]

Init ==
  /\ status = [r \in Runs |-> "absent"]
  /\ attempt = [r \in Runs |-> 0]
  /\ max_retries \in [Runs -> 0..MaxRetries]
  /\ cancel_requested = {}
  /\ owner = [r \in Runs |-> 0]
  /\ effects = [r \in Runs |-> [t \in Tools |-> "none"]]
  /\ host = 0
  /\ recovered = TRUE
  /\ workers = {}
  /\ call_keys = [r \in Runs |-> {}]
  /\ executed = [r \in Runs |-> {}]

-----------------------------------------------------------------------------
(* What the journal says about a run.                                      *)

\* A tool that left "intended": repeating the run could repeat its effect.
Effective(r) == \E t \in Tools : effects[r][t] \notin {"none", "intended"}

\* A tool whose outcome nobody confirmed.
Unresolved(r) == \E t \in Tools : effects[r][t] \in Unconfirmed

\* UPDATE durable_tool_executions SET status = 'unknown' ... = 'started'
Doubted(e) == [t \in Tools |-> IF e[t] = "started" THEN "unknown" ELSE e[t]]

\* schedule_retry: the job's policy is read at this moment, and update_job may
\* have changed it at any time, so either policy is possible.
MayRetry(r, policy, blocked) ==
  ~blocked /\ policy = "retry" /\ attempt[r] <= max_retries[r]

-----------------------------------------------------------------------------
(* Run rows                                                                *)

\* _insert_run_locked, from the scheduler's triggers.
InsertRun(r) ==
  /\ status[r] = "absent"
  /\ status' = [status EXCEPT ![r] = "queued"]
  /\ UNCHANGED <<attempt, max_retries, cancel_requested, owner, effects,
                 volatile, executed>>

\* Mutant of ClaimNext: only unconfirmed calls keep a row from being claimed.
ClaimNextConfirmed(refused, claimed) ==
  /\ recovered
  /\ refused \cup claimed # {}
  /\ \A r \in refused : status[r] \in Waiting /\ Unresolved(r)
  /\ \A r \in claimed : status[r] \in Waiting /\ ~Unresolved(r)
  /\ status' = [r \in Runs |->
       IF r \in claimed THEN "dispatched" ELSE IF r \in refused THEN "unknown" ELSE status[r]]
  /\ effects' = [r \in Runs |-> IF r \in refused THEN Doubted(effects[r]) ELSE effects[r]]
  /\ owner' = [r \in Runs |-> IF r \in claimed THEN host ELSE owner[r]]
  /\ UNCHANGED <<attempt, max_retries, cancel_requested, volatile, executed>>

\* claim_next_run: close every row it meets whose journal forbids a replay,
\* then dispatch the first clean one, if there is one.
ClaimNext(refused, claimed) ==
  /\ recovered
  /\ refused \cup claimed # {}
  /\ \A r \in refused : status[r] \in Waiting /\ Effective(r)
  /\ \A r \in claimed : status[r] \in Waiting /\ ~Effective(r)
  /\ status' = [r \in Runs |->
       IF r \in claimed THEN "dispatched"
       ELSE IF r \in refused THEN IF Unresolved(r) THEN "unknown" ELSE "failed"
       ELSE status[r]]
  /\ effects' = [r \in Runs |-> IF r \in refused THEN Doubted(effects[r]) ELSE effects[r]]
  /\ owner' = [r \in Runs |-> IF r \in claimed THEN host ELSE owner[r]]
  /\ UNCHANGED <<attempt, max_retries, cancel_requested, volatile, executed>>

\* Mutant of StartRun: starts a row nobody claimed, past the journal's check.
StartRunUnclaimed(r) ==
  /\ recovered
  /\ status[r] \in Waiting \cup {"dispatched"}
  /\ status' = [status EXCEPT ![r] = "running"]
  /\ attempt' = [attempt EXCEPT ![r] = @ + 1]
  /\ workers' = workers \cup {r}
  /\ call_keys' = [call_keys EXCEPT ![r] = {}]
  /\ UNCHANGED <<max_retries, cancel_requested, owner, effects, host, recovered,
                 executed>>

\* start_run by the host that claimed the row; its worker has a new journal.
StartRun(r) ==
  /\ recovered
  /\ status[r] = "dispatched" /\ owner[r] = host
  /\ status' = [status EXCEPT ![r] = "running"]
  /\ attempt' = [attempt EXCEPT ![r] = @ + 1]
  /\ workers' = workers \cup {r}
  /\ call_keys' = [call_keys EXCEPT ![r] = {}]
  /\ UNCHANGED <<max_retries, cancel_requested, owner, effects, host, recovered,
                 executed>>

\* cancel_run: at once before the run starts, cooperatively while it runs.
CancelRun(r) ==
  /\ \/ status[r] \in {"queued", "dispatched", "waiting_retry"}
     \/ status[r] = "running" /\ r \notin cancel_requested
  /\ status' = [status EXCEPT ![r] = IF @ = "running" THEN @ ELSE "cancelled"]
  /\ cancel_requested' = cancel_requested \cup {r}
  /\ UNCHANGED <<attempt, max_retries, owner, effects, volatile, executed>>

\* Mutants of FinalStatus: trusts the worker's report of an unconfirmed call;
\* forgets that the run was cancelled meanwhile.
FinalStatusTrusting(r, reported, policy) ==
  IF r \in cancel_requested THEN "cancelled"
  ELSE IF reported = "failed" /\ MayRetry(r, policy, Effective(r)) THEN "waiting_retry"
  ELSE reported

\* The status finish_run writes when the worker reports `reported`.
FinalStatus(r, reported, policy) ==
  IF Unresolved(r) THEN "unknown"
  ELSE IF r \in cancel_requested THEN "cancelled"
  ELSE IF reported = "failed" /\ MayRetry(r, policy, Effective(r)) THEN "waiting_retry"
  ELSE reported

\* finish_run by the worker of this attempt, which does nothing afterwards.
FinishRun(r, reported, policy) ==
  /\ r \in workers /\ status[r] = "running" /\ owner[r] = host
  /\ status' = [status EXCEPT ![r] = FinalStatus(r, reported, policy)]
  /\ effects' = [effects EXCEPT ![r] = IF Unresolved(r) THEN Doubted(@) ELSE @]
  /\ workers' = workers \ {r}
  /\ UNCHANGED <<attempt, max_retries, cancel_requested, owner, host, recovered,
                 call_keys, executed>>

-----------------------------------------------------------------------------
(* The tool journal of a running attempt                                   *)

\* record_tool_intent
RecordIntent(r, t) ==
  /\ r \in workers /\ effects[r][t] = "none"
  /\ effects' = [effects EXCEPT ![r][t] = "intended"]
  /\ call_keys' = [call_keys EXCEPT ![r] = @ \cup {t}]
  /\ UNCHANGED <<status, attempt, max_retries, cancel_requested, owner, host,
                 recovered, workers, executed>>

\* mark_tool_started: only this attempt's own intents.
MarkStarted(r, t) ==
  /\ r \in workers /\ t \in call_keys[r] /\ effects[r][t] = "intended"
  /\ effects' = [effects EXCEPT ![r][t] = "started"]
  /\ UNCHANGED <<status, attempt, max_retries, cancel_requested, owner,
                 volatile, executed>>

\* tool.call: the effect itself, between the two journal writes.
CallTool(r, t) ==
  /\ r \in workers /\ t \in call_keys[r] /\ effects[r][t] = "started"
  /\ executed' = [executed EXCEPT ![r] = @ \cup {attempt[r]}]
  /\ UNCHANGED <<rows, volatile>>

\* record_tool_result: also for a call that was cancelled before it began.
RecordResult(r, t, result) ==
  /\ r \in workers /\ t \in call_keys[r] /\ effects[r][t] = "started"
  /\ effects' = [effects EXCEPT ![r][t] = result]
  /\ UNCHANGED <<status, attempt, max_retries, cancel_requested, owner,
                 volatile, executed>>

-----------------------------------------------------------------------------
(* Process death and recovery                                              *)

\* The process dies: the rows stay, its workers and their journals are gone.
Crash ==
  /\ host < MaxCrashes
  /\ host' = host + 1
  /\ recovered' = FALSE
  /\ workers' = {}
  /\ call_keys' = [r \in Runs |-> {}]
  /\ UNCHANGED <<rows, executed>>

\* Mutant of RecoveredStatus: only running rows are looked at.
RecoveredRunningOnly(r, policy) ==
  CASE status[r] # "running" -> status[r]
    [] MayRetry(r, policy[r], \E t \in Tools : effects[r][t] = "started") -> "waiting_retry"
    [] OTHER -> "unknown"

\* recover_interrupted blocks a retry only on calls still "started"; a row with
\* confirmed effects is left to claim_next_run.
RecoveredStatus(r, policy) ==
  CASE status[r] = "dispatched" -> "queued"
    [] status[r] = "running" ->
         IF MayRetry(r, policy[r], \E t \in Tools : effects[r][t] = "started")
         THEN "waiting_retry" ELSE "unknown"
    [] OTHER -> status[r]

\* recover_interrupted, called by the new host's scheduler.start().
Recover(policy) ==
  /\ ~recovered
  /\ recovered' = TRUE
  /\ status' = [r \in Runs |-> RecoveredStatus(r, policy)]
  /\ effects' = [r \in Runs |-> IF status[r] = "running" THEN Doubted(effects[r])
                                ELSE effects[r]]
  /\ UNCHANGED <<attempt, max_retries, cancel_requested, owner, host, workers,
                 call_keys, executed>>

-----------------------------------------------------------------------------
Policies == {"manual", "retry"}

ToolStep(r, t) ==
  \/ RecordIntent(r, t) \/ MarkStarted(r, t) \/ CallTool(r, t)
  \/ \E result \in {"succeeded", "failed"} : RecordResult(r, t, result)

Next ==
  \/ \E r \in Runs : InsertRun(r) \/ StartRun(r) \/ CancelRun(r)
  \/ \E refused \in SUBSET Runs, claimed \in {{}} \cup {{r} : r \in Runs} :
       ClaimNext(refused, claimed)
  \/ \E r \in Runs, reported \in {"completed", "failed", "cancelled"}, policy \in Policies :
       FinishRun(r, reported, policy)
  \/ \E r \in Runs, t \in Tools : ToolStep(r, t)
  \/ Crash
  \/ \E policy \in [Runs -> Policies] : Recover(policy)

Spec == Init /\ [][Next]_vars

-----------------------------------------------------------------------------
(* Properties                                                              *)

\* Whatever crashes and retries happen, only one attempt of a run ever executes
\* a tool, and no later attempt starts (finish_run, recover_interrupted and
\* claim_next_run share this duty).
NoReplayAfterEffect == \A r \in Runs : executed[r] \subseteq {attempt[r]}

\* A run never uses more attempts than its retry budget allows, counting those
\* lost in crashes (schedule_retry's attempt <= max_retries).
AttemptsBounded == \A r \in Runs : attempt[r] <= max_retries[r] + 1

\* A closed run tells the truth about its tools: if any call was left without a
\* confirmed result the run is "unknown", never completed, failed or cancelled.
UnconfirmedIsUnknown ==
  \A r \in Runs : status[r] \in Terminal /\ Unresolved(r) => status[r] = "unknown"

\* A cancellation that was accepted is never overtaken by success: the worker
\* that finishes later ends cancelled or unknown (cancel_run, finish_run).
CancelledNeverCompletes == \A r \in cancel_requested : status[r] # "completed"

\* What a row says of its run is what happened: no attempt beyond its budget, no
\* confirmed end where a tool call has none, no success over a cancellation,
\* whatever reports, retries and deaths met on the way.
RowsTellWhatHappened ==
  AttemptsBounded /\ UnconfirmedIsUnknown /\ CancelledNeverCompletes

\* After recovery no row of a dead process still occupies the dispatch slot:
\* dispatched and running rows belong to this host, running ones to a worker.
SlotsAreLive ==
  recovered => \A r \in Runs :
    /\ status[r] \in {"dispatched", "running"} => owner[r] = host
    /\ status[r] = "running" <=> r \in workers

\* A terminal row is never rewritten or started again, by any later store call.
TerminalIsFinal ==
  [][\A r \in Runs : status[r] \in Terminal =>
       status'[r] = status[r] /\ attempt'[r] = attempt[r]]_vars

Promise == INSTANCE RunAtMostOnce
             WITH Outcomes <- Terminal, Open <- "open",
                  executing <- {r \in Runs : status[r] = "running"},
                  touched <- {r \in Runs : executed[r] # {}},
                  outcome <- [r \in Runs |-> IF status[r] \in Terminal THEN status[r]
                                             ELSE "open"]

\* The store, its workers and crash recovery implement the at-most-once promise.
ImplementsAtMostOnce == Promise!Spec

=============================================================================

----------------------------- MODULE ToolDispatch -----------------------------
(***************************************************************************)
(* The tool calls of one model step: ToolDispatchService.execute           *)
(* (application/tool_execution/dispatch.py) and ConcurrentToolExecutor     *)
(* (infrastructure/tools/executor.py).  Calls that are safe to run         *)
(* together are batched twice: as the model asked for them, and again with *)
(* the arguments that were approved, which may be others.  A batch runs on *)
(* a pool; each call is validated, journaled, started, timed and recorded. *)
(***************************************************************************)
EXTENDS Integers, FiniteSets

CONSTANTS
  Last,      \* the calls of the step are 1..Last
  Workers    \* max_workers

\* What the constants have to be.
ToolDispatchAssumption == Last \in Nat

Calls == 1..Last

VARIABLES
  at,         \* what execute() is doing
  asked,      \* each call as the model made it: "safe", "unsafe" or "error"
  approved,   \* the same after its authorization
  batch,      \* the calls of the original batch in hand
  segment,    \* the calls given to the pool
  worker,     \* where the pool is with a call
  journal,    \* its row in the tool journal
  ok,         \* calls in the pool whose ToolResult is ok
  expired,    \* calls in the pool whose local_cancel is set
  status      \* the outcome the model is told

vars == <<at, asked, approved, batch, segment, worker, journal, ok, expired, status>>

Classes == {"safe", "unsafe", "error"}
Busy    == {"started", "running", "recorded"}

TypeOK ==
  /\ at \in {"prepare", "authorize", "segment", "pool", "done"}
  /\ asked \in [Calls -> Classes \cup {"new"}] /\ approved \in [Calls -> Classes \cup {"new"}]
  /\ batch \subseteq Calls /\ segment \subseteq Calls /\ ok \subseteq Calls
  /\ expired \subseteq Calls
  /\ worker \in [Calls -> Busy \cup {"none", "queued", "ended"}]
  /\ journal \in [Calls -> {"none", "started", "succeeded", "failed"}]
  /\ status \in [Calls -> {"none", "succeeded", "failed", "timeout"}]

Init ==
  /\ at = "prepare"
  /\ asked = [i \in Calls |-> "new"] /\ approved = [i \in Calls |-> "new"]
  /\ batch = {} /\ segment = {} /\ ok = {} /\ expired = {}
  /\ worker = [i \in Calls |-> "none"]
  /\ journal = [i \in Calls |-> "none"]
  /\ status = [i \in Calls |-> "none"]

-----------------------------------------------------------------------------
(* The thread of the agent.                                                *)

\* _prepare_tool_call and _is_concurrency_safe for every call: unknown tools,
\* invalid arguments and calls a hook denies are errors from here on.
Prepare ==
  /\ at = "prepare" /\ at' = "authorize"
  /\ asked' \in [Calls -> Classes]
  /\ UNCHANGED <<approved, batch, segment, worker, journal, ok, expired, status>>

Settled(i) == status[i] # "none"

\* _partition_*_calls: i runs up to j with nothing but safe calls on the way.
Together(class, i, j) == \A k \in i..j : class[k] = "safe"

\* The calls of S that go with its first one.
FirstBatch(S, class) ==
  LET i == CHOOSE k \in S : \A j \in S : k <= j
  IN  {j \in S : j = i \/ Together(class, i, j)}

Unsettled == {i \in Calls : ~Settled(i)}

\* The next original batch is taken up.
NextBatch ==
  /\ at = "authorize" /\ batch = {} /\ Unsettled # {}
  /\ batch' = FirstBatch(Unsettled, asked)
  /\ UNCHANGED <<at, asked, approved, segment, worker, journal, ok, expired, status>>

\* _prepare_invocation of the next call of the batch: denied, failed or of a
\* turn that was stopped, or allowed with arguments that are classified anew.
Authorize(i) ==
  /\ at = "authorize" /\ i \in batch /\ approved[i] = "new"
  /\ \A j \in batch : j < i => approved[j] # "new"
  /\ \E class \in (IF asked[i] = "error" THEN {"error"} ELSE Classes) :
       approved' = [approved EXCEPT ![i] = class]
  /\ UNCHANGED <<at, asked, batch, segment, worker, journal, ok, expired, status>>

BatchAuthorized ==
  /\ at = "authorize" /\ batch # {} /\ \A i \in batch : approved[i] # "new"
  /\ at' = "segment"
  /\ UNCHANGED <<asked, approved, batch, segment, worker, journal, ok, expired, status>>

\* Segments by the arguments the model gave.
SegmentsAsAsked(S) == FirstBatch(S, asked)

\* run_final_segment, _partition_prepared_calls: by the arguments that were
\* approved.
Segments(S) == FirstBatch(S, approved)

\* record_failure for a call that may not run, once what is before it has run.
RecordFailure(i) ==
  /\ at = "segment" /\ i \in batch /\ approved[i] = "error" /\ ~Settled(i)
  /\ \A j \in batch : j < i => Settled(j)
  /\ status' = [status EXCEPT ![i] = "failed"]
  /\ UNCHANGED <<at, asked, approved, batch, segment, worker, journal, ok, expired>>

\* execute_batch submits the next segment.
Submit ==
  /\ at = "segment" /\ batch \cap Unsettled # {}
  /\ LET now == Segments(batch \cap Unsettled)
     IN  /\ \A i \in now : approved[i] # "error"
         /\ segment' = now
         /\ worker' = [i \in Calls |-> IF i \in now THEN "queued" ELSE worker[i]]
  /\ at' = "pool"
  /\ UNCHANGED <<asked, approved, batch, journal, ok, expired, status>>

\* Every future is there: the outcomes go into their slots.
Collect ==
  /\ at = "pool" /\ \A i \in segment : worker[i] = "ended"
  /\ status' = [i \in Calls |-> IF i \notin segment THEN status[i]
                                ELSE IF i \in expired THEN "timeout"
                                ELSE IF i \in ok THEN "succeeded" ELSE "failed"]
  /\ segment' = {} /\ ok' = {} /\ expired' = {} /\ at' = "segment"
  /\ UNCHANGED <<asked, approved, batch, worker, journal>>

BatchDone ==
  /\ at = "segment" /\ batch \cap Unsettled = {}
  /\ batch' = {} /\ at' = IF Unsettled = {} THEN "done" ELSE "authorize"
  /\ UNCHANGED <<asked, approved, segment, worker, journal, ok, expired, status>>

-----------------------------------------------------------------------------
(* _run_one, on a thread of the pool.                                      *)

WorkerAt(i, where) == worker' = [worker EXCEPT ![i] = where]

Free == Cardinality({i \in Calls : worker[i] \in Busy}) < Workers

\* before_execute: the permission still stands; then record_intent and
\* mark_started, before the tool is called.  Either may refuse.
RecordIntent(i) ==
  /\ worker[i] = "queued" /\ Free
  /\ WorkerAt(i, "started")
  /\ journal' = [journal EXCEPT ![i] = "started"]
  /\ UNCHANGED <<at, asked, approved, batch, segment, ok, expired, status>>

Refused(i) ==
  /\ worker[i] = "queued" /\ Free /\ WorkerAt(i, "ended")
  /\ UNCHANGED <<at, asked, approved, batch, segment, journal, ok, expired, status>>

\* A result that could not be stored, reported as the tool gave it.
Kept(i, good) == IF good THEN ok \cup {i} ELSE ok

\* A result that could not be stored is reported as a failure of unknown outcome.
Unstored(i, good) == ok

\* record_result, which may raise.
Recorded(i, good) ==
  \/ /\ journal' = [journal EXCEPT ![i] = IF good THEN "succeeded" ELSE "failed"]
     /\ ok' = IF good THEN ok \cup {i} ELSE ok
  \/ /\ UNCHANGED journal
     /\ ok' = Unstored(i, good)

\* The deadline is started and the tool is called, unless raise_if_cancelled
\* finds the turn stopped.
Begin(i) ==
  /\ worker[i] = "started"
  /\ WorkerAt(i, "running")
  /\ UNCHANGED <<at, asked, approved, batch, segment, journal, ok, expired, status>>

Cancelled(i) ==
  /\ worker[i] = "started"
  /\ WorkerAt(i, "ended") /\ Recorded(i, FALSE)
  /\ UNCHANGED <<at, asked, approved, batch, segment, expired, status>>

\* The tool returns a result that is good, one that is not, or raises.
Return(i) ==
  /\ worker[i] = "running"
  /\ WorkerAt(i, "recorded")
  /\ \E good \in BOOLEAN : Recorded(i, good)
  /\ UNCHANGED <<at, asked, approved, batch, segment, expired, status>>

\* The timer sets local_cancel; it is only cancelled after the result is stored.
Expire(i) ==
  /\ worker[i] \in {"running", "recorded"} /\ i \notin expired
  /\ expired' = expired \cup {i}
  /\ UNCHANGED <<at, asked, approved, batch, segment, worker, journal, ok, status>>

\* The timer is cancelled and the future gets its result.
End(i) ==
  /\ worker[i] = "recorded" /\ WorkerAt(i, "ended")
  /\ UNCHANGED <<at, asked, approved, batch, segment, journal, ok, expired, status>>

-----------------------------------------------------------------------------
Dispatcher ==
  \/ Prepare \/ NextBatch \/ BatchAuthorized \/ Submit \/ Collect \/ BatchDone
  \/ \E i \in Calls : Authorize(i) \/ RecordFailure(i)

Pool(i) ==
  \/ RecordIntent(i) \/ Refused(i) \/ Begin(i) \/ Cancelled(i)
  \/ Return(i) \/ Expire(i) \/ End(i)

Next == Dispatcher \/ (\E i \in Calls : Pool(i))

Spec == Init /\ [][Next]_vars

-----------------------------------------------------------------------------
\* An earlier call that is not over may only be followed by a later one when
\* everything from the one to the other is safe with the arguments that were
\* approved: a later read never overtakes a write, also when approval turned
\* the write from one that was safe.  And nobody is asked for permission for a
\* call before everything in earlier batches is over.
BarriersHold ==
  \A i, j \in Calls : i < j /\ ~Settled(i) =>
    /\ worker[j] # "none" => Together(approved, i, j)
    /\ approved[j] # "new" => Together(asked, i, j)

\* Every call gets an outcome, and the model is only told of a success that
\* the journal has, so that a recovery reads the same story.
SuccessIsRecorded ==
  /\ at = "done" => \A i \in Calls : Settled(i)
  /\ \A i \in Calls : status[i] = "succeeded" => journal[i] = "succeeded"

\* An answer's calls end as if they had been made one after the other, and the
\* model is told what the journal says of each.
BatchesAreSound == BarriersHold /\ SuccessIsRecorded

=============================================================================

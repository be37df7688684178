---------------------------- MODULE SessionCommands ----------------------------
(***************************************************************************)
(* The commands of one session: SessionService (application/session/       *)
(* service.py) accepts them on the threads of its callers, SessionRunner   *)
(* (runner.py) consumes them on its worker, dispatch.py runs the turn, and *)
(* the rows of accepted_commands (_commands.py) outlive the process.       *)
(*                                                                         *)
(* A call and a consumed event are split at every lock and transaction:    *)
(* what one of them read may be old when it acts.  The process may die at  *)
(* any moment and a new one opens the session.  Prompts, attachments and   *)
(* published events are left out; a call still under way when the session  *)
(* is opened again takes no further step.                                  *)
(***************************************************************************)
EXTENDS Naturals, Sequences, FiniteSets

CONSTANTS
  Turns,      \* command ids of turn.submit
  Stops,      \* command ids of turn.cancel: stop_current()
  StopAlls,   \* command ids of turn.cancel_all: stop_all()
  Cancels,    \* command ids of turn.cancel_queued: cancel_queued()
  TargetOf,   \* the turn each of Cancels names
  Callers,    \* threads that call the service
  MaxCalls,   \* bound on deaths and on the calls that submit, stop or cancel
  MaxDeaths,  \* bound on process deaths and reopenings
  Exit,       \* the EXIT event
  NoTurn

\* What the constants have to be.
SessionCommandsAssumption ==
  /\ IsFiniteSet(Turns) /\ TargetOf \in [Cancels -> Turns]
  /\ MaxCalls \in Nat /\ MaxDeaths \in Nat
  /\ Exit \notin Turns /\ NoTurn \notin Turns \cup {Exit}

VARIABLES
  row,        \* accepted_commands.status of each command id, "none" without a row
  runner,     \* SessionRunner._state; "dead" after the process died
  queued,     \* SessionService._queued
  cancelled,  \* SessionService._cancelled
  active,     \* SessionService._active_command
  stop,       \* runtime.cancellation_event is set
  events,     \* runtime.event_queue: USER_INPUT by command id, and EXIT
  worker,     \* where the consumer is, its command, the status the turn ended with
  call,       \* where each caller is, its command id and the targets it still has
  calls,      \* calls begun, closes aside
  deaths,     \* times the session was lost or closed
  began,      \* how often each turn's run began (history)
  told,       \* turns some answered call reported as cancelled (history)
  asked,      \* turns that were active when a stop or a close came (history)
  resent      \* turns whose submit was called again (history)

rows    == <<row, deaths>>
memory  == <<queued, cancelled, active, events>>
history == <<began, told, asked, resent>>
vars    == <<row, runner, queued, cancelled, active, stop, events, worker, call,
             calls, deaths, history>>

Controls == Stops \cup StopAlls \cup Cancels
Terminal == {"completed", "failed", "cancelled", "unknown"}
Statuses == Terminal \cup {"none", "accepted", "queued", "claimed", "running"}

NoCall  == [at |-> "idle", id |-> NoTurn, targets |-> {}]
Resting == [at |-> "idle", cmd |-> NoTurn, result |-> "none"]

TypeOK ==
  /\ row \in [Turns \cup Controls -> Statuses]
  /\ runner \in {"new", "running", "closing", "closed", "dead"}
  /\ queued \subseteq Turns /\ cancelled \subseteq Turns
  /\ active \in Turns \cup {NoTurn}
  /\ stop \in BOOLEAN
  /\ events \in Seq(Turns \cup {Exit})
  /\ worker \in [at: {"idle", "reject", "claim", "begin", "acquire", "start", "turn",
                      "settle", "exit"},
                 cmd: Turns \cup {NoTurn}, result: {"none", "completed", "failed"}]
  /\ call \in [Callers -> [at: {"idle", "accept", "look", "queue", "put", "set", "mark",
                                "cancel", "answer", "refuse", "close"},
                           id: Turns \cup Controls \cup {NoTurn}, targets: SUBSET Turns]]
  /\ began \in [Turns -> Nat]
  /\ told \subseteq Turns /\ asked \subseteq Turns /\ resent \subseteq Turns

Init ==
  /\ row = [c \in Turns \cup Controls |-> "none"]
  /\ runner = "new"
  /\ queued = {} /\ cancelled = {} /\ active = NoTurn /\ stop = FALSE /\ events = <<>>
  /\ worker = Resting
  /\ call = [h \in Callers |-> NoCall]
  /\ calls = 0 /\ deaths = 0
  /\ began = [c \in Turns |-> 0] /\ told = {} /\ asked = {} /\ resent = {}

-----------------------------------------------------------------------------
(* The rows: infrastructure/persistence/autonomy_store/_commands.py.       *)

\* queue_command: an accepted command is offered to the worker.
QueuedFrom(s) == IF s = "accepted" THEN "queued" ELSE s

\* cancel_command: only work that has not started is cancelled.
CancelledFrom(s) == IF s \in {"accepted", "queued", "claimed"} THEN "cancelled" ELSE s

\* complete_command: a terminal row stays as it is.
CompletedFrom(s, status) == IF s \in Terminal THEN s ELSE status

\* A recover_commands that forgets what was claimed and had not started.
RecoverUnclaimed(s) == IF s \in {"accepted", "queued"} THEN "queued"
                       ELSE IF s = "running" THEN "unknown" ELSE s

\* A recover_commands that offers a command again although its run had begun.
RecoverRunning(s) == IF s \in {"accepted", "queued", "claimed", "running"} THEN "queued" ELSE s

\* recover_commands: what has not started is offered again, a lost run is unknown.
Recovered(s) ==
  CASE s \in {"accepted", "queued", "claimed"} -> "queued"
    [] s = "running"                           -> "unknown"
    [] OTHER                                   -> s

-----------------------------------------------------------------------------
(* Opening and losing the session.                                         *)

\* The orders in which recovered turns may come back (ORDER BY accepted_at).
Orders(S) == {o \in [1..Cardinality(S) -> S] : \A i, j \in DOMAIN o : o[i] = o[j] => i = j}

\* SessionService.start: the rows are recovered, every waiting turn is queued
\* again, and the worker runs.  Other commands are not replayed.
Open ==
  /\ runner \in {"new", "dead", "closed"}
  /\ runner' = "running"
  /\ row' = [c \in DOMAIN row |-> Recovered(row[c])]
  /\ queued' = {c \in Turns : row'[c] = "queued"}
  /\ events' \in Orders(queued')
  /\ cancelled' = {} /\ active' = NoTurn /\ stop' = FALSE
  /\ worker' = Resting
  /\ call' = [h \in Callers |-> NoCall]
  /\ UNCHANGED <<calls, deaths, history>>

\* The process dies: memory, callers and worker are gone, the rows stay.
Die ==
  /\ runner \in {"running", "closing"}
  /\ deaths < MaxDeaths /\ calls + deaths < MaxCalls
  /\ deaths' = deaths + 1
  /\ runner' = "dead"
  /\ queued' = {} /\ cancelled' = {} /\ active' = NoTurn /\ stop' = FALSE /\ events' = <<>>
  /\ worker' = Resting
  /\ call' = [h \in Callers |-> NoCall]
  /\ UNCHANGED <<row, calls, history>>

-----------------------------------------------------------------------------
(* The callers' threads.                                                   *)

Advance(h, at) == call' = [call EXCEPT ![h].at = at]
Return(h)      == call' = [call EXCEPT ![h] = NoCall]

\* _require_accepting_input: a session that closes takes no commands.
Begin(h, id) ==
  /\ call[h].at = "idle"
  /\ runner = "running"
  /\ calls + deaths < MaxCalls
  /\ calls' = calls + 1
  /\ call' = [call EXCEPT ![h] = [NoCall EXCEPT !.at = "accept", !.id = id]]
  /\ resent' = IF id \in Turns /\ (row[id] # "none" \/ \E g \in Callers : call[g].id = id)
               THEN resent \cup {id} ELSE resent
  /\ UNCHANGED <<rows, runner, memory, stop, worker, began, told, asked>>

\* Where a fresh control command goes on.
FirstStep(id) == IF id \in Cancels THEN "mark" ELSE "set"

\* _accept_command: the row is written before anything happens.  A known id
\* does nothing, except that a turn left at accepted is queued now.
Accept(h) ==
  LET id == call[h].id IN
  /\ call[h].at = "accept"
  /\ row' = [row EXCEPT ![id] = IF @ = "none" THEN "accepted" ELSE @]
  /\ IF id \in Turns
     THEN IF row[id] \in {"none", "accepted"} THEN Advance(h, "look") ELSE Return(h)
     ELSE IF row[id] = "none" THEN Advance(h, FirstStep(id)) ELSE Return(h)
  /\ UNCHANGED <<runner, memory, stop, worker, calls, deaths, history>>

\* _queue_input, get_command: only a row that is still accepted goes on.
Look(h) ==
  /\ call[h].at = "look"
  /\ IF row[call[h].id] = "accepted" THEN Advance(h, "queue") ELSE Return(h)
  /\ UNCHANGED <<rows, runner, memory, stop, worker, calls, history>>

\* _queue_input, queue_command and the status it returns.
Queue(h) ==
  LET id == call[h].id IN
  /\ call[h].at = "queue"
  /\ row' = [row EXCEPT ![id] = QueuedFrom(@)]
  /\ IF row'[id] = "queued" THEN Advance(h, "put") ELSE Return(h)
  /\ UNCHANGED <<runner, memory, stop, worker, calls, deaths, history>>

\* _queue_input, the locked part and the event.
Put(h) ==
  LET id == call[h].id IN
  /\ call[h].at = "put"
  /\ queued' = queued \cup {id}
  /\ events' = IF id \in queued THEN events ELSE Append(events, id)
  /\ Return(h)
  /\ UNCHANGED <<rows, runner, cancelled, active, stop, worker, calls, history>>

\* _stop: the running turn is asked to end, pending interactions are cancelled.
SetStop(h) ==
  /\ call[h].at = "set"
  /\ stop' = TRUE
  /\ asked' = asked \cup ({active} \ {NoTurn})
  /\ Advance(h, IF call[h].id \in StopAlls THEN "mark" ELSE "answer")
  /\ UNCHANGED <<rows, runner, memory, worker, calls, began, told, resent>>

\* The turns a call cancels of those in memory: all of them, or its target.
Targets(id) == IF id \in StopAlls THEN queued ELSE {TargetOf[id]} \cap queued

\* _stop and cancel_queued, under the lock: queued turns are marked.
Mark(h) ==
  LET found == Targets(call[h].id) IN
  /\ call[h].at = "mark"
  /\ cancelled' = cancelled \cup found
  /\ call' = [call EXCEPT ![h].targets = found,
       ![h].at = IF call[h].id \in Cancels /\ found = {} THEN "refuse" ELSE "cancel"]
  /\ UNCHANGED <<rows, runner, queued, active, stop, events, worker, calls, history>>

\* _stop and cancel_queued, after the lock: one cancel_command per turn.
CancelRow(h) ==
  /\ call[h].at = "cancel"
  /\ \E c \in call[h].targets :
       /\ row' = [row EXCEPT ![c] = CancelledFrom(@)]
       /\ told' = told \cup {c}
       /\ call' = [call EXCEPT ![h].targets = @ \ {c}]
  /\ UNCHANGED <<runner, memory, stop, worker, calls, deaths, began, asked, resent>>

\* The command itself is completed, or failed without its target, and answered.
Answer(h) ==
  /\ call[h].at \in {"cancel", "answer", "refuse"} /\ call[h].targets = {}
  /\ row' = [row EXCEPT ![call[h].id] =
       CompletedFrom(@, IF call[h].at = "refuse" THEN "failed" ELSE "completed")]
  /\ Return(h)
  /\ UNCHANGED <<runner, memory, stop, worker, calls, deaths, history>>

\* SessionService.close: the turn is asked to end and interactions are closed.
CloseBegin(h) ==
  /\ call[h].at = "idle"
  /\ runner = "running" /\ deaths < MaxDeaths /\ calls + deaths < MaxCalls
  /\ stop' = TRUE
  /\ asked' = asked \cup ({active} \ {NoTurn})
  /\ Advance(h, "close")
  /\ UNCHANGED <<rows, runner, memory, worker, calls, began, told, resent>>

\* SessionService.close: what is queued is marked, and EXIT follows it.
CloseFinish(h) ==
  /\ call[h].at = "close"
  /\ cancelled' = cancelled \cup queued
  /\ IF runner = "running"
     THEN runner' = "closing" /\ events' = Append(events, Exit) /\ deaths' = deaths + 1
     ELSE UNCHANGED <<runner, events, deaths>>
  /\ Return(h)
  /\ UNCHANGED <<row, queued, active, stop, worker, calls, history>>

-----------------------------------------------------------------------------
(* The worker: SessionRunner._run, SessionService._consume and the         *)
(* USER_INPUT branch of process_session_event.                             *)

Goto(at) == worker' = [worker EXCEPT !.at = at]

\* _consume, under the lock: the turn leaves _queued, cancelled or active.
TakeTurn ==
  /\ worker.at = "idle" /\ runner \in {"running", "closing"}
  /\ events # <<>> /\ Head(events) # Exit
  /\ LET c == Head(events) IN
     /\ events' = Tail(events)
     /\ queued' = queued \ {c}
     /\ cancelled' = cancelled \ {c}
     /\ active' = IF c \in cancelled THEN active ELSE c
     /\ worker' = [Resting EXCEPT !.at = IF c \in cancelled THEN "reject" ELSE "claim",
                                  !.cmd = c]
  /\ UNCHANGED <<rows, runner, stop, call, calls, history>>

\* A cancelled turn: its row is cancelled and command.rejected is published.
Reject ==
  /\ worker.at = "reject"
  /\ row' = [row EXCEPT ![worker.cmd] = CancelledFrom(@)]
  /\ told' = told \cup {worker.cmd}
  /\ worker' = Resting
  /\ UNCHANGED <<runner, memory, stop, call, calls, deaths, began, asked, resent>>

\* claim_command takes a queued row.
MayClaim(s) == s = "queued"

\* claim_command; a turn that cannot be claimed is dropped, and _active_command
\* keeps its id.
Claim ==
  /\ worker.at = "claim"
  /\ IF MayClaim(row[worker.cmd])
     THEN row' = [row EXCEPT ![worker.cmd] = "claimed"] /\ Goto("begin")
     ELSE row' = row /\ worker' = Resting
  /\ UNCHANGED <<runner, memory, stop, call, calls, deaths, history>>

\* A turn that begins with the stop of the turn before it.
StopKept(s) == s

\* cancellation_event.clear() at the start of a turn.
StopAtBegin(s) == FALSE

\* process_session_event begins a turn: the cancellation event is cleared.  An
\* attachment or slash command, or an empty prompt, ends it at once; a file
\* reference that cannot be captured raises.
BeginTurn ==
  /\ worker.at = "begin"
  /\ stop' = StopAtBegin(stop)
  /\ asked' = asked \ {worker.cmd}
  /\ \/ Goto("acquire")
     \/ \E r \in {"completed", "failed"} : worker' = [worker EXCEPT !.at = "settle", !.result = r]
  /\ UNCHANGED <<rows, runner, memory, call, calls, began, told, resent>>

\* coordinator.acquire: the directory is granted, or the wait is cancelled.
AcquireDirectory ==
  /\ worker.at = "acquire"
  /\ IF stop
     THEN \/ Goto("start")
          \/ worker' = [worker EXCEPT !.at = "settle", !.result = "failed"]
     ELSE Goto("start")
  /\ UNCHANGED <<rows, runner, memory, stop, call, calls, history>>

\* persist_run_id, called when Agent has created its RunRecord: start_command
\* makes the claimed row running, and a turn without it fails.
StartRun ==
  LET c == active IN
  /\ worker.at = "start"
  /\ IF c # NoTurn /\ row[c] = "claimed"
     THEN /\ row' = [row EXCEPT ![c] = "running"]
          /\ began' = [began EXCEPT ![c] = @ + 1]
          /\ Goto("turn")
     ELSE /\ worker' = [worker EXCEPT !.at = "settle", !.result = "failed"]
          /\ UNCHANGED <<row, began>>
  /\ UNCHANGED <<runner, memory, stop, call, calls, deaths, told, asked, resent>>

\* Agent.run returns: completed, failed, or stopped at one of its checks.
TurnEnds ==
  /\ worker.at = "turn"
  /\ \E r \in {"completed", "failed"} : worker' = [worker EXCEPT !.at = "settle", !.result = r]
  /\ UNCHANGED <<rows, runner, memory, stop, call, calls, history>>

\* What the row of a turn becomes: cancelled as soon as the event is set.
TurnStatus(result) == IF stop THEN "cancelled" ELSE result

\* _consume after the turn: complete_command, and the turn is active no more.
Settle ==
  /\ worker.at = "settle"
  /\ row' = [row EXCEPT ![worker.cmd] = CompletedFrom(@, TurnStatus(worker.result))]
  /\ active' = IF active = worker.cmd THEN NoTurn ELSE active
  /\ worker' = Resting
  /\ UNCHANGED <<runner, queued, cancelled, stop, events, call, calls, deaths, history>>

\* EXIT ends the loop and _finish shuts the runtime down, once.
TakeExit ==
  /\ worker.at = "idle" /\ runner = "closing"
  /\ events # <<>> /\ Head(events) = Exit
  /\ events' = Tail(events)
  /\ runner' = "closed"
  /\ worker' = [Resting EXCEPT !.at = "exit"]
  /\ UNCHANGED <<rows, queued, cancelled, active, stop, call, calls, history>>

-----------------------------------------------------------------------------
CallerStep(h) ==
  \/ Accept(h) \/ Look(h) \/ Queue(h) \/ Put(h)
  \/ SetStop(h) \/ Mark(h) \/ CancelRow(h) \/ Answer(h)
  \/ CloseFinish(h)

WorkerStep ==
  \/ TakeTurn \/ Reject \/ Claim \/ BeginTurn \/ AcquireDirectory \/ StartRun
  \/ TurnEnds \/ Settle \/ TakeExit

Next ==
  \/ Open \/ Die
  \/ WorkerStep
  \/ \E h \in Callers :
       \/ \E id \in Turns \cup Controls : Begin(h, id)
       \/ CloseBegin(h)
       \/ CallerStep(h)

Spec == Init /\ [][Next]_vars

\* The worker's loop and a call that has begun go on; whether a call is made, a
\* session opened or a process lost is nobody's promise.
Fairness == WF_vars(WorkerStep) /\ \A h \in Callers : WF_vars(CallerStep(h))

FairSpec == Spec /\ Fairness

-----------------------------------------------------------------------------
\* At most one run ever begins for a command, however often the client sends it
\* again and wherever the process dies (claim_command, start_command,
\* recover_commands); and none begins for a turn whose cancellation was
\* reported, although _queued, _cancelled and the row are read and written at
\* different moments.  Turns that a client submitted twice may run once even
\* then: the second submit can put a turn that runs back into _queued, and its
\* cancellation is then reported.
BeganAtMostOnce ==
  \A c \in Turns : began[c] <= IF c \in told \ resent THEN 0 ELSE 1

\* A turn is recorded as cancelled at its end only when a stop or a close came
\* while it was the active command: a stop meant for an earlier turn does not
\* reach it (cancellation_event.clear at the start of a turn).
StopHitsItsTurn ==
  [][Settle /\ row'[worker.cmd] = "cancelled" /\ row[worker.cmd] # "cancelled"
       => worker.cmd \in asked]_vars

Outstanding == {c \in Turns : row[c] \notin Terminal \cup {"none"}}

\* An open session comes to the end of what it has accepted, recovered commands
\* included, or is closed or lost before: no command is forgotten between the
\* row, _queued and the event queue.
AcceptedIsSettled == runner = "running" ~> runner # "running" \/ Outstanding = {}

=============================================================================

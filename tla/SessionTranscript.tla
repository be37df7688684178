--------------------------- MODULE SessionTranscript ---------------------------
(***************************************************************************)
(* The transcript of a session and its checkpoint: an agent that asks its  *)
(* model, records answers, tool calls and their results, and saves the     *)
(* session after each of them, in a process that may die at any moment.    *)
(* What is loaded again is repaired: calls without a result are answered   *)
(* as interrupted, beside their message, before anything else is asked.    *)
(*                                                                         *)
(* Texts, arguments, results, usage and attachments are left out, and a    *)
(* plan is only "none", "open" or "done" (PlanSteps has its steps).  A     *)
(* message is its id, its role and the calls it makes or answers.  What a  *)
(* model may call at once is a constant: a set it has called before stands *)
(* for a provider that reuses an id.                                       *)
(*                                                                         *)
(* The control plane saves the session too, on the thread of a background  *)
(* agent and without a lock that the root agent holds when it records:     *)
(* that save reads the session in parts (OthersSave).                      *)
(***************************************************************************)
EXTENDS Naturals, Sequences, FiniteSets, SequencesExt, FiniteSetsExt

CONSTANTS
  None,        \* stands for nothing where a record may be
  CallSets,    \* what a model may call at once: sets of call ids
  MaxTurns,    \* user turns and runtime events
  MaxSteps,    \* Session.max_steps
  MaxStrikes,  \* max_consecutive_invalid, max_verification_retries
  MaxFaults    \* cancellations, deaths and saves of background agents

SessionTranscriptAssumption ==
  /\ \A calls \in CallSets : IsFiniteSet(calls) /\ calls # {}
  /\ {MaxTurns, MaxFaults} \subseteq Nat
  /\ {MaxSteps, MaxStrikes} \subseteq Nat \ {0}

VARIABLES
  session,    \* the Session of this process
  phase,      \* where its worker is
  loop,       \* of _run_loop: the rounds left, RetryCounters, the answer in hand
  cancelled,  \* the cancellation of this turn
  disk,       \* the checkpoint, as saved last: [session, torn], torn when the
              \* session went on while it was read
  torn,       \* history: what this session was loaded from was torn
  saver,      \* what a background agent has read so far of the session
  spent       \* [turns, faults] so far

vars == <<session, phase, loop, cancelled, disk, torn, saver, spent>>

Calls    == UNION CallSets
Phases   == {"idle", "ask", "asked", "calls", "turn", "recorded", "tools",
             "closing", "stopping", "dead", "loaded", "lost"}
Statuses == {"running", "completed", "failed", "cancelled", "interrupted"}
Ended    == Statuses \ {"running"}
Routes   == {"tool_calls", "final", "invalid", "partial"}
NoReply  == [route |-> "none", calls |-> <<>>]
NoLoop   == [left |-> 0, invalid |-> 0, verifier |-> 0, hook |-> 0, reply |-> NoReply]

Empty ==
  [messages |-> <<>>, turns |-> <<>>, executions |-> <<>>, runs |-> <<>>,
   plan |-> "none", committed |-> {}, step |-> 0, start |-> 0, index |-> 0,
   turn |-> 0, counter |-> 0]

Init ==
  /\ session = Empty /\ phase = "idle" /\ loop = NoLoop /\ cancelled = FALSE
  /\ disk = None /\ torn = FALSE /\ saver = None
  /\ spent = [turns |-> 0, faults |-> 0]

-----------------------------------------------------------------------------
\* The record of a session

Message(s, role, calls) == [id |-> s.counter + 1, role |-> role, calls |-> calls]

\* append_message: the one way a message gets into the transcript.
Append1(s, role, calls) ==
  [s EXCEPT !.messages = Append(@, Message(s, role, calls)), !.counter = @ + 1]

\* Mutant of Answered: one message for all the calls of an answer.
AnsweredTogether(s, calls) == Append1(s, "tool", <<calls[1]>>)

\* build_tool_results_messages: a message for each of the calls.
Answered(s, calls) ==
  FoldLeft(LAMBDA t, call : Append1(t, "tool", <<call>>), s, calls)

Running(s) == s.runs # <<>> /\ Last(s.runs) = "running"

\* RunRecord.finish: a run that has ended keeps its status.
Finished(s, status) ==
  IF Running(s) THEN [s EXCEPT !.runs[Len(s.runs)] = status] ELSE s

\* begin_run, begin_user_turn: a turn is named by the place where it begins.
RunBegun(s) == [s EXCEPT !.runs = Append(@, "running")]

UserTurnBegun(s) ==
  [RunBegun(s) EXCEPT !.plan = IF s.turns = <<>> THEN @ ELSE "none",
                      !.start = s.step, !.index = Len(s.messages),
                      !.turn = Len(s.messages)]

\* record_assistant_turn, in the order in which its parts are written.
Spoken(s, r) ==
  Append1([s EXCEPT !.step = @ + 1], "assistant",
          IF r.route = "tool_calls" THEN r.calls ELSE <<>>)

Pending(s, r) ==
  [s EXCEPT !.executions =
     [c \in DOMAIN @ \union ToSet(r.calls) |->
        IF c \in ToSet(r.calls) THEN [step |-> s.step, ended |-> FALSE] ELSE @[c]]]

Noted(s, r) ==
  [s EXCEPT !.turns = Append(@, [step |-> s.step, message |-> s.counter,
                                 calls |-> r.calls])]

\* record_tool_execution for all of them, then their messages.
Closed(s, calls) ==
  Answered([s EXCEPT !.executions =
              [c \in DOMAIN @ |-> IF c \in ToSet(calls) THEN [@[c] EXCEPT !.ended = TRUE]
                                                        ELSE @[c]]], calls)

\* mark_completed; a hook that refuses takes both back.
Completed(s) == Finished([s EXCEPT !.committed = @ \union {s.turn}], "completed")

Reopened(s) ==
  [s EXCEPT !.committed = @ \ {s.turn}, !.runs[Len(s.runs)] = "running"]

\* Verifier: no open plan, no call of this turn without an end.
Unfinished(s) ==
  \/ s.plan = "open"
  \/ \E c \in DOMAIN s.executions : s.executions[c].step > s.start /\ ~s.executions[c].ended

-----------------------------------------------------------------------------
\* The checkpoint

\* What the codec refuses record by record: the steps of turns and executions
\* count from one (of the rest only the types are checked, and types they have).
TurnsDecode(s)      == \A i \in DOMAIN s.turns : s.turns[i].step > 0
ExecutionsDecode(s) == \A c \in DOMAIN s.executions : s.executions[c].step > 0

\* validate_session_links
Loadable(s) ==
  LET ids == {s.messages[i].id : i \in DOMAIN s.messages} IN
  /\ TurnsDecode(s) /\ ExecutionsDecode(s)
  /\ Cardinality(ids) = Len(s.messages)
  /\ \A i, j \in DOMAIN s.turns : i < j => s.turns[i].step < s.turns[j].step
  /\ \A i \in DOMAIN s.turns : s.turns[i].step <= s.step
  /\ s.start <= s.step /\ s.index <= Len(s.messages)
  /\ \A i \in DOMAIN s.turns :
       /\ \E m \in DOMAIN s.messages :
            s.messages[m].id = s.turns[i].message /\ s.messages[m].role = "assistant"
       /\ \A c \in ToSet(s.turns[i].calls) :
            c \in DOMAIN s.executions /\ s.executions[c].step = s.turns[i].step
  /\ \A id \in ids : id <= s.counter

ToolAnswers(s) ==
  UNION {ToSet(s.messages[i].calls) : i \in {j \in DOMAIN s.messages : s.messages[j].role = "tool"}}

\* Behind the assistant message of a turn and the results it has.
PlaceOf(messages, turn) ==
  LET at == CHOOSE i \in DOMAIN messages : messages[i].id = turn.message IN
  Min({i \in at + 1 .. Len(messages) + 1 :
         i = Len(messages) + 1 \/ messages[i].role # "tool"})

\* One missing result: its call has ended, and its message goes there.
Inserted(s, call, place) ==
  LET said == Message(s, "tool", <<call>>) IN
  [s EXCEPT !.messages = InsertAt(@, place, said), !.counter = @ + 1,
            !.index = IF place <= @ THEN @ + 1 ELSE @,
            !.executions[call].ended = TRUE]

\* Mutant of Recovered: a checkpoint is taken as it is.
RecoveredAsSaved(s) == s

\* recover_interrupted_tool_calls
Recovered(s) ==
  LET had == ToolAnswers(s)
      repaired(t, turn) ==
        LET missing == SelectSeq(turn.calls, LAMBDA c : c \notin had)
            first   == PlaceOf(t.messages, turn)
        IN  FoldLeft(LAMBDA u, i : Inserted(u, missing[i], first + i - 1),
                     t, [i \in DOMAIN missing |-> i])
  IN  FoldLeft(repaired, s, s.turns)

\* Agent._checkpoint, on the session's own thread.
Save(s) == saver = None /\ disk' = [session |-> s, torn |-> torn]

-----------------------------------------------------------------------------
\* A turn

Go(s, p, l) == session' = s /\ phase' = p /\ loop' = l

\* Agent._terminate, _stop_if_cancelled and _fail_run: the run ends, and is saved.
EndRun(s, status) ==
  LET over == Finished(s, status) IN Go(over, "idle", NoLoop) /\ Save(over)

\* Feedback goes into the transcript, and the model is asked again; one
\* strike too many ends the run.
Retry(s, l, count) ==
  LET told == Append1(s, "user", <<>>) IN
  IF count >= MaxStrikes THEN EndRun(told, "failed")
  ELSE Go(told, "ask", l) /\ Save(told)

Begin(s) ==
  LET told == Append1(s, "user", <<>>) IN
  Go(told, "ask", [NoLoop EXCEPT !.left = MaxSteps]) /\ Save(told)

\* Agent.run: a hook may refuse the prompt, and nothing is said then.
UserTurn ==
  /\ phase = "idle" /\ spent.turns < MaxTurns
  /\ spent' = [spent EXCEPT !.turns = @ + 1] /\ cancelled' = FALSE
  /\ \/ EndRun(UserTurnBegun(session), "failed")
     \/ Begin(UserTurnBegun(session))
  /\ UNCHANGED <<torn, saver>>

\* run_runtime_event: a run that has ended is continued by a run of its own.
\* Only a user turn clears the cancellation of the session.
RuntimeEvent ==
  /\ phase = "idle" /\ spent.turns < MaxTurns /\ session.runs # <<>>
  /\ spent' = [spent EXCEPT !.turns = @ + 1]
  /\ Begin(IF Running(session) THEN session ELSE RunBegun(session))
  /\ UNCHANGED <<cancelled, torn, saver>>

\* The head of _run_loop_impl: out of steps, cancelled, over the budget of
\* the context, or a request.
Ask ==
  /\ phase = "ask"
  /\ \/ loop.left = 0 /\ EndRun(session, "failed")
     \/ loop.left > 0 /\ cancelled /\ EndRun(session, "cancelled")
     \/ loop.left > 0 /\ ~cancelled /\ EndRun(session, "failed")
     \/ /\ loop.left > 0 /\ ~cancelled
        /\ Go(session, "asked", [loop EXCEPT !.left = @ - 1]) /\ UNCHANGED disk
  /\ UNCHANGED <<cancelled, torn, saver, spent>>

\* The request fails, or its stream is stopped before it has said anything.
RequestFails ==
  /\ phase = "asked"
  /\ EndRun(session, IF cancelled THEN "cancelled" ELSE "failed")
  /\ UNCHANGED <<cancelled, torn, saver, spent>>

\* parse_turn: ids must be new, or the answer is none.
Reply(route, calls) ==
  IF route = "tool_calls" /\ \E c \in ToSet(calls) : c \in DOMAIN session.executions
  THEN [route |-> "invalid", calls |-> <<>>]
  ELSE [route |-> route, calls |-> IF route = "tool_calls" THEN calls ELSE <<>>]

\* An answer that can be used clears the count of those that could not.
Respond ==
  /\ phase = "asked"
  /\ \E route \in Routes, calls \in CallSets :
       /\ route = "partial" => cancelled
       /\ LET r == Reply(route, SetToSeq(calls)) IN
          Go(Spoken(session, r), IF r.route = "tool_calls" THEN "calls" ELSE "turn",
             [loop EXCEPT !.reply = r,
                          !.invalid = IF r.route = "invalid" THEN @ + 1 ELSE 0])
  /\ UNCHANGED <<cancelled, disk, torn, saver, spent>>

RecordCalls ==
  /\ phase = "calls" /\ Go(Pending(session, loop.reply), "turn", loop)
  /\ UNCHANGED <<cancelled, disk, torn, saver, spent>>

RecordTurn ==
  /\ phase = "turn" /\ Go(Noted(session, loop.reply), "recorded", loop)
  /\ UNCHANGED <<cancelled, disk, torn, saver, spent>>

Recorded(route) == phase = "recorded" /\ ~cancelled /\ loop.reply.route = route

\* After an answer is recorded, a cancellation comes before all else; calls
\* that will not be made are answered once the run is marked.
Stopped ==
  /\ phase = "recorded" /\ cancelled
  /\ LET over == Finished(session, "cancelled") IN
     /\ IF loop.reply.route = "tool_calls" THEN Go(over, "closing", loop)
        ELSE Go(over, "idle", NoLoop)
     /\ Save(over)
  /\ UNCHANGED <<cancelled, torn, saver, spent>>

CloseCalls ==
  /\ phase = "closing"
  /\ LET s == Closed(session, loop.reply.calls) IN Go(s, "idle", NoLoop) /\ Save(s)
  /\ UNCHANGED <<cancelled, torn, saver, spent>>

InvalidTurn ==
  /\ Recorded("invalid")
  /\ \/ loop.invalid >= MaxStrikes /\ EndRun(session, "failed")
     \/ loop.invalid < MaxStrikes /\ Retry(session, loop, loop.invalid)
  /\ UNCHANGED <<cancelled, torn, saver, spent>>

\* handle_tool_calls_turn: the pending calls are saved before they are made.
StartTools ==
  /\ Recorded("tool_calls") /\ Go(session, "tools", loop) /\ Save(session)
  /\ UNCHANGED <<cancelled, torn, saver, spent>>

PlansAfter(plan) == IF plan = "none" THEN {"none", "open"} ELSE {"open", "done"}

\* Results come in the order of the calls; one whose outcome could not be
\* recorded ends the run.
EndTools ==
  /\ phase = "tools"
  /\ \E plan \in PlansAfter(session.plan) :
       LET s == [Closed(session, loop.reply.calls) EXCEPT !.plan = plan] IN
       \/ Go(s, "ask", [loop EXCEPT !.reply = NoReply]) /\ Save(s)
       \/ EndRun(s, "failed")
  /\ UNCHANGED <<cancelled, torn, saver, spent>>

\* handle_final_turn: verified, or sent back; a file that a call of this turn
\* has written may be missing.
Reject ==
  /\ Recorded("final")
  /\ \/ Unfinished(session)
     \/ \E c \in DOMAIN session.executions : session.executions[c].step > session.start
  /\ Retry(session, [loop EXCEPT !.verifier = @ + 1], loop.verifier + 1)
  /\ UNCHANGED <<cancelled, torn, saver, spent>>

Approve ==
  /\ Recorded("final") /\ ~Unfinished(session)
  /\ LET s == Completed(session) IN
     Go(s, "stopping", [loop EXCEPT !.verifier = 0]) /\ Save(s)
  /\ UNCHANGED <<cancelled, torn, saver, spent>>

\* The hooks of agent_stop have the last word.
HookAccepts ==
  /\ phase = "stopping" /\ Go(session, "idle", NoLoop) /\ Save(session)
  /\ UNCHANGED <<cancelled, torn, saver, spent>>

HookRefuses ==
  /\ phase = "stopping"
  /\ Retry(Reopened(session), [loop EXCEPT !.hook = @ + 1], loop.hook + 1)
  /\ UNCHANGED <<cancelled, torn, saver, spent>>

Cancel ==
  /\ phase \in {"ask", "asked", "calls", "turn", "recorded", "tools", "stopping"}
  /\ ~cancelled /\ spent.faults < MaxFaults
  /\ cancelled' = TRUE /\ spent' = [spent EXCEPT !.faults = @ + 1]
  /\ UNCHANGED <<session, phase, loop, disk, torn, saver>>

-----------------------------------------------------------------------------
\* The saves of background agents, which an earlier call has started

OthersSave ==
  /\ saver = None /\ phase \notin {"dead", "loaded", "lost"}
  /\ \E c \in DOMAIN session.executions : session.executions[c].ended
  /\ spent.faults < MaxFaults /\ spent' = [spent EXCEPT !.faults = @ + 1]
  /\ saver' = [part |-> "messages", messages |-> session.messages, turns |-> <<>>]
  /\ UNCHANGED <<session, phase, loop, cancelled, disk, torn>>

OthersSaveTurns ==
  /\ saver # None /\ saver.part = "messages"
  /\ saver' = [saver EXCEPT !.part = "turns", !.turns = session.turns]
  /\ UNCHANGED <<session, phase, loop, cancelled, disk, spent, torn>>

OthersSaveRest ==
  /\ saver # None /\ saver.part = "turns"
  /\ disk' = [session |-> [session EXCEPT !.messages = saver.messages, !.turns = saver.turns],
              torn |-> \/ torn \/ phase \in {"calls", "turn"}
                       \/ saver.messages # session.messages
                       \/ saver.turns # session.turns]
  /\ saver' = None
  /\ UNCHANGED <<session, phase, loop, cancelled, spent, torn>>

-----------------------------------------------------------------------------
\* Death and resumption

Crash ==
  /\ phase \notin {"dead", "lost"} /\ disk # None
  /\ spent.faults < MaxFaults /\ spent' = [spent EXCEPT !.faults = @ + 1]
  /\ Go(Empty, "dead", NoLoop) /\ cancelled' = FALSE /\ saver' = None /\ torn' = FALSE
  /\ UNCHANGED disk

Load ==
  /\ phase = "dead"
  /\ IF Loadable(disk.session) THEN Go(Recovered(disk.session), "loaded", NoLoop)
     ELSE Go(Empty, "lost", NoLoop)
  /\ torn' = disk.torn
  /\ UNCHANGED <<cancelled, disk, saver, spent>>

\* _settle_resumed_run: a run that was left running is marked, and the next
\* message is the user's ...
Settle ==
  /\ phase = "loaded"
  /\ IF Running(session) THEN EndRun(session, "interrupted")
     ELSE Go(session, "idle", NoLoop) /\ UNCHANGED disk
  /\ UNCHANGED <<cancelled, saver, spent, torn>>

\* ... or, where a host asks for it, is continued, unless its turn was
\* committed before.
Continue ==
  /\ phase = "loaded" /\ Running(session)
  /\ IF session.turn \in session.committed
     THEN EndRun(session, "completed")
     ELSE /\ Go(session, "ask", [NoLoop EXCEPT !.left = MaxSteps])
          /\ Save(session)
  /\ UNCHANGED <<cancelled, saver, spent, torn>>

Next ==
  \/ UserTurn \/ RuntimeEvent \/ Ask \/ RequestFails \/ Respond
  \/ RecordCalls \/ RecordTurn \/ Stopped \/ CloseCalls \/ InvalidTurn
  \/ StartTools \/ EndTools \/ Reject \/ Approve \/ HookAccepts \/ HookRefuses
  \/ Cancel \/ OthersSave \/ OthersSaveTurns \/ OthersSaveRest
  \/ Crash \/ Load \/ Settle \/ Continue

Spec == Init /\ [][Next]_vars

-----------------------------------------------------------------------------
TypeOK ==
  /\ DOMAIN session = DOMAIN Empty
  /\ \A i \in DOMAIN session.messages :
       /\ session.messages[i].role \in {"user", "assistant", "tool"}
       /\ ToSet(session.messages[i].calls) \subseteq Calls
  /\ DOMAIN session.executions \subseteq Calls
  /\ ToSet(session.runs) \subseteq Statuses
  /\ session.plan \in {"none", "open", "done"}
  /\ phase \in Phases /\ cancelled \in BOOLEAN
  /\ loop.left \in 0 .. MaxSteps
  /\ {loop.invalid, loop.verifier, loop.hook} \subseteq 0 .. MaxStrikes
  /\ loop.reply.route \in Routes \union {"none"}
  /\ \/ disk = None
     \/ DOMAIN disk.session = DOMAIN Empty /\ disk.torn \in BOOLEAN
  /\ torn \in BOOLEAN
  /\ saver = None \/ DOMAIN saver = {"part", "messages", "turns"}

\* The calls of an assistant message are answered right behind it, each once,
\* and nothing else is an answer.
Paired(messages) ==
  LET answers(i) == {j \in i + 1 .. Len(messages) :
                       /\ j <= i + Len(messages[i].calls)
                       /\ messages[j].role = "tool"}
      asking == {i \in DOMAIN messages : messages[i].role = "assistant"}
  IN  /\ \A i \in asking :
           {messages[j].calls : j \in answers(i)} = {<<c>> : c \in ToSet(messages[i].calls)}
      /\ \A j \in DOMAIN messages :
           messages[j].role = "tool" => \E i \in asking : j \in answers(i)

\* No request shows the model, or its provider, a call without its result,
\* whatever happened to the turns before it: cancelled between an answer and
\* its calls, sent back, interrupted by the end of the process
\* (handle_tool_calls_turn, recover_interrupted_tool_calls).
RequestsArePaired == phase = "asked" /\ ~torn => Paired(session.messages)

\* It passes the checks of links.py, and what is made of it can be continued.
Opens(checkpoint) ==
  Loadable(checkpoint) /\ Paired(Recovered(checkpoint).messages)

\* A session that was saved while nothing was recorded, by its own thread or
\* by another, can be opened again after a death at any moment.
WholeCheckpointLoads == disk # None /\ ~disk.torn => Opens(disk.session)

\* The same of every checkpoint.  The save of a background agent reads messages,
\* turns and executions one after the other while the root agent adds to them.
CheckpointLoads == disk # None => Opens(disk.session)

=============================================================================

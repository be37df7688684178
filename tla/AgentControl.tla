------------------------------ MODULE AgentControl ------------------------------
(***************************************************************************)
(* The control plane of the agent tree (domain/model/agent/control.py) with *)
(* the agents it accounts for: children spawned by spawn_agent              *)
(* (application/agent/subagent.py), in the parent's tool call or in the     *)
(* background (application/agent/background.py), their rounds of model      *)
(* calls (application/agent/runner.py), deadlines, cancellations, pruning,  *)
(* and the restart of the process from a checkpoint.                        *)
(*                                                                          *)
(* The root agent is not a task: it spawns while its turn is busy.  A model *)
(* call costs one step and one token.  Identifiers are the counter values;  *)
(* parent 0 is the root agent.                                              *)
(***************************************************************************)
EXTENDS Naturals, FiniteSets, FiniteSetsExt

CONSTANTS
  MaxIds,        \* bound on tasks ever begun
  MaxFaults,     \* bound on what goes wrong or is cancelled
  MaxBatch,      \* bound on spawn_agent calls of one response
  Configs,       \* AgentControlConfig, child_max_steps and a bound on root turns
  MaxWorkers     \* threads of AgentBackgroundRuntime

ASSUME ControlAssumption ==
  /\ {MaxIds, MaxBatch, MaxWorkers} \subseteq Nat \ {0} /\ MaxFaults \in Nat
  /\ Configs \subseteq [depth : Nat \ {0}, children : Nat \ {0}, per_turn : Nat \ {0},
                         stored : Nat \ {0}, concurrent : Nat \ {0}, steps : Nat \ {0},
                         tokens : Nat \ {0}, requested : Nat \ {0}, turns : Nat]

VARIABLES
  config,     \* the limits of the plane
  task,       \* _tasks: the record of each identifier
  counter,    \* _counter
  turn,       \* the current root turn
  root,       \* "busy" while the root agent runs
  stopped,    \* the cancellation event of the root agent
  agent,      \* where the thread of a child agent is
  todo,       \* spawn_agent calls left in the batch of a child agent
  steps,      \* step_count of the session of a child agent
  verdict,    \* what a child agent is going to report
  deadline,   \* spawn_agent calls whose deadline has passed
  background, \* tasks that run in the background
  told,       \* tasks whose TASK_DONE has been put into the event queue
  heard,      \* those of them the root agent has been told of
  pool,       \* the background executor
  faults      \* number of faults, cancellations, deadlines and restarts

planeVars == <<config, task, counter>>
rootVars  == <<turn, root, stopped>>
agentVars == <<agent, todo, steps, verdict, deadline, background>>
restVars  == <<told, heard, pool, faults>>
vars      == <<planeVars, rootVars, agentVars, restVars>>

Ids      == 1..MaxIds
Terminal == {"completed", "failed", "cancelled", "timed_out"}

TaskRecord ==
  [status : Terminal \cup {"none", "running"}, turn : 0..config.turns, parent : 0..MaxIds,
   depth : 0..config.depth, budget : 0..config.steps, used : 0..config.steps,
   tokens : 0..config.steps,
   cancel : BOOLEAN, children : SUBSET Ids]

NoTask ==
  [status |-> "none", turn |-> 0, parent |-> 0, depth |-> 0, budget |-> 0, used |-> 0,
   tokens |-> 0, cancel |-> FALSE, children |-> {}]

TypeOK ==
  /\ config \in Configs /\ task \in [Ids -> TaskRecord] /\ counter \in 0..MaxIds
  /\ turn \in 0..config.turns /\ root \in {"idle", "busy"} /\ stopped \in BOOLEAN
  /\ agent \in [Ids -> {"none", "assemble", "queued", "model", "llm", "reply", "tools",
                        "over", "callback", "gone"}]
  /\ todo \in [Ids -> 0..MaxBatch] /\ steps \in [Ids -> 0..config.steps]
  /\ verdict \in [Ids -> {"none", "answered", "unanswered", "raised", "dropped"}]
  /\ deadline \subseteq Ids /\ background \subseteq Ids
  /\ told \subseteq background /\ heard \subseteq told
  /\ pool \in {"open", "closing", "closed"} /\ faults \in 0..MaxFaults

Init ==
  /\ config \in Configs
  /\ task = [t \in Ids |-> NoTask] /\ counter = 0
  /\ turn = 0 /\ root = "idle" /\ stopped = FALSE
  /\ agent = [t \in Ids |-> "none"]
  /\ todo = [t \in Ids |-> 0] /\ steps = [t \in Ids |-> 0]
  /\ verdict = [t \in Ids |-> "none"]
  /\ deadline = {} /\ background = {} /\ told = {} /\ heard = {}
  /\ pool = "open" /\ faults = 0

-----------------------------------------------------------------------------
(* The plane: what its methods compute under its lock                      *)

Stored       == {t \in Ids : task[t].status # "none"}
Live         == {t \in Ids : task[t].status = "running"}
TurnTasks(u) == {t \in Stored : task[t].turn = u}
Tokens(u)    == SumFunctionOnSet([t \in Ids |-> task[t].tokens], TurnTasks(u))

\* What a task takes of the steps of its turn: an ended one what it has used, a
\* live one what is reserved for it.
Taken(t) == IF task[t].status \in Terminal THEN task[t].used ELSE task[t].budget

Committed(u) == SumFunctionOnSet([t \in Ids |-> Taken(t)], TurnTasks(u))

\* A task and its descendants, by the lists of children.
Subtree(t) ==
  LET below[n \in 0..config.depth] ==
        IF n = 0 THEN {t}
        ELSE below[n - 1] \cup UNION {task[s].children : s \in below[n - 1]}
  IN  below[config.depth]

\* _request_cancel_subtree_unlocked, of several tasks at once.
Flagged(roots) ==
  LET hit == Live \cap UNION {Subtree(t) : t \in roots}
  IN  [t \in Ids |-> IF t \in hit THEN [task[t] EXCEPT !.cancel = TRUE] ELSE task[t]]

\* is_cancelled, for every task: its flag or one of its ancestors'.
IsCancelled[t \in 0..MaxIds] ==
  t \in Stored /\ (task[t].cancel \/ IsCancelled[task[t].parent])

\* Mutant of Pruned: ended tasks are dropped one by one, not turn by turn.
PrunedOneByOne(u) ==
  LET old == {t \in Stored : task[t].turn # u /\ task[t].status \in Terminal}
  IN  {t \in old : Cardinality({s \in old : s < t})
                     < Cardinality(Stored) + 1 - config.stored}

\* _prune_history_unlocked: the oldest turns all of whose tasks have ended, until
\* there is room for one more task.
Pruned(u) ==
  LET old == {t \in Stored : task[t].turn # u /\ TurnTasks(task[t].turn) \cap Live = {}}
  IN  {t \in old : Cardinality({s \in old : task[s].turn < task[t].turn})
                     < Cardinality(Stored) + 1 - config.stored}

\* The checks of begin_task for a child of p in turn u, after the pruning.
HasRoom(p, u) ==
  /\ Cardinality(Stored \ Pruned(u)) < config.stored
  /\ Cardinality(TurnTasks(u)) < config.per_turn
  /\ Cardinality({t \in TurnTasks(u) : task[t].parent = p}) < config.children
  /\ p # 0 => p \in Live
  /\ Committed(u) < config.steps

\* Mutant of Allocation: what live tasks have reserved is not counted.
AllocationOfUsed(u) ==
  Min({config.requested,
       config.steps - SumFunctionOnSet([t \in Ids |-> task[t].used], TurnTasks(u))})

Allocation(u) == Min({config.requested, config.steps - Committed(u)})

\* The record begin_task makes: running, or failed at once when too many run.
NewTask(p, u) ==
  LET fits == Cardinality(Live) < config.concurrent
  IN  [NoTask EXCEPT !.status = IF fits THEN "running" ELSE "failed",
                     !.turn = u, !.parent = p,
                     !.depth = IF p = 0 THEN 1 ELSE task[p].depth + 1,
                     !.budget = IF fits THEN Allocation(u) ELSE 0]

\* finish_task: the first end of a task counts.
Settled(table, t, status, used) ==
  IF t \in Live
  THEN [table EXCEPT ![t].status = status,
                     ![t].used = Min({used, table[t].budget}),
                     ![t].cancel = @ \/ status \in {"cancelled", "timed_out"}]
  ELSE table

\* from_snapshot with mark_interrupted.
Interrupted ==
  [t \in Ids |-> IF t \in Live THEN [task[t] EXCEPT !.status = "failed", !.cancel = TRUE]
                                ELSE task[t]]

-----------------------------------------------------------------------------
(* Who is cancelled                                                        *)

\* runtime.is_cancelled of the spawn_agent call: its deadline, or the check of
\* the agent that made the call; the check of a child asks the plane as well.
CallCancelled[t \in 0..MaxIds] ==
  IF t = 0 THEN stopped
  ELSE \/ t \in deadline
       \/ CallCancelled[task[t].parent]
       \/ task[t].parent # 0 /\ IsCancelled[task[t].parent]

SeesCancel(t) == CallCancelled[t] \/ IsCancelled[t]

\* The tasks for which request_cancel is called when t looks: cancelled() of t
\* asks its call, which asks cancelled() of the parent unless the deadline passed.
Requests[t \in 0..MaxIds] ==
  IF t = 0 \/ ~CallCancelled[t] THEN {}
  ELSE {t} \cup (IF t \in deadline THEN {} ELSE Requests[task[t].parent])

-----------------------------------------------------------------------------
(* The root agent                                                          *)

UserTurn ==
  /\ root = "idle" /\ turn < config.turns /\ pool = "open"
  /\ turn' = turn + 1 /\ root' = "busy" /\ stopped' = FALSE
  /\ UNCHANGED <<planeVars, agentVars, restVars>>

\* A TASK_DONE is consumed: the root agent goes on in the turn it was in.
RuntimeEvent(t) ==
  /\ root = "idle" /\ pool = "open" /\ t \in told \ heard
  /\ heard' = heard \cup {t}
  /\ root' = IF task[t] = NoTask THEN "idle" ELSE "busy"
  /\ UNCHANGED <<planeVars, turn, stopped, agentVars, told, pool, faults>>

StopRoot ==
  /\ root = "busy" /\ ~stopped
  /\ stopped' = TRUE
  /\ UNCHANGED <<planeVars, turn, root, agentVars, told, heard, pool>>

\* The tool calls an agent waits for: a call in the background returns once the
\* child is submitted.
Waits(p) ==
  {t \in Stored : /\ task[t].parent = p
                  /\ agent[t] \notin {"none", "gone"}
                  /\ t \in background => agent[t] = "assemble"}

RootEnds ==
  /\ root = "busy" /\ Waits(0) = {}
  /\ root' = "idle"
  /\ UNCHANGED <<planeVars, turn, stopped, agentVars, restVars>>

-----------------------------------------------------------------------------
(* spawn_agent                                                             *)

\* begin_task for a child of p, whose thread goes on if the task is running.
Begin(p, u) ==
  LET t == counter + 1
      kept == [s \in Ids |-> IF s \in Pruned(u) THEN NoTask ELSE task[s]]
  IN  /\ t \in Ids
      /\ IF HasRoom(p, u)
         THEN /\ task' = [s \in Ids |->
                            CASE s = t -> NewTask(p, u)
                              [] s = p -> [kept[p] EXCEPT !.children = @ \cup {t}]
                              [] OTHER -> kept[s]]
              /\ counter' = t
              /\ agent' = [agent EXCEPT ![t] = IF task'[t].status = "running"
                                               THEN "assemble" ELSE "gone"]
         ELSE task' = kept /\ UNCHANGED <<counter, agent>>
      /\ UNCHANGED config

\* Mutant of SpawnChild: a child waits until a slot is free instead of failing.
SpawnChildWhenFree(p) ==
  /\ agent[p] = "tools" /\ todo[p] > 0 /\ Cardinality(Live) < config.concurrent
  /\ Begin(p, task[p].turn)
  /\ todo' = [todo EXCEPT ![p] = @ - 1]
  /\ UNCHANGED <<rootVars, steps, verdict, deadline, background, restVars>>

\* A child agent spawns in its tool call; it has the tool above config.depth only.
SpawnChild(p) ==
  /\ agent[p] = "tools" /\ todo[p] > 0
  /\ Begin(p, task[p].turn)
  /\ todo' = [todo EXCEPT ![p] = @ - 1]
  /\ UNCHANGED <<rootVars, steps, verdict, deadline, background, restVars>>

\* The call is not made: its preparation sees the cancellation (or MaxIds is used up).
SkipCall(p) ==
  /\ agent[p] = "tools" /\ todo[p] > 0
  /\ SeesCancel(p) \/ counter = MaxIds
  /\ task' = Flagged(Requests[p])
  /\ todo' = [todo EXCEPT ![p] = @ - 1]
  /\ UNCHANGED <<config, counter, rootVars, agent, steps, verdict, deadline, background,
                 restVars>>

\* The root agent spawns, in its tool call or in the background.
SpawnFromRoot(in_background) ==
  /\ root = "busy"
  /\ Begin(0, turn)
  /\ background' = IF in_background /\ counter' # counter /\ agent'[counter'] = "assemble"
                   THEN background \cup {counter'} ELSE background
  /\ UNCHANGED <<rootVars, todo, steps, verdict, deadline, restVars>>

\* The child session is assembled: run it here, or submit it.
Assemble(t) ==
  /\ agent[t] = "assemble"
  /\ agent' = [agent EXCEPT ![t] = IF t \in background THEN "queued" ELSE "model"]
  /\ UNCHANGED <<planeVars, rootVars, todo, steps, verdict, deadline, background, restVars>>

\* spawn_agent returns or raises before there is a thread for the child.
NotStarted(t) ==
  /\ agent[t] = "assemble"
  /\ agent' = [agent EXCEPT ![t] = "gone"]
  /\ deadline' = deadline \ {t} /\ background' = background \ {t}
  /\ UNCHANGED <<config, counter, rootVars, todo, steps, told, heard, pool>>

\* The cwd of the child cannot be set, or there is no journal or executor for it.
AssemblyFails(t) ==
  /\ task' = Settled(task, t, "failed", 0)
  /\ NotStarted(t) /\ UNCHANGED verdict

\* Anything else between begin_task and run_child raises: the executor makes a
\* failed result of it and the task stays running.
AssemblyRaises(t) ==
  /\ verdict' = [verdict EXCEPT ![t] = "raised"]
  /\ NotStarted(t) /\ UNCHANGED task

\* The deadline of the spawn_agent call; a call in the background is over soon.
Deadline(t) ==
  /\ agent[t] \in {"assemble", "model", "llm", "reply", "tools"}
  /\ t \notin background \cup deadline
  /\ deadline' = deadline \cup {t}
  /\ UNCHANGED <<planeVars, rootVars, agent, todo, steps, verdict, background, told, heard,
                 pool>>

-----------------------------------------------------------------------------
(* The child agent: Agent.run                                              *)

Working == {t \in background : agent[t] \in {"model", "llm", "reply", "tools", "over",
                                            "callback"}}

StartWorker(t) ==
  /\ agent[t] = "queued" /\ Cardinality(Working) < MaxWorkers
  /\ agent' = [agent EXCEPT ![t] = "model"]
  /\ UNCHANGED <<planeVars, rootVars, todo, steps, verdict, deadline, background, restVars>>

\* Mutant of StartRound: the round begins without a look at the cancellation.
StartRoundUnasked(t) ==
  /\ agent[t] \in {"model", "reply"} /\ steps[t] < task[t].budget
  /\ agent' = [agent EXCEPT ![t] = "llm"]
  /\ UNCHANGED <<planeVars, rootVars, todo, steps, verdict, deadline, background, restVars>>

\* A round of the loop: the request to the model.
StartRound(t) ==
  /\ agent[t] \in {"model", "reply"} /\ steps[t] < task[t].budget
  /\ ~SeesCancel(t)
  /\ agent' = [agent EXCEPT ![t] = "llm"]
  /\ UNCHANGED <<planeVars, rootVars, todo, steps, verdict, deadline, background, restVars>>

\* add_usage: at the limit every live task of the turn is cancelled.
Charged(t) ==
  LET more == [task EXCEPT ![t].tokens = @ + 1]
  IN  IF Tokens(task[t].turn) + 1 >= config.tokens
      THEN [s \in Ids |-> IF s \in Live /\ task[s].turn = task[t].turn
                          THEN [more[s] EXCEPT !.cancel = TRUE] ELSE more[s]]
      ELSE more

\* The response is complete: its turn is recorded and its usage charged.
EndRound(t) ==
  /\ agent[t] = "llm"
  /\ task' = Charged(t) /\ agent' = [agent EXCEPT ![t] = "reply"]
  /\ steps' = [steps EXCEPT ![t] = @ + 1]
  /\ UNCHANGED <<config, counter, rootVars, todo, verdict, deadline, background, restVars>>

\* The response asks for children, as many at once as the batch allows.
CallTools(t, n) ==
  /\ agent[t] = "reply" /\ ~SeesCancel(t)
  /\ task[t].depth < config.depth
  /\ agent' = [agent EXCEPT ![t] = "tools"] /\ todo' = [todo EXCEPT ![t] = n]
  /\ UNCHANGED <<planeVars, rootVars, steps, verdict, deadline, background, restVars>>

EndTools(t) ==
  /\ agent[t] = "tools" /\ todo[t] = 0 /\ Waits(t) = {}
  /\ agent' = [agent EXCEPT ![t] = "model"]
  /\ UNCHANGED <<planeVars, rootVars, todo, steps, verdict, deadline, background, restVars>>

Over(t, answer) ==
  /\ agent' = [agent EXCEPT ![t] = "over"] /\ verdict' = [verdict EXCEPT ![t] = answer]
  /\ UNCHANGED <<config, counter, rootVars, todo, deadline, background, restVars>>

Answer(t) ==
  /\ agent[t] = "reply" /\ ~SeesCancel(t)
  /\ Over(t, "answered") /\ UNCHANGED <<task, steps>>

\* The steps are used up, or the answers of the model were refused.
GiveUp(t) ==
  /\ agent[t] \in {"model", "reply"}
  /\ Over(t, "unanswered") /\ UNCHANGED <<task, steps>>

\* The request to the model fails, perhaps after its usage has arrived: the round
\* leaves no turn behind.
RequestFails(t) ==
  /\ agent[t] = "llm"
  /\ task' \in {task, Charged(t)}
  /\ Over(t, "unanswered") /\ UNCHANGED steps

\* _stop_if_cancelled between two rounds.
StopIfCancelled(t) ==
  /\ agent[t] \in {"model", "reply"} /\ SeesCancel(t)
  /\ task' = Flagged(Requests[t])
  /\ Over(t, "unanswered") /\ UNCHANGED steps

\* The response is cut off: what had arrived of it, if anything, is one more turn.
StopStreaming(t) ==
  /\ agent[t] = "llm" /\ SeesCancel(t)
  /\ task' = Flagged(Requests[t])
  /\ Over(t, "unanswered") /\ steps' \in {steps, [steps EXCEPT ![t] = @ + 1]}

\* The thread of a task leaves run_child, and with it its deadline.
Left(t, report) ==
  /\ agent' = [agent EXCEPT ![t] = IF t \in background THEN "callback" ELSE "gone"]
  /\ verdict' = [verdict EXCEPT ![t] = report]
  /\ deadline' = deadline \ {t}

\* The run has returned: run_child looks at the reasons once more, finish_task.
Finish(t) ==
  /\ agent[t] = "over"
  /\ LET status == IF t \in deadline THEN "timed_out"
                   ELSE IF SeesCancel(t) THEN "cancelled"
                   ELSE IF verdict[t] = "answered" THEN "completed" ELSE "failed"
         asked == IF t \in deadline THEN {} ELSE Requests[task[t].parent]
     IN  task' = Settled(Flagged(asked), t, status, steps[t])
  /\ Left(t, "none")
  /\ UNCHANGED <<config, counter, rootVars, todo, steps, background, restVars>>

\* The commands of the child cannot be closed: run_child raises before finish_task.
BodyRaises(t) ==
  /\ agent[t] = "over"
  /\ Left(t, "raised")
  /\ UNCHANGED <<planeVars, rootVars, todo, steps, background, told, heard, pool>>

-----------------------------------------------------------------------------
(* AgentBackgroundRuntime                                                  *)

\* The task is announced if the plane still knows it and it has ended.
Leave(t) ==
  /\ agent[t] = "callback"
  /\ agent' = [agent EXCEPT ![t] = "gone"]
  /\ told' = IF task'[t].status \in Terminal THEN told \cup {t} ELSE told
  /\ UNCHANGED <<config, counter, rootVars, todo, steps, verdict, deadline, background, heard,
                 pool, faults>>

\* done: the task is settled if run_child could not.
Callback(t) ==
  /\ task' = CASE verdict[t] = "dropped" -> Settled(task, t, "cancelled", 0)
               [] verdict[t] = "raised"  -> Settled(task, t, "failed", 0)
               [] OTHER -> task
  /\ Leave(t)

\* shutdown: no submission any more, then everything live is cancelled and what
\* no worker has taken is dropped.
Shutdown ==
  /\ root = "idle" /\ pool = "open"
  /\ pool' = "closing"
  /\ UNCHANGED <<planeVars, rootVars, agentVars, told, heard, faults>>

ShutdownCancels ==
  /\ pool = "closing"
  /\ pool' = "closed"
  /\ task' = Flagged(Live)
  /\ agent' = [t \in Ids |-> IF agent[t] = "queued" THEN "callback" ELSE agent[t]]
  /\ verdict' = [t \in Ids |-> IF agent[t] = "queued" THEN "dropped" ELSE verdict[t]]
  /\ UNCHANGED <<config, counter, rootVars, todo, steps, deadline, background, told,
                 heard, faults>>

-----------------------------------------------------------------------------
(* The checkpoint                                                          *)

\* The process dies; the session is loaded from its checkpoint, which _on_change
\* writes after each change, and the turn is resumed or left.
Restart ==
  /\ task' = Interrupted /\ UNCHANGED <<config, counter>>
  /\ root' \in {"idle", root} /\ stopped' = FALSE
  /\ agent' = [t \in Ids |-> "none"]
  /\ todo' = [t \in Ids |-> 0] /\ steps' = [t \in Ids |-> 0]
  /\ verdict' = [t \in Ids |-> "none"]
  /\ deadline' = {} /\ background' = {} /\ told' = {} /\ heard' = {} /\ pool' = "open"
  /\ UNCHANGED turn

-----------------------------------------------------------------------------
AgentStep(t) ==
  \/ SpawnChild(t) \/ SkipCall(t) \/ Assemble(t)
  \/ StartWorker(t) \/ StartRound(t) \/ EndRound(t)
  \/ \E n \in 1..MaxBatch : CallTools(t, n)
  \/ EndTools(t) \/ Answer(t) \/ GiveUp(t) \/ RequestFails(t)
  \/ StopIfCancelled(t) \/ StopStreaming(t) \/ Finish(t)
  \/ Callback(t)

\* cancel_agent, called by the root agent.
RequestCancel(t) ==
  /\ root = "busy" /\ t \in Live /\ ~task[t].cancel
  /\ task' = Flagged({t})
  /\ UNCHANGED <<config, counter, rootVars, agentVars, told, heard, pool>>

\* What the environment, the user or a clock does to a task.
Fault ==
  /\ faults < MaxFaults /\ faults' = faults + 1
  /\ \/ StopRoot \/ Restart
     \/ \E t \in Ids : \/ AssemblyFails(t) \/ AssemblyRaises(t) \/ BodyRaises(t)
                       \/ Deadline(t) \/ RequestCancel(t)

Next ==
  \/ UserTurn \/ RootEnds \/ Fault
  \/ \E in_background \in BOOLEAN : SpawnFromRoot(in_background)
  \/ \E t \in Ids : AgentStep(t) \/ RuntimeEvent(t)
  \/ Shutdown \/ ShutdownCancels

Spec == Init /\ [][Next]_vars

\* As long as some thread of an agent or of the executor can go on, one does; every
\* model call returns.  Nothing makes a user, the root agent or a deadline act.
FairSpec == Spec /\ WF_vars(\E t \in Ids : AgentStep(t))

-----------------------------------------------------------------------------
(* Properties                                                              *)

\* The rounds a child has recorded, and the one under way.
Rounds(t) == steps[t] + IF agent[t] = "llm" THEN 1 ELSE 0

\* The rounds that the children of a turn, concurrent and nested, have recorded or
\* have under way never exceed max_steps_per_turn: begin_task reserves under its lock
\* what siblings share.  (A worker that raised is settled with 0: background.py:52-61.)
StepsNeverOversold ==
  \A u \in 1..config.turns :
    SumFunctionOnSet([t \in Ids |-> Rounds(t)],
                     {t \in TurnTasks(u) : verdict[t] # "raised"}) <= config.steps

\* At the token limit of a turn every running task that has used any is
\* cancelled, whichever task reached the limit (add_usage).
ExhaustionStopsTheTurn ==
  \A t \in Live :
    task[t].tokens > 0 /\ Tokens(task[t].turn) >= config.tokens => task[t].cancel

\* A turn spends what it was given: its children's steps come out of one budget,
\* and no task that uses tokens goes on when they are used up.
BudgetsHold == StepsNeverOversold /\ ExhaustionStopsTheTurn

Ancestors[t \in 0..MaxIds] == IF t = 0 THEN {} ELSE {t} \cup Ancestors[task[t].parent]

\* No request to a model begins for an agent that is cancelled, whose ancestor is
\* cancelled or timed out, or whose root was stopped, even if it was spawned after.
NoWorkAfterCancel ==
  [][\A t \in Ids :
       agent[t] # "llm" /\ agent'[t] = "llm" =>
         /\ ~\E a \in Ancestors[t] : task[a].cancel \/ a \in deadline
         /\ ~stopped]_vars

\* _validate_tree_unlocked and the budget check of from_dict: whatever the plane
\* holds, a checkpoint written of it can be loaded again.
SnapshotLoads ==
  \A t \in Stored :
    /\ task[t].used <= task[t].budget
    /\ task[t].parent = 0 => task[t].depth = 1
    /\ task[t].parent # 0 =>
         task[t].parent \in Stored /\ t \in task[task[t].parent].children
    /\ \A c \in task[t].children :
         /\ c \in Stored /\ task[c].parent = t
         /\ task[c].turn = task[t].turn /\ task[c].depth = task[t].depth + 1

\* The thread of a task is gone, the task has ended unless the thread raised, and
\* the end of a background task is announced unless its turn was pruned.
Ended(t) ==
  /\ agent[t] = "gone"
  /\ task[t].status = "running" => verdict[t] = "raised"
  /\ t \in background => t \in told \/ task[t].status = "none"

\* Every task that begins ends and is announced, even when the parents that hold
\* the slots wait for their children (or the process restarts).
TasksEndAndTell ==
  \A t \in Ids : agent[t] = "assemble" ~> Ended(t) \/ agent[t] = "none"

=============================================================================

---------------------------- MODULE ApplicationHost ----------------------------
(***************************************************************************)
(* ApplicationHost (application/composition/host.py): the one owner of an  *)
(* execution directory.  It composes the schedulers of the source sessions *)
(* (scheduler.py), the launch of a run (scheduling/runner.py), the workers *)
(* (background.py) and the directory coordinator, while sessions are       *)
(* opened, runs are cancelled, interactive turns take the directory, and   *)
(* the host is closed, dies or is replaced.                                *)
(*                                                                         *)
(* The coordinator is taken at its word (DirectoryOccupancy: one occupancy *)
(* at a time, nobody starves) and so is the store (RunAtMostOnce); here a  *)
(* finished run may get any status the store may give it.  A launch is     *)
(* split where its thread can be overtaken: acquire, get_run, start_run,   *)
(* the assembly of the child session, background.submit.                   *)
(***************************************************************************)
EXTENDS Naturals, FiniteSets

CONSTANTS
  Runs,      \* run rows of the shared database
  Sessions,  \* source sessions
  SessionOf, \* the source session of each run
  MaxHosts,  \* bound on hosts that own the directory one after the other
  Free,      \* the directory is not occupied
  Turn,      \* occupied by an interactive turn
  NoRun

ASSUME HostAssumption ==
  /\ SessionOf \in [Runs -> Sessions]
  /\ MaxHosts \in Nat \ {0}
  /\ NoRun \notin Runs
  /\ Free # Turn /\ {Free, Turn} \cap ((1..MaxHosts) \X Runs) = {}

VARIABLES
  host,         \* number of the current host: its _host_id
  host_state,   \* _state
  stop,         \* _stop is set
  open,         \* _schedulers: source sessions that have a scheduler
  sched_closed, \* schedulers whose close() has begun
  hand,         \* the run a scheduler thread has claimed and not dispatched
  bg_closed,    \* AgentBackgroundRuntime._closed
  store_open,   \* the stores of the current host are open
  status,       \* durable_runs.status
  cancel,       \* rows with cancel_requested = 1
  launch,       \* the launch thread of a run, per host
  worker,       \* the background worker of a run, per host
  lease         \* who occupies the directory

hostVars   == <<host, host_state, stop, open, sched_closed, bg_closed, store_open>>
rowVars    == <<status, cancel>>
threadVars == <<hand, launch, worker>>
vars       == <<hostVars, rowVars, threadVars, lease>>

Hosts    == 1..MaxHosts
Terminal == {"completed", "failed", "cancelled", "unknown"}
Waiting  == {"queued", "waiting_retry"}
Active   == {"dispatched", "running"}

TypeOK ==
  /\ host \in Hosts
  /\ host_state \in {"new", "running", "closing", "closed"}
  /\ stop \in BOOLEAN /\ bg_closed \in BOOLEAN /\ store_open \in BOOLEAN
  /\ open \subseteq Sessions /\ sched_closed \subseteq Sessions
  /\ hand \in [Sessions -> Runs \cup {NoRun}]
  /\ status \in [Runs -> Terminal \cup Waiting \cup Active]
  /\ cancel \subseteq Runs
  /\ launch \in [Hosts \X Runs -> {"none", "acquiring", "read", "start", "assemble"}]
  /\ worker \in [Hosts \X Runs -> {"none", "agent", "commit"}]
  /\ lease \in {Free, Turn} \cup (Hosts \X Runs)

Init ==
  /\ host = 1 /\ host_state = "new"
  /\ stop = FALSE /\ bg_closed = FALSE /\ store_open = TRUE
  /\ open = {} /\ sched_closed = {}
  /\ hand = [s \in Sessions |-> NoRun]
  /\ status = [r \in Runs |-> "queued"]
  /\ cancel = {}
  /\ launch = [t \in Hosts \X Runs |-> "none"]
  /\ worker = [t \in Hosts \X Runs |-> "none"]
  /\ lease = Free

-----------------------------------------------------------------------------
\* An older host of this process has closed its stores and set its _stop.
StoreOpen(h) == h = host /\ store_open
Stopped(h)   == h < host \/ stop

\* _active_runs: the rows that occupy the slot, over all open schedulers.
ActiveRuns == {r \in Runs : SessionOf[r] \in open /\ status[r] \in Active}

\* recover_interrupted of one source session.
Recovered(s, row, r) ==
  IF SessionOf[r] # s THEN row = status[r]
  ELSE CASE status[r] = "dispatched" -> row = "queued"
         [] status[r] = "running" -> row \in {"waiting_retry", "unknown"}
         [] OTHER -> row = status[r]

\* What finish_run may write for a worker or a launch that reports an outcome.
Finished(r, reported) ==
  IF r \in cancel THEN {"cancelled"}
  ELSE {reported} \cup (IF reported = "failed" THEN {"waiting_retry"} ELSE {})

-----------------------------------------------------------------------------
(* Life of the host                                                        *)

\* start(): the project lock, then every scheduler recovers its session, all
\* under _lock.  A host that cannot get the project lock never gets here.
StartHost(s) ==
  /\ host_state = "new"
  /\ host_state' = "running"
  /\ open' = {s}
  /\ status' \in [Runs -> Terminal \cup Waiting \cup Active]
  /\ \A r \in Runs : Recovered(s, status'[r], r)
  /\ UNCHANGED <<host, stop, sched_closed, bg_closed, store_open, cancel, threadVars, lease>>

\* scheduler_for(): another source session is opened on the running host; one
\* that is open already keeps its scheduler.
OpenSession(s) ==
  /\ host_state = "running" /\ s \notin open
  /\ open' = open \cup {s}
  /\ status' \in [Runs -> Terminal \cup Waiting \cup Active]
  /\ \A r \in Runs : Recovered(s, status'[r], r)
  /\ UNCHANGED <<host, host_state, stop, sched_closed, bg_closed, store_open, cancel,
                 threadVars, lease>>

\* close() up to and including the change of _state.
BeginClose ==
  /\ host_state = "running"
  /\ stop' = TRUE /\ host_state' = "closing"
  /\ UNCHANGED <<host, open, sched_closed, bg_closed, store_open, rowVars, threadVars, lease>>

\* close() of one scheduler; the join may run into its timeout.
CloseScheduler(s) ==
  /\ host_state = "closing" /\ s \in open \ sched_closed
  /\ sched_closed' = sched_closed \cup {s}
  /\ UNCHANGED <<host, host_state, stop, open, bg_closed, store_open, rowVars, threadVars,
                 lease>>

\* background.shutdown: no submission any more.
ShutdownBackground ==
  /\ host_state = "closing" /\ sched_closed = open /\ ~bg_closed
  /\ bg_closed' = TRUE
  /\ UNCHANGED <<host, host_state, stop, open, sched_closed, store_open, rowVars, threadVars,
                 lease>>

\* _finish_close, at once or by the watcher, when every worker has left.  The
\* launch threads are not waited for.
FinishClose ==
  /\ host_state = "closing" /\ bg_closed
  /\ \A r \in Runs : worker[<<host, r>>] = "none"
  /\ store_open' = FALSE /\ host_state' = "closed"
  /\ UNCHANGED <<host, stop, open, sched_closed, bg_closed, rowVars, threadVars, lease>>

\* A new host object: nothing is open, nothing is claimed.
Fresh ==
  /\ host < MaxHosts
  /\ host' = host + 1 /\ host_state' = "new" /\ stop' = FALSE
  /\ open' = {} /\ sched_closed' = {}
  /\ bg_closed' = FALSE /\ store_open' = TRUE
  /\ hand' = [s \in Sessions |-> NoRun]

\* A new host of the same process; the closed one may have left launch threads.
NewHost ==
  /\ host_state = "closed" /\ Fresh
  /\ UNCHANGED <<rowVars, launch, worker, lease>>

\* The process dies, and its threads, its leases and its file lock with it.
Crash ==
  /\ Fresh
  /\ launch' = [t \in Hosts \X Runs |-> "none"]
  /\ worker' = [t \in Hosts \X Runs |-> "none"]
  /\ lease' = Free
  /\ UNCHANGED rowVars

-----------------------------------------------------------------------------
(* The scheduler thread                                                    *)

\* Mutant of Claim: each scheduler counts the rows of its own session only.
ClaimPerSession(s, r) ==
  /\ host_state = "running" /\ s \in open /\ hand[s] = NoRun
  /\ \A other \in ActiveRuns : SessionOf[other] # s
  /\ SessionOf[r] = s /\ status[r] \in Waiting
  /\ status' = [status EXCEPT ![r] = "dispatched"]
  /\ hand' = [hand EXCEPT ![s] = r]
  /\ UNCHANGED <<hostVars, cancel, launch, worker, lease>>

\* _claim_next_run: the capacity check and the claim under the host's lock.
Claim(s, r) ==
  /\ host_state = "running" /\ s \in open /\ hand[s] = NoRun
  /\ ActiveRuns = {}
  /\ SessionOf[r] = s /\ status[r] \in Waiting
  /\ status' = [status EXCEPT ![r] = "dispatched"]
  /\ hand' = [hand EXCEPT ![s] = r]
  /\ UNCHANGED <<hostVars, cancel, launch, worker, lease>>

\* The scheduler or the host was closed after the claim: the row stays.
AbandonClaim(s) ==
  /\ hand[s] # NoRun
  /\ s \in sched_closed \/ host_state # "running"
  /\ hand' = [hand EXCEPT ![s] = NoRun]
  /\ UNCHANGED <<hostVars, rowVars, launch, worker, lease>>

\* Mutant of Dispatch: a run that finds the directory occupied is dropped.
DispatchIfFree(s) ==
  /\ hand[s] # NoRun
  /\ s \notin sched_closed /\ host_state = "running"
  /\ IF lease = Free THEN launch' = [launch EXCEPT ![<<host, hand[s]>>] = "acquiring"]
                     ELSE UNCHANGED launch
  /\ hand' = [hand EXCEPT ![s] = NoRun]
  /\ UNCHANGED <<hostVars, rowVars, worker, lease>>

\* _dispatch starts a thread that waits for the directory.
Dispatch(s) ==
  /\ hand[s] # NoRun
  /\ s \notin sched_closed /\ host_state = "running"
  /\ launch' = [launch EXCEPT ![<<host, hand[s]>>] = "acquiring"]
  /\ hand' = [hand EXCEPT ![s] = NoRun]
  /\ UNCHANGED <<hostVars, rowVars, worker, lease>>

-----------------------------------------------------------------------------
(* The launch thread: _launch_when_directory_free and launch_job_run       *)

Go(t, step) == launch' = [launch EXCEPT ![t] = step]

Acquire(t) ==
  /\ launch[t] = "acquiring" /\ lease = Free
  /\ lease' = t /\ Go(t, "read")
  /\ UNCHANGED <<hostVars, rowVars, hand, worker>>

\* DirectoryWaitCancelled: cancel_run, whose failure is swallowed.
WaitCancelled(t) ==
  /\ launch[t] = "acquiring" /\ lease # Free
  /\ Stopped(t[1])
  /\ IF StoreOpen(t[1]) /\ status[t[2]] = "dispatched"
     THEN status' = [status EXCEPT ![t[2]] = "cancelled"] /\ cancel' = cancel \cup {t[2]}
     ELSE UNCHANGED rowVars
  /\ Go(t, "none")
  /\ UNCHANGED <<hostVars, hand, worker, lease>>

\* get_run: the run is still dispatched.
ReadRun(t) ==
  /\ launch[t] = "read" /\ StoreOpen(t[1]) /\ status[t[2]] = "dispatched"
  /\ Go(t, "start")
  /\ UNCHANGED <<hostVars, rowVars, hand, worker, lease>>

\* get_run: it was cancelled meanwhile.
SkipRun(t) ==
  /\ launch[t] = "read" /\ StoreOpen(t[1]) /\ status[t[2]] # "dispatched"
  /\ Go(t, "none") /\ lease' = Free
  /\ UNCHANGED <<hostVars, rowVars, hand, worker>>

StartRun(t) ==
  /\ launch[t] = "start" /\ StoreOpen(t[1]) /\ status[t[2]] = "dispatched"
  /\ status' = [status EXCEPT ![t[2]] = "running"]
  /\ Go(t, "assemble")
  /\ UNCHANGED <<hostVars, cancel, hand, worker, lease>>

\* get_run or start_run raises: the store is closed, or the row was cancelled
\* after get_run.  _launch swallows it and nobody releases the lease.
LaunchRaises(t) ==
  /\ \/ launch[t] = "read" /\ ~StoreOpen(t[1])
     \/ launch[t] = "start" /\ (~StoreOpen(t[1]) \/ status[t[2]] # "dispatched")
  /\ Go(t, "none")
  /\ UNCHANGED <<hostVars, rowVars, hand, worker, lease>>

\* finish_run with status "failed"; on a closed store it raises.
FailRow(t) ==
  IF StoreOpen(t[1])
  THEN \E row \in Finished(t[2], "failed") : status' = [status EXCEPT ![t[2]] = row]
  ELSE UNCHANGED status

\* The control plane does not start the task: finish, release.
LaunchRefused(t) ==
  /\ launch[t] = "assemble"
  /\ FailRow(t) /\ Go(t, "none") /\ lease' = Free
  /\ UNCHANGED <<hostVars, cancel, hand, worker>>

\* Anything else between start_run and submit raises: _launch finishes the run
\* and leaves the lease.
AssemblyRaises(t) ==
  /\ launch[t] = "assemble"
  /\ FailRow(t) /\ Go(t, "none")
  /\ UNCHANGED <<hostVars, cancel, hand, worker, lease>>

\* background.submit
Submit(t) ==
  /\ launch[t] = "assemble"
  /\ t[1] = host /\ ~bg_closed
  /\ worker' = [worker EXCEPT ![t] = "agent"]
  /\ Go(t, "none")
  /\ UNCHANGED <<hostVars, rowVars, hand, lease>>

\* background.submit on a closed runtime: finish, release.
SubmitRefused(t) ==
  /\ launch[t] = "assemble"
  /\ t[1] < host \/ bg_closed
  /\ FailRow(t) /\ Go(t, "none") /\ lease' = Free
  /\ UNCHANGED <<hostVars, cancel, hand, worker>>

-----------------------------------------------------------------------------
(* The worker: run_durable                                                 *)

\* child_agent.run returns or raises; the lease is released first.
AgentEnds(t) ==
  /\ worker[t] = "agent"
  /\ worker' = [worker EXCEPT ![t] = "commit"]
  /\ lease' = Free
  /\ UNCHANGED <<hostVars, rowVars, hand, launch>>

\* Mutant of Commit: a closing host takes no results any more.
CommitWhileRunning(t, reported) ==
  /\ worker[t] = "commit" /\ host_state = "running"
  /\ \E row \in Finished(t[2], reported) \cup {"unknown"} :
       status' = [status EXCEPT ![t[2]] = row]
  /\ worker' = [worker EXCEPT ![t] = "none"]
  /\ UNCHANGED <<hostVars, cancel, hand, launch, lease>>

\* _commit_job_run, then the worker leaves the pool.
Commit(t, reported) ==
  /\ worker[t] = "commit"
  /\ \E row \in Finished(t[2], reported) \cup {"unknown"} :
       status' = [status EXCEPT ![t[2]] = row]
  /\ worker' = [worker EXCEPT ![t] = "none"]
  /\ UNCHANGED <<hostVars, cancel, hand, launch, lease>>

-----------------------------------------------------------------------------
(* Everybody else                                                          *)

\* A session cancels a run through the shared database.
CancelRun(r) ==
  /\ status[r] \notin Terminal /\ r \notin cancel
  /\ status' = [status EXCEPT ![r] = IF @ = "running" THEN @ ELSE "cancelled"]
  /\ cancel' = cancel \cup {r}
  /\ UNCHANGED <<hostVars, threadVars, lease>>

TurnBegins ==
  /\ lease = Free /\ lease' = Turn
  /\ UNCHANGED <<hostVars, rowVars, threadVars>>

TurnEnds ==
  /\ lease = Turn /\ lease' = Free
  /\ UNCHANGED <<hostVars, rowVars, threadVars>>

-----------------------------------------------------------------------------
SchedulerStep(s) == Dispatch(s) \/ AbandonClaim(s)

LaunchStep(t) ==
  \/ WaitCancelled(t) \/ ReadRun(t) \/ SkipRun(t) \/ StartRun(t)
  \/ LaunchRaises(t) \/ LaunchRefused(t) \/ AssemblyRaises(t)
  \/ Submit(t) \/ SubmitRefused(t)

WorkerStep(t) ==
  AgentEnds(t) \/ \E reported \in {"completed", "failed", "cancelled"} : Commit(t, reported)

CloseStep == ShutdownBackground \/ FinishClose \/ \E s \in Sessions : CloseScheduler(s)

Next ==
  \/ \E s \in Sessions : StartHost(s) \/ OpenSession(s)
  \/ BeginClose \/ CloseStep \/ NewHost \/ Crash
  \/ \E s \in Sessions : SchedulerStep(s) \/ \E r \in Runs : Claim(s, r)
  \/ \E t \in Hosts \X Runs : Acquire(t) \/ LaunchStep(t) \/ WorkerStep(t)
  \/ \E r \in Runs : CancelRun(r)
  \/ TurnBegins \/ TurnEnds

Spec == Init /\ [][Next]_vars

(***************************************************************************)
(* Threads keep running and a turn ends.  A queue of the coordinator is    *)
(* first come first served, so a launch thread that finds the directory    *)
(* free again and again gets it (strong fairness; NoWaiterStarves of       *)
(* DirectoryLeases).  Nothing makes a session open, cancel or close.       *)
(***************************************************************************)
Fairness ==
  /\ \A s \in Sessions : WF_vars(SchedulerStep(s))
  /\ \A t \in Hosts \X Runs :
       SF_vars(Acquire(t)) /\ WF_vars(LaunchStep(t)) /\ WF_vars(WorkerStep(t))
  /\ WF_vars(CloseStep) /\ WF_vars(TurnEnds)

FairSpec == Spec /\ Fairness

-----------------------------------------------------------------------------
(* Properties                                                              *)

\* Whatever sessions are open, the host claims and executes one run at a time
\* (_claim_next_run checks the capacity over all schedulers under one lock).
OneRunAtATime ==
  /\ Cardinality(ActiveRuns) <= 1
  /\ Cardinality({t \in Hosts \X Runs : worker[t] # "none"}) <= 1

\* An agent runs in the directory only while its run holds the lease, so never
\* beside an interactive turn or another run.
AgentHoldsDirectory == \A t \in Hosts \X Runs : worker[t] = "agent" => lease = t

\* Until a worker has committed its run, the row is running, its host is the
\* current one and the store it commits to is open: neither a closing host nor
\* a session opened meanwhile takes the run away from it.
WorkerKeepsItsRun ==
  \A t \in Hosts \X Runs :
    worker[t] # "none" => /\ t[1] = host /\ store_open
                          /\ status[t[2]] = "running" /\ SessionOf[t[2]] \in open

\* One run, one agent, one directory: no step of another session, of a turn or of
\* a closing host takes the slot, the lease or the row from a run at work.
WorkIsExclusive == OneRunAtATime /\ AgentHoldsDirectory /\ WorkerKeepsItsRun

\* runner.py:250, "A directory lease passed in stays held until that worker
\* finishes.": when the launch and the worker of a run are gone, so is its lease.
LeaseHasUser ==
  \A t \in Hosts \X Runs :
    lease = t => launch[t] \in {"read", "start", "assemble"} \/ worker[t] = "agent"

\* The directory was left to a launch that failed (see LeaseHasUser).
Stranded == ~LeaseHasUser

\* A claimed run of an open session does not block the only slot for ever: it is
\* started or cancelled, unless the host stops or the directory was left occupied.
ClaimedRunIsServed ==
  \A r \in Runs :
    status[r] = "dispatched" /\ SessionOf[r] \in open /\ host_state = "running"
      ~> status[r] # "dispatched" \/ host_state # "running" \/ Stranded

\* close() of a host ends, whatever its workers and launches were doing.
CloseFinishes == host_state = "closing" ~> host_state # "closing"

=============================================================================

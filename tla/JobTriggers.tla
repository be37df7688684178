------------------------------ MODULE JobTriggers ------------------------------
(***************************************************************************)
(* Job definitions and the triggers that turn them into runs: the store's  *)
(* _automations.py and _scheduling.py, polled by the thread of JobScheduler*)
(* (application/scheduling/scheduler.py) and edited by sessions meanwhile. *)
(*                                                                         *)
(* Every store method is one transaction and one action.  A web probe is   *)
(* three: the thread lists the due job, a pool thread reads the page, and  *)
(* the result is recorded later.  Of a run the triggers only see whether   *)
(* its row is waiting, running or over (DurableRuns has the whole life).   *)
(* update_job may change what a trigger watches or when it fires, not its  *)
(* type.                                                                   *)
(***************************************************************************)
EXTENDS Naturals, FiniteSets, Sequences

CONSTANTS
  Jobs,       \* ids of job definitions
  Targets,    \* files, pages and event names that triggers refer to
  Contents,   \* snapshots a file or a page can have
  Nothing,    \* no snapshot, no probe, no time
  MaxTime,    \* bound on the clock
  MaxEvents,  \* bound on emitted events
  MaxChanges, \* bound on changes of files and pages
  Batch       \* events read by one materialize_due (100 in the code)

TriggerAssumption ==
  /\ Nothing \notin Contents \cup Nat
  /\ MaxTime \in Nat /\ MaxEvents \in Nat /\ MaxChanges \in Nat
  /\ Batch \in Nat \ {0}

VARIABLES
  kind,       \* trigger.type of each job
  target,     \* trigger.path, trigger.url or trigger.event_name
  job_status, \* automations.status; "absent" when there is no row
  next_run,   \* automations.next_run_at
  baseline,   \* trigger_state: the snapshot the next one is compared with
  pending,    \* trigger_state.pending_event: its event_id and count
  runs,       \* status of the run row with each occurrence_key, per job
  events,     \* external_events, in the order of their ids
  consumed,   \* how many of them have consumed_at set
  probe,      \* _web_inflight: the probe a pool thread is working on
  now,        \* the wall clock
  content,    \* what the file or page holds at the moment
  changes,    \* how often it has changed
  matched,    \* history: events consumed for the job while it was active
  covered,    \* history: of those, the ones a run row has been inserted for
  delivered   \* history: last snapshot a run row was inserted for, or the
              \* baseline the job started or resumed with

definition == <<kind, target>>
store      == <<job_status, next_run, baseline, pending, runs>>
queue      == <<events, consumed>>
world      == <<now, content, changes>>
history    == <<matched, covered, delivered>>
vars       == <<definition, store, queue, probe, world, history>>

Kinds  == {"once", "interval", "file_change", "web_change", "event"}
Timed  == {"once", "interval"}
Change == {"file_change", "web_change"}
Times  == 0..MaxTime
Every  == 1  \* trigger.every_seconds: the unit of the clock

\* occurrence_key: "<type>:<due>", "file:<mtime>:<size>", "web:<hash>" or
\* "event:<id>".  A job keeps its type, so its own type is left out.
Keys == Times \cup Contents \cup 1..MaxEvents

NoEvent == [id |-> 0, count |-> 0]

TypeOK ==
  /\ kind \in [Jobs -> Kinds]
  /\ target \in [Jobs -> Targets]
  /\ job_status \in [Jobs -> {"absent", "active", "paused", "completed", "cancelled",
                              "deleted"}]
  /\ next_run \in [Jobs -> Nat \cup {Nothing}]
  /\ baseline \in [Jobs -> Contents \cup {Nothing}]
  /\ pending \in [Jobs -> [id : 0..MaxEvents, count : 0..MaxEvents]]
  /\ runs \in [Jobs -> [Keys -> {"none", "waiting", "running", "over"}]]
  /\ events \in Seq(Targets) /\ Len(events) <= MaxEvents
  /\ consumed \in 0..Len(events)
  /\ probe \in [Jobs -> {Nothing} \cup [page : Targets, seen : Contents \cup {Nothing}]]
  /\ now \in Times /\ changes \in 0..MaxChanges
  /\ content \in [Targets -> Contents]
  /\ matched \in [Jobs -> 0..MaxEvents] /\ covered \in [Jobs -> 0..MaxEvents]
  /\ delivered \in [Jobs -> Contents \cup {Nothing}]

Init ==
  /\ kind \in [Jobs -> Kinds]
  /\ target \in [Jobs -> Targets]
  /\ job_status = [j \in Jobs |-> "absent"]
  /\ next_run = [j \in Jobs |-> Nothing]
  /\ baseline = [j \in Jobs |-> Nothing]
  /\ pending = [j \in Jobs |-> NoEvent]
  /\ runs = [j \in Jobs |-> [k \in Keys |-> "none"]]
  /\ events = <<>> /\ consumed = 0
  /\ probe = [j \in Jobs |-> Nothing]
  /\ now = 0 /\ changes = 0
  /\ content \in [Targets -> Contents]
  /\ matched = [j \in Jobs |-> 0] /\ covered = [j \in Jobs |-> 0]
  /\ delivered = [j \in Jobs |-> Nothing]

-----------------------------------------------------------------------------
(* Operators of the store                                                  *)

\* _has_live_run_locked
LiveKeys(j) == {k \in Keys : runs[j][k] \in {"waiting", "running"}}

HasLiveRun(j) == LiveKeys(j) # {}

\* _insert_run_locked: ON CONFLICT DO NOTHING on (automation_id, occurrence_key).
WithRun(rows, key) == IF rows[key] = "none" THEN [rows EXCEPT ![key] = "waiting"] ELSE rows

\* A probe due after the last tick counts as due at the last tick, so that the
\* bound on the clock does not stop the probes.
Later(t) == IF t > MaxTime THEN MaxTime ELSE t

\* initial_next_run and resume_next_run; `at` is run_at or start_at.
InitialNextRun(j, at) ==
  CASE kind[j] = "once" -> at
    [] kind[j] = "interval" -> at
    [] kind[j] = "web_change" -> now
    [] OTHER -> Nothing

ResumeNextRun(j, at) ==
  CASE kind[j] = "once" -> IF at > now THEN at ELSE now
    [] kind[j] = "interval" -> now + Every
    [] kind[j] = "web_change" -> now
    [] OTHER -> Nothing

\* advance_interval: the first time of the grid after now.
Advance(due) == CHOOSE t \in now + 1 .. now + Every : (t - due) % Every = 0

-----------------------------------------------------------------------------
(* Editing a job                                                           *)

CreateJob(j, at) ==
  /\ job_status[j] = "absent"
  /\ job_status' = [job_status EXCEPT ![j] = "active"]
  /\ next_run' = [next_run EXCEPT ![j] = InitialNextRun(j, at)]
  /\ baseline' = [baseline EXCEPT ![j] =
                    IF kind[j] = "file_change" THEN content[target[j]] ELSE Nothing]
  /\ delivered' = [delivered EXCEPT ![j] = baseline'[j]]
  /\ UNCHANGED <<definition, pending, runs, queue, probe, world, matched, covered>>

\* update_job with a trigger: the stored state is not touched.
UpdateJob(j, t, at) ==
  /\ job_status[j] \in {"active", "paused"}
  /\ target' = [target EXCEPT ![j] = t]
  /\ next_run' = IF job_status[j] = "active"
                 THEN [next_run EXCEPT ![j] = InitialNextRun(j, at)] ELSE next_run
  /\ UNCHANGED <<kind, job_status, baseline, pending, runs, queue, probe, world, history>>

PauseJob(j) ==
  /\ job_status[j] = "active"
  /\ job_status' = [job_status EXCEPT ![j] = "paused"]
  /\ UNCHANGED <<definition, next_run, baseline, pending, runs, queue, probe, world,
                 history>>

\* resume_job: what changed while the job was paused is not reported.
ResumeJob(j, at) ==
  /\ job_status[j] = "paused"
  /\ job_status' = [job_status EXCEPT ![j] = "active"]
  /\ next_run' = [next_run EXCEPT ![j] = ResumeNextRun(j, at)]
  /\ baseline' = [baseline EXCEPT ![j] =
                    IF kind[j] = "file_change" THEN content[target[j]] ELSE Nothing]
  /\ delivered' = [delivered EXCEPT ![j] = baseline'[j]]
  /\ UNCHANGED <<definition, pending, runs, queue, probe, world, matched, covered>>

\* cancel_job: its waiting runs end, a running one is asked to.
CancelJob(j) ==
  /\ job_status[j] \in {"active", "paused", "completed"}
  /\ job_status' = [job_status EXCEPT ![j] = "cancelled"]
  /\ next_run' = [next_run EXCEPT ![j] = Nothing]
  /\ runs' = [runs EXCEPT ![j] = [k \in Keys |-> IF @[k] = "waiting" THEN "over" ELSE @[k]]]
  /\ UNCHANGED <<definition, baseline, pending, queue, probe, world, history>>

\* delete_job_if_unused
DeleteJob(j) ==
  /\ job_status[j] = "cancelled"
  /\ \A k \in Keys : runs[j][k] = "none"
  /\ job_status' = [job_status EXCEPT ![j] = "deleted"]
  /\ UNCHANGED <<definition, next_run, baseline, pending, runs, queue, probe, world,
                 history>>

\* emit_event; events nobody can listen to are left out.
EmitEvent(name) ==
  /\ Len(events) < MaxEvents /\ \E j \in Jobs : kind[j] = "event"
  /\ events' = Append(events, name)
  /\ UNCHANGED <<definition, store, consumed, probe, world, history>>

-----------------------------------------------------------------------------
(* materialize_due                                                         *)

TimeDue(j) == kind[j] \in Timed /\ next_run[j] # Nothing /\ next_run[j] <= now
FileChanged(j) == kind[j] = "file_change" /\ content[target[j]] # baseline[j]

\* SELECT ... WHERE consumed_at IS NULL ORDER BY id LIMIT 100
ReadTo == IF consumed + Batch < Len(events) THEN consumed + Batch ELSE Len(events)
Matching(j) == IF kind[j] = "event"
               THEN {i \in consumed + 1 .. ReadTo : events[i] = target[j]} ELSE {}

First(S) == CHOOSE i \in S : \A k \in S : i <= k
Last(S)  == CHOOSE i \in S : \A k \in S : k <= i

\* The events of this batch that find a live run, perhaps the one that the
\* first event of the batch has just inserted.
Noted(j) == IF HasLiveRun(j) \/ Matching(j) = {} THEN Matching(j)
            ELSE Matching(j) \ {First(Matching(j))}

\* Mutant of PendingAfter: the last event replaces what was pending.
PendingReplaced(j) ==
  IF Noted(j) = {} THEN pending[j] ELSE [id |-> Last(Noted(j)), count |-> 1]

\* _note_pending_event_locked for each of them: the last payload, all counted.
PendingAfter(j) ==
  IF Noted(j) = {} THEN pending[j]
  ELSE [id |-> Last(Noted(j)), count |-> pending[j].count + Cardinality(Noted(j))]

\* Mutant of Flushes: selects the jobs of the wrong status.
FlushesPaused(j) ==
  /\ kind[j] = "event" /\ job_status[j] = "paused"
  /\ ~HasLiveRun(j) /\ Matching(j) = {} /\ pending[j] # NoEvent

\* _flush_pending_events_locked finds no live run, not even a new one.
Flushes(j) == kind[j] = "event" /\ ~HasLiveRun(j) /\ Matching(j) = {} /\ pending[j] # NoEvent

\* The occurrence keys this call inserts for an active job: at most one.
NewKeys(j) ==
  IF HasLiveRun(j) THEN {}
  ELSE (IF TimeDue(j) THEN {next_run[j]} ELSE {})
       \cup (IF FileChanged(j) THEN {content[target[j]]} ELSE {})
       \cup (IF Matching(j) # {} THEN {First(Matching(j))} ELSE {})
       \cup (IF Flushes(j) THEN {pending[j].id} ELSE {})

Materialize ==
  LET active == {j \in Jobs : job_status[j] = "active"}
      fires  == {j \in active : NewKeys(j) # {}}
      Inserted(j) == CHOOSE k \in NewKeys(j) : TRUE
      isNew == {j \in fires : runs[j][Inserted(j)] = "none"}
  IN
  /\ runs' = [j \in Jobs |-> IF j \in fires THEN WithRun(runs[j], Inserted(j)) ELSE runs[j]]
  /\ job_status' = [j \in Jobs |-> IF j \in active /\ TimeDue(j) /\ kind[j] = "once"
                                   THEN "completed" ELSE job_status[j]]
  /\ next_run' = [j \in Jobs |->
       IF j \in active /\ TimeDue(j)
       THEN IF kind[j] = "once" THEN Nothing ELSE Advance(next_run[j]) ELSE next_run[j]]
  /\ baseline' = [j \in Jobs |-> IF j \in fires /\ FileChanged(j) THEN content[target[j]]
                                 ELSE baseline[j]]
  /\ pending' = [j \in Jobs |-> IF j \notin active THEN pending[j]
                                ELSE IF Flushes(j) THEN NoEvent ELSE PendingAfter(j)]
  /\ consumed' = ReadTo
  /\ matched' = [j \in Jobs |-> IF j \in active THEN matched[j] + Cardinality(Matching(j))
                                ELSE matched[j]]
  /\ covered' = [j \in Jobs |->
       IF j \notin isNew \/ kind[j] # "event" THEN covered[j]
       ELSE covered[j] + IF Flushes(j) THEN pending[j].count ELSE 1]
  /\ delivered' = [j \in Jobs |-> IF j \in isNew /\ FileChanged(j) THEN content[target[j]]
                                  ELSE delivered[j]]
  /\ UNCHANGED <<definition, events, probe, world>>

-----------------------------------------------------------------------------
(* Web probes: _poll_web_changes and _probe_web                            *)

\* A due job that is not in _web_inflight is handed to the pool, url and all.
SubmitProbe(j) ==
  /\ job_status[j] = "active" /\ kind[j] = "web_change"
  /\ next_run[j] <= now
  /\ probe[j] = Nothing
  /\ probe' = [probe EXCEPT ![j] = [page |-> target[j], seen |-> Nothing]]
  /\ UNCHANGED <<definition, store, queue, world, history>>

FetchPage(j) ==
  /\ probe[j] # Nothing /\ probe[j].seen = Nothing
  /\ probe' = [probe EXCEPT ![j].seen = content[probe[j].page]]
  /\ UNCHANGED <<definition, store, queue, world, history>>

\* record_web_probe for a job that is active no more: nothing but the cleanup.
ProbeIgnored(j) ==
  /\ probe[j] # Nothing
  /\ job_status[j] # "active"
  /\ probe' = [probe EXCEPT ![j] = Nothing]
  /\ UNCHANGED <<definition, store, queue, world, history>>

\* Mutant of RecordProbe: does not ask again whether the job is active.
RecordProbeUnasked(j) ==
  LET snapshot == probe[j].seen
      changed  == baseline[j] # Nothing /\ baseline[j] # snapshot
      live     == HasLiveRun(j)
  IN
  /\ probe[j] # Nothing /\ snapshot # Nothing
  /\ probe' = [probe EXCEPT ![j] = Nothing]
  /\ baseline' = [baseline EXCEPT ![j] = IF changed /\ live THEN @ ELSE snapshot]
  /\ runs' = IF changed /\ ~live THEN [runs EXCEPT ![j] = WithRun(@, snapshot)] ELSE runs
  /\ next_run' = [next_run EXCEPT ![j] = Later(now + Every)]
  /\ UNCHANGED <<definition, job_status, pending, queue, world, history>>

\* record_web_probe: a changed page makes a run, unless one is live.
RecordProbe(j) ==
  LET snapshot == probe[j].seen
      changed  == baseline[j] # Nothing /\ baseline[j] # snapshot
      live     == HasLiveRun(j)
  IN
  /\ probe[j] # Nothing /\ snapshot # Nothing
  /\ job_status[j] = "active"
  /\ probe' = [probe EXCEPT ![j] = Nothing]
  /\ baseline' = [baseline EXCEPT ![j] = IF changed /\ live THEN @ ELSE snapshot]
  /\ runs' = IF changed /\ ~live THEN [runs EXCEPT ![j] = WithRun(@, snapshot)] ELSE runs
  /\ delivered' = IF \/ changed /\ ~live /\ runs[j][snapshot] = "none"
                     \/ baseline[j] = Nothing
                  THEN [delivered EXCEPT ![j] = snapshot] ELSE delivered
  /\ next_run' = [next_run EXCEPT ![j] = Later(now + Every)]
  /\ UNCHANGED <<definition, job_status, pending, queue, world, matched, covered>>

\* The probe raised: defer_web_probe.
DeferProbe(j) ==
  /\ probe[j] # Nothing /\ probe[j].seen = Nothing
  /\ job_status[j] = "active"
  /\ probe' = [probe EXCEPT ![j] = Nothing]
  /\ next_run' = [next_run EXCEPT ![j] = Later(now + Every)]
  /\ UNCHANGED <<definition, job_status, baseline, pending, runs, queue, world, history>>

-----------------------------------------------------------------------------
(* The runs, as far as the triggers see them, and the world they watch     *)

RunStep(j, k, from, to) ==
  /\ runs[j][k] = from
  /\ runs' = [runs EXCEPT ![j][k] = to]
  /\ UNCHANGED <<definition, job_status, next_run, baseline, pending, queue, probe, world,
                 history>>

StartRun(j) == \E k \in Keys : RunStep(j, k, "waiting", "running")
EndRun(j)   == \E k \in Keys : RunStep(j, k, "running", "over")
CancelRun(j) == \E k \in Keys : RunStep(j, k, "waiting", "over")
\* finish_run or recover_interrupted puts it back; max_retries bounds how often.
RetryRun(j) == \E k \in Keys : RunStep(j, k, "running", "waiting")

\* Time passes, as far as some job looks at the clock.
Tick ==
  /\ now < MaxTime /\ \E j \in Jobs : kind[j] \in Timed \cup {"web_change"}
  /\ now' = now + 1
  /\ UNCHANGED <<definition, store, queue, probe, content, changes, history>>

\* A file or a page changes; changes nobody can watch are left out.
Edit(t, c) ==
  /\ changes < MaxChanges /\ content[t] # c /\ \E j \in Jobs : kind[j] \in Change
  /\ content' = [content EXCEPT ![t] = c]
  /\ changes' = changes + 1
  /\ UNCHANGED <<definition, store, queue, probe, now, history>>

-----------------------------------------------------------------------------
EditJob(j) ==
  \/ PauseJob(j) \/ CancelJob(j) \/ DeleteJob(j)
  \/ \E at \in Times : CreateJob(j, at) \/ ResumeJob(j, at)
  \/ \E t \in Targets, at \in Times : UpdateJob(j, t, at)

ProbeStep(j) == SubmitProbe(j) \/ FetchPage(j) \/ ProbeIgnored(j) \/ RecordProbe(j)

Next ==
  \/ \E j \in Jobs : EditJob(j) \/ ProbeStep(j) \/ DeferProbe(j)
  \/ \E j \in Jobs : StartRun(j) \/ EndRun(j) \/ CancelRun(j) \/ RetryRun(j)
  \/ \E t \in Targets : EmitEvent(t) \/ \E c \in Contents : Edit(t, c)
  \/ Materialize \/ Tick

Spec == Init /\ [][Next]_vars

(***************************************************************************)
(* The scheduler thread polls for ever, a pool thread finishes its probe   *)
(* and a fetch that is tried again and again succeeds in the end, time     *)
(* passes, a run that was started ends (strongly: it is put back at most   *)
(* max_retries times).  Nobody has to edit a job or change a file.         *)
(***************************************************************************)
Fairness ==
  /\ WF_vars(Materialize) /\ WF_vars(Tick)
  /\ \A j \in Jobs : /\ WF_vars(SubmitProbe(j)) /\ SF_vars(FetchPage(j))
                      /\ WF_vars(ProbeIgnored(j)) /\ WF_vars(RecordProbe(j))
                      /\ WF_vars(StartRun(j)) /\ SF_vars(EndRun(j))

FairSpec == Spec /\ Fairness

-----------------------------------------------------------------------------
(* Properties                                                              *)

\* Ticks, changes and events that arrive while a run of the job is live are
\* merged: two runs of one job never overlap (_has_live_run_locked).
OneLiveRun == \A j \in Jobs : Cardinality(LiveKeys(j)) <= 1

\* "Coalesce, but do not lose, events": every event consumed for an active job
\* is covered by exactly one run or counted in pending_event, through batches,
\* pauses, edits and cancellations.
EventsConserved == \A j \in Jobs : matched[j] = covered[j] + pending[j].count

\* Every event is in one run, and the runs are one after the other.
RunsAddUp == OneLiveRun /\ EventsConserved

\* A paused, completed or cancelled job gets no new run, not even from a web
\* probe that was under way when the job was paused (record_web_probe).
OnlyActiveJobsRun ==
  [][\A j \in Jobs, k \in Keys :
       runs[j][k] = "none" /\ runs'[j][k] # "none" => job_status[j] = "active"]_vars

\* What an active job still owes its user: a difference to its baseline that no
\* run has taken up, or events that are pending.
Owes(j) ==
  /\ job_status[j] = "active"
  /\ \/ FileChanged(j)
     \/ kind[j] = "web_change" /\ baseline[j] \notin {Nothing, content[target[j]]}
     \/ kind[j] = "event" /\ pending[j] # NoEvent

\* "so one follow-up change is eventually delivered": a change or an event that
\* met a live run is taken up once that run is over, unless the job is stopped.
FollowUpIsTakenUp == \A j \in Jobs : Owes(j) ~> ~Owes(j)

\* _scheduling.py:66, "Coalesce, but do not lose, a change": the baseline of an
\* active job moves only to a snapshot that a run was inserted for.
ChangesAreRun ==
  \A j \in Jobs : job_status[j] = "active" /\ kind[j] \in Change => baseline[j] = delivered[j]

=============================================================================

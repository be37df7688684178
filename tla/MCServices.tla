------------------------------ MODULE MCServices ------------------------------
(***************************************************************************)
(* Services of the program that share no state with each other in the      *)
(* models, checked in one run: the transaction of the permission files,    *)
(* which this module extends, the triggers of the jobs, the loops of a     *)
(* session, its event stream, the processes of a shell command.  As in     *)
(* MCSession, a behaviour is a behaviour of one part, the subject.         *)
(***************************************************************************)
EXTENDS PermissionTransaction, Naturals

CONSTANTS
  None,
  Jobs, Targets, Contents, FirstTarget, FirstContent, NoContent, MaxTime, MaxJobEvents,
  MaxChanges, Batch,                     \* see JobTriggers
  MaxEvents, SubscriberMax, MaxSeq, MaxTurns, MaxDrops,  \* see SessionStream
  QueueMax, LogMax, MaxKids, MaxForks, MaxWritten, MaxTerminates,  \* see LocalProcess
  LoopIds, WatchedLoop, MaxLoops, MaxInputs  \* see SessionLoops

VARIABLES
  subject,  \* the part that runs
  j_kind, j_target, j_job_status, j_next_run, j_baseline, j_pending, j_runs, j_events,
  j_consumed, j_probe, j_now, j_content, j_changes, j_matched, j_covered, j_delivered,
  e_stream, e_log, e_root, e_ended, e_records, e_work, e_lost, e_base, e_inbox, e_stale,
  e_server, e_last_sent, e_held, e_browser, e_drops,
  p_leader, p_code, p_kids, p_stranger, p_struck, p_written, p_pipe, p_queue, p_log,
  p_ended, p_reader, p_record, p_killer, p_verdict, p_forks, p_terminates,
  l_loops, l_wake, l_closed, l_thread, l_queue, l_idle, l_consumer, l_inputs

j_vars == <<j_kind, j_target, j_job_status, j_next_run, j_baseline, j_pending, j_runs,
            j_events, j_consumed, j_probe, j_now, j_content, j_changes, j_matched,
            j_covered, j_delivered>>
e_vars == <<e_stream, e_log, e_root, e_ended, e_records, e_work, e_lost, e_base,
            e_inbox, e_stale, e_server, e_last_sent, e_held, e_browser, e_drops>>
p_vars == <<p_leader, p_code, p_kids, p_stranger, p_struck, p_written, p_pipe, p_queue,
            p_log, p_ended, p_reader, p_record, p_killer, p_verdict, p_forks,
            p_terminates>>
l_vars == <<l_loops, l_wake, l_closed, l_thread, l_queue, l_idle, l_consumer, l_inputs>>

Triggers == INSTANCE JobTriggers WITH
  Nothing <- NoContent, MaxEvents <- MaxJobEvents,
  kind <- j_kind, target <- j_target, job_status <- j_job_status,
  next_run <- j_next_run, baseline <- j_baseline, pending <- j_pending, runs <- j_runs,
  events <- j_events, consumed <- j_consumed, probe <- j_probe, now <- j_now,
  content <- j_content, changes <- j_changes, matched <- j_matched,
  covered <- j_covered, delivered <- j_delivered

Stream == INSTANCE SessionStream WITH
  QueueMax <- SubscriberMax,
  stream <- e_stream, log <- e_log, root <- e_root, ended <- e_ended,
  records <- e_records, work <- e_work, lost <- e_lost, base <- e_base,
  inbox <- e_inbox, stale <- e_stale, server <- e_server, last_sent <- e_last_sent,
  held <- e_held, browser <- e_browser, drops <- e_drops

Process == INSTANCE LocalProcess WITH
  leader <- p_leader, code <- p_code, kids <- p_kids, stranger <- p_stranger,
  struck <- p_struck, written <- p_written, pipe <- p_pipe, queue <- p_queue,
  log <- p_log, ended <- p_ended, reader <- p_reader, record <- p_record,
  killer <- p_killer, verdict <- p_verdict, forks <- p_forks, terminates <- p_terminates

Loops == INSTANCE SessionLoops WITH
  Loops <- LoopIds,
  loops <- l_loops, wake <- l_wake, closed <- l_closed, thread <- l_thread,
  queue <- l_queue, idle <- l_idle, consumer <- l_consumer, inputs <- l_inputs

ASSUME MCServicesAssumption ==
  /\ FirstTarget \in Targets /\ FirstContent \in Contents /\ WatchedLoop \in LoopIds
  /\ Triggers!TriggerAssumption
  /\ Stream!SessionStreamAssumption
  /\ Process!LocalProcessAssumption
  /\ Loops!SessionLoopsAssumption

Subjects ==
  {"files", "triggers", "stream", "process", "loops"}

SuiteInit ==
  /\ subject \in Subjects
  /\ Init
  /\ Triggers!Init
  /\ Stream!Init
  /\ Process!Init
  /\ Loops!Init
  /\ subject # "files" => disk = [f \in Files |-> 0]
  /\ subject # "triggers" => /\ j_kind = [j \in Jobs |-> "once"]
                             /\ j_target = [j \in Jobs |-> FirstTarget]
                             /\ j_content = [t \in Targets |-> FirstContent]

\* A step of the subject leaves the other parts alone.
InFiles ==
  /\ subject = "files"
  /\ UNCHANGED <<subject, j_vars, e_vars, p_vars, l_vars>>
InTriggers ==
  /\ subject = "triggers"
  /\ UNCHANGED <<subject, vars, e_vars, p_vars, l_vars>>
InStream ==
  /\ subject = "stream"
  /\ UNCHANGED <<subject, vars, j_vars, p_vars, l_vars>>
InProcess ==
  /\ subject = "process"
  /\ UNCHANGED <<subject, vars, j_vars, e_vars, l_vars>>
InLoops ==
  /\ subject = "loops"
  /\ UNCHANGED <<subject, vars, j_vars, e_vars, p_vars>>

SuiteNext ==
  \/ InFiles /\ Next
  \/ InTriggers /\ Triggers!Next
  \/ InStream /\ Stream!Next
  \/ InProcess /\ Process!Next
  \/ InLoops /\ Loops!Next

suite_vars == <<subject, vars, j_vars, e_vars, p_vars, l_vars>>

\* The fairness of the parts that have a liveness property: see JobTriggers,
\* SessionStream, SessionLoops and LocalProcess.  A behaviour is one of one
\* part, so that a condition can serve for an action of each.
SuiteFairness ==
  /\ WF_suite_vars(\/ InTriggers /\ Triggers!Materialize
                   \/ InStream /\ Stream!WebStep
                   \/ InProcess /\ Process!Collect
                   \/ InLoops /\ Loops!ThreadStep)
  /\ WF_suite_vars(\/ InTriggers /\ Triggers!Tick
                   \/ InProcess /\ Process!ReaderStep
                   \/ InLoops /\ Loops!ConsumerStep)
  /\ SF_suite_vars(InLoops /\ Loops!WaitIdle)
  /\ \A l \in LoopIds : WF_suite_vars(InLoops /\ Loops!Elapse(l))
  /\ \A j \in Jobs :
       /\ WF_suite_vars(InTriggers /\ Triggers!SubmitProbe(j))
       /\ WF_suite_vars(InTriggers /\ Triggers!ProbeIgnored(j))
       /\ WF_suite_vars(InTriggers /\ Triggers!RecordProbe(j))
       /\ WF_suite_vars(InTriggers /\ Triggers!StartRun(j))
       /\ SF_suite_vars(InTriggers /\ Triggers!FetchPage(j))
       /\ SF_suite_vars(InTriggers /\ Triggers!EndRun(j))

SuiteSpec == SuiteInit /\ [][SuiteNext]_suite_vars /\ SuiteFairness

-----------------------------------------------------------------------------
\* Runs of a job never overlap, no event is lost or counted twice, a loop has
\* one tick to come, and a command that ended has no process.
RunsAddUp ==
  /\ subject = "triggers" => Triggers!TypeOK /\ Triggers!RunsAddUp
  /\ subject = "loops" => Loops!TypeOK /\ Loops!TicksAreMerged
  /\ subject = "process" => Process!TypeOK /\ Process!GroupIsOwned

\* A browser shows what one that saw every event shows.
ViewIsTrue == subject = "stream" => Stream!TypeOK /\ Stream!ViewIsTrue

\* Only an active job makes runs, and only a loop that stands ticks.
OnlyActiveWorkBegins ==
  /\ Triggers!OnlyActiveJobsRun
  /\ Loops!StoppedNeverBegins

\* What met a live run is taken up afterwards, a loop goes on beside another, and
\* a command without processes ends.
DueWorkIsTakenUp ==
  \A j \in Jobs :
    LET due == \/ subject = "triggers" /\ Triggers!Owes(j)
               \/ subject = "process" /\ Process!Lingers
               \/ subject = "loops" /\ Loops!Rests(WatchedLoop)
    IN  due ~> ~due

\* A browser is connected and has every event, again and again.
ClientCatchesUp == subject = "stream" => Stream!ClientCatchesUp

=============================================================================

------------------------------ MODULE LocalProcess ------------------------------
(***************************************************************************)
(* One shell command as the operating system runs it: its process group,   *)
(* the thread that collects its output, the reader that waits for its end, *)
(* and whoever terminates it (infrastructure/runtime/local.py,             *)
(* process_group.py, command_log.py; application/command/execution.py).    *)
(* ManagedCommands has what becomes of the command in the session.         *)
(*                                                                         *)
(* Output is counted in chunks.  A child that leaves the group and keeps   *)
(* the pipe is out of sight: it only delays the end of the output.         *)
(***************************************************************************)
EXTENDS Naturals

CONSTANTS
  None,
  QueueMax,      \* maxsize of the queue between collector and reader
  LogMax,        \* max_bytes of CommandOutputLog
  MaxKids,       \* bounds: children at a time, forks, output, terminations
  MaxForks,
  MaxWritten,
  MaxTerminates

LocalProcessAssumption ==
  /\ QueueMax \in Nat \ {0} /\ LogMax \in Nat \ {0}
  /\ MaxKids \in Nat /\ MaxForks \in Nat /\ MaxWritten \in Nat /\ MaxTerminates \in Nat
  /\ None \notin BOOLEAN /\ None # "read"

VARIABLES
  leader,   \* "runs", "zombie", "reaped"
  code,     \* its exit code
  kids,     \* other members of the group that live
  stranger, \* the number of the leader was given to another process
  struck,   \* history: a signal went to that process
  written, pipe, queue, log, \* output: made, and where it is
  ended,    \* the None behind the output: None, "queued", "read"
  reader,   \* where _read_until_group_ends is
  record,   \* [disposition, cancel, code]
  killer,   \* where terminate() is
  verdict,  \* what it answered last
  forks, terminates

osVars == <<leader, code, kids, stranger, written, forks>>
vars == <<leader, code, kids, stranger, struck, written, pipe, queue, log, ended,
          reader, record, killer, verdict, forks, terminates>>

Init ==
  /\ leader = "runs" /\ code = None /\ kids = 0 /\ stranger = FALSE /\ struck = FALSE
  /\ written = 0 /\ pipe = 0 /\ queue = 0 /\ log = 0 /\ ended = None
  /\ reader = "read" /\ killer = "idle" /\ verdict = None
  /\ record = [disposition |-> "running", cancel |-> FALSE, code |-> None]
  /\ forks = 0 /\ terminates = 0

-----------------------------------------------------------------------------
(* The processes *)

Owned == leader # "reaped" \/ kids > 0
Works == leader = "runs" \/ kids > 0

Fork ==
  /\ Works /\ kids < MaxKids /\ forks < MaxForks
  /\ kids' = kids + 1 /\ forks' = forks + 1
  /\ UNCHANGED <<leader, code, stranger, struck, written, pipe, queue, log, ended,
                 reader, record, killer, verdict, terminates>>

Emit ==
  /\ Works /\ written < MaxWritten
  /\ written' = written + 1 /\ pipe' = pipe + 1
  /\ UNCHANGED <<leader, code, kids, stranger, struck, queue, log, ended,
                 reader, record, killer, verdict, forks, terminates>>

Exit ==
  /\ \/ leader = "runs" /\ leader' = "zombie" /\ code' \in {0, 1} /\ UNCHANGED kids
     \/ kids > 0 /\ kids' = kids - 1 /\ UNCHANGED <<leader, code>>
  /\ UNCHANGED <<stranger, struck, written, pipe, queue, log, ended,
                 reader, record, killer, verdict, forks, terminates>>

\* A number is free when its process is reaped and no group has it.
Recycle ==
  /\ ~Owned /\ ~stranger
  /\ stranger' = TRUE
  /\ UNCHANGED <<leader, code, kids, struck, written, pipe, queue, log, ended,
                 reader, record, killer, verdict, forks, terminates>>

\* killpg: a member that is asked may go on, one that is killed is not asked.
Signalled(kill) ==
  /\ leader' \in (IF leader = "runs" THEN IF kill THEN {"zombie"} ELSE {"runs", "zombie"}
                  ELSE {leader})
  /\ code' = IF leader' # leader THEN 1 ELSE code
  /\ kids' \in (IF kill THEN {0} ELSE 0..kids)

-----------------------------------------------------------------------------
(* OwnedProcessGroup *)

\* A zombie is a member.  If the leader's number is another's, nobody is.
Members == IF stranger THEN 0 ELSE (IF leader = "reaped" THEN 0 ELSE 1) + kids

Reaped == leader' = IF leader = "zombie" THEN "reaped" ELSE leader

\* Without a look at who has the number now.
SignalUnlooked(kill) ==
  /\ Signalled(kill)
  /\ struck' = (struck \/ stranger)

\* _signal looks again, right before killpg.
Signal(kill) ==
  IF stranger THEN UNCHANGED <<leader, code, kids, struck>>
  ELSE Signalled(kill) /\ UNCHANGED struck

-----------------------------------------------------------------------------
(* LocalProcessHandle: the collector, and the reader of CommandExecution *)

Collect ==
  /\ pipe > 0 /\ queue < QueueMax
  /\ pipe' = pipe - 1 /\ queue' = queue + 1
  /\ UNCHANGED <<leader, code, kids, stranger, struck, written, log, ended,
                 reader, record, killer, verdict, forks, terminates>>

\* All that hold the pipe have closed it.
EndOfOutput ==
  /\ ~Works /\ pipe = 0 /\ ended = None /\ queue < QueueMax
  /\ ended' = "queued"
  /\ UNCHANGED <<leader, code, kids, stranger, struck, written, pipe, queue, log,
                 reader, record, killer, verdict, forks, terminates>>

\* An empty read and the end are the same to the reader.
Read ==
  /\ reader = "read"
  /\ IF queue > 0
       THEN /\ queue' = queue - 1
            /\ log' = IF log < LogMax THEN log + 1 ELSE log
            /\ UNCHANGED <<reader, ended>>
       ELSE /\ reader' = "poll"
            /\ ended' = IF ended = None THEN None ELSE "read"
            /\ UNCHANGED <<queue, log>>
  /\ UNCHANGED <<leader, code, kids, stranger, struck, written, pipe,
                 record, killer, verdict, forks, terminates>>

\* The end of the leader is the end.
AfterPollAlone == "settle"

AfterPoll == "group"

Poll ==
  /\ reader = "poll"
  /\ Reaped
  /\ reader' = IF leader = "runs" THEN "read" ELSE AfterPoll
  /\ UNCHANGED <<code, kids, stranger, struck, written, pipe, queue, log, ended,
                 record, killer, verdict, forks, terminates>>

LookAtGroup ==
  /\ reader = "group"
  /\ reader' = IF Members > 0 THEN "read" ELSE "settle"
  /\ UNCHANGED <<osVars, struck, pipe, queue, log, ended, record, killer, verdict, terminates>>

\* _settle
Disposition ==
  IF Members > 0 \/ leader = "runs" THEN "unknown"
  ELSE IF record.cancel THEN "cancelled"
  ELSE IF code = 0 THEN "completed" ELSE "failed"

Settle ==
  /\ reader = "settle"
  /\ record' = [record EXCEPT !.disposition = Disposition, !.code = code]
  /\ reader' = "done"
  /\ UNCHANGED <<osVars, struck, pipe, queue, log, ended, killer, verdict, terminates>>

-----------------------------------------------------------------------------
(* terminate *)

\* CommandExecution.terminate, a cancelled turn, a time-out or the close of the
\* session, while the reader is not done.
Terminate ==
  /\ killer = "idle" /\ reader # "done" /\ terminates < MaxTerminates
  /\ record' = [record EXCEPT !.cancel = TRUE]
  /\ terminates' = terminates + 1
  /\ killer' = "look" /\ verdict' = None
  /\ UNCHANGED <<osVars, struck, pipe, queue, log, ended, reader>>

\* The handle says TRUE only if its own look at the group agrees.
Answered(stopped) ==
  /\ killer' = "idle"
  /\ verdict' = (stopped /\ Members = 0)

Look(at, next) ==
  /\ killer = at
  /\ IF stranger THEN Answered(FALSE)
     ELSE IF Members = 0 THEN Answered(TRUE)
     ELSE killer' = next /\ UNCHANGED verdict
  /\ UNCHANGED <<osVars, struck, pipe, queue, log, ended, reader, record, terminates>>

SignalGroup(at, next, kill) ==
  /\ killer = at
  /\ Signal(kill)
  /\ killer' = next
  /\ UNCHANGED <<stranger, written, forks, pipe, queue, log, ended, reader, record,
                 verdict, terminates>>

\* _wait_until_clear reaps, looks, and looks again until the grace is over.
WaitClear(at, next) ==
  /\ killer = at
  /\ Reaped
  /\ UNCHANGED <<code, kids, stranger, struck, written, forks, pipe, queue, log, ended,
                 reader, record, terminates>>
  /\ LET left == IF stranger THEN 0 ELSE (IF leader' = "reaped" THEN 0 ELSE 1) + kids
     IN  \/ /\ left = 0
            /\ killer' = "idle" /\ verdict' = ~stranger
         \/ /\ left > 0
            /\ UNCHANGED <<killer, verdict>>
         \/ /\ left > 0
            /\ IF next = None THEN killer' = "idle" /\ verdict' = FALSE
               ELSE killer' = next /\ UNCHANGED verdict

KillerStep ==
  \/ Look("look", "term") \/ SignalGroup("term", "wait", FALSE) \/ WaitClear("wait", "relook")
  \/ Look("relook", "kill") \/ SignalGroup("kill", "rewait", TRUE) \/ WaitClear("rewait", None)

ReaderStep == Read \/ Poll \/ LookAtGroup \/ Settle

Next ==
  \/ Fork \/ Emit \/ Exit \/ Recycle \/ Collect \/ EndOfOutput
  \/ ReaderStep \/ Terminate \/ KillerStep

\* The reader is a thread of its own, and so is the collector.
Spec == Init /\ [][Next]_vars /\ WF_vars(ReaderStep) /\ WF_vars(Collect)

-----------------------------------------------------------------------------
(* Properties *)

TypeOK ==
  /\ leader \in {"runs", "zombie", "reaped"} /\ code \in {None, 0, 1}
  /\ kids \in 0..MaxKids /\ {stranger, struck} \subseteq BOOLEAN
  /\ written \in 0..MaxWritten /\ {pipe, queue, log} \subseteq 0..MaxWritten
  /\ queue <= QueueMax /\ log <= LogMax
  /\ ended \in {None, "queued", "read"}
  /\ reader \in {"read", "poll", "group", "settle", "done"}
  /\ record.disposition \in {"running", "completed", "failed", "cancelled", "unknown"}
  /\ killer \in {"idle", "look", "term", "wait", "relook", "kill", "rewait"}
  /\ verdict \in {None, TRUE, FALSE}

\* "A recycled pid is not signaled."
StrangersUntouched == ~struck

\* "Return True only when no owned member remains."
StoppedIsGone == verdict = TRUE => ~Owned

\* When the reader is done no process of the command is left, the directory is
\* free, and what is recorded is how the leader ended.
DoneIsGone ==
  reader = "done" =>
    /\ ~Owned
    /\ record.code = code
    /\ record.disposition \in {"cancelled", IF code = 0 THEN "completed" ELSE "failed"}

\* What was read up to the end of the output is all of it, as far as it is kept.
WholeAtTheEnd == ended = "read" => log = (IF written < LogMax THEN written ELSE LogMax)

GroupIsOwned == StrangersUntouched /\ StoppedIsGone /\ DoneIsGone /\ WholeAtTheEnd

\* A command without a process ends, also if somebody still holds its pipe.
Lingers == ~Owned /\ reader # "done"
GroupEnds == Lingers ~> ~Lingers

=============================================================================

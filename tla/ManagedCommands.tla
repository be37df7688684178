--------------------------- MODULE ManagedCommands ---------------------------
(***************************************************************************)
(* Shell commands of one session: CommandExecution (application/command/   *)
(* execution.py).  A tool thread starts a process group and a reader       *)
(* thread, watches it, and publishes it as a background command when it    *)
(* was asked to, when its timeout passes or when its output is too long    *)
(* for one answer.  Publisher and reader may both find that the command    *)
(* has ended: one of them has to tell, and the directory lease has to go   *)
(* back.                                                                   *)
(***************************************************************************)
EXTENDS Naturals

CONSTANTS
  Commands,  \* calls of execute()
  Bound      \* calls made on the thread that bound the turn's directory

VARIABLES
  closed,     \* _closed
  live,       \* _live
  group,      \* the process group: "none", "alive" or "dead"
  caller,     \* where execute() is
  reader,     \* where the reader thread is
  registered, \* Session.commands
  background, \* _LiveCommand.background
  notified,   \* _LiveCommand.notified
  telling,    \* commands whose publisher still has to call notify
  notices,    \* calls of notify, by command
  done,       \* _LiveCommand.done is set
  cancelled,  \* record.cancel_requested
  outcome,    \* record.disposition
  leases,     \* _background_leases
  held,       \* background leases the directory coordinator has granted
  closer      \* close(): where it is, and the commands it still has to stop

threads == <<caller, reader, closer>>
lease   == <<leases, held>>
notice  == <<notified, telling, notices>>
vars    == <<closed, live, group, threads, registered, background, notice,
             done, cancelled, outcome, lease>>

CallerStages == {"idle", "start", "detach", "confine", "watch", "guard", "drop", "register", "promote", "retain",
                 "store", "check", "tell", "returned"}
ReaderStages == {"none", "read", "finish", "release", "claim", "tell", "ended"}

TypeOK ==
  /\ closed \in BOOLEAN
  /\ live \subseteq Commands /\ registered \subseteq Commands
  /\ background \subseteq registered /\ notified \subseteq background
  /\ telling \subseteq notified /\ done \subseteq Commands /\ cancelled \subseteq Commands
  /\ group \in [Commands -> {"none", "alive", "dead"}]
  /\ caller \in [Commands -> CallerStages] /\ reader \in [Commands -> ReaderStages]
  /\ notices \in [Commands -> 0..2]
  /\ outcome \in [Commands -> {"running", "completed", "failed", "cancelled"}]
  /\ leases \subseteq held /\ held \subseteq Bound
  /\ closer \in [at: {"idle", "stop", "clear", "ended"}, items: SUBSET Commands]

Init ==
  /\ closed = FALSE
  /\ live = {} /\ registered = {} /\ background = {} /\ notified = {} /\ telling = {}
  /\ done = {} /\ cancelled = {} /\ leases = {} /\ held = {}
  /\ group = [c \in Commands |-> "none"]
  /\ caller = [c \in Commands |-> "idle"] /\ reader = [c \in Commands |-> "none"]
  /\ notices = [c \in Commands |-> 0]
  /\ outcome = [c \in Commands |-> "running"]
  /\ closer = [at |-> "idle", items |-> {}]

CallerAt(c, at) == caller' = [caller EXCEPT ![c] = at] /\ UNCHANGED <<reader, closer>>
ReaderAt(c, at) == reader' = [reader EXCEPT ![c] = at] /\ UNCHANGED <<caller, closer>>

\* process.terminate(): the group is killed, or it outlives the grace period.
Terminated(c) == group' \in {group, [group EXCEPT ![c] = "dead"]}

-----------------------------------------------------------------------------
(* execute(), on the thread of the tool call.                              *)

\* The checks before the process is started: the call may ask for the
\* background, leave it open, be one that may not get it, or be refused
\* because it may not and asks.
Execute(c) ==
  /\ caller[c] = "idle"
  /\ \E at \in {"start", "detach", "confine", "returned"} :
       CallerAt(c, IF closed THEN "returned" ELSE at)
  /\ UNCHANGED <<closed, live, group, registered, background, notice, done, cancelled,
                 outcome, lease>>

\* start_shell, the entry in _live and the reader thread.
Start(c) ==
  /\ caller[c] \in {"start", "detach", "confine"}
  /\ group' = [group EXCEPT ![c] = "alive"]
  /\ live' = live \cup {c}
  /\ caller' = [caller EXCEPT ![c] = CASE @ = "start"   -> "watch"
                                       [] @ = "detach"  -> "register"
                                       [] @ = "confine" -> "guard"]
  /\ reader' = [reader EXCEPT ![c] = "read"]
  /\ UNCHANGED <<closed, closer, registered, background, notice, done, cancelled,
                 outcome, lease>>

StartFails(c) ==
  /\ caller[c] \in {"start", "detach", "confine"} /\ CallerAt(c, "returned")
  /\ UNCHANGED <<closed, live, group, registered, background, notice, done, cancelled,
                 outcome, lease>>

\* The command ended in time: its output fits the answer, or is kept for later pages.
Ended(c) ==
  /\ caller[c] \in {"watch", "guard"} /\ c \in done
  /\ \E at \in {"drop", "register"} : CallerAt(c, at)
  /\ UNCHANGED <<closed, live, group, registered, background, notice, done, cancelled,
                 outcome, lease>>

\* The timeout passed and the command goes on in the background.
Overruns(c) ==
  /\ caller[c] = "watch" /\ c \notin done
  /\ CallerAt(c, "register")
  /\ UNCHANGED <<closed, live, group, registered, background, notice, done, cancelled,
                 outcome, lease>>

\* The turn was cancelled, or the timeout passed where no background is allowed.
Abandon(c) ==
  /\ caller[c] \in {"watch", "guard"} /\ c \notin done
  /\ cancelled' = cancelled \cup {c}
  /\ Terminated(c)
  /\ CallerAt(c, "drop")
  /\ UNCHANGED <<closed, live, registered, background, notice, done, outcome, lease>>

\* _drop_unpublished.
Drop(c) ==
  /\ caller[c] = "drop"
  /\ live' = live \ {c}
  /\ CallerAt(c, "returned")
  /\ UNCHANGED <<closed, group, registered, background, notice, done, cancelled,
                 outcome, lease>>

\* _publish: register_command, under the session's lock.
Register(c) ==
  /\ caller[c] = "register"
  /\ registered' = registered \cup {c}
  /\ CallerAt(c, "promote")
  /\ UNCHANGED <<closed, live, group, background, notice, done, cancelled, outcome, lease>>

\* Whether the publisher, under the lock, has to tell of the end.
PublisherTells(c) == c \in done /\ c \notin notified

Promote(c) ==
  /\ caller[c] = "promote"
  /\ background' = background \cup {c}
  /\ notified' = IF PublisherTells(c) THEN notified \cup {c} ELSE notified
  /\ telling' = IF PublisherTells(c) THEN telling \cup {c} ELSE telling
  /\ CallerAt(c, "retain")
  /\ UNCHANGED <<closed, live, group, registered, notices, done, cancelled, outcome, lease>>

\* _retain_background: without a binding on this thread there is nothing to inherit.
Retain(c) ==
  /\ caller[c] = "retain"
  /\ held' = IF c \in Bound THEN held \cup {c} ELSE held
  /\ CallerAt(c, IF c \in Bound THEN "store" ELSE "tell")
  /\ UNCHANGED <<closed, live, group, registered, background, notice, done, cancelled,
                 outcome, leases>>

Store(c) ==
  /\ caller[c] = "store"
  /\ leases' = leases \cup {c}
  /\ CallerAt(c, "check")
  /\ UNCHANGED <<closed, live, group, registered, background, notice, done, cancelled,
                 outcome, held>>

\* _release_background: whoever takes the entry out gives the lease back.
Release(c) == leases' = leases \ {c} /\ held' = IF c \in leases THEN held \ {c} ELSE held

\* A publisher that trusts the reader to give the lease back.
NeverMeanwhile(c) == FALSE

\* The command may have ended while its lease was being taken.
EndedMeanwhile(c) == c \in live /\ c \in done

CheckEnd(c) ==
  /\ caller[c] = "check"
  /\ IF EndedMeanwhile(c) THEN Release(c) ELSE UNCHANGED lease
  /\ CallerAt(c, "tell")
  /\ UNCHANGED <<closed, live, group, registered, background, notice, done, cancelled,
                 outcome>>

\* _emit_done when the publisher has to tell; then the answer with the command id.
Answer(c) ==
  /\ caller[c] = "tell"
  /\ telling' = telling \ {c}
  /\ notices' = [notices EXCEPT ![c] = IF c \in telling THEN @ + 1 ELSE @]
  /\ CallerAt(c, "returned")
  /\ UNCHANGED <<closed, live, group, registered, background, notified, done, cancelled,
                 outcome, lease>>

-----------------------------------------------------------------------------
(* The reader thread, _read_until_group_ends, and the processes.           *)

\* The last process of the group exits.
GroupExits(c) ==
  /\ group[c] = "alive"
  /\ group' = [group EXCEPT ![c] = "dead"]
  /\ UNCHANGED <<closed, live, threads, registered, background, notice, done, cancelled,
                 outcome, lease>>

\* No process is left: _settle (the working directory is not modelled).
Settle(c) ==
  /\ reader[c] = "read" /\ group[c] = "dead"
  /\ \E end \in {"completed", "failed"} :
       outcome' = [outcome EXCEPT ![c] = IF c \in cancelled THEN "cancelled" ELSE end]
  /\ ReaderAt(c, "finish")
  /\ UNCHANGED <<closed, live, group, registered, background, notice, done, cancelled, lease>>

\* The log or the output callback raises: only the finally block runs.
ReaderFails(c) ==
  /\ reader[c] = "read" /\ group[c] = "alive"
  /\ ReaderAt(c, "finish")
  /\ UNCHANGED <<closed, live, group, registered, background, notice, done, cancelled,
                 outcome, lease>>

\* done.set()
Finish(c) ==
  /\ reader[c] = "finish"
  /\ done' = done \cup {c}
  /\ ReaderAt(c, "release")
  /\ UNCHANGED <<closed, live, group, registered, background, notice, cancelled, outcome, lease>>

ReaderReleases(c) ==
  /\ reader[c] = "release"
  /\ Release(c)
  /\ ReaderAt(c, "claim")
  /\ UNCHANGED <<closed, live, group, registered, background, notice, done, cancelled, outcome>>

\* Under the lock: does the reader have to tell?
ClaimNotice(c) ==
  /\ reader[c] = "claim"
  /\ LET tells == c \in background \ notified
     IN  /\ notified' = IF tells THEN notified \cup {c} ELSE notified
         /\ ReaderAt(c, IF tells THEN "tell" ELSE "ended")
  /\ UNCHANGED <<closed, live, group, registered, background, telling, notices, done,
                 cancelled, outcome, lease>>

ReaderTellsEnd(c) ==
  /\ reader[c] = "tell"
  /\ notices' = [notices EXCEPT ![c] = @ + 1]
  /\ ReaderAt(c, "ended")
  /\ UNCHANGED <<closed, live, group, registered, background, notified, telling, done,
                 cancelled, outcome, lease>>

-----------------------------------------------------------------------------
(* terminate_command and close().                                          *)

\* The reason is recorded and the group is stopped; then the tool waits a while.
Terminate(c) ==
  /\ c \in registered \cap live /\ c \notin done
  /\ cancelled' = cancelled \cup {c}
  /\ Terminated(c)
  /\ UNCHANGED <<closed, live, threads, registered, background, notice, done, outcome, lease>>

\* The first locked part.
Close ==
  /\ ~closed /\ closed' = TRUE
  /\ closer' = [at |-> "stop", items |-> live]
  /\ UNCHANGED <<live, group, caller, reader, registered, background, notice, done,
                 cancelled, outcome, lease>>

\* One command is stopped; the wait for its reader may run out.
StopOne(c) ==
  /\ closer.at = "stop" /\ c \in closer.items
  /\ closer' = [closer EXCEPT !.items = @ \ {c}]
  /\ IF c \in done
     THEN UNCHANGED <<group, cancelled>>
     ELSE /\ Terminated(c)
          /\ cancelled' = IF c \in registered /\ outcome[c] = "running"
                          THEN cancelled \cup {c} ELSE cancelled
  /\ UNCHANGED <<closed, live, caller, reader, registered, background, notice, done,
                 outcome, lease>>

Clear ==
  /\ closer.at = "stop" /\ closer.items = {}
  /\ closer' = [closer EXCEPT !.at = "ended"]
  /\ live' = {}
  /\ UNCHANGED <<closed, group, caller, reader, registered, background, notice, done,
                 cancelled, outcome, lease>>

-----------------------------------------------------------------------------
CallerStep(c) ==
  \/ Execute(c) \/ Start(c) \/ StartFails(c) \/ Ended(c) \/ Overruns(c) \/ Abandon(c)
  \/ Drop(c) \/ Register(c) \/ Promote(c) \/ Retain(c) \/ Store(c) \/ CheckEnd(c) \/ Answer(c)

ReaderStep(c) ==
  \/ Settle(c) \/ ReaderFails(c) \/ Finish(c) \/ ReaderReleases(c) \/ ClaimNotice(c)
  \/ ReaderTellsEnd(c)

Next ==
  \/ \E c \in Commands : \/ CallerStep(c) \/ ReaderStep(c) \/ GroupExits(c)
                         \/ Terminate(c) \/ StopOne(c)
  \/ Close \/ Clear

Spec == Init /\ [][Next]_vars

-----------------------------------------------------------------------------
\* When publisher and reader are both through with a command, a background
\* command has been told of exactly once and a foreground command never, and
\* its lease is back in the coordinator unless close() took the entry away.
ToldOnceAndReleased ==
  \A c \in Commands : caller[c] = "returned" /\ reader[c] = "ended" =>
    /\ notices[c] = IF c \in background THEN 1 ELSE 0
    /\ c \in held => closed

\* A command that goes on in the background after its tool call returned, and
\* is still being read, occupies its directory (execution/directory.py:3-5).
BackgroundHoldsDirectory ==
  \A c \in background : caller[c] = "returned" /\ reader[c] = "read" => c \in held
=============================================================================

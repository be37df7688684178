---------------------------- MODULE RuntimeAssembly ----------------------------
(***************************************************************************)
(* How the runtime of a session is put together, and how it is taken apart *)
(* again: assemble_runtime() makes one resource after the other, a failure *)
(* in a guarded place hands what was made to _OpenedRuntime.abort(), and   *)
(* shutdown_runtime() ends a runtime that was handed out, whoever calls it *)
(* first (application/composition/runtime.py).                             *)
(***************************************************************************)
EXTENDS Naturals, FiniteSets

CONSTANTS
  Callers,    \* threads that call shutdown_runtime
  MaxRefusals \* bound: closings that raise

RuntimeAssemblyAssumption == MaxRefusals \in Nat

VARIABLES
  given,    \* what the caller passed in: "host", "publisher", "broker"
  stage,    \* the step of the assembly, or what became of it
  open,     \* what is open
  opened,   \* the fields of _OpenedRuntime
  owner,    \* owns_application_host
  complete, \* shutdown_complete
  todo,     \* what abort or the one shutdown that runs has yet to close
  calls,    \* the callers of shutdown_runtime
  late,     \* the host was closed while a job of it runs: a thread waits for that
  closings, \* history: closings of each resource by abort and shutdown_runtime
  refused   \* history: what raised when it was closed

vars == <<given, stage, open, opened, owner, complete, todo, calls, late, closings, refused>>

Resources == {"store", "background", "commands", "loops", "mcp", "publisher", "host", "broker"}

\* The steps of assemble_runtime, each with the one that follows it.
Following ==
  [store |-> "adopt", adopt |-> "commands", commands |-> "loops", loops |-> "hooks",
   hooks |-> "mcp", mcp |-> "publisher", publisher |-> "tools", tools |-> "host",
   host |-> "agent", agent |-> "start", start |-> "ready"]

Steps == DOMAIN Following

\* A failure in one of these is caught and aborts.  In the others the exception
\* leaves assemble_runtime and what was made stays.
Guarded == {"hooks", "mcp", "start"}

Init ==
  /\ given \in SUBSET {"host", "publisher", "broker"}
  /\ stage = "store" /\ open = given
  /\ opened = given \intersect {"broker", "host"}
  /\ owner \in BOOLEAN /\ ("host" \in given => ~owner)
  /\ complete = FALSE /\ todo = {} /\ calls = {} /\ late = FALSE
  /\ closings = [r \in Resources |-> 0] /\ refused = {}

\* What a step makes.  The store of a host that was passed in is that host's.
Makes(step) ==
  CASE step = "store"     -> {"store"}
    [] step = "commands"  -> {"commands", "background"}
    [] step = "loops"     -> {"loops"}
    [] step = "mcp"       -> {"mcp"}
    [] step = "publisher" -> {"publisher"} \ given
    [] step = "host"      -> {"host"} \ given
    [] OTHER              -> {}

NextStep(step) == Following[step]

\* The McpManager is recorded when its servers have started.
RecordedStarted(step) == Makes(step) \ {"mcp"}

\* It is recorded before: start() may raise with servers running.
RecordedAtFailure(step) == Makes(step)

\* close() of a host closes the stores it has.
ClosedBy(r) == IF r = "host" THEN {"host", "store"} ELSE {r}

-----------------------------------------------------------------------------
(* assemble_runtime *)

\* The host takes the store over, or closes it and has one of that session.
Adopt ==
  /\ stage = "adopt" /\ "host" \in given
  /\ open' = open \ {"store"} /\ opened' = opened \ {"store"}
  /\ stage' = NextStep(stage)
  /\ UNCHANGED <<given, owner, complete, todo, calls, late, closings, refused>>

Make ==
  /\ stage \in Steps
  /\ stage = "adopt" => "host" \notin given
  /\ open' = open \union Makes(stage)
  /\ opened' = opened \union Makes(stage)
  /\ stage' = NextStep(stage)
  /\ UNCHANGED <<given, owner, complete, todo, calls, late, closings, refused>>

\* abort(): a host that was passed in is not closed, nor is its store, and a
\* publisher is closed only if it is the runtime's own.
ToAbort(made) == {r \in made : r \in given => r = "broker"}

\* A guarded step raises, after it has made its part or before.  A host that
\* cannot start closes itself; one that was passed in runs already.
FailGuarded ==
  /\ stage \in Guarded
  /\ \/ UNCHANGED <<open, opened>>
     \/ /\ stage = "start" /\ "host" \notin given
        /\ open' = open \ ClosedBy("host") /\ UNCHANGED opened
     \/ /\ open' = open \union Makes(stage)
        /\ opened' = opened \union RecordedAtFailure(stage)
  /\ stage' = "aborting" /\ todo' = ToAbort(opened')
  /\ UNCHANGED <<given, owner, complete, calls, late, closings, refused>>

\* The host refuses: the store is closed again, nothing else is there.
FailAdopt ==
  /\ stage = "adopt" /\ "host" \in given
  /\ stage' = "aborted"
  /\ open' = open \ {"store"} /\ opened' = opened \ {"store"}
  /\ closings' = [closings EXCEPT !["store"] = @ + 1]
  /\ UNCHANGED <<given, owner, complete, todo, calls, late, refused>>

\* load_lifecycle_manager has errors that are not caught, too.
FailUnguarded ==
  /\ stage \in Steps \ {"adopt", "mcp", "start"}
  /\ stage' = "left"
  /\ UNCHANGED <<given, open, opened, owner, complete, todo, calls, late, closings, refused>>

-----------------------------------------------------------------------------
(* shutdown_runtime *)

\* A host of the session's own is closed, one that a directory retains is not;
\* questions and publisher are closed also if they were passed in.
ToShutdown ==
  {r \in opened \union {"publisher"} : r # "store" /\ (r = "host" => owner)}

Call(c) ==
  /\ stage \in {"ready", "ending"} /\ c \notin calls
  /\ calls' = calls \union {c}
  /\ IF ~complete
       THEN /\ complete' = TRUE /\ stage' = "ending"
            /\ todo' = todo \union ToShutdown
       ELSE UNCHANGED <<complete, stage, todo>>
  /\ UNCHANGED <<given, open, opened, owner, late, closings, refused>>

-----------------------------------------------------------------------------
(* The closings of both *)

\* The order of the closings.
Order ==
  IF stage = "aborting"
    THEN [commands |-> 1, broker |-> 2, loops |-> 3, host |-> 4, background |-> 5,
          store |-> 6, mcp |-> 7, publisher |-> 8]
    ELSE [broker |-> 1, commands |-> 2, loops |-> 3, host |-> 4, background |-> 5,
          mcp |-> 6, publisher |-> 7, store |-> 8]

IsFirst(r) == r \in todo /\ \A q \in todo : Order[r] <= Order[q]

Close(r) ==
  /\ IsFirst(r)
  /\ open' = open \ ClosedBy(r)
  /\ closings' = [closings EXCEPT ![r] = @ + 1]
  /\ todo' = todo \ {r}
  /\ UNCHANGED <<given, stage, opened, owner, complete, calls, late, refused>>

\* A host whose job does not end in time is closed with its stores by a thread
\* that waits for the job; the rest goes on.
CloseLate ==
  /\ IsFirst("host") /\ "host" \in open
  /\ late' = TRUE
  /\ closings' = [closings EXCEPT !["host"] = @ + 1]
  /\ todo' = todo \ {"host"}
  /\ UNCHANGED <<given, stage, open, opened, owner, complete, calls, refused>>

FinishClose ==
  /\ late
  /\ late' = FALSE /\ open' = open \ ClosedBy("host")
  /\ UNCHANGED <<given, stage, opened, owner, complete, todo, calls, closings, refused>>

\* A closing raises, or what belongs to it: the commands are marked as cancelled
\* and, in a shutdown, images that were not sent are removed.  Of an abort the next
\* `finally` goes on, once commands and questions are closed; a shutdown ends.
GoesOn(r) ==
  /\ stage = "aborting"
  /\ r \in {"loops", "host", "background", "store"}

Refuse(r) ==
  /\ IsFirst(r) /\ Cardinality(refused) < MaxRefusals
  /\ refused' = refused \union {r}
  /\ closings' = [closings EXCEPT ![r] = @ + 1]
  /\ todo' = IF GoesOn(r) THEN todo \ {r} ELSE {}
  /\ UNCHANGED <<given, stage, open, opened, owner, complete, calls, late>>

EndRelease ==
  /\ todo = {} /\ stage \in {"aborting", "ending"}
  /\ stage' = IF stage = "aborting" THEN "aborted" ELSE "ended"
  /\ UNCHANGED <<given, open, opened, owner, complete, todo, calls, late, closings, refused>>

Next ==
  \/ Make \/ Adopt \/ FailGuarded \/ FailAdopt \/ FailUnguarded
  \/ CloseLate \/ FinishClose \/ EndRelease
  \/ \E r \in Resources : Close(r) \/ Refuse(r)
  \/ \E c \in Callers : Call(c)

Spec == Init /\ [][Next]_vars

-----------------------------------------------------------------------------
(* Properties *)

TypeOK ==
  /\ given \subseteq {"host", "publisher", "broker"}
  /\ stage \in Steps \union {"ready", "aborting", "aborted", "left", "ending", "ended"}
  /\ open \union opened \union refused \union todo \subseteq Resources
  /\ calls \subseteq Callers /\ {owner, complete, late} \subseteq BOOLEAN
  /\ closings \in [Resources -> Nat]

\* What the thread of the host has yet to close.
Late == IF late THEN ClosedBy("host") ELSE {}

\* An assembly that was aborted leaves nothing of its own, but what would not be
\* closed or closes later; and it leaves what was passed in, but the questions of
\* the session.
AbortReleases ==
  stage = "aborted" =>
    /\ open \ given \subseteq refused \union Late \union (IF "mcp" \in refused THEN {"publisher"} ELSE {})
         \/ refused \intersect {"commands", "broker"} # {}
    /\ given \ {"broker"} \subseteq open

\* A shutdown that does not raise leaves nothing but a retained host, or one that
\* closes later, and the store that this host has taken over.
ShutdownReleases ==
  stage = "ended" /\ refused = {} => open \subseteq (IF owner THEN Late ELSE {"host", "store"})

\* Nothing is closed twice, whatever fails and whoever ends the runtime; only
\* the store is closed by its host and once more.
ClosedOnce == \A r \in Resources : closings[r] <= 1

\* What others use is closed after them: "Do not tear down the durable store beneath
\* an unavoidable synchronous model/tool call" (host.py), which an abort does to a
\* host that closes later; and the publisher after all that publish.
UsersGoFirst ==
  /\ "host" \in open \ given /\ refused = {} =>
       "store" \in open \/ (late /\ stage \in {"aborting", "aborted"})
  /\ stage = "ending" /\ "publisher" \notin open /\ refused = {} =>
       open \subseteq (IF owner THEN Late ELSE {"host", "store"})

RuntimeIsReleased == AbortReleases /\ ShutdownReleases /\ ClosedOnce /\ UsersGoFirst

=============================================================================

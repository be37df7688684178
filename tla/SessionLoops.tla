----------------------------- MODULE SessionLoops -----------------------------
(***************************************************************************)
(* Recurring prompts of a session (application/session/loops.py): the      *)
(* registry, its thread that sleeps until a loop is due and the agent is   *)
(* idle and then puts LOOP_DUE into the event queue, and the session's     *)
(* consumer that runs the tick (application/session/dispatch.py).          *)
(*                                                                         *)
(* A loop is due when its interval has passed since it was created or its  *)
(* last tick ended; the clock itself is left out.                          *)
(***************************************************************************)
EXTENDS Naturals, Sequences, FiniteSets, SequencesExt, FiniteSetsExt

CONSTANTS
  None,
  Loops,      \* ids, each given to one loop
  MaxLoops,   \* max_loops
  MaxInputs   \* bound: messages of the user

SessionLoopsAssumption ==
  /\ MaxLoops \in Nat \ {0} /\ MaxInputs \in Nat
  /\ IsFiniteSet(Loops) /\ {None, "USER_INPUT", "EXIT"} \cap Loops = {}

VARIABLES
  loops,     \* the registry: each loop's [state, due, pending]
  wake,      \* _wake
  closed,    \* _closed
  thread,    \* [at, waits, todo]: the registry's thread
  queue,     \* the event queue of the session
  idle,      \* agent_idle
  consumer,  \* [at, event]: the thread of the SessionRunner
  inputs     \* messages of the user so far

vars == <<loops, wake, closed, thread, queue, idle, consumer, inputs>>

Input == "USER_INPUT"
Exit  == "EXIT"

Record(state) == [state |-> state, due |-> FALSE, pending |-> FALSE]

Started == [at |-> "top", waits |-> None, todo |-> <<>>]

Init ==
  /\ loops = [l \in Loops |-> Record("new")]
  /\ wake = FALSE /\ closed = FALSE
  /\ thread = Started
  /\ queue = <<>> /\ idle = TRUE
  /\ consumer = [at |-> "get", event |-> None]
  /\ inputs = 0

Held    == {l \in Loops : loops[l].state = "open"}
Waiting == {l \in Held : ~loops[l].pending}

At(pc) == thread.at = pc
Go(pc) == thread' = [thread EXCEPT !.at = pc]

-----------------------------------------------------------------------------
(* The operations of the registry *)

\* The user's /loop command, or manage_loop in a turn.
Create(l) ==
  /\ loops[l].state = "new" /\ ~closed /\ Cardinality(Held) < MaxLoops
  /\ loops' = [loops EXCEPT ![l] = Record("open")]
  /\ wake' = TRUE
  /\ UNCHANGED <<closed, thread, queue, idle, consumer, inputs>>

Stop(l) ==
  /\ l \in Held /\ ~closed
  /\ loops' = [loops EXCEPT ![l].state = "stopped"]
  /\ wake' = TRUE
  /\ UNCHANGED <<closed, thread, queue, idle, consumer, inputs>>

\* Time passes.
Elapse(l) ==
  /\ l \in Held /\ ~loops[l].due
  /\ loops' = [loops EXCEPT ![l].due = TRUE]
  /\ UNCHANGED <<wake, closed, thread, queue, idle, consumer, inputs>>

-----------------------------------------------------------------------------
(* _run, on the thread of the registry *)

ClearWake ==
  /\ At("top") /\ wake' = FALSE /\ Go("look")
  /\ UNCHANGED <<loops, closed, queue, idle, consumer, inputs>>

\* With the lock: the next loop to come due, if one waits.
Look ==
  /\ At("look")
  /\ \/ closed /\ Go("ended")
     \/ ~closed /\ Waiting = {} /\ Go("forever")
     \/ ~closed /\ \E l \in Waiting :
          /\ loops[l].due \/ \A o \in Waiting : ~loops[o].due
          /\ thread' = [thread EXCEPT !.at = IF loops[l].due THEN "busy" ELSE "timed",
                                      !.waits = l]
  /\ UNCHANGED <<loops, wake, closed, queue, idle, consumer, inputs>>

\* A wait is ended by an operation, and one with a timeout by the time.
Awake ==
  /\ thread.at \in {"forever", "timed"} /\ wake
  /\ Go("top")
  /\ UNCHANGED <<loops, wake, closed, queue, idle, consumer, inputs>>

TimeOut ==
  /\ At("timed") /\ ~wake
  /\ thread.waits \in Held => loops[thread.waits].due
  /\ Go("busy")
  /\ UNCHANGED <<loops, wake, closed, queue, idle, consumer, inputs>>

\* _wait_until_idle looks at both every 0.2 seconds.
WaitIdle ==
  /\ At("busy")
  /\ \/ closed /\ Go("ended")
     \/ ~closed /\ idle /\ Go("collect")
  /\ UNCHANGED <<loops, wake, closed, queue, idle, consumer, inputs>>

Collect ==
  /\ At("collect")
  /\ \/ closed /\ Go("ended")
     \/ /\ ~closed
        /\ thread' = [thread EXCEPT !.at = "next",
                        !.todo = SetToSeq({l \in Waiting : loops[l].due})]
  /\ UNCHANGED <<loops, wake, closed, queue, idle, consumer, inputs>>

\* _enqueue_due: the mark with the lock, the event after it.
Marks(l) == ~closed /\ l \in Waiting

Mark ==
  /\ At("next") /\ thread.todo # <<>>
  /\ LET l == Head(thread.todo) IN
       IF Marks(l)
         THEN /\ loops' = [loops EXCEPT ![l].pending = TRUE]
              /\ Go("put")
         ELSE /\ thread' = [thread EXCEPT !.todo = Tail(@)]
              /\ UNCHANGED loops
  /\ UNCHANGED <<wake, closed, queue, idle, consumer, inputs>>

Put ==
  /\ At("put")
  /\ queue' = Append(queue, Head(thread.todo))
  /\ thread' = [thread EXCEPT !.at = "next", !.todo = Tail(@)]
  /\ UNCHANGED <<loops, wake, closed, idle, consumer, inputs>>

Again ==
  /\ At("next") /\ thread.todo = <<>> /\ thread' = Started
  /\ UNCHANGED <<loops, wake, closed, queue, idle, consumer, inputs>>

-----------------------------------------------------------------------------
(* The consumer of the session *)

UserInput ==
  /\ inputs < MaxInputs /\ Exit \notin Range(queue) /\ consumer.at # "closing" /\ ~closed
  /\ queue' = Append(queue, Input) /\ inputs' = inputs + 1
  /\ UNCHANGED <<loops, wake, closed, thread, idle, consumer>>

RequestClose ==
  /\ Exit \notin Range(queue) /\ consumer.at \notin {"closing", "ended"}
  /\ queue' = Append(queue, Exit)
  /\ UNCHANGED <<loops, wake, closed, thread, idle, consumer, inputs>>

Get ==
  /\ consumer.at = "get" /\ queue # <<>>
  /\ queue' = Tail(queue)
  /\ consumer' = [at |-> IF Head(queue) = Exit THEN "closing" ELSE "begin", event |-> Head(queue)]
  /\ UNCHANGED <<loops, wake, closed, thread, idle, inputs>>

\* agent_idle is cleared, then begin_tick looks whether the loop is still there.
Busy ==
  /\ consumer.at = "begin"
  /\ idle' = FALSE
  /\ consumer' = [consumer EXCEPT !.at = "tick"]
  /\ UNCHANGED <<loops, wake, closed, thread, queue, inputs>>

\* A tick that is begun without a look.
BeginsAnyway(l) == TRUE

Begins(l) == l \in Held /\ loops[l].pending

BeginTick ==
  /\ consumer.at = "tick"
  /\ LET runs == consumer.event = Input \/ Begins(consumer.event)
     IN  consumer' = [consumer EXCEPT !.at = IF runs THEN "run" ELSE "finish"]
  /\ UNCHANGED <<loops, wake, closed, thread, queue, idle, inputs>>

\* The turn or the tick ends, or raises.
EndTurn ==
  /\ consumer.at = "run"
  /\ consumer' = [consumer EXCEPT !.at = "finish"]
  /\ UNCHANGED <<loops, wake, closed, thread, queue, idle, inputs>>

\* A tick that ends without waking the thread.
WakesNot == FALSE

Wakes == TRUE

FinishTick ==
  /\ consumer.at = "finish"
  /\ IF consumer.event \in Held
       THEN /\ loops' = [loops EXCEPT ![consumer.event] = Record("open")]
            /\ wake' = (wake \/ Wakes)
       ELSE UNCHANGED <<loops, wake>>
  /\ consumer' = [consumer EXCEPT !.at = "idle"]
  /\ UNCHANGED <<closed, thread, queue, idle, inputs>>

SetIdle ==
  /\ consumer.at = "idle"
  /\ idle' = TRUE
  /\ consumer' = [at |-> "get", event |-> None]
  /\ UNCHANGED <<loops, wake, closed, thread, queue, inputs>>

\* close(), from the shutdown of the runtime
Close ==
  /\ consumer.at = "closing"
  /\ closed' = TRUE /\ wake' = TRUE
  /\ consumer' = [consumer EXCEPT !.at = "ended"]
  /\ UNCHANGED <<loops, thread, queue, idle, inputs>>

-----------------------------------------------------------------------------

ThreadStep ==
  ClearWake \/ Look \/ Awake \/ TimeOut \/ WaitIdle \/ Collect \/ Mark \/ Put \/ Again

ConsumerStep ==
  Get \/ Busy \/ BeginTick \/ EndTurn \/ FinishTick \/ SetIdle \/ Close

Next ==
  \/ ThreadStep \/ ConsumerStep \/ UserInput \/ RequestClose
  \/ \E l \in Loops : Create(l) \/ Stop(l) \/ Elapse(l)

\* Threads run, turns end, time passes; and who waits for agent_idle is woken
\* each time it is set.
Fairness ==
  /\ WF_vars(ThreadStep) /\ SF_vars(WaitIdle)
  /\ WF_vars(ConsumerStep)
  /\ \A l \in Loops : WF_vars(Elapse(l))

Spec == Init /\ [][Next]_vars /\ Fairness

-----------------------------------------------------------------------------
(* Properties *)

TypeOK ==
  /\ loops \in [Loops -> [state : {"new", "open", "stopped"}, due : BOOLEAN, pending : BOOLEAN]]
  /\ Range(queue) \subseteq Loops \union {Input, Exit}
  /\ thread.at \in {"top", "look", "forever", "timed", "busy", "collect", "next", "put", "ended"}
  /\ consumer.at \in {"get", "begin", "tick", "run", "finish", "idle", "closing", "ended"}
  /\ {wake, closed, idle} \subseteq BOOLEAN

\* Events of one loop that are on their way or at work.
Underway(l) ==
  Cardinality({n \in DOMAIN queue : queue[n] = l})
    + (IF consumer.event = l /\ consumer.at # "idle" THEN 1 ELSE 0)
    + (IF At("put") /\ Head(thread.todo) = l THEN 1 ELSE 0)

\* However long the agent was busy, a loop has one tick to come, and that one
\* only after its interval ("missed periods are merged into one").
TicksAreMerged ==
  \A l \in Held :
    /\ Underway(l) = IF loops[l].pending THEN 1 ELSE 0
    /\ loops[l].pending => loops[l].due

\* A tick that begins is one of a loop that was not stopped before.
StoppedNeverBegins ==
  [][\A l \in Loops :
       consumer'.at = "run" /\ consumer.at # "run" /\ consumer.event = l => l \in Held]_vars

\* A loop that stands and does not tick.
Rests(l) ==
  /\ l \in Held /\ ~closed /\ Exit \notin Range(queue)
  /\ consumer # [at |-> "run", event |-> l]

\* A loop ticks again and again, until it is stopped or the session is closed,
\* between the turns of the user and the ticks of others.
LoopsGoOn == \A l \in Loops : Rests(l) ~> ~Rests(l)

=============================================================================

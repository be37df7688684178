----------------------------- MODULE SessionProofs -----------------------------
(***************************************************************************)
(* Proofs about the parts of a session, for every value of their           *)
(* constants: its commands, its questions, the authority, the shell        *)
(* commands, the tool calls of a step and the directory of open sessions.  *)
(* The end of each part states what MCSession checks of it.                *)
(*                                                                         *)
(* Of the commands: for any commands, any number of callers and any number *)
(* of deaths, a command is run at most once, and not at all after its      *)
(* cancellation was reported; a stop reaches the turn it was meant for.    *)
(* BeganAtMostOnce is not inductive.  What makes it so is where a command  *)
(* that was submitted once can be: with the caller that submits it, in the *)
(* event queue and in _queued, or with the worker, never in two of them;   *)
(* and that who is about to report its cancellation holds it before the    *)
(* worker can take it, by the mark that is set under the lock.             *)
(***************************************************************************)
EXTENDS MCSession, FiniteSetTheorems, WellFoundedInduction, TLAPS

-----------------------------------------------------------------------------
(* The inductive invariant.                                                *)

\* A command that goes through the caller's queueing is a turn, and a turn never
\* goes through the handling of a stop.
CallsInOrder ==
  \A h \in Callers :
    /\ call[h].id \in Turns => call[h].at \in {"accept", "look", "queue", "put"}
    /\ call[h].at \in {"look", "queue", "put"} => call[h].id \in Turns

\* Where the worker is with a turn that it has not refused.
Turning == {"claim", "begin", "acquire", "start", "turn", "settle"}

\* The turn of the worker is the active one, a stop that it sees was meant for it,
\* and a turn that is over has a result.
WorkerInOrder ==
  /\ worker.at \in Turning => active = worker.cmd /\ worker.cmd \in Turns
  /\ worker.at = "reject" => worker.cmd \in Turns
  /\ worker.at \in {"acquire", "start", "turn", "settle"} /\ stop => worker.cmd \in asked
  /\ worker.at = "settle" => worker.result # "none"

\* A run leaves its mark on the row.
RunsHaveRows ==
  \A c \in Turns :
    /\ began[c] \in {0, 1}
    /\ row[c] \in {"none", "accepted", "queued", "claimed"} => began[c] = 0

Basic == TypeOK /\ CallsInOrder /\ WorkerInOrder /\ RunsHaveRows

\* Nobody but the caller that submits c has it.
Untouched(c) ==
  /\ c \notin queued /\ worker.cmd # c /\ began[c] = 0
  /\ \A i \in DOMAIN events : events[i] # c
  /\ \A h \in Callers : c \notin call[h].targets

\* While one caller submits c, no other one does, and the row has come no further.
OnItsWay(c) ==
  \A h \in Callers :
    call[h].id = c =>
      /\ Untouched(c)
      /\ \A g \in Callers : call[g].id = c => g = h
      /\ row[c] = CASE call[h].at = "accept" -> "none"
                    [] call[h].at = "put"    -> "queued"
                    [] OTHER                 -> "accepted"

\* A turn that waits is not with the worker and has not begun.
Waiting(c) ==
  c \in queued => worker.cmd # c /\ row[c] \in {"queued", "cancelled"} /\ began[c] = 0

\* It has one event.
OneEvent(c) ==
  \A i \in DOMAIN events :
    events[i] = c => c \in queued /\ \A j \in DOMAIN events : events[j] = c => i = j

\* A turn that the worker has was accepted, and one that it refuses has not begun.
Held(c) ==
  worker.cmd = c =>
    /\ row[c] # "none"
    /\ worker.at = "reject" => row[c] \in {"queued", "cancelled"} /\ began[c] = 0

\* A turn that somebody is about to report as cancelled cannot begin any more.
Aimed(c) ==
  \A h \in Callers :
    c \in call[h].targets =>
      /\ began[c] = 0
      /\ \/ c \in queued \cap cancelled
         \/ worker.at = "reject" /\ worker.cmd = c
         \/ row[c] \in Terminal

\* Nor can one whose cancellation was reported.
Told(c) == c \in told => row[c] \in Terminal /\ began[c] = 0

Once(c) == OnItsWay(c) /\ Waiting(c) /\ OneEvent(c) /\ Held(c) /\ Aimed(c) /\ Told(c)

Inv == Basic /\ \A c \in Turns \ resent : Once(c)

-----------------------------------------------------------------------------
(* Calls and events.                                                       *)

CallType == [at: {"idle", "accept", "look", "queue", "put", "set", "mark",
                  "cancel", "answer", "refuse", "close"},
             id: Turns \cup Controls \cup {NoTurn}, targets: SUBSET Turns]

WorkerType == [at: {"idle", "reject", "claim", "begin", "acquire", "start", "turn",
                    "settle", "exit"},
               cmd: Turns \cup {NoTurn}, result: {"none", "completed", "failed"}]

LEMMA Types ==
  ASSUME TypeOK
  PROVE  call \in [Callers -> CallType] /\ worker \in WorkerType
BY DEF TypeOK, CallType, WorkerType

LEMMA Advanced ==
  ASSUME TypeOK, NEW h \in Callers, Advance(h, "look") \/ Advance(h, "queue")
           \/ Advance(h, "put") \/ Advance(h, "set") \/ Advance(h, "mark")
           \/ Advance(h, "answer") \/ Advance(h, "close")
  PROVE  /\ call' \in [Callers -> CallType]
         /\ call'[h].id = call[h].id /\ call'[h].targets = call[h].targets
         /\ \A at : Advance(h, at) => call'[h].at = at
         /\ \A g \in Callers \ {h} : call'[g] = call[g]
BY Types DEF Advance, CallType

LEMMA Returned ==
  ASSUME TypeOK, NEW h \in Callers, Return(h)
  PROVE  /\ call' \in [Callers -> CallType] /\ call'[h] = NoCall
         /\ \A g \in Callers \ {h} : call'[g] = call[g]
BY Types DEF Return, CallType, NoCall

-----------------------------------------------------------------------------
(* The types, the calls, the worker and the rows.                          *)

\* A caller goes on with its command, or is done with it.
LEMMA CallsStay ==
  ASSUME Basic, NEW h \in Callers,
         \/ Return(h)
         \/ (Advance(h, "look") \/ Advance(h, "queue") \/ Advance(h, "put")) /\ call[h].id \in Turns
         \/ (Advance(h, "set") \/ Advance(h, "mark") \/ Advance(h, "answer")
               \/ Advance(h, "close")) /\ call[h].id \notin Turns,
         SessionCommandsAssumption
  PROVE  call' \in [Callers -> CallType] /\ CallsInOrder'
<1>1. CASE Return(h)
  BY <1>1, Returned DEF Basic, CallsInOrder, NoCall, SessionCommandsAssumption
<1>2. CASE (Advance(h, "look") \/ Advance(h, "queue") \/ Advance(h, "put")) /\ call[h].id \in Turns
  BY <1>2, Advanced DEF Basic, CallsInOrder
<1>3. CASE (Advance(h, "set") \/ Advance(h, "mark") \/ Advance(h, "answer")
               \/ Advance(h, "close")) /\ call[h].id \notin Turns
  BY <1>3, Advanced DEF Basic, CallsInOrder
<1> QED
  BY <1>1, <1>2, <1>3

\* What the rows and the worker's step keep.
LEMMA BasicParts ==
  ASSUME TypeOK', CallsInOrder', WorkerInOrder', RunsHaveRows'
  PROVE  Basic'
BY DEF Basic

LEMMA RestTypes ==
  Resting \in WorkerType /\ [h \in Callers |-> NoCall] \in [Callers -> CallType]
BY DEF Resting, NoCall, WorkerType, CallType

LEMMA OpenBasic ==
  ASSUME SessionCommandsAssumption, Basic, Open
  PROVE  /\ Basic' /\ queued' = {c \in Turns : row'[c] = "queued"}
         /\ events' \in Seq(queued')
         /\ \A i, j \in DOMAIN events' : events'[i] = events'[j] => i = j
         /\ \A c \in Turns : /\ row[c] \in Terminal => row'[c] = row[c]
                             /\ row'[c] = "queued" => began[c] = 0
<1>1. row' \in [Turns \cup Controls -> Statuses]
  <2>1. \A s \in Statuses : Recovered(s) \in Statuses
    BY DEF Recovered, Statuses, Terminal
  <2> QED
    BY <2>1 DEF Open, Basic, TypeOK
<1>2. queued' = {c \in Turns : row'[c] = "queued"} /\ queued' \subseteq Turns
  BY DEF Open
<1>3. events' \in Seq(queued') /\ \A i, j \in DOMAIN events' : events'[i] = events'[j] => i = j
  <2>1. Cardinality(queued') \in Nat
    BY <1>2, FS_Subset, FS_CardinalityType DEF SessionCommandsAssumption
  <2>2. events' \in Orders(queued')
    BY DEF Open
  <2> QED
    BY <2>1, <2>2 DEF Orders
<1>4. events' \in Seq(Turns \cup {Exit})
  BY <1>2, <1>3
<1>5. worker' = Resting /\ call' = [h \in Callers |-> NoCall] /\ UNCHANGED history
  BY DEF Open
<1>6. TypeOK'
  <2>1. worker' \in WorkerType /\ call' \in [Callers -> CallType]
    BY <1>5, RestTypes
  <2> QED
    BY <1>1, <1>2, <1>4, <1>5, <2>1 DEF Open, Basic, TypeOK, WorkerType, CallType, history
<1>7. CallsInOrder'
  BY <1>5 DEF CallsInOrder, NoCall, SessionCommandsAssumption
<1>8. WorkerInOrder'
  BY <1>5 DEF WorkerInOrder, Turning, Resting
<1>9. \A c \in Turns : /\ row[c] \in Terminal => row'[c] = row[c]
                       /\ row'[c] \in {"none", "accepted", "queued", "claimed"} =>
                            row[c] \in {"none", "accepted", "queued", "claimed"}
  <2>1. \A c \in Turns : row'[c] = Recovered(row[c]) /\ row[c] \in Statuses
    BY DEF Open, Basic, TypeOK
  <2> QED
    BY <2>1 DEF Recovered, Statuses, Terminal
<1>10. RunsHaveRows'
  BY <1>5, <1>9 DEF Basic, RunsHaveRows, history
<1> QED
  BY <1>2, <1>3, <1>6, <1>7, <1>8, <1>9, <1>10, BasicParts DEF Basic, RunsHaveRows, history

LEMMA DieBasic ==
  ASSUME SessionCommandsAssumption, Basic, Die
  PROVE  Basic'
<1>1. TypeOK'
  <2>1. worker' \in WorkerType /\ call' \in [Callers -> CallType]
    BY RestTypes DEF Die
  <2>2. events' \in Seq(Turns \cup {Exit})
    BY DEF Die
  <2> QED
    BY <2>1, <2>2 DEF Die, Basic, TypeOK, WorkerType, CallType, history
<1>2. CallsInOrder' /\ WorkerInOrder' /\ RunsHaveRows'
  BY DEF Die, Basic, CallsInOrder, WorkerInOrder, RunsHaveRows, Turning, Resting, NoCall,
         history, SessionCommandsAssumption
<1> QED
  BY <1>1, <1>2, BasicParts

\* Steps of the callers that leave the worker, its turn and the rows of begun turns.
LEMMA CallerBasic ==
  ASSUME SessionCommandsAssumption, Basic, TypeOK', CallsInOrder',
         UNCHANGED <<worker, active, began>>,
         stop' => stop \/ active \in asked' \cup {NoTurn}, asked \subseteq asked',
         \A c \in Turns : row'[c] \in {"none", "accepted", "queued", "claimed"} =>
                            row[c] \in {"none", "accepted", "queued", "claimed"}
  PROVE  Basic'
BY BasicParts DEF Basic, WorkerInOrder, RunsHaveRows, Turning, SessionCommandsAssumption

LEMMA BeginBasic ==
  ASSUME SessionCommandsAssumption, Basic, NEW h \in Callers, NEW id \in Turns \cup Controls,
         Begin(h, id)
  PROVE  /\ Basic'
         /\ call'[h].id = id /\ call'[h].at = "accept" /\ call'[h].targets = {}
         /\ \A g \in Callers \ {h} : call'[g] = call[g]
<1>1. /\ call' \in [Callers -> CallType]
      /\ call'[h].id = id /\ call'[h].at = "accept" /\ call'[h].targets = {}
      /\ \A g \in Callers \ {h} : call'[g] = call[g]
  BY Types DEF Begin, Basic, NoCall, CallType
<1>2. CallsInOrder'
  BY <1>1 DEF Basic, CallsInOrder
<1>3. TypeOK'
  BY <1>1 DEF Begin, Basic, TypeOK, CallType, rows, memory
<1> QED
  BY <1>1, <1>2, <1>3, CallerBasic DEF Begin, rows, memory

LEMMA AcceptBasic ==
  ASSUME SessionCommandsAssumption, Basic, NEW h \in Callers, Accept(h)
  PROVE  Basic'
<1>1. row' \in [Turns \cup Controls -> Statuses]
  BY DEF Accept, Basic, TypeOK, Statuses
<1>2. call' \in [Callers -> CallType] /\ CallsInOrder'
  BY CallsStay DEF Accept, FirstStep
<1>3. TypeOK'
  BY <1>1, <1>2 DEF Accept, Basic, TypeOK, CallType, memory, history
<1>4. \A c \in Turns : row'[c] \in {"none", "accepted", "queued", "claimed"} =>
                         row[c] \in {"none", "accepted", "queued", "claimed"}
  BY DEF Accept, Basic, TypeOK
<1> QED
  BY <1>2, <1>3, <1>4, CallerBasic DEF Accept, memory, history

LEMMA LookBasic ==
  ASSUME SessionCommandsAssumption, Basic, NEW h \in Callers, Look(h)
  PROVE  Basic'
<1>1. call' \in [Callers -> CallType] /\ CallsInOrder'
  BY CallsStay DEF Look, Basic, CallsInOrder
<1>2. TypeOK'
  BY <1>1 DEF Look, Basic, TypeOK, CallType, memory, history, rows
<1> QED
  BY <1>1, <1>2, CallerBasic DEF Look, memory, history, rows

LEMMA QueueBasic ==
  ASSUME SessionCommandsAssumption, Basic, NEW h \in Callers, Queue(h)
  PROVE  Basic'
<1>1. row' \in [Turns \cup Controls -> Statuses]
  BY DEF Queue, QueuedFrom, Basic, TypeOK, Statuses
<1>2. call' \in [Callers -> CallType] /\ CallsInOrder'
  BY CallsStay DEF Queue, Basic, CallsInOrder
<1>3. TypeOK'
  BY <1>1, <1>2 DEF Queue, Basic, TypeOK, CallType, memory, history
<1>4. \A c \in Turns : row'[c] \in {"none", "accepted", "queued", "claimed"} =>
                         row[c] \in {"none", "accepted", "queued", "claimed"}
  BY DEF Queue, QueuedFrom, Basic, TypeOK
<1> QED
  BY <1>2, <1>3, <1>4, CallerBasic DEF Queue, memory, history

LEMMA PutBasic ==
  ASSUME SessionCommandsAssumption, Basic, NEW h \in Callers, Put(h)
  PROVE  Basic'
<1>1. call[h].id \in Turns
  BY DEF Put, Basic, CallsInOrder
<1>2. call' \in [Callers -> CallType] /\ CallsInOrder'
  BY CallsStay DEF Put
<1>3. events' \in Seq(Turns \cup {Exit}) /\ queued' \subseteq Turns
  BY <1>1 DEF Put, Basic, TypeOK
<1>4. TypeOK'
  BY <1>2, <1>3 DEF Put, Basic, TypeOK, CallType, history, rows
<1> QED
  BY <1>2, <1>4, CallerBasic DEF Put, history, rows

LEMMA SetStopBasic ==
  ASSUME SessionCommandsAssumption, Basic, NEW h \in Callers, SetStop(h)
  PROVE  Basic'
<1>1. call' \in [Callers -> CallType] /\ CallsInOrder'
  BY CallsStay DEF SetStop, Basic, CallsInOrder
<1>2. TypeOK'
  BY <1>1 DEF SetStop, Basic, TypeOK, CallType, memory, rows
<1> QED
  BY <1>1, <1>2, CallerBasic DEF SetStop, memory, rows

LEMMA MarkBasic ==
  ASSUME SessionCommandsAssumption, Basic, NEW h \in Callers, Mark(h)
  PROVE  /\ Basic' /\ call'[h].id = call[h].id /\ call[h].id \notin Turns
         /\ call'[h].targets \subseteq queued \cap cancelled'
         /\ \A g \in Callers \ {h} : call'[g] = call[g]
<1>1. call[h].id \notin Turns
  BY DEF Mark, Basic, CallsInOrder
<1>2. Targets(call[h].id) \subseteq queued /\ queued \subseteq Turns
  BY DEF Targets, Basic, TypeOK
<1>3. /\ call' \in [Callers -> CallType]
      /\ call'[h].id = call[h].id /\ call'[h].at \in {"refuse", "cancel"}
      /\ call'[h].targets = Targets(call[h].id)
      /\ \A g \in Callers \ {h} : call'[g] = call[g]
  BY <1>2, Types DEF Mark, Basic, CallType
<1>4. CallsInOrder'
  BY <1>1, <1>3 DEF Basic, CallsInOrder
<1>5. TypeOK'
  BY <1>2, <1>3 DEF Mark, Basic, TypeOK, CallType, history, rows
<1> QED
  BY <1>1, <1>2, <1>3, <1>4, <1>5, CallerBasic DEF Mark, history, rows

LEMMA CancelRowBasic ==
  ASSUME SessionCommandsAssumption, Basic, NEW h \in Callers, CancelRow(h)
  PROVE  \E c \in call[h].targets :
           /\ Basic' /\ c \in Turns /\ row' = [row EXCEPT ![c] = CancelledFrom(@)]
           /\ told' = told \cup {c}
           /\ \A g \in Callers : /\ call'[g].id = call[g].id /\ call'[g].at = call[g].at
                                 /\ call'[g].targets \subseteq call[g].targets
<1>1. PICK c \in call[h].targets :
        /\ row' = [row EXCEPT ![c] = CancelledFrom(@)]
        /\ told' = told \cup {c}
        /\ call' = [call EXCEPT ![h].targets = @ \ {c}]
  BY DEF CancelRow
<1>2. c \in Turns
  BY Types DEF Basic, CallType
<1>3. /\ call' \in [Callers -> CallType]
      /\ \A g \in Callers : /\ call'[g].id = call[g].id /\ call'[g].at = call[g].at
                            /\ call'[g].targets \subseteq call[g].targets
  BY <1>1, Types DEF Basic, CallType
<1>4. CallsInOrder'
  BY <1>3 DEF Basic, CallsInOrder
<1>5. row' \in [Turns \cup Controls -> Statuses]
  BY <1>1 DEF CancelledFrom, Basic, TypeOK, Statuses, Terminal
<1>6. TypeOK'
  BY <1>1, <1>2, <1>3, <1>5 DEF CancelRow, Basic, TypeOK, CallType, memory
<1>7. \A d \in Turns : row'[d] \in {"none", "accepted", "queued", "claimed"} =>
                         row[d] \in {"none", "accepted", "queued", "claimed"}
  BY <1>1 DEF CancelledFrom, Basic, TypeOK
<1>8. Basic'
  BY <1>4, <1>6, <1>7, CallerBasic DEF CancelRow, memory
<1> QED
  BY <1>1, <1>2, <1>3, <1>8

LEMMA AnswerBasic ==
  ASSUME SessionCommandsAssumption, Basic, NEW h \in Callers, Answer(h)
  PROVE  Basic' /\ \A c \in Turns : row'[c] = row[c]
<1>1. call[h].id \notin Turns
  BY DEF Answer, Basic, CallsInOrder
<1>2. row' \in [Turns \cup Controls -> Statuses] /\ \A c \in Turns : row'[c] = row[c]
  BY <1>1 DEF Answer, CompletedFrom, Basic, TypeOK, Statuses, Terminal
<1>3. call' \in [Callers -> CallType] /\ CallsInOrder'
  BY CallsStay DEF Answer
<1>4. TypeOK'
  BY <1>2, <1>3 DEF Answer, Basic, TypeOK, CallType, memory, history
<1> QED
  BY <1>2, <1>3, <1>4, CallerBasic DEF Answer, memory, history

LEMMA CloseBeginBasic ==
  ASSUME SessionCommandsAssumption, Basic, NEW h \in Callers, CloseBegin(h)
  PROVE  Basic' /\ call[h].id \notin Turns
<1>1. call[h].id \notin Turns
  BY DEF CloseBegin, Basic, CallsInOrder
<1>2. call' \in [Callers -> CallType] /\ CallsInOrder'
  BY <1>1, CallsStay DEF CloseBegin
<1>3. TypeOK'
  BY <1>2 DEF CloseBegin, Basic, TypeOK, CallType, memory, rows
<1> QED
  BY <1>1, <1>2, <1>3, CallerBasic DEF CloseBegin, memory, rows

LEMMA CloseFinishBasic ==
  ASSUME SessionCommandsAssumption, Basic, NEW h \in Callers, CloseFinish(h)
  PROVE  Basic'
<1>1. call' \in [Callers -> CallType] /\ CallsInOrder'
  BY CallsStay DEF CloseFinish
<1>2. events' \in Seq(Turns \cup {Exit})
  BY DEF CloseFinish, Basic, TypeOK
<1>3. TypeOK'
  BY <1>1, <1>2 DEF CloseFinish, Basic, TypeOK, CallType, history
<1> QED
  BY <1>1, <1>3, CallerBasic DEF CloseFinish, history

LEMMA TakeTurnBasic ==
  ASSUME SessionCommandsAssumption, Basic, TakeTurn
  PROVE  /\ Basic' /\ worker'.cmd = Head(events) /\ Head(events) \in Turns
         /\ worker'.at = IF Head(events) \in cancelled THEN "reject" ELSE "claim"
<1> DEFINE c == Head(events)
<1>1. /\ c \in Turns /\ c # NoTurn /\ events' = Tail(events)
      /\ events' \in Seq(Turns \cup {Exit})
  BY DEF TakeTurn, Basic, TypeOK, SessionCommandsAssumption
<1>2. /\ worker'.cmd = c /\ worker' \in WorkerType
      /\ worker'.at = IF c \in cancelled THEN "reject" ELSE "claim"
  BY <1>1 DEF TakeTurn, Resting, WorkerType
<1>3. TypeOK'
  BY <1>1, <1>2 DEF TakeTurn, Basic, TypeOK, WorkerType, history, rows
<1>4. CallsInOrder' /\ RunsHaveRows'
  BY DEF TakeTurn, Basic, CallsInOrder, RunsHaveRows, history, rows
<1>5. WorkerInOrder'
  BY <1>1, <1>2 DEF TakeTurn, WorkerInOrder, Turning
<1> QED
  BY <1>1, <1>2, <1>3, <1>4, <1>5, BasicParts

LEMMA RejectBasic ==
  ASSUME SessionCommandsAssumption, Basic, Reject
  PROVE  Basic'
<1>1. row' \in [Turns \cup Controls -> Statuses] /\ RunsHaveRows'
  BY DEF Reject, CancelledFrom, Basic, TypeOK, RunsHaveRows, Statuses, Terminal
<1>2. worker' \in WorkerType /\ worker'.at = "idle"
  BY RestTypes DEF Reject, Resting
<1>3. told' \subseteq Turns
  BY DEF Reject, Basic, TypeOK, WorkerInOrder
<1>4. TypeOK'
  BY <1>1, <1>2, <1>3 DEF Reject, Basic, TypeOK, WorkerType, memory
<1>5. CallsInOrder' /\ WorkerInOrder'
  BY <1>2 DEF Reject, Basic, CallsInOrder, WorkerInOrder, Turning
<1> QED
  BY <1>1, <1>4, <1>5, BasicParts

\* The worker goes on with its turn, or rests.
LEMMA WorkerMoved ==
  ASSUME Basic, \/ worker' = Resting
                \/ Goto("begin") \/ Goto("acquire") \/ Goto("start") \/ Goto("turn")
                \/ \E r \in {"completed", "failed"} :
                     worker' = [worker EXCEPT !.at = "settle", !.result = r]
  PROVE  /\ worker' \in WorkerType
         /\ \/ worker' = Resting /\ worker'.at = "idle" /\ worker'.cmd = NoTurn
            \/ /\ worker'.cmd = worker.cmd
               /\ worker'.at \in {"begin", "acquire", "start", "turn", "settle"}
         /\ \A at \in {"begin", "acquire", "start", "turn"} : Goto(at) => worker'.at = at
         /\ worker'.at = "settle" => worker'.result # "none"
<1>1. worker \in WorkerType
  BY Types DEF Basic
<1>2. CASE worker' = Resting
  BY <1>1, <1>2, RestTypes DEF Resting, Goto, WorkerType
<1>3. CASE Goto("begin") \/ Goto("acquire") \/ Goto("start") \/ Goto("turn")
  BY <1>1, <1>3 DEF Goto, WorkerType
<1>4. CASE \E r \in {"completed", "failed"} :
             worker' = [worker EXCEPT !.at = "settle", !.result = r]
  BY <1>1, <1>4 DEF Goto, WorkerType
<1> QED
  BY <1>2, <1>3, <1>4

LEMMA ClaimBasic ==
  ASSUME SessionCommandsAssumption, Basic, Claim
  PROVE  Basic'
<1>1. row' \in [Turns \cup Controls -> Statuses] /\ RunsHaveRows'
  BY DEF Claim, MayClaim, Basic, TypeOK, RunsHaveRows, Statuses, history
<1>2. /\ worker' \in WorkerType
      /\ \/ worker'.at = "begin" /\ worker'.cmd = worker.cmd
         \/ worker'.at = "idle"
  BY WorkerMoved DEF Claim, Resting
<1>3. TypeOK'
  BY <1>1, <1>2 DEF Claim, Basic, TypeOK, WorkerType, memory, history
<1>4. CallsInOrder' /\ WorkerInOrder'
  BY <1>2 DEF Claim, Basic, CallsInOrder, WorkerInOrder, Turning, memory, history
<1> QED
  BY <1>1, <1>3, <1>4, BasicParts

LEMMA BeginTurnBasic ==
  ASSUME SessionCommandsAssumption, Basic, BeginTurn
  PROVE  Basic' /\ worker'.cmd = worker.cmd /\ worker'.at # "reject"
<1>1. /\ worker' \in WorkerType /\ worker'.cmd = worker.cmd
      /\ worker'.at \in {"acquire", "settle"}
      /\ worker'.at = "settle" => worker'.result # "none"
  BY Types DEF BeginTurn, Goto, WorkerType, Basic
<1>2. TypeOK'
  BY <1>1 DEF BeginTurn, StopAtBegin, Basic, TypeOK, WorkerType, memory, rows
<1>3. CallsInOrder' /\ WorkerInOrder' /\ RunsHaveRows'
  BY <1>1 DEF BeginTurn, StopAtBegin, Basic, CallsInOrder, WorkerInOrder, RunsHaveRows,
              Turning, memory, rows
<1> QED
  BY <1>1, <1>2, <1>3, BasicParts

LEMMA AcquireBasic ==
  ASSUME SessionCommandsAssumption, Basic, AcquireDirectory \/ TurnEnds
  PROVE  Basic' /\ worker'.cmd = worker.cmd /\ worker'.at # "reject"
<1>1. /\ worker' \in WorkerType /\ worker'.cmd = worker.cmd
      /\ worker'.at \in {"start", "settle"} /\ worker.at \in {"acquire", "turn"}
      /\ worker'.at = "settle" => worker'.result # "none"
  BY Types DEF AcquireDirectory, TurnEnds, Goto, WorkerType, Basic
<1>2. TypeOK'
  BY <1>1 DEF AcquireDirectory, TurnEnds, Basic, TypeOK, WorkerType, memory, rows, history
<1>3. CallsInOrder' /\ WorkerInOrder' /\ RunsHaveRows'
  BY <1>1 DEF AcquireDirectory, TurnEnds, Basic, CallsInOrder, WorkerInOrder, RunsHaveRows,
              Turning, memory, rows, history
<1> QED
  BY <1>1, <1>2, <1>3, BasicParts

LEMMA StartRunBasic ==
  ASSUME SessionCommandsAssumption, Basic, StartRun
  PROVE  /\ Basic' /\ worker'.cmd = worker.cmd /\ worker'.at # "reject" /\ active = worker.cmd
<1>1. /\ worker' \in WorkerType /\ worker'.cmd = worker.cmd
      /\ worker'.at \in {"turn", "settle"} /\ worker.at = "start"
      /\ worker'.at = "settle" => worker'.result # "none"
  BY Types DEF StartRun, Goto, WorkerType, Basic
<1>2. active = worker.cmd /\ worker.cmd \in Turns
  BY <1>1 DEF Basic, WorkerInOrder, Turning
<1>3. row' \in [Turns \cup Controls -> Statuses] /\ began' \in [Turns -> Nat] /\ RunsHaveRows'
  <2>1. CASE active # NoTurn /\ row[active] = "claimed"
    <3>1. /\ row' = [row EXCEPT ![active] = "running"]
          /\ began' = [began EXCEPT ![active] = @ + 1]
      BY <2>1 DEF StartRun
    <3>2. row' \in [Turns \cup Controls -> Statuses]
      BY <3>1 DEF Basic, TypeOK, Statuses
    <3>3. began' \in [Turns -> Nat]
      BY <1>2, <3>1 DEF Basic, TypeOK
    <3>4. ASSUME NEW c \in Turns
          PROVE  /\ began'[c] \in {0, 1}
                 /\ row'[c] \in {"none", "accepted", "queued", "claimed"} => began'[c] = 0
      <4>1. began[active] = 0
        BY <1>2, <2>1 DEF Basic, RunsHaveRows
      <4>2. CASE c = active
        <5>1. row'[c] = "running" /\ began'[c] = 1
          BY <1>2, <3>1, <4>1, <4>2 DEF Basic, TypeOK
        <5> QED
          BY <5>1
      <4>3. CASE c # active
        <5>1. row'[c] = row[c] /\ began'[c] = began[c]
          BY <3>1, <4>3 DEF Basic, TypeOK
        <5> QED
          BY <5>1 DEF Basic, RunsHaveRows
      <4> QED
        BY <4>2, <4>3
    <3> QED
      BY <3>2, <3>3, <3>4 DEF RunsHaveRows
  <2>2. CASE ~(active # NoTurn /\ row[active] = "claimed")
    <3>1. UNCHANGED <<row, began>>
      BY <2>2 DEF StartRun
    <3> QED
      BY <3>1 DEF Basic, TypeOK, RunsHaveRows
  <2> QED
    BY <2>1, <2>2
<1>4. TypeOK'
  BY <1>1, <1>3 DEF StartRun, Basic, TypeOK, WorkerType, memory
<1>5. CallsInOrder' /\ WorkerInOrder'
  BY <1>1, <1>2 DEF StartRun, Basic, CallsInOrder, WorkerInOrder, Turning, memory
<1> QED
  BY <1>1, <1>2, <1>3, <1>4, <1>5, BasicParts

LEMMA SettleBasic ==
  ASSUME SessionCommandsAssumption, Basic, Settle
  PROVE  /\ Basic' /\ worker'.at = "idle" /\ worker'.cmd = NoTurn
         /\ \E s \in Terminal : row' = [row EXCEPT ![worker.cmd] = CompletedFrom(@, s)]
<1>1. PICK s \in Terminal : row' = [row EXCEPT ![worker.cmd] = CompletedFrom(@, s)]
  <2>1. worker.result \in {"completed", "failed"}
    BY Types DEF Settle, Basic, WorkerInOrder, WorkerType
  <2> QED
    BY <2>1 DEF Settle, TurnStatus, Terminal
<1>2. row' \in [Turns \cup Controls -> Statuses] /\ RunsHaveRows'
  <2>1. CompletedFrom(row[worker.cmd], s) \in Terminal
    BY DEF CompletedFrom
  <2>2. row' \in [Turns \cup Controls -> Statuses]
    BY <1>1, <2>1 DEF Basic, TypeOK, Statuses
  <2>3. \A c \in Turns : row'[c] \in Terminal \/ row'[c] = row[c]
    BY <1>1, <2>1 DEF Basic, TypeOK
  <2> QED
    BY <2>2, <2>3 DEF Settle, Basic, RunsHaveRows, Terminal, history
<1>3. worker' \in WorkerType /\ worker'.at = "idle" /\ worker'.cmd = NoTurn
  BY RestTypes DEF Settle, Resting
<1>4. TypeOK'
  BY <1>2, <1>3 DEF Settle, Basic, TypeOK, WorkerType, history
<1>5. CallsInOrder' /\ WorkerInOrder'
  BY <1>3 DEF Settle, Basic, CallsInOrder, WorkerInOrder, Turning
<1> QED
  BY <1>1, <1>2, <1>3, <1>4, <1>5, BasicParts

LEMMA TakeExitBasic ==
  ASSUME SessionCommandsAssumption, Basic, TakeExit
  PROVE  Basic' /\ worker'.at = "exit" /\ worker'.cmd = NoTurn
<1>1. worker' \in WorkerType /\ worker'.at = "exit" /\ worker'.cmd = NoTurn
  BY DEF TakeExit, Resting, WorkerType
<1>2. events' \in Seq(Turns \cup {Exit})
  BY DEF TakeExit, Basic, TypeOK
<1>3. TypeOK'
  BY <1>1, <1>2 DEF TakeExit, Basic, TypeOK, WorkerType, history, rows
<1>4. CallsInOrder' /\ WorkerInOrder' /\ RunsHaveRows'
  BY <1>1 DEF TakeExit, Basic, CallsInOrder, WorkerInOrder, RunsHaveRows, Turning, history,
              rows
<1> QED
  BY <1>1, <1>3, <1>4, BasicParts

-----------------------------------------------------------------------------
(* One command, submitted once: the worker's steps.                        *)

\* The worker's step concerns its own turn only, which it has for the last time,
\* goes on with, or brings to its end.
LEMMA WorkerOnce ==
  ASSUME SessionCommandsAssumption, Basic, NEW c \in Turns, Once(c),
         UNCHANGED <<queued, cancelled, events, call>>,
         worker'.cmd \in {worker.cmd, NoTurn}, worker'.at # "reject",
         worker.cmd # c =>
           row'[c] = row[c] /\ began'[c] = began[c] /\ (c \in told' => c \in told),
         worker.cmd = c =>
           \/ /\ row'[c] \in Terminal /\ began'[c] = began[c]
              /\ c \in told' => c \in told \/ began[c] = 0
           \/ /\ worker.at # "reject" /\ told' = told
              /\ \/ row'[c] = row[c] /\ began'[c] = began[c]
                 \/ row[c] \notin Terminal /\ row'[c] # "none"
  PROVE  Once(c)'
<1>1. OnItsWay(c)'
  BY DEF Once, OnItsWay, Untouched, SessionCommandsAssumption
<1>2. Waiting(c)' /\ OneEvent(c)'
  BY DEF Once, Waiting, OneEvent, SessionCommandsAssumption
<1>3. Held(c)'
  BY DEF Once, Held, Terminal, SessionCommandsAssumption
<1>4. Aimed(c)'
  BY DEF Once, Aimed, Waiting, SessionCommandsAssumption
<1>5. Told(c)'
  BY DEF Once, Told
<1> QED
  BY <1>1, <1>2, <1>3, <1>4, <1>5 DEF Once

LEMMA TakeTurnOnce ==
  ASSUME SessionCommandsAssumption, Basic, TakeTurn, NEW c \in Turns, Once(c)
  PROVE  Once(c)'
<1> DEFINE d == Head(events)
<1>1. /\ worker'.cmd = d /\ d \in Turns /\ worker.at = "idle"
      /\ worker'.at = IF d \in cancelled THEN "reject" ELSE "claim"
  BY TakeTurnBasic DEF TakeTurn
<1>2. /\ queued' = queued \ {d} /\ cancelled' = cancelled \ {d}
      /\ UNCHANGED <<row, call, began, told>>
  BY DEF TakeTurn, rows, history
<1>3. /\ 1 \in DOMAIN events /\ events[1] = d
      /\ \A i \in DOMAIN events' : i + 1 \in DOMAIN events /\ events'[i] = events[i + 1]
      /\ DOMAIN events' \subseteq Nat \ {0}
  BY DEF TakeTurn, Basic, TypeOK
<1> HIDE DEF d
<1>4. OnItsWay(c)'
  BY <1>1, <1>2, <1>3 DEF Once, OnItsWay, Untouched
<1>5. Waiting(c)'
  BY <1>1, <1>2 DEF Once, Waiting
<1>6. OneEvent(c)'
  <2> SUFFICES ASSUME NEW i \in DOMAIN events', events'[i] = c
               PROVE  c \in queued' /\ \A j \in DOMAIN events' : events'[j] = c => i = j
    BY DEF OneEvent
  <2>1. events[i + 1] = c /\ i + 1 \in DOMAIN events /\ i \in Nat \ {0}
    BY <1>3
  <2>2. c \in queued /\ \A j \in DOMAIN events : events[j] = c => i + 1 = j
    BY <2>1 DEF Once, OneEvent
  <2>3. c # d
    BY <1>3, <2>1, <2>2
  <2>4. \A j \in DOMAIN events' : events'[j] = c => i = j
    BY <1>3, <2>1, <2>2
  <2> QED
    BY <1>2, <2>2, <2>3, <2>4
<1>7. Held(c)'
  BY <1>1, <1>2, <1>3 DEF Once, OneEvent, Waiting, Held
<1>8. Aimed(c)' /\ Told(c)'
  BY <1>1, <1>2 DEF Once, Aimed, Told
<1> QED
  BY <1>4, <1>5, <1>6, <1>7, <1>8 DEF Once

LEMMA RejectOnce ==
  ASSUME SessionCommandsAssumption, Basic, Reject, NEW c \in Turns, Once(c)
  PROVE  Once(c)'
<1>1. worker'.cmd = NoTurn /\ worker'.at # "reject"
  BY DEF Reject, Resting
<1>2. worker.cmd = c => row'[c] = "cancelled" /\ began[c] = 0
  BY DEF Reject, CancelledFrom, Once, Held, Basic, TypeOK
<1>3. worker.cmd # c => row'[c] = row[c] /\ (c \in told' => c \in told)
  BY DEF Reject, Basic, TypeOK
<1> QED
  BY <1>1, <1>2, <1>3, WorkerOnce DEF Reject, memory, Terminal

LEMMA ClaimOnce ==
  ASSUME SessionCommandsAssumption, Basic, Claim, NEW c \in Turns, Once(c)
  PROVE  Once(c)'
<1>1. worker'.cmd \in {worker.cmd, NoTurn} /\ worker'.at # "reject" /\ worker.at # "reject"
  BY WorkerMoved DEF Claim
<1>2. worker.cmd # c => row'[c] = row[c]
  BY DEF Claim, Basic, TypeOK
<1>3. worker.cmd = c => \/ row'[c] = row[c]
                        \/ row[c] \notin Terminal /\ row'[c] # "none"
  BY DEF Claim, MayClaim, Basic, TypeOK, Terminal
<1> QED
  BY <1>1, <1>2, <1>3, WorkerOnce DEF Claim, memory, history

LEMMA GoOnOnce ==
  ASSUME SessionCommandsAssumption, Basic, BeginTurn \/ AcquireDirectory \/ TurnEnds,
         NEW c \in Turns, Once(c)
  PROVE  Once(c)'
<1>1. worker'.cmd = worker.cmd /\ worker'.at # "reject" /\ worker.at # "reject"
  BY BeginTurnBasic, AcquireBasic DEF BeginTurn, AcquireDirectory, TurnEnds
<1> QED
  BY <1>1, WorkerOnce DEF BeginTurn, AcquireDirectory, TurnEnds, memory, history, rows

LEMMA StartRunOnce ==
  ASSUME SessionCommandsAssumption, Basic, StartRun, NEW c \in Turns, Once(c)
  PROVE  Once(c)'
<1>1. /\ worker'.cmd = worker.cmd /\ worker'.at # "reject" /\ worker.at # "reject"
      /\ active = worker.cmd
  BY StartRunBasic DEF StartRun
<1>2. worker.cmd # c => row'[c] = row[c] /\ began'[c] = began[c]
  BY <1>1 DEF StartRun, Basic, TypeOK
<1>3. worker.cmd = c => \/ row'[c] = row[c] /\ began'[c] = began[c]
                        \/ row[c] \notin Terminal /\ row'[c] # "none"
  BY <1>1 DEF StartRun, Basic, TypeOK, Terminal
<1> QED
  BY <1>1, <1>2, <1>3, WorkerOnce DEF StartRun, memory

LEMMA SettleOnce ==
  ASSUME SessionCommandsAssumption, Basic, Settle, NEW c \in Turns, Once(c)
  PROVE  Once(c)'
<1>1. worker'.at = "idle" /\ worker'.cmd = NoTurn
  BY SettleBasic
<1>2. PICK s \in Terminal : row' = [row EXCEPT ![worker.cmd] = CompletedFrom(@, s)]
  BY SettleBasic
<1>3. CompletedFrom(row[worker.cmd], s) \in Terminal
  BY DEF CompletedFrom
<1>4. (worker.cmd = c => row'[c] \in Terminal) /\ (worker.cmd # c => row'[c] = row[c])
  BY <1>2, <1>3 DEF Basic, TypeOK
<1> QED
  BY <1>1, <1>4, WorkerOnce DEF Settle, history

LEMMA TakeExitOnce ==
  ASSUME SessionCommandsAssumption, Basic, TakeExit, NEW c \in Turns, Once(c)
  PROVE  Once(c)'
<1>1. /\ worker'.cmd = NoTurn /\ worker.at = "idle" /\ NoTurn # c
      /\ UNCHANGED <<queued, cancelled, row, call, began, told>>
  BY TakeExitBasic DEF TakeExit, rows, history, SessionCommandsAssumption
<1>2. /\ \A i \in DOMAIN events' : i + 1 \in DOMAIN events /\ events'[i] = events[i + 1]
      /\ DOMAIN events' \subseteq Nat
  BY DEF TakeExit, Basic, TypeOK
<1>3. OnItsWay(c)'
  BY <1>1, <1>2 DEF Once, OnItsWay, Untouched
<1>4. OneEvent(c)'
  BY <1>1, <1>2 DEF Once, OneEvent
<1>5. Waiting(c)' /\ Held(c)' /\ Aimed(c)' /\ Told(c)'
  BY <1>1 DEF Once, Waiting, Held, Aimed, Told
<1> QED
  BY <1>3, <1>4, <1>5 DEF Once

-----------------------------------------------------------------------------
(* One command, submitted once: opening, losing and the callers' steps.    *)

LEMMA OpenOnce ==
  ASSUME SessionCommandsAssumption, Basic, Open, NEW c \in Turns, Once(c)
  PROVE  Once(c)'
<1>1. /\ worker'.cmd = NoTurn /\ worker'.at = "idle" /\ NoTurn # c
      /\ \A h \in Callers : call'[h].id = NoTurn /\ call'[h].targets = {}
      /\ UNCHANGED <<began, told>>
  BY DEF Open, Resting, NoCall, history, SessionCommandsAssumption
<1>2. OnItsWay(c)' /\ Held(c)' /\ Aimed(c)'
  BY <1>1 DEF OnItsWay, Held, Aimed
<1>3. Waiting(c)' /\ OneEvent(c)'
  BY <1>1, OpenBasic DEF Waiting, OneEvent
<1>4. Told(c)'
  BY <1>1, OpenBasic DEF Once, Told
<1> QED
  BY <1>2, <1>3, <1>4 DEF Once

LEMMA DieOnce ==
  ASSUME SessionCommandsAssumption, Basic, Die, NEW c \in Turns, Once(c)
  PROVE  Once(c)'
<1>1. /\ worker'.cmd = NoTurn /\ worker'.at = "idle" /\ NoTurn # c
      /\ \A h \in Callers : call'[h].id = NoTurn /\ call'[h].targets = {}
      /\ queued' = {} /\ DOMAIN events' = {} /\ UNCHANGED <<row, began, told>>
  BY DEF Die, Resting, NoCall, history, SessionCommandsAssumption
<1> QED
  BY <1>1 DEF Once, OnItsWay, Held, Aimed, Waiting, OneEvent, Told

LEMMA BeginOnce ==
  ASSUME SessionCommandsAssumption, Basic, NEW h \in Callers, NEW id \in Turns \cup Controls,
         Begin(h, id), NEW c \in Turns, c \notin resent', Once(c)
  PROVE  Once(c)'
<1>1. /\ UNCHANGED <<row, queued, cancelled, active, events, worker, began, told>>
      /\ call'[h].id = id /\ call'[h].at = "accept" /\ call'[h].targets = {}
      /\ \A g \in Callers \ {h} : call'[g] = call[g]
  BY BeginBasic DEF Begin, rows, memory
<1>2. CASE id = c
  <2>1. row[c] = "none" /\ \A g \in Callers : call[g].id # c
    BY <1>2 DEF Begin
  <2>2. began[c] = 0
    BY <2>1 DEF Basic, RunsHaveRows
  <2>3. c \notin queued /\ worker.cmd # c
    BY <2>1 DEF Once, Waiting, Held
  <2>4. \A i \in DOMAIN events : events[i] # c
    BY <2>3 DEF Once, OneEvent
  <2>5. \A g \in Callers : c \notin call[g].targets
    BY <2>1, <2>3 DEF Once, Aimed, Terminal
  <2>6. Untouched(c)'
    BY <1>1, <2>2, <2>3, <2>4, <2>5 DEF Untouched
  <2>7. OnItsWay(c)'
    BY <1>1, <1>2, <2>1, <2>6 DEF OnItsWay
  <2>8. Aimed(c)'
    BY <1>1, <2>5 DEF Aimed
  <2> QED
    BY <1>1, <2>7, <2>8 DEF Once, Waiting, OneEvent, Held, Told
<1>3. CASE id # c
  <2>1. \A g \in Callers : /\ call'[g].id = c => call[g].id = c /\ call'[g] = call[g]
                           /\ c \in call'[g].targets => c \in call[g].targets
    BY <1>1, <1>3
  <2> QED
    BY <1>1, <2>1 DEF Once, OnItsWay, Untouched, Waiting, OneEvent, Held, Aimed, Told
<1> QED
  BY <1>2, <1>3

\* A step of a caller that holds another command, and of c's row and events
\* changes nothing.
LEMMA OtherOnce ==
  ASSUME SessionCommandsAssumption, Basic, NEW c \in Turns, Once(c),
         UNCHANGED <<queued, worker, began, told>>,
         row'[c] = row[c], cancelled \subseteq cancelled',
         \A i \in DOMAIN events' : events'[i] = c => i \in DOMAIN events /\ events[i] = c,
         \A g \in Callers :
           /\ call'[g].id = c => call[g].id = c /\ call'[g].at = call[g].at
           /\ c \in call'[g].targets => c \in call[g].targets
  PROVE  Once(c)'
<1>1. OnItsWay(c)'
  BY DEF Once, OnItsWay, Untouched
<1>2. Waiting(c)' /\ OneEvent(c)'
  BY DEF Once, Waiting, OneEvent
<1>3. Held(c)' /\ Aimed(c)' /\ Told(c)'
  BY DEF Once, Held, Aimed, Told
<1> QED
  BY <1>1, <1>2, <1>3 DEF Once

\* The caller that submits c goes on with it, or leaves it.
LEMMA OwnOnce ==
  ASSUME SessionCommandsAssumption, Basic, NEW c \in Turns, Once(c),
         NEW h \in Callers, call[h].id = c,
         UNCHANGED <<memory, worker, began, told>>,
         \A g \in Callers \ {h} : call'[g] = call[g],
         \/ call'[h] = NoCall
         \/ /\ call'[h].targets = call[h].targets
            /\ row'[c] = CASE call'[h].at = "accept" -> "none"
                           [] call'[h].at = "put"    -> "queued"
                           [] OTHER                  -> "accepted",
         row'[c] \notin {"none"} \/ row'[c] = row[c]
  PROVE  Once(c)'
<1>1. /\ Untouched(c) /\ row[c] \notin Terminal
      /\ \A g \in Callers : call[g].id = c => g = h
  BY DEF Once, OnItsWay, Terminal
<1>2. UNCHANGED <<queued, cancelled, events>>
  BY DEF memory
<1>3. Untouched(c)'
  BY <1>1, <1>2 DEF Untouched, NoCall
<1>4. OnItsWay(c)'
  BY <1>1, <1>3 DEF OnItsWay, NoCall, SessionCommandsAssumption
<1>5. Waiting(c)' /\ OneEvent(c)' /\ Held(c)' /\ Aimed(c)'
  BY <1>3 DEF Untouched, Waiting, OneEvent, Held, Aimed
<1>6. Told(c)'
  BY <1>1 DEF Once, Told
<1> QED
  BY <1>4, <1>5, <1>6 DEF Once

LEMMA AcceptOnce ==
  ASSUME SessionCommandsAssumption, Basic, NEW h \in Callers, Accept(h),
         NEW c \in Turns, Once(c)
  PROVE  Once(c)'
<1>1. CASE call[h].id = c
  <2>1. row[c] = "none"
    BY <1>1 DEF Accept, Once, OnItsWay
  <2>2. row'[c] = "accepted" /\ Advance(h, "look")
    BY <1>1, <2>1 DEF Accept, Basic, TypeOK
  <2> QED
    BY <1>1, <2>2, Advanced, OwnOnce DEF Accept, Basic, history
<1>2. CASE call[h].id # c
  <2>1. row'[c] = row[c]
    BY <1>2 DEF Accept, Basic, TypeOK
  <2>2. \A g \in Callers : /\ call'[g].id = c => call[g].id = c /\ call'[g] = call[g]
                           /\ c \in call'[g].targets => c \in call[g].targets
    BY <1>2, Advanced, Returned DEF Accept, FirstStep, Basic, NoCall, SessionCommandsAssumption
  <2> QED
    BY <2>1, <2>2, OtherOnce DEF Accept, memory, history
<1> QED
  BY <1>1, <1>2

LEMMA LookOnce ==
  ASSUME SessionCommandsAssumption, Basic, NEW h \in Callers, Look(h),
         NEW c \in Turns, Once(c)
  PROVE  Once(c)'
<1>1. CASE call[h].id = c
  <2>1. row[c] = "accepted"
    BY <1>1 DEF Look, Once, OnItsWay
  <2> QED
    BY <1>1, <2>1, Advanced, OwnOnce DEF Look, Basic, history, rows
<1>2. CASE call[h].id # c
  <2>1. \A g \in Callers : /\ call'[g].id = c => call[g].id = c /\ call'[g] = call[g]
                           /\ c \in call'[g].targets => c \in call[g].targets
    BY <1>2, Advanced, Returned DEF Look, Basic, NoCall, SessionCommandsAssumption
  <2> QED
    BY <2>1, OtherOnce DEF Look, memory, history, rows
<1> QED
  BY <1>1, <1>2

LEMMA QueueOnce ==
  ASSUME SessionCommandsAssumption, Basic, NEW h \in Callers, Queue(h),
         NEW c \in Turns, Once(c)
  PROVE  Once(c)'
<1>1. CASE call[h].id = c
  <2>1. row[c] = "accepted"
    BY <1>1 DEF Queue, Once, OnItsWay
  <2>2. row'[c] = "queued" /\ Advance(h, "put")
    BY <1>1, <2>1 DEF Queue, QueuedFrom, Basic, TypeOK
  <2> QED
    BY <1>1, <2>2, Advanced, OwnOnce DEF Queue, Basic, history
<1>2. CASE call[h].id # c
  <2>1. row'[c] = row[c]
    BY <1>2 DEF Queue, Basic, TypeOK
  <2>2. \A g \in Callers : /\ call'[g].id = c => call[g].id = c /\ call'[g] = call[g]
                           /\ c \in call'[g].targets => c \in call[g].targets
    BY <1>2, Advanced, Returned DEF Queue, Basic, NoCall, SessionCommandsAssumption
  <2> QED
    BY <2>1, <2>2, OtherOnce DEF Queue, memory, history
<1> QED
  BY <1>1, <1>2

LEMMA PutOnce ==
  ASSUME SessionCommandsAssumption, Basic, NEW h \in Callers, Put(h),
         NEW c \in Turns, Once(c)
  PROVE  Once(c)'
<1>1. /\ call'[h] = NoCall /\ \A g \in Callers \ {h} : call'[g] = call[g]
      /\ UNCHANGED <<row, cancelled, worker, began, told>>
      /\ queued' = queued \cup {call[h].id}
      /\ events' = IF call[h].id \in queued THEN events ELSE Append(events, call[h].id)
  BY Returned DEF Put, Basic, rows, history
<1>2. CASE call[h].id = c
  <2>1. /\ Untouched(c) /\ row[c] = "queued"
        /\ \A g \in Callers : call[g].id = c => g = h
    BY <1>2 DEF Put, Once, OnItsWay
  <2>2. events' = Append(events, c)
    BY <1>1, <1>2, <2>1 DEF Untouched
  <2>3. \A i \in DOMAIN events' : events'[i] = c => i = Len(events) + 1
    BY <2>1, <2>2 DEF Untouched, Basic, TypeOK
  <2>4. OneEvent(c)'
    BY <1>1, <1>2, <2>3 DEF OneEvent
  <2>5. OnItsWay(c)'
    BY <1>1, <2>1 DEF OnItsWay, NoCall, SessionCommandsAssumption
  <2>6. Waiting(c)' /\ Held(c)'
    BY <1>1, <2>1 DEF Untouched, Waiting, Held
  <2>7. Aimed(c)' /\ Told(c)'
    BY <1>1, <2>1 DEF Untouched, Aimed, Told, NoCall, Once
  <2> QED
    BY <2>4, <2>5, <2>6, <2>7 DEF Once
<1>3. CASE call[h].id # c
  <2>1. /\ \A i \in DOMAIN events' : events'[i] = c => i \in DOMAIN events /\ events[i] = c
        /\ c \in queued' <=> c \in queued
    <3>1. CASE events' = events
      BY <1>1, <1>3, <3>1
    <3>2. CASE events' = Append(events, call[h].id)
      BY <1>1, <1>3, <3>2 DEF Basic, TypeOK
    <3> QED
      BY <1>1, <3>1, <3>2
  <2>2. \A g \in Callers : /\ call'[g].id = c => call[g].id = c /\ call'[g] = call[g]
                           /\ c \in call'[g].targets => c \in call[g].targets
    BY <1>1, <1>3 DEF NoCall, SessionCommandsAssumption
  <2>3. OnItsWay(c)'
    BY <1>1, <2>1, <2>2 DEF Once, OnItsWay, Untouched
  <2>4. Waiting(c)' /\ OneEvent(c)'
    BY <1>1, <2>1 DEF Once, Waiting, OneEvent
  <2>5. Held(c)' /\ Aimed(c)' /\ Told(c)'
    BY <1>1, <2>2 DEF Once, Held, Aimed, Told
  <2> QED
    BY <2>3, <2>4, <2>5 DEF Once
<1> QED
  BY <1>2, <1>3

\* A stop, and a close, is no turn.
LEMMA SetStopOnce ==
  ASSUME SessionCommandsAssumption, Basic, NEW h \in Callers, SetStop(h) \/ CloseBegin(h),
         NEW c \in Turns, Once(c)
  PROVE  Once(c)'
<1>1. call[h].id # c
  BY DEF SetStop, CloseBegin, Basic, CallsInOrder
<1>2. \A g \in Callers : /\ call'[g].id = c => call[g].id = c /\ call'[g].at = call[g].at
                         /\ c \in call'[g].targets => c \in call[g].targets
  <2>1. /\ call'[h].id = call[h].id /\ call'[h].targets = call[h].targets
        /\ \A g \in Callers \ {h} : call'[g] = call[g]
    BY Advanced DEF SetStop, CloseBegin, Basic
  <2> QED
    BY <1>1, <2>1
<1> QED
  BY <1>2, OtherOnce DEF SetStop, CloseBegin, memory, rows

LEMMA MarkOnce ==
  ASSUME SessionCommandsAssumption, Basic, NEW h \in Callers, Mark(h),
         NEW c \in Turns, Once(c)
  PROVE  Once(c)'
<1>1. /\ call'[h].id # c /\ call'[h].targets \subseteq queued \cap cancelled'
      /\ \A g \in Callers \ {h} : call'[g] = call[g]
  BY MarkBasic
<1>2. /\ UNCHANGED <<row, queued, events, worker, began, told>>
      /\ cancelled \subseteq cancelled'
  BY DEF Mark, rows, history
<1>3. OnItsWay(c)'
  BY <1>1, <1>2 DEF Once, OnItsWay, Untouched
<1>4. Aimed(c)'
  <2> SUFFICES ASSUME NEW g \in Callers, c \in call'[g].targets
               PROVE  /\ began[c] = 0
                      /\ \/ c \in queued \cap cancelled'
                         \/ worker.at = "reject" /\ worker.cmd = c
                         \/ row[c] \in Terminal
    BY <1>2 DEF Aimed
  <2>1. CASE g = h
    BY <1>1, <2>1 DEF Once, Waiting
  <2>2. CASE g # h
    BY <1>1, <1>2, <2>2 DEF Once, Aimed
  <2> QED
    BY <2>1, <2>2
<1>5. Waiting(c)' /\ OneEvent(c)' /\ Held(c)' /\ Told(c)'
  BY <1>2 DEF Once, Waiting, OneEvent, Held, Told
<1> QED
  BY <1>3, <1>4, <1>5 DEF Once

LEMMA CancelRowOnce ==
  ASSUME SessionCommandsAssumption, Basic, NEW h \in Callers, CancelRow(h),
         NEW c \in Turns, Once(c)
  PROVE  Once(c)'
<1>1. PICK d \in call[h].targets :
        /\ d \in Turns /\ row' = [row EXCEPT ![d] = CancelledFrom(@)]
        /\ told' = told \cup {d}
        /\ \A g \in Callers : /\ call'[g].id = call[g].id /\ call'[g].at = call[g].at
                              /\ call'[g].targets \subseteq call[g].targets
  BY CancelRowBasic
<1>2. UNCHANGED <<queued, cancelled, events, worker, began>>
  BY DEF CancelRow, memory
<1>3. CASE c = d
  <2>1. /\ began[c] = 0
        /\ \/ c \in queued \cap cancelled
           \/ worker.at = "reject" /\ worker.cmd = c
           \/ row[c] \in Terminal
    BY <1>3 DEF Once, Aimed
  <2>2. row[c] \in {"queued", "cancelled"} \/ row[c] \in Terminal
    BY <2>1 DEF Once, Waiting, Held
  <2>3. row'[c] = CancelledFrom(row[c])
    BY <1>1, <1>3 DEF Basic, TypeOK
  <2>4. /\ row'[c] \in Terminal
        /\ row[c] \in {"queued", "cancelled"} => row'[c] = "cancelled"
    BY <2>2, <2>3 DEF CancelledFrom, Terminal
  <2>5. \A g \in Callers : call[g].id # c
    BY <1>3 DEF Once, OnItsWay, Untouched
  <2>6. OnItsWay(c)' /\ OneEvent(c)'
    BY <1>1, <1>2, <2>5 DEF Once, OnItsWay, OneEvent
  <2>7. Waiting(c)'
    BY <1>2, <2>4 DEF Once, Waiting
  <2>8. Held(c)'
    BY <1>2, <2>4 DEF Once, Held, Terminal
  <2>9. Aimed(c)' /\ Told(c)'
    BY <1>2, <2>1, <2>4 DEF Aimed, Told
  <2> QED
    BY <2>6, <2>7, <2>8, <2>9 DEF Once
<1>4. CASE c # d
  <2>1. row'[c] = row[c] /\ (c \in told' => c \in told)
    BY <1>1, <1>4 DEF Basic, TypeOK
  <2>2. OnItsWay(c)'
    BY <1>1, <1>2, <2>1 DEF Once, OnItsWay, Untouched
  <2>3. Aimed(c)'
    BY <1>1, <1>2, <2>1 DEF Once, Aimed
  <2>4. Waiting(c)' /\ OneEvent(c)' /\ Held(c)' /\ Told(c)'
    BY <1>2, <2>1 DEF Once, Waiting, OneEvent, Held, Told
  <2> QED
    BY <2>2, <2>3, <2>4 DEF Once
<1> QED
  BY <1>3, <1>4

LEMMA AnswerOnce ==
  ASSUME SessionCommandsAssumption, Basic, NEW h \in Callers, Answer(h) \/ CloseFinish(h),
         NEW c \in Turns, Once(c)
  PROVE  Once(c)'
<1>1. /\ call'[h] = NoCall /\ \A g \in Callers \ {h} : call'[g] = call[g]
      /\ row'[c] = row[c]
  BY Returned, AnswerBasic DEF Answer, CloseFinish, Basic
<1>2. \A g \in Callers : /\ call'[g].id = c => call[g].id = c /\ call'[g].at = call[g].at
                         /\ c \in call'[g].targets => c \in call[g].targets
  BY <1>1 DEF NoCall, SessionCommandsAssumption
<1>3. /\ UNCHANGED <<queued, worker, began, told>> /\ cancelled \subseteq cancelled'
      /\ \/ events' = events
         \/ events' = Append(events, Exit)
  BY DEF Answer, CloseFinish, memory, history
<1>4. \A i \in DOMAIN events' : events'[i] = c => i \in DOMAIN events /\ events[i] = c
  <2>1. CASE events' = events
    BY <2>1
  <2>2. CASE events' = Append(events, Exit)
    BY <2>2 DEF Basic, TypeOK, SessionCommandsAssumption
  <2> QED
    BY <1>3, <2>1, <2>2
<1> QED
  BY <1>1, <1>2, <1>3, <1>4, OtherOnce

-----------------------------------------------------------------------------
(* The invariant holds.                                                    *)

LEMMA InitInv ==
  ASSUME SessionCommandsAssumption, Init
  PROVE  Inv
<1>1. TypeOK
  <2>1. worker \in WorkerType /\ call \in [Callers -> CallType]
    BY RestTypes DEF Init
  <2>2. row \in [Turns \cup Controls -> Statuses] /\ began \in [Turns -> Nat]
    BY DEF Init, Statuses
  <2>3. events \in Seq(Turns \cup {Exit})
    BY DEF Init
  <2>4. /\ queued \subseteq Turns /\ cancelled \subseteq Turns /\ told \subseteq Turns
        /\ asked \subseteq Turns /\ resent \subseteq Turns
        /\ active \in Turns \cup {NoTurn} /\ stop \in BOOLEAN
        /\ runner \in {"new", "running", "closing", "closed", "dead"}
    BY DEF Init
  <2> QED
    BY <2>1, <2>2, <2>3, <2>4 DEF TypeOK, WorkerType, CallType
<1>2. CallsInOrder /\ WorkerInOrder /\ RunsHaveRows
  BY DEF Init, CallsInOrder, WorkerInOrder, RunsHaveRows, Turning, Resting, NoCall,
         SessionCommandsAssumption
<1>3. ASSUME NEW c \in Turns
      PROVE  Once(c)
  BY DEF Init, Resting, NoCall, Once, OnItsWay, Waiting, OneEvent, Held, Aimed, Told,
         SessionCommandsAssumption
<1> QED
  BY <1>1, <1>2, <1>3 DEF Inv, Basic

LEMMA WorkerStepInv ==
  ASSUME SessionCommandsAssumption, Inv, WorkerStep
  PROVE  Basic' /\ \A c \in Turns : Once(c) => Once(c)'
<1> USE DEF Inv
<1>1. CASE TakeTurn
  BY <1>1, TakeTurnBasic, TakeTurnOnce
<1>2. CASE Reject
  BY <1>2, RejectBasic, RejectOnce
<1>3. CASE Claim
  BY <1>3, ClaimBasic, ClaimOnce
<1>4. CASE BeginTurn
  BY <1>4, BeginTurnBasic, GoOnOnce
<1>5. CASE AcquireDirectory \/ TurnEnds
  BY <1>5, AcquireBasic, GoOnOnce
<1>6. CASE StartRun
  BY <1>6, StartRunBasic, StartRunOnce
<1>7. CASE Settle
  BY <1>7, SettleBasic, SettleOnce
<1>8. CASE TakeExit
  BY <1>8, TakeExitBasic, TakeExitOnce
<1> QED
  BY <1>1, <1>2, <1>3, <1>4, <1>5, <1>6, <1>7, <1>8 DEF WorkerStep

LEMMA CallerStepInv ==
  ASSUME SessionCommandsAssumption, Inv, NEW h \in Callers, CallerStep(h) \/ CloseBegin(h)
  PROVE  Basic' /\ \A c \in Turns : Once(c) => Once(c)'
<1> USE DEF Inv
<1>1. CASE Accept(h)
  BY <1>1, AcceptBasic, AcceptOnce
<1>2. CASE Look(h)
  BY <1>2, LookBasic, LookOnce
<1>3. CASE Queue(h)
  BY <1>3, QueueBasic, QueueOnce
<1>4. CASE Put(h)
  BY <1>4, PutBasic, PutOnce
<1>5. CASE SetStop(h)
  BY <1>5, SetStopBasic, SetStopOnce
<1>6. CASE Mark(h)
  BY <1>6, MarkBasic, MarkOnce
<1>7. CASE CancelRow(h)
  BY <1>7, CancelRowBasic, CancelRowOnce
<1>8. CASE Answer(h)
  BY <1>8, AnswerBasic, AnswerOnce
<1>9. CASE CloseFinish(h)
  BY <1>9, CloseFinishBasic, AnswerOnce
<1>10. CASE CloseBegin(h)
  BY <1>10, CloseBeginBasic, SetStopOnce
<1> QED
  BY <1>1, <1>2, <1>3, <1>4, <1>5, <1>6, <1>7, <1>8, <1>9, <1>10 DEF CallerStep

\* A second submission is remembered.
LEMMA ResentStays ==
  ASSUME Next
  PROVE  resent \subseteq resent'
BY DEF Next, WorkerStep, CallerStep, Open, Die, Begin, Accept, Look, Queue, Put, SetStop, Mark,
       CancelRow, Answer, CloseBegin, CloseFinish, TakeTurn, Reject, Claim, BeginTurn,
       AcquireDirectory, StartRun, TurnEnds, Settle, TakeExit, history

LEMMA NextInv ==
  ASSUME SessionCommandsAssumption, Inv, Next
  PROVE  Inv'
<1>1. Basic' /\ \A c \in Turns \ resent' : Once(c) => Once(c)'
  <2>1. CASE Open
    BY <2>1, OpenBasic, OpenOnce DEF Inv
  <2>2. CASE Die
    BY <2>2, DieBasic, DieOnce DEF Inv
  <2>3. CASE WorkerStep
    BY <2>3, WorkerStepInv
  <2>4. ASSUME NEW h \in Callers, NEW id \in Turns \cup Controls, Begin(h, id)
        PROVE  Basic' /\ \A c \in Turns \ resent' : Once(c) => Once(c)'
    BY <2>4, BeginBasic, BeginOnce DEF Inv
  <2>5. ASSUME NEW h \in Callers, CallerStep(h) \/ CloseBegin(h)
        PROVE  Basic' /\ \A c \in Turns \ resent' : Once(c) => Once(c)'
    BY <2>5, CallerStepInv
  <2> QED
    BY <2>1, <2>2, <2>3, <2>4, <2>5 DEF Next
<1> QED
  BY <1>1, ResentStays DEF Inv

LEMMA StutterInv ==
  ASSUME Inv, UNCHANGED vars
  PROVE  Inv'
<1>1. UNCHANGED <<row, runner, queued, cancelled, active, stop, events, worker, call,
                  calls, deaths, began, told, asked, resent>>
  BY DEF vars, history
<1>2. Basic'
  BY <1>1 DEF Inv, Basic, TypeOK, CallsInOrder, WorkerInOrder, RunsHaveRows
<1>3. \A c \in Turns : Once(c) => Once(c)'
  BY <1>1 DEF Once, OnItsWay, Untouched, Waiting, OneEvent, Held, Aimed, Told
<1> QED
  BY <1>1, <1>2, <1>3 DEF Inv

\* The invariant holds in every state: of the types, of where the calls and the
\* worker are, and of where each command is that was submitted once.
THEOREM InvHolds ==
  ASSUME SessionCommandsAssumption
  PROVE  Spec => []Inv
<1>1. Init => Inv
  BY InitInv
<1>2. Inv /\ [Next]_vars => Inv'
  BY NextInv, StutterInv
<1> QED
  BY <1>1, <1>2, PTL DEF Spec

-----------------------------------------------------------------------------
(* What the service promises.                                              *)

\* Every variable keeps its type: a row has one of its nine statuses, the queue holds
\* commands and EXIT, and the worker is at one of its steps.
THEOREM TypeCorrect ==
  ASSUME SessionCommandsAssumption
  PROVE  Spec => []TypeOK
<1>1. Inv => TypeOK
  BY DEF Inv, Basic
<1> QED
  BY <1>1, InvHolds, PTL

\* BeganAtMostOnce for any commands, callers, deaths and reopenings: claim_command,
\* start_command and recover_commands let a command's run begin at most once, and not
\* at all after a caller or the worker reported its cancellation.
THEOREM RunsBeginOnce ==
  ASSUME SessionCommandsAssumption
  PROVE  Spec => []BeganAtMostOnce
<1>1. Inv => BeganAtMostOnce
  BY DEF Inv, Basic, RunsHaveRows, Once, Told, BeganAtMostOnce
<1> QED
  BY <1>1, InvHolds, PTL

\* StopHitsItsTurn: the row of a turn is made cancelled at its end (_consume) only if a
\* stop or a close came while that turn was the active command.
THEOREM StopsReachTheirTurn ==
  ASSUME SessionCommandsAssumption
  PROVE  Spec => StopHitsItsTurn
<1>1. Inv /\ [Next]_vars =>
        [Settle /\ row'[worker.cmd] = "cancelled" /\ row[worker.cmd] # "cancelled"
           => worker.cmd \in asked]_vars
  <2> SUFFICES ASSUME Inv, Settle, row'[worker.cmd] = "cancelled",
                      row[worker.cmd] # "cancelled"
               PROVE  worker.cmd \in asked
    OBVIOUS
  <2>1. worker.at = "settle" /\ worker.result \in {"none", "completed", "failed"}
    BY Types DEF Settle, Inv, Basic, WorkerType
  <2>2. worker.cmd \in Turns
    BY <2>1 DEF Inv, Basic, WorkerInOrder, Turning
  <2>3. row'[worker.cmd] = CompletedFrom(row[worker.cmd], TurnStatus(worker.result))
    BY <2>2 DEF Settle, Inv, Basic, TypeOK
  <2>4. stop
    BY <2>1, <2>3 DEF CompletedFrom, TurnStatus
  <2> QED
    BY <2>1, <2>4 DEF Inv, Basic, WorkerInOrder
<1> QED
  BY <1>1, InvHolds, PTL DEF Spec, StopHitsItsTurn

-----------------------------------------------------------------------------
(* Questions: what an asker is told is on record, and who resolves a       *)
(* question holds it until the record is written.  An answer, a cancellation *)
(* and the asker itself take a question out of the table before they decide *)
(* it, and that is what the invariant says of each of them.                *)

\* h, or the asker of r itself, is deciding r.
Holds(h, r)  == m_answerer[h].at # "idle" /\ m_answerer[h].req = r
Gives(h, r, choice) ==
  m_answerer[h].at = "finish" /\ m_answerer[h].req = r /\ m_answerer[h].choice = choice
SelfHolds(r) == m_asker[r] \in {"commit", "finish"}

\* One resolver at a time has a question, and while it has, nobody else changes it.
OneResolver ==
  /\ \A h \in Answerers : m_answerer[h].at # "idle" => m_answerer[h].req \in Questions
  /\ \A r \in Questions :
       /\ SelfHolds(r) => m_state[r] = "committing"
       /\ \A h \in Answerers : Holds(h, r) => m_state[r] = "committing" /\ ~SelfHolds(r)
       /\ \A h, g \in Answerers : Holds(h, r) /\ Holds(g, r) => h = g

\* Who is through was answered, cancelled or refused.
EndsAreFinal ==
  /\ \A r \in Questions :
       /\ m_asker[r] \notin {"idle", "returned"} => m_state[r] # "new"
       /\ m_state[r] = "new" => m_record[r] = "none"
       /\ r \in m_done => m_state[r] \in {"approved", "denied", "cancelled"}
       /\ m_asker[r] = "returned" => m_state[r] \in {"new", "approved", "denied", "cancelled"}
       /\ m_asker[r] = "idle" => m_state[r] = "new"
  /\ \A k \in Cancellers : \A r \in m_canceller[k].items : m_state[r] = "cancelled"

\* A decision on record has been given to the asker, or is what the resolver at
\* work is about to give.
RecordIsGiven ==
  \A r \in Questions \ m_failed :
    /\ m_record[r] = "approved" =>
         \/ m_state[r] = "approved" /\ m_answer[r] = "allow"
         \/ \E h \in Answerers : Gives(h, r, "allow")
    /\ m_record[r] = "denied" =>
         \/ m_state[r] = "denied" /\ m_answer[r] = "deny"
         \/ m_asker[r] = "finish"
         \/ \E h \in Answerers : Gives(h, r, "deny")

MailInv == Mailbox!TypeOK /\ OneResolver /\ EndsAreFinal /\ RecordIsGiven

LEMMA MailInit == Mailbox!Init => MailInv
<1> SUFFICES ASSUME Mailbox!Init PROVE MailInv
  OBVIOUS
<1>1. Mailbox!TypeOK
  <2>1. m_canceller \in [Cancellers -> [at: {"idle", "collect", "wake"}, items: SUBSET Questions]]
    BY DEF Mailbox!Init
  <2>2. m_answerer \in [Answerers -> [at: {"idle", "commit", "finish"},
                                 req: Questions \cup {None}, choice: Mailbox!Choices]]
    BY DEF Mailbox!Init, Mailbox!NoAnswer, Mailbox!Choices
  <2> QED BY <2>1, <2>2 DEF Mailbox!Init, Mailbox!TypeOK
<1>2. OneResolver /\ EndsAreFinal /\ RecordIsGiven
  BY DEF Mailbox!Init, OneResolver, EndsAreFinal, RecordIsGiven, Holds, Gives, SelfHolds,
     Mailbox!NoAnswer
<1> QED BY <1>1, <1>2 DEF MailInv

LEMMA MailStep == MailInv /\ Mailbox!Next => MailInv'
<1> SUFFICES ASSUME MailInv, Mailbox!Next PROVE MailInv'
  OBVIOUS
<1> USE DEF MailInv, Mailbox!TypeOK, OneResolver, EndsAreFinal, RecordIsGiven, Holds, Gives, SelfHolds, Mailbox!NoAnswer,
  Mailbox!Choices, Mailbox!box, Mailbox!threads, Mailbox!AskerAt
<1>1. ASSUME NEW r \in Questions, Mailbox!Ask(r) PROVE MailInv'
  <2>0. m_closed' = m_closed
    BY <1>1 DEF Mailbox!Ask
  <2>1. CASE m_closed
    <3>1. /\ UNCHANGED <<m_state, m_requests, m_pending, m_done, m_answer>>
          /\ m_asker' = [m_asker EXCEPT ![r] = "returned"]
          /\ UNCHANGED <<m_stale, m_answerer, m_canceller, m_record, m_failed>>
      BY <1>1, <2>1 DEF Mailbox!Ask
    <3>2. Mailbox!TypeOK' /\ OneResolver'
      BY <1>1, <2>0, <3>1 DEF Mailbox!Ask
    <3>3. EndsAreFinal' /\ RecordIsGiven'
      BY <1>1, <2>0, <3>1 DEF Mailbox!Ask
    <3> QED BY <3>2, <3>3
  <2>2. CASE ~m_closed
    <3>0. /\ m_state' = [m_state EXCEPT ![r] = "pending"] /\ m_asker' = [m_asker EXCEPT ![r] = "record"]
          /\ m_requests' = m_requests \cup {r} /\ m_pending' = m_pending \cup {r}
          /\ UNCHANGED <<m_done, m_answer, m_stale, m_answerer, m_canceller, m_record, m_failed>>
      BY <1>1, <2>2 DEF Mailbox!Ask
    <3>1. Mailbox!TypeOK'
      BY <1>1, <2>0, <3>0
    <3>2. OneResolver' /\ EndsAreFinal'
      BY <1>1, <2>2 DEF Mailbox!Ask
    <3>3. RecordIsGiven'
      BY <1>1, <2>2 DEF Mailbox!Ask
    <3> QED BY <3>1, <3>2, <3>3
  <2> QED BY <2>1, <2>2
<1>2. ASSUME NEW r \in Questions, Mailbox!PermissionsChange(r) PROVE MailInv'
  BY <1>2 DEF Mailbox!PermissionsChange
<1>3. ASSUME NEW r \in Questions, Mailbox!Record(r) PROVE MailInv'
  BY <1>3 DEF Mailbox!Record
<1>4. ASSUME NEW r \in Questions, Mailbox!RecordFails(r) PROVE MailInv'
  BY <1>4 DEF Mailbox!RecordFails
<1>5. ASSUME NEW r \in Questions, Mailbox!Wake(r) PROVE MailInv'
  BY <1>5 DEF Mailbox!Wake
<1>6. ASSUME NEW r \in Questions, Mailbox!DenyTake(r) PROVE MailInv'
  BY <1>6 DEF Mailbox!DenyTake, Mailbox!Takes, Mailbox!Committing
<1>7. ASSUME NEW r \in Questions, Mailbox!DenyCommit(r) PROVE MailInv'
  BY <1>7 DEF Mailbox!DenyCommit, Mailbox!Decide
<1>8. ASSUME NEW r \in Questions, Mailbox!DenyCommitFails(r) PROVE MailInv'
  BY <1>8 DEF Mailbox!DenyCommitFails, Mailbox!PutBack
<1>9. ASSUME NEW r \in Questions, Mailbox!DenyGive(r) PROVE MailInv'
  <2>1. m_state[r] = "committing"
    BY <1>9 DEF Mailbox!DenyGive
  <2>2. Mailbox!TypeOK'
    BY <1>9, <2>1 DEF Mailbox!DenyGive, Mailbox!Give, Mailbox!Decision
  <2>3. OneResolver' /\ EndsAreFinal'
    BY <1>9, <2>1 DEF Mailbox!DenyGive, Mailbox!Give, Mailbox!Decision
  <2>4. RecordIsGiven'
    BY <1>9, <2>1 DEF Mailbox!DenyGive, Mailbox!Give, Mailbox!Decision
  <2> QED BY <2>2, <2>3, <2>4
<1>10. ASSUME NEW h \in Answerers, Mailbox!AnswerTake(h) PROVE MailInv'
  BY <1>10 DEF Mailbox!AnswerTake, Mailbox!Takes, Mailbox!Committing
<1>11. ASSUME NEW h \in Answerers, Mailbox!AnswerCommit(h) PROVE MailInv'
  BY <1>11 DEF Mailbox!AnswerCommit, Mailbox!Decide, Mailbox!Decision
<1>12. ASSUME NEW h \in Answerers, Mailbox!AnswerCommitFails(h) PROVE MailInv'
  BY <1>12 DEF Mailbox!AnswerCommitFails, Mailbox!PutBack
<1>13. ASSUME NEW h \in Answerers, Mailbox!AnswerGive(h) PROVE MailInv'
  <2> DEFINE r == m_answerer[h].req
  <2>1. r \in Questions /\ m_state[r] = "committing" /\ Holds(h, r) /\ m_answerer[h].choice \in Mailbox!Choices
    BY <1>13 DEF Mailbox!AnswerGive
  <2>2. Mailbox!TypeOK'
    <3>1. /\ m_state' = [m_state EXCEPT ![r] = Mailbox!Decision(m_answerer[h].choice)]
          /\ m_answer' = [m_answer EXCEPT ![r] = m_answerer[h].choice]
          /\ m_requests' = m_requests \ {r} /\ m_pending' = m_pending \ {r} /\ m_done' = m_done \cup {r}
          /\ m_closed' = m_closed /\ m_answerer' = [m_answerer EXCEPT ![h] = Mailbox!NoAnswer]
          /\ UNCHANGED <<m_stale, m_asker, m_canceller, m_record, m_failed>>
      BY <1>13, <2>1 DEF Mailbox!AnswerGive, Mailbox!Give
    <3> QED BY <2>1, <3>1 DEF Mailbox!Decision
  <2>3. OneResolver' /\ EndsAreFinal'
    BY <1>13, <2>1 DEF Mailbox!AnswerGive, Mailbox!Give, Mailbox!Decision
  <2>4. RecordIsGiven'
    BY <1>13, <2>1 DEF Mailbox!AnswerGive, Mailbox!Give, Mailbox!Decision
  <2> QED BY <2>2, <2>3, <2>4
<1>14. ASSUME NEW k \in Cancellers, Mailbox!CancelBegin(k) PROVE MailInv'
  BY <1>14 DEF Mailbox!CancelBegin
<1>15. ASSUME NEW k \in Cancellers, Mailbox!CancelCollect(k) PROVE MailInv'
  BY <1>15 DEF Mailbox!CancelCollect, Mailbox!Cancellable
<1>16. ASSUME NEW k \in Cancellers, Mailbox!CancelWake(k) PROVE MailInv'
  <2>1. PICK r \in m_canceller[k].items :
             /\ Mailbox!Decide(r, "cancelled") \/ m_record' = m_record
             /\ m_done' = m_done \cup {r}
             /\ m_canceller' = [m_canceller EXCEPT ![k].items = @ \ {r}]
    BY <1>16 DEF Mailbox!CancelWake
  <2>2. r \in Questions /\ m_state[r] = "cancelled"
    BY <2>1
  <2>3. Mailbox!TypeOK'
    BY <1>16, <2>1, <2>2 DEF Mailbox!CancelWake, Mailbox!Decide
  <2>4. OneResolver' /\ EndsAreFinal'
    BY <1>16, <2>1, <2>2 DEF Mailbox!CancelWake, Mailbox!Decide
  <2>5. RecordIsGiven'
    BY <1>16, <2>1, <2>2 DEF Mailbox!CancelWake, Mailbox!Decide
  <2> QED BY <2>3, <2>4, <2>5
<1>17. ASSUME NEW k \in Cancellers, Mailbox!CancelDone(k) PROVE MailInv'
  <2>1. m_canceller' \in [Cancellers -> [at: {"idle", "collect", "wake"}, items: SUBSET Questions]]
    BY <1>17 DEF Mailbox!CancelDone
  <2>2. Mailbox!TypeOK'
    BY <1>17, <2>1 DEF Mailbox!CancelDone
  <2>3. OneResolver' /\ EndsAreFinal'
    BY <1>17 DEF Mailbox!CancelDone
  <2>4. RecordIsGiven'
    BY <1>17 DEF Mailbox!CancelDone
  <2> QED BY <2>2, <2>3, <2>4
<1>18. CASE Mailbox!Poll
  BY <1>18 DEF Mailbox!Poll
<1>19. CASE Mailbox!Reopen
  BY <1>19 DEF Mailbox!Reopen
<1> QED
  BY <1>1, <1>2, <1>3, <1>4, <1>5, <1>6, <1>7, <1>8, <1>9, <1>10, <1>11, <1>12, <1>13,
     <1>14, <1>15, <1>16, <1>17, <1>18, <1>19 DEF Mailbox!Next, Mailbox!AskerStep, Mailbox!AnswererStep, Mailbox!CancellerStep

LEMMA MailKept == MailInv => Mailbox!TypeOK /\ Mailbox!ApprovalIsTheRecord
BY DEF MailInv, EndsAreFinal, RecordIsGiven, OneResolver, Mailbox!ApprovalIsTheRecord, Holds,
   Gives, SelfHolds, Mailbox!TypeOK
LEMMA MailStutter == MailInv /\ UNCHANGED Mailbox!vars => MailInv'
<1> SUFFICES ASSUME MailInv, UNCHANGED Mailbox!vars PROVE MailInv'
  OBVIOUS
<1>0. UNCHANGED <<m_state, m_requests, m_pending, m_done, m_answer, m_closed, m_stale, m_asker, m_answerer,
                  m_canceller, m_record, m_failed>>
  BY DEF Mailbox!vars, Mailbox!box, Mailbox!threads
<1>1. Mailbox!TypeOK'
  BY <1>0 DEF MailInv, Mailbox!TypeOK
<1>2. OneResolver'
  BY <1>0 DEF MailInv, OneResolver, Holds, SelfHolds
<1>3. EndsAreFinal'
  BY <1>0 DEF MailInv, EndsAreFinal, Holds, SelfHolds, Gives
<1>4. RecordIsGiven'
  BY <1>0 DEF MailInv, RecordIsGiven, Holds, SelfHolds, Gives
<1> QED BY <1>1, <1>2, <1>3, <1>4 DEF MailInv

\* A step of the suite is a step of this part, or leaves it alone.
LEMMA MailAlone == [SuiteNext]_suite_vars => Mailbox!Next \/ UNCHANGED Mailbox!vars
<1>1. SuiteNext => Mailbox!Next \/ UNCHANGED m_vars
  BY DEF SuiteNext, InCommands, InDirectory, InAuthority, InShell, InTools, InTranscript,
     InContext, InOffers, InImages, m_vars
<1>2. UNCHANGED suite_vars => UNCHANGED m_vars
  BY DEF suite_vars
<1>3. UNCHANGED m_vars => UNCHANGED Mailbox!vars
  BY DEF m_vars, Mailbox!vars, Mailbox!box, Mailbox!threads
<1> QED
  BY <1>1, <1>2, <1>3

LEMMA MailHolds == SuiteSpec => []MailInv
<1>1. SuiteInit => MailInv
  BY MailInit DEF SuiteInit
<1>2. MailInv /\ [SuiteNext]_suite_vars => MailInv'
  BY MailAlone, MailStep, MailStutter
<1> QED
  BY <1>1, <1>2, PTL DEF SuiteSpec

-----------------------------------------------------------------------------
(* The authority.  The guard compares the permissions of the moment with the *)
(* snapshot the invocation was issued on, so the invariant is about that   *)
(* snapshot: it did not deny what is issued, and allowed what was not      *)
(* approved.  MoreRules carries it to the moment of the use.               *)

LEMMA PermissionAuthorityAssumed == Authority!PermissionAuthorityAssumption
BY MCSessionAssumption

Snapshots ==
  [deny: SUBSET Uses, ask: SUBSET Uses, rules: SUBSET Authority!Rules, mode: Authority!Modes,
   interaction: Authority!Interactions, host: BOOLEAN]

Invocations ==
  [at: {"idle", "asked", "issue", "live", "ended"}, as: Uses, snap: Snapshots,
   rewritten: BOOLEAN, approved: BOOLEAN, change: SUBSET Authority!Rules]

\* What is asked or issued was not denied on its snapshot, what is issued was
\* approved or is allowed by it, and what is remembered was offered for it.
AuthInv ==
  /\ p_deny \subseteq Uses /\ p_ask \subseteq Uses
  /\ p_allow \subseteq Authority!Rules /\ p_grants \subseteq Authority!Rules
  /\ p_mode \in [Conversations -> Authority!Modes] /\ p_interaction \in [Conversations -> Authority!Interactions]
  /\ p_host \subseteq Conversations
  /\ p_inv \in [Uses -> Invocations]
  /\ \A c \in Uses :
       /\ p_inv[c].at \in {"asked", "issue", "live"} =>
            ~Authority!Denied(p_inv[c].snap, p_inv[c].as)
       /\ p_inv[c].at \in {"issue", "live"} /\ ~p_inv[c].approved =>
            Authority!Decision(p_inv[c].snap, p_inv[c].as) = "allow"
       /\ p_inv[c].at = "issue" => p_inv[c].change \in Authority!Offered(p_inv[c].as)

\* A decision that is no denial, or is to allow, stays so under more rules,
\* while none of them closes the directory of the call for writing.
LEMMA MoreRules ==
  ASSUME NEW p \in Snapshots, NEW q \in Snapshots, NEW c \in Uses,
         q.deny = p.deny, q.ask = p.ask, q.mode = p.mode, q.interaction = p.interaction,
         p.rules \subseteq q.rules,
         "file_write" \in Ops[c] => (DirOf[c] \in Authority!ReadOnly(q) => DirOf[c] \in Authority!ReadOnly(p)),
         ~Authority!Denied(p, c)
  PROVE  /\ ~Authority!Denied(q, c)
         /\ Authority!Decision(p, c) = "allow" => Authority!Decision(q, c) = "allow"
<1>1. Authority!InScope(p, c) => Authority!InScope(q, c)
  BY DEF Authority!InScope
<1>2. ~Authority!Denied(q, c)
  BY <1>1 DEF Authority!Denied, Authority!Refused, Authority!AboveCeiling
<1>3. Authority!Covered(p, c) => Authority!Covered(q, c)
  BY DEF Authority!Covered
<1>4. Authority!ByMode(p, c) => Authority!ByMode(q, c)
  BY <1>1 DEF Authority!ByMode
<1>5. Authority!MustAsk(p, c) <=> Authority!MustAsk(q, c)
  BY DEF Authority!MustAsk
<1>6. Authority!Decision(p, c) = "allow" => Authority!Decision(q, c) = "allow"
  BY <1>2, <1>3, <1>4, <1>5 DEF Authority!Decision
<1> QED BY <1>2, <1>6

\* What a user may remember does not close the directory it is for.
LEMMA OfferedOpens ==
  ASSUME NEW p, NEW q, NEW c \in Uses, NEW change \in Authority!Offered(c),
         q.rules = p.rules \cup change
  PROVE  "file_write" \in Ops[c] => (DirOf[c] \in Authority!ReadOnly(q) => DirOf[c] \in Authority!ReadOnly(p))
<1> SUFFICES ASSUME "file_write" \in Ops[c], <<"read", DirOf[c]>> \in q.rules
             PROVE  <<"read", DirOf[c]>> \in p.rules
  BY DEF Authority!ReadOnly
<1>1. <<"read", DirOf[c]>> \notin change
  BY DEF Authority!Offered
<1> QED BY <1>1

LEMMA NowIsSnapshot ==
  ASSUME AuthInv, NEW c \in Uses
  PROVE  Authority!Now(c) \in Snapshots
<1> DEFINE s == SessionOf[c]
<1>1. s \in Conversations /\ Root \in Conversations
  BY PermissionAuthorityAssumed DEF Authority!PermissionAuthorityAssumption
<1>2. Authority!CombinedMode(s) \in Authority!Modes /\ Authority!CombinedInteraction(s) \in Authority!Interactions
  BY <1>1 DEF AuthInv, Authority!CombinedMode, Authority!CombinedInteraction, Authority!Modes,
     Authority!Interactions
<1> QED BY <1>2 DEF AuthInv, Authority!Now, Authority!Snapshot, Snapshots

LEMMA AuthInit == Authority!Init => AuthInv
<1> SUFFICES ASSUME Authority!Init PROVE AuthInv
  OBVIOUS
<1>1. Authority!Blank \in Snapshots
  BY DEF Authority!Blank, Snapshots, Authority!Modes, Authority!Interactions
<1>2. ASSUME NEW c \in Uses PROVE Authority!Idle(c) \in Invocations
  BY <1>1 DEF Authority!Idle, Invocations
<1> QED BY <1>2 DEF Authority!Init, AuthInv, Authority!Modes, Authority!Interactions, Authority!Idle

\* The clauses about one invocation.
Sound(x) ==
  /\ x \in Invocations
  /\ x.at \in {"asked", "issue", "live"} => ~Authority!Denied(x.snap, x.as)
  /\ x.at \in {"issue", "live"} /\ ~x.approved => Authority!Decision(x.snap, x.as) = "allow"
  /\ x.at = "issue" => x.change \in Authority!Offered(x.as)

LEMMA AuthOneChanges ==
  ASSUME AuthInv, NEW c \in Uses, NEW x, Sound(x), p_inv' = [p_inv EXCEPT ![c] = x],
         UNCHANGED <<p_deny, p_ask, p_mode, p_interaction, p_host>>,
         p_allow' \subseteq Authority!Rules, p_grants' \subseteq Authority!Rules
  PROVE  AuthInv'
<1>1. p_inv' \in [Uses -> Invocations]
  BY DEF AuthInv, Sound
<1>2. ASSUME NEW d \in Uses PROVE Sound(p_inv'[d])
  BY DEF AuthInv, Sound
<1> QED BY <1>1, <1>2 DEF AuthInv, Sound

LEMMA EndedIsSound ==
  ASSUME NEW c \in Uses
  PROVE  Sound([Authority!Idle(c) EXCEPT !.at = "ended"])
<1>1. Authority!Blank \in Snapshots
  BY DEF Authority!Blank, Snapshots, Authority!Modes, Authority!Interactions
<1> QED BY <1>1 DEF Authority!Idle, Invocations, Sound

LEMMA DecideIsSound ==
  ASSUME AuthInv, NEW c \in Uses, NEW d \in Uses, NEW p \in Snapshots, NEW rewritten \in BOOLEAN,
         Authority!Decide(c, d, p, rewritten), UNCHANGED <<Authority!settings, Authority!modes, p_edits>>
  PROVE  AuthInv'
<1>1. CASE Authority!Decision(p, d) = "deny"
  BY <1>1, EndedIsSound, AuthOneChanges DEF Authority!Decide, Authority!End, Authority!settings,
     Authority!modes, AuthInv
<1>2. CASE Authority!Decision(p, d) # "deny"
  <2> DEFINE x == [Authority!Idle(c) EXCEPT
                 !.at = IF Authority!Decision(p, d) = "ask" THEN "asked" ELSE "issue",
                 !.as = d, !.snap = p, !.rewritten = rewritten]
  <2>1. /\ x.at = IF Authority!Decision(p, d) = "ask" THEN "asked" ELSE "issue"
        /\ x.as = d /\ x.snap = p /\ x.approved = FALSE /\ x.change = {}
    BY DEF Authority!Idle
  <2>2. x \in Invocations
    <3>1. Authority!Blank \in Snapshots
      BY DEF Authority!Blank, Snapshots, Authority!Modes, Authority!Interactions
    <3>2. Authority!Idle(c) \in Invocations
      BY <3>1 DEF Authority!Idle, Invocations
    <3> QED BY <3>2 DEF Invocations
  <2>3. ~Authority!Denied(p, d) /\ Authority!Decision(p, d) \in {"ask", "allow"}
    BY <1>2 DEF Authority!Decision
  <2>4. Sound(x)
    BY <2>1, <2>2, <2>3 DEF Sound, Authority!Offered
  <2>5. p_inv' = [p_inv EXCEPT ![c] = x]
    BY <1>2 DEF Authority!Decide
  <2> HIDE DEF x
  <2> QED BY <2>4, <2>5, AuthOneChanges DEF Authority!settings, Authority!modes, AuthInv
<1> QED BY <1>1, <1>2

LEMMA AuthStep == AuthInv /\ Authority!Next => AuthInv'
<1> SUFFICES ASSUME AuthInv, Authority!Next PROVE AuthInv'
  OBVIOUS
<1>0. ASSUME NEW c \in Uses PROVE p_inv[c] \in Invocations /\ Sound(p_inv[c])
  BY DEF AuthInv, Sound
<1>1. ASSUME NEW c \in Uses, Authority!Resolve(c) PROVE AuthInv'
  BY <1>1, NowIsSnapshot, DecideIsSound DEF Authority!Resolve
<1>2. ASSUME NEW c \in Uses, Authority!Approve(c) PROVE AuthInv'
  <2>1. PICK change \in Authority!Offered(p_inv[c].as) :
          p_inv' = [p_inv EXCEPT ![c].at = "issue", ![c].approved = TRUE, ![c].change = change]
    BY <1>2 DEF Authority!Approve
  <2> DEFINE x == [p_inv[c] EXCEPT !.at = "issue", !.approved = TRUE, !.change = change]
  <2>2. change \subseteq Authority!Rules
    BY <1>0 DEF Authority!Offered, Authority!Rules, Authority!Dirs, Invocations
  <2>3. /\ x \in Invocations
        /\ x.at = "issue" /\ x.approved = TRUE /\ x.change = change
        /\ x.snap = p_inv[c].snap /\ x.as = p_inv[c].as
    <3> DEFINE r == p_inv[c]
    <3>1. r \in Invocations
      BY <1>0
    <3> HIDE DEF r
    <3>2. [r EXCEPT !.at = "issue", !.approved = TRUE, !.change = change] \in Invocations
      BY <3>1, <2>2 DEF Invocations
    <3>3. x \in Invocations
      BY <3>2 DEF r
    <3>4. x.at = "issue" /\ x.approved = TRUE /\ x.change = change
      BY <1>0 DEF Invocations
    <3>5. x.snap = p_inv[c].snap /\ x.as = p_inv[c].as
      BY <1>0 DEF Invocations
    <3> QED BY <3>3, <3>4, <3>5
  <2>4. Sound(x)
    BY <1>0, <2>3, <1>2 DEF Sound, Authority!Approve
  <2>5. p_inv' = [p_inv EXCEPT ![c] = x]
    BY <2>1 DEF AuthInv
  <2> HIDE DEF x
  <2> QED BY <2>4, <2>5, <1>2, AuthOneChanges DEF Authority!Approve, Authority!settings,
     Authority!modes, AuthInv
<1>3. ASSUME NEW c \in Uses, Authority!Rewrite(c) PROVE AuthInv'
  <2>1. PICK d \in Uses :
          IF p_inv[c].rewritten THEN Authority!End(c) ELSE Authority!Decide(c, d, p_inv[c].snap, TRUE)
    BY <1>3 DEF Authority!Rewrite
  <2>2. p_inv[c].snap \in Snapshots /\ UNCHANGED <<Authority!settings, Authority!modes, p_edits>>
    BY <1>0, <1>3 DEF Invocations, Authority!Rewrite
  <2>3. CASE p_inv[c].rewritten
    BY <2>1, <2>2, <2>3, EndedIsSound, AuthOneChanges DEF Authority!End, Authority!settings,
       Authority!modes, AuthInv
  <2>4. CASE ~p_inv[c].rewritten
    BY <2>1, <2>2, <2>4, DecideIsSound
  <2> QED BY <2>3, <2>4
<1>4. ASSUME NEW c \in Uses, Authority!Reject(c) PROVE AuthInv'
  BY <1>4, EndedIsSound, AuthOneChanges DEF Authority!Reject, Authority!End, Authority!settings,
     Authority!modes, AuthInv
<1>5. ASSUME NEW c \in Uses, Authority!Issue(c) PROVE AuthInv'
  <2>0. /\ p_grants \subseteq Authority!Rules /\ p_allow \subseteq Authority!Rules
        /\ UNCHANGED <<p_deny, p_ask, p_mode, p_interaction, p_host>>
    BY <1>5 DEF Authority!Issue, Authority!Commit, AuthInv, Authority!modes
  <2>1. CASE Authority!End(c) /\ UNCHANGED <<p_grants, p_allow>>
    BY <2>0, <2>1, EndedIsSound, AuthOneChanges DEF Authority!End
  <2>2. CASE /\ Authority!Unchanged(c)
             /\ Authority!Commit(p_inv[c].change)
             /\ p_inv' = [p_inv EXCEPT ![c].at = "live", ![c].change = {},
                                   ![c].snap = [Authority!Now(c) EXCEPT !.rules = @ \cup p_inv[c].change]]
    <3> DEFINE p == Authority!Now(c)
               q == [Authority!Now(c) EXCEPT !.rules = @ \cup p_inv[c].change]
               x == [p_inv[c] EXCEPT !.at = "live", !.change = {}, !.snap = q]
    <3>1. p = p_inv[c].snap /\ p \in Snapshots
      BY <2>2, NowIsSnapshot DEF Authority!Unchanged
    <3>2. p_inv[c].change \subseteq Authority!Rules /\ p_inv[c].change \in Authority!Offered(p_inv[c].as) /\ p_inv[c].as \in Uses
      BY <1>0, <1>5 DEF Invocations, Sound, Authority!Issue
    <3>3. /\ q \in Snapshots /\ q.rules = p.rules \cup p_inv[c].change /\ q.deny = p.deny
          /\ q.ask = p.ask /\ q.mode = p.mode /\ q.interaction = p.interaction
      BY <3>1, <3>2 DEF Snapshots
    <3>4. ~Authority!Denied(p, p_inv[c].as) /\ (~p_inv[c].approved => Authority!Decision(p, p_inv[c].as) = "allow")
      BY <1>0, <1>5, <3>1 DEF Sound, Authority!Issue
    <3>5. ~Authority!Denied(q, p_inv[c].as) /\ (~p_inv[c].approved => Authority!Decision(q, p_inv[c].as) = "allow")
      <4> HIDE DEF p, q
      <4> QED BY <3>1, <3>2, <3>3, <3>4, MoreRules, OfferedOpens
    <3>6. /\ x \in Invocations /\ x.at = "live" /\ x.snap = q /\ x.as = p_inv[c].as
          /\ x.approved = p_inv[c].approved
      <4> DEFINE r == p_inv[c]
      <4>1. r \in Invocations
        BY <1>0
      <4> HIDE DEF q, r
      <4>2. [r EXCEPT !.at = "live", !.change = {}, !.snap = q] \in Invocations
        BY <4>1, <3>3 DEF Invocations
      <4>3. x \in Invocations
        BY <4>2 DEF r
      <4>4. x.at = "live" /\ x.snap = q
        BY <1>0 DEF Invocations
      <4>5. x.as = p_inv[c].as /\ x.approved = p_inv[c].approved
        BY <1>0 DEF Invocations
      <4> QED BY <4>3, <4>4, <4>5
    <3>7. Sound(x)
      <4> HIDE DEF q, x
      <4> QED BY <3>5, <3>6 DEF Sound
    <3>8. p_inv' = [p_inv EXCEPT ![c] = x]
      BY <2>2 DEF AuthInv
    <3>9. p_grants' \subseteq Authority!Rules /\ p_allow' \subseteq Authority!Rules
      BY <2>0, <2>2, <3>2 DEF Authority!Commit
    <3> HIDE DEF x
    <3> QED BY <2>0, <3>7, <3>8, <3>9, AuthOneChanges
  <2> QED BY <1>5, <2>1, <2>2 DEF Authority!Issue
<1>6. ASSUME NEW c \in Uses, Authority!Use(c) PROVE AuthInv'
  BY <1>6 DEF Authority!Use, AuthInv, Authority!settings, Authority!modes
<1>7. ASSUME NEW c \in Uses, Authority!Finish(c) PROVE AuthInv'
  BY <1>7, EndedIsSound, AuthOneChanges DEF Authority!Finish, Authority!End, Authority!settings,
     Authority!modes, AuthInv
<1>8. ASSUME NEW s \in Conversations, Authority!SetModes(s) PROVE AuthInv'
  <2>1. p_mode' \in [Conversations -> Authority!Modes] /\ p_interaction' \in [Conversations -> Authority!Interactions] /\ p_host' \subseteq Conversations
    BY <1>8 DEF Authority!SetModes, AuthInv, Authority!Modes, Authority!Interactions
  <2>2. UNCHANGED <<p_deny, p_ask, p_allow, p_grants, p_inv>>
    BY <1>8 DEF Authority!SetModes, Authority!Edit, Authority!settings
  <2> QED BY <2>1, <2>2 DEF AuthInv
<1>9. CASE Authority!EditRestrictions
  BY <1>9 DEF Authority!EditRestrictions, Authority!Edit, Authority!modes, AuthInv
<1>10. CASE Authority!GrantResource
  BY <1>10 DEF Authority!GrantResource, Authority!Commit, Authority!Edit, Authority!modes, AuthInv, Authority!Rules
<1>11. CASE Authority!Revoke
  BY <1>11 DEF Authority!Revoke, Authority!Edit, Authority!modes, AuthInv
<1> QED
  BY <1>1, <1>2, <1>3, <1>4, <1>5, <1>6, <1>7, <1>8, <1>9, <1>10, <1>11 DEF Authority!Next

LEMMA AuthKept == AuthInv => Authority!TypeOK /\ Authority!UseIsAuthorized /\ Authority!CeilingCoversChildren
<1> SUFFICES ASSUME AuthInv PROVE Authority!TypeOK /\ Authority!UseIsAuthorized /\ Authority!CeilingCoversChildren
  OBVIOUS
<1>1. Authority!TypeOK
  BY DEF AuthInv, Authority!TypeOK, Invocations
<1>2. ASSUME NEW c \in Uses, p_inv[c].at = "live", Authority!Guard(p_inv[c].snap, Authority!Now(c))
      PROVE  /\ ~Authority!Denied(Authority!Now(c), p_inv[c].as)
             /\ p_inv[c].approved \/ Authority!Decision(Authority!Now(c), p_inv[c].as) = "allow"
  <2> DEFINE p == p_inv[c].snap
             q == Authority!Now(c)
  <2>1. p \in Snapshots /\ q \in Snapshots /\ p_inv[c].as \in Uses
    BY NowIsSnapshot DEF AuthInv, Invocations
  <2>2. ~Authority!Denied(p, p_inv[c].as) /\ (p_inv[c].approved \/ Authority!Decision(p, p_inv[c].as) = "allow")
    BY <1>2 DEF AuthInv
  <2>3. /\ q.deny = p.deny /\ q.ask = p.ask /\ q.mode = p.mode /\ q.interaction = p.interaction
        /\ p.rules \subseteq q.rules /\ Authority!ReadOnly(q) = Authority!ReadOnly(p)
    BY <1>2 DEF Authority!Guard
  <2> HIDE DEF p, q
  <2>4. ~Authority!Denied(q, p_inv[c].as) /\ (Authority!Decision(p, p_inv[c].as) = "allow" => Authority!Decision(q, p_inv[c].as) = "allow")
    BY <2>1, <2>2, <2>3, MoreRules
  <2> QED BY <2>2, <2>4 DEF q
<1>3. Authority!UseIsAuthorized
  BY <1>2 DEF Authority!UseIsAuthorized, Authority!Decision
<1>4. Authority!CeilingCoversChildren
  <2> SUFFICES ASSUME NEW c \in Uses, p_inv[c].at = "live", Authority!Guard(p_inv[c].snap, Authority!Now(c)),
                      p_mode[Root] = "plan" \/ p_interaction[Root] \in {"plan", "ask"}
               PROVE  Ops[p_inv[c].as] \subseteq Authority!PlanOps
    BY DEF Authority!CeilingCoversChildren
  <2>1. ~Authority!AboveCeiling(Authority!Now(c), p_inv[c].as)
    BY <1>2 DEF Authority!Denied
  <2>2. "plan" \in {Authority!Now(c).mode, Authority!Now(c).interaction} \/ Authority!Now(c).interaction = "ask"
    BY DEF Authority!Now, Authority!Snapshot, Authority!CombinedMode, Authority!CombinedInteraction
  <2> QED BY <2>1, <2>2 DEF Authority!AboveCeiling, Authority!PlanOps
<1> QED BY <1>1, <1>3, <1>4
LEMMA AuthStutter == AuthInv /\ UNCHANGED Authority!vars => AuthInv'
BY DEF Authority!vars, Authority!settings, Authority!modes, AuthInv

\* A step of the suite is a step of this part, or leaves it alone.
LEMMA AuthAlone == [SuiteNext]_suite_vars => Authority!Next \/ UNCHANGED Authority!vars
<1>1. SuiteNext => Authority!Next \/ UNCHANGED p_vars
  BY DEF SuiteNext, InCommands, InMailbox, InDirectory, InShell, InTools, InTranscript,
     InContext, InOffers, InImages, p_vars
<1>2. UNCHANGED suite_vars => UNCHANGED p_vars
  BY DEF suite_vars
<1>3. UNCHANGED p_vars => UNCHANGED Authority!vars
  BY DEF p_vars, Authority!vars, Authority!settings, Authority!modes
<1> QED
  BY <1>1, <1>2, <1>3

LEMMA AuthHolds == SuiteSpec => []AuthInv
<1>1. SuiteInit => AuthInv
  BY AuthInit DEF SuiteInit
<1>2. AuthInv /\ [SuiteNext]_suite_vars => AuthInv'
  BY AuthAlone, AuthStep, AuthStutter
<1> QED
  BY <1>1, <1>2, PTL DEF SuiteSpec

\* UseIsDecided for any questions and resolvers, and for any capabilities, sessions and
\* edits: an asker is told what the record of the mailbox says, and what the execution
\* guard of PermissionService lets pass is allowed by the policy of that moment or was
\* approved by the user, never denied, and within the ceiling of plan and ask mode.
THEOREM EveryUseIsDecided == SuiteSpec => []UseIsDecided
<1>1. MailInv /\ AuthInv => UseIsDecided
  BY MailKept, AuthKept DEF UseIsDecided
<1> QED
  BY <1>1, MailHolds, AuthHolds, PTL

-----------------------------------------------------------------------------
(* Shell commands.  Publisher and reader of a command run side by side: the *)
(* invariant says how far each has come, who has claimed the notice, and who *)
(* will give a lease back that is held.                                    *)

\* Publisher and reader go their ways: what each of them has done so far.
ShellThreads ==
  \A c \in Commands :
    /\ s_caller[c] \in {"idle", "start", "detach", "confine"} => s_reader[c] = "none"
    /\ s_reader[c] = "none" => s_caller[c] \in {"idle", "start", "detach", "confine", "returned"}
    /\ c \in s_done <=> s_reader[c] \in {"release", "claim", "tell", "ended"}
    /\ s_caller[c] \in {"retain", "store", "check", "tell"} => c \in s_background
    /\ c \in s_background => s_caller[c] \in {"retain", "store", "check", "tell", "returned"}
    /\ s_caller[c] = "promote" => c \in s_registered
    /\ s_reader[c] = "none" => c \notin s_background
    /\ c \in s_telling => s_caller[c] \in {"retain", "store", "check", "tell"}

\* A notice is told, claimed by the reader or claimed by the publisher; and when
\* the reader is past its claim somebody has it.
NoticeIsClaimed ==
  \A c \in Commands :
    /\ s_notices[c] = IF c \in s_notified /\ c \notin s_telling /\ s_reader[c] # "tell" THEN 1 ELSE 0
    /\ s_reader[c] = "tell" => c \in s_notified \ s_telling
    /\ c \in s_background /\ s_reader[c] \in {"tell", "ended"} => c \in s_notified

\* A lease that is held is on its way into the table, or in it for someone who
\* will take it out, unless close() forgot the command.
LeaseIsOwed ==
  /\ s_closer.at # "idle" => s_closed
  /\ \A c \in Commands :
       /\ s_caller[c] \in {"watch", "guard", "register", "promote"} \/ c \in s_background
            => c \in s_live \/ s_closed
       /\ s_caller[c] = "store" => c \in s_held
       /\ c \in s_leases => s_caller[c] \in {"check", "tell", "returned"}
       /\ c \in s_held => s_caller[c] \in {"store", "check", "tell", "returned"}
       /\ c \in s_held /\ s_caller[c] # "store" => c \in s_leases
       /\ c \in s_held => c \in s_background
       /\ c \in s_held /\ s_caller[c] \in {"tell", "returned"}
            => c \notin s_done \/ s_reader[c] = "release" \/ s_closed

ShellInv == Shell!TypeOK /\ ShellThreads /\ NoticeIsClaimed /\ LeaseIsOwed

LEMMA ShellInit == Shell!Init => ShellInv
<1> SUFFICES ASSUME Shell!Init PROVE ShellInv
  OBVIOUS
<1>1. Shell!TypeOK
  <2>1. s_closer \in [at: {"idle", "stop", "clear", "ended"}, items: SUBSET Commands]
    BY DEF Shell!Init
  <2>2. /\ s_live \subseteq Commands /\ s_registered \subseteq Commands /\ s_closed \in BOOLEAN
        /\ s_background \subseteq s_registered /\ s_notified \subseteq s_background
        /\ s_telling \subseteq s_notified /\ s_done \subseteq Commands
        /\ s_cancelled \subseteq Commands /\ s_leases \subseteq s_held /\ s_held \subseteq Bound
    BY DEF Shell!Init
  <2>3. /\ s_group \in [Commands -> {"none", "alive", "dead"}]
        /\ s_caller \in [Commands -> Shell!CallerStages] /\ s_reader \in [Commands -> Shell!ReaderStages]
        /\ s_notices \in [Commands -> 0..2]
        /\ s_outcome \in [Commands -> {"running", "completed", "failed", "cancelled"}]
    BY DEF Shell!Init, Shell!CallerStages, Shell!ReaderStages
  <2> QED BY <2>1, <2>2, <2>3 DEF Shell!TypeOK
<1>2. ShellThreads /\ NoticeIsClaimed /\ LeaseIsOwed
  BY DEF Shell!Init, ShellThreads, NoticeIsClaimed, LeaseIsOwed
<1> QED BY <1>1, <1>2 DEF ShellInv

LEMMA ShellStep == ShellInv /\ Shell!Next => ShellInv'
<1> SUFFICES ASSUME ShellInv, Shell!Next PROVE ShellInv'
  OBVIOUS
<1> USE DEF ShellInv, Shell!TypeOK, ShellThreads, NoticeIsClaimed, LeaseIsOwed, Shell!CallerStages,
  Shell!ReaderStages, Shell!CallerAt, Shell!ReaderAt, Shell!Terminated, Shell!notice, Shell!lease, Shell!threads
<1>1. ASSUME NEW c \in Commands, Shell!Execute(c) PROVE ShellInv'
  BY <1>1 DEF Shell!Execute
<1>2. ASSUME NEW c \in Commands, Shell!Start(c) PROVE ShellInv'
  BY <1>2 DEF Shell!Start
<1>3. ASSUME NEW c \in Commands, Shell!StartFails(c) PROVE ShellInv'
  BY <1>3 DEF Shell!StartFails
<1>4. ASSUME NEW c \in Commands, Shell!Ended(c) PROVE ShellInv'
  BY <1>4 DEF Shell!Ended
<1>5. ASSUME NEW c \in Commands, Shell!Overruns(c) PROVE ShellInv'
  BY <1>5 DEF Shell!Overruns
<1>6. ASSUME NEW c \in Commands, Shell!Abandon(c) PROVE ShellInv'
  BY <1>6 DEF Shell!Abandon
<1>7. ASSUME NEW c \in Commands, Shell!Drop(c) PROVE ShellInv'
  BY <1>7 DEF Shell!Drop
<1>8. ASSUME NEW c \in Commands, Shell!Register(c) PROVE ShellInv'
  BY <1>8 DEF Shell!Register
<1>9. ASSUME NEW c \in Commands, Shell!Promote(c) PROVE ShellInv'
  BY <1>9 DEF Shell!Promote, Shell!PublisherTells
<1>10. ASSUME NEW c \in Commands, Shell!Retain(c) PROVE ShellInv'
  BY <1>10 DEF Shell!Retain
<1>11. ASSUME NEW c \in Commands, Shell!Store(c) PROVE ShellInv'
  BY <1>11 DEF Shell!Store
<1>12. ASSUME NEW c \in Commands, Shell!CheckEnd(c) PROVE ShellInv'
  BY <1>12 DEF Shell!CheckEnd, Shell!EndedMeanwhile, Shell!Release
<1>13. ASSUME NEW c \in Commands, Shell!Answer(c) PROVE ShellInv'
  BY <1>13 DEF Shell!Answer
<1>14. ASSUME NEW c \in Commands, Shell!Settle(c) PROVE ShellInv'
  BY <1>14 DEF Shell!Settle
<1>15. ASSUME NEW c \in Commands, Shell!ReaderFails(c) PROVE ShellInv'
  BY <1>15 DEF Shell!ReaderFails
<1>16. ASSUME NEW c \in Commands, Shell!Finish(c) PROVE ShellInv'
  BY <1>16 DEF Shell!Finish
<1>17. ASSUME NEW c \in Commands, Shell!ReaderReleases(c) PROVE ShellInv'
  BY <1>17 DEF Shell!ReaderReleases, Shell!Release
<1>18. ASSUME NEW c \in Commands, Shell!ClaimNotice(c) PROVE ShellInv'
  BY <1>18 DEF Shell!ClaimNotice
<1>19. ASSUME NEW c \in Commands, Shell!ReaderTellsEnd(c) PROVE ShellInv'
  BY <1>19 DEF Shell!ReaderTellsEnd
<1>20. ASSUME NEW c \in Commands, Shell!GroupExits(c) PROVE ShellInv'
  BY <1>20 DEF Shell!GroupExits
<1>21. ASSUME NEW c \in Commands, Shell!Terminate(c) PROVE ShellInv'
  BY <1>21 DEF Shell!Terminate
<1>22. ASSUME NEW c \in Commands, Shell!StopOne(c) PROVE ShellInv'
  BY <1>22 DEF Shell!StopOne
<1>23. CASE Shell!Close
  BY <1>23 DEF Shell!Close
<1>24. CASE Shell!Clear
  BY <1>24 DEF Shell!Clear
<1> QED
  BY <1>1, <1>2, <1>3, <1>4, <1>5, <1>6, <1>7, <1>8, <1>9, <1>10, <1>11, <1>12, <1>13,
     <1>14, <1>15, <1>16, <1>17, <1>18, <1>19, <1>20, <1>21, <1>22, <1>23, <1>24
     DEF Shell!Next, Shell!CallerStep, Shell!ReaderStep

LEMMA ShellKept == ShellInv => Shell!TypeOK /\ Shell!ToldOnceAndReleased
BY DEF ShellInv, Shell!TypeOK, ShellThreads, NoticeIsClaimed, LeaseIsOwed, Shell!ToldOnceAndReleased
LEMMA ShellStutter == ShellInv /\ UNCHANGED Shell!vars => ShellInv'
<1> SUFFICES ASSUME ShellInv, UNCHANGED Shell!vars PROVE ShellInv'
  OBVIOUS
<1>0. UNCHANGED <<s_closed, s_live, s_group, s_caller, s_reader, s_registered, s_background, s_notified,
                  s_telling, s_notices, s_done, s_cancelled, s_outcome, s_leases, s_held, s_closer>>
  BY DEF Shell!vars, Shell!threads, Shell!notice, Shell!lease
<1>1. Shell!TypeOK'
  BY <1>0 DEF ShellInv, Shell!TypeOK
<1>2. ShellThreads'
  BY <1>0 DEF ShellInv, ShellThreads
<1>3. NoticeIsClaimed'
  BY <1>0 DEF ShellInv, NoticeIsClaimed
<1>4. LeaseIsOwed'
  BY <1>0 DEF ShellInv, LeaseIsOwed
<1> QED BY <1>1, <1>2, <1>3, <1>4 DEF ShellInv

\* A step of the suite is a step of this part, or leaves it alone.
LEMMA ShellAlone == [SuiteNext]_suite_vars => Shell!Next \/ UNCHANGED Shell!vars
<1>1. SuiteNext => Shell!Next \/ UNCHANGED s_vars
  BY DEF SuiteNext, InCommands, InMailbox, InDirectory, InAuthority, InTools, InTranscript,
     InContext, InOffers, InImages, s_vars
<1>2. UNCHANGED suite_vars => UNCHANGED s_vars
  BY DEF suite_vars
<1>3. UNCHANGED s_vars => UNCHANGED Shell!vars
  BY DEF s_vars, Shell!vars, Shell!threads, Shell!notice, Shell!lease
<1> QED
  BY <1>1, <1>2, <1>3

LEMMA ShellHolds == SuiteSpec => []ShellInv
<1>1. SuiteInit => ShellInv
  BY ShellInit DEF SuiteInit
<1>2. ShellInv /\ [SuiteNext]_suite_vars => ShellInv'
  BY ShellAlone, ShellStep, ShellStutter
<1> QED
  BY <1>1, <1>2, PTL DEF SuiteSpec

\* ToldOnceAndReleased for any commands: a background command of the shell runtime is told
\* of at most once, and once it was told of and both its threads are through, its directory
\* lease is given back, whichever of them came first and whatever close() forgot.
THEOREM NoticesAreToldOnce == SuiteSpec => []ToldOnceAndReleased
<1>1. ShellInv => ToldOnceAndReleased
  BY ShellKept DEF ToldOnceAndReleased
<1> QED
  BY <1>1, ShellHolds, PTL

-----------------------------------------------------------------------------
(* Tool calls of a step.  Batches and segments are prefixes of what is not *)
(* settled yet: FirstBatchIs and FirstBatchOrder say what the first of them *)
(* is, with the least number that a set of calls holds.                    *)

LEMMA ToolDispatchAssumed == Tools!ToolDispatchAssumption
BY MCSessionAssumption

\* Among the natural numbers that a set holds there is a least one.
LEMMA LeastNumber ==
  ASSUME NEW T \in SUBSET Nat, T # {}
  PROVE  \E n \in T : \A m \in T : n <= m
<1> DEFINE U == {1..n : n \in T}
<1>1. U \subseteq FiniteSubsetsOf(Nat) /\ U # {}
  <2>1. ASSUME NEW n \in T
        PROVE  1..n \in FiniteSubsetsOf(Nat)
    <3>1. IsFiniteSet(1..n)
      BY FS_Interval
    <3>2. 1..n \subseteq Nat
      OBVIOUS
    <3> QED
      BY <3>1, <3>2 DEF FiniteSubsetsOf
  <2> QED
    BY <2>1
<1>2. PICK u \in U : \A v \in U : ~ (<<v, u>> \in StrictSubsetOrdering(Nat))
  <2> HIDE DEF U
  <2> QED
    BY <1>1, WFMin, FS_StrictSubsetOrderingWellFounded
<1>3. PICK n \in T : u = 1..n
  OBVIOUS
<1>4. ASSUME NEW m \in T, m < n
      PROVE  FALSE
  <2>1. 1..m \subseteq 1..n /\ n \in 1..n /\ n \notin 1..m
    BY <1>4
  <2>2. <<1..m, u>> \in StrictSubsetOrdering(Nat)
    BY <2>1, <1>3 DEF StrictSubsetOrdering
  <2> QED
    BY <1>2, <2>2
<1> QED
  BY <1>4

\* The original batches and the segments follow one another: what is settled is
\* a prefix of the calls, the batch comes next and the segment first in it.
BatchInOrder ==
  /\ \A i, j \in Tools!Calls : i < j /\ Tools!Settled(j) => Tools!Settled(i)
  /\ \A i, j \in Tools!Calls : i < j /\ j \in t_batch => i \in t_batch \/ Tools!Settled(i)
  /\ \A i, j \in t_batch : i < j => Tools!Together(t_asked, i, j)
  /\ \A i \in Tools!Calls : t_approved[i] # "new" => i \in t_batch \/ Tools!Settled(i)
  /\ t_at = "prepare" => t_batch = {}
  /\ t_at = "done" => Tools!Unsettled = {}

SegmentInOrder ==
  /\ t_at # "pool" => t_segment = {}
  /\ \A i \in t_segment : i \in t_batch /\ ~Tools!Settled(i)
  /\ \A i, j \in Tools!Calls : i < j /\ j \in t_segment => i \in t_segment \/ Tools!Settled(i)
  /\ \A i, j \in t_segment : i < j => Tools!Together(t_approved, i, j)

\* Only the pool works, on the calls of the segment, and what it reports as good
\* is in the journal.
PoolIsSegment ==
  /\ \A i \in Tools!Calls : t_worker[i] \notin {"none", "ended"} => i \in t_segment
  /\ \A i \in Tools!Calls : t_worker[i] = "ended" => i \in t_segment \/ Tools!Settled(i)
  /\ \A i \in t_ok : t_worker[i] \in {"recorded", "ended"} /\ t_journal[i] = "succeeded"
  /\ \A i \in Tools!Calls : t_status[i] = "succeeded" => t_journal[i] = "succeeded"

ToolsInv == Tools!TypeOK /\ BatchInOrder /\ SegmentInOrder /\ PoolIsSegment

-----------------------------------------------------------------------------
\* FirstBatch takes the first call of a set, and others of it only together.
LEMMA FirstBatchIs ==
  ASSUME NEW S, S \subseteq Tools!Calls, S # {}, NEW class
  PROVE  \E i \in S : /\ \A j \in S : i <= j
                      /\ Tools!FirstBatch(S, class) = {j \in S : j = i \/ Tools!Together(class, i, j)}
<1> DEFINE i == CHOOSE k \in S : \A j \in S : k <= j
<1>1. i \in S /\ \A j \in S : i <= j
  <2>1. S \in SUBSET Nat
    BY ToolDispatchAssumed DEF Tools!ToolDispatchAssumption, Tools!Calls
  <2>2. \E k \in S : \A j \in S : k <= j
    BY <2>1, LeastNumber
  <2> QED BY <2>2
<1> QED BY <1>1 DEF Tools!FirstBatch

LEMMA FirstBatchOrder ==
  ASSUME NEW S, S \subseteq Tools!Calls, S # {}, NEW class
  PROVE  /\ Tools!FirstBatch(S, class) \subseteq S
         /\ \A i, j \in Tools!FirstBatch(S, class) : i < j => Tools!Together(class, i, j)
         /\ \A i \in S, j \in Tools!FirstBatch(S, class) : i < j => i \in Tools!FirstBatch(S, class)
<1>1. PICK m \in S : /\ \A j \in S : m <= j
                     /\ Tools!FirstBatch(S, class) = {j \in S : j = m \/ Tools!Together(class, m, j)}
  BY FirstBatchIs
<1>2. S \subseteq Nat
  BY ToolDispatchAssumed DEF Tools!ToolDispatchAssumption, Tools!Calls
<1>3. ASSUME NEW i \in S, NEW j \in Tools!FirstBatch(S, class), i < j
      PROVE  Tools!Together(class, i, j) /\ (i = m \/ Tools!Together(class, m, i))
  <2>1. Tools!Together(class, m, j)
    BY <1>1, <1>2, <1>3
  <2>2. m \in Nat /\ i \in Nat /\ j \in Nat /\ m <= i
    BY <1>1, <1>2, <1>3
  <2>3. i..j \subseteq m..j /\ m..i \subseteq m..j
    BY <2>2, <1>3
  <2> QED BY <2>1, <2>3 DEF Tools!Together
<1> QED BY <1>1, <1>3

LEMMA ToolsInit == Tools!Init => ToolsInv
BY DEF Tools!Init, ToolsInv, Tools!TypeOK, BatchInOrder, SegmentInOrder, PoolIsSegment,
   Tools!Settled,
  Tools!Classes, Tools!Busy, Tools!Unsettled

LEMMA ToolsStep == ToolsInv /\ Tools!Next => ToolsInv'
<1> SUFFICES ASSUME ToolsInv, Tools!Next PROVE ToolsInv'
  OBVIOUS
<1> USE DEF ToolsInv
<1> USE DEF Tools!TypeOK, BatchInOrder, SegmentInOrder, PoolIsSegment, Tools!Settled, Tools!Unsettled, Tools!Classes, Tools!Busy
<1>1. CASE Tools!Prepare
  BY <1>1 DEF Tools!Prepare
<1>2. CASE Tools!NextBatch
  <2>1. /\ t_batch' \subseteq Tools!Unsettled
        /\ \A i, j \in t_batch' : i < j => Tools!Together(t_asked, i, j)
        /\ \A i \in Tools!Unsettled, j \in t_batch' : i < j => i \in t_batch'
    BY <1>2, FirstBatchOrder DEF Tools!NextBatch
  <2> QED BY <1>2, <2>1 DEF Tools!NextBatch
<1>3. CASE Tools!BatchAuthorized
  BY <1>3 DEF Tools!BatchAuthorized
<1>4. CASE Tools!Submit
  <2> DEFINE S == t_batch \cap Tools!Unsettled
  <2>1. /\ t_segment' \subseteq S
        /\ \A i, j \in t_segment' : i < j => Tools!Together(t_approved, i, j)
        /\ \A i \in S, j \in t_segment' : i < j => i \in t_segment'
    BY <1>4, FirstBatchOrder DEF Tools!Submit, Tools!Segments
  <2> QED BY <1>4, <2>1 DEF Tools!Submit
<1>5. CASE Tools!Collect
  BY <1>5 DEF Tools!Collect
<1>6. CASE Tools!BatchDone
  BY <1>6 DEF Tools!BatchDone
<1>7. ASSUME NEW i \in Tools!Calls, Tools!Authorize(i) PROVE ToolsInv'
  BY <1>7 DEF Tools!Authorize, Tools!Together
<1>8. ASSUME NEW i \in Tools!Calls, Tools!RecordFailure(i) PROVE ToolsInv'
  BY <1>8 DEF Tools!RecordFailure
<1>9. ASSUME NEW i \in Tools!Calls, Tools!RecordIntent(i) PROVE ToolsInv'
  BY <1>9 DEF Tools!RecordIntent, Tools!WorkerAt
<1>10. ASSUME NEW i \in Tools!Calls, Tools!Refused(i) PROVE ToolsInv'
  BY <1>10 DEF Tools!Refused, Tools!WorkerAt
<1>11. ASSUME NEW i \in Tools!Calls, Tools!Begin(i) PROVE ToolsInv'
  BY <1>11 DEF Tools!Begin, Tools!WorkerAt
<1>12. ASSUME NEW i \in Tools!Calls, Tools!Cancelled(i) PROVE ToolsInv'
  BY <1>12 DEF Tools!Cancelled, Tools!WorkerAt, Tools!Recorded, Tools!Unstored
<1>13. ASSUME NEW i \in Tools!Calls, Tools!Return(i) PROVE ToolsInv'
  BY <1>13 DEF Tools!Return, Tools!WorkerAt, Tools!Recorded, Tools!Unstored
<1>14. ASSUME NEW i \in Tools!Calls, Tools!Expire(i) PROVE ToolsInv'
  BY <1>14 DEF Tools!Expire
<1>15. ASSUME NEW i \in Tools!Calls, Tools!End(i) PROVE ToolsInv'
  BY <1>15 DEF Tools!End, Tools!WorkerAt
<1> QED
  BY <1>1, <1>2, <1>3, <1>4, <1>5, <1>6, <1>7, <1>8, <1>9, <1>10, <1>11, <1>12, <1>13,
     <1>14, <1>15 DEF Tools!Next, Tools!Dispatcher, Tools!Pool

LEMMA ToolsKept == ToolsInv => Tools!TypeOK /\ Tools!BatchesAreSound
BY ToolDispatchAssumed DEF Tools!ToolDispatchAssumption, ToolsInv, Tools!TypeOK, BatchInOrder,
   SegmentInOrder, PoolIsSegment, Tools!BatchesAreSound,
  Tools!BarriersHold, Tools!SuccessIsRecorded, Tools!Settled, Tools!Unsettled, Tools!Calls
LEMMA ToolsStutter == ToolsInv /\ UNCHANGED Tools!vars => ToolsInv'
BY DEF Tools!vars, ToolsInv, Tools!TypeOK, BatchInOrder, SegmentInOrder, PoolIsSegment,
   Tools!Settled, Tools!Unsettled,
       Tools!Together

\* A step of the suite is a step of this part, or leaves it alone.
LEMMA ToolsAlone == [SuiteNext]_suite_vars => Tools!Next \/ UNCHANGED Tools!vars
<1>1. SuiteNext => Tools!Next \/ UNCHANGED t_vars
  BY DEF SuiteNext, InCommands, InMailbox, InDirectory, InAuthority, InShell, InTranscript,
     InContext, InOffers, InImages, t_vars
<1>2. UNCHANGED suite_vars => UNCHANGED t_vars
  BY DEF suite_vars
<1>3. UNCHANGED t_vars => UNCHANGED Tools!vars
  BY DEF t_vars, Tools!vars
<1> QED
  BY <1>1, <1>2, <1>3

LEMMA ToolsHolds == SuiteSpec => []ToolsInv
<1>1. SuiteInit => ToolsInv
  BY ToolsInit DEF SuiteInit
<1>2. ToolsInv /\ [SuiteNext]_suite_vars => ToolsInv'
  BY ToolsAlone, ToolsStep, ToolsStutter
<1> QED
  BY <1>1, <1>2, PTL DEF SuiteSpec

\* BatchesAreSound for any number of calls in a step and any number of workers: no call of
\* ToolScheduler overtakes one that is not safe beside it, none is left without an outcome,
\* and what is reported to have succeeded is in the journal.
THEOREM NoCallOvertakes == SuiteSpec => []BatchesAreSound
<1>1. ToolsInv => BatchesAreSound
  BY ToolsKept DEF BatchesAreSound
<1> QED
  BY <1>1, ToolsHolds, PTL

-----------------------------------------------------------------------------
(* The directory of open sessions.  CapacityHolds is kept by the check that *)
(* Register makes again under the lock.  NoOrphans needs to know, of every open *)
(* that is not over, what it has made so far and what the tables may hold for *)
(* its directory meanwhile; and that whatever the tables, the checkpoints and *)
(* the other calls refer to has a directory that is settled.               *)

LEMMA SessionDirectoryAssumed == Directory!SessionDirectoryAssumption
BY MCSessionAssumption

\* The instance has its own copies of the two operators of FiniteSets.
LEMMA SameFinite == \A S : Directory!IsFiniteSet(S) <=> IsFiniteSet(S)
BY DEF Directory!IsFiniteSet, IsFiniteSet

LEMMA SameCardinality == \A S : Directory!Cardinality(S) = Cardinality(S)
BY DEF Directory!Cardinality, Cardinality

OpenRecords ==
  [at: {"new", "reuse", "room", "evict", "reserve", "lock", "assemble",
        "register", "loser", "read", "write", "done"},
   want: {"local", "worktree"} \cup Directory!Ids, id: Directory!Ids \cup {None},
   victim: OpenCalls \cup {None}, host: OpenCalls \cup {None}, created: BOOLEAN,
   copy: [Directory!Requests -> Directory!Ids \cup {None}], result: Directory!Ids \cup {None, "raised"}]

EnderRecords ==
  [at: {"new", "close", "wait", "check", "host", "pop", "remove", "done"},
   id: Directory!Ids \cup {None}, opened: OpenCalls \cup {None}, host: OpenCalls \cup {None}]

DirTypes ==
  /\ Directory!TypeOK
  /\ d_open \in [OpenCalls -> OpenRecords]
  /\ d_ender \in [Enders -> EnderRecords]

\* Before a session has a name, while its runtime is made, and afterwards.
Early(o) == d_open[o].at \in {"new", "reuse", "room", "evict", "reserve"}
Within(o) == d_open[o].at \in {"assemble", "register", "loser"}
Late(o)  == d_open[o].at \in {"read", "write", "done"}

\* A session that anything refers to: its directory is settled.
Past(i) == i \in SavedBefore \/ ~Early(i)

\* What each open refers to, and what its runtime, its host and its worktree
\* are while it goes on and after it.
OpenIsSound(o) ==
  /\ d_open[o].id # None => Past(d_open[o].id)
  /\ d_open[o].want \in Directory!Ids => Past(d_open[o].want)
  /\ d_open[o].at \in {"lock", "assemble", "register", "loser", "read", "write"} => d_open[o].id # None
  /\ d_open[o].host # None => /\ Late(d_open[o].host) /\ d_hostState[d_open[o].host] # "none"
                              /\ d_hostState[o] = "none"
  /\ d_open[o].created => d_open[o].id = o /\ ~Early(o)
  /\ d_runtime[o] # "none" \/ d_hostState[o] # "none" =>
       /\ d_open[o].id # None
       /\ d_open[o].at \in {"register", "loser"} \/ Late(o)
  /\ d_open[o].at \in {"register", "loser"} =>
       d_runtime[o] = "idle" /\ (d_open[o].host = None => d_hostState[o] # "none")
  /\ Within(o) => d_hosts[Directory!RootOf(o)] \in {None, d_open[o].host}
  /\ Late(o) /\ d_runtime[o] \in {"idle", "busy"} => d_sessions[d_open[o].id] = o
  /\ Late(o) /\ d_hostState[o] = "running" => d_hosts[d_home[d_open[o].id]] = o
  /\ o \in d_trees => d_open[o].created
  /\ Late(o) /\ o \in d_trees /\ o \notin d_saved => d_runtime[o] \in {"idle", "busy", "closing"}

\* What the tables hold has been registered.
TablesAreSound ==
  /\ \A i \in Directory!Ids : d_sessions[i] # None =>
       /\ Late(d_sessions[i]) /\ d_open[d_sessions[i]].id = i
       /\ d_runtime[d_sessions[i]] # "none"
  /\ \A r \in Directory!Roots : d_hosts[r] # None => Late(d_hosts[r]) /\ d_hostState[d_hosts[r]] # "none"
  /\ \A i \in d_saved : Past(i)

\* One assembly at a time in a directory.
OneAssembly == \A o, p \in OpenCalls : o # p /\ Within(o) /\ Within(p) => Directory!RootOf(o) # Directory!RootOf(p)

\* An archive holds a host of the directory, and takes it out when it is closed.
EnderIsSound(e) ==
  /\ d_ender[e].at \in {"close", "wait", "check", "host", "pop", "remove"} => d_ender[e].id # None
  /\ d_ender[e].at \in {"host", "pop"} => d_ender[e].host # None /\ Late(d_ender[e].host)
                                       /\ d_hostState[d_ender[e].host] # "none"
  /\ d_ender[e].at = "pop" => d_hostState[d_ender[e].host] = "closed"

DirInv ==
  /\ DirTypes
  /\ \A o \in OpenCalls : OpenIsSound(o)
  /\ TablesAreSound
  /\ OneAssembly
  /\ \A e \in Enders : EnderIsSound(e)
  /\ Directory!CapacityHolds

LEMMA DirNames ==
  /\ None \notin Directory!Ids /\ None \notin OpenCalls
  /\ \A o \in OpenCalls : o \in Directory!Ids /\ o \notin SavedBefore
  /\ "local" \notin Directory!Ids /\ "worktree" \notin Directory!Ids
  /\ Directory!Ids \subseteq Directory!Roots
BY SessionDirectoryAssumed DEF Directory!SessionDirectoryAssumption, Directory!Ids, Directory!Roots

LEMMA CardinalityIsMonotone ==
  ASSUME NEW A, NEW B, IsFiniteSet(A), B \subseteq A
  PROVE  Cardinality(A) \in Nat /\ Cardinality(B) \in Nat /\ Cardinality(B) <= Cardinality(A)
BY FS_Subset, FS_CardinalityType

LEMMA OneMoreElement ==
  ASSUME NEW A, NEW B, NEW x, IsFiniteSet(A), B \subseteq A \cup {x}
  PROVE  Cardinality(A) \in Nat /\ Cardinality(B) \in Nat /\ Cardinality(B) <= Cardinality(A) + 1
<1> DEFINE C == A \cup {x}
<1>1. IsFiniteSet(C) /\ Cardinality(C) = IF x \in A THEN Cardinality(A) ELSE Cardinality(A) + 1
  BY FS_AddElement
<1>2. Cardinality(A) \in Nat
  BY FS_CardinalityType
<1>3. Cardinality(B) \in Nat /\ Cardinality(B) <= Cardinality(C)
  BY <1>1, CardinalityIsMonotone
<1> HIDE DEF C
<1> QED BY <1>1, <1>2, <1>3

LEMMA ActiveIsFinite == ASSUME NEW s PROVE IsFiniteSet(Directory!Active(s))
<1>1. IsFiniteSet(Directory!Ids)
  BY SessionDirectoryAssumed, FS_Union, SameFinite DEF Directory!SessionDirectoryAssumption,
     Directory!Ids
<1> QED BY <1>1, FS_Subset DEF Directory!Active

LEMMA FewerAreActive ==
  ASSUME NEW s, NEW t, \A i \in Directory!Ids : t[i] # None => s[i] # None,
         Cardinality(Directory!Active(s)) <= Capacity
  PROVE  Cardinality(Directory!Active(t)) <= Capacity
<1> DEFINE A == Directory!Active(s)
           B == Directory!Active(t)
<1>1. IsFiniteSet(A) /\ B \subseteq A
  BY ActiveIsFinite DEF Directory!Active
<1> HIDE DEF A, B
<1>2. Cardinality(A) \in Nat /\ Cardinality(B) \in Nat /\ Cardinality(B) <= Cardinality(A)
  BY <1>1, CardinalityIsMonotone
<1>3. Cardinality(A) <= Capacity
  BY DEF A
<1>4. Cardinality(B) <= Capacity
  BY <1>2, <1>3, SessionDirectoryAssumed DEF Directory!SessionDirectoryAssumption
<1> QED BY <1>4 DEF B

LEMMA OneMoreIsActive ==
  ASSUME NEW s, NEW t, NEW j \in Directory!Ids, \A i \in Directory!Ids : t[i] # None => s[i] # None \/ i = j,
         Cardinality(Directory!Active(s)) < Capacity
  PROVE  Cardinality(Directory!Active(t)) <= Capacity
<1> DEFINE A == Directory!Active(s)
           B == Directory!Active(t)
<1>1. IsFiniteSet(A) /\ B \subseteq A \cup {j}
  BY ActiveIsFinite DEF Directory!Active
<1> HIDE DEF A, B
<1>2. Cardinality(A) \in Nat /\ Cardinality(B) \in Nat /\ Cardinality(B) <= Cardinality(A) + 1
  BY <1>1, OneMoreElement
<1>3. Cardinality(A) < Capacity
  BY DEF A
<1>4. Cardinality(B) <= Capacity
  BY <1>2, <1>3, SessionDirectoryAssumed DEF Directory!SessionDirectoryAssumption
<1> QED BY <1>4 DEF B

\* What one step may do to the tables and to the rest of an open it is not a
\* step of.
TablesKept ==
  /\ \A i \in Directory!Ids : d_sessions[i] # None /\ d_runtime'[d_sessions[i]] \in {"idle", "busy"}
                      => d_sessions'[i] = d_sessions[i]
  /\ \A r \in Directory!Roots : d_hosts[r] # None /\ d_hostState'[d_hosts[r]] = "running"
                      => d_hosts'[r] = d_hosts[r]

OpensKept ==
  /\ \A q \in OpenCalls : /\ (Late(q) => Late(q)') /\ (Early(q)' => Early(q))
                          /\ d_hostState[q] # "none" => d_hostState'[q] # "none"
  /\ \A i \in Directory!Ids : Past(i) => d_home'[i] = d_home[i]

LivesOn(p) ==
  /\ \/ d_runtime'[p] = d_runtime[p]
     \/ /\ Late(p) /\ d_runtime[p] # "none" /\ d_runtime'[p] # "none"
        /\ d_runtime'[p] \in {"idle", "busy"} => d_runtime[p] \in {"idle", "busy"}
        /\ d_runtime'[p] \notin {"idle", "busy", "closing"} => d_open[p].id \in d_saved'
  /\ \/ d_hostState'[p] = d_hostState[p]
     \/ d_hostState[p] \notin {"none", "closed"} /\ d_hostState'[p] \notin {"none", "running"}

LEMMA OpenIsKept ==
  ASSUME DirInv, NEW p \in OpenCalls, d_open'[p] = d_open[p], OpensKept, TablesKept, LivesOn(p),
         \A r \in Directory!Roots : d_hosts'[r] \in {None, d_hosts[r]} \/ (Within(p) => Directory!RootOf(p) # r),
         d_saved \subseteq d_saved', p \in d_trees' => p \in d_trees
  PROVE  OpenIsSound(p)'
<1>1. OpenIsSound(p) /\ d_open[p] \in OpenRecords
  BY DEF DirInv, DirTypes
<1>2. ASSUME NEW i \in Directory!Ids, Past(i) PROVE Past(i)'
  <2>1. i \in SavedBefore \/ i \in OpenCalls
    BY DEF Directory!Ids
  <2>2. i \in OpenCalls => (Early(i)' => Early(i))
    BY DEF OpensKept, Early, Late
  <2> QED BY <2>1, <2>2, <1>2 DEF Past, Early
<1>3. d_open[p].id # None => /\ d_open[p].id \in Directory!Ids /\ Past(d_open[p].id)
                             /\ d_home'[d_open[p].id] = d_home[d_open[p].id]
                             /\ d_home[d_open[p].id] \in Directory!Roots
  BY <1>1 DEF OpenIsSound, OpenRecords, OpensKept, DirInv, DirTypes, Directory!TypeOK
<1>4. d_open[p].id # None => Past(d_open[p].id)'
  BY <1>2, <1>3
<1>5. d_open[p].want \in Directory!Ids => Past(d_open[p].want)'
  BY <1>1, <1>2 DEF OpenIsSound
<1>6. d_open[p].host # None => /\ Late(d_open[p].host)' /\ d_hostState'[d_open[p].host] # "none"
                               /\ d_hostState'[p] = "none"
  <2> SUFFICES ASSUME d_open[p].host # None
               PROVE  Late(d_open[p].host)' /\ d_hostState'[d_open[p].host] # "none" /\ d_hostState'[p] = "none"
    OBVIOUS
  <2>1. d_open[p].host \in OpenCalls
    BY <1>1 DEF OpenRecords
  <2>2. Late(d_open[p].host) /\ d_hostState[d_open[p].host] # "none" /\ d_hostState[p] = "none"
    BY <1>1 DEF OpenIsSound
  <2>3. PICK h \in OpenCalls : h = d_open[p].host
    BY <2>1
  <2>4. Late(h)' /\ d_hostState'[h] # "none"
    BY <2>2, <2>3 DEF OpensKept, Late, Early
  <2>5. h = d_open'[p].host
    BY <2>3
  <2> QED BY <2>2, <2>3, <2>4, <2>5 DEF LivesOn, Late
<1>7. (Early(p)' <=> Early(p)) /\ (Late(p)' <=> Late(p)) /\ (Within(p)' <=> Within(p))
  BY DEF Early, Late, Within
<1>8. /\ d_runtime'[p] # "none" \/ d_hostState'[p] # "none" =>
           /\ d_open[p].id # None
           /\ d_open[p].at \in {"register", "loser"} \/ Late(p)
      /\ d_open[p].at \in {"register", "loser"} =>
           d_runtime'[p] = "idle" /\ (d_open[p].host = None => d_hostState'[p] # "none")
  BY <1>1 DEF OpenIsSound, LivesOn, Late
<1>9. Within(p) => Directory!RootOf(p)' = Directory!RootOf(p) /\ Directory!RootOf(p) \in Directory!Roots /\ d_hosts'[Directory!RootOf(p)] \in {None, d_open[p].host}
  BY <1>1, <1>3 DEF OpenIsSound, Directory!RootOf, Within
<1>10. Late(p) /\ d_runtime'[p] \in {"idle", "busy"} => d_sessions'[d_open[p].id] = p
  BY <1>1, <1>3, DirNames DEF OpenIsSound, LivesOn, TablesKept
<1>11. Late(p) /\ d_hostState'[p] = "running" => d_hosts'[d_home'[d_open[p].id]] = p
  BY <1>1, <1>3, DirNames DEF OpenIsSound, LivesOn, TablesKept
<1>12. p \in d_trees' => d_open[p].created /\ (Late(p) /\ p \notin d_saved' => d_runtime'[p] \in {"idle", "busy", "closing"})
  BY <1>1 DEF OpenIsSound, LivesOn
<1> QED
  BY <1>1, <1>4, <1>5, <1>6, <1>7, <1>8, <1>9, <1>10, <1>11, <1>12 DEF OpenIsSound

\* A step of no open.
LEMMA OpensAreKept ==
  ASSUME DirInv, UNCHANGED <<d_open, d_home>>, TablesKept, \A p \in OpenCalls : LivesOn(p),
         \A i \in Directory!Ids : d_sessions'[i] \in {None, d_sessions[i]},
         \A r \in Directory!Roots : d_hosts'[r] \in {None, d_hosts[r]},
         d_saved \subseteq d_saved', \A i \in d_saved' : Past(i), d_trees' \subseteq d_trees
  PROVE  /\ \A o \in OpenCalls : OpenIsSound(o)'
         /\ TablesAreSound' /\ OneAssembly' /\ Directory!CapacityHolds'
<1>1. OpensKept
  BY DEF OpensKept, Late, Early, LivesOn
<1>2. ASSUME NEW p \in OpenCalls PROVE OpenIsSound(p)'
  BY <1>1, OpenIsKept
<1>3. TablesAreSound'
  <2>1. TablesAreSound /\ Directory!TypeOK
    BY DEF DirInv, DirTypes
  <2>2. ASSUME NEW i \in Directory!Ids, d_sessions'[i] # None
        PROVE  /\ d_open'[d_sessions'[i]].at \in {"read", "write", "done"}
               /\ d_open'[d_sessions'[i]].id = i
               /\ d_runtime'[d_sessions'[i]] # "none"
    BY <2>1, <2>2 DEF TablesAreSound, Directory!TypeOK, LivesOn, Late
  <2>3. \A r \in Directory!Roots : d_hosts'[r] # None => /\ d_open'[d_hosts'[r]].at \in {"read", "write", "done"}
                                                         /\ d_hostState'[d_hosts'[r]] # "none"
    BY <2>1 DEF TablesAreSound, Directory!TypeOK, LivesOn, Late
  <2>4. \A i \in d_saved' : Past(i)'
    BY DEF Past, Early
  <2> QED BY <2>2, <2>3, <2>4 DEF TablesAreSound, Late
<1>4. OneAssembly'
  BY DEF DirInv, OneAssembly, Within, Directory!RootOf
<1>5. Directory!CapacityHolds'
  <2>1. \A i \in Directory!Ids : d_sessions'[i] # None => d_sessions[i] # None
    OBVIOUS
  <2>2. Directory!CapacityHolds
    BY DEF DirInv
  <2> HIDE DEF DirInv
  <2> QED BY <2>1, <2>2, FewerAreActive, SameCardinality DEF Directory!CapacityHolds
<1> QED BY <1>2, <1>3, <1>4, <1>5

\* A step of the open o.
LEMMA OneOpenStep ==
  ASSUME DirInv, DirTypes', NEW o \in OpenCalls, NEW x \in OpenRecords,
         d_open' = [d_open EXCEPT ![o] = x], d_ender' = d_ender,
         Late(o) => x.at \in {"read", "write", "done"},
         x.at \in {"new", "reuse", "room", "evict", "reserve"} => Early(o),
         \A i \in Directory!Ids : Past(i) => d_home'[i] = d_home[i],
         TablesKept, \A p \in OpenCalls \ {o} : LivesOn(p),
         \A r \in Directory!Roots : d_hosts'[r] \in {None, d_hosts[r]} \/ (Within(o) /\ r = Directory!RootOf(o)),
         d_saved \subseteq d_saved', d_trees' \subseteq d_trees \cup {o},
         d_hostState[o] = "closed" => d_hostState'[o] = "closed",
         d_hostState[o] # "none" => d_hostState'[o] # "none",
         OpenIsSound(o)', TablesAreSound', OneAssembly', Directory!CapacityHolds'
  PROVE  DirInv'
<1>1. /\ d_open \in [OpenCalls -> OpenRecords] /\ d_open'[o] = x
      /\ \A p \in OpenCalls \ {o} : d_open'[p] = d_open[p]
  BY DEF DirInv, DirTypes
<1>2. OpensKept
  BY <1>1 DEF OpensKept, Late, Early, LivesOn
<1>3. ASSUME NEW p \in OpenCalls \ {o} PROVE OpenIsSound(p)'
  <2>1. \A r \in Directory!Roots : d_hosts'[r] \in {None, d_hosts[r]} \/ (Within(p) => Directory!RootOf(p) # r)
    BY DEF DirInv, OneAssembly
  <2>2. p \in d_trees' => p \in d_trees
    OBVIOUS
  <2> QED BY <1>1, <1>2, <2>1, <2>2, OpenIsKept
<1>4. ASSUME NEW e \in Enders PROVE EnderIsSound(e)'
  <2>1. EnderIsSound(e) /\ d_ender[e] \in EnderRecords
    BY DEF DirInv, DirTypes
  <2>2. d_ender[e].at \in {"host", "pop"} => /\ d_ender[e].host \in OpenCalls /\ Late(d_ender[e].host)'
                                             /\ d_hostState'[d_ender[e].host] # "none"
    <3> SUFFICES ASSUME d_ender[e].at \in {"host", "pop"}
                 PROVE  /\ d_ender[e].host \in OpenCalls /\ Late(d_ender[e].host)'
                        /\ d_hostState'[d_ender[e].host] # "none"
      OBVIOUS
    <3>1. Late(d_ender[e].host) /\ d_hostState[d_ender[e].host] # "none" /\ d_ender[e].host # None
      BY <2>1 DEF EnderIsSound
    <3>2. d_ender[e].host \in OpenCalls
      BY <2>1, <3>1 DEF EnderRecords
    <3>3. PICK h \in OpenCalls : h = d_ender[e].host
      BY <3>2
    <3>4. Late(h)' /\ d_hostState'[h] # "none"
      BY <1>2, <3>1, <3>3 DEF OpensKept, Late, Early
    <3>5. h = d_ender'[e].host
      BY <3>3
    <3> QED BY <3>2, <3>3, <3>4, <3>5 DEF Late
  <2>3. d_ender[e].at = "pop" => d_hostState'[d_ender[e].host] = "closed"
    BY <2>1, <2>2 DEF EnderIsSound, LivesOn, DirTypes, Directory!TypeOK
  <2> QED BY <2>1, <2>2, <2>3 DEF EnderIsSound
<1> QED BY <1>3, <1>4 DEF DirInv

LEMMA DirInit == Directory!Init => DirInv
<1> SUFFICES ASSUME Directory!Init PROVE DirInv
  OBVIOUS
<1>1. Directory!NewOpen \in OpenRecords /\ Directory!NewOpen.at = "new" /\ Directory!NewOpen.id = None
      /\ Directory!NewOpen.want = "local" /\ Directory!NewOpen.host = None /\ Directory!NewOpen.created = FALSE
  BY DEF Directory!NewOpen, OpenRecords
<1>2. Directory!NewCall \in EnderRecords /\ Directory!NewCall.at = "new"
  BY DEF Directory!NewCall, EnderRecords
<1>3. Directory!TypeOK
  <2>1. d_home \in [Directory!Ids -> Directory!Roots]
    BY DEF Directory!Init, Directory!Ids, Directory!Roots
  <2>2. d_trees \subseteq Directory!Ids /\ d_saved \subseteq Directory!Ids
    BY DEF Directory!Init, Directory!Ids
  <2>3. \A o \in OpenCalls : d_open[o].result = None /\ d_open[o].at = "new" /\ d_open[o].want = "local"
    BY DEF Directory!Init, Directory!NewOpen
  <2>4. \A e \in Enders : d_ender[e].at = "new"
    BY <1>2 DEF Directory!Init
  <2> QED BY <2>1, <2>2, <2>3, <2>4 DEF Directory!Init, Directory!TypeOK
<1>4. DirTypes
  BY <1>1, <1>2, <1>3 DEF Directory!Init, DirTypes
<1>5. \A o \in OpenCalls : OpenIsSound(o)
  BY <1>1, DirNames DEF Directory!Init, OpenIsSound, Early, Late, Within
<1>6. TablesAreSound
  BY DEF Directory!Init, TablesAreSound, Past
<1>7. OneAssembly
  BY <1>1 DEF Directory!Init, OneAssembly, Within
<1>8. \A e \in Enders : EnderIsSound(e)
  BY <1>2 DEF Directory!Init, EnderIsSound
<1>9. Directory!CapacityHolds
  <2>1. Directory!Active(d_sessions) = {}
    BY DEF Directory!Init, Directory!Active
  <2> QED BY <2>1, FS_EmptySet, SessionDirectoryAssumed, SameCardinality
         DEF Directory!SessionDirectoryAssumption, Directory!CapacityHolds
<1> QED BY <1>4, <1>5, <1>6, <1>7, <1>8, <1>9 DEF DirInv

\* A step of no open that leaves the records of the others as they are.
LEMMA EndersAreKept ==
  ASSUME DirInv, UNCHANGED <<d_open, d_ender>>,
         \A p \in OpenCalls : /\ d_hostState[p] = "closed" => d_hostState'[p] = "closed"
                              /\ d_hostState[p] # "none" => d_hostState'[p] # "none"
  PROVE  \A e \in Enders : EnderIsSound(e)'
<1> SUFFICES ASSUME NEW e \in Enders PROVE EnderIsSound(e)'
  OBVIOUS
<1>1. EnderIsSound(e) /\ d_ender[e] \in EnderRecords
  BY DEF DirInv, DirTypes
<1>2. d_ender[e].host # None => d_ender[e].host \in OpenCalls
  BY <1>1 DEF EnderRecords
<1>3. d_ender[e].host \in OpenCalls =>
        /\ d_hostState[d_ender[e].host] = "closed" => d_hostState'[d_ender[e].host] = "closed"
        /\ d_hostState[d_ender[e].host] # "none" => d_hostState'[d_ender[e].host] # "none"
  OBVIOUS
<1>4. d_open' = d_open /\ d_ender' = d_ender
  OBVIOUS
<1> QED BY ONLY <1>1, <1>2, <1>3, <1>4 DEF EnderIsSound, Late

LEMMA WorkKeeps ==
  ASSUME DirInv, NEW o \in OpenCalls, Directory!Work(o) \/ Directory!Rest(o) \/ Directory!WorkerEnds(o) \/ Directory!HostEnds(o)
  PROVE  DirInv'
<1>0. OpenIsSound(o) /\ d_open[o] \in OpenRecords /\ Directory!TypeOK /\ TablesAreSound
  BY DEF DirInv, DirTypes
<1>1. /\ UNCHANGED <<d_open, d_ender, d_home, d_sessions, d_hosts, d_trees, d_remembered, d_handles, d_locks, d_down>>
      /\ \/ /\ d_hostState' = d_hostState
            /\ \/ /\ d_runtime[o] = "idle" /\ Late(o) /\ d_saved' = d_saved
                  /\ d_runtime' = [d_runtime EXCEPT ![o] = "busy"]
               \/ /\ d_runtime[o] \in {"busy", "closing"} /\ d_saved' = d_saved \cup {d_open[o].id}
                  /\ \/ d_runtime[o] = "busy" /\ d_runtime' = [d_runtime EXCEPT ![o] = "idle"]
                     \/ d_runtime' = [d_runtime EXCEPT ![o] = "closed"]
         \/ /\ d_hostState[o] = "closing" /\ d_hostState' = [d_hostState EXCEPT ![o] = "closed"]
            /\ UNCHANGED <<d_runtime, d_saved>>
  BY DEF Directory!Work, Directory!Rest, Directory!WorkerEnds, Directory!HostEnds,
     Directory!calls, Directory!disk, Late
<1>2. d_runtime[o] \in {"busy", "closing"} => Late(o) /\ d_open[o].id \in Directory!Ids /\ Past(d_open[o].id)
  BY <1>0 DEF OpenIsSound, OpenRecords
<1>3. Directory!TypeOK'
  BY <1>0, <1>1, <1>2 DEF Directory!TypeOK
<1>4. \A p \in OpenCalls : LivesOn(p)
  BY <1>0, <1>1, <1>2 DEF LivesOn, Directory!TypeOK
<1>5. TablesKept
  BY <1>1 DEF TablesKept
<1>6. d_saved \subseteq d_saved' /\ \A i \in d_saved' : Past(i)
  BY <1>0, <1>1, <1>2 DEF TablesAreSound
<1>7. /\ \A p \in OpenCalls : OpenIsSound(p)'
      /\ TablesAreSound' /\ OneAssembly' /\ Directory!CapacityHolds'
  BY <1>1, <1>4, <1>5, <1>6, OpensAreKept
<1>8. \A e \in Enders : EnderIsSound(e)'
  BY <1>1, <1>0, EndersAreKept DEF Directory!TypeOK
<1>9. DirTypes'
  BY <1>1, <1>3 DEF DirInv, DirTypes
<1> QED BY <1>7, <1>8, <1>9 DEF DirInv

LEMMA ShutdownKeeps == DirInv /\ Directory!Shutdown => DirInv'
<1> SUFFICES ASSUME DirInv, Directory!Shutdown PROVE DirInv'
  OBVIOUS
<1>0. Directory!TypeOK /\ TablesAreSound
  BY DEF DirInv, DirTypes
<1>1. UNCHANGED <<d_open, d_ender, d_home, d_saved, d_trees, d_remembered, d_locks>>
  BY DEF Directory!Shutdown, Directory!calls, Directory!disk
<1>2. PICK after \in {"closing", "closed"} :
        d_hostState' = [o \in OpenCalls |-> IF \E r \in Directory!Roots : d_hosts[r] = o /\ d_hostState[o] = "running"
                                     THEN after ELSE d_hostState[o]]
  BY DEF Directory!Shutdown
<1>3. /\ d_sessions' = [i \in Directory!Ids |-> None] /\ d_hosts' = [r \in Directory!Roots |-> None]
      /\ d_handles' = [i \in Directory!Ids |-> None] /\ d_down' = TRUE
      /\ d_runtime' = [o \in OpenCalls |-> IF \E i \in Directory!Ids : d_sessions[i] = o /\ d_runtime[o] # "closed"
                                 THEN "closing" ELSE d_runtime[o]]
  BY DEF Directory!Shutdown
<1>4. ASSUME NEW p \in OpenCalls PROVE LivesOn(p)
  <2> DEFINE Hosted(q) == \E r \in Directory!Roots : d_hosts[r] = q /\ d_hostState[q] = "running"
             Opened(q) == \E i \in Directory!Ids : d_sessions[i] = q /\ d_runtime[q] # "closed"
  <2>1. d_hostState' = [o \in OpenCalls |-> IF Hosted(o) THEN after ELSE d_hostState[o]]
    BY <1>2
  <2>2. d_runtime' = [o \in OpenCalls |-> IF Opened(o) THEN "closing" ELSE d_runtime[o]]
    BY <1>3
  <2>3. Hosted(p) => d_hostState[p] = "running"
    OBVIOUS
  <2>4. Opened(p) => d_runtime[p] # "none" /\ Late(p)
    BY <1>0, DirNames DEF TablesAreSound
  <2> HIDE DEF Hosted, Opened
  <2>5. \/ d_hostState'[p] = d_hostState[p]
        \/ d_hostState[p] \notin {"none", "closed"} /\ d_hostState'[p] \notin {"none", "running"}
    BY <2>1, <2>3
  <2>6. d_runtime'[p] = d_runtime[p] \/ (d_runtime'[p] = "closing" /\ d_runtime[p] # "none" /\ Late(p))
    BY <2>2, <2>4
  <2> QED BY <2>5, <2>6 DEF LivesOn
<1>5. TablesKept
  BY <1>0, <1>2, <1>3, DirNames DEF TablesKept, Directory!TypeOK
<1>6. Directory!TypeOK'
  BY <1>0, <1>1, <1>2, <1>3 DEF Directory!TypeOK
<1>7. /\ \A p \in OpenCalls : OpenIsSound(p)'
      /\ TablesAreSound' /\ OneAssembly' /\ Directory!CapacityHolds'
  BY <1>0, <1>1, <1>3, <1>4, <1>5, OpensAreKept DEF TablesAreSound
<1>8. \A e \in Enders : EnderIsSound(e)'
  BY <1>1, <1>2, <1>0, EndersAreKept DEF Directory!TypeOK
<1>9. DirTypes'
  BY <1>1, <1>6 DEF DirInv, DirTypes
<1> QED BY <1>7, <1>8, <1>9 DEF DirInv

\* What a registered runtime is told, and what is forgotten of the closed ones.
LEMMA ClosingLives ==
  ASSUME DirInv, NEW i \in Directory!Ids, d_sessions[i] # None, d_runtime' = Directory!Closing(d_sessions[i]),
         d_hostState' = d_hostState
  PROVE  /\ \A p \in OpenCalls : LivesOn(p)
         /\ d_runtime' \in [OpenCalls -> {"none", "idle", "busy", "closing", "closed"}]
<1>1. /\ d_sessions[i] \in OpenCalls /\ Late(d_sessions[i]) /\ d_runtime[d_sessions[i]] # "none"
      /\ d_runtime \in [OpenCalls -> {"none", "idle", "busy", "closing", "closed"}]
  BY DEF DirInv, DirTypes, Directory!TypeOK, TablesAreSound
<1>2. /\ d_runtime'[d_sessions[i]] \in {"closing", "closed"}
      /\ d_runtime'[d_sessions[i]] = "closed" => d_runtime[d_sessions[i]] = "closed"
      /\ \A p \in OpenCalls \ {d_sessions[i]} : d_runtime'[p] = d_runtime[p]
      /\ d_runtime' \in [OpenCalls -> {"none", "idle", "busy", "closing", "closed"}]
  BY <1>1 DEF Directory!Closing
<1>3. LivesOn(d_sessions[i])
  BY <1>1, <1>2 DEF LivesOn
<1> QED BY <1>2, <1>3 DEF LivesOn

LEMMA ForgetKeeps ==
  ASSUME DirInv, NEW i \in Directory!Ids, NEW q, d_sessions' \in {Directory!Forget(i, q), d_sessions},
         UNCHANGED <<d_runtime, d_hostState, d_hosts>>
  PROVE  /\ \A j \in Directory!Ids : d_sessions'[j] \in {None, d_sessions[j]}
         /\ TablesKept
         /\ d_sessions' \in [Directory!Ids -> OpenCalls \cup {None}]
<1>1. d_sessions \in [Directory!Ids -> OpenCalls \cup {None}]
  BY DEF DirInv, DirTypes, Directory!TypeOK
<1> QED BY <1>1 DEF Directory!Forget, TablesKept

LEMMA PrunedKeeps ==
  ASSUME DirInv
  PROVE  /\ \A j \in Directory!Ids : Directory!Pruned[j] \in {None, d_sessions[j]}
         /\ Directory!Pruned \in [Directory!Ids -> OpenCalls \cup {None}]
         /\ \A j \in Directory!Ids : d_sessions[j] # None /\ d_runtime[d_sessions[j]] # "closed"
                             => Directory!Pruned[j] = d_sessions[j]
BY DEF DirInv, DirTypes, Directory!TypeOK, Directory!Pruned

\* A step of a close or an archive.
LEMMA EnderStep ==
  ASSUME DirInv, Directory!TypeOK', NEW e \in Enders, NEW y \in EnderRecords, d_ender' = [d_ender EXCEPT ![e] = y],
         UNCHANGED <<d_open, d_home>>, TablesKept, \A p \in OpenCalls : LivesOn(p),
         \A i \in Directory!Ids : d_sessions'[i] \in {None, d_sessions[i]},
         \A r \in Directory!Roots : d_hosts'[r] \in {None, d_hosts[r]},
         d_saved' = d_saved, d_trees' \subseteq d_trees,
         y.at \in {"close", "wait", "check", "host", "pop", "remove"} => y.id # None,
         y.at \in {"host", "pop"} => y.host # None /\ Late(y.host) /\ d_hostState[y.host] # "none",
         y.at = "pop" => d_hostState'[y.host] = "closed"
  PROVE  DirInv'
<1>1. /\ d_ender \in [Enders -> EnderRecords] /\ Directory!TypeOK
      /\ \A d \in Enders : EnderIsSound(d)
      /\ \A i \in d_saved : Past(i)
  BY DEF DirInv, DirTypes, TablesAreSound
<1>2. /\ \A p \in OpenCalls : OpenIsSound(p)'
      /\ TablesAreSound' /\ OneAssembly' /\ Directory!CapacityHolds'
  BY <1>1, OpensAreKept
<1>3. DirTypes'
  BY <1>1 DEF DirInv, DirTypes
<1>4. ASSUME NEW d \in Enders PROVE EnderIsSound(d)'
  <2>1. CASE d = e
    BY <1>1, <2>1 DEF EnderIsSound, EnderRecords, LivesOn, Late
  <2>2. CASE d # e
    <3>1. d_ender'[d] = d_ender[d] /\ d_ender[d] \in EnderRecords /\ EnderIsSound(d)
      BY <1>1, <2>2
    <3>2. /\ d_ender[d].at = "pop" => d_hostState'[d_ender[d].host] = "closed"
          /\ d_ender[d].at \in {"host", "pop"} => d_hostState'[d_ender[d].host] # "none"
      BY <3>1 DEF EnderIsSound, LivesOn, EnderRecords
    <3> QED BY <3>1, <3>2 DEF EnderIsSound, Late
  <2> QED BY <2>1, <2>2
<1> QED BY <1>2, <1>3, <1>4 DEF DirInv

LEMMA EnderGoesTo ==
  ASSUME NEW r \in EnderRecords, NEW at \in {"check", "done", "pop", "remove"}
  PROVE  /\ [r EXCEPT !.at = at] \in EnderRecords
         /\ [r EXCEPT !.at = at].at = at
         /\ [r EXCEPT !.at = at].id = r.id
         /\ [r EXCEPT !.at = at].host = r.host
BY DEF EnderRecords

LEMMA CloseKeeps ==
  ASSUME DirInv, NEW e \in Enders, Directory!CloseBegin(e) \/ Directory!CloseEnd(e)
  PROVE  DirInv'
<1>0. /\ Directory!TypeOK /\ TablesAreSound /\ d_ender \in [Enders -> EnderRecords]
      /\ EnderIsSound(e) /\ d_ender[e] \in EnderRecords
  BY DEF DirInv, DirTypes
<1>1. CASE Directory!CloseBegin(e)
  <2>1. /\ UNCHANGED <<d_sessions, d_hosts, d_hostState, d_home, d_trees, d_saved, d_remembered, d_handles, d_locks, d_open, d_down>>
    BY <1>1 DEF Directory!CloseBegin, Directory!disk
  <2>2. PICK i \in Directory!Active(d_sessions) :
          /\ d_ender' = [d_ender EXCEPT ![e] = [Directory!NewCall EXCEPT !.at = "close", !.id = i,
                                                        !.opened = d_sessions[i]]]
          /\ d_runtime' = Directory!Closing(d_sessions[i])
    BY <1>1 DEF Directory!CloseBegin
  <2>3. i \in Directory!Ids /\ d_sessions[i] # None /\ d_sessions[i] \in OpenCalls
    BY <1>0 DEF Directory!Active, Directory!TypeOK
  <2>4. \A p \in OpenCalls : LivesOn(p)
    BY <2>1, <2>2, <2>3, ClosingLives
  <2>5. TablesKept
    BY <2>1 DEF TablesKept
  <2> DEFINE y == [Directory!NewCall EXCEPT !.at = "close", !.id = i, !.opened = d_sessions[i]]
  <2>6. y \in EnderRecords /\ y.at = "close" /\ y.id = i
    BY <2>3 DEF Directory!NewCall, EnderRecords
  <2>7. Directory!TypeOK'
    <3>1. d_runtime' \in [OpenCalls -> {"none", "idle", "busy", "closing", "closed"}]
      BY <2>1, <2>2, <2>3, ClosingLives
    <3>2. \A d \in Enders : d_ender'[d].at \in {"new", "close", "wait", "check", "host", "pop", "remove", "done"}
      BY <2>2, <2>6, <1>0 DEF Directory!TypeOK
    <3> QED BY <3>1, <3>2, <2>1, <1>0 DEF Directory!TypeOK
  <2>8. d_ender' = [d_ender EXCEPT ![e] = y]
    BY <2>2
  <2>9. i # None
    BY <2>3, DirNames
  <2> HIDE DEF y
  <2> QED BY <2>1, <2>3, <2>4, <2>5, <2>6, <2>7, <2>8, <2>9, EnderStep
<1>2. CASE Directory!CloseEnd(e)
  <2>1. /\ UNCHANGED <<d_hosts, d_hostState, d_runtime, d_home, d_trees, d_saved, d_remembered, d_locks, d_open, d_down>>
        /\ d_ender[e].at = "close"
    BY <1>2 DEF Directory!CloseEnd, Directory!disk
  <2>2. d_ender[e].id \in Directory!Ids /\ d_sessions' \in {Directory!Forget(d_ender[e].id, d_ender[e].opened), d_sessions}
    BY <1>0, <1>2, <2>1 DEF Directory!CloseEnd, EnderIsSound, EnderRecords
  <2>3. /\ \A j \in Directory!Ids : d_sessions'[j] \in {None, d_sessions[j]}
        /\ TablesKept
        /\ d_sessions' \in [Directory!Ids -> OpenCalls \cup {None}]
    BY <2>1, <2>2, ForgetKeeps
  <2>4. \A p \in OpenCalls : LivesOn(p)
    BY <2>1 DEF LivesOn
  <2> DEFINE y == [d_ender[e] EXCEPT !.at = "done"]
  <2>5. y \in EnderRecords /\ y.at = "done"
    BY <1>0, EnderGoesTo
  <2>6. d_ender' = [d_ender EXCEPT ![e] = y]
    BY <1>0, <1>2 DEF Directory!CloseEnd
  <2>7. d_handles' \in [Directory!Ids -> OpenCalls \cup {None}]
    BY <1>0, <1>2 DEF Directory!CloseEnd, Directory!TypeOK
  <2> HIDE DEF y
  <2>8. Directory!TypeOK'
    <3>1. \A d \in Enders : d_ender'[d].at \in {"new", "close", "wait", "check", "host", "pop", "remove", "done"}
      BY <2>5, <2>6, <1>0 DEF Directory!TypeOK
    <3> QED BY <3>1, <2>1, <2>3, <2>7, <1>0 DEF Directory!TypeOK
  <2> QED BY <2>1, <2>3, <2>4, <2>5, <2>6, <2>8, EnderStep
<1> QED BY <1>1, <1>2

\* A step of an archive that touches no table.
LEMMA ArchiveAsks ==
  ASSUME DirInv, NEW e \in Enders, Directory!ArchiveBegin(e) \/ Directory!ArchiveWait(e) \/ Directory!ArchiveCheck(e)
  PROVE  DirInv'
<1>0. /\ Directory!TypeOK /\ TablesAreSound /\ d_ender \in [Enders -> EnderRecords]
      /\ EnderIsSound(e) /\ d_ender[e] \in EnderRecords
  BY DEF DirInv, DirTypes
<1>1. CASE Directory!ArchiveBegin(e)
  <2>1. /\ UNCHANGED <<d_sessions, d_hosts, d_hostState, d_home, d_trees, d_saved, d_remembered, d_handles, d_locks, d_open, d_down>>
    BY <1>1 DEF Directory!ArchiveBegin, Directory!disk
  <2>2. PICK i \in d_saved \cup Directory!Active(d_sessions) :
          /\ d_ender' = [d_ender EXCEPT ![e] =
               [Directory!NewCall EXCEPT !.at = IF d_sessions[i] # None THEN "wait" ELSE "check",
                               !.id = i, !.opened = d_sessions[i]]]
          /\ d_runtime' = IF d_sessions[i] # None THEN Directory!Closing(d_sessions[i]) ELSE d_runtime
    BY <1>1 DEF Directory!ArchiveBegin
  <2>3. i \in Directory!Ids /\ i # None /\ d_sessions[i] \in OpenCalls \cup {None}
    BY <1>0, DirNames DEF Directory!Active, Directory!TypeOK
  <2>4. /\ \A p \in OpenCalls : LivesOn(p)
        /\ d_runtime' \in [OpenCalls -> {"none", "idle", "busy", "closing", "closed"}]
    <3>1. CASE d_sessions[i] # None
      BY <3>1, <2>1, <2>2, <2>3, ClosingLives
    <3>2. CASE d_sessions[i] = None
      BY <3>2, <2>1, <2>2, <1>0 DEF LivesOn, Directory!TypeOK
    <3> QED BY <3>1, <3>2
  <2>5. TablesKept
    BY <2>1 DEF TablesKept
  <2> DEFINE at == IF d_sessions[i] # None THEN "wait" ELSE "check"
             y  == [Directory!NewCall EXCEPT !.at = at, !.id = i, !.opened = d_sessions[i]]
  <2>6. y \in EnderRecords /\ y.at \in {"wait", "check"} /\ y.id = i
    <3>1. at \in {"close", "wait", "check"} /\ at \in {"wait", "check"}
      OBVIOUS
    <3> HIDE DEF at
    <3> QED BY <2>3, <3>1 DEF Directory!NewCall, EnderRecords
  <2>7. d_ender' = [d_ender EXCEPT ![e] = y]
    BY <2>2
  <2> HIDE DEF y
  <2>8. Directory!TypeOK'
    <3>1. \A d \in Enders : d_ender'[d].at \in {"new", "close", "wait", "check", "host", "pop", "remove", "done"}
      BY <2>7, <2>6, <1>0 DEF Directory!TypeOK
    <3> QED BY <3>1, <2>4, <2>1, <1>0 DEF Directory!TypeOK
  <2> QED BY <2>1, <2>3, <2>4, <2>5, <2>6, <2>7, <2>8, EnderStep
<1>2. CASE Directory!ArchiveWait(e)
  <2>1. /\ UNCHANGED <<d_hosts, d_hostState, d_runtime, d_home, d_trees, d_saved, d_remembered, d_handles, d_locks, d_open, d_down>>
        /\ d_ender[e].at = "wait"
    BY <1>2 DEF Directory!ArchiveWait, Directory!disk
  <2>2. d_ender[e].id \in Directory!Ids /\ d_sessions' \in {Directory!Forget(d_ender[e].id, d_ender[e].opened), d_sessions}
        /\ d_ender[e].id # None
    BY <1>0, <1>2, <2>1 DEF Directory!ArchiveWait, EnderIsSound, EnderRecords
  <2>3. /\ \A j \in Directory!Ids : d_sessions'[j] \in {None, d_sessions[j]}
        /\ TablesKept
        /\ d_sessions' \in [Directory!Ids -> OpenCalls \cup {None}]
    BY <2>1, <2>2, ForgetKeeps
  <2>4. \A p \in OpenCalls : LivesOn(p)
    BY <2>1 DEF LivesOn
  <2> DEFINE at == IF d_sessions'[d_ender[e].id] = None THEN "check" ELSE "done"
             y  == [d_ender[e] EXCEPT !.at = at]
  <2>5. y \in EnderRecords /\ y.at \in {"check", "done"} /\ y.id = d_ender[e].id
    <3>1. at \in {"check", "done", "pop", "remove"} /\ at \in {"check", "done"}
      OBVIOUS
    <3> HIDE DEF at
    <3> QED BY <1>0, <3>1, EnderGoesTo
  <2>6. d_ender' = [d_ender EXCEPT ![e] = y]
    BY <1>0, <1>2 DEF Directory!ArchiveWait, Directory!ArchiveAt
  <2> HIDE DEF y
  <2>7. Directory!TypeOK'
    <3>1. \A d \in Enders : d_ender'[d].at \in {"new", "close", "wait", "check", "host", "pop", "remove", "done"}
      BY <2>5, <2>6, <1>0 DEF Directory!TypeOK
    <3> QED BY <3>1, <2>1, <2>3, <1>0 DEF Directory!TypeOK
  <2> QED BY <2>1, <2>2, <2>3, <2>4, <2>5, <2>6, <2>7, EnderStep
<1>3. CASE Directory!ArchiveCheck(e)
  <2>1. /\ UNCHANGED <<d_sessions, d_hosts, d_hostState, d_runtime, d_home, d_trees, d_saved, d_remembered, d_handles, d_locks, d_open, d_down>>
        /\ d_ender[e].at = "check"
    BY <1>3 DEF Directory!ArchiveCheck, Directory!disk, Directory!project
  <2>2. d_ender[e].id \in Directory!Ids /\ d_ender[e].id # None /\ d_home[d_ender[e].id] \in Directory!Roots
    BY <1>0, <2>1 DEF EnderIsSound, EnderRecords, Directory!TypeOK
  <2> DEFINE h == d_hosts[d_home[d_ender[e].id]]
             y == d_ender'[e]
  <2>3. h \in OpenCalls \cup {None} /\ (h # None => Late(h) /\ d_hostState[h] # "none")
    BY <1>0, <2>2 DEF Directory!TypeOK, TablesAreSound
  <2>4. /\ d_ender' = [d_ender EXCEPT ![e] = y] /\ y \in EnderRecords
        /\ y.id = d_ender[e].id
        /\ y.at \in {"remove", "host", "done"}
        /\ y.at = "host" => y.host = h /\ h # None
    <3>1. CASE d_ender' = [d_ender EXCEPT ![e].host = h, ![e].at = IF h = None THEN "remove" ELSE "host"]
      <4> DEFINE at == IF h = None THEN "remove" ELSE "host"
                 r == d_ender[e]
                 z == [r EXCEPT !.host = h, !.at = at]
      <4>1. at \in {"remove", "host"} /\ (at = "host" => h # None)
        OBVIOUS
      <4>2. d_ender' = [d_ender EXCEPT ![e] = z] /\ r \in EnderRecords
        BY <1>0, <3>1
      <4> HIDE DEF at, h, r
      <4>3. z \in EnderRecords /\ z.at = at /\ z.host = h /\ z.id = r.id
        BY <4>1, <4>2, <2>3 DEF EnderRecords
      <4>4. y = z /\ d_ender' = [d_ender EXCEPT ![e] = y]
        BY <1>0, <4>2
      <4>5. y \in EnderRecords /\ y.at = at /\ y.host = h /\ y.id = d_ender[e].id
        BY <4>3, <4>4 DEF r
      <4> QED BY <4>1, <4>4, <4>5
    <3>2. CASE Directory!ArchiveAt(e, "done")
      <4>1. d_ender' = [d_ender EXCEPT ![e] = [d_ender[e] EXCEPT !.at = "done"]]
        BY <1>0, <3>2 DEF Directory!ArchiveAt
      <4>2. y = [d_ender[e] EXCEPT !.at = "done"]
        BY <1>0, <4>1
      <4> QED BY <1>0, <4>1, <4>2, EnderGoesTo
    <3> QED BY <1>3, <3>1, <3>2 DEF Directory!ArchiveCheck
  <2>5. TablesKept /\ \A p \in OpenCalls : LivesOn(p)
    BY <2>1 DEF TablesKept, LivesOn
  <2> HIDE DEF y, h
  <2>6. Directory!TypeOK'
    <3>1. \A d \in Enders : d_ender'[d].at \in {"new", "close", "wait", "check", "host", "pop", "remove", "done"}
      BY <2>4, <1>0 DEF Directory!TypeOK
    <3> QED BY <3>1, <2>1, <1>0 DEF Directory!TypeOK
  <2>7. y.at = "host" => y.host # None /\ Late(y.host) /\ d_hostState[y.host] # "none"
    BY <2>3, <2>4
  <2> QED BY <2>1, <2>2, <2>4, <2>5, <2>6, <2>7, EnderStep
<1> QED BY <1>1, <1>2, <1>3

\* The steps of an archive that close a host, forget it and remove its worktree.
LEMMA ArchiveActs ==
  ASSUME DirInv, NEW e \in Enders, Directory!ArchiveHost(e) \/ Directory!ArchivePop(e) \/ Directory!ArchiveRemove(e)
  PROVE  DirInv'
<1>0. /\ Directory!TypeOK /\ TablesAreSound /\ d_ender \in [Enders -> EnderRecords]
      /\ EnderIsSound(e) /\ d_ender[e] \in EnderRecords
  BY DEF DirInv, DirTypes
<1> DEFINE h == d_ender[e].host
<1>1. CASE Directory!ArchiveHost(e)
  <2>1. /\ UNCHANGED <<d_sessions, d_hosts, d_runtime, d_home, d_trees, d_saved, d_remembered, d_handles, d_locks, d_open, d_down>>
        /\ d_ender[e].at = "host"
    BY <1>1 DEF Directory!ArchiveHost, Directory!disk
  <2>2. h \in OpenCalls /\ Late(h) /\ h # None /\ d_ender[e].id # None /\ d_hostState[h] # "none"
    BY <1>0, <2>1 DEF EnderIsSound, EnderRecords
  <2>3. PICK at \in {"pop", "done"} :
          /\ d_ender' = [d_ender EXCEPT ![e].at = at]
          /\ \E s \in {"closing", "closed"} :
               /\ d_hostState' = [d_hostState EXCEPT ![h] = s]
               /\ d_hostState[h] = "closed" => s = "closed"
               /\ at = "pop" => s = "closed"
    <3>1. CASE /\ d_hostState[h] # "closing"
               /\ d_hostState' = [d_hostState EXCEPT ![h] = "closed"]
               /\ Directory!ArchiveAt(e, "pop")
      BY <3>1 DEF Directory!ArchiveAt
    <3>2. CASE /\ d_hostState' = [d_hostState EXCEPT ![h] = IF @ = "closed" THEN @ ELSE "closing"]
               /\ d_hostState[h] # "closed"
               /\ Directory!ArchiveAt(e, "done")
      <4>1. d_hostState' = [d_hostState EXCEPT ![h] = "closing"]
        BY <3>2, <1>0 DEF Directory!TypeOK
      <4> QED BY <4>1, <3>2 DEF Directory!ArchiveAt
    <3> QED BY <1>1, <3>1, <3>2 DEF Directory!ArchiveHost
  <2>4. PICK s \in {"closing", "closed"} :
          /\ d_hostState' = [d_hostState EXCEPT ![h] = s]
          /\ d_hostState[h] = "closed" => s = "closed"
          /\ at = "pop" => s = "closed"
    BY <2>3
  <2> DEFINE y == [d_ender[e] EXCEPT !.at = at]
  <2>5. y \in EnderRecords /\ y.at = at /\ y.id = d_ender[e].id /\ y.host = h
    <3>1. at \in {"check", "done", "pop", "remove"}
      OBVIOUS
    <3> QED BY <1>0, <3>1, EnderGoesTo
  <2>6. d_ender' = [d_ender EXCEPT ![e] = y]
    BY <1>0, <2>3
  <2> HIDE DEF y, h
  <2>7. /\ d_hostState' \in [OpenCalls -> {"none", "running", "closing", "closed"}]
        /\ d_hostState'[h] = s /\ \A p \in OpenCalls \ {h} : d_hostState'[p] = d_hostState[p]
    BY <1>0, <2>2, <2>4 DEF Directory!TypeOK
  <2>8. d_hostState[h] # "none"
    BY <1>0, <2>1 DEF EnderIsSound, h
  <2>9. \A p \in OpenCalls : LivesOn(p)
    BY <2>1, <2>4, <2>7, <2>8 DEF LivesOn
  <2>10. TablesKept
    BY <2>1 DEF TablesKept
  <2>11. Directory!TypeOK'
    <3>1. \A d \in Enders : d_ender'[d].at \in {"new", "close", "wait", "check", "host", "pop", "remove", "done"}
      BY <2>5, <2>6, <1>0 DEF Directory!TypeOK
    <3> QED BY <3>1, <2>7, <2>1, <1>0 DEF Directory!TypeOK
  <2> QED BY <2>1, <2>2, <2>4, <2>5, <2>6, <2>7, <2>9, <2>10, <2>11, EnderStep
<1>2. CASE Directory!ArchivePop(e)
  <2>1. /\ UNCHANGED <<d_sessions, d_hostState, d_runtime, d_home, d_trees, d_saved, d_remembered, d_handles, d_locks, d_open, d_down>>
        /\ d_ender[e].at = "pop"
        /\ d_hosts' = [d_hosts EXCEPT ![d_home[d_ender[e].id]] = IF @ = h THEN None ELSE @]
    BY <1>2 DEF Directory!ArchivePop, Directory!disk
  <2>2. d_ender[e].id # None /\ d_hostState[h] = "closed"
    BY <1>0, <2>1 DEF EnderIsSound
  <2> DEFINE y == [d_ender[e] EXCEPT !.at = "remove"]
  <2>3. y \in EnderRecords /\ y.at = "remove" /\ y.id = d_ender[e].id
    BY <1>0, EnderGoesTo
  <2>4. d_ender' = [d_ender EXCEPT ![e] = y]
    BY <1>0, <1>2 DEF Directory!ArchivePop, Directory!ArchiveAt
  <2> HIDE DEF y, h
  <2>5. /\ d_hosts' \in [Directory!Roots -> OpenCalls \cup {None}]
        /\ \A r \in Directory!Roots : d_hosts'[r] = d_hosts[r] \/ (d_hosts'[r] = None /\ d_hosts[r] = h)
    BY <1>0, <2>1 DEF Directory!TypeOK
  <2>6. TablesKept /\ \A p \in OpenCalls : LivesOn(p)
    BY <2>1, <2>2, <2>5 DEF TablesKept, LivesOn
  <2>7. Directory!TypeOK'
    <3>1. \A d \in Enders : d_ender'[d].at \in {"new", "close", "wait", "check", "host", "pop", "remove", "done"}
      BY <2>3, <2>4, <1>0 DEF Directory!TypeOK
    <3> QED BY <3>1, <2>5, <2>1, <1>0 DEF Directory!TypeOK
  <2> QED BY <2>1, <2>2, <2>3, <2>4, <2>5, <2>6, <2>7, EnderStep
<1>3. CASE Directory!ArchiveRemove(e)
  <2>1. /\ UNCHANGED <<d_sessions, d_hosts, d_hostState, d_runtime, d_home, d_saved, d_remembered, d_handles, d_locks, d_open, d_down>>
        /\ d_trees' \subseteq d_trees
    BY <1>3 DEF Directory!ArchiveRemove, Directory!project
  <2> DEFINE y == [d_ender[e] EXCEPT !.at = "done"]
  <2>2. y \in EnderRecords /\ y.at = "done"
    BY <1>0, EnderGoesTo
  <2>3. d_ender' = [d_ender EXCEPT ![e] = y]
    BY <1>0, <1>3 DEF Directory!ArchiveRemove, Directory!ArchiveAt
  <2> HIDE DEF y, h
  <2>4. TablesKept /\ \A p \in OpenCalls : LivesOn(p)
    BY <2>1 DEF TablesKept, LivesOn
  <2>5. Directory!TypeOK'
    <3>1. \A d \in Enders : d_ender'[d].at \in {"new", "close", "wait", "check", "host", "pop", "remove", "done"}
      BY <2>2, <2>3, <1>0 DEF Directory!TypeOK
    <3> QED BY <3>1, <2>1, <1>0 DEF Directory!TypeOK
  <2> QED BY <2>1, <2>2, <2>3, <2>4, <2>5, EnderStep
<1> QED BY <1>1, <1>2, <1>3

TablesTyped ==
  /\ d_sessions \in [Directory!Ids -> OpenCalls \cup {None}]
  /\ d_hosts \in [Directory!Roots -> OpenCalls \cup {None}]
  /\ d_hostState \in [OpenCalls -> {"none", "running", "closing", "closed"}]
  /\ d_runtime \in [OpenCalls -> {"none", "idle", "busy", "closing", "closed"}]
  /\ d_home \in [Directory!Ids -> Directory!Roots]
  /\ d_trees \subseteq Directory!Ids /\ d_saved \subseteq Directory!Ids
  /\ d_remembered \in [Directory!Requests -> Directory!Ids \cup {None}]
  /\ d_handles \in [Directory!Ids -> OpenCalls \cup {None}]
  /\ d_locks \in [Directory!Requests \cup Directory!Roots -> OpenCalls \cup {None}]

\* The record of an open after its step.
Becomes(o, x) ==
  /\ d_open' = [d_open EXCEPT ![o] = x]
  /\ Late(o) => x.at \in {"read", "write", "done"} /\ x.id = d_open[o].id
  /\ x.at \in {"new", "reuse", "room", "evict", "reserve"} => Early(o)

LEMMA StepIsTyped ==
  ASSUME DirInv, NEW o \in OpenCalls, NEW x \in OpenRecords, d_open' = [d_open EXCEPT ![o] = x],
         d_ender' = d_ender, TablesTyped'
  PROVE  DirTypes'
<1>1. d_open' \in [OpenCalls -> OpenRecords]
  BY DEF DirInv, DirTypes
<1>2. Directory!TypeOK'
  BY <1>1 DEF DirInv, DirTypes, Directory!TypeOK, TablesTyped, OpenRecords
<1> QED BY <1>1, <1>2 DEF DirInv, DirTypes

\* A step of an open that registers nothing and begins no assembly.
LEMMA QuietOpenStep ==
  ASSUME DirInv, NEW o \in OpenCalls, NEW x \in OpenRecords, Becomes(o, x), d_ender' = d_ender,
         TablesTyped', x.at \in {"assemble", "register", "loser"} => Within(o) /\ x.id = d_open[o].id,
         \A i \in Directory!Ids : Past(i) => d_home'[i] = d_home[i],
         TablesKept, \A p \in OpenCalls \ {o} : LivesOn(p),
         \A i \in Directory!Ids : d_sessions'[i] \in {None, d_sessions[i]}, d_hosts' = d_hosts,
         d_saved \subseteq d_saved', d_saved' \subseteq d_saved \cup {x.id},
         d_trees' \subseteq d_trees \cup {o},
         d_hostState[o] = "closed" => d_hostState'[o] = "closed",
         d_hostState[o] # "none" => d_hostState'[o] # "none",
         d_runtime[o] # "none" => d_runtime'[o] # "none",
         OpenIsSound(o)'
  PROVE  DirInv'
<1>1. /\ d_open \in [OpenCalls -> OpenRecords] /\ d_open'[o] = x
      /\ \A p \in OpenCalls \ {o} : d_open'[p] = d_open[p]
      /\ Directory!TypeOK /\ TablesAreSound /\ OneAssembly /\ Directory!CapacityHolds /\ OpenIsSound(o)
  BY DEF DirInv, DirTypes, Becomes
<1>2. DirTypes'
  BY StepIsTyped DEF Becomes
<1>3. \A i \in Directory!Ids : Past(i) => Past(i)'
  BY <1>1 DEF Past, Early, Becomes
<1>4. TablesAreSound'
  <2>1. ASSUME NEW i \in Directory!Ids, d_sessions'[i] # None
        PROVE  /\ d_open'[d_sessions'[i]].at \in {"read", "write", "done"}
               /\ d_open'[d_sessions'[i]].id = i
               /\ d_runtime'[d_sessions'[i]] # "none"
    <3> DEFINE q == d_sessions[i]
    <3>1. /\ q \in OpenCalls /\ d_sessions'[i] = q /\ Late(q) /\ d_open[q].id = i /\ d_runtime[q] # "none"
      BY <1>1, <2>1 DEF TablesAreSound, Directory!TypeOK
    <3> HIDE DEF q
    <3>2. CASE q = o
      BY <1>1, <3>1, <3>2 DEF Becomes
    <3>3. CASE q # o
      BY <1>1, <3>1, <3>3 DEF Late, LivesOn
    <3> QED BY <3>2, <3>3
  <2>2. ASSUME NEW r \in Directory!Roots, d_hosts'[r] # None
        PROVE  /\ d_open'[d_hosts'[r]].at \in {"read", "write", "done"}
               /\ d_hostState'[d_hosts'[r]] # "none"
    <3> DEFINE q == d_hosts[r]
    <3>1. q \in OpenCalls /\ d_hosts'[r] = q /\ Late(q) /\ d_hostState[q] # "none"
      BY <1>1, <2>2 DEF TablesAreSound, Directory!TypeOK
    <3> HIDE DEF q
    <3>2. CASE q = o
      BY <1>1, <3>1, <3>2 DEF Becomes
    <3>3. CASE q # o
      BY <1>1, <3>1, <3>3 DEF Late, LivesOn
    <3> QED BY <3>2, <3>3
  <2>3. \A i \in d_saved' : Past(i)'
    <3>1. d_saved \subseteq Directory!Ids /\ d_saved' \subseteq Directory!Ids
      BY <1>1 DEF Directory!TypeOK, TablesTyped
    <3>2. \A i \in d_saved : Past(i)'
      BY <1>1, <1>3, <3>1 DEF TablesAreSound
    <3>3. x.id # None => Past(x.id)'
      BY <1>1 DEF OpenIsSound
    <3> QED BY <3>1, <3>2, <3>3, DirNames
  <2> QED BY <2>1, <2>2, <2>3 DEF TablesAreSound, Late
<1>5. \A p \in OpenCalls : Within(p)' => Within(p) /\ d_open'[p].id = d_open[p].id
  BY <1>1 DEF Within
<1>6. \A p \in OpenCalls : Within(p) => d_open[p].id # None /\ Past(d_open[p].id) /\ d_open[p].id \in Directory!Ids
  BY <1>1 DEF DirInv, OpenIsSound, Within, OpenRecords
<1>7. OneAssembly'
  BY <1>1, <1>5, <1>6 DEF OneAssembly, Directory!RootOf
<1>8. Directory!CapacityHolds'
  <2>1. \A i \in Directory!Ids : d_sessions'[i] # None => d_sessions[i] # None
    OBVIOUS
  <2> HIDE DEF DirInv
  <2> QED BY <1>1, <2>1, FewerAreActive, SameCardinality DEF Directory!CapacityHolds
<1>9. \A r \in Directory!Roots : d_hosts'[r] \in {None, d_hosts[r]}
  OBVIOUS
<1> QED
  BY <1>2, <1>4, <1>7, <1>8, <1>9, OneOpenStep DEF Becomes

\* Of the tables the step of an open leaves alone.
LEMMA TablesStay ==
  ASSUME DirInv, UNCHANGED <<d_sessions, d_hosts>>
  PROVE  TablesKept /\ \A i \in Directory!Ids : d_sessions'[i] \in {None, d_sessions[i]}
BY DEF TablesKept

LEMMA TablesArePruned ==
  ASSUME DirInv, d_sessions' = Directory!Pruned, UNCHANGED d_hosts, \A p \in OpenCalls : LivesOn(p)
  PROVE  /\ TablesKept /\ \A i \in Directory!Ids : d_sessions'[i] \in {None, d_sessions[i]}
         /\ d_sessions' \in [Directory!Ids -> OpenCalls \cup {None}]
<1>1. d_sessions \in [Directory!Ids -> OpenCalls \cup {None}]
  BY DEF DirInv, DirTypes, Directory!TypeOK
<1>2. TablesKept
  BY <1>1, PrunedKeeps DEF TablesKept, LivesOn
<1> QED BY <1>2, PrunedKeeps

\* The record of an open that goes on, or returns.
LEMMA GotoIs ==
  ASSUME DirInv, NEW o \in OpenCalls,
         NEW at \in {"evict", "reserve", "assemble", "register", "loser", "read", "write", "done"},
         d_open' = [d_open EXCEPT ![o].at = at]
  PROVE  \E x \in OpenRecords :
              /\ d_open' = [d_open EXCEPT ![o] = x] /\ x.at = at
              /\ x.want = d_open[o].want /\ x.id = d_open[o].id /\ x.host = d_open[o].host
              /\ x.created = d_open[o].created
<1> DEFINE z == [d_open[o] EXCEPT !.at = at]
<1>1. d_open' = [d_open EXCEPT ![o] = z]
  BY DEF DirInv, DirTypes
<1>2. /\ z \in OpenRecords /\ z.at = at
      /\ z.want = d_open[o].want /\ z.id = d_open[o].id /\ z.host = d_open[o].host
      /\ z.created = d_open[o].created
  <2> DEFINE r == d_open[o]
  <2>1. r \in OpenRecords
    BY DEF DirInv, DirTypes
  <2> HIDE DEF r
  <2>2. [r EXCEPT !.at = at] \in OpenRecords
    BY <2>1 DEF OpenRecords
  <2>3. LET y == [r EXCEPT !.at = at] IN
          y.at = at /\ y.want = r.want /\ y.id = r.id /\ y.host = r.host /\ y.created = r.created
    BY <2>1 DEF OpenRecords
  <2> QED BY <2>2, <2>3 DEF r
<1> HIDE DEF z
<1> QED BY <1>1, <1>2

LEMMA ReturnIs ==
  ASSUME DirInv, NEW o \in OpenCalls, NEW result \in Directory!Ids \cup {None, "raised"}, Directory!Return(o, result)
  PROVE  /\ d_locks' \in [Directory!Requests \cup Directory!Roots -> OpenCalls \cup {None}]
         /\ \E x \in OpenRecords :
              /\ d_open' = [d_open EXCEPT ![o] = x] /\ x.at = "done"
              /\ x.want = d_open[o].want /\ x.id = d_open[o].id /\ x.host = d_open[o].host
              /\ x.created = d_open[o].created
<1>1. d_locks' \in [Directory!Requests \cup Directory!Roots -> OpenCalls \cup {None}]
  BY DEF Directory!Return, DirInv, DirTypes, Directory!TypeOK
<1> DEFINE z == [d_open[o] EXCEPT !.at = "done", !.result = result]
<1>2. d_open' = [d_open EXCEPT ![o] = z]
  BY DEF Directory!Return, DirInv, DirTypes
<1>3. /\ z \in OpenRecords /\ z.at = "done"
      /\ z.want = d_open[o].want /\ z.id = d_open[o].id /\ z.host = d_open[o].host
      /\ z.created = d_open[o].created
  <2> DEFINE r == d_open[o]
  <2>1. r \in OpenRecords
    BY DEF DirInv, DirTypes
  <2> HIDE DEF r
  <2>2. [r EXCEPT !.at = "done", !.result = result] \in OpenRecords
    BY <2>1 DEF OpenRecords
  <2>3. LET y == [r EXCEPT !.at = "done", !.result = result] IN
          y.at = "done" /\ y.want = r.want /\ y.id = r.id /\ y.host = r.host /\ y.created = r.created
    BY <2>1 DEF OpenRecords
  <2> QED BY <2>2, <2>3 DEF r
<1> HIDE DEF z
<1> QED BY <1>1, <1>2, <1>3

\* An open that has not come to its assembly has made nothing.
LEMMA NothingMadeYet ==
  ASSUME DirInv, NEW o \in OpenCalls,
         d_open[o].at \in {"new", "reuse", "room", "evict", "reserve", "lock", "assemble"}
  PROVE  /\ d_runtime[o] = "none" /\ d_hostState[o] = "none"
         /\ d_open[o].at \notin {"lock", "assemble"} => ~d_open[o].created /\ o \notin d_trees /\ Early(o)
         /\ ~Late(o)
BY DEF DirInv, DirTypes, OpenIsSound, OpenRecords, Late, Early

\* A step of an open before its assembly that makes nothing.
LEMMA NothingMade ==
  ASSUME DirInv, NEW o \in OpenCalls, NEW x \in OpenRecords, Early(o),
         d_open' = [d_open EXCEPT ![o] = x], d_ender' = d_ender, TablesTyped',
         UNCHANGED <<d_hosts, d_hostState, d_home, d_trees, d_saved>>, TablesKept,
         \A p \in OpenCalls : LivesOn(p), \A i \in Directory!Ids : d_sessions'[i] \in {None, d_sessions[i]},
         x.at \in {"reuse", "room", "evict", "reserve", "done"},
         x.id # None => Past(x.id), x.want \in Directory!Ids => Past(x.want),
         x.host = d_open[o].host, x.created = d_open[o].created
  PROVE  DirInv'
<1>1. /\ d_open' \in [OpenCalls -> OpenRecords] /\ d_open'[o] = x /\ OpenIsSound(o)
      /\ \A p \in OpenCalls \ {o} : d_open'[p] = d_open[p]
  BY DEF DirInv, DirTypes
<1>2. d_runtime[o] = "none" /\ d_hostState[o] = "none" /\ ~d_open[o].created /\ o \notin d_trees /\ ~Late(o)
  BY NothingMadeYet DEF Early
<1>3. Becomes(o, x)
  BY <1>2 DEF Becomes
<1>4. \A i \in Directory!Ids : Past(i) => Past(i)'
  BY <1>1, DirNames DEF Past, Early, Directory!Ids
<1>5. (x.id # None => Past(x.id)') /\ (x.want \in Directory!Ids => Past(x.want)')
  BY <1>4 DEF OpenRecords
<1>6. d_open[o].host # None => Late(d_open[o].host)' /\ d_hostState'[d_open[o].host] # "none"
  BY <1>1, <1>2 DEF OpenIsSound, Late
<1>7. d_runtime'[o] = "none"
  BY <1>2 DEF LivesOn
<1>8. OpenIsSound(o)'
  BY <1>1, <1>2, <1>5, <1>6, <1>7 DEF OpenIsSound, Late, Early, Within
<1> QED BY <1>2, <1>3, <1>8, QuietOpenStep

LEMMA AttachKeeps == \A o \in OpenCalls : DirInv /\ Directory!Attach(o) => DirInv'
<1> SUFFICES ASSUME NEW o \in OpenCalls, DirInv, Directory!Attach(o) PROVE DirInv'
  OBVIOUS
<1> DEFINE r == d_open[o]
<1>0. /\ Directory!TypeOK /\ TablesAreSound /\ r \in OpenRecords /\ d_open \in [OpenCalls -> OpenRecords]
      /\ Early(o) /\ OpenIsSound(o)
  BY DEF DirInv, DirTypes, Directory!Attach, Early
<1>1. /\ UNCHANGED <<d_sessions, d_hosts, d_hostState, d_runtime, d_home, d_trees, d_saved, d_remembered, d_handles, d_ender>>
      /\ TablesKept /\ (\A i \in Directory!Ids : d_sessions'[i] \in {None, d_sessions[i]})
      /\ \A p \in OpenCalls : LivesOn(p)
  BY DEF Directory!Attach, Directory!project, Directory!disk, TablesKept, LivesOn
<1>2. \E x \in OpenRecords :
        /\ d_open' = [d_open EXCEPT ![o] = x] /\ x.at \in {"reuse", "done"}
        /\ x.id = r.id /\ (x.want \in Directory!Ids => Past(x.want))
        /\ x.host = r.host /\ x.created = r.created
        /\ d_locks' \in [Directory!Requests \cup Directory!Roots -> OpenCalls \cup {None}]
  <2>1. CASE \E kind \in {"local", "worktree"} :
               /\ d_open' = [d_open EXCEPT ![o].at = "reuse", ![o].want = kind]
               /\ UNCHANGED d_locks
    <3>1. PICK kind \in {"local", "worktree"} :
               d_open' = [d_open EXCEPT ![o].at = "reuse", ![o].want = kind] /\ UNCHANGED d_locks
      BY <2>1
    <3>2. d_open' = [d_open EXCEPT ![o] = [r EXCEPT !.at = "reuse", !.want = kind]]
      BY <3>1, <1>0
    <3> HIDE DEF r
    <3>3. [r EXCEPT !.at = "reuse", !.want = kind] \in OpenRecords
      BY <1>0 DEF OpenRecords
    <3>4. LET y == [r EXCEPT !.at = "reuse", !.want = kind] IN
            y.at = "reuse" /\ y.want = kind /\ y.id = r.id /\ y.host = r.host /\ y.created = r.created
      BY <1>0 DEF OpenRecords
    <3>5. kind \notin Directory!Ids
      BY DirNames
    <3>6. d_locks' \in [Directory!Requests \cup Directory!Roots -> OpenCalls \cup {None}]
      BY <3>1, <1>0 DEF Directory!TypeOK
    <3> QED BY <3>1, <3>2, <3>3, <3>4, <3>5, <3>6
  <2>2. CASE \E i \in d_saved :
               /\ d_open' = [d_open EXCEPT ![o].at = "done", ![o].want = i, ![o].result = i]
               /\ UNCHANGED d_locks
    <3>1. PICK i \in d_saved :
               /\ d_open' = [d_open EXCEPT ![o].at = "done", ![o].want = i, ![o].result = i]
               /\ UNCHANGED d_locks
      BY <2>2
    <3>2. d_open' = [d_open EXCEPT ![o] = [r EXCEPT !.at = "done", !.want = i, !.result = i]]
      BY <3>1, <1>0
    <3>3. i \in Directory!Ids /\ Past(i)
      BY <1>0 DEF Directory!TypeOK, TablesAreSound
    <3> HIDE DEF r
    <3>4. [r EXCEPT !.at = "done", !.want = i, !.result = i] \in OpenRecords
      BY <1>0, <3>3 DEF OpenRecords
    <3>5. LET y == [r EXCEPT !.at = "done", !.want = i, !.result = i] IN
            y.at = "done" /\ y.want = i /\ y.id = r.id /\ y.host = r.host /\ y.created = r.created
      BY <1>0 DEF OpenRecords
    <3>6. d_locks' \in [Directory!Requests \cup Directory!Roots -> OpenCalls \cup {None}]
      BY <3>1, <1>0 DEF Directory!TypeOK
    <3> QED BY <3>1, <3>2, <3>3, <3>4, <3>5, <3>6
  <2>3. CASE \E i \in d_saved :
               /\ d_open' = [d_open EXCEPT ![o].at = "reuse", ![o].want = i]
               /\ d_locks' = [d_locks EXCEPT ![i] = o]
    <3>1. PICK i \in d_saved :
               /\ d_open' = [d_open EXCEPT ![o].at = "reuse", ![o].want = i]
               /\ d_locks' = [d_locks EXCEPT ![i] = o]
      BY <2>3
    <3>2. d_open' = [d_open EXCEPT ![o] = [r EXCEPT !.at = "reuse", !.want = i]]
      BY <3>1, <1>0
    <3>3. i \in Directory!Ids /\ Past(i)
      BY <1>0 DEF Directory!TypeOK, TablesAreSound
    <3> HIDE DEF r
    <3>4. [r EXCEPT !.at = "reuse", !.want = i] \in OpenRecords
      BY <1>0, <3>3 DEF OpenRecords
    <3>5. LET y == [r EXCEPT !.at = "reuse", !.want = i] IN
            y.at = "reuse" /\ y.want = i /\ y.id = r.id /\ y.host = r.host /\ y.created = r.created
      BY <1>0 DEF OpenRecords
    <3>6. d_locks' \in [Directory!Requests \cup Directory!Roots -> OpenCalls \cup {None}]
      BY <1>0, <3>1 DEF Directory!TypeOK
    <3> QED BY <3>1, <3>2, <3>3, <3>4, <3>5, <3>6
  <2> QED BY <2>1, <2>2, <2>3 DEF Directory!Attach
<1>3. PICK x \in OpenRecords :
        /\ d_open' = [d_open EXCEPT ![o] = x] /\ x.at \in {"reuse", "done"}
        /\ x.id = r.id /\ (x.want \in Directory!Ids => Past(x.want))
        /\ x.host = r.host /\ x.created = r.created
        /\ d_locks' \in [Directory!Requests \cup Directory!Roots -> OpenCalls \cup {None}]
  BY <1>2
<1>4. TablesTyped'
  BY <1>0, <1>1, <1>3 DEF Directory!TypeOK, TablesTyped
<1>5. (x.id # None => Past(x.id)) /\ (x.want \in Directory!Ids => Past(x.want))
  BY <1>0, <1>3 DEF OpenIsSound
<1> HIDE DEF r
<1> QED BY <1>0, <1>1, <1>3, <1>4, <1>5, NothingMade DEF r

LEMMA ReuseKeeps == \A o \in OpenCalls : DirInv /\ Directory!Reuse(o) => DirInv'
<1> SUFFICES ASSUME NEW o \in OpenCalls, DirInv, Directory!Reuse(o) PROVE DirInv'
  OBVIOUS
<1> DEFINE r == d_open[o]
           q == RequestOf[o]
           i == IF q = None THEN None ELSE d_remembered[q]
<1>0. /\ Directory!TypeOK /\ TablesAreSound /\ r \in OpenRecords /\ d_open \in [OpenCalls -> OpenRecords]
      /\ Early(o) /\ OpenIsSound(o)
  BY DEF DirInv, DirTypes, Directory!Reuse, Early
<1>1. /\ UNCHANGED <<d_hosts, d_hostState, d_runtime, d_home, d_trees, d_saved, d_remembered, d_ender>>
      /\ \A p \in OpenCalls : LivesOn(p)
  BY DEF Directory!Reuse, Directory!disk, LivesOn
<1>2. i \in Directory!Ids \cup {None} /\ (q # None => q \in Directory!Requests)
  BY <1>0 DEF Directory!TypeOK, Directory!Requests
<1>3. CASE i # None /\ d_sessions[i] # None
  <2>1. /\ d_sessions' = Directory!Pruned
        /\ Directory!Return(o, IF Directory!Pruned[i] # None THEN i ELSE "raised")
        /\ d_handles' = IF Directory!Pruned[i] # None THEN [d_handles EXCEPT ![i] = d_sessions[i]] ELSE d_handles
    BY <1>3 DEF Directory!Reuse
  <2>2. (IF Directory!Pruned[i] # None THEN i ELSE "raised") \in Directory!Ids \cup {None, "raised"}
    BY <1>2
  <2>3. PICK x \in OpenRecords :
          /\ d_open' = [d_open EXCEPT ![o] = x] /\ x.at = "done"
          /\ x.want = d_open[o].want /\ x.id = d_open[o].id /\ x.host = d_open[o].host
          /\ x.created = d_open[o].created
    BY <2>1, <2>2, ReturnIs
  <2>4. d_locks' \in [Directory!Requests \cup Directory!Roots -> OpenCalls \cup {None}]
    BY <2>1, <2>2, ReturnIs
  <2>5. /\ TablesKept /\ \A j \in Directory!Ids : d_sessions'[j] \in {None, d_sessions[j]}
        /\ d_sessions' \in [Directory!Ids -> OpenCalls \cup {None}]
    BY <1>1, <2>1, TablesArePruned
  <2>6. d_handles' \in [Directory!Ids -> OpenCalls \cup {None}]
    BY <1>0, <1>2, <1>3, <2>1 DEF Directory!TypeOK
  <2>7. TablesTyped'
    BY <1>0, <1>1, <2>4, <2>5, <2>6 DEF Directory!TypeOK, TablesTyped
  <2>8. (x.id # None => Past(x.id)) /\ (x.want \in Directory!Ids => Past(x.want))
    BY <1>0, <2>3 DEF OpenIsSound
  <2> HIDE DEF r, q, i
  <2> QED BY <1>0, <1>1, <2>3, <2>5, <2>7, <2>8, NothingMade
<1>4. CASE ~(i # None /\ d_sessions[i] # None)
  <2>1. /\ d_open' = [d_open EXCEPT ![o].at = "room",
               ![o].want = IF i \in d_saved /\ @ \in {"local", "worktree"} THEN i ELSE @]
        /\ d_locks' = IF q = None THEN d_locks ELSE [d_locks EXCEPT ![q] = o]
        /\ UNCHANGED <<d_sessions, d_handles>>
    BY <1>4 DEF Directory!Reuse
  <2> DEFINE w == IF i \in d_saved /\ r.want \in {"local", "worktree"} THEN i ELSE r.want
             x == [r EXCEPT !.at = "room", !.want = w]
  <2>2. d_open' = [d_open EXCEPT ![o] = x]
    BY <2>1, <1>0
  <2>3. w \in {"local", "worktree"} \cup Directory!Ids /\ (w \in Directory!Ids => Past(w))
    BY <1>0 DEF OpenRecords, Directory!TypeOK, TablesAreSound, OpenIsSound
  <2>4. x \in OpenRecords
    <3> HIDE DEF r, w
    <3> QED BY <1>0, <2>3 DEF OpenRecords
  <2>5. x.at = "room" /\ x.want = w /\ x.id = d_open[o].id /\ x.host = d_open[o].host /\ x.created = d_open[o].created
    <3>1. x.at = "room" /\ x.want = w /\ x.id = r.id /\ x.host = r.host /\ x.created = r.created
      <4> HIDE DEF r, w
      <4> QED BY <1>0 DEF OpenRecords
    <3> QED BY <3>1
  <2>6. TablesKept /\ \A j \in Directory!Ids : d_sessions'[j] \in {None, d_sessions[j]}
    BY <1>1, <2>1, TablesStay
  <2>7. TablesTyped'
    <3>1. d_locks' \in [Directory!Requests \cup Directory!Roots -> OpenCalls \cup {None}]
      BY <1>0, <2>1 DEF Directory!TypeOK
    <3> QED BY <1>0, <1>1, <2>1, <3>1 DEF Directory!TypeOK, TablesTyped
  <2>8. (x.id # None => Past(x.id)) /\ (x.want \in Directory!Ids => Past(x.want))
    BY <1>0, <2>3, <2>5 DEF OpenIsSound
  <2> HIDE DEF x, w, r, q, i
  <2> QED BY <1>0, <1>1, <2>2, <2>4, <2>5, <2>6, <2>7, <2>8, NothingMade
<1> QED BY <1>3, <1>4

LEMMA MakeRoomKeeps == \A o \in OpenCalls : DirInv /\ Directory!MakeRoom(o) => DirInv'
<1> SUFFICES ASSUME NEW o \in OpenCalls, DirInv, Directory!MakeRoom(o) PROVE DirInv'
  OBVIOUS
<1> DEFINE r == d_open[o]
<1>0. /\ Directory!TypeOK /\ TablesAreSound /\ r \in OpenRecords /\ d_open \in [OpenCalls -> OpenRecords]
      /\ Early(o) /\ OpenIsSound(o)
  BY DEF DirInv, DirTypes, Directory!MakeRoom, Early
<1>1. /\ UNCHANGED <<d_hosts, d_hostState, d_home, d_trees, d_saved, d_remembered, d_handles, d_locks, d_ender>>
      /\ d_sessions' = Directory!Pruned
  BY DEF Directory!MakeRoom, Directory!disk
<1>2. CASE Directory!Goto(o, "reserve") /\ UNCHANGED d_runtime
  <2>1. PICK x \in OpenRecords :
              /\ d_open' = [d_open EXCEPT ![o] = x] /\ x.at = "reserve"
              /\ x.want = d_open[o].want /\ x.id = d_open[o].id /\ x.host = d_open[o].host
              /\ x.created = d_open[o].created
    BY <1>2, GotoIs DEF Directory!Goto
  <2>2. \A p \in OpenCalls : LivesOn(p)
    BY <1>1, <1>2 DEF LivesOn
  <2>3. /\ TablesKept /\ \A j \in Directory!Ids : d_sessions'[j] \in {None, d_sessions[j]}
        /\ d_sessions' \in [Directory!Ids -> OpenCalls \cup {None}]
    BY <1>1, <2>2, TablesArePruned
  <2>4. TablesTyped'
    BY <1>0, <1>1, <1>2, <2>3 DEF Directory!TypeOK, TablesTyped
  <2>5. (x.id # None => Past(x.id)) /\ (x.want \in Directory!Ids => Past(x.want))
    BY <1>0, <2>1 DEF OpenIsSound
  <2> HIDE DEF r
  <2> QED BY <1>0, <1>1, <2>1, <2>2, <2>3, <2>4, <2>5, NothingMade
<1>3. CASE \E i \in Directory!Active(Directory!Pruned) :
            /\ Directory!Evictable(Directory!Pruned[i])
            /\ d_open' = [d_open EXCEPT ![o].at = "evict", ![o].victim = Directory!Pruned[i], ![o].id = i]
            /\ d_runtime' = Directory!Closing(Directory!Pruned[i])
  <2>1. PICK i \in Directory!Active(Directory!Pruned) :
            /\ d_open' = [d_open EXCEPT ![o].at = "evict", ![o].victim = Directory!Pruned[i], ![o].id = i]
            /\ d_runtime' = Directory!Closing(Directory!Pruned[i])
    BY <1>3
  <2>2. i \in Directory!Ids /\ d_sessions[i] # None /\ Directory!Pruned[i] = d_sessions[i] /\ d_sessions[i] \in OpenCalls
    BY <1>0, PrunedKeeps DEF Directory!Active, Directory!TypeOK
  <2>3. /\ \A p \in OpenCalls : LivesOn(p)
        /\ d_runtime' \in [OpenCalls -> {"none", "idle", "busy", "closing", "closed"}]
    BY <1>1, <2>1, <2>2, ClosingLives
  <2>4. /\ TablesKept /\ \A j \in Directory!Ids : d_sessions'[j] \in {None, d_sessions[j]}
        /\ d_sessions' \in [Directory!Ids -> OpenCalls \cup {None}]
    BY <1>1, <2>3, TablesArePruned
  <2> DEFINE v == Directory!Pruned[i]
             x == [r EXCEPT !.at = "evict", !.victim = v, !.id = i]
  <2>5. d_open' = [d_open EXCEPT ![o] = x]
    BY <2>1, <1>0
  <2>6. v \in OpenCalls
    BY <2>2
  <2>7. x \in OpenRecords /\ x.at = "evict" /\ x.want = r.want /\ x.id = i /\ x.host = r.host
        /\ x.created = r.created
    <3> HIDE DEF r, v
    <3>1. x \in OpenRecords
      BY <1>0, <2>2, <2>6 DEF OpenRecords
    <3>2. x.at = "evict" /\ x.want = r.want /\ x.id = i /\ x.host = r.host /\ x.created = r.created
      BY <1>0 DEF OpenRecords
    <3> QED BY <3>1, <3>2
  <2>8. TablesTyped'
    BY <1>0, <1>1, <2>3, <2>4 DEF Directory!TypeOK, TablesTyped
  <2>9. Past(i)
    <3>1. Late(d_sessions[i]) /\ d_open[d_sessions[i]].id = i /\ OpenIsSound(d_sessions[i])
      BY <1>0, <2>2 DEF TablesAreSound, DirInv
    <3> QED BY <3>1, <2>2, DirNames DEF OpenIsSound
  <2>10. (x.id # None => Past(x.id)) /\ (x.want \in Directory!Ids => Past(x.want))
    BY <1>0, <2>7, <2>9 DEF OpenIsSound
  <2>11. x.host = d_open[o].host /\ x.created = d_open[o].created
    BY <2>7
  <2> HIDE DEF x, r, v
  <2> QED BY <1>0, <1>1, <2>3, <2>4, <2>5, <2>7, <2>8, <2>10, <2>11, NothingMade
<1> QED BY <1>2, <1>3 DEF Directory!MakeRoom

LEMMA EvictKeeps == \A o \in OpenCalls : DirInv /\ Directory!Evict(o) => DirInv'
<1> SUFFICES ASSUME NEW o \in OpenCalls, DirInv, Directory!Evict(o) PROVE DirInv'
  OBVIOUS
<1> DEFINE r == d_open[o]
           x == [r EXCEPT !.at = "reserve", !.victim = None, !.id = None]
<1>0. /\ Directory!TypeOK /\ TablesAreSound /\ r \in OpenRecords /\ d_open \in [OpenCalls -> OpenRecords]
      /\ Early(o) /\ OpenIsSound(o)
  BY DEF DirInv, DirTypes, Directory!Evict, Early
<1>1. /\ UNCHANGED <<d_hosts, d_hostState, d_runtime, d_home, d_trees, d_saved, d_remembered, d_handles, d_locks, d_ender>>
      /\ \A p \in OpenCalls : LivesOn(p)
  BY DEF Directory!Evict, Directory!disk, LivesOn
<1>2. d_open' = [d_open EXCEPT ![o] = x]
  BY <1>0 DEF Directory!Evict
<1>3. x \in OpenRecords /\ x.at = "reserve" /\ x.want = r.want /\ x.id = None /\ x.host = r.host
      /\ x.created = r.created
  <2> HIDE DEF r
  <2>1. x \in OpenRecords
    BY <1>0 DEF OpenRecords
  <2>2. x.at = "reserve" /\ x.want = r.want /\ x.id = None /\ x.host = r.host /\ x.created = r.created
    BY <1>0 DEF OpenRecords
  <2> QED BY <2>1, <2>2
<1>4. /\ TablesKept /\ \A j \in Directory!Ids : d_sessions'[j] \in {None, d_sessions[j]}
      /\ d_sessions' \in [Directory!Ids -> OpenCalls \cup {None}]
  <2>1. CASE d_sessions' = d_sessions
    BY <1>0, <1>1, <2>1, TablesStay DEF Directory!TypeOK
  <2>2. CASE d_sessions' = Directory!Forget(d_open[o].id, d_open[o].victim)
    <3>1. CASE d_open[o].id \in Directory!Ids
      BY <1>1, <2>2, <3>1, ForgetKeeps
    <3>2. CASE d_open[o].id \notin Directory!Ids
      <4>1. d_sessions' = d_sessions
        BY <1>0, <2>2, <3>2 DEF Directory!Forget, Directory!TypeOK
      <4> QED BY <1>0, <1>1, <4>1, TablesStay DEF Directory!TypeOK
    <3> QED BY <3>1, <3>2
  <2> QED BY <2>1, <2>2 DEF Directory!Evict
<1>5. TablesTyped'
  BY <1>0, <1>1, <1>4 DEF Directory!TypeOK, TablesTyped
<1>6. (x.id # None => Past(x.id)) /\ (x.want \in Directory!Ids => Past(x.want))
  BY <1>0, <1>3 DEF OpenIsSound
<1>7. x.host = d_open[o].host /\ x.created = d_open[o].created
  BY <1>3
<1> HIDE DEF x, r
<1> QED BY <1>0, <1>1, <1>2, <1>3, <1>4, <1>5, <1>6, <1>7, NothingMade

LEMMA ReserveKeeps == \A o \in OpenCalls : DirInv /\ Directory!Reserve(o) => DirInv'
<1> SUFFICES ASSUME NEW o \in OpenCalls, DirInv, Directory!Reserve(o) PROVE DirInv'
  OBVIOUS
<1> DEFINE r == d_open[o]
           want == d_open[o].want
           new == want \in {"local", "worktree"}
           id == IF new THEN o ELSE want
<1>0. /\ Directory!TypeOK /\ TablesAreSound /\ r \in OpenRecords /\ d_open \in [OpenCalls -> OpenRecords]
      /\ Early(o) /\ OpenIsSound(o) /\ r.at = "reserve"
  BY DEF DirInv, DirTypes, Directory!Reserve, Early
<1>1. /\ UNCHANGED <<d_hosts, d_hostState, d_runtime, d_saved, d_remembered, d_handles, d_ender>>
      /\ d_sessions' = Directory!Pruned
      /\ \A p \in OpenCalls : LivesOn(p)
  BY DEF Directory!Reserve, LivesOn
<1>2. /\ TablesKept /\ \A j \in Directory!Ids : d_sessions'[j] \in {None, d_sessions[j]}
      /\ d_sessions' \in [Directory!Ids -> OpenCalls \cup {None}]
  BY <1>1, TablesArePruned
<1>3. CASE Directory!Return(o, "raised") /\ UNCHANGED <<d_home, d_trees>>
  <2>1. PICK x \in OpenRecords :
          /\ d_open' = [d_open EXCEPT ![o] = x] /\ x.at = "done"
          /\ x.want = d_open[o].want /\ x.id = d_open[o].id /\ x.host = d_open[o].host
          /\ x.created = d_open[o].created
    BY <1>3, ReturnIs
  <2>2. d_locks' \in [Directory!Requests \cup Directory!Roots -> OpenCalls \cup {None}]
    BY <1>3, ReturnIs
  <2>3. TablesTyped'
    BY <1>0, <1>1, <1>2, <1>3, <2>2 DEF Directory!TypeOK, TablesTyped
  <2>4. (x.id # None => Past(x.id)) /\ (x.want \in Directory!Ids => Past(x.want))
    BY <1>0, <2>1 DEF OpenIsSound
  <2> HIDE DEF r, want, id, new
  <2> QED BY <1>0, <1>1, <1>2, <1>3, <2>1, <2>3, <2>4, NothingMade
<1>4. CASE /\ d_open' = [d_open EXCEPT ![o].at = "lock", ![o].id = id,
                                  ![o].created = want = "worktree"]
           /\ d_home' = [d_home EXCEPT ![id] = IF want = "worktree" THEN id ELSE @]
           /\ d_trees' = IF want = "worktree" THEN d_trees \cup {id} ELSE d_trees
           /\ UNCHANGED d_locks
  <2> DEFINE c == want = "worktree"
             z == [r EXCEPT !.at = "lock", !.id = id, !.created = c]
  <2>0. c \in BOOLEAN
    OBVIOUS
  <2>1. d_open' = [d_open EXCEPT ![o] = z]
    BY <1>4, <1>0
  <2>2. id \in Directory!Ids /\ id # None /\ (~new => Past(id)) /\ (c => id = o)
    BY <1>0, DirNames DEF OpenRecords, OpenIsSound
  <2>3. z \in OpenRecords /\ z.at = "lock" /\ z.want = r.want /\ z.id = id /\ z.host = r.host
        /\ z.created = c
    <3> HIDE DEF r, id, c
    <3>1. z \in OpenRecords
      BY <1>0, <2>0, <2>2 DEF OpenRecords
    <3>2. z.at = "lock" /\ z.want = r.want /\ z.id = id /\ z.host = r.host /\ z.created = c
      BY <1>0 DEF OpenRecords
    <3> QED BY <3>1, <3>2
  <2> HIDE DEF z
  <2>4. PICK x \in OpenRecords :
          /\ d_open' = [d_open EXCEPT ![o] = x]
          /\ x.at = "lock" /\ x.want = r.want /\ x.id = id /\ x.host = r.host /\ x.created = c
    BY <2>1, <2>3
  <2>5. /\ d_open'[o] = x /\ \A p \in OpenCalls \ {o} : d_open'[p] = d_open[p]
        /\ x.id \in Directory!Ids /\ x.id # None /\ (x.id # o => Past(x.id)) /\ (x.created => x.id = o)
    BY <1>0, <2>2, <2>4
  <2>6. \A j \in Directory!Ids : Past(j) => d_home'[j] = d_home[j]
    BY <1>0, <1>4, <2>2, DirNames DEF Directory!TypeOK, Past
  <2>7. \A j \in Directory!Ids : Past(j) => Past(j)'
    BY <2>4, <2>5, DirNames DEF Past, Early, Directory!Ids
  <2>8. Past(o)'
    BY <2>4, <2>5 DEF Past, Early
  <2>9. Past(x.id)' /\ (x.want \in Directory!Ids => Past(x.want)')
    BY <1>0, <2>4, <2>5, <2>7, <2>8 DEF OpenIsSound
  <2>10. d_runtime[o] = "none" /\ d_hostState[o] = "none" /\ o \notin d_trees /\ ~Late(o)
    BY <1>0, NothingMadeYet
  <2>11. x.host # None => Late(x.host)' /\ d_hostState'[x.host] # "none"
    BY <1>0, <1>1, <2>4, <2>5, <2>10 DEF OpenIsSound, OpenRecords, Late
  <2>12. /\ o \in d_trees' => x.created
         /\ d_trees' \subseteq d_trees \cup {o}
    BY <1>4, <2>2, <2>4, <2>10
  <2>13. TablesTyped'
    <3>1. d_home' \in [Directory!Ids -> Directory!Roots] /\ d_trees' \subseteq Directory!Ids
      BY <1>0, <1>4, <2>2, DirNames DEF Directory!TypeOK, Directory!Roots
    <3> QED BY <1>0, <1>1, <1>2, <1>4, <3>1 DEF Directory!TypeOK, TablesTyped
  <2>14. Becomes(o, x)
    BY <2>4, <2>10 DEF Becomes
  <2> HIDE DEF r, id, c, want, new
  <2>15. OpenIsSound(o)'
    BY <1>1, <2>4, <2>5, <2>9, <2>10, <2>11, <2>12 DEF OpenIsSound, Late, Early, Within
  <2>16. x.at \notin {"assemble", "register", "loser"}
    BY <2>4
  <2> QED BY <1>1, <1>2, <2>6, <2>12, <2>13, <2>14, <2>15, <2>16, QuietOpenStep
<1> QED BY <1>3, <1>4 DEF Directory!Reserve

\* A step of an open that ends its assembly with nothing left over.
LEMMA LeavesNothing ==
  ASSUME DirInv, NEW o \in OpenCalls, Within(o), Directory!Return(o, "raised"), d_ender' = d_ender,
         UNCHANGED <<d_sessions, d_hosts, d_home, d_remembered, d_handles>>,
         d_trees' = Directory!RolledBack(o),
         d_saved' \in {d_saved, d_saved \cup {d_open[o].id}},
         d_runtime' \in [OpenCalls -> {"none", "idle", "busy", "closing", "closed"}],
         d_hostState' \in [OpenCalls -> {"none", "running", "closing", "closed"}],
         \A p \in OpenCalls \ {o} : d_runtime'[p] = d_runtime[p] /\ d_hostState'[p] = d_hostState[p],
         d_runtime'[o] \in {"none", "closing", "closed"}, d_hostState'[o] # "running",
         d_runtime[o] # "none" => d_runtime'[o] # "none",
         d_hostState[o] # "none" => d_hostState'[o] # "none",
         d_hostState[o] = "closed" => d_hostState'[o] = "closed",
         d_open[o].host # None => d_hostState'[o] = "none"
  PROVE  DirInv'
<1>0. /\ Directory!TypeOK /\ TablesAreSound /\ d_open[o] \in OpenRecords /\ d_open \in [OpenCalls -> OpenRecords]
      /\ OpenIsSound(o) /\ ~Late(o) /\ ~Early(o)
  BY DEF DirInv, DirTypes, Within, Late, Early
<1>1. PICK x \in OpenRecords :
          /\ d_open' = [d_open EXCEPT ![o] = x] /\ x.at = "done"
          /\ x.want = d_open[o].want /\ x.id = d_open[o].id /\ x.host = d_open[o].host
          /\ x.created = d_open[o].created
  BY ReturnIs
<1>2. /\ d_locks' \in [Directory!Requests \cup Directory!Roots -> OpenCalls \cup {None}]
      /\ d_open'[o] = x /\ \A p \in OpenCalls \ {o} : d_open'[p] = d_open[p]
  BY <1>0, <1>1, ReturnIs
<1>3. d_open[o].id \in Directory!Ids /\ d_open[o].id # None /\ Past(d_open[o].id)
  BY <1>0 DEF OpenIsSound, OpenRecords, Within
<1>4. \A i \in Directory!Ids : Past(i) => Past(i)'
  BY <1>1, <1>2, DirNames DEF Past, Early, Directory!Ids
<1>5. o \notin d_trees' /\ d_trees' \subseteq d_trees
  BY <1>0 DEF Directory!RolledBack, OpenIsSound
<1>6. x.host # None => Late(x.host)' /\ d_hostState'[x.host] # "none"
  BY <1>0, <1>1, <1>2 DEF OpenIsSound, OpenRecords, Late
<1>7. Past(x.id)' /\ (x.want \in Directory!Ids => Past(x.want)') /\ (x.created => x.id = o)
  BY <1>0, <1>1, <1>3, <1>4 DEF OpenIsSound
<1>8. OpenIsSound(o)'
  BY <1>1, <1>2, <1>3, <1>4, <1>5, <1>6, <1>7 DEF OpenIsSound, Late, Early, Within
<1>9. TablesTyped'
  BY <1>0, <1>2, <1>3, <1>5 DEF Directory!TypeOK, TablesTyped
<1>10. TablesKept /\ \A j \in Directory!Ids : d_sessions'[j] \in {None, d_sessions[j]}
  BY TablesStay
<1>11. \A p \in OpenCalls \ {o} : LivesOn(p)
  BY DEF LivesOn
<1>12. Becomes(o, x)
  BY <1>0, <1>1 DEF Becomes
<1> QED BY <1>1, <1>3, <1>5, <1>8, <1>9, <1>10, <1>11, <1>12, QuietOpenStep

LEMMA FailureKeeps == \A o \in OpenCalls : DirInv /\ (Directory!AssembleFails(o) \/ Directory!StartFails(o) \/ Directory!Loser(o)) => DirInv'
<1> SUFFICES ASSUME NEW o \in OpenCalls, DirInv, Directory!AssembleFails(o) \/ Directory!StartFails(o) \/ Directory!Loser(o) PROVE DirInv'
  OBVIOUS
<1>0. /\ Directory!TypeOK /\ d_open[o] \in OpenRecords /\ OpenIsSound(o) /\ Within(o)
  BY DEF DirInv, DirTypes, Directory!AssembleFails, Directory!StartFails, Directory!Loser, Within
<1>1. CASE Directory!AssembleFails(o)
  <2>1. d_runtime[o] = "none" /\ d_hostState[o] = "none"
    BY <1>1, NothingMadeYet DEF Directory!AssembleFails
  <2> QED BY <1>0, <1>1, <2>1, LeavesNothing DEF Directory!AssembleFails, Directory!project,
     Directory!TypeOK
<1>2. CASE Directory!StartFails(o)
  <2>1. d_runtime[o] = "none" /\ d_hostState[o] = "none"
    BY <1>2, NothingMadeYet DEF Directory!StartFails
  <2>2. /\ d_runtime' = [d_runtime EXCEPT ![o] = "closed"]
        /\ d_hostState' = IF d_open[o].host = None THEN [d_hostState EXCEPT ![o] = "closed"] ELSE d_hostState
        /\ Directory!Return(o, "raised") /\ d_ender' = d_ender /\ d_trees' = Directory!RolledBack(o)
        /\ d_saved' = d_saved \cup {d_open[o].id}
        /\ UNCHANGED <<d_sessions, d_hosts, d_home, d_remembered, d_handles>>
    BY <1>2 DEF Directory!StartFails, Directory!HostAfter
  <2>3. /\ d_runtime' \in [OpenCalls -> {"none", "idle", "busy", "closing", "closed"}]
        /\ d_hostState' \in [OpenCalls -> {"none", "running", "closing", "closed"}]
        /\ \A p \in OpenCalls \ {o} : d_runtime'[p] = d_runtime[p] /\ d_hostState'[p] = d_hostState[p]
        /\ d_runtime'[o] = "closed" /\ d_hostState'[o] \in {"none", "closed"}
        /\ d_open[o].host # None => d_hostState'[o] = "none"
    BY <1>0, <2>1, <2>2 DEF Directory!TypeOK
  <2> QED BY <1>0, <2>1, <2>2, <2>3, LeavesNothing
<1>3. CASE Directory!Loser(o)
  <2>1. /\ d_runtime[o] = "idle"
        /\ d_open[o].host = None => d_hostState[o] # "none"
        /\ d_open[o].host # None => d_hostState[o] = "none"
    BY <1>0, <1>3 DEF Directory!Loser, OpenIsSound
  <2>2. /\ d_runtime' = Directory!Closing(o)
        /\ d_hostState' = IF d_open[o].host = None THEN [d_hostState EXCEPT ![o] = "closed"] ELSE d_hostState
        /\ Directory!Return(o, "raised") /\ d_ender' = d_ender /\ d_trees' = Directory!RolledBack(o)
        /\ UNCHANGED <<d_sessions, d_hosts, d_home, d_saved, d_remembered, d_handles>>
    BY <1>3 DEF Directory!Loser, Directory!HostAfter
  <2>3. /\ d_runtime' \in [OpenCalls -> {"none", "idle", "busy", "closing", "closed"}]
        /\ \A p \in OpenCalls \ {o} : d_runtime'[p] = d_runtime[p]
        /\ d_runtime'[o] = "closing"
    BY <1>0, <2>1, <2>2 DEF Directory!TypeOK, Directory!Closing
  <2>4. /\ d_hostState' \in [OpenCalls -> {"none", "running", "closing", "closed"}]
        /\ \A p \in OpenCalls \ {o} : d_hostState'[p] = d_hostState[p]
        /\ d_hostState'[o] \in {"none", "closed"}
        /\ d_open[o].host = None => d_hostState'[o] = "closed"
        /\ d_open[o].host # None => d_hostState'[o] = "none"
    BY <1>0, <2>1, <2>2 DEF Directory!TypeOK
  <2> QED BY <1>0, <2>1, <2>2, <2>3, <2>4, LeavesNothing
<1> QED BY <1>1, <1>2, <1>3

LEMMA LockRootKeeps == \A o \in OpenCalls : DirInv /\ Directory!LockRoot(o) => DirInv'
<1> SUFFICES ASSUME NEW o \in OpenCalls, DirInv, Directory!LockRoot(o) PROVE DirInv'
  OBVIOUS
<1> DEFINE r == d_open[o]
           root == Directory!RootOf(o)
           h == d_hosts[root]
           z == [r EXCEPT !.at = "assemble", !.host = h]
<1>0. /\ Directory!TypeOK /\ TablesAreSound /\ OneAssembly /\ Directory!CapacityHolds
      /\ r \in OpenRecords /\ d_open \in [OpenCalls -> OpenRecords]
      /\ OpenIsSound(o) /\ ~Late(o) /\ ~Early(o) /\ ~Within(o) /\ r.at = "lock"
  BY DEF DirInv, DirTypes, Directory!LockRoot, Late, Early, Within
<1>1. /\ UNCHANGED <<d_sessions, d_hosts, d_hostState, d_runtime, d_home, d_trees, d_saved, d_remembered, d_handles, d_locks, d_ender>>
      /\ d_open' = [d_open EXCEPT ![o] = z]
  BY <1>0 DEF Directory!LockRoot, Directory!project, Directory!disk
<1>2. /\ r.id \in Directory!Ids /\ r.id # None /\ Past(r.id) /\ root = d_home[r.id] /\ root \in Directory!Roots
      /\ h \in OpenCalls \cup {None} /\ (h # None => Late(h) /\ d_hostState[h] # "none")
  BY <1>0 DEF OpenIsSound, OpenRecords, Directory!RootOf, Directory!TypeOK, TablesAreSound
<1>3. z \in OpenRecords /\ z.at = "assemble" /\ z.want = r.want /\ z.id = r.id /\ z.host = h
      /\ z.created = r.created
  <2> HIDE DEF r, h
  <2>1. z \in OpenRecords
    BY <1>0, <1>2 DEF OpenRecords
  <2>2. z.at = "assemble" /\ z.want = r.want /\ z.id = r.id /\ z.host = h /\ z.created = r.created
    BY <1>0 DEF OpenRecords
  <2> QED BY <2>1, <2>2
<1> HIDE DEF z
<1>4. PICK x \in OpenRecords :
        /\ d_open' = [d_open EXCEPT ![o] = x] /\ x.at = "assemble"
        /\ x.want = d_open[o].want /\ x.id = d_open[o].id /\ x.created = d_open[o].created
        /\ x.host = d_hosts[d_home[d_open[o].id]]
  BY <1>1, <1>2, <1>3
<1>5. d_open'[o] = x /\ \A p \in OpenCalls \ {o} : d_open'[p] = d_open[p]
  BY <1>0, <1>4
<1>6. d_runtime[o] = "none" /\ d_hostState[o] = "none"
  BY <1>0, NothingMadeYet
<1>7. \A i \in Directory!Ids : Past(i) => Past(i)'
  BY <1>4, <1>5, DirNames DEF Past, Early, Directory!Ids
<1>8. /\ x.id \in Directory!Ids /\ Past(x.id)' /\ (x.want \in Directory!Ids => Past(x.want)')
      /\ x.created => x.id = o
  BY <1>0, <1>2, <1>4, <1>7 DEF OpenIsSound
<1>9. x.host # None => Late(x.host)' /\ d_hostState'[x.host] # "none"
  BY <1>0, <1>1, <1>2, <1>4, <1>5 DEF Late
<1>10. d_hosts'[Directory!RootOf(o)'] = x.host
  BY <1>1, <1>4, <1>5 DEF Directory!RootOf
<1>11. o \in d_trees' => x.created
  BY <1>0, <1>1, <1>4 DEF OpenIsSound
<1>12. OpenIsSound(o)'
  <2> HIDE DEF r, h, root
  <2> QED
    BY <1>1, <1>4, <1>5, <1>6, <1>8, <1>9, <1>10, <1>11, DirNames DEF OpenIsSound, Late, Early,
       Within
<1>13. TablesTyped'
  BY <1>0, <1>1 DEF Directory!TypeOK, TablesTyped
<1>14. TablesKept /\ \A p \in OpenCalls \ {o} : LivesOn(p)
  BY <1>1 DEF TablesKept, LivesOn
<1>15. TablesAreSound'
  <2>1. \A q \in OpenCalls : Late(q) => q # o /\ Late(q)' /\ d_open'[q].id = d_open[q].id
    BY <1>0, <1>5 DEF Late
  <2> QED BY <1>0, <1>1, <1>7, <2>1 DEF TablesAreSound, Directory!TypeOK
<1>16. OneAssembly'
  <2>1. \A p \in OpenCalls \ {o} : Within(p)' => Within(p) /\ Directory!RootOf(p)' = Directory!RootOf(p) /\ Directory!RootOf(p) # Directory!RootOf(o)
    BY <1>1, <1>5 DEF Within, Directory!RootOf, Directory!LockRoot
  <2>2. Directory!RootOf(o)' = Directory!RootOf(o)
    BY <1>1, <1>4, <1>5 DEF Directory!RootOf
  <2> QED BY <1>0, <2>1, <2>2 DEF OneAssembly
<1>17. Directory!CapacityHolds'
  BY <1>0, <1>1 DEF Directory!CapacityHolds, Directory!Active
<1>18. DirTypes'
  BY <1>1, <1>4, <1>13, StepIsTyped
<1> QED
  BY <1>0, <1>1, <1>4, <1>12, <1>14, <1>15, <1>16, <1>17, <1>18, OneOpenStep

LEMMA AssembleKeeps == \A o \in OpenCalls : DirInv /\ Directory!Assemble(o) => DirInv'
<1> SUFFICES ASSUME NEW o \in OpenCalls, DirInv, Directory!Assemble(o) PROVE DirInv'
  OBVIOUS
<1>0. /\ Directory!TypeOK /\ TablesAreSound /\ d_open[o] \in OpenRecords /\ d_open \in [OpenCalls -> OpenRecords]
      /\ OpenIsSound(o) /\ ~Late(o) /\ ~Early(o) /\ Within(o) /\ d_open[o].at = "assemble"
  BY DEF DirInv, DirTypes, Directory!Assemble, Late, Early, Within
<1>1. /\ UNCHANGED <<d_sessions, d_hosts, d_home, d_trees, d_saved, d_remembered, d_handles, d_locks, d_ender>>
      /\ d_runtime' = [d_runtime EXCEPT ![o] = "idle"]
      /\ d_open' = [d_open EXCEPT ![o].at = "register"]
      /\ IF d_open[o].host = None THEN d_hostState' = [d_hostState EXCEPT ![o] = "running"]
                                ELSE d_hostState' = d_hostState
  BY DEF Directory!Assemble, Directory!disk, Directory!Goto
<1>2. PICK x \in OpenRecords :
              /\ d_open' = [d_open EXCEPT ![o] = x] /\ x.at = "register"
              /\ x.want = d_open[o].want /\ x.id = d_open[o].id /\ x.host = d_open[o].host
              /\ x.created = d_open[o].created
  BY <1>1, GotoIs
<1>3. d_open'[o] = x /\ \A p \in OpenCalls \ {o} : d_open'[p] = d_open[p]
  BY <1>0, <1>2
<1>4. d_runtime[o] = "none" /\ d_hostState[o] = "none"
  BY <1>0, NothingMadeYet
<1>5. /\ d_runtime' \in [OpenCalls -> {"none", "idle", "busy", "closing", "closed"}]
      /\ d_hostState' \in [OpenCalls -> {"none", "running", "closing", "closed"}]
      /\ \A p \in OpenCalls \ {o} : d_runtime'[p] = d_runtime[p] /\ d_hostState'[p] = d_hostState[p]
      /\ d_runtime'[o] = "idle"
      /\ d_open[o].host = None => d_hostState'[o] = "running"
      /\ d_open[o].host # None => d_hostState'[o] = "none"
  BY <1>0, <1>1, <1>4 DEF Directory!TypeOK
<1>6. \A i \in Directory!Ids : Past(i) => Past(i)'
  BY <1>2, <1>3, DirNames DEF Past, Early, Directory!Ids
<1>7. /\ x.id \in Directory!Ids /\ x.id # None /\ Past(x.id)' /\ (x.want \in Directory!Ids => Past(x.want)')
      /\ x.created => x.id = o
  BY <1>0, <1>2, <1>6 DEF OpenIsSound, OpenRecords
<1>8. x.host # None => Late(x.host)' /\ d_hostState'[x.host] # "none"
  BY <1>0, <1>2, <1>3, <1>5 DEF OpenIsSound, OpenRecords, Late
<1>9. Directory!RootOf(o)' = Directory!RootOf(o) /\ d_hosts'[Directory!RootOf(o)'] \in {None, x.host} /\ (o \in d_trees' => x.created)
  BY <1>0, <1>1, <1>2, <1>3 DEF Directory!RootOf, OpenIsSound
<1>10. OpenIsSound(o)'
  BY <1>0, <1>1, <1>2, <1>3, <1>5, <1>7, <1>8, <1>9 DEF OpenIsSound, Late, Early, Within
<1>11. TablesTyped'
  BY <1>0, <1>1, <1>5 DEF Directory!TypeOK, TablesTyped
<1>12. \A q \in OpenCalls : Late(q) => q # o
  BY <1>0
<1>13. TablesKept /\ \A j \in Directory!Ids : d_sessions'[j] \in {None, d_sessions[j]}
  BY <1>1, TablesStay
<1>14. \A p \in OpenCalls \ {o} : LivesOn(p)
  BY <1>5 DEF LivesOn
<1>15. Becomes(o, x)
  BY <1>0, <1>2 DEF Becomes
<1> QED
  BY <1>0, <1>1, <1>2, <1>4, <1>5, <1>10, <1>11, <1>13, <1>14, <1>15, QuietOpenStep

LEMMA RegisterKeeps == \A o \in OpenCalls : DirInv /\ Directory!Register(o) => DirInv'
<1> SUFFICES ASSUME NEW o \in OpenCalls, DirInv, Directory!Register(o) PROVE DirInv'
  OBVIOUS
<1> DEFINE id == d_open[o].id
           root == Directory!RootOf(o)
<1>0. /\ Directory!TypeOK /\ TablesAreSound /\ d_open[o] \in OpenRecords /\ d_open \in [OpenCalls -> OpenRecords]
      /\ OpenIsSound(o) /\ ~Late(o) /\ ~Early(o) /\ Within(o) /\ d_open[o].at = "register"
      /\ OneAssembly /\ Directory!CapacityHolds
  BY DEF DirInv, DirTypes, Directory!Register, Late, Early, Within
<1>1. /\ UNCHANGED <<d_hostState, d_runtime, d_home, d_trees, d_saved, d_remembered, d_handles, d_locks, d_ender>>
      /\ \A p \in OpenCalls : LivesOn(p)
  BY DEF Directory!Register, Directory!disk, LivesOn
<1>2. /\ id \in Directory!Ids /\ id # None /\ Past(id) /\ root = d_home[id] /\ root \in Directory!Roots
      /\ d_runtime[o] = "idle"
      /\ d_open[o].host \in OpenCalls \cup {None}
      /\ d_open[o].host # None => Late(d_open[o].host) /\ d_hostState[d_open[o].host] # "none" /\ d_hostState[o] = "none"
      /\ d_open[o].host = None => d_hostState[o] # "none"
      /\ d_hosts[root] \in {None, d_open[o].host}
      /\ o \in d_trees => d_open[o].created
      /\ d_open[o].created => id = o
  BY <1>0 DEF OpenIsSound, OpenRecords, Directory!RootOf, Directory!TypeOK
<1>3. CASE /\ Directory!MayRegister(Directory!Pruned, id)
           /\ d_sessions' = [Directory!Pruned EXCEPT ![id] = o]
           /\ d_hosts' = [d_hosts EXCEPT ![root] = IF d_open[o].host = None THEN o ELSE d_open[o].host]
           /\ Directory!Goto(o, "read")
  <2>1. PICK x \in OpenRecords :
              /\ d_open' = [d_open EXCEPT ![o] = x] /\ x.at = "read"
              /\ x.want = d_open[o].want /\ x.id = d_open[o].id /\ x.host = d_open[o].host
              /\ x.created = d_open[o].created
    BY <1>3, GotoIs DEF Directory!Goto
  <2>2. d_open'[o] = x /\ \A p \in OpenCalls \ {o} : d_open'[p] = d_open[p]
    BY <1>0, <2>1
  <2>3. /\ d_sessions' \in [Directory!Ids -> OpenCalls \cup {None}] /\ d_sessions'[x.id] = o
        /\ \A j \in Directory!Ids \ {x.id} : d_sessions'[j] = Directory!Pruned[j]
        /\ Directory!Pruned[x.id] = None
    BY <1>2, <1>3, <2>1, PrunedKeeps DEF Directory!MayRegister
  <2>4. /\ d_hosts' \in [Directory!Roots -> OpenCalls \cup {None}]
        /\ d_hosts'[root] = IF d_open[o].host = None THEN o ELSE d_open[o].host
        /\ \A q \in Directory!Roots \ {root} : d_hosts'[q] = d_hosts[q]
        /\ Directory!RootOf(o)' = root
    BY <1>0, <1>1, <1>2, <1>3, <2>1, <2>2 DEF Directory!TypeOK, Directory!RootOf
  <2>5. TablesTyped'
    BY <1>0, <1>1, <2>3, <2>4 DEF Directory!TypeOK, TablesTyped
  <2>6. DirTypes'
    BY <1>1, <2>1, <2>5, StepIsTyped
  <2>7. TablesKept
    <3>1. ASSUME NEW j \in Directory!Ids, d_sessions[j] # None, d_runtime'[d_sessions[j]] \in {"idle", "busy"}
          PROVE  d_sessions'[j] = d_sessions[j]
      <4>1. Directory!Pruned[j] = d_sessions[j]
        BY <1>1, <3>1, PrunedKeeps
      <4> QED BY <3>1, <4>1, <2>3
    <3>2. ASSUME NEW q \in Directory!Roots, d_hosts[q] # None
          PROVE  d_hosts'[q] = d_hosts[q]
      BY <1>2, <3>2, <2>4
    <3> QED BY <3>1, <3>2 DEF TablesKept
  <2>8. \A i \in Directory!Ids : Past(i) => Past(i)'
    BY <2>1, <2>2, DirNames DEF Past, Early, Directory!Ids
  <2>9. Past(x.id)' /\ (x.want \in Directory!Ids => Past(x.want)')
    BY <1>0, <1>2, <2>1, <2>8 DEF OpenIsSound
  <2>10. \A q \in OpenCalls : Late(q) => q # o /\ Late(q)' /\ d_open'[q].id = d_open[q].id
    BY <1>0, <2>2 DEF Late
  <2>11. Late(o)' /\ ~Early(o)' /\ ~Within(o)'
    BY <2>1, <2>2 DEF Late, Early, Within
  <2>12. d_hostState'[o] = "running" => d_hosts'[d_home'[x.id]] = o
    BY <1>1, <1>2, <2>1, <2>4
  <2>13. OpenIsSound(o)'
    <3> HIDE DEF id, root
    <3>1. /\ x.id # None /\ d_runtime'[o] = "idle" /\ d_sessions'[x.id] = o
          /\ o \in d_trees' => x.created
          /\ x.created => x.id = o
      BY <1>1, <1>2, <2>1, <2>3 DEF id
    <3>2. x.host # None => Late(x.host)' /\ d_hostState'[x.host] # "none" /\ d_hostState'[o] = "none"
      BY <1>1, <1>2, <2>1, <2>10
    <3>3. d_open'[o].at \notin {"register", "loser"}
      BY <2>1, <2>2
    <3> QED BY <2>2, <2>9, <2>11, <2>12, <3>1, <3>2, <3>3 DEF OpenIsSound
  <2>14. TablesAreSound'
    <3>1. ASSUME NEW j \in Directory!Ids, d_sessions'[j] # None
          PROVE  /\ d_open'[d_sessions'[j]].at \in {"read", "write", "done"}
                 /\ d_open'[d_sessions'[j]].id = j
                 /\ d_runtime'[d_sessions'[j]] # "none"
      <4>1. CASE j = x.id
        BY <4>1, <1>1, <1>2, <2>1, <2>2, <2>3
      <4>2. CASE j # x.id
        <5>1. d_sessions'[j] = d_sessions[j] /\ d_sessions[j] # None /\ d_sessions[j] \in OpenCalls
          BY <3>1, <4>2, <2>3, PrunedKeeps, <1>0 DEF Directory!TypeOK
        <5> QED BY <5>1, <1>0, <1>1, <2>10 DEF TablesAreSound, Late
      <4> QED BY <4>1, <4>2
    <3>2. ASSUME NEW q \in Directory!Roots, d_hosts'[q] # None
          PROVE  /\ d_open'[d_hosts'[q]].at \in {"read", "write", "done"}
                 /\ d_hostState'[d_hosts'[q]] # "none"
      <4>1. CASE q = root
        BY <4>1, <1>1, <1>2, <2>1, <2>2, <2>4, <2>10 DEF Late
      <4>2. CASE q # root
        BY <3>2, <4>2, <1>0, <1>1, <2>4, <2>10 DEF TablesAreSound, Directory!TypeOK, Late
      <4> QED BY <4>1, <4>2
    <3>3. \A i \in d_saved' : Past(i)'
      BY <1>0, <1>1, <2>8 DEF TablesAreSound, Directory!TypeOK
    <3> QED BY <3>1, <3>2, <3>3 DEF TablesAreSound, Late
  <2>15. OneAssembly'
    BY <1>0, <1>1, <2>2, <2>11 DEF OneAssembly, Within, Directory!RootOf
  <2>16. Directory!CapacityHolds'
    <3>1. \A j \in Directory!Ids : d_sessions'[j] # None => Directory!Pruned[j] # None \/ j = x.id
      BY <2>3
    <3>2. Cardinality(Directory!Active(Directory!Pruned)) < Capacity /\ x.id \in Directory!Ids
      BY <1>2, <1>3, <2>1, SameCardinality DEF Directory!MayRegister
    <3> QED BY <3>1, <3>2, OneMoreIsActive, SameCardinality DEF Directory!CapacityHolds
  <2>17. \A q \in Directory!Roots : d_hosts'[q] \in {None, d_hosts[q]} \/ (Within(o) /\ q = Directory!RootOf(o))
    BY <1>0, <2>4
  <2> HIDE DEF id, root
  <2> QED
    BY <1>0, <1>1, <2>1, <2>6, <2>7, <2>13, <2>14, <2>15, <2>16, <2>17, OneOpenStep
<1>4. CASE d_sessions' = Directory!Pruned /\ UNCHANGED d_hosts /\ Directory!Goto(o, "loser")
  <2>1. PICK x \in OpenRecords :
              /\ d_open' = [d_open EXCEPT ![o] = x] /\ x.at = "loser"
              /\ x.want = d_open[o].want /\ x.id = d_open[o].id /\ x.host = d_open[o].host
              /\ x.created = d_open[o].created
    BY <1>4, GotoIs DEF Directory!Goto
  <2>2. d_open'[o] = x /\ \A p \in OpenCalls \ {o} : d_open'[p] = d_open[p]
    BY <1>0, <2>1
  <2>3. /\ TablesKept /\ \A j \in Directory!Ids : d_sessions'[j] \in {None, d_sessions[j]}
        /\ d_sessions' \in [Directory!Ids -> OpenCalls \cup {None}]
    BY <1>1, <1>4, TablesArePruned
  <2>4. TablesTyped'
    BY <1>0, <1>1, <1>4, <2>3 DEF Directory!TypeOK, TablesTyped
  <2>5. \A i \in Directory!Ids : Past(i) => Past(i)'
    BY <2>1, <2>2, DirNames DEF Past, Early, Directory!Ids
  <2>6. Past(x.id)' /\ (x.want \in Directory!Ids => Past(x.want)') /\ (x.host # None => Late(x.host)')
    BY <1>0, <1>2, <2>1, <2>2, <2>5 DEF OpenIsSound, OpenRecords, Late
  <2>7. OpenIsSound(o)'
    <3> HIDE DEF id, root
    <3>1. d_hosts'[Directory!RootOf(o)'] \in {None, x.host}
      BY <1>1, <1>2, <1>4, <2>1, <2>2 DEF Directory!RootOf, root
    <3>2. x.id # None /\ (x.created => x.id = o) /\ (o \in d_trees' => x.created)
          /\ d_runtime'[o] = "idle" /\ (x.host = None => d_hostState'[o] # "none")
          /\ (x.host # None => d_hostState'[x.host] # "none" /\ d_hostState'[o] = "none")
      BY <1>1, <1>2, <2>1 DEF id
    <3> QED BY <2>1, <2>2, <2>6, <3>1, <3>2 DEF OpenIsSound, Late, Early, Within
  <2>8. Becomes(o, x)
    BY <1>0, <2>1 DEF Becomes
  <2> HIDE DEF id, root
  <2> QED BY <1>0, <1>1, <1>4, <2>1, <2>3, <2>4, <2>7, <2>8, QuietOpenStep
<1> QED BY <1>3, <1>4 DEF Directory!Register

LEMMA RememberKeeps == \A o \in OpenCalls : DirInv /\ (Directory!RememberRead(o) \/ Directory!RememberWrite(o)) => DirInv'
<1> SUFFICES ASSUME NEW o \in OpenCalls, DirInv, Directory!RememberRead(o) \/ Directory!RememberWrite(o) PROVE DirInv'
  OBVIOUS
<1> DEFINE r == d_open[o]
<1>0. /\ Directory!TypeOK /\ TablesAreSound /\ d_open[o] \in OpenRecords /\ d_open \in [OpenCalls -> OpenRecords]
      /\ OpenIsSound(o) /\ Late(o) /\ ~Early(o) /\ ~Within(o)
  BY DEF DirInv, DirTypes, Directory!RememberRead, Directory!RememberWrite, Late, Early, Within
<1>1. /\ UNCHANGED <<d_sessions, d_hosts, d_hostState, d_runtime, d_home, d_trees, d_saved, d_ender>>
      /\ \A p \in OpenCalls : LivesOn(p)
  BY DEF Directory!RememberRead, Directory!RememberWrite, Directory!disk, Directory!project, LivesOn
<1>2. r.id \in Directory!Ids /\ Past(r.id)
  BY <1>0 DEF Directory!RememberRead, Directory!RememberWrite, OpenIsSound, OpenRecords
<1>3. /\ d_remembered' \in [Directory!Requests -> Directory!Ids \cup {None}]
      /\ d_handles' \in [Directory!Ids -> OpenCalls \cup {None}]
      /\ d_locks' \in [Directory!Requests \cup Directory!Roots -> OpenCalls \cup {None}]
      /\ \E x \in OpenRecords :
          /\ d_open' = [d_open EXCEPT ![o] = x] /\ x.at \in {"write", "done"}
          /\ x.want = r.want /\ x.id = r.id /\ x.host = r.host
          /\ x.created = r.created
  <2>1. CASE /\ Directory!RememberRead(o) /\ Directory!Return(o, d_open[o].id)
             /\ d_handles' = [d_handles EXCEPT ![d_open[o].id] = o]
    <3>1. d_remembered' = d_remembered
      BY <2>1 DEF Directory!RememberRead, Directory!disk
    <3> QED BY <1>0, <1>2, <2>1, <3>1, ReturnIs DEF Directory!TypeOK
  <2>2. CASE /\ Directory!RememberRead(o)
             /\ d_open' = [d_open EXCEPT ![o].at = "write", ![o].copy = d_remembered]
             /\ UNCHANGED <<d_locks, d_handles>>
    <3>1. d_remembered' = d_remembered
      BY <2>2 DEF Directory!RememberRead, Directory!disk
    <3> DEFINE z == [r EXCEPT !.at = "write", !.copy = d_remembered]
    <3>2. d_open' = [d_open EXCEPT ![o] = z]
      BY <1>0, <2>2
    <3>3. z \in OpenRecords /\ z.at = "write" /\ z.want = r.want /\ z.id = r.id /\ z.host = r.host
          /\ z.created = r.created
      <4> HIDE DEF r
      <4>1. z \in OpenRecords
        BY <1>0 DEF OpenRecords, Directory!TypeOK, r
      <4>2. z.at = "write" /\ z.want = r.want /\ z.id = r.id /\ z.host = r.host /\ z.created = r.created
        BY <1>0 DEF OpenRecords, r
      <4> QED BY <4>1, <4>2
    <3> HIDE DEF z, r
    <3> QED BY <1>0, <2>2, <3>1, <3>2, <3>3 DEF Directory!TypeOK
  <2>3. CASE Directory!RememberWrite(o)
    <3>1. /\ d_remembered' = [d_open[o].copy EXCEPT ![RequestOf[o]] = d_open[o].id]
          /\ Directory!Return(o, d_open[o].id)
          /\ d_handles' = [d_handles EXCEPT ![d_open[o].id] = o]
      BY <2>3 DEF Directory!RememberWrite
    <3>2. d_open[o].copy \in [Directory!Requests -> Directory!Ids \cup {None}]
      BY <1>0 DEF OpenRecords
    <3>3. d_remembered' \in [Directory!Requests -> Directory!Ids \cup {None}]
      BY <1>2, <3>1, <3>2
    <3> QED BY <1>0, <1>2, <3>1, <3>3, ReturnIs DEF Directory!TypeOK
  <2> QED BY <2>1, <2>2, <2>3 DEF Directory!RememberRead
<1>4. PICK x \in OpenRecords :
          /\ d_open' = [d_open EXCEPT ![o] = x] /\ x.at \in {"write", "done"}
          /\ x.want = d_open[o].want /\ x.id = d_open[o].id /\ x.host = d_open[o].host
          /\ x.created = d_open[o].created
  BY <1>3
<1>5. TablesTyped'
  BY <1>0, <1>1, <1>3 DEF Directory!TypeOK, TablesTyped
<1>6. TablesKept /\ \A j \in Directory!Ids : d_sessions'[j] \in {None, d_sessions[j]}
  BY <1>1, TablesStay
<1>7. d_open'[o] = x /\ \A p \in OpenCalls \ {o} : d_open'[p] = d_open[p]
  BY <1>0, <1>4
<1>8. \A i \in Directory!Ids : Past(i) => Past(i)'
  BY <1>4, <1>7, DirNames DEF Past, Early, Directory!Ids
<1>9. /\ Past(x.id)' /\ (x.want \in Directory!Ids => Past(x.want)') /\ (x.host # None => Late(x.host)')
      /\ Late(o)' /\ ~Early(o)' /\ ~Within(o)' /\ d_open'[o].at \notin {"lock", "assemble", "register", "loser"}
  BY <1>0, <1>2, <1>4, <1>7, <1>8 DEF OpenIsSound, OpenRecords, Late, Early, Within
<1>10. OpenIsSound(o)'
  BY <1>0, <1>1, <1>2, <1>4, <1>7, <1>9, DirNames DEF OpenIsSound
<1>11. Becomes(o, x)
  BY <1>0, <1>4 DEF Becomes
<1> HIDE DEF r
<1> QED BY <1>1, <1>4, <1>5, <1>6, <1>10, <1>11, QuietOpenStep

LEMMA DirStep == DirInv /\ Directory!Next => DirInv'
<1> SUFFICES ASSUME DirInv, Directory!Next PROVE DirInv'
  OBVIOUS
<1>1. ASSUME NEW o \in OpenCalls, Directory!OpenStep(o) PROVE DirInv'
  BY <1>1, AttachKeeps, ReuseKeeps, MakeRoomKeeps, EvictKeeps, ReserveKeeps, LockRootKeeps,
     AssembleKeeps, FailureKeeps, RegisterKeeps, RememberKeeps DEF Directory!OpenStep
<1>2. ASSUME NEW o \in OpenCalls, Directory!Work(o) \/ Directory!Rest(o) \/ Directory!WorkerEnds(o) \/ Directory!HostEnds(o) PROVE DirInv'
  BY <1>2, WorkKeeps
<1>3. ASSUME NEW e \in Enders,
             \/ Directory!CloseBegin(e) \/ Directory!CloseEnd(e)
             \/ Directory!ArchiveBegin(e) \/ Directory!ArchiveWait(e) \/ Directory!ArchiveCheck(e) \/ Directory!ArchiveHost(e)
             \/ Directory!ArchivePop(e) \/ Directory!ArchiveRemove(e)
      PROVE DirInv'
  BY <1>3, CloseKeeps, ArchiveAsks, ArchiveActs
<1>4. CASE Directory!Shutdown
  BY <1>4, ShutdownKeeps
<1> QED BY <1>1, <1>2, <1>3, <1>4 DEF Directory!Next

LEMMA DirKept == DirInv => Directory!TypeOK /\ Directory!DirectoryIsSound
<1> SUFFICES ASSUME DirInv PROVE Directory!TypeOK /\ Directory!DirectoryIsSound
  OBVIOUS
<1>1. Directory!TypeOK /\ Directory!CapacityHolds
  BY DEF DirInv, DirTypes
<1>2. ASSUME NEW o \in OpenCalls, d_open[o].at = "done"
      PROVE  /\ d_runtime[o] \in {"idle", "busy"} => d_sessions[d_open[o].id] = o
             /\ d_hostState[o] = "running" => d_hosts[d_home[d_open[o].id]] = o
             /\ o \in d_trees => o \in d_saved \/ d_sessions[o] # None \/ d_runtime[o] = "closing"
  <2>1. OpenIsSound(o) /\ Late(o)
    BY <1>2 DEF DirInv, Late
  <2> QED BY <2>1, DirNames DEF OpenIsSound
<1>3. Directory!NoOrphans
  BY <1>2 DEF Directory!NoOrphans
<1> QED BY <1>1, <1>3 DEF Directory!DirectoryIsSound
LEMMA DirStutter == DirInv /\ UNCHANGED Directory!vars => DirInv'
<1> SUFFICES ASSUME DirInv, UNCHANGED Directory!vars PROVE DirInv'
  OBVIOUS
<1>1. UNCHANGED <<d_sessions, d_hosts, d_hostState, d_runtime, d_home, d_trees, d_saved, d_remembered, d_handles,
                  d_locks, d_open, d_ender, d_down>>
  BY DEF Directory!vars, Directory!project, Directory!disk, Directory!calls
<1>2. Directory!TypeOK' /\ DirTypes'
  BY <1>1 DEF DirInv, DirTypes, Directory!TypeOK
<1>3. /\ \A o \in OpenCalls : OpenIsSound(o)'
      /\ TablesAreSound' /\ OneAssembly' /\ Directory!CapacityHolds'
  BY <1>1, OpensAreKept DEF TablesKept, LivesOn, DirInv, TablesAreSound
<1>4. \A e \in Enders : EnderIsSound(e)'
  BY <1>1, EndersAreKept
<1> QED BY <1>2, <1>3, <1>4 DEF DirInv

\* A step of the suite is a step of this part, or leaves it alone.
LEMMA DirAlone == [SuiteNext]_suite_vars => Directory!Next \/ UNCHANGED Directory!vars
<1>1. SuiteNext => Directory!Next \/ UNCHANGED d_vars
  BY DEF SuiteNext, InCommands, InMailbox, InAuthority, InShell, InTools, InTranscript,
     InContext, InOffers, InImages, d_vars
<1>2. UNCHANGED suite_vars => UNCHANGED d_vars
  BY DEF suite_vars
<1>3. UNCHANGED d_vars => UNCHANGED Directory!vars
  BY DEF d_vars, Directory!vars, Directory!project, Directory!disk, Directory!calls
<1> QED
  BY <1>1, <1>2, <1>3

LEMMA DirHolds == SuiteSpec => []DirInv
<1>1. SuiteInit => DirInv
  BY DirInit DEF SuiteInit
<1>2. DirInv /\ [SuiteNext]_suite_vars => DirInv'
  BY DirAlone, DirStep, DirStutter
<1> QED
  BY <1>1, <1>2, PTL DEF SuiteSpec

\* DirectoryIsSound for any opens, closes, archives and any capacity: what SessionDirectory
\* registers never exceeds its capacity, although the slot is looked for before a runtime
\* is assembled; and once an open is over, its runtime, its host and its worktree are known
\* to the directory or on their way to be closed, whatever failed or came too late.
THEOREM NoOpenLeavesOrphans == SuiteSpec => []DirectoryIsSound
<1>1. DirInv => DirectoryIsSound
  BY DirKept DEF DirectoryIsSound
<1> QED
  BY <1>1, DirHolds, PTL

=============================================================================

----------------------------- MODULE MemoryEpisodes -----------------------------
(***************************************************************************)
(* How a turn becomes an episode, and is read for memories, once           *)
(* (application/memory/manager.py, turn_snapshot.py, episode.py,           *)
(* infrastructure/persistence/memory/episode.py; called from               *)
(* application/agent/runner.py and turns.py).                              *)
(*                                                                         *)
(* The end of a turn captures a snapshot.  While an agent that the turn    *)
(* started in the background still runs, the snapshot waits in the         *)
(* session, bound to its turn; the notification of that agent, the next    *)
(* turn, or a restart settles it.  A background agent runs on a thread of  *)
(* its own and writes the checkpoint of the whole session when it changes. *)
(***************************************************************************)
EXTENDS Naturals

CONSTANTS
  MaxTurns,    \* bound: turns of the session
  MaxCrashes,  \* bound: restarts of the process
  MaxFails     \* bound: saves that the episode store refuses

MemoryEpisodesAssumption == {MaxTurns, MaxCrashes, MaxFails} \subseteq Nat

VARIABLES
  turn,      \* the current turn, or 0
  status,    \* the status of its Run
  agents,    \* the background agent of each turn
  pending,   \* pending_episode_finalizes, by turn
  receipts,  \* semantic_extract_receipts, by turn
  finalized, \* _memory_finalized_turns, which is not persisted
  notices,   \* turns whose agent has ended and is not yet notified
  phase,     \* what the thread of the session does
  job,       \* the snapshot it settles
  todo,      \* the pending turns that a recovery has yet to go through
  store,     \* the episodes on disk: the agent's status that each one tells
  saved,     \* the checkpoint
  asked,     \* history: extraction calls for each turn
  owed,      \* history: kept turns whose finalization has ended
  crashes, fails

memory == <<turn, status, agents, pending, receipts, owed>>
vars == <<turn, status, agents, pending, receipts, finalized, notices, phase, job, todo,
          store, saved, asked, owed, crashes, fails>>

Turns     == 1..MaxTurns
Statuses  == {"idle", "running", "completed"}
AgentStates == {"none", "running", "ended"}
Phases    == {"idle", "open", "event", "capture", "settle", "extract", "save"}
NoJob     == [turn |-> 0, why |-> "none", agent |-> "none", kept |-> FALSE, extract |-> FALSE]
NoSnapshot == [agent |-> "none", extract |-> FALSE, waits |-> FALSE]

\* What the session keeps between two processes.
Image ==
  [turn |-> turn, status |-> status, agents |-> agents, pending |-> pending,
   receipts |-> receipts, owed |-> owed]

Waiting == {t \in Turns : pending[t].waits}

Init ==
  /\ turn = 0 /\ status = "idle"
  /\ agents = [t \in Turns |-> "none"]
  /\ pending = [t \in Turns |-> NoSnapshot]
  /\ receipts = [t \in Turns |-> "none"]
  /\ finalized = {} /\ notices = {} /\ owed = {} /\ todo = {}
  /\ phase = "idle" /\ job = NoJob
  /\ store = [t \in Turns |-> "absent"]
  /\ saved = Image
  /\ asked = [t \in Turns |-> 0]
  /\ crashes = 0 /\ fails = 0

-----------------------------------------------------------------------------
(* The turn and its background agent. *)

\* Agent.run: recover_pending, then a checkpoint, then the turn.
BeginTurn ==
  /\ phase = "idle" /\ turn < MaxTurns
  /\ turn' = turn + 1 /\ status' = "running"
  /\ phase' = "save" /\ todo' = Waiting
  /\ UNCHANGED <<agents, pending, receipts, finalized, notices, job, store, saved, asked, owed,
                 crashes, fails>>

\* The control plane calls on_change, which is the checkpoint.
StartAgent ==
  /\ phase = "open" /\ agents[turn] = "none"
  /\ agents' = [agents EXCEPT ![turn] = "running"]
  /\ UNCHANGED <<turn, status, pending, receipts, finalized, notices, phase, job, todo, store,
                 asked, owed, crashes, fails>>
  /\ saved' = Image'

AgentEnds(t) ==
  /\ agents[t] = "running"
  /\ agents' = [agents EXCEPT ![t] = "ended"]
  /\ notices' = notices \cup {t}
  /\ UNCHANGED <<turn, status, pending, receipts, finalized, phase, job, todo, store, asked,
                 owed, crashes, fails>>
  /\ saved' = Image'

\* Captured for the end of the turn.  An answered turn is completed, and that is
\* written to the checkpoint, before it is finalized; a cancelled or failed one
\* is finalized without an extraction, and written after.
EndTurn(answered) ==
  /\ phase = "open"
  /\ status' = "completed"
  /\ job' = [NoJob EXCEPT !.turn = turn, !.why = "finalize", !.extract = answered]
  /\ phase' = "capture"
  /\ UNCHANGED <<turn, agents, pending, receipts, finalized, notices, todo, store, asked, owed,
                 crashes, fails>>
  /\ saved' = IF answered THEN Image' ELSE saved

\* run_runtime_event: the notification of an agent is a Run of the current turn.
BeginEvent(t) ==
  /\ phase = "idle" /\ t \in notices
  /\ notices' = notices \ {t}
  /\ status' = "running"
  /\ job' = [NoJob EXCEPT !.turn = t]
  /\ phase' = "event"
  /\ UNCHANGED <<turn, agents, pending, receipts, finalized, todo, store, asked, owed, crashes,
                 fails>>
  /\ saved' = Image'

\* Its end: the snapshot of an older turn is settled; the current turn is
\* finalized again when the Run has a result and its episode is not yet stored.
EndEvent(result) ==
  /\ phase = "event"
  /\ status' = "completed"
  /\ IF job.turn # turn
       THEN IF pending[job.turn].waits
              THEN /\ job' = [job EXCEPT !.why = "settle", !.extract = pending[job.turn].extract]
                   /\ phase' = "capture"
              ELSE job' = NoJob /\ phase' = "idle"
       ELSE IF result /\ turn \notin finalized
              THEN /\ job' = [job EXCEPT !.why = "finalize", !.extract = TRUE]
                   /\ phase' = "capture"
              ELSE job' = NoJob /\ phase' = "idle"
  /\ UNCHANGED <<turn, agents, pending, receipts, finalized, notices, todo, store, asked, owed,
                 crashes, fails>>
  /\ saved' = Image'

-----------------------------------------------------------------------------
(* One snapshot. *)

\* snapshot_from_session, or sync_snapshot_agents for one that waited.  A turn
\* without tools and agents may be too small to keep; but the outcome of the
\* snapshot that waits is part of the next one, so what was kept stays kept.
Capture ==
  /\ phase = "capture"
  /\ \E kept \in BOOLEAN :
       /\ agents[job.turn] # "none" \/ job.why # "finalize" \/ pending[job.turn].waits => kept
       /\ job' = [job EXCEPT !.agent = agents[job.turn], !.kept = kept]
  /\ phase' = "settle"
  /\ UNCHANGED <<memory, finalized, notices, todo, store, saved, asked, crashes, fails>>

Upserted(extract) ==
  pending' = [pending EXCEPT ![job.turn] =
                [agent |-> job.agent, extract |-> extract, waits |-> TRUE]]

Dropped == pending' = [pending EXCEPT ![job.turn] = NoSnapshot]

\* _defer_extract, which only a finalization calls.
Deferred ==
  receipts' = IF job.why = "finalize" /\ job.extract
                THEN [receipts EXCEPT ![job.turn] = "deferred"] ELSE receipts

\* live_agent_tasks looks again: an agent that still runs makes the snapshot wait.
Wait ==
  /\ phase = "settle" /\ job.kept /\ agents[job.turn] = "running"
  /\ Upserted(job.extract) /\ Deferred
  /\ owed' = owed \cup {job.turn}
  /\ phase' = "save"
  /\ UNCHANGED <<turn, status, agents, finalized, notices, job, todo, store, saved, asked,
                 crashes, fails>>

\* EpisodeStore.save: an episode that is there is not written again.
Persist ==
  /\ phase = "settle" /\ job.kept /\ agents[job.turn] # "running"
  /\ store' = [store EXCEPT ![job.turn] = IF @ = "absent" THEN job.agent ELSE @]
  /\ Dropped
  /\ owed' = owed \cup {job.turn}
  /\ finalized' = IF job.why = "finalize" THEN finalized \cup {job.turn} ELSE finalized
  /\ phase' = IF job.extract THEN "extract" ELSE "save"
  /\ UNCHANGED <<turn, status, agents, receipts, notices, job, todo, saved, asked, crashes, fails>>

\* Mutant of Refused: what is left of a refused save.
Forgotten == Dropped

\* The store refuses: the snapshot waits for the next occasion.
Refused == Upserted(job.extract)

PersistFails ==
  /\ phase = "settle" /\ job.kept /\ agents[job.turn] # "running" /\ fails < MaxFails
  /\ fails' = fails + 1
  /\ Refused /\ Deferred
  /\ owed' = owed \cup {job.turn}
  /\ phase' = "save"
  /\ UNCHANGED <<turn, status, agents, finalized, notices, job, todo, store, saved, asked, crashes>>

Skip ==
  /\ phase = "settle" /\ ~job.kept
  /\ Dropped
  /\ phase' = IF job.extract THEN "extract" ELSE "save"
  /\ UNCHANGED <<turn, status, agents, receipts, finalized, notices, job, todo, store, saved,
                 asked, owed, crashes, fails>>

\* Mutant of Recorded: the receipt is not looked at.
NeverRecorded(t) == FALSE

\* Whether the turn has a receipt of an extraction that was not put off.
Recorded(t) == receipts[t] = "done"

Extract ==
  /\ phase = "extract"
  /\ IF Recorded(job.turn)
       THEN UNCHANGED <<asked, receipts>>
       ELSE /\ asked' = [asked EXCEPT ![job.turn] = @ + 1]
            /\ receipts' = [receipts EXCEPT ![job.turn] = "done"]
  /\ phase' = "save"
  /\ UNCHANGED <<turn, status, agents, pending, finalized, notices, job, todo, store, saved, owed,
                 crashes, fails>>

\* recover_pending goes on with the next snapshot ...
RecoverNext(t) ==
  /\ phase = "save" /\ t \in todo
  /\ todo' = todo \ {t}
  /\ job' = [NoJob EXCEPT !.turn = t, !.why = "recover", !.extract = pending[t].extract]
  /\ phase' = "capture"
  /\ UNCHANGED <<memory, finalized, notices, store, saved, asked, crashes, fails>>

\* ... and the checkpoint ends the work.
Checkpoint ==
  /\ phase = "save" /\ todo = {}
  /\ saved' = Image
  /\ job' = NoJob
  /\ phase' = IF status = "running" THEN "open" ELSE "idle"
  /\ UNCHANGED <<memory, finalized, notices, todo, store, asked, crashes, fails>>

\* The process dies.  The next one loads the checkpoint, in which no agent runs
\* any more, recovers what waits, and continues a turn that was running.
Crash ==
  /\ crashes < MaxCrashes
  /\ crashes' = crashes + 1
  /\ turn' = saved.turn /\ status' = saved.status
  /\ agents' = [t \in Turns |-> IF saved.agents[t] = "running" THEN "ended" ELSE saved.agents[t]]
  /\ pending' = saved.pending /\ receipts' = saved.receipts /\ owed' = saved.owed
  /\ finalized' = {} /\ notices' = {}
  /\ todo' = {t \in Turns : saved.pending[t].waits}
  /\ job' = NoJob /\ phase' = "save"
  /\ UNCHANGED <<store, saved, asked, fails>>

Next ==
  \/ BeginTurn \/ StartAgent
  \/ \E answered \in BOOLEAN : EndTurn(answered)
  \/ \E t \in Turns : AgentEnds(t) \/ BeginEvent(t) \/ RecoverNext(t)
  \/ \E result \in BOOLEAN : EndEvent(result)
  \/ Capture \/ Wait \/ Persist \/ PersistFails \/ Skip \/ Extract \/ Checkpoint
  \/ Crash

Spec == Init /\ [][Next]_vars

-----------------------------------------------------------------------------
(* Properties. *)

Snapshots == [agent: AgentStates, extract: BOOLEAN, waits: BOOLEAN]

\* Every variable has its type.
TypeOK ==
  /\ turn \in 0..MaxTurns /\ status \in Statuses
  /\ agents \in [Turns -> AgentStates]
  /\ pending \in [Turns -> Snapshots]
  /\ receipts \in [Turns -> {"none", "deferred", "done"}]
  /\ finalized \subseteq Turns /\ notices \subseteq Turns /\ owed \subseteq Turns
  /\ todo \subseteq Turns /\ phase \in Phases
  /\ job \in [turn: 0..MaxTurns, why: {"none", "finalize", "settle", "recover"},
              agent: AgentStates, kept: BOOLEAN, extract: BOOLEAN]
  /\ store \in [Turns -> AgentStates \cup {"absent"}]
  /\ asked \in [Turns -> 0..(1 + MaxCrashes)]
  /\ crashes \in 0..MaxCrashes /\ fails \in 0..MaxFails

\* A turn that was kept is on disk or waits, through refused saves, later turns
\* and restarts; and a deferred extraction waits with it.  (After a restart the
\* turn may go on, be cancelled, and be stored without the extraction.)
NothingOwedIsLost ==
  \A t \in owed :
    /\ store[t] # "absent" \/ pending[t].waits
    /\ receipts[t] = "deferred" /\ crashes = 0 =>
         \/ pending[t].waits /\ pending[t].extract
         \/ phase \in {"capture", "settle", "extract"} /\ job.turn = t /\ job.extract

\* A turn is read for memories once: neither a restart nor a notification asks
\* the model again while the checkpoint says that the turn was read.  What says
\* so is taken back only after a restart: a turn that goes on, and whose snapshot
\* is then put off, is marked as deferred and read once more.
ExtractedOnce ==
  [][\A t \in Turns :
       /\ asked'[t] # asked[t] => asked'[t] = asked[t] + 1 /\ saved.receipts[t] # "done"
       /\ receipts[t] = "done" /\ receipts'[t] # "done" => crashes' > 0]_vars

=============================================================================

----------------------------- MODULE EpisodesProofs -----------------------------
(***************************************************************************)
(* Proofs about the episodes that MCWorkspace checks, for every value of   *)
(* the constants: no turn that was kept is lost, and none is read for      *)
(* memories twice, whatever dies and whatever save is refused.             *)
(***************************************************************************)
EXTENDS MCWorkspace, FiniteSetTheorems, TLAPS


-----------------------------------------------------------------------------
(* Episodes.  The snapshot of a turn is in one of three places: with the job *)
(* at hand, waiting in the session, or on disk; and what is in the session and *)
(* in its checkpoint, with how often the turn was read, decides whether it is *)
(* read again.                                                             *)

LEMMA MemoryEpisodesAssumed == Episodes!MemoryEpisodesAssumption
BY MCWorkspaceAssumption

Jobs   == [turn: 0..MaxEpisodeTurns, why: {"none", "finalize", "settle", "recover"},
           agent: Episodes!AgentStates, kept: BOOLEAN, extract: BOOLEAN]
Images == [turn: 0..MaxEpisodeTurns, status: Episodes!Statuses, agents: [Episodes!Turns -> Episodes!AgentStates],
           pending: [Episodes!Turns -> Episodes!Snapshots],
           receipts: [Episodes!Turns -> {"none", "deferred", "done"}], owed: SUBSET Episodes!Turns]

CoreTypes ==
  /\ e_turn \in 0..MaxEpisodeTurns /\ e_status \in Episodes!Statuses
  /\ e_agents \in [Episodes!Turns -> Episodes!AgentStates]
  /\ e_pending \in [Episodes!Turns -> Episodes!Snapshots]
  /\ e_receipts \in [Episodes!Turns -> {"none", "deferred", "done"}]
  /\ e_finalized \subseteq Episodes!Turns /\ e_notices \subseteq Episodes!Turns /\ e_owed \subseteq Episodes!Turns
  /\ e_todo \subseteq Episodes!Turns /\ e_phase \in Episodes!Phases
  /\ e_job \in Jobs
  /\ e_store \in [Episodes!Turns -> Episodes!AgentStates \cup {"absent"}]
  /\ e_asked \in [Episodes!Turns -> Nat]
  /\ e_crashes \in 0..MaxCrashes /\ e_fails \in 0..MaxFails

Types == CoreTypes /\ e_saved \in Images

\* What each phase is about.
PhaseIsKnown ==
  /\ e_phase \in {"open", "event", "idle"} => e_todo = {}
  /\ e_phase = "open" => e_status = "running" /\ e_turn \in Episodes!Turns
  /\ e_phase = "event" => e_status = "running" /\ e_job.turn \in Episodes!Turns
  /\ e_phase = "idle" => e_status # "running"
  /\ e_phase \in {"capture", "settle", "extract"} => e_job.turn \in Episodes!Turns /\ e_job.why # "none"
  /\ e_job.why \in {"finalize", "settle"} => e_todo = {} /\ e_status = "completed"
  /\ e_job.why = "finalize" => e_job.turn = e_turn
  /\ e_job.why = "settle" => e_job.turn # e_turn
  /\ e_status = "running" /\ e_crashes = 0 => e_turn \notin e_todo /\ ~(e_job.why = "recover" /\ e_job.turn = e_turn)
  /\ e_phase = "extract" => e_job.extract
  /\ e_phase \in {"idle", "open", "event"} => e_job.why = "none"
  /\ e_status = "running" => e_turn \in Episodes!Turns

\* A snapshot that is settled or recovered is one that waited, and no turn that
\* was kept is dropped.
SnapshotsWait ==
  /\ e_todo \subseteq Episodes!Waiting
  /\ e_phase \in {"capture", "settle"} => e_job.turn \notin e_todo
  /\ e_phase \in {"capture", "settle"} /\ e_job.why \in {"settle", "recover"} =>
       e_pending[e_job.turn].waits /\ e_job.extract = e_pending[e_job.turn].extract
  /\ e_phase = "settle" /\ ~e_job.kept =>
       e_job.why = "finalize" /\ ~e_pending[e_job.turn].waits /\ e_agents[e_job.turn] = "none"

\* A checkpoint and the memory of the process that wrote it.
CheckpointIsRecent ==
  /\ \A t \in e_saved.owed : e_store[t] # "absent" \/ e_saved.pending[t].waits
  /\ \A t \in Episodes!Turns : e_saved.receipts[t] = "done" /\ e_receipts[t] # "done" => e_phase = "save" /\ e_todo = {}
  /\ e_saved.status = "running" =>
       /\ e_saved.turn = e_turn /\ e_turn \in Episodes!Turns
       /\ \/ e_status = "running"
          \/ e_job.why = "finalize" /\ ~e_job.extract /\ e_phase \in {"capture", "settle", "save"}

\* A turn that has not begun has left nothing.
FutureIsEmpty ==
  /\ e_saved.turn <= e_turn /\ e_job.turn <= e_turn
  /\ e_phase \in {"idle", "open", "event"} \/ e_job.why \in {"finalize", "settle"} => e_saved.turn = e_turn
  /\ \A t \in e_todo : t <= e_saved.turn
  /\ e_phase \in {"capture", "settle", "extract"} => e_job.turn <= e_saved.turn
  /\ \A t \in Episodes!Turns : e_pending[t].waits => t <= e_turn
  /\ \A t \in Episodes!Turns : e_saved.pending[t].waits => t <= e_saved.turn
  /\ \A t \in Episodes!Turns : t > e_turn =>
       e_receipts[t] = "none" /\ e_agents[t] = "none" /\ t \notin e_notices
  /\ \A t \in Episodes!Turns : t > e_saved.turn =>
       e_saved.receipts[t] = "none" /\ e_saved.agents[t] = "none" /\ e_asked[t] = 0

\* The turn of the process is open, or about to be opened again.
GoesOn(t) == t = e_turn /\ e_status = "running" /\ e_phase # "event"

\* How often a turn was read.
ReadOften ==
  \A t \in Episodes!Turns :
    /\ e_asked[t] <= 1 + e_crashes
    /\ e_receipts[t] = "done" => e_asked[t] > 0
    /\ e_saved.receipts[t] = "done" => e_asked[t] > 0
    /\ e_receipts[t] # "done" => e_asked[t] <= e_crashes
    /\ GoesOn(t) /\ e_receipts[t] = "done" => e_asked[t] <= e_crashes
    /\ GoesOn(t) /\ e_receipts[t] # "done" => e_asked[t] < e_crashes \/ e_asked[t] = 0
    /\ GoesOn(t) /\ e_crashes = 0 => e_receipts[t] = "none"
    /\ e_job.why = "finalize" /\ e_job.turn = t /\ e_phase \in {"capture", "settle"} /\ e_receipts[t] = "done" =>
         e_asked[t] <= e_crashes
    /\ e_saved.turn = t /\ e_saved.status = "running" /\ e_saved.receipts[t] # "done" => e_asked[t] <= e_crashes

\* A turn is done with when none of its agents will be notified.
IsQuiet(t) ==
  t \notin e_notices /\ e_agents[t] # "running" /\ ~(e_phase = "event" /\ e_job.turn = t)

\* A turn that was read is not finalized again in the same process.
ReadIsFinal ==
  \A t \in Episodes!Turns :
    /\ t \in e_notices => e_agents[t] = "ended"
    /\ e_phase = "event" /\ e_job.turn = t => e_agents[t] = "ended"
    /\ t = e_turn /\ e_receipts[t] = "done" /\ t \notin e_finalized /\ e_asked[t] > e_crashes => IsQuiet(t)
    /\ t = e_turn /\ t \in e_todo => IsQuiet(t)
    /\ t = e_turn /\ e_job.turn = t /\ e_job.why = "recover" /\ e_phase \in {"capture", "settle", "extract"} =>
         IsQuiet(t)
    /\ e_phase = "extract" /\ e_job.turn = t /\ e_job.why = "finalize" => t \in e_finalized \/ e_agents[t] = "none"

\* A snapshot is put off together with the extraction that it was to be read for.
DeferralIsKept ==
  /\ \A t \in e_owed : e_store[t] # "absent" \/ e_pending[t].waits
  /\ \A t \in Episodes!Turns : e_receipts[t] = "deferred" /\ e_crashes = 0 =>
       \/ e_pending[t].waits /\ e_pending[t].extract
       \/ e_phase \in {"capture", "settle", "extract"} /\ e_job.turn = t /\ e_job.extract
  /\ e_phase \in {"capture", "settle"} /\ e_job.why = "finalize" /\ ~e_job.extract /\ e_crashes = 0 =>
       e_receipts[e_job.turn] # "deferred"

EpInv ==
  /\ Types /\ PhaseIsKnown /\ SnapshotsWait /\ CheckpointIsRecent /\ FutureIsEmpty /\ ReadOften
  /\ ReadIsFinal /\ DeferralIsKept
LEMMA ImageIsTyped == CoreTypes => Episodes!Image \in Images
BY DEF CoreTypes, Episodes!Image, Images

LEMMA ImageIsTypedNext == CoreTypes' => Episodes!Image' \in Images
BY DEF CoreTypes, Episodes!Image, Images

LEMMA JobLiteral ==
  ASSUME NEW u \in Episodes!Turns, NEW w \in {"none", "finalize", "settle", "recover"}, NEW x \in BOOLEAN
  PROVE  LET j == [turn |-> u, why |-> w, agent |-> "none", kept |-> FALSE, extract |-> x] IN
           j \in Jobs /\ j.turn = u /\ j.why = w /\ j.extract = x /\ j.kept = FALSE
<1>1. u \in 0..MaxEpisodeTurns
  BY MemoryEpisodesAssumed DEF Episodes!MemoryEpisodesAssumption, Episodes!Turns
<1>2. [turn |-> u, why |-> w, agent |-> "none", kept |-> FALSE, extract |-> x] \in Jobs
  BY <1>1 DEF Jobs, Episodes!AgentStates
<1> QED BY <1>2

LEMMA JobMade ==
  ASSUME NEW u \in Episodes!Turns, NEW w \in {"none", "finalize", "settle", "recover"}, NEW x \in BOOLEAN, NEW j,
         j = [Episodes!NoJob EXCEPT !.turn = u, !.why = w, !.extract = x]
  PROVE  j \in Jobs /\ j.turn = u /\ j.why = w /\ j.extract = x /\ j.kept = FALSE
<1>1. j = [turn |-> u, why |-> w, agent |-> "none", kept |-> FALSE, extract |-> x]
  BY DEF Episodes!NoJob
<1> QED BY ONLY <1>1, JobLiteral, u \in Episodes!Turns, w \in {"none", "finalize", "settle",
   "recover"}, x \in BOOLEAN

LEMMA JobOfEvent ==
  ASSUME NEW u \in Episodes!Turns, NEW j, j = [Episodes!NoJob EXCEPT !.turn = u]
  PROVE  j \in Jobs /\ j.turn = u /\ j.why = "none" /\ j.extract = FALSE /\ j.kept = FALSE
<1>1. j = [turn |-> u, why |-> "none", agent |-> "none", kept |-> FALSE, extract |-> FALSE]
  BY DEF Episodes!NoJob
<1> QED BY ONLY <1>1, JobLiteral, u \in Episodes!Turns

LEMMA JobChanged ==
  ASSUME NEW i \in Jobs, NEW w \in {"none", "finalize", "settle", "recover"}, NEW x \in BOOLEAN, NEW j,
         j = [i EXCEPT !.why = w, !.extract = x]
  PROVE  j \in Jobs /\ j.turn = i.turn /\ j.why = w /\ j.extract = x /\ j.kept = i.kept
BY DEF Jobs

LEMMA JobCaptured ==
  ASSUME NEW i \in Jobs, NEW a \in Episodes!AgentStates, NEW k \in BOOLEAN, NEW j,
         j = [i EXCEPT !.agent = a, !.kept = k]
  PROVE  j \in Jobs /\ j.turn = i.turn /\ j.why = i.why /\ j.extract = i.extract /\ j.kept = k /\ j.agent = a
BY DEF Jobs

LEMMA EpNumbers ==
  ASSUME EpInv
  PROVE  /\ MaxEpisodeTurns \in Nat /\ MaxCrashes \in Nat /\ MaxFails \in Nat
         /\ e_turn \in Int /\ e_saved.turn \in Int /\ e_job.turn \in Int /\ e_crashes \in Nat /\ e_fails \in Nat
         /\ e_turn >= 0 /\ e_turn <= MaxEpisodeTurns /\ e_saved.turn >= 0 /\ e_saved.turn <= MaxEpisodeTurns
         /\ e_saved.owed \subseteq Episodes!Turns /\ e_job.extract \in BOOLEAN /\ e_job.kept \in BOOLEAN
<1> USE MemoryEpisodesAssumed DEF EpInv, Types, CoreTypes
<1>1. MaxEpisodeTurns \in Nat /\ MaxCrashes \in Nat /\ MaxFails \in Nat
  BY DEF Episodes!MemoryEpisodesAssumption
<1>2. e_saved.turn \in 0..MaxEpisodeTurns /\ e_saved.owed \subseteq Episodes!Turns
  BY DEF Images
<1>3. e_job.turn \in 0..MaxEpisodeTurns /\ e_job.extract \in BOOLEAN /\ e_job.kept \in BOOLEAN
  BY DEF Jobs
<1> QED BY <1>1, <1>2, <1>3

LEMMA EpInit == Episodes!Init => EpInv
<1> SUFFICES ASSUME Episodes!Init PROVE EpInv
  OBVIOUS
<1>1. CoreTypes
  <2>1. Episodes!NoJob \in Jobs
    BY MemoryEpisodesAssumed DEF Episodes!MemoryEpisodesAssumption, Episodes!NoJob, Jobs,
       Episodes!AgentStates
  <2>2. Episodes!NoSnapshot \in Episodes!Snapshots
    BY DEF Episodes!NoSnapshot, Episodes!Snapshots, Episodes!AgentStates
  <2> QED
    BY <2>1, <2>2, MemoryEpisodesAssumed
       DEF Episodes!MemoryEpisodesAssumption, Episodes!Init, CoreTypes, Episodes!Turns, Episodes!Statuses, Episodes!Phases, Episodes!AgentStates
<1>2. Types
  BY <1>1, ImageIsTyped DEF Episodes!Init, Types
<1> QED
  BY <1>1, <1>2 DEF Episodes!Init, EpInv, PhaseIsKnown, SnapshotsWait, CheckpointIsRecent,
     FutureIsEmpty,
     ReadOften, GoesOn, ReadIsFinal, IsQuiet, DeferralIsKept, Episodes!Waiting, Episodes!Turns,
     Episodes!NoJob, Episodes!NoSnapshot, Episodes!Image

LEMMA EpBeginTurn ==
  ASSUME EpInv, Episodes!BeginTurn
  PROVE  EpInv'
<1> USE DEF Episodes!BeginTurn
<1> USE DEF EpInv, Types, CoreTypes, Episodes!Waiting, Episodes!Turns, Episodes!Statuses, Episodes!Phases, Episodes!AgentStates
<1>n. /\ MaxEpisodeTurns \in Nat /\ MaxCrashes \in Nat /\ MaxFails \in Nat
      /\ e_turn \in Int /\ e_saved.turn \in Int /\ e_job.turn \in Int /\ e_crashes \in Nat /\ e_fails \in Nat
      /\ e_turn >= 0 /\ e_turn <= MaxEpisodeTurns /\ e_saved.turn >= 0 /\ e_saved.turn <= MaxEpisodeTurns
      /\ e_saved.owed \subseteq Episodes!Turns /\ e_job.extract \in BOOLEAN /\ e_job.kept \in BOOLEAN
  BY EpNumbers
<1>1. CoreTypes'
  BY <1>n
<1>2. e_saved' = e_saved
  OBVIOUS
<1>3. Types'
  BY <1>1, <1>2
<1>5. PhaseIsKnown'
  BY <1>1, <1>2, <1>3, <1>n DEF PhaseIsKnown, FutureIsEmpty, CheckpointIsRecent
<1>6. SnapshotsWait'
  BY <1>1, <1>2, <1>3, <1>n DEF PhaseIsKnown, SnapshotsWait
<1>7. CheckpointIsRecent'
  <2>1. \A t \in e_saved'.owed : e_store'[t] # "absent" \/ e_saved'.pending[t].waits
    BY <1>1, <1>2, <1>3, <1>n DEF CheckpointIsRecent, SnapshotsWait, PhaseIsKnown, DeferralIsKept
  <2>2. \A t \in Episodes!Turns : e_saved'.receipts[t] = "done" /\ e_receipts'[t] # "done" => e_phase' = "save" /\ e_todo' = {}
    BY <1>1, <1>2, <1>3, <1>n DEF PhaseIsKnown, CheckpointIsRecent
  <2>3. e_saved'.status = "running" =>
         /\ e_saved'.turn = e_turn' /\ e_turn' \in Episodes!Turns
         /\ \/ e_status' = "running"
            \/ /\ e_job'.why = "finalize" /\ ~e_job'.extract
               /\ e_phase' \in {"capture", "settle", "save"}
    BY <1>1, <1>2, <1>3, <1>n DEF PhaseIsKnown, CheckpointIsRecent, FutureIsEmpty
  <2> QED BY <2>1, <2>2, <2>3 DEF CheckpointIsRecent
<1>8. FutureIsEmpty'
  <2>1. e_saved'.turn <= e_turn' /\ e_job'.turn <= e_turn'
    BY <1>1, <1>2, <1>3, <1>n DEF PhaseIsKnown, FutureIsEmpty
  <2>2. e_phase' \in {"idle", "open", "event"} \/ e_job'.why \in {"finalize", "settle"} => e_saved'.turn = e_turn'
    BY <1>1, <1>2, <1>3, <1>n DEF PhaseIsKnown, FutureIsEmpty
  <2>3. \A t \in e_todo' : t <= e_saved'.turn
    BY <1>1, <1>2, <1>3, <1>n DEF PhaseIsKnown, FutureIsEmpty
  <2>4. e_phase' \in {"capture", "settle", "extract"} => e_job'.turn <= e_saved'.turn
    BY <1>1, <1>2, <1>3, <1>n DEF PhaseIsKnown, FutureIsEmpty, SnapshotsWait
  <2>5. \A t \in Episodes!Turns : e_pending'[t].waits => t <= e_turn'
    BY <1>1, <1>2, <1>3, <1>n DEF PhaseIsKnown, FutureIsEmpty, SnapshotsWait
  <2>6. \A t \in Episodes!Turns : e_saved'.pending[t].waits => t <= e_saved'.turn
    BY <1>1, <1>2, <1>3, <1>n DEF PhaseIsKnown, FutureIsEmpty, SnapshotsWait
  <2>7. \A t \in Episodes!Turns : t > e_turn' =>
         e_receipts'[t] = "none" /\ e_agents'[t] = "none" /\ t \notin e_notices'
    BY <1>1, <1>2, <1>3, <1>n DEF PhaseIsKnown, FutureIsEmpty
  <2>8. \A t \in Episodes!Turns : t > e_saved'.turn =>
         e_saved'.receipts[t] = "none" /\ e_saved'.agents[t] = "none" /\ e_asked'[t] = 0
    BY <1>1, <1>2, <1>3, <1>n DEF PhaseIsKnown, FutureIsEmpty, CheckpointIsRecent
  <2> QED BY <2>1, <2>2, <2>3, <2>4, <2>5, <2>6, <2>7, <2>8 DEF FutureIsEmpty
<1>9. ReadOften'
  BY <1>1, <1>2, <1>3, <1>n DEF PhaseIsKnown, CheckpointIsRecent, FutureIsEmpty, ReadOften,
     GoesOn, ReadIsFinal, IsQuiet
<1>10. ReadIsFinal'
  BY <1>1, <1>2, <1>3, <1>n DEF PhaseIsKnown, SnapshotsWait, FutureIsEmpty, ReadOften, GoesOn,
     ReadIsFinal, IsQuiet
<1>11. DeferralIsKept'
  <2>1. \A t \in e_owed' : e_store'[t] # "absent" \/ e_pending'[t].waits
    BY <1>1, <1>2, <1>3, <1>n DEF PhaseIsKnown, SnapshotsWait, DeferralIsKept, CheckpointIsRecent
  <2>2. \A t \in Episodes!Turns : e_receipts'[t] = "deferred" /\ e_crashes' = 0 =>
         \/ e_pending'[t].waits /\ e_pending'[t].extract
         \/ e_phase' \in {"capture", "settle", "extract"} /\ e_job'.turn = t /\ e_job'.extract
    BY <1>1, <1>2, <1>3, <1>n DEF PhaseIsKnown, SnapshotsWait, ReadOften, GoesOn, DeferralIsKept
  <2>3. e_phase' \in {"capture", "settle"} /\ e_job'.why = "finalize" /\ ~e_job'.extract /\ e_crashes' = 0 =>
         e_receipts'[e_job'.turn] # "deferred"
    BY <1>1, <1>2, <1>3, <1>n DEF PhaseIsKnown, ReadOften, GoesOn, DeferralIsKept
  <2> QED BY <2>1, <2>2, <2>3 DEF DeferralIsKept
<1> QED BY <1>3, <1>5, <1>6, <1>7, <1>8, <1>9, <1>10, <1>11 DEF EpInv

LEMMA EpStartAgent ==
  ASSUME EpInv, Episodes!StartAgent
  PROVE  EpInv'
<1> USE DEF Episodes!StartAgent
<1> USE DEF EpInv, Types, CoreTypes, Episodes!Waiting, Episodes!Turns, Episodes!Statuses, Episodes!Phases, Episodes!AgentStates
<1>n. /\ MaxEpisodeTurns \in Nat /\ MaxCrashes \in Nat /\ MaxFails \in Nat
      /\ e_turn \in Int /\ e_saved.turn \in Int /\ e_job.turn \in Int /\ e_crashes \in Nat /\ e_fails \in Nat
      /\ e_turn >= 0 /\ e_turn <= MaxEpisodeTurns /\ e_saved.turn >= 0 /\ e_saved.turn <= MaxEpisodeTurns
      /\ e_saved.owed \subseteq Episodes!Turns /\ e_job.extract \in BOOLEAN /\ e_job.kept \in BOOLEAN
  BY EpNumbers
<1>1. CoreTypes'
  BY <1>n
<1>2. e_saved' = Episodes!Image'
  OBVIOUS
<1>3. Types'
  BY <1>1, <1>2, ImageIsTypedNext
<1>4. /\ e_saved'.turn = e_turn' /\ e_saved'.status = e_status' /\ e_saved'.agents = e_agents'
        /\ e_saved'.pending = e_pending' /\ e_saved'.receipts = e_receipts' /\ e_saved'.owed = e_owed'
  BY <1>2 DEF Episodes!Image
<1>5. PhaseIsKnown'
  BY <1>1, <1>2, <1>3, <1>4, <1>n DEF PhaseIsKnown, FutureIsEmpty, CheckpointIsRecent
<1>6. SnapshotsWait'
  BY <1>1, <1>2, <1>3, <1>4, <1>n DEF PhaseIsKnown, SnapshotsWait
<1>7. CheckpointIsRecent'
  <2>1. \A t \in e_saved'.owed : e_store'[t] # "absent" \/ e_saved'.pending[t].waits
    BY <1>1, <1>2, <1>3, <1>4, <1>n DEF CheckpointIsRecent, SnapshotsWait, PhaseIsKnown,
       DeferralIsKept
  <2>2. \A t \in Episodes!Turns : e_saved'.receipts[t] = "done" /\ e_receipts'[t] # "done" => e_phase' = "save" /\ e_todo' = {}
    BY <1>1, <1>2, <1>3, <1>4, <1>n DEF PhaseIsKnown, CheckpointIsRecent
  <2>3. e_saved'.status = "running" =>
         /\ e_saved'.turn = e_turn' /\ e_turn' \in Episodes!Turns
         /\ \/ e_status' = "running"
            \/ /\ e_job'.why = "finalize" /\ ~e_job'.extract
               /\ e_phase' \in {"capture", "settle", "save"}
    BY <1>1, <1>2, <1>3, <1>4, <1>n DEF PhaseIsKnown, CheckpointIsRecent, FutureIsEmpty
  <2> QED BY <2>1, <2>2, <2>3 DEF CheckpointIsRecent
<1>8. FutureIsEmpty'
  <2>1. e_saved'.turn <= e_turn' /\ e_job'.turn <= e_turn'
    BY <1>1, <1>2, <1>3, <1>4, <1>n DEF PhaseIsKnown, FutureIsEmpty
  <2>2. e_phase' \in {"idle", "open", "event"} \/ e_job'.why \in {"finalize", "settle"} => e_saved'.turn = e_turn'
    BY <1>1, <1>2, <1>3, <1>4, <1>n DEF PhaseIsKnown, FutureIsEmpty
  <2>3. \A t \in e_todo' : t <= e_saved'.turn
    BY <1>1, <1>2, <1>3, <1>4, <1>n DEF PhaseIsKnown, FutureIsEmpty
  <2>4. e_phase' \in {"capture", "settle", "extract"} => e_job'.turn <= e_saved'.turn
    BY <1>1, <1>2, <1>3, <1>4, <1>n DEF PhaseIsKnown, FutureIsEmpty, SnapshotsWait
  <2>5. \A t \in Episodes!Turns : e_pending'[t].waits => t <= e_turn'
    BY <1>1, <1>2, <1>3, <1>4, <1>n DEF PhaseIsKnown, FutureIsEmpty, SnapshotsWait
  <2>6. \A t \in Episodes!Turns : e_saved'.pending[t].waits => t <= e_saved'.turn
    BY <1>1, <1>2, <1>3, <1>4, <1>n DEF PhaseIsKnown, FutureIsEmpty, SnapshotsWait
  <2>7. \A t \in Episodes!Turns : t > e_turn' =>
         e_receipts'[t] = "none" /\ e_agents'[t] = "none" /\ t \notin e_notices'
    BY <1>1, <1>2, <1>3, <1>4, <1>n DEF PhaseIsKnown, FutureIsEmpty
  <2>8. \A t \in Episodes!Turns : t > e_saved'.turn =>
         e_saved'.receipts[t] = "none" /\ e_saved'.agents[t] = "none" /\ e_asked'[t] = 0
    BY <1>1, <1>2, <1>3, <1>4, <1>n DEF PhaseIsKnown, FutureIsEmpty, CheckpointIsRecent
  <2> QED BY <2>1, <2>2, <2>3, <2>4, <2>5, <2>6, <2>7, <2>8 DEF FutureIsEmpty
<1>9. ReadOften'
  BY <1>1, <1>2, <1>3, <1>4, <1>n DEF PhaseIsKnown, CheckpointIsRecent, FutureIsEmpty, ReadOften,
     GoesOn, ReadIsFinal, IsQuiet
<1>10. ReadIsFinal'
  BY <1>1, <1>2, <1>3, <1>4, <1>n DEF PhaseIsKnown, SnapshotsWait, FutureIsEmpty, ReadOften,
     GoesOn, ReadIsFinal, IsQuiet
<1>11. DeferralIsKept'
  <2>1. \A t \in e_owed' : e_store'[t] # "absent" \/ e_pending'[t].waits
    BY <1>1, <1>2, <1>3, <1>4, <1>n DEF PhaseIsKnown, SnapshotsWait, DeferralIsKept,
       CheckpointIsRecent
  <2>2. \A t \in Episodes!Turns : e_receipts'[t] = "deferred" /\ e_crashes' = 0 =>
         \/ e_pending'[t].waits /\ e_pending'[t].extract
         \/ e_phase' \in {"capture", "settle", "extract"} /\ e_job'.turn = t /\ e_job'.extract
    BY <1>1, <1>2, <1>3, <1>4, <1>n DEF PhaseIsKnown, SnapshotsWait, ReadOften, GoesOn,
       DeferralIsKept
  <2>3. e_phase' \in {"capture", "settle"} /\ e_job'.why = "finalize" /\ ~e_job'.extract /\ e_crashes' = 0 =>
         e_receipts'[e_job'.turn] # "deferred"
    BY <1>1, <1>2, <1>3, <1>4, <1>n DEF PhaseIsKnown, ReadOften, GoesOn, DeferralIsKept
  <2> QED BY <2>1, <2>2, <2>3 DEF DeferralIsKept
<1> QED BY <1>3, <1>5, <1>6, <1>7, <1>8, <1>9, <1>10, <1>11 DEF EpInv

LEMMA EpAgentEnds ==
  ASSUME EpInv, NEW u \in Episodes!Turns, Episodes!AgentEnds(u)
  PROVE  EpInv'
<1> USE DEF Episodes!AgentEnds
<1> USE DEF EpInv, Types, CoreTypes, Episodes!Waiting, Episodes!Turns, Episodes!Statuses, Episodes!Phases, Episodes!AgentStates
<1>n. /\ MaxEpisodeTurns \in Nat /\ MaxCrashes \in Nat /\ MaxFails \in Nat
      /\ e_turn \in Int /\ e_saved.turn \in Int /\ e_job.turn \in Int /\ e_crashes \in Nat /\ e_fails \in Nat
      /\ e_turn >= 0 /\ e_turn <= MaxEpisodeTurns /\ e_saved.turn >= 0 /\ e_saved.turn <= MaxEpisodeTurns
      /\ e_saved.owed \subseteq Episodes!Turns /\ e_job.extract \in BOOLEAN /\ e_job.kept \in BOOLEAN
  BY EpNumbers
<1>1. CoreTypes'
  BY <1>n
<1>2. e_saved' = Episodes!Image'
  OBVIOUS
<1>3. Types'
  BY <1>1, <1>2, ImageIsTypedNext
<1>4. /\ e_saved'.turn = e_turn' /\ e_saved'.status = e_status' /\ e_saved'.agents = e_agents'
        /\ e_saved'.pending = e_pending' /\ e_saved'.receipts = e_receipts' /\ e_saved'.owed = e_owed'
  BY <1>2 DEF Episodes!Image
<1>5. PhaseIsKnown'
  BY <1>1, <1>2, <1>3, <1>4, <1>n DEF PhaseIsKnown, FutureIsEmpty, CheckpointIsRecent
<1>6. SnapshotsWait'
  BY <1>1, <1>2, <1>3, <1>4, <1>n DEF PhaseIsKnown, SnapshotsWait
<1>7. CheckpointIsRecent'
  <2>1. \A t \in e_saved'.owed : e_store'[t] # "absent" \/ e_saved'.pending[t].waits
    BY <1>1, <1>2, <1>3, <1>4, <1>n DEF CheckpointIsRecent, SnapshotsWait, PhaseIsKnown,
       DeferralIsKept
  <2>2. \A t \in Episodes!Turns : e_saved'.receipts[t] = "done" /\ e_receipts'[t] # "done" => e_phase' = "save" /\ e_todo' = {}
    BY <1>1, <1>2, <1>3, <1>4, <1>n DEF PhaseIsKnown, CheckpointIsRecent
  <2>3. e_saved'.status = "running" =>
         /\ e_saved'.turn = e_turn' /\ e_turn' \in Episodes!Turns
         /\ \/ e_status' = "running"
            \/ /\ e_job'.why = "finalize" /\ ~e_job'.extract
               /\ e_phase' \in {"capture", "settle", "save"}
    BY <1>1, <1>2, <1>3, <1>4, <1>n DEF PhaseIsKnown, CheckpointIsRecent, FutureIsEmpty
  <2> QED BY <2>1, <2>2, <2>3 DEF CheckpointIsRecent
<1>8. FutureIsEmpty'
  <2>1. e_saved'.turn <= e_turn' /\ e_job'.turn <= e_turn'
    BY <1>1, <1>2, <1>3, <1>4, <1>n DEF PhaseIsKnown, FutureIsEmpty
  <2>2. e_phase' \in {"idle", "open", "event"} \/ e_job'.why \in {"finalize", "settle"} => e_saved'.turn = e_turn'
    BY <1>1, <1>2, <1>3, <1>4, <1>n DEF PhaseIsKnown, FutureIsEmpty
  <2>3. \A t \in e_todo' : t <= e_saved'.turn
    BY <1>1, <1>2, <1>3, <1>4, <1>n DEF PhaseIsKnown, FutureIsEmpty
  <2>4. e_phase' \in {"capture", "settle", "extract"} => e_job'.turn <= e_saved'.turn
    BY <1>1, <1>2, <1>3, <1>4, <1>n DEF PhaseIsKnown, FutureIsEmpty, SnapshotsWait
  <2>5. \A t \in Episodes!Turns : e_pending'[t].waits => t <= e_turn'
    BY <1>1, <1>2, <1>3, <1>4, <1>n DEF PhaseIsKnown, FutureIsEmpty, SnapshotsWait
  <2>6. \A t \in Episodes!Turns : e_saved'.pending[t].waits => t <= e_saved'.turn
    BY <1>1, <1>2, <1>3, <1>4, <1>n DEF PhaseIsKnown, FutureIsEmpty, SnapshotsWait
  <2>7. \A t \in Episodes!Turns : t > e_turn' =>
         e_receipts'[t] = "none" /\ e_agents'[t] = "none" /\ t \notin e_notices'
    BY <1>1, <1>2, <1>3, <1>4, <1>n DEF PhaseIsKnown, FutureIsEmpty
  <2>8. \A t \in Episodes!Turns : t > e_saved'.turn =>
         e_saved'.receipts[t] = "none" /\ e_saved'.agents[t] = "none" /\ e_asked'[t] = 0
    BY <1>1, <1>2, <1>3, <1>4, <1>n DEF PhaseIsKnown, FutureIsEmpty, CheckpointIsRecent
  <2> QED BY <2>1, <2>2, <2>3, <2>4, <2>5, <2>6, <2>7, <2>8 DEF FutureIsEmpty
<1>9. ReadOften'
  BY <1>1, <1>2, <1>3, <1>4, <1>n DEF PhaseIsKnown, CheckpointIsRecent, FutureIsEmpty, ReadOften,
     GoesOn, ReadIsFinal, IsQuiet
<1>10. ReadIsFinal'
  BY <1>1, <1>2, <1>3, <1>4, <1>n DEF PhaseIsKnown, SnapshotsWait, FutureIsEmpty, ReadOften,
     GoesOn, ReadIsFinal, IsQuiet
<1>11. DeferralIsKept'
  <2>1. \A t \in e_owed' : e_store'[t] # "absent" \/ e_pending'[t].waits
    BY <1>1, <1>2, <1>3, <1>4, <1>n DEF PhaseIsKnown, SnapshotsWait, DeferralIsKept,
       CheckpointIsRecent
  <2>2. \A t \in Episodes!Turns : e_receipts'[t] = "deferred" /\ e_crashes' = 0 =>
         \/ e_pending'[t].waits /\ e_pending'[t].extract
         \/ e_phase' \in {"capture", "settle", "extract"} /\ e_job'.turn = t /\ e_job'.extract
    BY <1>1, <1>2, <1>3, <1>4, <1>n DEF PhaseIsKnown, SnapshotsWait, ReadOften, GoesOn,
       DeferralIsKept
  <2>3. e_phase' \in {"capture", "settle"} /\ e_job'.why = "finalize" /\ ~e_job'.extract /\ e_crashes' = 0 =>
         e_receipts'[e_job'.turn] # "deferred"
    BY <1>1, <1>2, <1>3, <1>4, <1>n DEF PhaseIsKnown, ReadOften, GoesOn, DeferralIsKept
  <2> QED BY <2>1, <2>2, <2>3 DEF DeferralIsKept
<1> QED BY <1>3, <1>5, <1>6, <1>7, <1>8, <1>9, <1>10, <1>11 DEF EpInv

LEMMA EpBeginEvent ==
  ASSUME EpInv, NEW u \in Episodes!Turns, Episodes!BeginEvent(u)
  PROVE  EpInv'
<1> USE DEF Episodes!BeginEvent
<1> USE DEF EpInv, Types, CoreTypes, Episodes!Waiting, Episodes!Turns, Episodes!Statuses, Episodes!Phases, Episodes!AgentStates
<1>n. /\ MaxEpisodeTurns \in Nat /\ MaxCrashes \in Nat /\ MaxFails \in Nat
      /\ e_turn \in Int /\ e_saved.turn \in Int /\ e_job.turn \in Int /\ e_crashes \in Nat /\ e_fails \in Nat
      /\ e_turn >= 0 /\ e_turn <= MaxEpisodeTurns /\ e_saved.turn >= 0 /\ e_saved.turn <= MaxEpisodeTurns
      /\ e_saved.owed \subseteq Episodes!Turns /\ e_job.extract \in BOOLEAN /\ e_job.kept \in BOOLEAN
  BY EpNumbers
<1>a. e_job' = [Episodes!NoJob EXCEPT !.turn = u]
  OBVIOUS
<1>0. e_job' \in Jobs /\ e_job'.turn = u /\ e_job'.why = "none" /\ ~e_job'.extract /\ ~e_job'.kept
  BY <1>a, JobOfEvent
<1>1. CoreTypes'
  BY <1>0, <1>n
<1>2. e_saved' = Episodes!Image'
  OBVIOUS
<1>3. Types'
  BY <1>1, <1>2, ImageIsTypedNext
<1>4. /\ e_saved'.turn = e_turn' /\ e_saved'.status = e_status' /\ e_saved'.agents = e_agents'
        /\ e_saved'.pending = e_pending' /\ e_saved'.receipts = e_receipts' /\ e_saved'.owed = e_owed'
  BY <1>2 DEF Episodes!Image
<1>5. PhaseIsKnown'
  BY <1>a, <1>0, <1>1, <1>2, <1>3, <1>4, <1>n DEF PhaseIsKnown, FutureIsEmpty, CheckpointIsRecent
<1>6. SnapshotsWait'
  BY <1>a, <1>0, <1>1, <1>2, <1>3, <1>4, <1>n DEF PhaseIsKnown, SnapshotsWait
<1>7. CheckpointIsRecent'
  <2>1. \A t \in e_saved'.owed : e_store'[t] # "absent" \/ e_saved'.pending[t].waits
    BY <1>a, <1>0, <1>1, <1>2, <1>3, <1>4, <1>n DEF CheckpointIsRecent, SnapshotsWait,
       PhaseIsKnown, DeferralIsKept
  <2>2. \A t \in Episodes!Turns : e_saved'.receipts[t] = "done" /\ e_receipts'[t] # "done" => e_phase' = "save" /\ e_todo' = {}
    BY <1>a, <1>0, <1>1, <1>2, <1>3, <1>4, <1>n DEF PhaseIsKnown, CheckpointIsRecent
  <2>3. e_saved'.status = "running" =>
         /\ e_saved'.turn = e_turn' /\ e_turn' \in Episodes!Turns
         /\ \/ e_status' = "running"
            \/ /\ e_job'.why = "finalize" /\ ~e_job'.extract
               /\ e_phase' \in {"capture", "settle", "save"}
    BY <1>a, <1>0, <1>1, <1>2, <1>3, <1>4, <1>n DEF PhaseIsKnown, CheckpointIsRecent, FutureIsEmpty
  <2> QED BY <2>1, <2>2, <2>3 DEF CheckpointIsRecent
<1>8. FutureIsEmpty'
  <2>1. e_saved'.turn <= e_turn' /\ e_job'.turn <= e_turn'
    BY <1>a, <1>0, <1>1, <1>2, <1>3, <1>4, <1>n DEF PhaseIsKnown, FutureIsEmpty
  <2>2. e_phase' \in {"idle", "open", "event"} \/ e_job'.why \in {"finalize", "settle"} => e_saved'.turn = e_turn'
    BY <1>a, <1>0, <1>1, <1>2, <1>3, <1>4, <1>n DEF PhaseIsKnown, FutureIsEmpty
  <2>3. \A t \in e_todo' : t <= e_saved'.turn
    BY <1>a, <1>0, <1>1, <1>2, <1>3, <1>4, <1>n DEF PhaseIsKnown, FutureIsEmpty
  <2>4. e_phase' \in {"capture", "settle", "extract"} => e_job'.turn <= e_saved'.turn
    BY <1>a, <1>0, <1>1, <1>2, <1>3, <1>4, <1>n DEF PhaseIsKnown, FutureIsEmpty, SnapshotsWait
  <2>5. \A t \in Episodes!Turns : e_pending'[t].waits => t <= e_turn'
    BY <1>a, <1>0, <1>1, <1>2, <1>3, <1>4, <1>n DEF PhaseIsKnown, FutureIsEmpty, SnapshotsWait
  <2>6. \A t \in Episodes!Turns : e_saved'.pending[t].waits => t <= e_saved'.turn
    BY <1>a, <1>0, <1>1, <1>2, <1>3, <1>4, <1>n DEF PhaseIsKnown, FutureIsEmpty, SnapshotsWait
  <2>7. \A t \in Episodes!Turns : t > e_turn' =>
         e_receipts'[t] = "none" /\ e_agents'[t] = "none" /\ t \notin e_notices'
    BY <1>a, <1>0, <1>1, <1>2, <1>3, <1>4, <1>n DEF PhaseIsKnown, FutureIsEmpty
  <2>8. \A t \in Episodes!Turns : t > e_saved'.turn =>
         e_saved'.receipts[t] = "none" /\ e_saved'.agents[t] = "none" /\ e_asked'[t] = 0
    BY <1>a, <1>0, <1>1, <1>2, <1>3, <1>4, <1>n DEF PhaseIsKnown, FutureIsEmpty, CheckpointIsRecent
  <2> QED BY <2>1, <2>2, <2>3, <2>4, <2>5, <2>6, <2>7, <2>8 DEF FutureIsEmpty
<1>9. ReadOften'
  BY <1>a, <1>0, <1>1, <1>2, <1>3, <1>4, <1>n DEF PhaseIsKnown, CheckpointIsRecent,
     FutureIsEmpty, ReadOften, GoesOn, ReadIsFinal, IsQuiet
<1>10. ReadIsFinal'
  BY <1>a, <1>0, <1>1, <1>2, <1>3, <1>4, <1>n DEF PhaseIsKnown, SnapshotsWait, FutureIsEmpty,
     ReadOften, GoesOn, ReadIsFinal, IsQuiet
<1>11. DeferralIsKept'
  <2>1. \A t \in e_owed' : e_store'[t] # "absent" \/ e_pending'[t].waits
    BY <1>a, <1>0, <1>1, <1>2, <1>3, <1>4, <1>n DEF PhaseIsKnown, SnapshotsWait, DeferralIsKept,
       CheckpointIsRecent
  <2>2. \A t \in Episodes!Turns : e_receipts'[t] = "deferred" /\ e_crashes' = 0 =>
         \/ e_pending'[t].waits /\ e_pending'[t].extract
         \/ e_phase' \in {"capture", "settle", "extract"} /\ e_job'.turn = t /\ e_job'.extract
    BY <1>a, <1>0, <1>1, <1>2, <1>3, <1>4, <1>n DEF PhaseIsKnown, SnapshotsWait, ReadOften,
       GoesOn, DeferralIsKept
  <2>3. e_phase' \in {"capture", "settle"} /\ e_job'.why = "finalize" /\ ~e_job'.extract /\ e_crashes' = 0 =>
         e_receipts'[e_job'.turn] # "deferred"
    BY <1>a, <1>0, <1>1, <1>2, <1>3, <1>4, <1>n DEF PhaseIsKnown, ReadOften, GoesOn, DeferralIsKept
  <2> QED BY <2>1, <2>2, <2>3 DEF DeferralIsKept
<1> QED BY <1>3, <1>5, <1>6, <1>7, <1>8, <1>9, <1>10, <1>11 DEF EpInv

LEMMA EpCapture ==
  ASSUME EpInv, Episodes!Capture
  PROVE  EpInv'
<1> USE DEF Episodes!Capture, Episodes!memory
<1> USE DEF EpInv, Types, CoreTypes, Episodes!Waiting, Episodes!Turns, Episodes!Statuses, Episodes!Phases, Episodes!AgentStates
<1>n. /\ MaxEpisodeTurns \in Nat /\ MaxCrashes \in Nat /\ MaxFails \in Nat
      /\ e_turn \in Int /\ e_saved.turn \in Int /\ e_job.turn \in Int /\ e_crashes \in Nat /\ e_fails \in Nat
      /\ e_turn >= 0 /\ e_turn <= MaxEpisodeTurns /\ e_saved.turn >= 0 /\ e_saved.turn <= MaxEpisodeTurns
      /\ e_saved.owed \subseteq Episodes!Turns /\ e_job.extract \in BOOLEAN /\ e_job.kept \in BOOLEAN
  BY EpNumbers
<1>a. PICK k \in BOOLEAN :
        /\ e_agents[e_job.turn] # "none" \/ e_job.why # "finalize" \/ e_pending[e_job.turn].waits => k
        /\ e_job' = [e_job EXCEPT !.agent = e_agents[e_job.turn], !.kept = k]
  OBVIOUS
<1>b. e_agents[e_job.turn] \in Episodes!AgentStates
  BY DEF PhaseIsKnown
<1>c. e_job \in Jobs
  OBVIOUS
<1>0. /\ e_job' \in Jobs /\ e_job'.turn = e_job.turn /\ e_job'.why = e_job.why /\ e_job'.extract = e_job.extract
      /\ e_job'.kept = k /\ e_job'.agent = e_agents[e_job.turn]
  <2> DEFINE b == e_agents[e_job.turn]
  <2>1. k \in BOOLEAN /\ b \in Episodes!AgentStates /\ e_job' = [e_job EXCEPT !.agent = b, !.kept = k]
    BY <1>a, <1>b
  <2> HIDE DEF b, Episodes!Capture, EpInv, Types, CoreTypes, Episodes!Turns, Episodes!AgentStates
  <2>2. /\ e_job' \in Jobs /\ e_job'.turn = e_job.turn /\ e_job'.why = e_job.why /\ e_job'.extract = e_job.extract
        /\ e_job'.kept = k /\ e_job'.agent = b
    BY ONLY <2>1, <1>c DEF Jobs
  <2> QED BY <2>2 DEF b
<1>1. CoreTypes'
  BY <1>0, <1>n
<1>2. e_saved' = e_saved
  OBVIOUS
<1>3. Types'
  BY <1>1, <1>2
<1>5. PhaseIsKnown'
  BY <1>0, <1>1, <1>2, <1>3, <1>n DEF PhaseIsKnown, FutureIsEmpty, CheckpointIsRecent
<1>6. SnapshotsWait'
  BY <1>0, <1>1, <1>2, <1>3, <1>n DEF PhaseIsKnown, SnapshotsWait
<1>7. CheckpointIsRecent'
  <2>1. \A t \in e_saved'.owed : e_store'[t] # "absent" \/ e_saved'.pending[t].waits
    BY <1>0, <1>1, <1>2, <1>3, <1>n DEF CheckpointIsRecent, SnapshotsWait, PhaseIsKnown,
       DeferralIsKept
  <2>2. \A t \in Episodes!Turns : e_saved'.receipts[t] = "done" /\ e_receipts'[t] # "done" => e_phase' = "save" /\ e_todo' = {}
    BY <1>0, <1>1, <1>2, <1>3, <1>n DEF PhaseIsKnown, CheckpointIsRecent
  <2>3. e_saved'.status = "running" =>
         /\ e_saved'.turn = e_turn' /\ e_turn' \in Episodes!Turns
         /\ \/ e_status' = "running"
            \/ /\ e_job'.why = "finalize" /\ ~e_job'.extract
               /\ e_phase' \in {"capture", "settle", "save"}
    BY <1>0, <1>1, <1>2, <1>3, <1>n DEF PhaseIsKnown, CheckpointIsRecent, FutureIsEmpty
  <2> QED BY <2>1, <2>2, <2>3 DEF CheckpointIsRecent
<1>8. FutureIsEmpty'
  <2>1. e_saved'.turn <= e_turn' /\ e_job'.turn <= e_turn'
    BY <1>0, <1>1, <1>2, <1>3, <1>n DEF PhaseIsKnown, FutureIsEmpty
  <2>2. e_phase' \in {"idle", "open", "event"} \/ e_job'.why \in {"finalize", "settle"} => e_saved'.turn = e_turn'
    BY <1>0, <1>1, <1>2, <1>3, <1>n DEF PhaseIsKnown, FutureIsEmpty
  <2>3. \A t \in e_todo' : t <= e_saved'.turn
    BY <1>0, <1>1, <1>2, <1>3, <1>n DEF PhaseIsKnown, FutureIsEmpty
  <2>4. e_phase' \in {"capture", "settle", "extract"} => e_job'.turn <= e_saved'.turn
    BY <1>0, <1>1, <1>2, <1>3, <1>n DEF PhaseIsKnown, FutureIsEmpty, SnapshotsWait
  <2>5. \A t \in Episodes!Turns : e_pending'[t].waits => t <= e_turn'
    BY <1>0, <1>1, <1>2, <1>3, <1>n DEF PhaseIsKnown, FutureIsEmpty, SnapshotsWait
  <2>6. \A t \in Episodes!Turns : e_saved'.pending[t].waits => t <= e_saved'.turn
    BY <1>0, <1>1, <1>2, <1>3, <1>n DEF PhaseIsKnown, FutureIsEmpty, SnapshotsWait
  <2>7. \A t \in Episodes!Turns : t > e_turn' =>
         e_receipts'[t] = "none" /\ e_agents'[t] = "none" /\ t \notin e_notices'
    BY <1>0, <1>1, <1>2, <1>3, <1>n DEF PhaseIsKnown, FutureIsEmpty
  <2>8. \A t \in Episodes!Turns : t > e_saved'.turn =>
         e_saved'.receipts[t] = "none" /\ e_saved'.agents[t] = "none" /\ e_asked'[t] = 0
    BY <1>0, <1>1, <1>2, <1>3, <1>n DEF PhaseIsKnown, FutureIsEmpty, CheckpointIsRecent
  <2> QED BY <2>1, <2>2, <2>3, <2>4, <2>5, <2>6, <2>7, <2>8 DEF FutureIsEmpty
<1>9. ReadOften'
  BY <1>0, <1>1, <1>2, <1>3, <1>n DEF PhaseIsKnown, CheckpointIsRecent, FutureIsEmpty, ReadOften,
     GoesOn, ReadIsFinal, IsQuiet
<1>10. ReadIsFinal'
  BY <1>0, <1>1, <1>2, <1>3, <1>n DEF PhaseIsKnown, SnapshotsWait, FutureIsEmpty, ReadOften,
     GoesOn, ReadIsFinal, IsQuiet
<1>11. DeferralIsKept'
  <2>1. \A t \in e_owed' : e_store'[t] # "absent" \/ e_pending'[t].waits
    BY <1>0, <1>1, <1>2, <1>3, <1>n DEF PhaseIsKnown, SnapshotsWait, DeferralIsKept,
       CheckpointIsRecent
  <2>2. \A t \in Episodes!Turns : e_receipts'[t] = "deferred" /\ e_crashes' = 0 =>
         \/ e_pending'[t].waits /\ e_pending'[t].extract
         \/ e_phase' \in {"capture", "settle", "extract"} /\ e_job'.turn = t /\ e_job'.extract
    BY <1>0, <1>1, <1>2, <1>3, <1>n DEF PhaseIsKnown, SnapshotsWait, ReadOften, GoesOn,
       DeferralIsKept
  <2>3. e_phase' \in {"capture", "settle"} /\ e_job'.why = "finalize" /\ ~e_job'.extract /\ e_crashes' = 0 =>
         e_receipts'[e_job'.turn] # "deferred"
    BY <1>0, <1>1, <1>2, <1>3, <1>n DEF PhaseIsKnown, ReadOften, GoesOn, DeferralIsKept
  <2> QED BY <2>1, <2>2, <2>3 DEF DeferralIsKept
<1> QED BY <1>3, <1>5, <1>6, <1>7, <1>8, <1>9, <1>10, <1>11 DEF EpInv

LEMMA EpRecoverNext ==
  ASSUME EpInv, NEW u \in Episodes!Turns, Episodes!RecoverNext(u)
  PROVE  EpInv'
<1> USE DEF Episodes!RecoverNext, Episodes!memory
<1> USE DEF EpInv, Types, CoreTypes, Episodes!Waiting, Episodes!Turns, Episodes!Statuses, Episodes!Phases, Episodes!AgentStates
<1>n. /\ MaxEpisodeTurns \in Nat /\ MaxCrashes \in Nat /\ MaxFails \in Nat
      /\ e_turn \in Int /\ e_saved.turn \in Int /\ e_job.turn \in Int /\ e_crashes \in Nat /\ e_fails \in Nat
      /\ e_turn >= 0 /\ e_turn <= MaxEpisodeTurns /\ e_saved.turn >= 0 /\ e_saved.turn <= MaxEpisodeTurns
      /\ e_saved.owed \subseteq Episodes!Turns /\ e_job.extract \in BOOLEAN /\ e_job.kept \in BOOLEAN
  BY EpNumbers
<1>a. e_pending[u].extract \in BOOLEAN
  BY DEF Episodes!Snapshots
<1>b. e_job' = [Episodes!NoJob EXCEPT !.turn = u, !.why = "recover", !.extract = e_pending[u].extract]
  OBVIOUS
<1>0. e_job' \in Jobs /\ e_job'.turn = u /\ e_job'.why = "recover" /\ e_job'.extract = e_pending[u].extract /\ e_job'.kept = FALSE
  <2>1. e_job' = [turn |-> u, why |-> "recover", agent |-> "none", kept |-> FALSE, extract |-> e_pending[u].extract]
    BY <1>b DEF Episodes!NoJob
  <2> DEFINE x == e_pending[u].extract
  <2>2. x \in BOOLEAN /\ u \in 0..MaxEpisodeTurns
    BY <1>a, <1>n
  <2> HIDE DEF x
  <2>3. e_job' = [turn |-> u, why |-> "recover", agent |-> "none", kept |-> FALSE, extract |-> x]
    BY <2>1 DEF x
  <2>4. e_job' \in Jobs
    BY ONLY <2>2, <2>3 DEF Jobs, Episodes!AgentStates
  <2>5. e_job'.turn = u /\ e_job'.why = "recover" /\ e_job'.extract = x /\ e_job'.kept = FALSE
    BY ONLY <2>3
  <2> QED BY <2>4, <2>5 DEF x
<1>1. CoreTypes'
  BY <1>0, <1>n
<1>2. e_saved' = e_saved
  OBVIOUS
<1>3. Types'
  BY <1>1, <1>2
<1>5. PhaseIsKnown'
  BY <1>a, <1>0, <1>1, <1>2, <1>3, <1>n DEF PhaseIsKnown, FutureIsEmpty, CheckpointIsRecent
<1>6. SnapshotsWait'
  BY <1>a, <1>0, <1>1, <1>2, <1>3, <1>n DEF PhaseIsKnown, SnapshotsWait
<1>7. CheckpointIsRecent'
  <2>1. \A t \in e_saved'.owed : e_store'[t] # "absent" \/ e_saved'.pending[t].waits
    BY <1>a, <1>0, <1>1, <1>2, <1>3, <1>n DEF CheckpointIsRecent, SnapshotsWait, PhaseIsKnown,
       DeferralIsKept
  <2>2. \A t \in Episodes!Turns : e_saved'.receipts[t] = "done" /\ e_receipts'[t] # "done" => e_phase' = "save" /\ e_todo' = {}
    BY <1>a, <1>0, <1>1, <1>2, <1>3, <1>n DEF PhaseIsKnown, CheckpointIsRecent
  <2>3. e_saved'.status = "running" =>
         /\ e_saved'.turn = e_turn' /\ e_turn' \in Episodes!Turns
         /\ \/ e_status' = "running"
            \/ /\ e_job'.why = "finalize" /\ ~e_job'.extract
               /\ e_phase' \in {"capture", "settle", "save"}
    BY <1>a, <1>0, <1>1, <1>2, <1>3, <1>n DEF PhaseIsKnown, CheckpointIsRecent, FutureIsEmpty
  <2> QED BY <2>1, <2>2, <2>3 DEF CheckpointIsRecent
<1>8. FutureIsEmpty'
  <2>1. e_saved'.turn <= e_turn' /\ e_job'.turn <= e_turn'
    BY <1>a, <1>0, <1>1, <1>2, <1>3, <1>n DEF PhaseIsKnown, FutureIsEmpty
  <2>2. e_phase' \in {"idle", "open", "event"} \/ e_job'.why \in {"finalize", "settle"} => e_saved'.turn = e_turn'
    BY <1>a, <1>0, <1>1, <1>2, <1>3, <1>n DEF PhaseIsKnown, FutureIsEmpty
  <2>3. \A t \in e_todo' : t <= e_saved'.turn
    BY <1>a, <1>0, <1>1, <1>2, <1>3, <1>n DEF PhaseIsKnown, FutureIsEmpty
  <2>4. e_phase' \in {"capture", "settle", "extract"} => e_job'.turn <= e_saved'.turn
    BY <1>a, <1>0, <1>1, <1>2, <1>3, <1>n DEF PhaseIsKnown, FutureIsEmpty, SnapshotsWait
  <2>5. \A t \in Episodes!Turns : e_pending'[t].waits => t <= e_turn'
    BY <1>a, <1>0, <1>1, <1>2, <1>3, <1>n DEF PhaseIsKnown, FutureIsEmpty, SnapshotsWait
  <2>6. \A t \in Episodes!Turns : e_saved'.pending[t].waits => t <= e_saved'.turn
    BY <1>a, <1>0, <1>1, <1>2, <1>3, <1>n DEF PhaseIsKnown, FutureIsEmpty, SnapshotsWait
  <2>7. \A t \in Episodes!Turns : t > e_turn' =>
         e_receipts'[t] = "none" /\ e_agents'[t] = "none" /\ t \notin e_notices'
    BY <1>a, <1>0, <1>1, <1>2, <1>3, <1>n DEF PhaseIsKnown, FutureIsEmpty
  <2>8. \A t \in Episodes!Turns : t > e_saved'.turn =>
         e_saved'.receipts[t] = "none" /\ e_saved'.agents[t] = "none" /\ e_asked'[t] = 0
    BY <1>a, <1>0, <1>1, <1>2, <1>3, <1>n DEF PhaseIsKnown, FutureIsEmpty, CheckpointIsRecent
  <2> QED BY <2>1, <2>2, <2>3, <2>4, <2>5, <2>6, <2>7, <2>8 DEF FutureIsEmpty
<1>9. ReadOften'
  BY <1>a, <1>0, <1>1, <1>2, <1>3, <1>n DEF PhaseIsKnown, CheckpointIsRecent, FutureIsEmpty,
     ReadOften, GoesOn, ReadIsFinal, IsQuiet
<1>10. ReadIsFinal'
  BY <1>a, <1>0, <1>1, <1>2, <1>3, <1>n DEF PhaseIsKnown, SnapshotsWait, FutureIsEmpty,
     ReadOften, GoesOn, ReadIsFinal, IsQuiet
<1>11. DeferralIsKept'
  <2>1. \A t \in e_owed' : e_store'[t] # "absent" \/ e_pending'[t].waits
    BY <1>a, <1>0, <1>1, <1>2, <1>3, <1>n DEF PhaseIsKnown, SnapshotsWait, DeferralIsKept,
       CheckpointIsRecent
  <2>2. \A t \in Episodes!Turns : e_receipts'[t] = "deferred" /\ e_crashes' = 0 =>
         \/ e_pending'[t].waits /\ e_pending'[t].extract
         \/ e_phase' \in {"capture", "settle", "extract"} /\ e_job'.turn = t /\ e_job'.extract
    BY <1>a, <1>0, <1>1, <1>2, <1>3, <1>n DEF PhaseIsKnown, SnapshotsWait, ReadOften, GoesOn,
       DeferralIsKept
  <2>3. e_phase' \in {"capture", "settle"} /\ e_job'.why = "finalize" /\ ~e_job'.extract /\ e_crashes' = 0 =>
         e_receipts'[e_job'.turn] # "deferred"
    BY <1>a, <1>0, <1>1, <1>2, <1>3, <1>n DEF PhaseIsKnown, ReadOften, GoesOn, DeferralIsKept
  <2> QED BY <2>1, <2>2, <2>3 DEF DeferralIsKept
<1> QED BY <1>3, <1>5, <1>6, <1>7, <1>8, <1>9, <1>10, <1>11 DEF EpInv

LEMMA EpWait ==
  ASSUME EpInv, Episodes!Wait
  PROVE  EpInv'
<1> USE DEF Episodes!Wait, Episodes!Upserted, Episodes!Deferred
<1> USE DEF EpInv, Types, CoreTypes, Episodes!Waiting, Episodes!Turns, Episodes!Statuses, Episodes!Phases, Episodes!AgentStates
<1>n. /\ MaxEpisodeTurns \in Nat /\ MaxCrashes \in Nat /\ MaxFails \in Nat
      /\ e_turn \in Int /\ e_saved.turn \in Int /\ e_job.turn \in Int /\ e_crashes \in Nat /\ e_fails \in Nat
      /\ e_turn >= 0 /\ e_turn <= MaxEpisodeTurns /\ e_saved.turn >= 0 /\ e_saved.turn <= MaxEpisodeTurns
      /\ e_saved.owed \subseteq Episodes!Turns /\ e_job.extract \in BOOLEAN /\ e_job.kept \in BOOLEAN
  BY EpNumbers
<1>b. [agent |-> e_job.agent, extract |-> e_job.extract, waits |-> TRUE] \in Episodes!Snapshots
  BY DEF Episodes!Snapshots, Jobs
<1>c. e_job.turn \in Episodes!Turns
  BY DEF PhaseIsKnown
<1>a. /\ e_pending' \in [Episodes!Turns -> Episodes!Snapshots] /\ e_job.turn \in Episodes!Turns
      /\ e_pending'[e_job.turn].waits /\ e_pending'[e_job.turn].extract = e_job.extract
      /\ \A t \in Episodes!Turns : t # e_job.turn => e_pending'[t] = e_pending[t]
      /\ \A t \in Episodes!Turns : t # e_job.turn => e_receipts'[t] = e_receipts[t]
      /\ e_receipts'[e_job.turn] = IF e_job.why = "finalize" /\ e_job.extract
                                THEN "deferred" ELSE e_receipts[e_job.turn]
  BY <1>b, <1>c
<1>1. CoreTypes'
  BY <1>a, <1>n DEF PhaseIsKnown
<1>2. e_saved' = e_saved
  OBVIOUS
<1>3. Types'
  BY <1>1, <1>2
<1>5. PhaseIsKnown'
  BY <1>a, <1>1, <1>2, <1>3, <1>n DEF PhaseIsKnown, FutureIsEmpty, CheckpointIsRecent
<1>6. SnapshotsWait'
  BY <1>a, <1>1, <1>2, <1>3, <1>n DEF PhaseIsKnown, SnapshotsWait
<1>7. CheckpointIsRecent'
  <2>1. \A t \in e_saved'.owed : e_store'[t] # "absent" \/ e_saved'.pending[t].waits
    BY <1>a, <1>1, <1>2, <1>3, <1>n DEF CheckpointIsRecent, SnapshotsWait, PhaseIsKnown,
       DeferralIsKept
  <2>2. \A t \in Episodes!Turns : e_saved'.receipts[t] = "done" /\ e_receipts'[t] # "done" => e_phase' = "save" /\ e_todo' = {}
    BY <1>a, <1>1, <1>2, <1>3, <1>n DEF PhaseIsKnown, CheckpointIsRecent
  <2>3. e_saved'.status = "running" =>
         /\ e_saved'.turn = e_turn' /\ e_turn' \in Episodes!Turns
         /\ \/ e_status' = "running"
            \/ /\ e_job'.why = "finalize" /\ ~e_job'.extract
               /\ e_phase' \in {"capture", "settle", "save"}
    BY <1>a, <1>1, <1>2, <1>3, <1>n DEF PhaseIsKnown, CheckpointIsRecent, FutureIsEmpty
  <2> QED BY <2>1, <2>2, <2>3 DEF CheckpointIsRecent
<1>8. FutureIsEmpty'
  <2>1. e_saved'.turn <= e_turn' /\ e_job'.turn <= e_turn'
    BY <1>a, <1>1, <1>2, <1>3, <1>n DEF PhaseIsKnown, FutureIsEmpty
  <2>2. e_phase' \in {"idle", "open", "event"} \/ e_job'.why \in {"finalize", "settle"} => e_saved'.turn = e_turn'
    BY <1>a, <1>1, <1>2, <1>3, <1>n DEF PhaseIsKnown, FutureIsEmpty
  <2>3. \A t \in e_todo' : t <= e_saved'.turn
    BY <1>a, <1>1, <1>2, <1>3, <1>n DEF PhaseIsKnown, FutureIsEmpty
  <2>4. e_phase' \in {"capture", "settle", "extract"} => e_job'.turn <= e_saved'.turn
    BY <1>a, <1>1, <1>2, <1>3, <1>n DEF PhaseIsKnown, FutureIsEmpty, SnapshotsWait
  <2>5. \A t \in Episodes!Turns : e_pending'[t].waits => t <= e_turn'
    BY <1>a, <1>1, <1>2, <1>3, <1>n DEF PhaseIsKnown, FutureIsEmpty, SnapshotsWait
  <2>6. \A t \in Episodes!Turns : e_saved'.pending[t].waits => t <= e_saved'.turn
    BY <1>a, <1>1, <1>2, <1>3, <1>n DEF PhaseIsKnown, FutureIsEmpty, SnapshotsWait
  <2>7. \A t \in Episodes!Turns : t > e_turn' =>
         e_receipts'[t] = "none" /\ e_agents'[t] = "none" /\ t \notin e_notices'
    BY <1>a, <1>1, <1>2, <1>3, <1>n DEF PhaseIsKnown, FutureIsEmpty
  <2>8. \A t \in Episodes!Turns : t > e_saved'.turn =>
         e_saved'.receipts[t] = "none" /\ e_saved'.agents[t] = "none" /\ e_asked'[t] = 0
    BY <1>a, <1>1, <1>2, <1>3, <1>n DEF PhaseIsKnown, FutureIsEmpty, CheckpointIsRecent
  <2> QED BY <2>1, <2>2, <2>3, <2>4, <2>5, <2>6, <2>7, <2>8 DEF FutureIsEmpty
<1>9. ReadOften'
  BY <1>a, <1>1, <1>2, <1>3, <1>n DEF PhaseIsKnown, CheckpointIsRecent, FutureIsEmpty, ReadOften,
     GoesOn, ReadIsFinal, IsQuiet
<1>10. ReadIsFinal'
  BY <1>a, <1>1, <1>2, <1>3, <1>n DEF PhaseIsKnown, SnapshotsWait, FutureIsEmpty, ReadOften,
     GoesOn, ReadIsFinal, IsQuiet
<1>11. DeferralIsKept'
  <2>1. \A t \in e_owed' : e_store'[t] # "absent" \/ e_pending'[t].waits
    BY <1>a, <1>1, <1>2, <1>3, <1>n DEF PhaseIsKnown, SnapshotsWait, DeferralIsKept,
       CheckpointIsRecent
  <2>2. \A t \in Episodes!Turns : e_receipts'[t] = "deferred" /\ e_crashes' = 0 =>
         \/ e_pending'[t].waits /\ e_pending'[t].extract
         \/ e_phase' \in {"capture", "settle", "extract"} /\ e_job'.turn = t /\ e_job'.extract
    <3> SUFFICES ASSUME NEW t \in Episodes!Turns, e_receipts'[t] = "deferred", e_crashes' = 0
                 PROVE  \/ e_pending'[t].waits /\ e_pending'[t].extract
                        \/ e_phase' \in {"capture", "settle", "extract"} /\ e_job'.turn = t /\ e_job'.extract
      OBVIOUS
    <3>0. e_crashes = 0 /\ e_job' = e_job /\ e_phase = "settle"
      OBVIOUS
    <3>1. CASE t # e_job.turn
      BY <1>a, <3>0, <3>1 DEF DeferralIsKept
    <3>2. CASE t = e_job.turn
      <4>1. CASE e_receipts[t] # "deferred"
        BY <1>a, <3>0, <3>2, <4>1
      <4>2. CASE e_receipts[t] = "deferred"
        <5>1. e_job.extract
          BY <1>a, <3>0, <3>2, <4>2 DEF DeferralIsKept, SnapshotsWait, PhaseIsKnown, Jobs
        <5> QED BY <5>1, <1>a, <3>0, <3>2
      <4> QED BY <4>1, <4>2
    <3> QED BY <3>1, <3>2
  <2>3. e_phase' \in {"capture", "settle"} /\ e_job'.why = "finalize" /\ ~e_job'.extract /\ e_crashes' = 0 =>
         e_receipts'[e_job'.turn] # "deferred"
    BY <1>a, <1>1, <1>2, <1>3, <1>n DEF PhaseIsKnown, ReadOften, GoesOn, DeferralIsKept
  <2> QED BY <2>1, <2>2, <2>3 DEF DeferralIsKept
<1> QED BY <1>3, <1>5, <1>6, <1>7, <1>8, <1>9, <1>10, <1>11 DEF EpInv

LEMMA EpPersistFails ==
  ASSUME EpInv, Episodes!PersistFails
  PROVE  EpInv'
<1> USE DEF Episodes!PersistFails, Episodes!Refused, Episodes!Upserted, Episodes!Deferred
<1> USE DEF EpInv, Types, CoreTypes, Episodes!Waiting, Episodes!Turns, Episodes!Statuses, Episodes!Phases, Episodes!AgentStates
<1>n. /\ MaxEpisodeTurns \in Nat /\ MaxCrashes \in Nat /\ MaxFails \in Nat
      /\ e_turn \in Int /\ e_saved.turn \in Int /\ e_job.turn \in Int /\ e_crashes \in Nat /\ e_fails \in Nat
      /\ e_turn >= 0 /\ e_turn <= MaxEpisodeTurns /\ e_saved.turn >= 0 /\ e_saved.turn <= MaxEpisodeTurns
      /\ e_saved.owed \subseteq Episodes!Turns /\ e_job.extract \in BOOLEAN /\ e_job.kept \in BOOLEAN
  BY EpNumbers
<1>b. [agent |-> e_job.agent, extract |-> e_job.extract, waits |-> TRUE] \in Episodes!Snapshots
  BY DEF Episodes!Snapshots, Jobs
<1>c. e_job.turn \in Episodes!Turns
  BY DEF PhaseIsKnown
<1>a. /\ e_pending' \in [Episodes!Turns -> Episodes!Snapshots] /\ e_job.turn \in Episodes!Turns
      /\ e_pending'[e_job.turn].waits /\ e_pending'[e_job.turn].extract = e_job.extract
      /\ \A t \in Episodes!Turns : t # e_job.turn => e_pending'[t] = e_pending[t]
      /\ \A t \in Episodes!Turns : t # e_job.turn => e_receipts'[t] = e_receipts[t]
      /\ e_receipts'[e_job.turn] = IF e_job.why = "finalize" /\ e_job.extract
                                THEN "deferred" ELSE e_receipts[e_job.turn]
  BY <1>b, <1>c
<1>1. CoreTypes'
  <2>1. e_fails' \in 0..MaxFails
    BY <1>n
  <2>2. e_owed' \subseteq Episodes!Turns
    BY <1>c
  <2>3. e_receipts' \in [Episodes!Turns -> {"none", "deferred", "done"}]
    BY <1>c
  <2> QED BY <2>1, <2>2, <2>3, <1>a, <1>n
<1>2. e_saved' = e_saved
  OBVIOUS
<1>3. Types'
  BY <1>1, <1>2
<1>5. PhaseIsKnown'
  BY <1>a, <1>1, <1>2, <1>3, <1>n DEF PhaseIsKnown, FutureIsEmpty, CheckpointIsRecent
<1>6. SnapshotsWait'
  BY <1>a, <1>1, <1>2, <1>3, <1>n DEF PhaseIsKnown, SnapshotsWait
<1>7. CheckpointIsRecent'
  <2>1. \A t \in e_saved'.owed : e_store'[t] # "absent" \/ e_saved'.pending[t].waits
    BY <1>a, <1>1, <1>2, <1>3, <1>n DEF CheckpointIsRecent, SnapshotsWait, PhaseIsKnown,
       DeferralIsKept
  <2>2. \A t \in Episodes!Turns : e_saved'.receipts[t] = "done" /\ e_receipts'[t] # "done" => e_phase' = "save" /\ e_todo' = {}
    BY <1>a, <1>1, <1>2, <1>3, <1>n DEF PhaseIsKnown, CheckpointIsRecent
  <2>3. e_saved'.status = "running" =>
         /\ e_saved'.turn = e_turn' /\ e_turn' \in Episodes!Turns
         /\ \/ e_status' = "running"
            \/ /\ e_job'.why = "finalize" /\ ~e_job'.extract
               /\ e_phase' \in {"capture", "settle", "save"}
    BY <1>a, <1>1, <1>2, <1>3, <1>n DEF PhaseIsKnown, CheckpointIsRecent, FutureIsEmpty
  <2> QED BY <2>1, <2>2, <2>3 DEF CheckpointIsRecent
<1>8. FutureIsEmpty'
  <2>1. e_saved'.turn <= e_turn' /\ e_job'.turn <= e_turn'
    BY <1>a, <1>1, <1>2, <1>3, <1>n DEF PhaseIsKnown, FutureIsEmpty
  <2>2. e_phase' \in {"idle", "open", "event"} \/ e_job'.why \in {"finalize", "settle"} => e_saved'.turn = e_turn'
    BY <1>a, <1>1, <1>2, <1>3, <1>n DEF PhaseIsKnown, FutureIsEmpty
  <2>3. \A t \in e_todo' : t <= e_saved'.turn
    BY <1>a, <1>1, <1>2, <1>3, <1>n DEF PhaseIsKnown, FutureIsEmpty
  <2>4. e_phase' \in {"capture", "settle", "extract"} => e_job'.turn <= e_saved'.turn
    BY <1>a, <1>1, <1>2, <1>3, <1>n DEF PhaseIsKnown, FutureIsEmpty, SnapshotsWait
  <2>5. \A t \in Episodes!Turns : e_pending'[t].waits => t <= e_turn'
    BY <1>a, <1>1, <1>2, <1>3, <1>n DEF PhaseIsKnown, FutureIsEmpty, SnapshotsWait
  <2>6. \A t \in Episodes!Turns : e_saved'.pending[t].waits => t <= e_saved'.turn
    BY <1>a, <1>1, <1>2, <1>3, <1>n DEF PhaseIsKnown, FutureIsEmpty, SnapshotsWait
  <2>7. \A t \in Episodes!Turns : t > e_turn' =>
         e_receipts'[t] = "none" /\ e_agents'[t] = "none" /\ t \notin e_notices'
    BY <1>a, <1>1, <1>2, <1>3, <1>n DEF PhaseIsKnown, FutureIsEmpty
  <2>8. \A t \in Episodes!Turns : t > e_saved'.turn =>
         e_saved'.receipts[t] = "none" /\ e_saved'.agents[t] = "none" /\ e_asked'[t] = 0
    BY <1>a, <1>1, <1>2, <1>3, <1>n DEF PhaseIsKnown, FutureIsEmpty, CheckpointIsRecent
  <2> QED BY <2>1, <2>2, <2>3, <2>4, <2>5, <2>6, <2>7, <2>8 DEF FutureIsEmpty
<1>9. ReadOften'
  BY <1>a, <1>1, <1>2, <1>3, <1>n DEF PhaseIsKnown, CheckpointIsRecent, FutureIsEmpty, ReadOften,
     GoesOn, ReadIsFinal, IsQuiet
<1>10. ReadIsFinal'
  BY <1>a, <1>1, <1>2, <1>3, <1>n DEF PhaseIsKnown, SnapshotsWait, FutureIsEmpty, ReadOften,
     GoesOn, ReadIsFinal, IsQuiet
<1>11. DeferralIsKept'
  <2>1. \A t \in e_owed' : e_store'[t] # "absent" \/ e_pending'[t].waits
    BY <1>a, <1>1, <1>2, <1>3, <1>n DEF PhaseIsKnown, SnapshotsWait, DeferralIsKept,
       CheckpointIsRecent
  <2>2. \A t \in Episodes!Turns : e_receipts'[t] = "deferred" /\ e_crashes' = 0 =>
         \/ e_pending'[t].waits /\ e_pending'[t].extract
         \/ e_phase' \in {"capture", "settle", "extract"} /\ e_job'.turn = t /\ e_job'.extract
    <3> SUFFICES ASSUME NEW t \in Episodes!Turns, e_receipts'[t] = "deferred", e_crashes' = 0
                 PROVE  \/ e_pending'[t].waits /\ e_pending'[t].extract
                        \/ e_phase' \in {"capture", "settle", "extract"} /\ e_job'.turn = t /\ e_job'.extract
      OBVIOUS
    <3>0. e_crashes = 0 /\ e_job' = e_job /\ e_phase = "settle"
      OBVIOUS
    <3>1. CASE t # e_job.turn
      BY <1>a, <3>0, <3>1 DEF DeferralIsKept
    <3>2. CASE t = e_job.turn
      <4>1. CASE e_receipts[t] # "deferred"
        BY <1>a, <3>0, <3>2, <4>1
      <4>2. CASE e_receipts[t] = "deferred"
        <5>1. e_job.extract
          BY <1>a, <3>0, <3>2, <4>2 DEF DeferralIsKept, SnapshotsWait, PhaseIsKnown, Jobs
        <5> QED BY <5>1, <1>a, <3>0, <3>2
      <4> QED BY <4>1, <4>2
    <3> QED BY <3>1, <3>2
  <2>3. e_phase' \in {"capture", "settle"} /\ e_job'.why = "finalize" /\ ~e_job'.extract /\ e_crashes' = 0 =>
         e_receipts'[e_job'.turn] # "deferred"
    BY <1>a, <1>1, <1>2, <1>3, <1>n DEF PhaseIsKnown, ReadOften, GoesOn, DeferralIsKept
  <2> QED BY <2>1, <2>2, <2>3 DEF DeferralIsKept
<1> QED BY <1>3, <1>5, <1>6, <1>7, <1>8, <1>9, <1>10, <1>11 DEF EpInv

LEMMA EpPersist ==
  ASSUME EpInv, Episodes!Persist
  PROVE  EpInv'
<1> USE DEF Episodes!Persist, Episodes!Dropped
<1> USE DEF EpInv, Types, CoreTypes, Episodes!Waiting, Episodes!Turns, Episodes!Statuses, Episodes!Phases, Episodes!AgentStates
<1>n. /\ MaxEpisodeTurns \in Nat /\ MaxCrashes \in Nat /\ MaxFails \in Nat
      /\ e_turn \in Int /\ e_saved.turn \in Int /\ e_job.turn \in Int /\ e_crashes \in Nat /\ e_fails \in Nat
      /\ e_turn >= 0 /\ e_turn <= MaxEpisodeTurns /\ e_saved.turn >= 0 /\ e_saved.turn <= MaxEpisodeTurns
      /\ e_saved.owed \subseteq Episodes!Turns /\ e_job.extract \in BOOLEAN /\ e_job.kept \in BOOLEAN
  BY EpNumbers
<1>y. Episodes!NoSnapshot \in Episodes!Snapshots /\ ~Episodes!NoSnapshot.waits /\ e_job.agent \in Episodes!AgentStates
  BY DEF Episodes!Snapshots, Episodes!NoSnapshot, Jobs
<1>z. e_job.turn \in Episodes!Turns
  BY DEF PhaseIsKnown
<1>a. /\ e_job.agent \in Episodes!AgentStates /\ e_pending' \in [Episodes!Turns -> Episodes!Snapshots] /\ e_job.turn \in Episodes!Turns
      /\ ~e_pending'[e_job.turn].waits
      /\ \A t \in Episodes!Turns : t # e_job.turn => e_pending'[t] = e_pending[t]
  BY <1>y, <1>z
<1>b. e_store' \in [Episodes!Turns -> Episodes!AgentStates \cup {"absent"}]
  BY <1>a
<1>d. e_finalized' \subseteq Episodes!Turns /\ e_phase' \in Episodes!Phases
  BY <1>a
<1>1. CoreTypes'
  BY <1>a, <1>b, <1>d, <1>n
<1>2. e_saved' = e_saved
  OBVIOUS
<1>3. Types'
  BY <1>1, <1>2
<1>5. PhaseIsKnown'
  BY <1>a, <1>1, <1>2, <1>3, <1>n DEF PhaseIsKnown, FutureIsEmpty, CheckpointIsRecent
<1>6. SnapshotsWait'
  BY <1>a, <1>1, <1>2, <1>3, <1>n DEF PhaseIsKnown, SnapshotsWait
<1>7. CheckpointIsRecent'
  <2>1. \A t \in e_saved'.owed : e_store'[t] # "absent" \/ e_saved'.pending[t].waits
    BY <1>a, <1>1, <1>2, <1>3, <1>n DEF CheckpointIsRecent, SnapshotsWait, PhaseIsKnown,
       DeferralIsKept
  <2>2. \A t \in Episodes!Turns : e_saved'.receipts[t] = "done" /\ e_receipts'[t] # "done" => e_phase' = "save" /\ e_todo' = {}
    BY <1>a, <1>1, <1>2, <1>3, <1>n DEF PhaseIsKnown, CheckpointIsRecent
  <2>3. e_saved'.status = "running" =>
         /\ e_saved'.turn = e_turn' /\ e_turn' \in Episodes!Turns
         /\ \/ e_status' = "running"
            \/ /\ e_job'.why = "finalize" /\ ~e_job'.extract
               /\ e_phase' \in {"capture", "settle", "save"}
    BY <1>a, <1>1, <1>2, <1>3, <1>n DEF PhaseIsKnown, CheckpointIsRecent, FutureIsEmpty
  <2> QED BY <2>1, <2>2, <2>3 DEF CheckpointIsRecent
<1>8. FutureIsEmpty'
  <2>1. e_saved'.turn <= e_turn' /\ e_job'.turn <= e_turn'
    BY <1>a, <1>1, <1>2, <1>3, <1>n DEF PhaseIsKnown, FutureIsEmpty
  <2>2. e_phase' \in {"idle", "open", "event"} \/ e_job'.why \in {"finalize", "settle"} => e_saved'.turn = e_turn'
    BY <1>a, <1>1, <1>2, <1>3, <1>n DEF PhaseIsKnown, FutureIsEmpty
  <2>3. \A t \in e_todo' : t <= e_saved'.turn
    BY <1>a, <1>1, <1>2, <1>3, <1>n DEF PhaseIsKnown, FutureIsEmpty
  <2>4. e_phase' \in {"capture", "settle", "extract"} => e_job'.turn <= e_saved'.turn
    BY <1>a, <1>1, <1>2, <1>3, <1>n DEF PhaseIsKnown, FutureIsEmpty, SnapshotsWait
  <2>5. \A t \in Episodes!Turns : e_pending'[t].waits => t <= e_turn'
    BY <1>a, <1>1, <1>2, <1>3, <1>n DEF PhaseIsKnown, FutureIsEmpty, SnapshotsWait
  <2>6. \A t \in Episodes!Turns : e_saved'.pending[t].waits => t <= e_saved'.turn
    BY <1>a, <1>1, <1>2, <1>3, <1>n DEF PhaseIsKnown, FutureIsEmpty, SnapshotsWait
  <2>7. \A t \in Episodes!Turns : t > e_turn' =>
         e_receipts'[t] = "none" /\ e_agents'[t] = "none" /\ t \notin e_notices'
    BY <1>a, <1>1, <1>2, <1>3, <1>n DEF PhaseIsKnown, FutureIsEmpty
  <2>8. \A t \in Episodes!Turns : t > e_saved'.turn =>
         e_saved'.receipts[t] = "none" /\ e_saved'.agents[t] = "none" /\ e_asked'[t] = 0
    BY <1>a, <1>1, <1>2, <1>3, <1>n DEF PhaseIsKnown, FutureIsEmpty, CheckpointIsRecent
  <2> QED BY <2>1, <2>2, <2>3, <2>4, <2>5, <2>6, <2>7, <2>8 DEF FutureIsEmpty
<1>9. ReadOften'
  BY <1>a, <1>1, <1>2, <1>3, <1>n DEF PhaseIsKnown, CheckpointIsRecent, FutureIsEmpty, ReadOften,
     GoesOn, ReadIsFinal, IsQuiet
<1>10. ReadIsFinal'
  BY <1>a, <1>1, <1>2, <1>3, <1>n DEF PhaseIsKnown, SnapshotsWait, FutureIsEmpty, ReadOften,
     GoesOn, ReadIsFinal, IsQuiet
<1>11. DeferralIsKept'
  <2>1. \A t \in e_owed' : e_store'[t] # "absent" \/ e_pending'[t].waits
    BY <1>a, <1>1, <1>2, <1>3, <1>n DEF PhaseIsKnown, SnapshotsWait, DeferralIsKept,
       CheckpointIsRecent
  <2>2. \A t \in Episodes!Turns : e_receipts'[t] = "deferred" /\ e_crashes' = 0 =>
         \/ e_pending'[t].waits /\ e_pending'[t].extract
         \/ e_phase' \in {"capture", "settle", "extract"} /\ e_job'.turn = t /\ e_job'.extract
    <3> SUFFICES ASSUME NEW t \in Episodes!Turns, e_receipts'[t] = "deferred", e_crashes' = 0
                 PROVE  \/ e_pending'[t].waits /\ e_pending'[t].extract
                        \/ e_phase' \in {"capture", "settle", "extract"} /\ e_job'.turn = t /\ e_job'.extract
      OBVIOUS
    <3>0. e_crashes = 0 /\ e_job' = e_job /\ e_phase = "settle"
      OBVIOUS
    <3>1. CASE t # e_job.turn
      BY <1>a, <3>0, <3>1 DEF DeferralIsKept
    <3>2. CASE t = e_job.turn
      <4>1. CASE e_receipts[t] # "deferred"
        BY <1>a, <3>0, <3>2, <4>1
      <4>2. CASE e_receipts[t] = "deferred"
        <5>1. e_job.extract
          BY <1>a, <3>0, <3>2, <4>2 DEF DeferralIsKept, SnapshotsWait, PhaseIsKnown, Jobs
        <5> QED BY <5>1, <1>a, <3>0, <3>2
      <4> QED BY <4>1, <4>2
    <3> QED BY <3>1, <3>2
  <2>3. e_phase' \in {"capture", "settle"} /\ e_job'.why = "finalize" /\ ~e_job'.extract /\ e_crashes' = 0 =>
         e_receipts'[e_job'.turn] # "deferred"
    BY <1>a, <1>1, <1>2, <1>3, <1>n DEF PhaseIsKnown, ReadOften, GoesOn, DeferralIsKept
  <2> QED BY <2>1, <2>2, <2>3 DEF DeferralIsKept
<1> QED BY <1>3, <1>5, <1>6, <1>7, <1>8, <1>9, <1>10, <1>11 DEF EpInv

LEMMA EpSkip ==
  ASSUME EpInv, Episodes!Skip
  PROVE  EpInv'
<1> USE DEF Episodes!Skip, Episodes!Dropped
<1> USE DEF EpInv, Types, CoreTypes, Episodes!Waiting, Episodes!Turns, Episodes!Statuses, Episodes!Phases, Episodes!AgentStates
<1>n. /\ MaxEpisodeTurns \in Nat /\ MaxCrashes \in Nat /\ MaxFails \in Nat
      /\ e_turn \in Int /\ e_saved.turn \in Int /\ e_job.turn \in Int /\ e_crashes \in Nat /\ e_fails \in Nat
      /\ e_turn >= 0 /\ e_turn <= MaxEpisodeTurns /\ e_saved.turn >= 0 /\ e_saved.turn <= MaxEpisodeTurns
      /\ e_saved.owed \subseteq Episodes!Turns /\ e_job.extract \in BOOLEAN /\ e_job.kept \in BOOLEAN
  BY EpNumbers
<1>y. Episodes!NoSnapshot \in Episodes!Snapshots /\ ~Episodes!NoSnapshot.waits /\ e_job.agent \in Episodes!AgentStates
  BY DEF Episodes!Snapshots, Episodes!NoSnapshot, Jobs
<1>z. e_job.turn \in Episodes!Turns
  BY DEF PhaseIsKnown
<1>a. /\ e_job.agent \in Episodes!AgentStates /\ e_pending' \in [Episodes!Turns -> Episodes!Snapshots] /\ e_job.turn \in Episodes!Turns
      /\ ~e_pending'[e_job.turn].waits
      /\ \A t \in Episodes!Turns : t # e_job.turn => e_pending'[t] = e_pending[t]
  BY <1>y, <1>z
<1>1. CoreTypes'
  BY <1>a, <1>n DEF PhaseIsKnown
<1>2. e_saved' = e_saved
  OBVIOUS
<1>3. Types'
  BY <1>1, <1>2
<1>5. PhaseIsKnown'
  BY <1>a, <1>1, <1>2, <1>3, <1>n DEF PhaseIsKnown, FutureIsEmpty, CheckpointIsRecent
<1>6. SnapshotsWait'
  BY <1>a, <1>1, <1>2, <1>3, <1>n DEF PhaseIsKnown, SnapshotsWait
<1>7. CheckpointIsRecent'
  <2>1. \A t \in e_saved'.owed : e_store'[t] # "absent" \/ e_saved'.pending[t].waits
    BY <1>a, <1>1, <1>2, <1>3, <1>n DEF CheckpointIsRecent, SnapshotsWait, PhaseIsKnown,
       DeferralIsKept
  <2>2. \A t \in Episodes!Turns : e_saved'.receipts[t] = "done" /\ e_receipts'[t] # "done" => e_phase' = "save" /\ e_todo' = {}
    BY <1>a, <1>1, <1>2, <1>3, <1>n DEF PhaseIsKnown, CheckpointIsRecent
  <2>3. e_saved'.status = "running" =>
         /\ e_saved'.turn = e_turn' /\ e_turn' \in Episodes!Turns
         /\ \/ e_status' = "running"
            \/ /\ e_job'.why = "finalize" /\ ~e_job'.extract
               /\ e_phase' \in {"capture", "settle", "save"}
    BY <1>a, <1>1, <1>2, <1>3, <1>n DEF PhaseIsKnown, CheckpointIsRecent, FutureIsEmpty
  <2> QED BY <2>1, <2>2, <2>3 DEF CheckpointIsRecent
<1>8. FutureIsEmpty'
  <2>1. e_saved'.turn <= e_turn' /\ e_job'.turn <= e_turn'
    BY <1>a, <1>1, <1>2, <1>3, <1>n DEF PhaseIsKnown, FutureIsEmpty
  <2>2. e_phase' \in {"idle", "open", "event"} \/ e_job'.why \in {"finalize", "settle"} => e_saved'.turn = e_turn'
    BY <1>a, <1>1, <1>2, <1>3, <1>n DEF PhaseIsKnown, FutureIsEmpty
  <2>3. \A t \in e_todo' : t <= e_saved'.turn
    BY <1>a, <1>1, <1>2, <1>3, <1>n DEF PhaseIsKnown, FutureIsEmpty
  <2>4. e_phase' \in {"capture", "settle", "extract"} => e_job'.turn <= e_saved'.turn
    BY <1>a, <1>1, <1>2, <1>3, <1>n DEF PhaseIsKnown, FutureIsEmpty, SnapshotsWait
  <2>5. \A t \in Episodes!Turns : e_pending'[t].waits => t <= e_turn'
    BY <1>a, <1>1, <1>2, <1>3, <1>n DEF PhaseIsKnown, FutureIsEmpty, SnapshotsWait
  <2>6. \A t \in Episodes!Turns : e_saved'.pending[t].waits => t <= e_saved'.turn
    BY <1>a, <1>1, <1>2, <1>3, <1>n DEF PhaseIsKnown, FutureIsEmpty, SnapshotsWait
  <2>7. \A t \in Episodes!Turns : t > e_turn' =>
         e_receipts'[t] = "none" /\ e_agents'[t] = "none" /\ t \notin e_notices'
    BY <1>a, <1>1, <1>2, <1>3, <1>n DEF PhaseIsKnown, FutureIsEmpty
  <2>8. \A t \in Episodes!Turns : t > e_saved'.turn =>
         e_saved'.receipts[t] = "none" /\ e_saved'.agents[t] = "none" /\ e_asked'[t] = 0
    BY <1>a, <1>1, <1>2, <1>3, <1>n DEF PhaseIsKnown, FutureIsEmpty, CheckpointIsRecent
  <2> QED BY <2>1, <2>2, <2>3, <2>4, <2>5, <2>6, <2>7, <2>8 DEF FutureIsEmpty
<1>9. ReadOften'
  BY <1>a, <1>1, <1>2, <1>3, <1>n DEF PhaseIsKnown, CheckpointIsRecent, FutureIsEmpty, ReadOften,
     GoesOn, ReadIsFinal, IsQuiet
<1>10. ReadIsFinal'
  BY <1>a, <1>1, <1>2, <1>3, <1>n DEF PhaseIsKnown, SnapshotsWait, FutureIsEmpty, ReadOften,
     GoesOn, ReadIsFinal, IsQuiet
<1>11. DeferralIsKept'
  <2>1. \A t \in e_owed' : e_store'[t] # "absent" \/ e_pending'[t].waits
    BY <1>a, <1>1, <1>2, <1>3, <1>n DEF PhaseIsKnown, SnapshotsWait, DeferralIsKept,
       CheckpointIsRecent
  <2>2. \A t \in Episodes!Turns : e_receipts'[t] = "deferred" /\ e_crashes' = 0 =>
         \/ e_pending'[t].waits /\ e_pending'[t].extract
         \/ e_phase' \in {"capture", "settle", "extract"} /\ e_job'.turn = t /\ e_job'.extract
    <3> SUFFICES ASSUME NEW t \in Episodes!Turns, e_receipts'[t] = "deferred", e_crashes' = 0
                 PROVE  \/ e_pending'[t].waits /\ e_pending'[t].extract
                        \/ e_phase' \in {"capture", "settle", "extract"} /\ e_job'.turn = t /\ e_job'.extract
      OBVIOUS
    <3>0. e_crashes = 0 /\ e_job' = e_job /\ e_phase = "settle"
      OBVIOUS
    <3>1. CASE t # e_job.turn
      BY <1>a, <3>0, <3>1 DEF DeferralIsKept
    <3>2. CASE t = e_job.turn
      <4>1. CASE e_receipts[t] # "deferred"
        BY <1>a, <3>0, <3>2, <4>1
      <4>2. CASE e_receipts[t] = "deferred"
        <5>1. e_job.extract
          BY <1>a, <3>0, <3>2, <4>2 DEF DeferralIsKept, SnapshotsWait, PhaseIsKnown, Jobs
        <5> QED BY <5>1, <1>a, <3>0, <3>2
      <4> QED BY <4>1, <4>2
    <3> QED BY <3>1, <3>2
  <2>3. e_phase' \in {"capture", "settle"} /\ e_job'.why = "finalize" /\ ~e_job'.extract /\ e_crashes' = 0 =>
         e_receipts'[e_job'.turn] # "deferred"
    BY <1>a, <1>1, <1>2, <1>3, <1>n DEF PhaseIsKnown, ReadOften, GoesOn, DeferralIsKept
  <2> QED BY <2>1, <2>2, <2>3 DEF DeferralIsKept
<1> QED BY <1>3, <1>5, <1>6, <1>7, <1>8, <1>9, <1>10, <1>11 DEF EpInv

LEMMA EpExtract ==
  ASSUME EpInv, Episodes!Extract
  PROVE  EpInv'
<1> USE DEF Episodes!Extract
<1> USE DEF EpInv, Types, CoreTypes, Episodes!Waiting, Episodes!Turns, Episodes!Statuses, Episodes!Phases, Episodes!AgentStates
<1>n. /\ MaxEpisodeTurns \in Nat /\ MaxCrashes \in Nat /\ MaxFails \in Nat
      /\ e_turn \in Int /\ e_saved.turn \in Int /\ e_job.turn \in Int /\ e_crashes \in Nat /\ e_fails \in Nat
      /\ e_turn >= 0 /\ e_turn <= MaxEpisodeTurns /\ e_saved.turn >= 0 /\ e_saved.turn <= MaxEpisodeTurns
      /\ e_saved.owed \subseteq Episodes!Turns /\ e_job.extract \in BOOLEAN /\ e_job.kept \in BOOLEAN
  BY EpNumbers
<1>a. e_job.turn \in Episodes!Turns
  BY DEF PhaseIsKnown
<1>b. e_receipts' \in [Episodes!Turns -> {"none", "deferred", "done"}] /\ e_asked' \in [Episodes!Turns -> Nat]
  BY <1>a DEF Episodes!Recorded
<1>0. /\ \A t \in Episodes!Turns : t # e_job.turn => e_receipts'[t] = e_receipts[t] /\ e_asked'[t] = e_asked[t]
      /\ e_receipts'[e_job.turn] = "done"
      /\ e_asked'[e_job.turn] = e_asked[e_job.turn] \/ e_asked'[e_job.turn] = e_asked[e_job.turn] + 1
      /\ e_receipts[e_job.turn] = "done" => e_asked'[e_job.turn] = e_asked[e_job.turn]
      /\ e_receipts[e_job.turn] # "done" => e_asked'[e_job.turn] = e_asked[e_job.turn] + 1
  BY <1>a DEF Episodes!Recorded
<1>1. CoreTypes'
  BY <1>0, <1>a, <1>b, <1>n
<1>2. e_saved' = e_saved
  OBVIOUS
<1>3. Types'
  BY <1>1, <1>2
<1>5. PhaseIsKnown'
  BY <1>a, <1>0, <1>1, <1>2, <1>3, <1>n DEF PhaseIsKnown, FutureIsEmpty, CheckpointIsRecent
<1>6. SnapshotsWait'
  BY <1>a, <1>0, <1>1, <1>2, <1>3, <1>n DEF PhaseIsKnown, SnapshotsWait
<1>7. CheckpointIsRecent'
  <2>1. \A t \in e_saved'.owed : e_store'[t] # "absent" \/ e_saved'.pending[t].waits
    BY <1>a, <1>0, <1>1, <1>2, <1>3, <1>n DEF CheckpointIsRecent, SnapshotsWait, PhaseIsKnown,
       DeferralIsKept
  <2>2. \A t \in Episodes!Turns : e_saved'.receipts[t] = "done" /\ e_receipts'[t] # "done" => e_phase' = "save" /\ e_todo' = {}
    BY <1>a, <1>0, <1>1, <1>2, <1>3, <1>n DEF PhaseIsKnown, CheckpointIsRecent
  <2>3. e_saved'.status = "running" =>
         /\ e_saved'.turn = e_turn' /\ e_turn' \in Episodes!Turns
         /\ \/ e_status' = "running"
            \/ /\ e_job'.why = "finalize" /\ ~e_job'.extract
               /\ e_phase' \in {"capture", "settle", "save"}
    BY <1>a, <1>0, <1>1, <1>2, <1>3, <1>n DEF PhaseIsKnown, CheckpointIsRecent, FutureIsEmpty
  <2> QED BY <2>1, <2>2, <2>3 DEF CheckpointIsRecent
<1>8. FutureIsEmpty'
  <2>1. e_saved'.turn <= e_turn' /\ e_job'.turn <= e_turn'
    BY <1>a, <1>0, <1>1, <1>2, <1>3, <1>n DEF PhaseIsKnown, FutureIsEmpty
  <2>2. e_phase' \in {"idle", "open", "event"} \/ e_job'.why \in {"finalize", "settle"} => e_saved'.turn = e_turn'
    BY <1>a, <1>0, <1>1, <1>2, <1>3, <1>n DEF PhaseIsKnown, FutureIsEmpty
  <2>3. \A t \in e_todo' : t <= e_saved'.turn
    BY <1>a, <1>0, <1>1, <1>2, <1>3, <1>n DEF PhaseIsKnown, FutureIsEmpty
  <2>4. e_phase' \in {"capture", "settle", "extract"} => e_job'.turn <= e_saved'.turn
    BY <1>a, <1>0, <1>1, <1>2, <1>3, <1>n DEF PhaseIsKnown, FutureIsEmpty, SnapshotsWait
  <2>5. \A t \in Episodes!Turns : e_pending'[t].waits => t <= e_turn'
    BY <1>a, <1>0, <1>1, <1>2, <1>3, <1>n DEF PhaseIsKnown, FutureIsEmpty, SnapshotsWait
  <2>6. \A t \in Episodes!Turns : e_saved'.pending[t].waits => t <= e_saved'.turn
    BY <1>a, <1>0, <1>1, <1>2, <1>3, <1>n DEF PhaseIsKnown, FutureIsEmpty, SnapshotsWait
  <2>7. \A t \in Episodes!Turns : t > e_turn' =>
         e_receipts'[t] = "none" /\ e_agents'[t] = "none" /\ t \notin e_notices'
    BY <1>a, <1>0, <1>1, <1>2, <1>3, <1>n DEF PhaseIsKnown, FutureIsEmpty
  <2>8. \A t \in Episodes!Turns : t > e_saved'.turn =>
         e_saved'.receipts[t] = "none" /\ e_saved'.agents[t] = "none" /\ e_asked'[t] = 0
    BY <1>a, <1>0, <1>1, <1>2, <1>3, <1>n DEF PhaseIsKnown, FutureIsEmpty, CheckpointIsRecent
  <2> QED BY <2>1, <2>2, <2>3, <2>4, <2>5, <2>6, <2>7, <2>8 DEF FutureIsEmpty
<1>9. ReadOften'
  <2>0. ASSUME NEW t \in Episodes!Turns
       PROVE  /\ e_asked'[t] <= 1 + e_crashes'
              /\ e_receipts'[t] = "done" => e_asked'[t] > 0
              /\ e_saved'.receipts[t] = "done" => e_asked'[t] > 0
              /\ e_receipts'[t] # "done" => e_asked'[t] <= e_crashes'
              /\ GoesOn(t)' /\ e_receipts'[t] = "done" => e_asked'[t] <= e_crashes'
              /\ GoesOn(t)' /\ e_receipts'[t] # "done" => e_asked'[t] < e_crashes' \/ e_asked'[t] = 0
              /\ GoesOn(t)' /\ e_crashes' = 0 => e_receipts'[t] = "none"
              /\ e_job'.why = "finalize" /\ e_job'.turn = t /\ e_phase' \in {"capture", "settle"} /\ e_receipts'[t] = "done" => e_asked'[t] <= e_crashes'
              /\ e_saved'.turn = t /\ e_saved'.status = "running" /\ e_saved'.receipts[t] # "done" => e_asked'[t] <= e_crashes'
    <3>0. t = e_job.turn \/ (e_receipts'[t] = e_receipts[t] /\ e_asked'[t] = e_asked[t])
      BY ONLY <1>0, t \in Episodes!Turns
    <3>1. e_asked'[t] <= 1 + e_crashes'
      BY <3>0, <1>a, <1>0, <1>1, <1>2, <1>3, <1>n DEF PhaseIsKnown, CheckpointIsRecent,
         FutureIsEmpty, ReadOften, GoesOn, ReadIsFinal, IsQuiet
    <3>2. e_receipts'[t] = "done" => e_asked'[t] > 0
      BY <3>0, <1>a, <1>0, <1>1, <1>2, <1>3, <1>n DEF PhaseIsKnown, CheckpointIsRecent,
         FutureIsEmpty, ReadOften, GoesOn, ReadIsFinal, IsQuiet
    <3>3. e_saved'.receipts[t] = "done" => e_asked'[t] > 0
      <4>0. UNCHANGED <<e_turn, e_status, e_agents, e_finalized, e_notices, e_job, e_todo, e_saved, e_crashes>> /\ e_phase = "extract" /\ e_phase' = "save"
        OBVIOUS
      <4>1. e_saved.receipts[t] = "done" => e_asked[t] > 0
        BY DEF ReadOften
      <4>2. e_asked[t] \in Nat /\ (e_asked'[t] = e_asked[t] \/ e_asked'[t] = e_asked[t] + 1)
        BY <3>0, <1>0, <1>a
      <4> QED BY <4>0, <4>1, <4>2
    <3>4. e_receipts'[t] # "done" => e_asked'[t] <= e_crashes'
      BY <3>0, <1>a, <1>0, <1>1, <1>2, <1>3, <1>n DEF PhaseIsKnown, CheckpointIsRecent,
         FutureIsEmpty, ReadOften, GoesOn, ReadIsFinal, IsQuiet
    <3>5. GoesOn(t)' /\ e_receipts'[t] = "done" => e_asked'[t] <= e_crashes'
      <4>0. UNCHANGED <<e_turn, e_status, e_agents, e_finalized, e_notices, e_job, e_todo, e_saved, e_crashes>> /\ e_phase = "extract" /\ e_phase' = "save"
        OBVIOUS
      <4>1. CASE t # e_job.turn
        BY <4>0, <4>1, <3>0 DEF GoesOn, ReadOften
      <4>2. CASE t = e_job.turn
        <5> SUFFICES ASSUME GoesOn(t)' PROVE e_asked'[t] <= e_crashes'
          OBVIOUS
        <5>1. GoesOn(t) /\ e_status = "running" /\ t = e_turn
          BY <4>0 DEF GoesOn
        <5>2. e_job.why = "recover"
          BY <4>0, <4>2, <5>1 DEF PhaseIsKnown, Jobs
        <5>3. e_crashes > 0
          BY <4>0, <4>2, <5>1, <5>2, <1>n DEF PhaseIsKnown
        <5>4. e_asked[t] \in Nat /\ e_asked'[t] \in Nat /\ e_crashes' = e_crashes
          BY <1>b, <4>0
        <5>5. /\ e_receipts[t] = "done" => e_asked'[t] = e_asked[t] /\ e_asked[t] <= e_crashes
              /\ e_receipts[t] # "done" => e_asked'[t] = e_asked[t] + 1 /\ (e_asked[t] = 0 \/ e_asked[t] < e_crashes)
          BY <1>0, <4>2, <5>1, <1>a DEF ReadOften
        <5> QED BY <5>3, <5>4, <5>5, <1>n
      <4> QED BY <4>1, <4>2
    <3>6. GoesOn(t)' /\ e_receipts'[t] # "done" => e_asked'[t] < e_crashes' \/ e_asked'[t] = 0
      BY <3>0, <1>a, <1>0, <1>1, <1>2, <1>3, <1>n DEF PhaseIsKnown, CheckpointIsRecent,
         FutureIsEmpty, ReadOften, GoesOn, ReadIsFinal, IsQuiet
    <3>7. GoesOn(t)' /\ e_crashes' = 0 => e_receipts'[t] = "none"
      <4>0. UNCHANGED <<e_turn, e_status, e_agents, e_finalized, e_notices, e_job, e_todo, e_saved, e_crashes>> /\ e_phase = "extract" /\ e_phase' = "save"
        OBVIOUS
      <4>1. CASE t # e_job.turn
        BY <4>0, <4>1, <3>0 DEF GoesOn, ReadOften
      <4>2. CASE t = e_job.turn
        <5> SUFFICES ASSUME GoesOn(t)' PROVE e_crashes' > 0
          OBVIOUS
        <5>1. GoesOn(t) /\ e_status = "running" /\ t = e_turn
          BY <4>0 DEF GoesOn
        <5>2. e_job.why = "recover"
          BY <4>0, <4>2, <5>1 DEF PhaseIsKnown, Jobs
        <5>3. e_crashes > 0
          BY <4>0, <4>2, <5>1, <5>2, <1>n DEF PhaseIsKnown
        <5>4. e_asked[t] \in Nat /\ e_asked'[t] \in Nat /\ e_crashes' = e_crashes
          BY <1>b, <4>0
        <5>5. /\ e_receipts[t] = "done" => e_asked'[t] = e_asked[t] /\ e_asked[t] <= e_crashes
              /\ e_receipts[t] # "done" => e_asked'[t] = e_asked[t] + 1 /\ (e_asked[t] = 0 \/ e_asked[t] < e_crashes)
          BY <1>0, <4>2, <5>1, <1>a DEF ReadOften
        <5> QED BY <5>3, <5>4, <5>5, <1>n
      <4> QED BY <4>1, <4>2
    <3>8. e_job'.why = "finalize" /\ e_job'.turn = t /\ e_phase' \in {"capture", "settle"} /\ e_receipts'[t] = "done" => e_asked'[t] <= e_crashes'
      BY <3>0, <1>a, <1>0, <1>1, <1>2, <1>3, <1>n DEF PhaseIsKnown, CheckpointIsRecent,
         FutureIsEmpty, ReadOften, GoesOn, ReadIsFinal, IsQuiet
    <3>9. e_saved'.turn = t /\ e_saved'.status = "running" /\ e_saved'.receipts[t] # "done" => e_asked'[t] <= e_crashes'
      <4>0. UNCHANGED <<e_turn, e_status, e_agents, e_finalized, e_notices, e_job, e_todo, e_saved, e_crashes>> /\ e_phase = "extract" /\ e_phase' = "save"
        OBVIOUS
      <4>1. CASE t # e_job.turn
        BY <4>0, <4>1, <3>0 DEF ReadOften
      <4>2. CASE t = e_job.turn
        <5> SUFFICES ASSUME e_saved.turn = t, e_saved.status = "running", e_saved.receipts[t] # "done" PROVE e_asked'[t] <= e_crashes'
          BY <4>0
        <5>1. e_status = "running" /\ t = e_turn
          BY <4>0 DEF CheckpointIsRecent
        <5>2. e_job.why = "recover" /\ GoesOn(t)
          BY <4>0, <4>2, <5>1 DEF PhaseIsKnown, Jobs, GoesOn
        <5>3. e_crashes > 0
          BY <4>0, <4>2, <5>1, <5>2, <1>n DEF PhaseIsKnown
        <5>4. e_asked[t] \in Nat /\ e_asked'[t] \in Nat /\ e_crashes' = e_crashes
          BY <1>b, <4>0
        <5>5. /\ e_receipts[t] = "done" => e_asked'[t] = e_asked[t] /\ e_asked[t] <= e_crashes
              /\ e_receipts[t] # "done" => e_asked'[t] = e_asked[t] + 1 /\ (e_asked[t] = 0 \/ e_asked[t] < e_crashes)
          BY <1>0, <4>2, <5>2, <1>a DEF ReadOften
        <5> QED BY <5>3, <5>4, <5>5, <1>n
      <4> QED BY <4>1, <4>2
    <3> QED BY <3>1, <3>2, <3>3, <3>4, <3>5, <3>6, <3>7, <3>8, <3>9
  <2> QED BY <2>0 DEF ReadOften
<1>10. ReadIsFinal'
  <2>0. ASSUME NEW t \in Episodes!Turns
       PROVE  /\ t \in e_notices' => e_agents'[t] = "ended"
              /\ e_phase' = "event" /\ e_job'.turn = t => e_agents'[t] = "ended"
              /\ t = e_turn' /\ e_receipts'[t] = "done" /\ t \notin e_finalized' /\ e_asked'[t] > e_crashes' => IsQuiet(t)'
              /\ t = e_turn' /\ t \in e_todo' => IsQuiet(t)'
              /\ t = e_turn' /\ e_job'.turn = t /\ e_job'.why = "recover" /\ e_phase' \in {"capture", "settle", "extract"} => IsQuiet(t)'
              /\ e_phase' = "extract" /\ e_job'.turn = t /\ e_job'.why = "finalize" => t \in e_finalized' \/ e_agents'[t] = "none"
    <3>0. t = e_job.turn \/ (e_receipts'[t] = e_receipts[t] /\ e_asked'[t] = e_asked[t])
      BY ONLY <1>0, t \in Episodes!Turns
    <3>1. t \in e_notices' => e_agents'[t] = "ended"
      BY <3>0, <1>a, <1>0, <1>1, <1>2, <1>3, <1>n DEF PhaseIsKnown, SnapshotsWait, FutureIsEmpty,
         ReadOften, GoesOn, ReadIsFinal, IsQuiet
    <3>2. e_phase' = "event" /\ e_job'.turn = t => e_agents'[t] = "ended"
      BY <3>0, <1>a, <1>0, <1>1, <1>2, <1>3, <1>n DEF PhaseIsKnown, SnapshotsWait, FutureIsEmpty,
         ReadOften, GoesOn, ReadIsFinal, IsQuiet
    <3>3. t = e_turn' /\ e_receipts'[t] = "done" /\ t \notin e_finalized' /\ e_asked'[t] > e_crashes' => IsQuiet(t)'
      <4>0. UNCHANGED <<e_turn, e_status, e_agents, e_finalized, e_notices, e_job, e_todo, e_saved, e_crashes>> /\ e_phase = "extract" /\ e_phase' = "save"
        OBVIOUS
      <4>1. IsQuiet(t)' <=> IsQuiet(t)
        BY <4>0 DEF IsQuiet
      <4>2. CASE e_receipts[t] = "done" /\ e_asked'[t] = e_asked[t]
        BY <4>0, <4>1, <4>2 DEF ReadIsFinal
      <4>3. CASE ~(e_receipts[t] = "done" /\ e_asked'[t] = e_asked[t])
        <5> SUFFICES ASSUME t = e_turn, e_receipts'[t] = "done", t \notin e_finalized PROVE IsQuiet(t)
          BY <4>0, <4>1
        <5>1. t = e_job.turn
          BY <4>3, <3>0
        <5>2. e_job.why \in {"finalize", "recover"}
          BY <4>0, <5>1 DEF PhaseIsKnown, Jobs
        <5>3. CASE e_job.why = "recover"
          BY <4>0, <5>1, <5>3 DEF ReadIsFinal
        <5>4. CASE e_job.why = "finalize"
          BY <4>0, <5>1, <5>4 DEF ReadIsFinal, IsQuiet
        <5> QED BY <5>2, <5>3, <5>4
      <4> QED BY <4>2, <4>3
    <3>4. t = e_turn' /\ t \in e_todo' => IsQuiet(t)'
      BY <3>0, <1>a, <1>0, <1>1, <1>2, <1>3, <1>n DEF PhaseIsKnown, SnapshotsWait, FutureIsEmpty,
         ReadOften, GoesOn, ReadIsFinal, IsQuiet
    <3>5. t = e_turn' /\ e_job'.turn = t /\ e_job'.why = "recover" /\ e_phase' \in {"capture", "settle", "extract"} => IsQuiet(t)'
      BY <3>0, <1>a, <1>0, <1>1, <1>2, <1>3, <1>n DEF PhaseIsKnown, SnapshotsWait, FutureIsEmpty,
         ReadOften, GoesOn, ReadIsFinal, IsQuiet
    <3>6. e_phase' = "extract" /\ e_job'.turn = t /\ e_job'.why = "finalize" => t \in e_finalized' \/ e_agents'[t] = "none"
      BY <3>0, <1>a, <1>0, <1>1, <1>2, <1>3, <1>n DEF PhaseIsKnown, SnapshotsWait, FutureIsEmpty,
         ReadOften, GoesOn, ReadIsFinal, IsQuiet
    <3> QED BY <3>1, <3>2, <3>3, <3>4, <3>5, <3>6
  <2> QED BY <2>0 DEF ReadIsFinal
<1>11. DeferralIsKept'
  <2>1. \A t \in e_owed' : e_store'[t] # "absent" \/ e_pending'[t].waits
    BY <1>a, <1>0, <1>1, <1>2, <1>3, <1>n DEF PhaseIsKnown, SnapshotsWait, DeferralIsKept,
       CheckpointIsRecent
  <2>2. \A t \in Episodes!Turns : e_receipts'[t] = "deferred" /\ e_crashes' = 0 =>
         \/ e_pending'[t].waits /\ e_pending'[t].extract
         \/ e_phase' \in {"capture", "settle", "extract"} /\ e_job'.turn = t /\ e_job'.extract
    BY <1>a, <1>0, <1>1, <1>2, <1>3, <1>n DEF PhaseIsKnown, SnapshotsWait, ReadOften, GoesOn,
       DeferralIsKept
  <2>3. e_phase' \in {"capture", "settle"} /\ e_job'.why = "finalize" /\ ~e_job'.extract /\ e_crashes' = 0 =>
         e_receipts'[e_job'.turn] # "deferred"
    BY <1>a, <1>0, <1>1, <1>2, <1>3, <1>n DEF PhaseIsKnown, ReadOften, GoesOn, DeferralIsKept
  <2> QED BY <2>1, <2>2, <2>3 DEF DeferralIsKept
<1> QED BY <1>3, <1>5, <1>6, <1>7, <1>8, <1>9, <1>10, <1>11 DEF EpInv

LEMMA EpCheckpoint ==
  ASSUME EpInv, Episodes!Checkpoint
  PROVE  EpInv'
<1> USE DEF Episodes!Checkpoint, Episodes!memory
<1> USE DEF EpInv, Types, CoreTypes, Episodes!Waiting, Episodes!Turns, Episodes!Statuses, Episodes!Phases, Episodes!AgentStates
<1>n. /\ MaxEpisodeTurns \in Nat /\ MaxCrashes \in Nat /\ MaxFails \in Nat
      /\ e_turn \in Int /\ e_saved.turn \in Int /\ e_job.turn \in Int /\ e_crashes \in Nat /\ e_fails \in Nat
      /\ e_turn >= 0 /\ e_turn <= MaxEpisodeTurns /\ e_saved.turn >= 0 /\ e_saved.turn <= MaxEpisodeTurns
      /\ e_saved.owed \subseteq Episodes!Turns /\ e_job.extract \in BOOLEAN /\ e_job.kept \in BOOLEAN
  BY EpNumbers
<1>a. Episodes!NoJob \in Jobs /\ Episodes!NoJob.why = "none" /\ Episodes!NoJob.turn = 0 /\ ~Episodes!NoJob.extract /\ ~Episodes!NoJob.kept
  BY <1>n DEF Episodes!NoJob, Jobs
<1>1. CoreTypes'
  BY <1>a, <1>n
<1>2. e_saved' = Episodes!Image
  OBVIOUS
<1>3. Types'
  BY <1>1, <1>2, ImageIsTyped
<1>4. /\ e_saved'.turn = e_turn' /\ e_saved'.status = e_status' /\ e_saved'.agents = e_agents'
        /\ e_saved'.pending = e_pending' /\ e_saved'.receipts = e_receipts' /\ e_saved'.owed = e_owed'
  BY <1>2 DEF Episodes!Image, Episodes!memory
<1>5. PhaseIsKnown'
  BY <1>a, <1>1, <1>2, <1>3, <1>4, <1>n DEF PhaseIsKnown, FutureIsEmpty, CheckpointIsRecent
<1>6. SnapshotsWait'
  BY <1>a, <1>1, <1>2, <1>3, <1>4, <1>n DEF PhaseIsKnown, SnapshotsWait
<1>7. CheckpointIsRecent'
  <2>1. \A t \in e_saved'.owed : e_store'[t] # "absent" \/ e_saved'.pending[t].waits
    BY <1>a, <1>1, <1>2, <1>3, <1>4, <1>n DEF CheckpointIsRecent, SnapshotsWait, PhaseIsKnown,
       DeferralIsKept
  <2>2. \A t \in Episodes!Turns : e_saved'.receipts[t] = "done" /\ e_receipts'[t] # "done" => e_phase' = "save" /\ e_todo' = {}
    BY <1>a, <1>1, <1>2, <1>3, <1>4, <1>n DEF PhaseIsKnown, CheckpointIsRecent
  <2>3. e_saved'.status = "running" =>
         /\ e_saved'.turn = e_turn' /\ e_turn' \in Episodes!Turns
         /\ \/ e_status' = "running"
            \/ /\ e_job'.why = "finalize" /\ ~e_job'.extract
               /\ e_phase' \in {"capture", "settle", "save"}
    BY <1>a, <1>1, <1>2, <1>3, <1>4, <1>n DEF PhaseIsKnown, CheckpointIsRecent, FutureIsEmpty
  <2> QED BY <2>1, <2>2, <2>3 DEF CheckpointIsRecent
<1>8. FutureIsEmpty'
  <2>1. e_saved'.turn <= e_turn' /\ e_job'.turn <= e_turn'
    BY <1>a, <1>1, <1>2, <1>3, <1>4, <1>n DEF PhaseIsKnown, FutureIsEmpty
  <2>2. e_phase' \in {"idle", "open", "event"} \/ e_job'.why \in {"finalize", "settle"} => e_saved'.turn = e_turn'
    BY <1>a, <1>1, <1>2, <1>3, <1>4, <1>n DEF PhaseIsKnown, FutureIsEmpty
  <2>3. \A t \in e_todo' : t <= e_saved'.turn
    BY <1>a, <1>1, <1>2, <1>3, <1>4, <1>n DEF PhaseIsKnown, FutureIsEmpty
  <2>4. e_phase' \in {"capture", "settle", "extract"} => e_job'.turn <= e_saved'.turn
    BY <1>a, <1>1, <1>2, <1>3, <1>4, <1>n DEF PhaseIsKnown, FutureIsEmpty, SnapshotsWait
  <2>5. \A t \in Episodes!Turns : e_pending'[t].waits => t <= e_turn'
    BY <1>a, <1>1, <1>2, <1>3, <1>4, <1>n DEF PhaseIsKnown, FutureIsEmpty, SnapshotsWait
  <2>6. \A t \in Episodes!Turns : e_saved'.pending[t].waits => t <= e_saved'.turn
    BY <1>a, <1>1, <1>2, <1>3, <1>4, <1>n DEF PhaseIsKnown, FutureIsEmpty, SnapshotsWait
  <2>7. \A t \in Episodes!Turns : t > e_turn' =>
         e_receipts'[t] = "none" /\ e_agents'[t] = "none" /\ t \notin e_notices'
    BY <1>a, <1>1, <1>2, <1>3, <1>4, <1>n DEF PhaseIsKnown, FutureIsEmpty
  <2>8. \A t \in Episodes!Turns : t > e_saved'.turn =>
         e_saved'.receipts[t] = "none" /\ e_saved'.agents[t] = "none" /\ e_asked'[t] = 0
    BY <1>a, <1>1, <1>2, <1>3, <1>4, <1>n DEF PhaseIsKnown, FutureIsEmpty, CheckpointIsRecent
  <2> QED BY <2>1, <2>2, <2>3, <2>4, <2>5, <2>6, <2>7, <2>8 DEF FutureIsEmpty
<1>9. ReadOften'
  BY <1>a, <1>1, <1>2, <1>3, <1>4, <1>n DEF PhaseIsKnown, CheckpointIsRecent, FutureIsEmpty,
     ReadOften, GoesOn, ReadIsFinal, IsQuiet
<1>10. ReadIsFinal'
  BY <1>a, <1>1, <1>2, <1>3, <1>4, <1>n DEF PhaseIsKnown, SnapshotsWait, FutureIsEmpty,
     ReadOften, GoesOn, ReadIsFinal, IsQuiet
<1>11. DeferralIsKept'
  <2>1. \A t \in e_owed' : e_store'[t] # "absent" \/ e_pending'[t].waits
    BY <1>a, <1>1, <1>2, <1>3, <1>4, <1>n DEF PhaseIsKnown, SnapshotsWait, DeferralIsKept,
       CheckpointIsRecent
  <2>2. \A t \in Episodes!Turns : e_receipts'[t] = "deferred" /\ e_crashes' = 0 =>
         \/ e_pending'[t].waits /\ e_pending'[t].extract
         \/ e_phase' \in {"capture", "settle", "extract"} /\ e_job'.turn = t /\ e_job'.extract
    BY <1>a, <1>1, <1>2, <1>3, <1>4, <1>n DEF PhaseIsKnown, SnapshotsWait, ReadOften, GoesOn,
       DeferralIsKept
  <2>3. e_phase' \in {"capture", "settle"} /\ e_job'.why = "finalize" /\ ~e_job'.extract /\ e_crashes' = 0 =>
         e_receipts'[e_job'.turn] # "deferred"
    BY <1>a, <1>1, <1>2, <1>3, <1>4, <1>n DEF PhaseIsKnown, ReadOften, GoesOn, DeferralIsKept
  <2> QED BY <2>1, <2>2, <2>3 DEF DeferralIsKept
<1> QED BY <1>3, <1>5, <1>6, <1>7, <1>8, <1>9, <1>10, <1>11 DEF EpInv

LEMMA EpAnswered ==
  ASSUME EpInv, Episodes!EndTurn(TRUE)
  PROVE  EpInv'
<1> USE DEF Episodes!EndTurn
<1> USE DEF EpInv, Types, CoreTypes, Episodes!Waiting, Episodes!Turns, Episodes!Statuses, Episodes!Phases, Episodes!AgentStates
<1>n. /\ MaxEpisodeTurns \in Nat /\ MaxCrashes \in Nat /\ MaxFails \in Nat
      /\ e_turn \in Int /\ e_saved.turn \in Int /\ e_job.turn \in Int /\ e_crashes \in Nat /\ e_fails \in Nat
      /\ e_turn >= 0 /\ e_turn <= MaxEpisodeTurns /\ e_saved.turn >= 0 /\ e_saved.turn <= MaxEpisodeTurns
      /\ e_saved.owed \subseteq Episodes!Turns /\ e_job.extract \in BOOLEAN /\ e_job.kept \in BOOLEAN
  BY EpNumbers
<1>a. e_turn \in Episodes!Turns /\ e_turn \in 0..MaxEpisodeTurns /\ e_job' = [Episodes!NoJob EXCEPT !.turn = e_turn, !.why = "finalize", !.extract = TRUE]
  BY <1>n DEF PhaseIsKnown
<1>0. e_job' \in Jobs /\ e_job'.turn = e_turn /\ e_job'.why = "finalize" /\ e_job'.extract = TRUE /\ e_job'.kept = FALSE
  <2>1. e_job' = [turn |-> e_turn, why |-> "finalize", agent |-> "none", kept |-> FALSE, extract |-> TRUE]
    BY <1>a DEF Episodes!NoJob
  <2> DEFINE u == e_turn
  <2>2. u \in 0..MaxEpisodeTurns
    BY <1>a
  <2> HIDE DEF u
  <2>3. e_job' = [turn |-> u, why |-> "finalize", agent |-> "none", kept |-> FALSE, extract |-> TRUE]
    BY <2>1 DEF u
  <2>4. e_job' \in Jobs
    BY ONLY <2>2, <2>3 DEF Jobs, Episodes!AgentStates
  <2>5. e_job'.turn = u /\ e_job'.why = "finalize" /\ e_job'.extract = TRUE /\ e_job'.kept = FALSE
    BY ONLY <2>3
  <2> QED BY <2>4, <2>5 DEF u
<1>1. CoreTypes'
  BY <1>0, <1>n
<1>2. e_saved' = Episodes!Image'
  OBVIOUS
<1>3. Types'
  BY <1>1, <1>2, ImageIsTypedNext
<1>4. /\ e_saved'.turn = e_turn' /\ e_saved'.status = e_status' /\ e_saved'.agents = e_agents'
        /\ e_saved'.pending = e_pending' /\ e_saved'.receipts = e_receipts' /\ e_saved'.owed = e_owed'
  BY <1>2 DEF Episodes!Image
<1>5. PhaseIsKnown'
  BY <1>a, <1>0, <1>1, <1>2, <1>3, <1>4, <1>n DEF PhaseIsKnown, FutureIsEmpty, CheckpointIsRecent
<1>6. SnapshotsWait'
  BY <1>a, <1>0, <1>1, <1>2, <1>3, <1>4, <1>n DEF PhaseIsKnown, SnapshotsWait
<1>7. CheckpointIsRecent'
  <2>1. \A t \in e_saved'.owed : e_store'[t] # "absent" \/ e_saved'.pending[t].waits
    BY <1>a, <1>0, <1>1, <1>2, <1>3, <1>4, <1>n DEF CheckpointIsRecent, SnapshotsWait,
       PhaseIsKnown, DeferralIsKept
  <2>2. \A t \in Episodes!Turns : e_saved'.receipts[t] = "done" /\ e_receipts'[t] # "done" => e_phase' = "save" /\ e_todo' = {}
    BY <1>a, <1>0, <1>1, <1>2, <1>3, <1>4, <1>n DEF PhaseIsKnown, CheckpointIsRecent
  <2>3. e_saved'.status = "running" =>
         /\ e_saved'.turn = e_turn' /\ e_turn' \in Episodes!Turns
         /\ \/ e_status' = "running"
            \/ /\ e_job'.why = "finalize" /\ ~e_job'.extract
               /\ e_phase' \in {"capture", "settle", "save"}
    BY <1>a, <1>0, <1>1, <1>2, <1>3, <1>4, <1>n DEF PhaseIsKnown, CheckpointIsRecent, FutureIsEmpty
  <2> QED BY <2>1, <2>2, <2>3 DEF CheckpointIsRecent
<1>8. FutureIsEmpty'
  <2>1. e_saved'.turn <= e_turn' /\ e_job'.turn <= e_turn'
    BY <1>a, <1>0, <1>1, <1>2, <1>3, <1>4, <1>n DEF PhaseIsKnown, FutureIsEmpty
  <2>2. e_phase' \in {"idle", "open", "event"} \/ e_job'.why \in {"finalize", "settle"} => e_saved'.turn = e_turn'
    BY <1>a, <1>0, <1>1, <1>2, <1>3, <1>4, <1>n DEF PhaseIsKnown, FutureIsEmpty
  <2>3. \A t \in e_todo' : t <= e_saved'.turn
    BY <1>a, <1>0, <1>1, <1>2, <1>3, <1>4, <1>n DEF PhaseIsKnown, FutureIsEmpty
  <2>4. e_phase' \in {"capture", "settle", "extract"} => e_job'.turn <= e_saved'.turn
    BY <1>a, <1>0, <1>1, <1>2, <1>3, <1>4, <1>n DEF PhaseIsKnown, FutureIsEmpty, SnapshotsWait
  <2>5. \A t \in Episodes!Turns : e_pending'[t].waits => t <= e_turn'
    BY <1>a, <1>0, <1>1, <1>2, <1>3, <1>4, <1>n DEF PhaseIsKnown, FutureIsEmpty, SnapshotsWait
  <2>6. \A t \in Episodes!Turns : e_saved'.pending[t].waits => t <= e_saved'.turn
    BY <1>a, <1>0, <1>1, <1>2, <1>3, <1>4, <1>n DEF PhaseIsKnown, FutureIsEmpty, SnapshotsWait
  <2>7. \A t \in Episodes!Turns : t > e_turn' =>
         e_receipts'[t] = "none" /\ e_agents'[t] = "none" /\ t \notin e_notices'
    BY <1>a, <1>0, <1>1, <1>2, <1>3, <1>4, <1>n DEF PhaseIsKnown, FutureIsEmpty
  <2>8. \A t \in Episodes!Turns : t > e_saved'.turn =>
         e_saved'.receipts[t] = "none" /\ e_saved'.agents[t] = "none" /\ e_asked'[t] = 0
    BY <1>a, <1>0, <1>1, <1>2, <1>3, <1>4, <1>n DEF PhaseIsKnown, FutureIsEmpty, CheckpointIsRecent
  <2> QED BY <2>1, <2>2, <2>3, <2>4, <2>5, <2>6, <2>7, <2>8 DEF FutureIsEmpty
<1>9. ReadOften'
  <2>0. ASSUME NEW t \in Episodes!Turns
       PROVE  /\ e_asked'[t] <= 1 + e_crashes'
              /\ e_receipts'[t] = "done" => e_asked'[t] > 0
              /\ e_saved'.receipts[t] = "done" => e_asked'[t] > 0
              /\ e_receipts'[t] # "done" => e_asked'[t] <= e_crashes'
              /\ GoesOn(t)' /\ e_receipts'[t] = "done" => e_asked'[t] <= e_crashes'
              /\ GoesOn(t)' /\ e_receipts'[t] # "done" => e_asked'[t] < e_crashes' \/ e_asked'[t] = 0
              /\ GoesOn(t)' /\ e_crashes' = 0 => e_receipts'[t] = "none"
              /\ e_job'.why = "finalize" /\ e_job'.turn = t /\ e_phase' \in {"capture", "settle"} /\ e_receipts'[t] = "done" => e_asked'[t] <= e_crashes'
              /\ e_saved'.turn = t /\ e_saved'.status = "running" /\ e_saved'.receipts[t] # "done" => e_asked'[t] <= e_crashes'
    <3>1. e_asked'[t] <= 1 + e_crashes'
      BY <1>a, <1>0, <1>1, <1>2, <1>3, <1>4, <1>n DEF PhaseIsKnown, CheckpointIsRecent,
         FutureIsEmpty, ReadOften, GoesOn, ReadIsFinal, IsQuiet
    <3>2. e_receipts'[t] = "done" => e_asked'[t] > 0
      BY <1>a, <1>0, <1>1, <1>2, <1>3, <1>4, <1>n DEF PhaseIsKnown, CheckpointIsRecent,
         FutureIsEmpty, ReadOften, GoesOn, ReadIsFinal, IsQuiet
    <3>3. e_saved'.receipts[t] = "done" => e_asked'[t] > 0
      BY <1>a, <1>0, <1>1, <1>2, <1>3, <1>4, <1>n DEF PhaseIsKnown, CheckpointIsRecent,
         FutureIsEmpty, ReadOften, GoesOn, ReadIsFinal, IsQuiet
    <3>4. e_receipts'[t] # "done" => e_asked'[t] <= e_crashes'
      BY <1>a, <1>0, <1>1, <1>2, <1>3, <1>4, <1>n DEF PhaseIsKnown, CheckpointIsRecent,
         FutureIsEmpty, ReadOften, GoesOn, ReadIsFinal, IsQuiet
    <3>5. GoesOn(t)' /\ e_receipts'[t] = "done" => e_asked'[t] <= e_crashes'
      BY <1>a, <1>0, <1>1, <1>2, <1>3, <1>4, <1>n DEF PhaseIsKnown, CheckpointIsRecent,
         FutureIsEmpty, ReadOften, GoesOn, ReadIsFinal, IsQuiet
    <3>6. GoesOn(t)' /\ e_receipts'[t] # "done" => e_asked'[t] < e_crashes' \/ e_asked'[t] = 0
      BY <1>a, <1>0, <1>1, <1>2, <1>3, <1>4, <1>n DEF PhaseIsKnown, CheckpointIsRecent,
         FutureIsEmpty, ReadOften, GoesOn, ReadIsFinal, IsQuiet
    <3>7. GoesOn(t)' /\ e_crashes' = 0 => e_receipts'[t] = "none"
      BY <1>a, <1>0, <1>1, <1>2, <1>3, <1>4, <1>n DEF PhaseIsKnown, CheckpointIsRecent,
         FutureIsEmpty, ReadOften, GoesOn, ReadIsFinal, IsQuiet
    <3>8. e_job'.why = "finalize" /\ e_job'.turn = t /\ e_phase' \in {"capture", "settle"} /\ e_receipts'[t] = "done" => e_asked'[t] <= e_crashes'
      BY <1>a, <1>0, <1>1, <1>2, <1>3, <1>4, <1>n DEF PhaseIsKnown, CheckpointIsRecent,
         FutureIsEmpty, ReadOften, GoesOn, ReadIsFinal, IsQuiet
    <3>9. e_saved'.turn = t /\ e_saved'.status = "running" /\ e_saved'.receipts[t] # "done" => e_asked'[t] <= e_crashes'
      BY <1>a, <1>0, <1>1, <1>2, <1>3, <1>4, <1>n DEF PhaseIsKnown, CheckpointIsRecent,
         FutureIsEmpty, ReadOften, GoesOn, ReadIsFinal, IsQuiet
    <3> QED BY <3>1, <3>2, <3>3, <3>4, <3>5, <3>6, <3>7, <3>8, <3>9
  <2> QED BY <2>0 DEF ReadOften
<1>10. ReadIsFinal'
  <2>0. ASSUME NEW t \in Episodes!Turns
       PROVE  /\ t \in e_notices' => e_agents'[t] = "ended"
              /\ e_phase' = "event" /\ e_job'.turn = t => e_agents'[t] = "ended"
              /\ t = e_turn' /\ e_receipts'[t] = "done" /\ t \notin e_finalized' /\ e_asked'[t] > e_crashes' => IsQuiet(t)'
              /\ t = e_turn' /\ t \in e_todo' => IsQuiet(t)'
              /\ t = e_turn' /\ e_job'.turn = t /\ e_job'.why = "recover" /\ e_phase' \in {"capture", "settle", "extract"} => IsQuiet(t)'
              /\ e_phase' = "extract" /\ e_job'.turn = t /\ e_job'.why = "finalize" => t \in e_finalized' \/ e_agents'[t] = "none"
    <3>1. t \in e_notices' => e_agents'[t] = "ended"
      BY <1>a, <1>0, <1>1, <1>2, <1>3, <1>4, <1>n DEF PhaseIsKnown, SnapshotsWait, FutureIsEmpty,
         ReadOften, GoesOn, ReadIsFinal, IsQuiet
    <3>2. e_phase' = "event" /\ e_job'.turn = t => e_agents'[t] = "ended"
      BY <1>a, <1>0, <1>1, <1>2, <1>3, <1>4, <1>n DEF PhaseIsKnown, SnapshotsWait, FutureIsEmpty,
         ReadOften, GoesOn, ReadIsFinal, IsQuiet
    <3>3. t = e_turn' /\ e_receipts'[t] = "done" /\ t \notin e_finalized' /\ e_asked'[t] > e_crashes' => IsQuiet(t)'
      BY <1>a, <1>0, <1>1, <1>2, <1>3, <1>4, <1>n DEF PhaseIsKnown, SnapshotsWait, FutureIsEmpty,
         ReadOften, GoesOn, ReadIsFinal, IsQuiet
    <3>4. t = e_turn' /\ t \in e_todo' => IsQuiet(t)'
      BY <1>a, <1>0, <1>1, <1>2, <1>3, <1>4, <1>n DEF PhaseIsKnown, SnapshotsWait, FutureIsEmpty,
         ReadOften, GoesOn, ReadIsFinal, IsQuiet
    <3>5. t = e_turn' /\ e_job'.turn = t /\ e_job'.why = "recover" /\ e_phase' \in {"capture", "settle", "extract"} => IsQuiet(t)'
      BY <1>a, <1>0, <1>1, <1>2, <1>3, <1>4, <1>n DEF PhaseIsKnown, SnapshotsWait, FutureIsEmpty,
         ReadOften, GoesOn, ReadIsFinal, IsQuiet
    <3>6. e_phase' = "extract" /\ e_job'.turn = t /\ e_job'.why = "finalize" => t \in e_finalized' \/ e_agents'[t] = "none"
      BY <1>a, <1>0, <1>1, <1>2, <1>3, <1>4, <1>n DEF PhaseIsKnown, SnapshotsWait, FutureIsEmpty,
         ReadOften, GoesOn, ReadIsFinal, IsQuiet
    <3> QED BY <3>1, <3>2, <3>3, <3>4, <3>5, <3>6
  <2> QED BY <2>0 DEF ReadIsFinal
<1>11. DeferralIsKept'
  <2>1. \A t \in e_owed' : e_store'[t] # "absent" \/ e_pending'[t].waits
    BY <1>a, <1>0, <1>1, <1>2, <1>3, <1>4, <1>n DEF PhaseIsKnown, SnapshotsWait, DeferralIsKept,
       CheckpointIsRecent
  <2>2. \A t \in Episodes!Turns : e_receipts'[t] = "deferred" /\ e_crashes' = 0 =>
         \/ e_pending'[t].waits /\ e_pending'[t].extract
         \/ e_phase' \in {"capture", "settle", "extract"} /\ e_job'.turn = t /\ e_job'.extract
    BY <1>a, <1>0, <1>1, <1>2, <1>3, <1>4, <1>n DEF PhaseIsKnown, SnapshotsWait, ReadOften,
       GoesOn, DeferralIsKept
  <2>3. e_phase' \in {"capture", "settle"} /\ e_job'.why = "finalize" /\ ~e_job'.extract /\ e_crashes' = 0 =>
         e_receipts'[e_job'.turn] # "deferred"
    BY <1>a, <1>0, <1>1, <1>2, <1>3, <1>4, <1>n DEF PhaseIsKnown, ReadOften, GoesOn, DeferralIsKept
  <2> QED BY <2>1, <2>2, <2>3 DEF DeferralIsKept
<1> QED BY <1>3, <1>5, <1>6, <1>7, <1>8, <1>9, <1>10, <1>11 DEF EpInv

LEMMA EpUnanswered ==
  ASSUME EpInv, Episodes!EndTurn(FALSE)
  PROVE  EpInv'
<1> USE DEF Episodes!EndTurn
<1> USE DEF EpInv, Types, CoreTypes, Episodes!Waiting, Episodes!Turns, Episodes!Statuses, Episodes!Phases, Episodes!AgentStates
<1>n. /\ MaxEpisodeTurns \in Nat /\ MaxCrashes \in Nat /\ MaxFails \in Nat
      /\ e_turn \in Int /\ e_saved.turn \in Int /\ e_job.turn \in Int /\ e_crashes \in Nat /\ e_fails \in Nat
      /\ e_turn >= 0 /\ e_turn <= MaxEpisodeTurns /\ e_saved.turn >= 0 /\ e_saved.turn <= MaxEpisodeTurns
      /\ e_saved.owed \subseteq Episodes!Turns /\ e_job.extract \in BOOLEAN /\ e_job.kept \in BOOLEAN
  BY EpNumbers
<1>a. e_turn \in Episodes!Turns /\ e_turn \in 0..MaxEpisodeTurns /\ e_job' = [Episodes!NoJob EXCEPT !.turn = e_turn, !.why = "finalize", !.extract = FALSE]
  BY <1>n DEF PhaseIsKnown
<1>0. e_job' \in Jobs /\ e_job'.turn = e_turn /\ e_job'.why = "finalize" /\ e_job'.extract = FALSE /\ e_job'.kept = FALSE
  <2>1. e_job' = [turn |-> e_turn, why |-> "finalize", agent |-> "none", kept |-> FALSE, extract |-> FALSE]
    BY <1>a DEF Episodes!NoJob
  <2> DEFINE u == e_turn
  <2>2. u \in 0..MaxEpisodeTurns
    BY <1>a
  <2> HIDE DEF u
  <2>3. e_job' = [turn |-> u, why |-> "finalize", agent |-> "none", kept |-> FALSE, extract |-> FALSE]
    BY <2>1 DEF u
  <2>4. e_job' \in Jobs
    BY ONLY <2>2, <2>3 DEF Jobs, Episodes!AgentStates
  <2>5. e_job'.turn = u /\ e_job'.why = "finalize" /\ e_job'.extract = FALSE /\ e_job'.kept = FALSE
    BY ONLY <2>3
  <2> QED BY <2>4, <2>5 DEF u
<1>1. CoreTypes'
  BY <1>0, <1>n
<1>2. e_saved' = e_saved
  OBVIOUS
<1>3. Types'
  BY <1>1, <1>2
<1>5. PhaseIsKnown'
  BY <1>a, <1>0, <1>1, <1>2, <1>3, <1>n DEF PhaseIsKnown, FutureIsEmpty, CheckpointIsRecent
<1>6. SnapshotsWait'
  BY <1>a, <1>0, <1>1, <1>2, <1>3, <1>n DEF PhaseIsKnown, SnapshotsWait
<1>7. CheckpointIsRecent'
  <2>1. \A t \in e_saved'.owed : e_store'[t] # "absent" \/ e_saved'.pending[t].waits
    BY <1>a, <1>0, <1>1, <1>2, <1>3, <1>n DEF CheckpointIsRecent, SnapshotsWait, PhaseIsKnown,
       DeferralIsKept
  <2>2. \A t \in Episodes!Turns : e_saved'.receipts[t] = "done" /\ e_receipts'[t] # "done" => e_phase' = "save" /\ e_todo' = {}
    BY <1>a, <1>0, <1>1, <1>2, <1>3, <1>n DEF PhaseIsKnown, CheckpointIsRecent
  <2>3. e_saved'.status = "running" =>
         /\ e_saved'.turn = e_turn' /\ e_turn' \in Episodes!Turns
         /\ \/ e_status' = "running"
            \/ /\ e_job'.why = "finalize" /\ ~e_job'.extract
               /\ e_phase' \in {"capture", "settle", "save"}
    BY <1>a, <1>0, <1>1, <1>2, <1>3, <1>n DEF PhaseIsKnown, CheckpointIsRecent, FutureIsEmpty
  <2> QED BY <2>1, <2>2, <2>3 DEF CheckpointIsRecent
<1>8. FutureIsEmpty'
  <2>1. e_saved'.turn <= e_turn' /\ e_job'.turn <= e_turn'
    BY <1>a, <1>0, <1>1, <1>2, <1>3, <1>n DEF PhaseIsKnown, FutureIsEmpty
  <2>2. e_phase' \in {"idle", "open", "event"} \/ e_job'.why \in {"finalize", "settle"} => e_saved'.turn = e_turn'
    BY <1>a, <1>0, <1>1, <1>2, <1>3, <1>n DEF PhaseIsKnown, FutureIsEmpty
  <2>3. \A t \in e_todo' : t <= e_saved'.turn
    BY <1>a, <1>0, <1>1, <1>2, <1>3, <1>n DEF PhaseIsKnown, FutureIsEmpty
  <2>4. e_phase' \in {"capture", "settle", "extract"} => e_job'.turn <= e_saved'.turn
    BY <1>a, <1>0, <1>1, <1>2, <1>3, <1>n DEF PhaseIsKnown, FutureIsEmpty, SnapshotsWait
  <2>5. \A t \in Episodes!Turns : e_pending'[t].waits => t <= e_turn'
    BY <1>a, <1>0, <1>1, <1>2, <1>3, <1>n DEF PhaseIsKnown, FutureIsEmpty, SnapshotsWait
  <2>6. \A t \in Episodes!Turns : e_saved'.pending[t].waits => t <= e_saved'.turn
    BY <1>a, <1>0, <1>1, <1>2, <1>3, <1>n DEF PhaseIsKnown, FutureIsEmpty, SnapshotsWait
  <2>7. \A t \in Episodes!Turns : t > e_turn' =>
         e_receipts'[t] = "none" /\ e_agents'[t] = "none" /\ t \notin e_notices'
    BY <1>a, <1>0, <1>1, <1>2, <1>3, <1>n DEF PhaseIsKnown, FutureIsEmpty
  <2>8. \A t \in Episodes!Turns : t > e_saved'.turn =>
         e_saved'.receipts[t] = "none" /\ e_saved'.agents[t] = "none" /\ e_asked'[t] = 0
    BY <1>a, <1>0, <1>1, <1>2, <1>3, <1>n DEF PhaseIsKnown, FutureIsEmpty, CheckpointIsRecent
  <2> QED BY <2>1, <2>2, <2>3, <2>4, <2>5, <2>6, <2>7, <2>8 DEF FutureIsEmpty
<1>9. ReadOften'
  <2>0. ASSUME NEW t \in Episodes!Turns
       PROVE  /\ e_asked'[t] <= 1 + e_crashes'
              /\ e_receipts'[t] = "done" => e_asked'[t] > 0
              /\ e_saved'.receipts[t] = "done" => e_asked'[t] > 0
              /\ e_receipts'[t] # "done" => e_asked'[t] <= e_crashes'
              /\ GoesOn(t)' /\ e_receipts'[t] = "done" => e_asked'[t] <= e_crashes'
              /\ GoesOn(t)' /\ e_receipts'[t] # "done" => e_asked'[t] < e_crashes' \/ e_asked'[t] = 0
              /\ GoesOn(t)' /\ e_crashes' = 0 => e_receipts'[t] = "none"
              /\ e_job'.why = "finalize" /\ e_job'.turn = t /\ e_phase' \in {"capture", "settle"} /\ e_receipts'[t] = "done" => e_asked'[t] <= e_crashes'
              /\ e_saved'.turn = t /\ e_saved'.status = "running" /\ e_saved'.receipts[t] # "done" => e_asked'[t] <= e_crashes'
    <3>1. e_asked'[t] <= 1 + e_crashes'
      BY <1>a, <1>0, <1>1, <1>2, <1>3, <1>n DEF PhaseIsKnown, CheckpointIsRecent, FutureIsEmpty,
         ReadOften, GoesOn, ReadIsFinal, IsQuiet
    <3>2. e_receipts'[t] = "done" => e_asked'[t] > 0
      BY <1>a, <1>0, <1>1, <1>2, <1>3, <1>n DEF PhaseIsKnown, CheckpointIsRecent, FutureIsEmpty,
         ReadOften, GoesOn, ReadIsFinal, IsQuiet
    <3>3. e_saved'.receipts[t] = "done" => e_asked'[t] > 0
      BY <1>a, <1>0, <1>1, <1>2, <1>3, <1>n DEF PhaseIsKnown, CheckpointIsRecent, FutureIsEmpty,
         ReadOften, GoesOn, ReadIsFinal, IsQuiet
    <3>4. e_receipts'[t] # "done" => e_asked'[t] <= e_crashes'
      BY <1>a, <1>0, <1>1, <1>2, <1>3, <1>n DEF PhaseIsKnown, CheckpointIsRecent, FutureIsEmpty,
         ReadOften, GoesOn, ReadIsFinal, IsQuiet
    <3>5. GoesOn(t)' /\ e_receipts'[t] = "done" => e_asked'[t] <= e_crashes'
      BY <1>a, <1>0, <1>1, <1>2, <1>3, <1>n DEF PhaseIsKnown, CheckpointIsRecent, FutureIsEmpty,
         ReadOften, GoesOn, ReadIsFinal, IsQuiet
    <3>6. GoesOn(t)' /\ e_receipts'[t] # "done" => e_asked'[t] < e_crashes' \/ e_asked'[t] = 0
      BY <1>a, <1>0, <1>1, <1>2, <1>3, <1>n DEF PhaseIsKnown, CheckpointIsRecent, FutureIsEmpty,
         ReadOften, GoesOn, ReadIsFinal, IsQuiet
    <3>7. GoesOn(t)' /\ e_crashes' = 0 => e_receipts'[t] = "none"
      BY <1>a, <1>0, <1>1, <1>2, <1>3, <1>n DEF PhaseIsKnown, CheckpointIsRecent, FutureIsEmpty,
         ReadOften, GoesOn, ReadIsFinal, IsQuiet
    <3>8. e_job'.why = "finalize" /\ e_job'.turn = t /\ e_phase' \in {"capture", "settle"} /\ e_receipts'[t] = "done" => e_asked'[t] <= e_crashes'
      BY <1>a, <1>0, <1>1, <1>2, <1>3, <1>n DEF PhaseIsKnown, CheckpointIsRecent, FutureIsEmpty,
         ReadOften, GoesOn, ReadIsFinal, IsQuiet
    <3>9. e_saved'.turn = t /\ e_saved'.status = "running" /\ e_saved'.receipts[t] # "done" => e_asked'[t] <= e_crashes'
      BY <1>a, <1>0, <1>1, <1>2, <1>3, <1>n DEF PhaseIsKnown, CheckpointIsRecent, FutureIsEmpty,
         ReadOften, GoesOn, ReadIsFinal, IsQuiet
    <3> QED BY <3>1, <3>2, <3>3, <3>4, <3>5, <3>6, <3>7, <3>8, <3>9
  <2> QED BY <2>0 DEF ReadOften
<1>10. ReadIsFinal'
  <2>0. ASSUME NEW t \in Episodes!Turns
       PROVE  /\ t \in e_notices' => e_agents'[t] = "ended"
              /\ e_phase' = "event" /\ e_job'.turn = t => e_agents'[t] = "ended"
              /\ t = e_turn' /\ e_receipts'[t] = "done" /\ t \notin e_finalized' /\ e_asked'[t] > e_crashes' => IsQuiet(t)'
              /\ t = e_turn' /\ t \in e_todo' => IsQuiet(t)'
              /\ t = e_turn' /\ e_job'.turn = t /\ e_job'.why = "recover" /\ e_phase' \in {"capture", "settle", "extract"} => IsQuiet(t)'
              /\ e_phase' = "extract" /\ e_job'.turn = t /\ e_job'.why = "finalize" => t \in e_finalized' \/ e_agents'[t] = "none"
    <3>1. t \in e_notices' => e_agents'[t] = "ended"
      BY <1>a, <1>0, <1>1, <1>2, <1>3, <1>n DEF PhaseIsKnown, SnapshotsWait, FutureIsEmpty,
         ReadOften, GoesOn, ReadIsFinal, IsQuiet
    <3>2. e_phase' = "event" /\ e_job'.turn = t => e_agents'[t] = "ended"
      BY <1>a, <1>0, <1>1, <1>2, <1>3, <1>n DEF PhaseIsKnown, SnapshotsWait, FutureIsEmpty,
         ReadOften, GoesOn, ReadIsFinal, IsQuiet
    <3>3. t = e_turn' /\ e_receipts'[t] = "done" /\ t \notin e_finalized' /\ e_asked'[t] > e_crashes' => IsQuiet(t)'
      BY <1>a, <1>0, <1>1, <1>2, <1>3, <1>n DEF PhaseIsKnown, SnapshotsWait, FutureIsEmpty,
         ReadOften, GoesOn, ReadIsFinal, IsQuiet
    <3>4. t = e_turn' /\ t \in e_todo' => IsQuiet(t)'
      BY <1>a, <1>0, <1>1, <1>2, <1>3, <1>n DEF PhaseIsKnown, SnapshotsWait, FutureIsEmpty,
         ReadOften, GoesOn, ReadIsFinal, IsQuiet
    <3>5. t = e_turn' /\ e_job'.turn = t /\ e_job'.why = "recover" /\ e_phase' \in {"capture", "settle", "extract"} => IsQuiet(t)'
      BY <1>a, <1>0, <1>1, <1>2, <1>3, <1>n DEF PhaseIsKnown, SnapshotsWait, FutureIsEmpty,
         ReadOften, GoesOn, ReadIsFinal, IsQuiet
    <3>6. e_phase' = "extract" /\ e_job'.turn = t /\ e_job'.why = "finalize" => t \in e_finalized' \/ e_agents'[t] = "none"
      BY <1>a, <1>0, <1>1, <1>2, <1>3, <1>n DEF PhaseIsKnown, SnapshotsWait, FutureIsEmpty,
         ReadOften, GoesOn, ReadIsFinal, IsQuiet
    <3> QED BY <3>1, <3>2, <3>3, <3>4, <3>5, <3>6
  <2> QED BY <2>0 DEF ReadIsFinal
<1>11. DeferralIsKept'
  <2>1. \A t \in e_owed' : e_store'[t] # "absent" \/ e_pending'[t].waits
    BY <1>a, <1>0, <1>1, <1>2, <1>3, <1>n DEF PhaseIsKnown, SnapshotsWait, DeferralIsKept,
       CheckpointIsRecent
  <2>2. \A t \in Episodes!Turns : e_receipts'[t] = "deferred" /\ e_crashes' = 0 =>
         \/ e_pending'[t].waits /\ e_pending'[t].extract
         \/ e_phase' \in {"capture", "settle", "extract"} /\ e_job'.turn = t /\ e_job'.extract
    BY <1>a, <1>0, <1>1, <1>2, <1>3, <1>n DEF PhaseIsKnown, SnapshotsWait, ReadOften, GoesOn,
       DeferralIsKept
  <2>3. e_phase' \in {"capture", "settle"} /\ e_job'.why = "finalize" /\ ~e_job'.extract /\ e_crashes' = 0 =>
         e_receipts'[e_job'.turn] # "deferred"
    BY <1>a, <1>0, <1>1, <1>2, <1>3, <1>n DEF PhaseIsKnown, ReadOften, GoesOn, DeferralIsKept
  <2> QED BY <2>1, <2>2, <2>3 DEF DeferralIsKept
<1> QED BY <1>3, <1>5, <1>6, <1>7, <1>8, <1>9, <1>10, <1>11 DEF EpInv

LEMMA EpSettles ==
  ASSUME EpInv, NEW r \in BOOLEAN, Episodes!EndEvent(r), e_job.turn # e_turn, e_pending[e_job.turn].waits
  PROVE  EpInv'
<1> USE DEF Episodes!EndEvent
<1> USE DEF EpInv, Types, CoreTypes, Episodes!Waiting, Episodes!Turns, Episodes!Statuses, Episodes!Phases, Episodes!AgentStates
<1>n. /\ MaxEpisodeTurns \in Nat /\ MaxCrashes \in Nat /\ MaxFails \in Nat
      /\ e_turn \in Int /\ e_saved.turn \in Int /\ e_job.turn \in Int /\ e_crashes \in Nat /\ e_fails \in Nat
      /\ e_turn >= 0 /\ e_turn <= MaxEpisodeTurns /\ e_saved.turn >= 0 /\ e_saved.turn <= MaxEpisodeTurns
      /\ e_saved.owed \subseteq Episodes!Turns /\ e_job.extract \in BOOLEAN /\ e_job.kept \in BOOLEAN
  BY EpNumbers
<1>0. /\ e_job' \in Jobs /\ e_job'.turn = e_job.turn /\ e_job'.why = "settle" /\ e_job'.extract = e_pending[e_job.turn].extract
      /\ e_job'.kept = e_job.kept /\ e_job.turn \in Episodes!Turns
  <2> DEFINE x == e_pending[e_job.turn].extract
  <2>1. x \in BOOLEAN /\ e_job \in Jobs /\ e_job' = [e_job EXCEPT !.why = "settle", !.extract = x] /\ e_job.turn \in Episodes!Turns
    BY DEF PhaseIsKnown, Episodes!Snapshots
  <2> HIDE DEF x, Episodes!EndEvent, EpInv, Types, CoreTypes, Episodes!Turns, Episodes!AgentStates
  <2>2. /\ e_job' \in Jobs /\ e_job'.turn = e_job.turn /\ e_job'.why = "settle" /\ e_job'.extract = x
        /\ e_job'.kept = e_job.kept
    BY ONLY <2>1 DEF Jobs
  <2> QED BY <2>1, <2>2 DEF x
<1>1. CoreTypes'
  BY <1>0, <1>n
<1>2. e_saved' = Episodes!Image'
  OBVIOUS
<1>3. Types'
  BY <1>1, <1>2, ImageIsTypedNext
<1>4. /\ e_saved'.turn = e_turn' /\ e_saved'.status = e_status' /\ e_saved'.agents = e_agents'
        /\ e_saved'.pending = e_pending' /\ e_saved'.receipts = e_receipts' /\ e_saved'.owed = e_owed'
  BY <1>2 DEF Episodes!Image
<1>5. PhaseIsKnown'
  BY <1>0, <1>1, <1>2, <1>3, <1>4, <1>n DEF PhaseIsKnown, FutureIsEmpty, CheckpointIsRecent
<1>6. SnapshotsWait'
  BY <1>0, <1>1, <1>2, <1>3, <1>4, <1>n DEF PhaseIsKnown, SnapshotsWait
<1>7. CheckpointIsRecent'
  <2>1. \A t \in e_saved'.owed : e_store'[t] # "absent" \/ e_saved'.pending[t].waits
    BY <1>0, <1>1, <1>2, <1>3, <1>4, <1>n DEF CheckpointIsRecent, SnapshotsWait, PhaseIsKnown,
       DeferralIsKept
  <2>2. \A t \in Episodes!Turns : e_saved'.receipts[t] = "done" /\ e_receipts'[t] # "done" => e_phase' = "save" /\ e_todo' = {}
    BY <1>0, <1>1, <1>2, <1>3, <1>4, <1>n DEF PhaseIsKnown, CheckpointIsRecent
  <2>3. e_saved'.status = "running" =>
         /\ e_saved'.turn = e_turn' /\ e_turn' \in Episodes!Turns
         /\ \/ e_status' = "running"
            \/ /\ e_job'.why = "finalize" /\ ~e_job'.extract
               /\ e_phase' \in {"capture", "settle", "save"}
    BY <1>0, <1>1, <1>2, <1>3, <1>4, <1>n DEF PhaseIsKnown, CheckpointIsRecent, FutureIsEmpty
  <2> QED BY <2>1, <2>2, <2>3 DEF CheckpointIsRecent
<1>8. FutureIsEmpty'
  <2>1. e_saved'.turn <= e_turn' /\ e_job'.turn <= e_turn'
    BY <1>0, <1>1, <1>2, <1>3, <1>4, <1>n DEF PhaseIsKnown, FutureIsEmpty
  <2>2. e_phase' \in {"idle", "open", "event"} \/ e_job'.why \in {"finalize", "settle"} => e_saved'.turn = e_turn'
    BY <1>0, <1>1, <1>2, <1>3, <1>4, <1>n DEF PhaseIsKnown, FutureIsEmpty
  <2>3. \A t \in e_todo' : t <= e_saved'.turn
    BY <1>0, <1>1, <1>2, <1>3, <1>4, <1>n DEF PhaseIsKnown, FutureIsEmpty
  <2>4. e_phase' \in {"capture", "settle", "extract"} => e_job'.turn <= e_saved'.turn
    BY <1>0, <1>1, <1>2, <1>3, <1>4, <1>n DEF PhaseIsKnown, FutureIsEmpty, SnapshotsWait
  <2>5. \A t \in Episodes!Turns : e_pending'[t].waits => t <= e_turn'
    BY <1>0, <1>1, <1>2, <1>3, <1>4, <1>n DEF PhaseIsKnown, FutureIsEmpty, SnapshotsWait
  <2>6. \A t \in Episodes!Turns : e_saved'.pending[t].waits => t <= e_saved'.turn
    BY <1>0, <1>1, <1>2, <1>3, <1>4, <1>n DEF PhaseIsKnown, FutureIsEmpty, SnapshotsWait
  <2>7. \A t \in Episodes!Turns : t > e_turn' =>
         e_receipts'[t] = "none" /\ e_agents'[t] = "none" /\ t \notin e_notices'
    BY <1>0, <1>1, <1>2, <1>3, <1>4, <1>n DEF PhaseIsKnown, FutureIsEmpty
  <2>8. \A t \in Episodes!Turns : t > e_saved'.turn =>
         e_saved'.receipts[t] = "none" /\ e_saved'.agents[t] = "none" /\ e_asked'[t] = 0
    BY <1>0, <1>1, <1>2, <1>3, <1>4, <1>n DEF PhaseIsKnown, FutureIsEmpty, CheckpointIsRecent
  <2> QED BY <2>1, <2>2, <2>3, <2>4, <2>5, <2>6, <2>7, <2>8 DEF FutureIsEmpty
<1>9. ReadOften'
  <2>0. ASSUME NEW t \in Episodes!Turns
       PROVE  /\ e_asked'[t] <= 1 + e_crashes'
              /\ e_receipts'[t] = "done" => e_asked'[t] > 0
              /\ e_saved'.receipts[t] = "done" => e_asked'[t] > 0
              /\ e_receipts'[t] # "done" => e_asked'[t] <= e_crashes'
              /\ GoesOn(t)' /\ e_receipts'[t] = "done" => e_asked'[t] <= e_crashes'
              /\ GoesOn(t)' /\ e_receipts'[t] # "done" => e_asked'[t] < e_crashes' \/ e_asked'[t] = 0
              /\ GoesOn(t)' /\ e_crashes' = 0 => e_receipts'[t] = "none"
              /\ e_job'.why = "finalize" /\ e_job'.turn = t /\ e_phase' \in {"capture", "settle"} /\ e_receipts'[t] = "done" => e_asked'[t] <= e_crashes'
              /\ e_saved'.turn = t /\ e_saved'.status = "running" /\ e_saved'.receipts[t] # "done" => e_asked'[t] <= e_crashes'
    <3>1. e_asked'[t] <= 1 + e_crashes'
      BY <1>0, <1>1, <1>2, <1>3, <1>4, <1>n DEF PhaseIsKnown, CheckpointIsRecent, FutureIsEmpty,
         ReadOften, GoesOn, ReadIsFinal, IsQuiet
    <3>2. e_receipts'[t] = "done" => e_asked'[t] > 0
      BY <1>0, <1>1, <1>2, <1>3, <1>4, <1>n DEF PhaseIsKnown, CheckpointIsRecent, FutureIsEmpty,
         ReadOften, GoesOn, ReadIsFinal, IsQuiet
    <3>3. e_saved'.receipts[t] = "done" => e_asked'[t] > 0
      BY <1>0, <1>1, <1>2, <1>3, <1>4, <1>n DEF PhaseIsKnown, CheckpointIsRecent, FutureIsEmpty,
         ReadOften, GoesOn, ReadIsFinal, IsQuiet
    <3>4. e_receipts'[t] # "done" => e_asked'[t] <= e_crashes'
      BY <1>0, <1>1, <1>2, <1>3, <1>4, <1>n DEF PhaseIsKnown, CheckpointIsRecent, FutureIsEmpty,
         ReadOften, GoesOn, ReadIsFinal, IsQuiet
    <3>5. GoesOn(t)' /\ e_receipts'[t] = "done" => e_asked'[t] <= e_crashes'
      BY <1>0, <1>1, <1>2, <1>3, <1>4, <1>n DEF PhaseIsKnown, CheckpointIsRecent, FutureIsEmpty,
         ReadOften, GoesOn, ReadIsFinal, IsQuiet
    <3>6. GoesOn(t)' /\ e_receipts'[t] # "done" => e_asked'[t] < e_crashes' \/ e_asked'[t] = 0
      BY <1>0, <1>1, <1>2, <1>3, <1>4, <1>n DEF PhaseIsKnown, CheckpointIsRecent, FutureIsEmpty,
         ReadOften, GoesOn, ReadIsFinal, IsQuiet
    <3>7. GoesOn(t)' /\ e_crashes' = 0 => e_receipts'[t] = "none"
      BY <1>0, <1>1, <1>2, <1>3, <1>4, <1>n DEF PhaseIsKnown, CheckpointIsRecent, FutureIsEmpty,
         ReadOften, GoesOn, ReadIsFinal, IsQuiet
    <3>8. e_job'.why = "finalize" /\ e_job'.turn = t /\ e_phase' \in {"capture", "settle"} /\ e_receipts'[t] = "done" => e_asked'[t] <= e_crashes'
      BY <1>0, <1>1, <1>2, <1>3, <1>4, <1>n DEF PhaseIsKnown, CheckpointIsRecent, FutureIsEmpty,
         ReadOften, GoesOn, ReadIsFinal, IsQuiet
    <3>9. e_saved'.turn = t /\ e_saved'.status = "running" /\ e_saved'.receipts[t] # "done" => e_asked'[t] <= e_crashes'
      BY <1>0, <1>1, <1>2, <1>3, <1>4, <1>n DEF PhaseIsKnown, CheckpointIsRecent, FutureIsEmpty,
         ReadOften, GoesOn, ReadIsFinal, IsQuiet
    <3> QED BY <3>1, <3>2, <3>3, <3>4, <3>5, <3>6, <3>7, <3>8, <3>9
  <2> QED BY <2>0 DEF ReadOften
<1>10. ReadIsFinal'
  <2>0. ASSUME NEW t \in Episodes!Turns
       PROVE  /\ t \in e_notices' => e_agents'[t] = "ended"
              /\ e_phase' = "event" /\ e_job'.turn = t => e_agents'[t] = "ended"
              /\ t = e_turn' /\ e_receipts'[t] = "done" /\ t \notin e_finalized' /\ e_asked'[t] > e_crashes' => IsQuiet(t)'
              /\ t = e_turn' /\ t \in e_todo' => IsQuiet(t)'
              /\ t = e_turn' /\ e_job'.turn = t /\ e_job'.why = "recover" /\ e_phase' \in {"capture", "settle", "extract"} => IsQuiet(t)'
              /\ e_phase' = "extract" /\ e_job'.turn = t /\ e_job'.why = "finalize" => t \in e_finalized' \/ e_agents'[t] = "none"
    <3>1. t \in e_notices' => e_agents'[t] = "ended"
      BY <1>0, <1>1, <1>2, <1>3, <1>4, <1>n DEF PhaseIsKnown, SnapshotsWait, FutureIsEmpty,
         ReadOften, GoesOn, ReadIsFinal, IsQuiet
    <3>2. e_phase' = "event" /\ e_job'.turn = t => e_agents'[t] = "ended"
      BY <1>0, <1>1, <1>2, <1>3, <1>4, <1>n DEF PhaseIsKnown, SnapshotsWait, FutureIsEmpty,
         ReadOften, GoesOn, ReadIsFinal, IsQuiet
    <3>3. t = e_turn' /\ e_receipts'[t] = "done" /\ t \notin e_finalized' /\ e_asked'[t] > e_crashes' => IsQuiet(t)'
      BY <1>0, <1>1, <1>2, <1>3, <1>4, <1>n DEF PhaseIsKnown, SnapshotsWait, FutureIsEmpty,
         ReadOften, GoesOn, ReadIsFinal, IsQuiet
    <3>4. t = e_turn' /\ t \in e_todo' => IsQuiet(t)'
      BY <1>0, <1>1, <1>2, <1>3, <1>4, <1>n DEF PhaseIsKnown, SnapshotsWait, FutureIsEmpty,
         ReadOften, GoesOn, ReadIsFinal, IsQuiet
    <3>5. t = e_turn' /\ e_job'.turn = t /\ e_job'.why = "recover" /\ e_phase' \in {"capture", "settle", "extract"} => IsQuiet(t)'
      BY <1>0, <1>1, <1>2, <1>3, <1>4, <1>n DEF PhaseIsKnown, SnapshotsWait, FutureIsEmpty,
         ReadOften, GoesOn, ReadIsFinal, IsQuiet
    <3>6. e_phase' = "extract" /\ e_job'.turn = t /\ e_job'.why = "finalize" => t \in e_finalized' \/ e_agents'[t] = "none"
      BY <1>0, <1>1, <1>2, <1>3, <1>4, <1>n DEF PhaseIsKnown, SnapshotsWait, FutureIsEmpty,
         ReadOften, GoesOn, ReadIsFinal, IsQuiet
    <3> QED BY <3>1, <3>2, <3>3, <3>4, <3>5, <3>6
  <2> QED BY <2>0 DEF ReadIsFinal
<1>11. DeferralIsKept'
  <2>1. \A t \in e_owed' : e_store'[t] # "absent" \/ e_pending'[t].waits
    BY <1>0, <1>1, <1>2, <1>3, <1>4, <1>n DEF PhaseIsKnown, SnapshotsWait, DeferralIsKept,
       CheckpointIsRecent
  <2>2. \A t \in Episodes!Turns : e_receipts'[t] = "deferred" /\ e_crashes' = 0 =>
         \/ e_pending'[t].waits /\ e_pending'[t].extract
         \/ e_phase' \in {"capture", "settle", "extract"} /\ e_job'.turn = t /\ e_job'.extract
    BY <1>0, <1>1, <1>2, <1>3, <1>4, <1>n DEF PhaseIsKnown, SnapshotsWait, ReadOften, GoesOn,
       DeferralIsKept
  <2>3. e_phase' \in {"capture", "settle"} /\ e_job'.why = "finalize" /\ ~e_job'.extract /\ e_crashes' = 0 =>
         e_receipts'[e_job'.turn] # "deferred"
    BY <1>0, <1>1, <1>2, <1>3, <1>4, <1>n DEF PhaseIsKnown, ReadOften, GoesOn, DeferralIsKept
  <2> QED BY <2>1, <2>2, <2>3 DEF DeferralIsKept
<1> QED BY <1>3, <1>5, <1>6, <1>7, <1>8, <1>9, <1>10, <1>11 DEF EpInv

LEMMA EpFinalizesAgain ==
  ASSUME EpInv, NEW r \in BOOLEAN, Episodes!EndEvent(r), e_job.turn = e_turn, r /\ e_turn \notin e_finalized
  PROVE  EpInv'
<1> USE DEF Episodes!EndEvent
<1> USE DEF EpInv, Types, CoreTypes, Episodes!Waiting, Episodes!Turns, Episodes!Statuses, Episodes!Phases, Episodes!AgentStates
<1>n. /\ MaxEpisodeTurns \in Nat /\ MaxCrashes \in Nat /\ MaxFails \in Nat
      /\ e_turn \in Int /\ e_saved.turn \in Int /\ e_job.turn \in Int /\ e_crashes \in Nat /\ e_fails \in Nat
      /\ e_turn >= 0 /\ e_turn <= MaxEpisodeTurns /\ e_saved.turn >= 0 /\ e_saved.turn <= MaxEpisodeTurns
      /\ e_saved.owed \subseteq Episodes!Turns /\ e_job.extract \in BOOLEAN /\ e_job.kept \in BOOLEAN
  BY EpNumbers
<1>0. /\ e_job' \in Jobs /\ e_job'.turn = e_job.turn /\ e_job'.why = "finalize" /\ e_job'.extract = TRUE
      /\ e_job'.kept = e_job.kept /\ e_job.turn \in Episodes!Turns
  <2> DEFINE x == TRUE
  <2>1. x \in BOOLEAN /\ e_job \in Jobs /\ e_job' = [e_job EXCEPT !.why = "finalize", !.extract = x] /\ e_job.turn \in Episodes!Turns
    BY DEF PhaseIsKnown, Episodes!Snapshots
  <2> HIDE DEF x, Episodes!EndEvent, EpInv, Types, CoreTypes, Episodes!Turns, Episodes!AgentStates
  <2>2. /\ e_job' \in Jobs /\ e_job'.turn = e_job.turn /\ e_job'.why = "finalize" /\ e_job'.extract = x
        /\ e_job'.kept = e_job.kept
    BY ONLY <2>1 DEF Jobs
  <2> QED BY <2>1, <2>2 DEF x
<1>1. CoreTypes'
  BY <1>0, <1>n
<1>2. e_saved' = Episodes!Image'
  OBVIOUS
<1>3. Types'
  BY <1>1, <1>2, ImageIsTypedNext
<1>4. /\ e_saved'.turn = e_turn' /\ e_saved'.status = e_status' /\ e_saved'.agents = e_agents'
        /\ e_saved'.pending = e_pending' /\ e_saved'.receipts = e_receipts' /\ e_saved'.owed = e_owed'
  BY <1>2 DEF Episodes!Image
<1>5. PhaseIsKnown'
  BY <1>0, <1>1, <1>2, <1>3, <1>4, <1>n DEF PhaseIsKnown, FutureIsEmpty, CheckpointIsRecent
<1>6. SnapshotsWait'
  BY <1>0, <1>1, <1>2, <1>3, <1>4, <1>n DEF PhaseIsKnown, SnapshotsWait
<1>7. CheckpointIsRecent'
  <2>1. \A t \in e_saved'.owed : e_store'[t] # "absent" \/ e_saved'.pending[t].waits
    BY <1>0, <1>1, <1>2, <1>3, <1>4, <1>n DEF CheckpointIsRecent, SnapshotsWait, PhaseIsKnown,
       DeferralIsKept
  <2>2. \A t \in Episodes!Turns : e_saved'.receipts[t] = "done" /\ e_receipts'[t] # "done" => e_phase' = "save" /\ e_todo' = {}
    BY <1>0, <1>1, <1>2, <1>3, <1>4, <1>n DEF PhaseIsKnown, CheckpointIsRecent
  <2>3. e_saved'.status = "running" =>
         /\ e_saved'.turn = e_turn' /\ e_turn' \in Episodes!Turns
         /\ \/ e_status' = "running"
            \/ /\ e_job'.why = "finalize" /\ ~e_job'.extract
               /\ e_phase' \in {"capture", "settle", "save"}
    BY <1>0, <1>1, <1>2, <1>3, <1>4, <1>n DEF PhaseIsKnown, CheckpointIsRecent, FutureIsEmpty
  <2> QED BY <2>1, <2>2, <2>3 DEF CheckpointIsRecent
<1>8. FutureIsEmpty'
  <2>1. e_saved'.turn <= e_turn' /\ e_job'.turn <= e_turn'
    BY <1>0, <1>1, <1>2, <1>3, <1>4, <1>n DEF PhaseIsKnown, FutureIsEmpty
  <2>2. e_phase' \in {"idle", "open", "event"} \/ e_job'.why \in {"finalize", "settle"} => e_saved'.turn = e_turn'
    BY <1>0, <1>1, <1>2, <1>3, <1>4, <1>n DEF PhaseIsKnown, FutureIsEmpty
  <2>3. \A t \in e_todo' : t <= e_saved'.turn
    BY <1>0, <1>1, <1>2, <1>3, <1>4, <1>n DEF PhaseIsKnown, FutureIsEmpty
  <2>4. e_phase' \in {"capture", "settle", "extract"} => e_job'.turn <= e_saved'.turn
    BY <1>0, <1>1, <1>2, <1>3, <1>4, <1>n DEF PhaseIsKnown, FutureIsEmpty, SnapshotsWait
  <2>5. \A t \in Episodes!Turns : e_pending'[t].waits => t <= e_turn'
    BY <1>0, <1>1, <1>2, <1>3, <1>4, <1>n DEF PhaseIsKnown, FutureIsEmpty, SnapshotsWait
  <2>6. \A t \in Episodes!Turns : e_saved'.pending[t].waits => t <= e_saved'.turn
    BY <1>0, <1>1, <1>2, <1>3, <1>4, <1>n DEF PhaseIsKnown, FutureIsEmpty, SnapshotsWait
  <2>7. \A t \in Episodes!Turns : t > e_turn' =>
         e_receipts'[t] = "none" /\ e_agents'[t] = "none" /\ t \notin e_notices'
    BY <1>0, <1>1, <1>2, <1>3, <1>4, <1>n DEF PhaseIsKnown, FutureIsEmpty
  <2>8. \A t \in Episodes!Turns : t > e_saved'.turn =>
         e_saved'.receipts[t] = "none" /\ e_saved'.agents[t] = "none" /\ e_asked'[t] = 0
    BY <1>0, <1>1, <1>2, <1>3, <1>4, <1>n DEF PhaseIsKnown, FutureIsEmpty, CheckpointIsRecent
  <2> QED BY <2>1, <2>2, <2>3, <2>4, <2>5, <2>6, <2>7, <2>8 DEF FutureIsEmpty
<1>9. ReadOften'
  <2>0. ASSUME NEW t \in Episodes!Turns
       PROVE  /\ e_asked'[t] <= 1 + e_crashes'
              /\ e_receipts'[t] = "done" => e_asked'[t] > 0
              /\ e_saved'.receipts[t] = "done" => e_asked'[t] > 0
              /\ e_receipts'[t] # "done" => e_asked'[t] <= e_crashes'
              /\ GoesOn(t)' /\ e_receipts'[t] = "done" => e_asked'[t] <= e_crashes'
              /\ GoesOn(t)' /\ e_receipts'[t] # "done" => e_asked'[t] < e_crashes' \/ e_asked'[t] = 0
              /\ GoesOn(t)' /\ e_crashes' = 0 => e_receipts'[t] = "none"
              /\ e_job'.why = "finalize" /\ e_job'.turn = t /\ e_phase' \in {"capture", "settle"} /\ e_receipts'[t] = "done" => e_asked'[t] <= e_crashes'
              /\ e_saved'.turn = t /\ e_saved'.status = "running" /\ e_saved'.receipts[t] # "done" => e_asked'[t] <= e_crashes'
    <3>1. e_asked'[t] <= 1 + e_crashes'
      BY <1>0, <1>1, <1>2, <1>3, <1>4, <1>n DEF PhaseIsKnown, CheckpointIsRecent, FutureIsEmpty,
         ReadOften, GoesOn, ReadIsFinal, IsQuiet
    <3>2. e_receipts'[t] = "done" => e_asked'[t] > 0
      BY <1>0, <1>1, <1>2, <1>3, <1>4, <1>n DEF PhaseIsKnown, CheckpointIsRecent, FutureIsEmpty,
         ReadOften, GoesOn, ReadIsFinal, IsQuiet
    <3>3. e_saved'.receipts[t] = "done" => e_asked'[t] > 0
      BY <1>0, <1>1, <1>2, <1>3, <1>4, <1>n DEF PhaseIsKnown, CheckpointIsRecent, FutureIsEmpty,
         ReadOften, GoesOn, ReadIsFinal, IsQuiet
    <3>4. e_receipts'[t] # "done" => e_asked'[t] <= e_crashes'
      BY <1>0, <1>1, <1>2, <1>3, <1>4, <1>n DEF PhaseIsKnown, CheckpointIsRecent, FutureIsEmpty,
         ReadOften, GoesOn, ReadIsFinal, IsQuiet
    <3>5. GoesOn(t)' /\ e_receipts'[t] = "done" => e_asked'[t] <= e_crashes'
      BY <1>0, <1>1, <1>2, <1>3, <1>4, <1>n DEF PhaseIsKnown, CheckpointIsRecent, FutureIsEmpty,
         ReadOften, GoesOn, ReadIsFinal, IsQuiet
    <3>6. GoesOn(t)' /\ e_receipts'[t] # "done" => e_asked'[t] < e_crashes' \/ e_asked'[t] = 0
      BY <1>0, <1>1, <1>2, <1>3, <1>4, <1>n DEF PhaseIsKnown, CheckpointIsRecent, FutureIsEmpty,
         ReadOften, GoesOn, ReadIsFinal, IsQuiet
    <3>7. GoesOn(t)' /\ e_crashes' = 0 => e_receipts'[t] = "none"
      BY <1>0, <1>1, <1>2, <1>3, <1>4, <1>n DEF PhaseIsKnown, CheckpointIsRecent, FutureIsEmpty,
         ReadOften, GoesOn, ReadIsFinal, IsQuiet
    <3>8. e_job'.why = "finalize" /\ e_job'.turn = t /\ e_phase' \in {"capture", "settle"} /\ e_receipts'[t] = "done" => e_asked'[t] <= e_crashes'
      BY <1>0, <1>1, <1>2, <1>3, <1>4, <1>n DEF PhaseIsKnown, CheckpointIsRecent, FutureIsEmpty,
         ReadOften, GoesOn, ReadIsFinal, IsQuiet
    <3>9. e_saved'.turn = t /\ e_saved'.status = "running" /\ e_saved'.receipts[t] # "done" => e_asked'[t] <= e_crashes'
      BY <1>0, <1>1, <1>2, <1>3, <1>4, <1>n DEF PhaseIsKnown, CheckpointIsRecent, FutureIsEmpty,
         ReadOften, GoesOn, ReadIsFinal, IsQuiet
    <3> QED BY <3>1, <3>2, <3>3, <3>4, <3>5, <3>6, <3>7, <3>8, <3>9
  <2> QED BY <2>0 DEF ReadOften
<1>10. ReadIsFinal'
  <2>0. ASSUME NEW t \in Episodes!Turns
       PROVE  /\ t \in e_notices' => e_agents'[t] = "ended"
              /\ e_phase' = "event" /\ e_job'.turn = t => e_agents'[t] = "ended"
              /\ t = e_turn' /\ e_receipts'[t] = "done" /\ t \notin e_finalized' /\ e_asked'[t] > e_crashes' => IsQuiet(t)'
              /\ t = e_turn' /\ t \in e_todo' => IsQuiet(t)'
              /\ t = e_turn' /\ e_job'.turn = t /\ e_job'.why = "recover" /\ e_phase' \in {"capture", "settle", "extract"} => IsQuiet(t)'
              /\ e_phase' = "extract" /\ e_job'.turn = t /\ e_job'.why = "finalize" => t \in e_finalized' \/ e_agents'[t] = "none"
    <3>1. t \in e_notices' => e_agents'[t] = "ended"
      BY <1>0, <1>1, <1>2, <1>3, <1>4, <1>n DEF PhaseIsKnown, SnapshotsWait, FutureIsEmpty,
         ReadOften, GoesOn, ReadIsFinal, IsQuiet
    <3>2. e_phase' = "event" /\ e_job'.turn = t => e_agents'[t] = "ended"
      BY <1>0, <1>1, <1>2, <1>3, <1>4, <1>n DEF PhaseIsKnown, SnapshotsWait, FutureIsEmpty,
         ReadOften, GoesOn, ReadIsFinal, IsQuiet
    <3>3. t = e_turn' /\ e_receipts'[t] = "done" /\ t \notin e_finalized' /\ e_asked'[t] > e_crashes' => IsQuiet(t)'
      BY <1>0, <1>1, <1>2, <1>3, <1>4, <1>n DEF PhaseIsKnown, SnapshotsWait, FutureIsEmpty,
         ReadOften, GoesOn, ReadIsFinal, IsQuiet
    <3>4. t = e_turn' /\ t \in e_todo' => IsQuiet(t)'
      BY <1>0, <1>1, <1>2, <1>3, <1>4, <1>n DEF PhaseIsKnown, SnapshotsWait, FutureIsEmpty,
         ReadOften, GoesOn, ReadIsFinal, IsQuiet
    <3>5. t = e_turn' /\ e_job'.turn = t /\ e_job'.why = "recover" /\ e_phase' \in {"capture", "settle", "extract"} => IsQuiet(t)'
      BY <1>0, <1>1, <1>2, <1>3, <1>4, <1>n DEF PhaseIsKnown, SnapshotsWait, FutureIsEmpty,
         ReadOften, GoesOn, ReadIsFinal, IsQuiet
    <3>6. e_phase' = "extract" /\ e_job'.turn = t /\ e_job'.why = "finalize" => t \in e_finalized' \/ e_agents'[t] = "none"
      BY <1>0, <1>1, <1>2, <1>3, <1>4, <1>n DEF PhaseIsKnown, SnapshotsWait, FutureIsEmpty,
         ReadOften, GoesOn, ReadIsFinal, IsQuiet
    <3> QED BY <3>1, <3>2, <3>3, <3>4, <3>5, <3>6
  <2> QED BY <2>0 DEF ReadIsFinal
<1>11. DeferralIsKept'
  <2>1. \A t \in e_owed' : e_store'[t] # "absent" \/ e_pending'[t].waits
    BY <1>0, <1>1, <1>2, <1>3, <1>4, <1>n DEF PhaseIsKnown, SnapshotsWait, DeferralIsKept,
       CheckpointIsRecent
  <2>2. \A t \in Episodes!Turns : e_receipts'[t] = "deferred" /\ e_crashes' = 0 =>
         \/ e_pending'[t].waits /\ e_pending'[t].extract
         \/ e_phase' \in {"capture", "settle", "extract"} /\ e_job'.turn = t /\ e_job'.extract
    BY <1>0, <1>1, <1>2, <1>3, <1>4, <1>n DEF PhaseIsKnown, SnapshotsWait, ReadOften, GoesOn,
       DeferralIsKept
  <2>3. e_phase' \in {"capture", "settle"} /\ e_job'.why = "finalize" /\ ~e_job'.extract /\ e_crashes' = 0 =>
         e_receipts'[e_job'.turn] # "deferred"
    BY <1>0, <1>1, <1>2, <1>3, <1>4, <1>n DEF PhaseIsKnown, ReadOften, GoesOn, DeferralIsKept
  <2> QED BY <2>1, <2>2, <2>3 DEF DeferralIsKept
<1> QED BY <1>3, <1>5, <1>6, <1>7, <1>8, <1>9, <1>10, <1>11 DEF EpInv

LEMMA EpRests ==
  ASSUME EpInv, NEW r \in BOOLEAN, Episodes!EndEvent(r), IF e_job.turn # e_turn THEN ~e_pending[e_job.turn].waits ELSE ~(r /\ e_turn \notin e_finalized)
  PROVE  EpInv'
<1> USE DEF Episodes!EndEvent
<1> USE DEF EpInv, Types, CoreTypes, Episodes!Waiting, Episodes!Turns, Episodes!Statuses, Episodes!Phases, Episodes!AgentStates
<1>n. /\ MaxEpisodeTurns \in Nat /\ MaxCrashes \in Nat /\ MaxFails \in Nat
      /\ e_turn \in Int /\ e_saved.turn \in Int /\ e_job.turn \in Int /\ e_crashes \in Nat /\ e_fails \in Nat
      /\ e_turn >= 0 /\ e_turn <= MaxEpisodeTurns /\ e_saved.turn >= 0 /\ e_saved.turn <= MaxEpisodeTurns
      /\ e_saved.owed \subseteq Episodes!Turns /\ e_job.extract \in BOOLEAN /\ e_job.kept \in BOOLEAN
  BY EpNumbers
<1>a. Episodes!NoJob \in Jobs /\ Episodes!NoJob.why = "none" /\ Episodes!NoJob.turn = 0 /\ ~Episodes!NoJob.extract /\ ~Episodes!NoJob.kept
  BY <1>n DEF Episodes!NoJob, Jobs
<1>1. CoreTypes'
  BY <1>a, <1>n
<1>2. e_saved' = Episodes!Image'
  OBVIOUS
<1>3. Types'
  BY <1>1, <1>2, ImageIsTypedNext
<1>4. /\ e_saved'.turn = e_turn' /\ e_saved'.status = e_status' /\ e_saved'.agents = e_agents'
        /\ e_saved'.pending = e_pending' /\ e_saved'.receipts = e_receipts' /\ e_saved'.owed = e_owed'
  BY <1>2 DEF Episodes!Image
<1>5. PhaseIsKnown'
  BY <1>a, <1>1, <1>2, <1>3, <1>4, <1>n DEF PhaseIsKnown, FutureIsEmpty, CheckpointIsRecent
<1>6. SnapshotsWait'
  BY <1>a, <1>1, <1>2, <1>3, <1>4, <1>n DEF PhaseIsKnown, SnapshotsWait
<1>7. CheckpointIsRecent'
  <2>1. \A t \in e_saved'.owed : e_store'[t] # "absent" \/ e_saved'.pending[t].waits
    BY <1>a, <1>1, <1>2, <1>3, <1>4, <1>n DEF CheckpointIsRecent, SnapshotsWait, PhaseIsKnown,
       DeferralIsKept
  <2>2. \A t \in Episodes!Turns : e_saved'.receipts[t] = "done" /\ e_receipts'[t] # "done" => e_phase' = "save" /\ e_todo' = {}
    BY <1>a, <1>1, <1>2, <1>3, <1>4, <1>n DEF PhaseIsKnown, CheckpointIsRecent
  <2>3. e_saved'.status = "running" =>
         /\ e_saved'.turn = e_turn' /\ e_turn' \in Episodes!Turns
         /\ \/ e_status' = "running"
            \/ /\ e_job'.why = "finalize" /\ ~e_job'.extract
               /\ e_phase' \in {"capture", "settle", "save"}
    BY <1>a, <1>1, <1>2, <1>3, <1>4, <1>n DEF PhaseIsKnown, CheckpointIsRecent, FutureIsEmpty
  <2> QED BY <2>1, <2>2, <2>3 DEF CheckpointIsRecent
<1>8. FutureIsEmpty'
  <2>1. e_saved'.turn <= e_turn' /\ e_job'.turn <= e_turn'
    BY <1>a, <1>1, <1>2, <1>3, <1>4, <1>n DEF PhaseIsKnown, FutureIsEmpty
  <2>2. e_phase' \in {"idle", "open", "event"} \/ e_job'.why \in {"finalize", "settle"} => e_saved'.turn = e_turn'
    BY <1>a, <1>1, <1>2, <1>3, <1>4, <1>n DEF PhaseIsKnown, FutureIsEmpty
  <2>3. \A t \in e_todo' : t <= e_saved'.turn
    BY <1>a, <1>1, <1>2, <1>3, <1>4, <1>n DEF PhaseIsKnown, FutureIsEmpty
  <2>4. e_phase' \in {"capture", "settle", "extract"} => e_job'.turn <= e_saved'.turn
    BY <1>a, <1>1, <1>2, <1>3, <1>4, <1>n DEF PhaseIsKnown, FutureIsEmpty, SnapshotsWait
  <2>5. \A t \in Episodes!Turns : e_pending'[t].waits => t <= e_turn'
    BY <1>a, <1>1, <1>2, <1>3, <1>4, <1>n DEF PhaseIsKnown, FutureIsEmpty, SnapshotsWait
  <2>6. \A t \in Episodes!Turns : e_saved'.pending[t].waits => t <= e_saved'.turn
    BY <1>a, <1>1, <1>2, <1>3, <1>4, <1>n DEF PhaseIsKnown, FutureIsEmpty, SnapshotsWait
  <2>7. \A t \in Episodes!Turns : t > e_turn' =>
         e_receipts'[t] = "none" /\ e_agents'[t] = "none" /\ t \notin e_notices'
    BY <1>a, <1>1, <1>2, <1>3, <1>4, <1>n DEF PhaseIsKnown, FutureIsEmpty
  <2>8. \A t \in Episodes!Turns : t > e_saved'.turn =>
         e_saved'.receipts[t] = "none" /\ e_saved'.agents[t] = "none" /\ e_asked'[t] = 0
    BY <1>a, <1>1, <1>2, <1>3, <1>4, <1>n DEF PhaseIsKnown, FutureIsEmpty, CheckpointIsRecent
  <2> QED BY <2>1, <2>2, <2>3, <2>4, <2>5, <2>6, <2>7, <2>8 DEF FutureIsEmpty
<1>9. ReadOften'
  <2>0. ASSUME NEW t \in Episodes!Turns
       PROVE  /\ e_asked'[t] <= 1 + e_crashes'
              /\ e_receipts'[t] = "done" => e_asked'[t] > 0
              /\ e_saved'.receipts[t] = "done" => e_asked'[t] > 0
              /\ e_receipts'[t] # "done" => e_asked'[t] <= e_crashes'
              /\ GoesOn(t)' /\ e_receipts'[t] = "done" => e_asked'[t] <= e_crashes'
              /\ GoesOn(t)' /\ e_receipts'[t] # "done" => e_asked'[t] < e_crashes' \/ e_asked'[t] = 0
              /\ GoesOn(t)' /\ e_crashes' = 0 => e_receipts'[t] = "none"
              /\ e_job'.why = "finalize" /\ e_job'.turn = t /\ e_phase' \in {"capture", "settle"} /\ e_receipts'[t] = "done" => e_asked'[t] <= e_crashes'
              /\ e_saved'.turn = t /\ e_saved'.status = "running" /\ e_saved'.receipts[t] # "done" => e_asked'[t] <= e_crashes'
    <3>1. e_asked'[t] <= 1 + e_crashes'
      BY <1>a, <1>1, <1>2, <1>3, <1>4, <1>n DEF PhaseIsKnown, CheckpointIsRecent, FutureIsEmpty,
         ReadOften, GoesOn, ReadIsFinal, IsQuiet
    <3>2. e_receipts'[t] = "done" => e_asked'[t] > 0
      BY <1>a, <1>1, <1>2, <1>3, <1>4, <1>n DEF PhaseIsKnown, CheckpointIsRecent, FutureIsEmpty,
         ReadOften, GoesOn, ReadIsFinal, IsQuiet
    <3>3. e_saved'.receipts[t] = "done" => e_asked'[t] > 0
      BY <1>a, <1>1, <1>2, <1>3, <1>4, <1>n DEF PhaseIsKnown, CheckpointIsRecent, FutureIsEmpty,
         ReadOften, GoesOn, ReadIsFinal, IsQuiet
    <3>4. e_receipts'[t] # "done" => e_asked'[t] <= e_crashes'
      BY <1>a, <1>1, <1>2, <1>3, <1>4, <1>n DEF PhaseIsKnown, CheckpointIsRecent, FutureIsEmpty,
         ReadOften, GoesOn, ReadIsFinal, IsQuiet
    <3>5. GoesOn(t)' /\ e_receipts'[t] = "done" => e_asked'[t] <= e_crashes'
      BY <1>a, <1>1, <1>2, <1>3, <1>4, <1>n DEF PhaseIsKnown, CheckpointIsRecent, FutureIsEmpty,
         ReadOften, GoesOn, ReadIsFinal, IsQuiet
    <3>6. GoesOn(t)' /\ e_receipts'[t] # "done" => e_asked'[t] < e_crashes' \/ e_asked'[t] = 0
      BY <1>a, <1>1, <1>2, <1>3, <1>4, <1>n DEF PhaseIsKnown, CheckpointIsRecent, FutureIsEmpty,
         ReadOften, GoesOn, ReadIsFinal, IsQuiet
    <3>7. GoesOn(t)' /\ e_crashes' = 0 => e_receipts'[t] = "none"
      BY <1>a, <1>1, <1>2, <1>3, <1>4, <1>n DEF PhaseIsKnown, CheckpointIsRecent, FutureIsEmpty,
         ReadOften, GoesOn, ReadIsFinal, IsQuiet
    <3>8. e_job'.why = "finalize" /\ e_job'.turn = t /\ e_phase' \in {"capture", "settle"} /\ e_receipts'[t] = "done" => e_asked'[t] <= e_crashes'
      BY <1>a, <1>1, <1>2, <1>3, <1>4, <1>n DEF PhaseIsKnown, CheckpointIsRecent, FutureIsEmpty,
         ReadOften, GoesOn, ReadIsFinal, IsQuiet
    <3>9. e_saved'.turn = t /\ e_saved'.status = "running" /\ e_saved'.receipts[t] # "done" => e_asked'[t] <= e_crashes'
      BY <1>a, <1>1, <1>2, <1>3, <1>4, <1>n DEF PhaseIsKnown, CheckpointIsRecent, FutureIsEmpty,
         ReadOften, GoesOn, ReadIsFinal, IsQuiet
    <3> QED BY <3>1, <3>2, <3>3, <3>4, <3>5, <3>6, <3>7, <3>8, <3>9
  <2> QED BY <2>0 DEF ReadOften
<1>10. ReadIsFinal'
  <2>0. ASSUME NEW t \in Episodes!Turns
       PROVE  /\ t \in e_notices' => e_agents'[t] = "ended"
              /\ e_phase' = "event" /\ e_job'.turn = t => e_agents'[t] = "ended"
              /\ t = e_turn' /\ e_receipts'[t] = "done" /\ t \notin e_finalized' /\ e_asked'[t] > e_crashes' => IsQuiet(t)'
              /\ t = e_turn' /\ t \in e_todo' => IsQuiet(t)'
              /\ t = e_turn' /\ e_job'.turn = t /\ e_job'.why = "recover" /\ e_phase' \in {"capture", "settle", "extract"} => IsQuiet(t)'
              /\ e_phase' = "extract" /\ e_job'.turn = t /\ e_job'.why = "finalize" => t \in e_finalized' \/ e_agents'[t] = "none"
    <3>1. t \in e_notices' => e_agents'[t] = "ended"
      BY <1>a, <1>1, <1>2, <1>3, <1>4, <1>n DEF PhaseIsKnown, SnapshotsWait, FutureIsEmpty,
         ReadOften, GoesOn, ReadIsFinal, IsQuiet
    <3>2. e_phase' = "event" /\ e_job'.turn = t => e_agents'[t] = "ended"
      BY <1>a, <1>1, <1>2, <1>3, <1>4, <1>n DEF PhaseIsKnown, SnapshotsWait, FutureIsEmpty,
         ReadOften, GoesOn, ReadIsFinal, IsQuiet
    <3>3. t = e_turn' /\ e_receipts'[t] = "done" /\ t \notin e_finalized' /\ e_asked'[t] > e_crashes' => IsQuiet(t)'
      BY <1>a, <1>1, <1>2, <1>3, <1>4, <1>n DEF PhaseIsKnown, SnapshotsWait, FutureIsEmpty,
         ReadOften, GoesOn, ReadIsFinal, IsQuiet
    <3>4. t = e_turn' /\ t \in e_todo' => IsQuiet(t)'
      BY <1>a, <1>1, <1>2, <1>3, <1>4, <1>n DEF PhaseIsKnown, SnapshotsWait, FutureIsEmpty,
         ReadOften, GoesOn, ReadIsFinal, IsQuiet
    <3>5. t = e_turn' /\ e_job'.turn = t /\ e_job'.why = "recover" /\ e_phase' \in {"capture", "settle", "extract"} => IsQuiet(t)'
      BY <1>a, <1>1, <1>2, <1>3, <1>4, <1>n DEF PhaseIsKnown, SnapshotsWait, FutureIsEmpty,
         ReadOften, GoesOn, ReadIsFinal, IsQuiet
    <3>6. e_phase' = "extract" /\ e_job'.turn = t /\ e_job'.why = "finalize" => t \in e_finalized' \/ e_agents'[t] = "none"
      BY <1>a, <1>1, <1>2, <1>3, <1>4, <1>n DEF PhaseIsKnown, SnapshotsWait, FutureIsEmpty,
         ReadOften, GoesOn, ReadIsFinal, IsQuiet
    <3> QED BY <3>1, <3>2, <3>3, <3>4, <3>5, <3>6
  <2> QED BY <2>0 DEF ReadIsFinal
<1>11. DeferralIsKept'
  <2>1. \A t \in e_owed' : e_store'[t] # "absent" \/ e_pending'[t].waits
    BY <1>a, <1>1, <1>2, <1>3, <1>4, <1>n DEF PhaseIsKnown, SnapshotsWait, DeferralIsKept,
       CheckpointIsRecent
  <2>2. \A t \in Episodes!Turns : e_receipts'[t] = "deferred" /\ e_crashes' = 0 =>
         \/ e_pending'[t].waits /\ e_pending'[t].extract
         \/ e_phase' \in {"capture", "settle", "extract"} /\ e_job'.turn = t /\ e_job'.extract
    BY <1>a, <1>1, <1>2, <1>3, <1>4, <1>n DEF PhaseIsKnown, SnapshotsWait, ReadOften, GoesOn,
       DeferralIsKept
  <2>3. e_phase' \in {"capture", "settle"} /\ e_job'.why = "finalize" /\ ~e_job'.extract /\ e_crashes' = 0 =>
         e_receipts'[e_job'.turn] # "deferred"
    BY <1>a, <1>1, <1>2, <1>3, <1>4, <1>n DEF PhaseIsKnown, ReadOften, GoesOn, DeferralIsKept
  <2> QED BY <2>1, <2>2, <2>3 DEF DeferralIsKept
<1> QED BY <1>3, <1>5, <1>6, <1>7, <1>8, <1>9, <1>10, <1>11 DEF EpInv

LEMMA EpCrash ==
  ASSUME EpInv, Episodes!Crash
  PROVE  EpInv'
<1> USE DEF Episodes!Crash
<1> USE DEF EpInv, Types, CoreTypes, Episodes!Waiting, Episodes!Turns, Episodes!Statuses, Episodes!Phases, Episodes!AgentStates
<1>n. /\ MaxEpisodeTurns \in Nat /\ MaxCrashes \in Nat /\ MaxFails \in Nat
      /\ e_turn \in Int /\ e_saved.turn \in Int /\ e_job.turn \in Int /\ e_crashes \in Nat /\ e_fails \in Nat
      /\ e_turn >= 0 /\ e_turn <= MaxEpisodeTurns /\ e_saved.turn >= 0 /\ e_saved.turn <= MaxEpisodeTurns
      /\ e_saved.owed \subseteq Episodes!Turns /\ e_job.extract \in BOOLEAN /\ e_job.kept \in BOOLEAN
  BY EpNumbers
<1>a. Episodes!NoJob \in Jobs /\ Episodes!NoJob.why = "none" /\ Episodes!NoJob.turn = 0 /\ ~Episodes!NoJob.extract /\ ~Episodes!NoJob.kept
  BY <1>n DEF Episodes!NoJob, Jobs
<1>b. /\ e_saved.turn \in 0..MaxEpisodeTurns /\ e_saved.status \in Episodes!Statuses /\ e_saved.agents \in [Episodes!Turns -> Episodes!AgentStates]
      /\ e_saved.pending \in [Episodes!Turns -> Episodes!Snapshots] /\ e_saved.receipts \in [Episodes!Turns -> {"none", "deferred", "done"}]
  BY DEF Images
<1>0. \A t \in Episodes!Turns : /\ e_agents'[t] \in Episodes!AgentStates /\ e_agents'[t] # "running"
                                /\ e_agents'[t] = "none" <=> e_saved.agents[t] = "none"
  BY <1>b
<1>1. CoreTypes'
  BY <1>a, <1>b, <1>n
<1>2. e_saved' = e_saved
  OBVIOUS
<1>3. Types'
  BY <1>1, <1>2
<1>5. PhaseIsKnown'
  BY <1>a, <1>0, <1>1, <1>2, <1>3, <1>n DEF PhaseIsKnown, FutureIsEmpty, CheckpointIsRecent
<1>6. SnapshotsWait'
  BY <1>a, <1>0, <1>1, <1>2, <1>3, <1>n DEF PhaseIsKnown, SnapshotsWait
<1>7. CheckpointIsRecent'
  <2>1. \A t \in e_saved'.owed : e_store'[t] # "absent" \/ e_saved'.pending[t].waits
    BY <1>a, <1>0, <1>1, <1>2, <1>3, <1>n DEF CheckpointIsRecent, SnapshotsWait, PhaseIsKnown,
       DeferralIsKept
  <2>2. \A t \in Episodes!Turns : e_saved'.receipts[t] = "done" /\ e_receipts'[t] # "done" => e_phase' = "save" /\ e_todo' = {}
    BY <1>a, <1>0, <1>1, <1>2, <1>3, <1>n DEF PhaseIsKnown, CheckpointIsRecent
  <2>3. e_saved'.status = "running" =>
         /\ e_saved'.turn = e_turn' /\ e_turn' \in Episodes!Turns
         /\ \/ e_status' = "running"
            \/ /\ e_job'.why = "finalize" /\ ~e_job'.extract
               /\ e_phase' \in {"capture", "settle", "save"}
    BY <1>a, <1>0, <1>1, <1>2, <1>3, <1>n DEF PhaseIsKnown, CheckpointIsRecent, FutureIsEmpty
  <2> QED BY <2>1, <2>2, <2>3 DEF CheckpointIsRecent
<1>8. FutureIsEmpty'
  <2>1. e_saved'.turn <= e_turn' /\ e_job'.turn <= e_turn'
    BY <1>a, <1>0, <1>1, <1>2, <1>3, <1>n DEF PhaseIsKnown, FutureIsEmpty
  <2>2. e_phase' \in {"idle", "open", "event"} \/ e_job'.why \in {"finalize", "settle"} => e_saved'.turn = e_turn'
    BY <1>a, <1>0, <1>1, <1>2, <1>3, <1>n DEF PhaseIsKnown, FutureIsEmpty
  <2>3. \A t \in e_todo' : t <= e_saved'.turn
    BY <1>a, <1>0, <1>1, <1>2, <1>3, <1>n DEF PhaseIsKnown, FutureIsEmpty
  <2>4. e_phase' \in {"capture", "settle", "extract"} => e_job'.turn <= e_saved'.turn
    BY <1>a, <1>0, <1>1, <1>2, <1>3, <1>n DEF PhaseIsKnown, FutureIsEmpty, SnapshotsWait
  <2>5. \A t \in Episodes!Turns : e_pending'[t].waits => t <= e_turn'
    BY <1>a, <1>0, <1>1, <1>2, <1>3, <1>n DEF PhaseIsKnown, FutureIsEmpty, SnapshotsWait
  <2>6. \A t \in Episodes!Turns : e_saved'.pending[t].waits => t <= e_saved'.turn
    BY <1>a, <1>0, <1>1, <1>2, <1>3, <1>n DEF PhaseIsKnown, FutureIsEmpty, SnapshotsWait
  <2>7. \A t \in Episodes!Turns : t > e_turn' =>
         e_receipts'[t] = "none" /\ e_agents'[t] = "none" /\ t \notin e_notices'
    BY <1>a, <1>0, <1>1, <1>2, <1>3, <1>n DEF PhaseIsKnown, FutureIsEmpty
  <2>8. \A t \in Episodes!Turns : t > e_saved'.turn =>
         e_saved'.receipts[t] = "none" /\ e_saved'.agents[t] = "none" /\ e_asked'[t] = 0
    BY <1>a, <1>0, <1>1, <1>2, <1>3, <1>n DEF PhaseIsKnown, FutureIsEmpty, CheckpointIsRecent
  <2> QED BY <2>1, <2>2, <2>3, <2>4, <2>5, <2>6, <2>7, <2>8 DEF FutureIsEmpty
<1>9. ReadOften'
  <2>0. ASSUME NEW t \in Episodes!Turns
       PROVE  /\ e_asked'[t] <= 1 + e_crashes'
              /\ e_receipts'[t] = "done" => e_asked'[t] > 0
              /\ e_saved'.receipts[t] = "done" => e_asked'[t] > 0
              /\ e_receipts'[t] # "done" => e_asked'[t] <= e_crashes'
              /\ GoesOn(t)' /\ e_receipts'[t] = "done" => e_asked'[t] <= e_crashes'
              /\ GoesOn(t)' /\ e_receipts'[t] # "done" => e_asked'[t] < e_crashes' \/ e_asked'[t] = 0
              /\ GoesOn(t)' /\ e_crashes' = 0 => e_receipts'[t] = "none"
              /\ e_job'.why = "finalize" /\ e_job'.turn = t /\ e_phase' \in {"capture", "settle"} /\ e_receipts'[t] = "done" => e_asked'[t] <= e_crashes'
              /\ e_saved'.turn = t /\ e_saved'.status = "running" /\ e_saved'.receipts[t] # "done" => e_asked'[t] <= e_crashes'
    <3>1. e_asked'[t] <= 1 + e_crashes'
      BY <1>a, <1>0, <1>1, <1>2, <1>3, <1>n DEF PhaseIsKnown, CheckpointIsRecent, FutureIsEmpty,
         ReadOften, GoesOn, ReadIsFinal, IsQuiet
    <3>2. e_receipts'[t] = "done" => e_asked'[t] > 0
      BY <1>a, <1>0, <1>1, <1>2, <1>3, <1>n DEF PhaseIsKnown, CheckpointIsRecent, FutureIsEmpty,
         ReadOften, GoesOn, ReadIsFinal, IsQuiet
    <3>3. e_saved'.receipts[t] = "done" => e_asked'[t] > 0
      BY <1>a, <1>0, <1>1, <1>2, <1>3, <1>n DEF PhaseIsKnown, CheckpointIsRecent, FutureIsEmpty,
         ReadOften, GoesOn, ReadIsFinal, IsQuiet
    <3>4. e_receipts'[t] # "done" => e_asked'[t] <= e_crashes'
      BY <1>a, <1>0, <1>1, <1>2, <1>3, <1>n DEF PhaseIsKnown, CheckpointIsRecent, FutureIsEmpty,
         ReadOften, GoesOn, ReadIsFinal, IsQuiet
    <3>5. GoesOn(t)' /\ e_receipts'[t] = "done" => e_asked'[t] <= e_crashes'
      BY <1>a, <1>0, <1>1, <1>2, <1>3, <1>n DEF PhaseIsKnown, CheckpointIsRecent, FutureIsEmpty,
         ReadOften, GoesOn, ReadIsFinal, IsQuiet
    <3>6. GoesOn(t)' /\ e_receipts'[t] # "done" => e_asked'[t] < e_crashes' \/ e_asked'[t] = 0
      BY <1>a, <1>0, <1>1, <1>2, <1>3, <1>n DEF PhaseIsKnown, CheckpointIsRecent, FutureIsEmpty,
         ReadOften, GoesOn, ReadIsFinal, IsQuiet
    <3>7. GoesOn(t)' /\ e_crashes' = 0 => e_receipts'[t] = "none"
      BY <1>a, <1>0, <1>1, <1>2, <1>3, <1>n DEF PhaseIsKnown, CheckpointIsRecent, FutureIsEmpty,
         ReadOften, GoesOn, ReadIsFinal, IsQuiet
    <3>8. e_job'.why = "finalize" /\ e_job'.turn = t /\ e_phase' \in {"capture", "settle"} /\ e_receipts'[t] = "done" => e_asked'[t] <= e_crashes'
      BY <1>a, <1>0, <1>1, <1>2, <1>3, <1>n DEF PhaseIsKnown, CheckpointIsRecent, FutureIsEmpty,
         ReadOften, GoesOn, ReadIsFinal, IsQuiet
    <3>9. e_saved'.turn = t /\ e_saved'.status = "running" /\ e_saved'.receipts[t] # "done" => e_asked'[t] <= e_crashes'
      BY <1>a, <1>0, <1>1, <1>2, <1>3, <1>n DEF PhaseIsKnown, CheckpointIsRecent, FutureIsEmpty,
         ReadOften, GoesOn, ReadIsFinal, IsQuiet
    <3> QED BY <3>1, <3>2, <3>3, <3>4, <3>5, <3>6, <3>7, <3>8, <3>9
  <2> QED BY <2>0 DEF ReadOften
<1>10. ReadIsFinal'
  <2>0. ASSUME NEW t \in Episodes!Turns
       PROVE  /\ t \in e_notices' => e_agents'[t] = "ended"
              /\ e_phase' = "event" /\ e_job'.turn = t => e_agents'[t] = "ended"
              /\ t = e_turn' /\ e_receipts'[t] = "done" /\ t \notin e_finalized' /\ e_asked'[t] > e_crashes' => IsQuiet(t)'
              /\ t = e_turn' /\ t \in e_todo' => IsQuiet(t)'
              /\ t = e_turn' /\ e_job'.turn = t /\ e_job'.why = "recover" /\ e_phase' \in {"capture", "settle", "extract"} => IsQuiet(t)'
              /\ e_phase' = "extract" /\ e_job'.turn = t /\ e_job'.why = "finalize" => t \in e_finalized' \/ e_agents'[t] = "none"
    <3>1. t \in e_notices' => e_agents'[t] = "ended"
      BY <1>a, <1>0, <1>1, <1>2, <1>3, <1>n DEF PhaseIsKnown, SnapshotsWait, FutureIsEmpty,
         ReadOften, GoesOn, ReadIsFinal, IsQuiet
    <3>2. e_phase' = "event" /\ e_job'.turn = t => e_agents'[t] = "ended"
      BY <1>a, <1>0, <1>1, <1>2, <1>3, <1>n DEF PhaseIsKnown, SnapshotsWait, FutureIsEmpty,
         ReadOften, GoesOn, ReadIsFinal, IsQuiet
    <3>3. t = e_turn' /\ e_receipts'[t] = "done" /\ t \notin e_finalized' /\ e_asked'[t] > e_crashes' => IsQuiet(t)'
      BY <1>a, <1>0, <1>1, <1>2, <1>3, <1>n DEF PhaseIsKnown, SnapshotsWait, FutureIsEmpty,
         ReadOften, GoesOn, ReadIsFinal, IsQuiet
    <3>4. t = e_turn' /\ t \in e_todo' => IsQuiet(t)'
      BY <1>a, <1>0, <1>1, <1>2, <1>3, <1>n DEF PhaseIsKnown, SnapshotsWait, FutureIsEmpty,
         ReadOften, GoesOn, ReadIsFinal, IsQuiet
    <3>5. t = e_turn' /\ e_job'.turn = t /\ e_job'.why = "recover" /\ e_phase' \in {"capture", "settle", "extract"} => IsQuiet(t)'
      BY <1>a, <1>0, <1>1, <1>2, <1>3, <1>n DEF PhaseIsKnown, SnapshotsWait, FutureIsEmpty,
         ReadOften, GoesOn, ReadIsFinal, IsQuiet
    <3>6. e_phase' = "extract" /\ e_job'.turn = t /\ e_job'.why = "finalize" => t \in e_finalized' \/ e_agents'[t] = "none"
      BY <1>a, <1>0, <1>1, <1>2, <1>3, <1>n DEF PhaseIsKnown, SnapshotsWait, FutureIsEmpty,
         ReadOften, GoesOn, ReadIsFinal, IsQuiet
    <3> QED BY <3>1, <3>2, <3>3, <3>4, <3>5, <3>6
  <2> QED BY <2>0 DEF ReadIsFinal
<1>11. DeferralIsKept'
  <2>1. \A t \in e_owed' : e_store'[t] # "absent" \/ e_pending'[t].waits
    BY <1>a, <1>0, <1>1, <1>2, <1>3, <1>n DEF PhaseIsKnown, SnapshotsWait, DeferralIsKept,
       CheckpointIsRecent
  <2>2. \A t \in Episodes!Turns : e_receipts'[t] = "deferred" /\ e_crashes' = 0 =>
         \/ e_pending'[t].waits /\ e_pending'[t].extract
         \/ e_phase' \in {"capture", "settle", "extract"} /\ e_job'.turn = t /\ e_job'.extract
    BY <1>a, <1>0, <1>1, <1>2, <1>3, <1>n DEF PhaseIsKnown, SnapshotsWait, ReadOften, GoesOn,
       DeferralIsKept
  <2>3. e_phase' \in {"capture", "settle"} /\ e_job'.why = "finalize" /\ ~e_job'.extract /\ e_crashes' = 0 =>
         e_receipts'[e_job'.turn] # "deferred"
    BY <1>a, <1>0, <1>1, <1>2, <1>3, <1>n DEF PhaseIsKnown, ReadOften, GoesOn, DeferralIsKept
  <2> QED BY <2>1, <2>2, <2>3 DEF DeferralIsKept
<1> QED BY <1>3, <1>5, <1>6, <1>7, <1>8, <1>9, <1>10, <1>11 DEF EpInv

LEMMA EpStep == EpInv /\ Episodes!Next => EpInv'
<1> SUFFICES ASSUME EpInv, Episodes!Next PROVE EpInv'
  OBVIOUS
<1>1. ASSUME NEW a \in BOOLEAN, Episodes!EndTurn(a) PROVE EpInv'
  <2>1. CASE a = TRUE
    BY <1>1, <2>1, EpAnswered
  <2>2. CASE a = FALSE
    BY <1>1, <2>2, EpUnanswered
  <2> QED BY <2>1, <2>2
<1>2. ASSUME NEW r \in BOOLEAN, Episodes!EndEvent(r) PROVE EpInv'
  <2>1. CASE e_job.turn # e_turn /\ e_pending[e_job.turn].waits
    BY <1>2, <2>1, EpSettles
  <2>2. CASE e_job.turn = e_turn /\ r /\ e_turn \notin e_finalized
    BY <1>2, <2>2, EpFinalizesAgain
  <2>3. CASE IF e_job.turn # e_turn THEN ~e_pending[e_job.turn].waits ELSE ~(r /\ e_turn \notin e_finalized)
    BY <1>2, <2>3, EpRests
  <2> QED BY <2>1, <2>2, <2>3
<1> QED
  BY <1>1, <1>2, EpBeginTurn, EpStartAgent, EpAgentEnds, EpBeginEvent, EpRecoverNext, EpCapture,
     EpWait,
     EpPersist, EpPersistFails, EpSkip, EpExtract, EpCheckpoint, EpCrash DEF Episodes!Next

LEMMA EpStutter == EpInv /\ UNCHANGED Episodes!vars => EpInv'
BY DEF EpInv, Types, CoreTypes, PhaseIsKnown, SnapshotsWait, CheckpointIsRecent, FutureIsEmpty,
   ReadOften,
   GoesOn, ReadIsFinal, IsQuiet, DeferralIsKept, Episodes!Waiting, Episodes!vars, Episodes!memory

LEMMA EpKept == EpInv => Episodes!TypeOK /\ Episodes!NothingOwedIsLost
<1> SUFFICES ASSUME EpInv PROVE Episodes!TypeOK /\ Episodes!NothingOwedIsLost
  OBVIOUS
<1>1. e_asked \in [Episodes!Turns -> 0..(1 + MaxCrashes)]
  <2>1. \A t \in Episodes!Turns : e_asked[t] \in Nat /\ e_asked[t] <= 1 + e_crashes
    BY DEF EpInv, Types, CoreTypes, ReadOften
  <2>2. e_crashes \in Nat /\ e_crashes <= MaxCrashes /\ MaxCrashes \in Nat
    BY EpNumbers DEF EpInv, Types, CoreTypes
  <2>3. \A t \in Episodes!Turns : e_asked[t] \in 0..(1 + MaxCrashes)
    BY <2>1, <2>2
  <2> QED BY <2>3 DEF EpInv, Types, CoreTypes
<1>2. Episodes!TypeOK
  BY <1>1 DEF EpInv, Types, CoreTypes, Episodes!TypeOK, Jobs
<1>3. Episodes!NothingOwedIsLost
  BY DEF EpInv, Types, CoreTypes, DeferralIsKept, Episodes!NothingOwedIsLost
<1> QED BY <1>2, <1>3

LEMMA EpReads ==
  ASSUME EpInv, Episodes!Next
  PROVE  \A t \in Episodes!Turns :
           /\ e_asked'[t] # e_asked[t] => e_asked'[t] = e_asked[t] + 1 /\ e_saved.receipts[t] # "done"
           /\ e_receipts[t] = "done" /\ e_receipts'[t] # "done" => e_crashes' > 0
<1> SUFFICES ASSUME NEW t \in Episodes!Turns
    PROVE  /\ e_asked'[t] # e_asked[t] => e_asked'[t] = e_asked[t] + 1 /\ e_saved.receipts[t] # "done"
           /\ e_receipts[t] = "done" /\ e_receipts'[t] # "done" => e_crashes' > 0
  OBVIOUS
<1>0. e_asked \in [Episodes!Turns -> Nat] /\ e_receipts \in [Episodes!Turns -> {"none", "deferred", "done"}] /\ e_crashes \in Nat
  BY EpNumbers DEF EpInv, Types, CoreTypes
<1>1. CASE Episodes!Extract
  <2>1. e_job.turn \in Episodes!Turns
    BY <1>1 DEF Episodes!Extract, EpInv, PhaseIsKnown
  <2>2. e_phase # "save"
    BY <1>1 DEF Episodes!Extract
  <2>3. e_saved.receipts[t] = "done" => e_receipts[t] = "done"
    BY <2>2 DEF EpInv, CheckpointIsRecent
  <2>4. e_asked'[t] # e_asked[t] => e_asked'[t] = e_asked[t] + 1 /\ e_receipts[t] # "done"
    BY <1>0, <1>1, <2>1 DEF Episodes!Extract, Episodes!Recorded
  <2>5. e_receipts[t] = "done" => e_receipts'[t] = "done"
    BY <1>0, <1>1, <2>1 DEF Episodes!Extract, Episodes!Recorded
  <2> QED BY <2>3, <2>4, <2>5
<1>2. CASE Episodes!Wait \/ Episodes!PersistFails
  <2>1. e_asked' = e_asked /\ e_crashes' = e_crashes
    BY <1>2 DEF Episodes!Wait, Episodes!PersistFails
  <2>2. ASSUME e_receipts[t] = "done", e_receipts'[t] # "done" PROVE e_crashes > 0
    <3>1. e_job.turn = t /\ e_job.why = "finalize" /\ e_phase \in {"capture", "settle"}
      BY <1>0, <1>2, <2>2 DEF Episodes!Wait, Episodes!PersistFails, Episodes!Deferred
    <3>2. e_asked[t] <= e_crashes /\ e_asked[t] > 0
      BY <2>2, <3>1 DEF EpInv, ReadOften
    <3>3. e_asked[t] \in Nat
      BY <1>0
    <3> QED BY <1>0, <3>2, <3>3
  <2> QED BY <2>1, <2>2
<1>3. CASE Episodes!Crash
  <2>1. e_crashes' > 0 /\ e_asked' = e_asked
    BY <1>0, <1>3 DEF Episodes!Crash
  <2> QED BY <2>1
<1>4. CASE UNCHANGED <<e_asked, e_receipts>>
  BY <1>4
<1>5. Episodes!Next => Episodes!Extract \/ Episodes!Wait \/ Episodes!PersistFails \/ Episodes!Crash \/ UNCHANGED <<e_asked, e_receipts>>
  BY DEF Episodes!Next, Episodes!BeginTurn, Episodes!StartAgent, Episodes!EndTurn,
     Episodes!AgentEnds, Episodes!BeginEvent, Episodes!EndEvent, Episodes!Capture,
     Episodes!Persist, Episodes!Skip,
     Episodes!RecoverNext, Episodes!Checkpoint, Episodes!memory
<1> QED BY <1>1, <1>2, <1>3, <1>4, <1>5

\* A step of the suite is a step of this part, or leaves it alone.
LEMMA EpAlone == [SuiteNext]_suite_vars => Episodes!Next \/ UNCHANGED Episodes!vars
<1>1. SuiteNext => Episodes!Next \/ UNCHANGED e_vars
  BY DEF SuiteNext, InPlan, InJournal, InEdits, InSemantic, InRules, InRuntime, InAnswer,
     InSearch, InCore, e_vars
<1>2. UNCHANGED suite_vars => UNCHANGED e_vars
  BY DEF suite_vars
<1>3. UNCHANGED e_vars => UNCHANGED Episodes!vars
  BY DEF e_vars, Episodes!vars
<1> QED
  BY <1>1, <1>2, <1>3

LEMMA EpHolds == SuiteSpec => []EpInv
<1>1. SuiteInit => EpInv
  BY EpInit DEF SuiteInit
<1>2. EpInv /\ [SuiteNext]_suite_vars => EpInv'
  BY EpAlone, EpStep, EpStutter
<1> QED
  BY <1>1, <1>2, PTL DEF SuiteSpec

\* NothingOwedIsLost of MemoryEpisodes, for any number of turns, deaths and refused saves: a
\* turn that was kept is on disk or waits for the next occasion, and an extraction that
\* was put off waits with it.
THEOREM KeptTurnsBecomeEpisodes == SuiteSpec => []NothingOwedIsLost
<1>1. EpInv => NothingOwedIsLost
  BY EpKept DEF NothingOwedIsLost
<1> QED
  BY <1>1, EpHolds, PTL

\* ExtractedOnce of MemoryEpisodes, for any number of turns, deaths and refused saves: no
\* turn is read for memories again while its checkpoint says that it was read, and what
\* says so is taken back only after a restart.
THEOREM TurnsAreReadOnce == SuiteSpec => ExtractedOnce
<1> DEFINE Once ==
      \A t \in Episodes!Turns :
        /\ e_asked'[t] # e_asked[t] => e_asked'[t] = e_asked[t] + 1 /\ e_saved.receipts[t] # "done"
        /\ e_receipts[t] = "done" /\ e_receipts'[t] # "done" => e_crashes' > 0
<1>1. EpInv /\ [SuiteNext]_suite_vars => [Once]_(Episodes!vars)
  BY EpAlone, EpReads DEF Episodes!vars
<1> HIDE DEF Once
<1>2. EpInv /\ [SuiteNext]_suite_vars => [Once]_(Episodes!vars)
  BY <1>1
<1>3. SuiteSpec => [][Once]_(Episodes!vars)
  BY <1>2, EpHolds, PTL DEF SuiteSpec
<1> QED
  BY <1>3 DEF ExtractedOnce, Episodes!ExtractedOnce, Once

=============================================================================

------------------------------- MODULE MCSession -------------------------------
(***************************************************************************)
(* The parts of a session that share no state with each other in the       *)
(* models, checked in one run: its commands, which this module extends,    *)
(* and the questions, the directory of open sessions, the authority, the   *)
(* shell commands, the tool calls of a step, the transcript, the requests  *)
(* and their tools, and the images, which it instantiates.  A behaviour is *)
(* a behaviour of one part, the subject; the others stay in their initial  *)
(* states.                                                                 *)
(***************************************************************************)
EXTENDS SessionCommands

CONSTANTS
  None,                            \* stands for nothing where a record may be
  Questions, Answerers, Cancellers,  \* see InteractionMailbox
  OpenCalls, Enders, SavedBefore, RequestOf, Capacity, Project,  \* see SessionDirectory
  Uses, Conversations, Root, SessionOf, Ops, Place, DirOf, MaxEdits,  \* see PermissionAuthority
  Commands, Bound,                 \* see ManagedCommands
  Last, Workers                    \* see ToolDispatch

VARIABLES
  subject,  \* the part that runs
  m_state, m_requests, m_pending, m_done, m_answer, m_closed, m_stale, m_asker,
  m_answerer, m_canceller, m_record, m_failed,
  d_sessions, d_hosts, d_hostState, d_runtime, d_home, d_trees, d_saved, d_remembered,
  d_handles, d_locks, d_open, d_ender, d_down,
  p_deny, p_ask, p_allow, p_grants, p_mode, p_interaction, p_host, p_inv, p_edits,
  s_closed, s_live, s_group, s_caller, s_reader, s_registered, s_background, s_notified,
  s_telling, s_notices, s_done, s_cancelled, s_outcome, s_leases, s_held, s_closer,
  t_at, t_asked, t_approved, t_batch, t_segment, t_worker, t_journal, t_ok, t_expired,
  t_status,
  h_session, h_phase, h_loop, h_cancelled, h_disk, h_torn, h_saver, h_spent,
  c_transcript, c_request, c_announced, c_said,
  o_active, o_known, o_mode, o_phase, o_round, o_recency, o_restarts,
  i_made, i_files, i_records, i_history, i_saved, i_drafts, i_upload, i_removal,
  i_command, i_life, i_doomed, i_removals, i_faults, i_lapsed

m_vars == <<m_state, m_requests, m_pending, m_done, m_answer, m_closed, m_stale,
            m_asker, m_answerer, m_canceller, m_record, m_failed>>
d_vars == <<d_sessions, d_hosts, d_hostState, d_runtime, d_home, d_trees, d_saved,
            d_remembered, d_handles, d_locks, d_open, d_ender, d_down>>
p_vars == <<p_deny, p_ask, p_allow, p_grants, p_mode, p_interaction, p_host, p_inv,
            p_edits>>
s_vars == <<s_closed, s_live, s_group, s_caller, s_reader, s_registered, s_background,
            s_notified, s_telling, s_notices, s_done, s_cancelled, s_outcome, s_leases,
            s_held, s_closer>>
t_vars == <<t_at, t_asked, t_approved, t_batch, t_segment, t_worker, t_journal, t_ok,
            t_expired, t_status>>
h_vars == <<h_session, h_phase, h_loop, h_cancelled, h_disk, h_torn, h_saver, h_spent>>
c_vars == <<c_transcript, c_request, c_announced, c_said>>
o_vars == <<o_active, o_known, o_mode, o_phase, o_round, o_recency, o_restarts>>
i_vars == <<i_made, i_files, i_records, i_history, i_saved, i_drafts, i_upload,
            i_removal, i_command, i_life, i_doomed, i_removals, i_faults, i_lapsed>>

\* Values of the constants that are functions: what the cancellation cancels,
\* the request of each open, and what the uses of capabilities are.
MCTargetOf  == [y |-> "a"]
MCRequestOf == [o1 |-> "r1", o2 |-> None]
MCSessionOf == [a |-> "child", b |-> "child"]
MCOps       == [a |-> {"file_read"}, b |-> {"file_read", "file_write"}]
MCPlace     == [a |-> "outside", b |-> "in"]
MCDirOf     == [a |-> "d", b |-> "d"]

Mailbox == INSTANCE InteractionMailbox WITH
  Requests <- Questions, NoRequest <- None,
  state <- m_state, requests <- m_requests, pending <- m_pending, done <- m_done,
  answer <- m_answer, closed <- m_closed, stale <- m_stale, asker <- m_asker,
  answerer <- m_answerer, canceller <- m_canceller, record <- m_record,
  failed <- m_failed

Directory == INSTANCE SessionDirectory WITH
  Opens <- OpenCalls, Saved <- SavedBefore,
  sessions <- d_sessions, hosts <- d_hosts, hostState <- d_hostState,
  runtime <- d_runtime, home <- d_home, trees <- d_trees, saved <- d_saved,
  remembered <- d_remembered, handles <- d_handles, locks <- d_locks, open <- d_open,
  ender <- d_ender, down <- d_down

Authority == INSTANCE PermissionAuthority WITH
  Calls <- Uses, Sessions <- Conversations,
  deny <- p_deny, ask <- p_ask, allow <- p_allow, grants <- p_grants, mode <- p_mode,
  interaction <- p_interaction, host <- p_host, inv <- p_inv, edits <- p_edits

Shell == INSTANCE ManagedCommands WITH
  closed <- s_closed, live <- s_live, group <- s_group, caller <- s_caller,
  reader <- s_reader, registered <- s_registered, background <- s_background,
  notified <- s_notified, telling <- s_telling, notices <- s_notices, done <- s_done,
  cancelled <- s_cancelled, outcome <- s_outcome, leases <- s_leases, held <- s_held,
  closer <- s_closer

Tools == INSTANCE ToolDispatch WITH
  at <- t_at, asked <- t_asked, approved <- t_approved, batch <- t_batch,
  segment <- t_segment, worker <- t_worker, journal <- t_journal, ok <- t_ok,
  expired <- t_expired, status <- t_status

Transcript == INSTANCE SessionTranscript WITH
  None <- None, CallSets <- {{"a"}, {"b", "c"}}, MaxTurns <- 2, MaxSteps <- 2,
  MaxStrikes <- 1, MaxFaults <- 2,
  session <- h_session, phase <- h_phase, loop <- h_loop, cancelled <- h_cancelled,
  disk <- h_disk, torn <- h_torn, saver <- h_saver, spent <- h_spent

Context == INSTANCE RequestContext WITH
  None <- None, Skills <- {"k", "l"}, Keyless <- "keyless", KeepRecent <- 2, Limit <- 12, Watermark <- 8,
  Fixed <- 4, Long <- 3, Recalled <- 3, MaxMessages <- 7, MaxCalls <- 3,
  transcript <- c_transcript, request <- c_request, announced <- c_announced,
  said <- c_said

Offers == INSTANCE ToolOffers WITH
  Deferred <- {"s", "t", "u"}, AskTools <- {"s"}, MaxActive <- 2, MaxCalls <- 2,
  MaxRestarts <- 1,
  active <- o_active, known <- o_known, mode <- o_mode, phase <- o_phase,
  round <- o_round, recency <- o_recency, restarts <- o_restarts

Images == INSTANCE SessionImages WITH
  None <- None, Pictures <- {"x"}, Commands <- {"c"}, MaxImages <- 1, MaxRemovals <- 1,
  MaxFaults <- 1,
  made <- i_made, files <- i_files, records <- i_records, history <- i_history,
  saved <- i_saved, drafts <- i_drafts, upload <- i_upload, removal <- i_removal,
  command <- i_command, life <- i_life, doomed <- i_doomed, removals <- i_removals,
  faults <- i_faults, lapsed <- i_lapsed

ASSUME MCSessionAssumption ==
  /\ SessionCommandsAssumption
  /\ Mailbox!InteractionMailboxAssumption
  /\ Directory!SessionDirectoryAssumption
  /\ Authority!PermissionAuthorityAssumption
  /\ Tools!ToolDispatchAssumption
  /\ Transcript!SessionTranscriptAssumption
  /\ Context!RequestContextAssumption
  /\ Offers!ToolOffersAssumption
  /\ Images!SessionImagesAssumption

Subjects ==
  {"commands", "mailbox", "directory", "authority", "shell", "tools", "transcript",
   "context", "offers", "images"}

SuiteInit ==
  /\ subject \in Subjects
  /\ Init
  /\ Mailbox!Init
  /\ Directory!Init
  /\ Authority!Init
  /\ Shell!Init
  /\ Tools!Init
  /\ Transcript!Init
  /\ Context!Init
  /\ Offers!Init
  /\ Images!Init
  /\ subject # "context" => DOMAIN c_transcript = {1}

\* A step of the subject leaves the other parts alone.
InCommands ==
  /\ subject = "commands"
  /\ UNCHANGED <<subject, m_vars, d_vars, p_vars, s_vars, t_vars, h_vars, c_vars,
                o_vars, i_vars>>
InMailbox ==
  /\ subject = "mailbox"
  /\ UNCHANGED <<subject, vars, d_vars, p_vars, s_vars, t_vars, h_vars, c_vars, o_vars,
                i_vars>>
InDirectory ==
  /\ subject = "directory"
  /\ UNCHANGED <<subject, vars, m_vars, p_vars, s_vars, t_vars, h_vars, c_vars, o_vars,
                i_vars>>
InAuthority ==
  /\ subject = "authority"
  /\ UNCHANGED <<subject, vars, m_vars, d_vars, s_vars, t_vars, h_vars, c_vars, o_vars,
                i_vars>>
InShell ==
  /\ subject = "shell"
  /\ UNCHANGED <<subject, vars, m_vars, d_vars, p_vars, t_vars, h_vars, c_vars, o_vars,
                i_vars>>
InTools ==
  /\ subject = "tools"
  /\ UNCHANGED <<subject, vars, m_vars, d_vars, p_vars, s_vars, h_vars, c_vars, o_vars,
                i_vars>>
InTranscript ==
  /\ subject = "transcript"
  /\ UNCHANGED <<subject, vars, m_vars, d_vars, p_vars, s_vars, t_vars, c_vars, o_vars,
                i_vars>>
InContext ==
  /\ subject = "context"
  /\ UNCHANGED <<subject, vars, m_vars, d_vars, p_vars, s_vars, t_vars, h_vars, o_vars,
                i_vars>>
InOffers ==
  /\ subject = "offers"
  /\ UNCHANGED <<subject, vars, m_vars, d_vars, p_vars, s_vars, t_vars, h_vars, c_vars,
                i_vars>>
InImages ==
  /\ subject = "images"
  /\ UNCHANGED <<subject, vars, m_vars, d_vars, p_vars, s_vars, t_vars, h_vars, c_vars,
                o_vars>>

SuiteNext ==
  \/ InCommands /\ Next
  \/ InMailbox /\ Mailbox!Next
  \/ InDirectory /\ Directory!Next
  \/ InAuthority /\ Authority!Next
  \/ InShell /\ Shell!Next
  \/ InTools /\ Tools!Next
  \/ InTranscript /\ Transcript!Next
  \/ InContext /\ Context!Next
  \/ InOffers /\ Offers!Next
  \/ InImages /\ Images!Next

suite_vars == <<subject, vars, m_vars, d_vars, p_vars, s_vars, t_vars, h_vars, c_vars,
                o_vars, i_vars>>

\* The fairness of the two parts that have a liveness property: see
\* SessionCommands and InteractionMailbox.
SuiteFairness ==
  /\ WF_vars(InCommands /\ WorkerStep)
  /\ \A h \in Callers : WF_vars(InCommands /\ CallerStep(h))
  /\ \A r \in Questions : WF_m_vars(InMailbox /\ Mailbox!AskerStep(r))
  /\ \A h \in Answerers : WF_m_vars(InMailbox /\ Mailbox!AnswererStep(h))
  /\ \A k \in Cancellers : WF_m_vars(InMailbox /\ Mailbox!CancellerStep(k))

SuiteSpec == SuiteInit /\ [][SuiteNext]_suite_vars /\ SuiteFairness

-----------------------------------------------------------------------------
\* A closed mailbox leaves nobody waiting.
NobodyWaitsAfterClose == Mailbox!NobodyWaitsAfterClose

\* At its capacity the directory registers no more, and leaves no orphans.
DirectoryIsSound == subject = "directory" => Directory!TypeOK /\ Directory!DirectoryIsSound

\* An asker is never told the opposite of the decision on record, and a
\* capability is used only as the permissions of that moment allow, within the
\* ceiling of the conversation.
UseIsDecided ==
  /\ subject = "mailbox" => Mailbox!TypeOK /\ Mailbox!ApprovalIsTheRecord
  /\ subject = "authority" =>
       Authority!TypeOK /\ Authority!UseIsAuthorized /\ Authority!CeilingCoversChildren

\* A background command is told of once and gives its lease back.
ToldOnceAndReleased == subject = "shell" => Shell!TypeOK /\ Shell!ToldOnceAndReleased

\* A later tool call never overtakes one that is not safe beside it, every call
\* has an outcome, and a success is in the journal.
BatchesAreSound == subject = "tools" => Tools!TypeOK /\ Tools!BatchesAreSound

\* No request shows a call without its result, or twice; none leaves out what
\* a skill said or the last results; and it offers the tools used last.
RequestsAreWhole ==
  /\ subject = "transcript" => Transcript!TypeOK /\ Transcript!RequestsArePaired
  /\ subject = "context" => Context!TypeOK /\ Context!RequestIsWhole
  /\ subject = "offers" => Offers!TypeOK /\ Offers!ActiveAreTheLastUsed

\* What was saved while nothing was recorded can be opened again, and what it or
\* a command refers to is there.
WholeCheckpointLoads ==
  /\ subject = "transcript" => Transcript!WholeCheckpointLoads
  /\ subject = "images" => Images!TypeOK /\ Images!ImagesAreKept

=============================================================================

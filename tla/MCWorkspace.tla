------------------------------ MODULE MCWorkspace ------------------------------
(***************************************************************************)
(* What a session makes and what it changes outside of itself: its plan,   *)
(* which this module extends, and change journal, file tools, searches,    *)
(* memories, rules, the model's answers and the runtime it has.  As in     *)
(* MCSession, a behaviour is a behaviour of one part, the subject.         *)
(***************************************************************************)
EXTENDS PlanSteps

CONSTANTS
  None,                              \* stands for nothing where a record may be
  TouchedPaths, SmallTexts, LargeBytes, BeforeTask, NoBytes, CleanMark, SharedPaths,
  MaxTaskWrites, MaxTaskCommands, MaxReviews,  \* see ChangeJournal
  Agents, EditedFiles, FileContents, EditOf, MissingFile, FirstContents, MaxViews,
  MaxEditCalls, MaxForeign,          \* see FileTools
  Sessions, Projects, SessionProject, MemoryIds, MemoryTexts, Secrets, MaxRevision,
  MaxTurnsOf, MaxWritesOf,           \* see SemanticMemory
  RuleCalls, Workspaces, Protected, Installed, Restrictions, Lifetimes, MaxApprovals,
  MaxEdits,                          \* see PermissionRules
  Callers, MaxRefusals,              \* see RuntimeAssembly
  Shapes, MaxAttempts, MaxText, MaxAnswerCalls, MaxArgs,  \* see ModelAnswer
  SearchedFiles, Hits, Nameless, BatchMax, MaxResults, MaxChanges,  \* see FileSearch
  AgentProject, Global, Notes, MaxChars, MaxUpdates, MaxDeaths, MaxHands,  \* see CoreMemory
  MaxEpisodeTurns, MaxCrashes, MaxFails  \* see MemoryEpisodes

VARIABLES
  subject,  \* the part that runs
  w_tree, w_committed, w_heads, w_copy, w_todo, w_task, w_shell, w_web, w_writes,
  w_commands, w_reviews, w_first, w_wrote, w_blurred,
  v_disk, v_stamp, v_lock, v_views, v_call, v_calls, v_foreign, v_shown, v_slipped,
  v_misled,
  m_records, m_generation, m_held, m_phase, m_turns, m_cache, m_offered, m_known,
  r_rules, r_deny, r_ask, r_mode, r_workspace, r_approvals, r_edits,
  u_given, u_stage, u_open, u_opened, u_owner, u_complete, u_todo, u_calls, u_late,
  u_closings, u_refused,
  a_plan, a_phase, a_tries, a_sent, a_got, a_shown, a_stop, a_connection, a_usage,
  a_answer,
  f_place, f_moved, f_signal, f_pc, f_lister, f_finder, f_unlisted, f_batch,
  f_printed, f_bad, f_matches, f_result,
  k_file, k_owner, k_call, k_answer, k_view, k_history, k_seen, k_updates, k_deaths,
  k_hands,
  e_turn, e_status, e_agents, e_pending, e_receipts, e_finalized, e_notices, e_phase,
  e_job, e_todo, e_store, e_saved, e_asked, e_owed, e_crashes, e_fails

w_vars == <<w_tree, w_committed, w_heads, w_copy, w_todo, w_task, w_shell, w_web,
            w_writes, w_commands, w_reviews, w_first, w_wrote, w_blurred>>
v_vars == <<v_disk, v_stamp, v_lock, v_views, v_call, v_calls, v_foreign, v_shown,
            v_slipped, v_misled>>
m_vars == <<m_records, m_generation, m_held, m_phase, m_turns, m_cache, m_offered,
            m_known>>
r_vars == <<r_rules, r_deny, r_ask, r_mode, r_workspace, r_approvals, r_edits>>
u_vars == <<u_given, u_stage, u_open, u_opened, u_owner, u_complete, u_todo, u_calls,
            u_late, u_closings, u_refused>>
a_vars == <<a_plan, a_phase, a_tries, a_sent, a_got, a_shown, a_stop, a_connection,
            a_usage, a_answer>>
f_vars == <<f_place, f_moved, f_signal, f_pc, f_lister, f_finder, f_unlisted, f_batch,
            f_printed, f_bad, f_matches, f_result>>
k_vars == <<k_file, k_owner, k_call, k_answer, k_view, k_history, k_seen, k_updates,
            k_deaths, k_hands>>
e_vars == <<e_turn, e_status, e_agents, e_pending, e_receipts, e_finalized, e_notices,
            e_phase, e_job, e_todo, e_store, e_saved, e_asked, e_owed, e_crashes,
            e_fails>>

\* Values of the constants that are sets of calls, rules and paths, or functions.
\* Calls of tools: on files of the workspace and outside, commands, requests.
FileCall(kind, inside, path, ops) ==
  [kind |-> kind, inside |-> inside, targets |-> {<<path, o>> : o \in ops}, ops |-> ops,
   line |-> None, plain |-> FALSE, segments |-> <<>>, programs |-> <<>>,
   host |-> None, method |-> None, page |-> None]

Command(line, plain, segments, programs) ==
  [kind |-> "shell", inside |-> FALSE, targets |-> {}, ops |-> {"shell"},
   line |-> line, plain |-> plain, segments |-> segments, programs |-> programs,
   host |-> None, method |-> None, page |-> None]

Request(method, page) ==
  [kind |-> "web", inside |-> FALSE, targets |-> {},
   ops |-> {IF method = "GET" THEN "network_read" ELSE "network_write"},
   line |-> None, plain |-> FALSE, segments |-> <<>>, programs |-> <<>>,
   host |-> "h", method |-> method, page |-> page]

Reads  == {"file_read"}
Writes == {"file_read", "file_write"}

MCRuleCalls ==
  {FileCall("file", TRUE, <<"d", "g">>, Writes), FileCall("file", TRUE, <<"g">>, {"file_write"}),
   FileCall("file", FALSE, <<"o", "f">>, Reads), FileCall("file", FALSE, <<"o", "f">>, Writes),
   FileCall("directory", FALSE, <<"o">>, Reads),
   Command("git status", TRUE, <<"git">>, <<<<"git", "status">>>>),
   Command("git push", TRUE, <<"git">>, <<<<"git", "push">>>>),
   Command("git status; make", FALSE, <<"git", "make">>, <<<<"git", "status">>, <<"make">>>>),
   Command("$(x)", FALSE, <<>>, <<>>),
   Request("GET", "p"), Request("GET", "q"), Request("POST", "p")}

MCRestrictions ==
  {[kind |-> "shell", program |-> "git"],
   [kind |-> "file", path |-> <<"d", "*">>, exact |-> FALSE, ops |-> Writes]}

MCWorkspaces == {<<"w">>, <<"v">>}
MCProtected  == {<<"x">>}
MCEditOf         == [a |-> "b"]
MCSessionProject == [s |-> "p", t |-> "q"]
MCMaxTurnsOf     == [s |-> 1, t |-> 0]
MCMaxWritesOf    == [s |-> 1, t |-> 1]
MCAgentProject   == [x |-> "p", y |-> "q"]

Journal == INSTANCE ChangeJournal WITH
  Paths <- TouchedPaths, Texts <- SmallTexts, Large <- LargeBytes, Initially <- BeforeTask,
  None <- NoBytes, Clean <- CleanMark, Shared <- SharedPaths, MaxWrites <- MaxTaskWrites,
  MaxCommands <- MaxTaskCommands,
  tree <- w_tree, committed <- w_committed, heads <- w_heads, copy <- w_copy,
  todo <- w_todo, task <- w_task, shell <- w_shell, web <- w_web, writes <- w_writes,
  commands <- w_commands, reviews <- w_reviews, first <- w_first, wrote <- w_wrote,
  blurred <- w_blurred

Edits == INSTANCE FileTools WITH
  Files <- EditedFiles, Contents <- FileContents, Missing <- MissingFile,
  Initially <- FirstContents, MaxCalls <- MaxEditCalls,
  disk <- v_disk, stamp <- v_stamp, lock <- v_lock, views <- v_views, call <- v_call,
  calls <- v_calls, foreign <- v_foreign, shown <- v_shown, slipped <- v_slipped,
  misled <- v_misled

Semantic == INSTANCE SemanticMemory WITH
  ProjectOf <- SessionProject, Ids <- MemoryIds, Texts <- MemoryTexts,
  MaxTurns <- MaxTurnsOf, MaxWrites <- MaxWritesOf,
  records <- m_records, generation <- m_generation, held <- m_held, phase <- m_phase,
  turns <- m_turns, cache <- m_cache, offered <- m_offered, known <- m_known

Rules == INSTANCE PermissionRules WITH
  Calls <- RuleCalls,
  rules <- r_rules, deny <- r_deny, ask <- r_ask, mode <- r_mode,
  workspace <- r_workspace, approvals <- r_approvals, edits <- r_edits

Runtime == INSTANCE RuntimeAssembly WITH
  given <- u_given, stage <- u_stage, open <- u_open, opened <- u_opened,
  owner <- u_owner, complete <- u_complete, todo <- u_todo, calls <- u_calls,
  late <- u_late, closings <- u_closings, refused <- u_refused

Answer == INSTANCE ModelAnswer WITH
  MaxCalls <- MaxAnswerCalls,
  plan <- a_plan, phase <- a_phase, tries <- a_tries, sent <- a_sent, got <- a_got,
  shown <- a_shown, stop <- a_stop, connection <- a_connection, usage <- a_usage,
  answer <- a_answer

Search == INSTANCE FileSearch WITH
  Files <- SearchedFiles,
  place <- f_place, moved <- f_moved, signal <- f_signal, pc <- f_pc,
  lister <- f_lister, finder <- f_finder, unlisted <- f_unlisted, batch <- f_batch,
  printed <- f_printed, bad <- f_bad, matches <- f_matches, result <- f_result

Core == INSTANCE CoreMemory WITH
  ProjectOf <- AgentProject,
  file <- k_file, owner <- k_owner, call <- k_call, answer <- k_answer, view <- k_view,
  history <- k_history, seen <- k_seen, updates <- k_updates, deaths <- k_deaths,
  hands <- k_hands

Episodes == INSTANCE MemoryEpisodes WITH
  MaxTurns <- MaxEpisodeTurns,
  turn <- e_turn, status <- e_status, agents <- e_agents, pending <- e_pending,
  receipts <- e_receipts, finalized <- e_finalized, notices <- e_notices,
  phase <- e_phase, job <- e_job, todo <- e_todo, store <- e_store, saved <- e_saved,
  asked <- e_asked, owed <- e_owed, crashes <- e_crashes, fails <- e_fails

ASSUME MCWorkspaceAssumption ==
  /\ PlanStepsAssumption
  /\ Edits!FileToolsAssumption
  /\ Semantic!SemanticMemoryAssumption
  /\ Episodes!MemoryEpisodesAssumption
  /\ Rules!PermissionRulesAssumption
  /\ Runtime!RuntimeAssemblyAssumption
  /\ Answer!ModelAnswerAssumption
  /\ Search!FileSearchAssumption
  /\ Core!CoreMemoryAssumption

Subjects ==
  {"plan", "journal", "edits", "semantic", "rules", "runtime", "answer", "search",
   "core", "episodes"}

SuiteInit ==
  /\ subject \in Subjects
  /\ Init
  /\ Journal!Init
  /\ Edits!Init
  /\ Semantic!Init
  /\ Rules!Init
  /\ Runtime!Init
  /\ Answer!Init
  /\ Search!Init
  /\ Core!Init
  /\ Episodes!Init
  /\ subject # "answer" => a_plan = [shape |-> "bare", text |-> 0, calls |-> <<>>]
  /\ subject # "runtime" => u_given = {} /\ u_owner
  /\ subject # "search" => f_place = [x \in SearchedFiles |-> "in"]
  /\ subject # "rules" => r_workspace = CHOOSE w \in Workspaces : TRUE

\* A step of the subject leaves the other parts alone.
InPlan ==
  /\ subject = "plan"
  /\ UNCHANGED <<subject, w_vars, v_vars, m_vars, r_vars, u_vars, a_vars, f_vars,
                k_vars, e_vars>>
InJournal ==
  /\ subject = "journal"
  /\ UNCHANGED <<subject, vars, v_vars, m_vars, r_vars, u_vars, a_vars, f_vars, k_vars,
                e_vars>>
InEdits ==
  /\ subject = "edits"
  /\ UNCHANGED <<subject, vars, w_vars, m_vars, r_vars, u_vars, a_vars, f_vars, k_vars,
                e_vars>>
InSemantic ==
  /\ subject = "semantic"
  /\ UNCHANGED <<subject, vars, w_vars, v_vars, r_vars, u_vars, a_vars, f_vars, k_vars,
                e_vars>>
InRules ==
  /\ subject = "rules"
  /\ UNCHANGED <<subject, vars, w_vars, v_vars, m_vars, u_vars, a_vars, f_vars, k_vars,
                e_vars>>
InRuntime ==
  /\ subject = "runtime"
  /\ UNCHANGED <<subject, vars, w_vars, v_vars, m_vars, r_vars, a_vars, f_vars, k_vars,
                e_vars>>
InAnswer ==
  /\ subject = "answer"
  /\ UNCHANGED <<subject, vars, w_vars, v_vars, m_vars, r_vars, u_vars, f_vars, k_vars,
                e_vars>>
InSearch ==
  /\ subject = "search"
  /\ UNCHANGED <<subject, vars, w_vars, v_vars, m_vars, r_vars, u_vars, a_vars, k_vars,
                e_vars>>
InCore ==
  /\ subject = "core"
  /\ UNCHANGED <<subject, vars, w_vars, v_vars, m_vars, r_vars, u_vars, a_vars, f_vars,
                e_vars>>
InEpisodes ==
  /\ subject = "episodes"
  /\ UNCHANGED <<subject, vars, w_vars, v_vars, m_vars, r_vars, u_vars, a_vars, f_vars,
                k_vars>>

SuiteNext ==
  \/ InPlan /\ Next
  \/ InJournal /\ Journal!Next
  \/ InEdits /\ Edits!Next
  \/ InSemantic /\ Semantic!Next
  \/ InRules /\ Rules!Next
  \/ InRuntime /\ Runtime!Next
  \/ InAnswer /\ Answer!Next
  \/ InSearch /\ Search!Next
  \/ InCore /\ Core!Next
  \/ InEpisodes /\ Episodes!Next

suite_vars == <<subject, vars, w_vars, v_vars, m_vars, r_vars, u_vars, a_vars, f_vars,
                k_vars, e_vars>>

SuiteSpec == SuiteInit /\ [][SuiteNext]_suite_vars

-----------------------------------------------------------------------------
\* A revert gives back what was there before the task, and no agent is told
\* that a file is unchanged which it never saw so.
BytesAreKnown ==
  /\ subject = "journal" => Journal!TypeOK /\ Journal!FirstBytesAreKept
  /\ subject = "edits" => Edits!TypeOK /\ Edits!UnchangedIsTrue

\* A turn shows what its session has written, and what it was written from;
\* no update of core memory is lost, none shown that was replaced before.
RecallIsSound ==
  /\ subject = "semantic" => Semantic!TypeOK /\ Semantic!RecallIsSound
  /\ subject = "core" => Core!TypeOK /\ Core!CoreIsSound

\* A runtime that fails, or ends, leaves nothing of its own and closes nothing
\* twice.
RuntimeIsReleased == subject = "runtime" => Runtime!TypeOK /\ Runtime!RuntimeIsReleased

\* The calls that are executed are those the model made, the history has what
\* the screen has; and a search has every match, or says that it has not.
AnswersAreWhole ==
  /\ subject = "answer" => Answer!TypeOK /\ Answer!AnswerIsSound
  /\ subject = "search" => Search!TypeOK /\ Search!SearchIsWhole

\* A turn that was kept becomes an episode.
NothingOwedIsLost == subject = "episodes" => Episodes!TypeOK /\ Episodes!NothingOwedIsLost

\* Rules allow what users were shown, and are used where they apply.
RulesAreApprovals == subject = "rules" => Rules!TypeOK /\ Rules!RulesAreApprovals

\* A turn is read for memories once.
ExtractedOnce == Episodes!ExtractedOnce

\* Who replaces a file, reverts one or changes a memory knows what is there:
\* a tool's agent was shown it, the task wrote it, the editor has read it.
ReplacedIsKnown ==
  /\ Edits!ReplacesOnlyTheSeen
  /\ Journal!OnlyTaskBytesAreReplaced
  /\ Semantic!EditsAreInformed

=============================================================================

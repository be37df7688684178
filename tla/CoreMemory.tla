------------------------------- MODULE CoreMemory -------------------------------
(***************************************************************************)
(* Core memory: the profile of the user, one file for all projects, and an *)
(* anchor for each project, which agents append to, replace and clear, and *)
(* which every request shows (application/memory/core_ops.py,              *)
(* infrastructure/persistence/memory/core.py, tools/memory/core_tools.py). *)
(*                                                                         *)
(* A section is the sequence of its notes.  A note has length 1.           *)
(***************************************************************************)
EXTENDS Naturals, Sequences, FiniteSets, SequencesExt

CONSTANTS
  None,
  Agents,     \* agents, each in a process of its own
  Projects,
  ProjectOf,  \* project_id of an agent's session, or None
  Global,     \* stands for core_memory.json beside the projects' files
  Notes,
  MaxChars,   \* max_section_chars
  MaxUpdates, \* bounds: updates, deaths of a process, hands of a user on the files
  MaxDeaths,
  MaxHands

Sections == {Global} \union Projects

CoreMemoryAssumption ==
  /\ Global \notin Projects /\ ProjectOf \in [Agents -> Projects \union {None}]
  /\ MaxChars \in Nat \ {0} /\ {MaxUpdates, MaxDeaths, MaxHands} \subseteq Nat

VARIABLES
  file,   \* the file of each section: [at, text], where at is "none", "kept", "broken"
  owner,  \* who has the lock of each section
  call,   \* the update that each agent makes: [at, section, mode, note, text]
  answer, \* the text each agent was told last, or None for an error
  view,   \* the view in the making, and the last one: [at, profile, anchor, state]
  history,\* history: the updates that each file holds, since it was made
  seen,   \* history: how many of them each agent's last answer told of
  updates, deaths, hands

vars == <<file, owner, call, answer, view, history, seen, updates, deaths, hands>>

NoFile == [at |-> "none", text |-> <<>>]
NoCall == [at |-> "idle", section |-> None, mode |-> None, note |-> None, text |-> <<>>]
NoView == [at |-> "none", profile |-> <<>>, anchor |-> <<>>, state |-> "none"]

Init ==
  /\ file = [s \in Sections |-> NoFile] /\ owner = [s \in Sections |-> None]
  /\ call = [a \in Agents |-> NoCall] /\ answer = [a \in Agents |-> None]
  /\ view = [a \in Agents |-> NoView]
  /\ history = [s \in Sections |-> <<>>]
  /\ seen = [a \in Agents |-> [s \in Sections |-> 0]]
  /\ updates = 0 /\ deaths = 0 /\ hands = 0

-----------------------------------------------------------------------------
(* update_core_memory *)

\* compose_section
Composed(current, mode, note) ==
  CASE mode = "clear"   -> <<>>
    [] mode = "replace" -> <<note>>
    [] mode = "append"  -> Append(current, note)

\* The model names a section, never a project.  A note fits alone.
Ask(a) ==
  /\ call[a].at = "idle" /\ view[a].at # "project" /\ updates < MaxUpdates
  /\ \E s \in {Global, ProjectOf[a]} \ {None}, m \in {"append", "replace", "clear"}, n \in Notes :
       call' = [call EXCEPT ![a] = [at |-> "lock", section |-> s, mode |-> m, note |-> n,
                                    text |-> <<>>]]
  /\ updates' = updates + 1
  /\ view' = [view EXCEPT ![a] = NoView]
  /\ UNCHANGED <<file, owner, answer, history, seen, deaths, hands>>

\* Without the lock.
Unlocked(a) ==
  /\ call[a].at = "lock"
  /\ call' = [call EXCEPT ![a].at = "load"]
  /\ UNCHANGED <<file, owner, answer, view, history, seen, updates, deaths, hands>>

\* _exclusive_lock: among threads, and among processes by the file beside it.
Lock(a) ==
  /\ call[a].at = "lock" /\ owner[call[a].section] = None
  /\ owner' = [owner EXCEPT ![call[a].section] = a]
  /\ call' = [call EXCEPT ![a].at = "load"]
  /\ UNCHANGED <<file, answer, view, history, seen, updates, deaths, hands>>

Leave(a) ==
  /\ call' = [call EXCEPT ![a] = NoCall]
  /\ owner' = [owner EXCEPT ![call[a].section] = IF @ = a THEN None ELSE @]

\* A file that cannot be read, or a text that is too long, changes nothing; nor
\* does an update that leaves the text as it is, which is told like any other.
Load(a) ==
  /\ call[a].at = "load"
  /\ LET s == call[a].section
         text == Composed(file[s].text, call[a].mode, call[a].note)
     IN  IF file[s].at = "broken" \/ Len(text) > MaxChars
           THEN /\ Leave(a)
                /\ answer' = [answer EXCEPT ![a] = None]
                /\ UNCHANGED seen
         ELSE IF text = file[s].text
           THEN /\ Leave(a)
                /\ answer' = [answer EXCEPT ![a] = text]
                /\ seen' = [seen EXCEPT ![a][s] = Len(history[s])]
         ELSE /\ call' = [call EXCEPT ![a].at = "save", ![a].text = text]
              /\ UNCHANGED <<owner, answer, seen>>
  /\ UNCHANGED <<file, view, history, updates, deaths, hands>>

\* os.replace puts the new file in place as a whole, or fails before.
Save(a) ==
  /\ call[a].at = "save"
  /\ LET s == call[a].section
     IN  /\ file' = [file EXCEPT ![s] = [at |-> "kept", text |-> call[a].text]]
         /\ history' = [history EXCEPT
                          ![s] = Append(@, [mode |-> call[a].mode, note |-> call[a].note])]
         /\ call' = [call EXCEPT ![a].at = "saved"]
  /\ UNCHANGED <<owner, answer, view, seen, updates, deaths, hands>>

SaveFails(a) ==
  /\ call[a].at = "save"
  /\ Leave(a)
  /\ answer' = [answer EXCEPT ![a] = None]
  /\ UNCHANGED <<file, view, history, seen, updates, deaths, hands>>

Answer(a) ==
  /\ call[a].at = "saved"
  /\ Leave(a)
  /\ answer' = [answer EXCEPT ![a] = call[a].text]
  /\ seen' = [seen EXCEPT ![a][call[a].section] = Len(history[call[a].section])]
  /\ UNCHANGED <<file, view, history, updates, deaths, hands>>

-----------------------------------------------------------------------------
(* get_core_memory: the global sections, then those of the session's project *)

\* A file is read under its lock, a missing one without.
Readable(s) == owner[s] = None \/ file[s].at = "none"

ReadGlobal(a) ==
  /\ call[a].at = "idle" /\ view[a].at # "project" /\ Readable(Global)
  /\ view' = [view EXCEPT ![a] =
       IF file[Global].at = "broken" THEN [NoView EXCEPT !.at = "failed"]
       ELSE [NoView EXCEPT !.at = "project", !.profile = file[Global].text]]
  /\ UNCHANGED <<file, owner, call, answer, history, seen, updates, deaths, hands>>

\* The anchor of a file that cannot be read is left out.
ReadProject(a) ==
  /\ view[a].at = "project"
  /\ LET p == ProjectOf[a]
     IN  IF p = None THEN view' = [view EXCEPT ![a].at = "shown"]
         ELSE /\ Readable(p)
              /\ view' = [view EXCEPT ![a] =
                   [@ EXCEPT !.at = "shown",
                             !.state = IF file[p].at = "broken" THEN "read_error" ELSE "current_project",
                             !.anchor = file[p].text]]
  /\ UNCHANGED <<file, owner, call, answer, history, seen, updates, deaths, hands>>

-----------------------------------------------------------------------------
(* The surroundings *)

\* The process dies; the system releases its lock.  Its session is a new one.
Die(a) ==
  /\ deaths < MaxDeaths
  /\ deaths' = deaths + 1
  /\ owner' = [s \in Sections |-> IF owner[s] = a THEN None ELSE owner[s]]
  /\ call' = [call EXCEPT ![a] = NoCall] /\ answer' = [answer EXCEPT ![a] = None]
  /\ view' = [view EXCEPT ![a] = NoView]
  /\ seen' = [seen EXCEPT ![a] = [s \in Sections |-> 0]]
  /\ UNCHANGED <<file, history, updates, hands>>

\* A user spoils or removes a file while nobody has it.
Hand(s) ==
  /\ hands < MaxHands /\ owner[s] = None
  /\ hands' = hands + 1
  /\ file' = [file EXCEPT ![s] = IF @.at = "broken" THEN NoFile ELSE [NoFile EXCEPT !.at = "broken"]]
  /\ history' = [history EXCEPT ![s] = <<>>]
  /\ seen' = [a \in Agents |-> [seen[a] EXCEPT ![s] = 0]]
  /\ view' = [a \in Agents |-> NoView] /\ answer' = [a \in Agents |-> None]
  /\ UNCHANGED <<owner, call, updates, deaths>>

Next ==
  \/ \E a \in Agents :
       \/ Ask(a) \/ Lock(a) \/ Load(a) \/ Save(a) \/ SaveFails(a) \/ Answer(a)
       \/ ReadGlobal(a) \/ ReadProject(a) \/ Die(a)
  \/ \E s \in Sections : Hand(s)

Spec == Init /\ [][Next]_vars

-----------------------------------------------------------------------------
(* Properties *)

TypeOK ==
  /\ \A s \in Sections : file[s].at \in {"none", "kept", "broken"} /\ Len(file[s].text) <= MaxChars
  /\ owner \in [Sections -> Agents \union {None}]
  /\ \A a \in Agents :
       /\ call[a].at \in {"idle", "lock", "load", "save", "saved"}
       /\ view[a].at \in {"none", "project", "shown", "failed"}

\* What updates leave, one after the other.
Result(log) == FoldLeft(LAMBDA text, u : Composed(text, u.mode, u.note), <<>>, log)

After(s, n) == Result(SubSeq(history[s], 1, n))

\* No update is lost or half done: a file holds what its updates leave, one after
\* the other, and an answer is the text after the update it tells of.
UpdatesAddUp ==
  /\ \A s \in Sections : file[s].at # "broken" => file[s].text = After(s, Len(history[s]))
  /\ \A a \in Agents : answer[a] # None =>
       \E s \in Sections : \E n \in 0..seen[a][s] : answer[a] = After(s, n)

\* A request shows texts that were there, none from before the agent's own last
\* update, and never the anchor of another project.
ViewsAreCurrent ==
  \A a \in Agents :
    LET shows(text, s) == \E n \in seen[a][s]..Len(history[s]) : text = After(s, n)
    IN  /\ view[a].at \in {"project", "shown"} => shows(view[a].profile, Global)
        /\ IF view[a].state = "current_project" THEN shows(view[a].anchor, ProjectOf[a])
           ELSE view[a].anchor = <<>>

CoreIsSound == UpdatesAddUp /\ ViewsAreCurrent

=============================================================================

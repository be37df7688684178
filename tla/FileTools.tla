------------------------------- MODULE FileTools -------------------------------
(***************************************************************************)
(* read_file, edit_file and write_file (infrastructure/tools/file): agents *)
(* of one process at work on the same files, each with the views of the    *)
(* files it has been shown, a lock per path for the tools that write, and  *)
(* somebody else, an editor or a shell command, who takes no lock.         *)
(*                                                                         *)
(* A file is its content, an atom whose digest is itself, and a stamp, its *)
(* modification time and size.  A tool looks at a file in several steps.   *)
(***************************************************************************)
EXTENDS Naturals, Sequences, SequencesExt

CONSTANTS
  Agents,
  Files,
  Contents,
  EditOf,      \* what an edit makes of a content its old_text occurs in once
  Missing,     \* no file
  Initially,   \* what the files may be at the start
  MaxViews,    \* _MAX_FILE_VIEWS
  MaxCalls,    \* bound on tool calls
  MaxForeign   \* bound on the writes of somebody else

VARIABLES
  disk,        \* file -> content or Missing
  stamp,       \* file -> modification time and size
  lock,        \* file -> the agent that holds its path lock, or "none"
  views,       \* agent -> file_views of its runtime, oldest first
  call,        \* agent -> its tool call
  calls, foreign,
  shown,       \* history: agent -> <<file, content, whole>> it was shown or wrote
  slipped,     \* history: agent -> files somebody else wrote behind its check
  misled       \* history: agents told "unchanged" of a content they never saw

vars == <<disk, stamp, lock, views, call, calls, foreign, shown, slipped, misled>>

FileToolsAssumption ==
  /\ Missing \notin Contents
  /\ DOMAIN EditOf \subseteq Contents /\ \A c \in DOMAIN EditOf : EditOf[c] \in Contents
  /\ Initially \subseteq Contents \cup {Missing}
  /\ MaxViews \in Nat \ {0}

\* metadata: a file that is missing has no time.
Metadata(f) == IF disk[f] = Missing THEN 0 ELSE stamp[f]

NoCall == [at |-> "idle", op |-> "none", file |-> "none", whole |-> FALSE,
           content |-> Missing, base |-> Missing, stamp |-> 0]

-----------------------------------------------------------------------------
(* Views                                                                   *)

Viewed(a, f)   == \E i \in DOMAIN views[a] : views[a][i].file = f
ViewOf(a, f)   == SelectSeq(views[a], LAMBDA v : v.file = f)[1]

\* FileView.is_complete
Complete(view) == view.origin = "write" \/ view.whole

View(f, content, origin, whole, at) ==
  [file |-> f, digest |-> content, origin |-> origin, whole |-> whole, stamp |-> at]

\* _remember_file_view: the newest last, the oldest one evicted.  (The limit on
\* their characters evicts in the same way.)
Remembered(known, view) ==
  LET others == SelectSeq(known, LAMBDA v : v.file # view.file)
  IN Append(IF Len(others) >= MaxViews THEN Tail(others) ELSE others, view)

\* _unread_or_stale
UnreadOrStale(a, f, require_complete) ==
  \/ ~Viewed(a, f)
  \/ require_complete /\ ~Complete(ViewOf(a, f))
  \/ LET view == ViewOf(a, f)
     IN disk[f] # view.digest \/ (~Complete(view) /\ Metadata(f) # view.stamp)

\* _unchanged_read_view of a view and a stat, and the digests compared before
Unchanged(view, whole, at, content) ==
  /\ view.origin = "read" /\ view.stamp = at /\ view.whole = whole
  /\ view.digest = content

-----------------------------------------------------------------------------
(* read_file takes no lock                                                 *)

Begin(a, op, f, whole, content) ==
  /\ call[a].at = "idle" /\ calls < MaxCalls
  /\ calls' = calls + 1
  /\ call' = [call EXCEPT ![a] =
                [NoCall EXCEPT !.at = "begin", !.op = op, !.file = f, !.whole = whole,
                               !.content = content]]
  /\ UNCHANGED <<disk, stamp, lock, views, foreign, shown, slipped, misled>>

Return(a) == call' = [call EXCEPT ![a] = NoCall]

\* The view the agent has, and a stat.
ReadStat(a) ==
  LET c == call[a] IN
  /\ c.at = "begin" /\ c.op = "read"
  /\ IF disk[c.file] = Missing THEN Return(a)
     ELSE call' = [call EXCEPT ![a].at = "stat", ![a].stamp = Metadata(c.file)]
  /\ UNCHANGED <<disk, stamp, lock, views, calls, foreign, shown, slipped, misled>>

\* The content; a view that matches it and the stat is told again as unchanged.
ReadContent(a) ==
  LET c    == call[a]
      f    == c.file
      same == Viewed(a, f) /\ Unchanged(ViewOf(a, f), c.whole, c.stamp, disk[f])
  IN
  /\ c.at = "stat"
  /\ CASE disk[f] = Missing -> Return(a) /\ UNCHANGED <<views, misled>>
       [] disk[f] # Missing /\ same ->
            /\ Return(a)
            /\ views' = [views EXCEPT ![a] = Remembered(@, ViewOf(a, f))]
            /\ misled' = IF <<f, disk[f], c.whole>> \in shown[a] THEN misled
                         ELSE misled \cup {a}
       [] OTHER ->
            /\ call' = [call EXCEPT ![a].at = "content", ![a].base = disk[f]]
            /\ UNCHANGED <<views, misled>>
  /\ UNCHANGED <<disk, stamp, lock, calls, foreign, shown, slipped>>

\* _stamp_read_view takes a stat of its own, after the content was read.
StampRead(a) ==
  LET c == call[a] IN
  /\ c.at = "content"
  /\ views' = [views EXCEPT ![a] =
                 Remembered(@, View(c.file, c.base, "read", c.whole, Metadata(c.file)))]
  /\ shown' = [shown EXCEPT ![a] = @ \cup {<<c.file, c.base, c.whole>>}]
  /\ Return(a)
  /\ UNCHANGED <<disk, stamp, lock, calls, foreign, slipped, misled>>

-----------------------------------------------------------------------------
(* edit_file and write_file hold the lock of the path                      *)

\* Mutant of Free: nobody waits.
FreeAnyway(f) == TRUE

Free(f) == lock[f] = "none"

\* The lock, and the check of the agent's view.
Check(a) ==
  LET c     == call[a]
      f     == c.file
      fails == IF c.op = "edit" THEN disk[f] = Missing \/ UnreadOrStale(a, f, FALSE)
               ELSE disk[f] # Missing /\ UnreadOrStale(a, f, TRUE)
  IN
  /\ c.at = "begin" /\ c.op \in {"edit", "write"}
  /\ Free(f)
  /\ IF fails THEN Return(a) /\ UNCHANGED lock
     ELSE /\ lock' = [lock EXCEPT ![f] = a]
          /\ call' = [call EXCEPT ![a].at = "checked"]
  /\ slipped' = [slipped EXCEPT ![a] = @ \ {f}]
  /\ UNCHANGED <<disk, stamp, views, calls, foreign, shown, misled>>

\* edit_file reads the content again; old_text does not occur in it, or once.
Reread(a) ==
  LET c == call[a] IN
  /\ c.at = "checked" /\ c.op = "edit"
  /\ IF disk[c.file] \in DOMAIN EditOf
     THEN /\ call' = [call EXCEPT ![a].at = "write", ![a].content = EditOf[disk[c.file]]]
          /\ UNCHANGED lock
     ELSE Return(a) /\ lock' = [lock EXCEPT ![c.file] = "none"]
  /\ UNCHANGED <<disk, stamp, views, calls, foreign, shown, slipped, misled>>

WriteDisk(a) ==
  LET c == call[a] IN
  /\ c.at = "write" \/ (c.at = "checked" /\ c.op = "write")
  /\ disk' = [disk EXCEPT ![c.file] = c.content]
  /\ stamp' = [stamp EXCEPT ![c.file] = @ + 1]
  /\ shown' = [shown EXCEPT ![a] = @ \cup {<<c.file, c.content, TRUE>>}]
  /\ call' = [call EXCEPT ![a].at = "stamp"]
  /\ UNCHANGED <<lock, views, calls, foreign, slipped, misled>>

\* The write raises: full disk, no permission, cancelled.
WriteFails(a) ==
  LET c == call[a] IN
  /\ c.at \in {"write", "checked"}
  /\ Return(a) /\ lock' = [lock EXCEPT ![c.file] = "none"]
  /\ UNCHANGED <<disk, stamp, views, calls, foreign, shown, slipped, misled>>

\* _stamp_write_view and the end of the lock
StampWrite(a) ==
  LET c == call[a] IN
  /\ c.at = "stamp"
  /\ views' = [views EXCEPT ![a] =
                 Remembered(@, View(c.file, c.content, "write", TRUE, Metadata(c.file)))]
  /\ Return(a) /\ lock' = [lock EXCEPT ![c.file] = "none"]
  /\ UNCHANGED <<disk, stamp, calls, foreign, shown, slipped, misled>>

\* Somebody else writes or removes a file, at any moment.
ForeignWrite(f, content) ==
  /\ foreign < MaxForeign /\ foreign' = foreign + 1
  /\ content # disk[f]
  /\ disk' = [disk EXCEPT ![f] = content]
  /\ stamp' = [stamp EXCEPT ![f] = @ + 1]
  /\ slipped' = [a \in Agents |-> slipped[a] \cup {f}]
  /\ UNCHANGED <<lock, views, call, calls, shown, misled>>

Init ==
  /\ disk \in [Files -> Initially] /\ stamp = [f \in Files |-> 1]
  /\ lock = [f \in Files |-> "none"]
  /\ views = [a \in Agents |-> <<>>]
  /\ call = [a \in Agents |-> NoCall]
  /\ calls = 0 /\ foreign = 0
  /\ shown = [a \in Agents |-> {}] /\ slipped = [a \in Agents |-> {}] /\ misled = {}

Next ==
  \/ \E a \in Agents, f \in Files :
       \/ \E whole \in BOOLEAN : Begin(a, "read", f, whole, Missing)
       \/ Begin(a, "edit", f, FALSE, Missing)
       \/ \E c \in Contents : Begin(a, "write", f, TRUE, c)
  \/ \E a \in Agents :
       \/ ReadStat(a) \/ ReadContent(a) \/ StampRead(a)
       \/ Check(a) \/ Reread(a) \/ WriteDisk(a) \/ WriteFails(a) \/ StampWrite(a)
  \/ \E f \in Files, c \in Contents \cup {Missing} : ForeignWrite(f, c)

Spec == Init /\ [][Next]_vars

-----------------------------------------------------------------------------
(* Properties                                                              *)

\* Every variable has its type; an agent has at most MaxViews views, one for a
\* file.
TypeOK ==
  /\ disk \in [Files -> Contents \cup {Missing}]
  /\ lock \in [Files -> Agents \cup {"none"}]
  /\ \A a \in Agents :
       /\ Len(views[a]) <= MaxViews
       /\ \A i, j \in DOMAIN views[a] : i # j => views[a][i].file # views[a][j].file
       /\ call[a].at \in {"idle", "begin", "stat", "content", "checked", "write", "stamp"}

\* What a tool replaces its agent knows: write_file only what the agent was
\* shown whole or wrote, edit_file at least a part; unless somebody who takes no
\* lock wrote the file behind the check.
ReplacesOnlyTheSeen ==
  [][\A a \in Agents :
       LET f == call[a].file IN
       WriteDisk(a) /\ disk[f] # Missing /\ f \notin slipped[a]
         => \E whole \in (IF call[a].op = "write" THEN {TRUE} ELSE BOOLEAN) :
              <<f, disk[f], whole>> \in shown[a]]_vars

\* "unchanged" is told only of a content the agent was shown.
UnchangedIsTrue == misled = {}

=============================================================================

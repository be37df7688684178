----------------------------- MODULE ChangeJournal -----------------------------
(***************************************************************************)
(* The change journal of a session (application/workspace/journal.py and   *)
(* domain/model/workspace/review.py): what a task's file tools and shell   *)
(* commands changed, and the review that accepts or reverts it.            *)
(*                                                                         *)
(* The task writes a file and notes it in two steps; a shell command is    *)
(* bracketed by two looks at `git status`; a background command's second   *)
(* look comes when it ends.  A review runs on a thread of the web server,  *)
(* with a journal object and so a lock of its own.  A user edits files and *)
(* commits.  Contents are atoms; their hashes are the contents themselves. *)
(***************************************************************************)
EXTENDS Naturals, Sequences, FiniteSets, Functions

CONSTANTS
  Paths,
  Texts,      \* contents the journal can store
  Large,      \* contents it cannot: over MAX_BLOB_BYTES, or binary
  Initially,  \* contents files may have before the task
  None,       \* no file, no hash
  Clean,      \* not listed by git status
  Shared,     \* paths that the user writes and commits too
  MaxWrites,  \* bound on writes of the task, the commands and the user
  MaxCommands,
  MaxReviews  \* bound on reviews

VARIABLES
  tree,       \* the files
  committed,  \* HEAD
  heads,      \* heads of journal.json
  copy,       \* the heads the review has loaded and not yet saved
  todo,       \* _record_task calls a thread has still to make
  task,       \* the task's thread: its tool call
  shell,      \* the background command and its capture
  web,        \* the review
  writes, commands, reviews,
  first,      \* history: the bytes before the task's first change
  wrote,      \* history: the bytes the task wrote last
  blurred     \* history: paths whose change no capture can attribute

journal == <<heads, copy, todo>>
files   == <<tree, committed, writes>>
counts  == <<commands, reviews>>
history == <<first, wrote, blurred>>
vars    == <<files, journal, task, shell, web, counts, history>>

Contents == Texts \cup Large
Unset    == "unset"
NoHead   == [kind |-> "none", review |-> "pending", reversible |-> FALSE,
             before |-> None, after |-> None]
NoCopy   == [p \in {} |-> NoHead]
Recorders == {"task", "reader"}

-----------------------------------------------------------------------------
(* git status and the snapshot                                             *)

\* _snapshot: None is a listed file that is missing.
Snapshot == [p \in Paths |-> IF tree[p] = committed[p] THEN Clean ELSE tree[p]]

Present(entry) == entry \notin {Clean, None}

\* _blob_bytes
Bytes(entry) == IF entry \in Texts THEN entry ELSE None

\* _head_bytes
HeadBytes(p) == IF committed[p] \in Texts THEN committed[p] ELSE None

\* _store_blob: nothing to store counts as stored.
Stored(bytes) == bytes = None \/ bytes \in Texts

-----------------------------------------------------------------------------
(* Recording                                                               *)

\* The head that _record_task makes of a call.
HeadOf(previous, call, before) ==
  LET known    == previous # NoHead
      storable == Stored(call.before) /\ (call.kind = "delete" \/ Stored(call.after))
  IN [kind       |-> IF known THEN previous.kind ELSE call.kind,
      review     |-> "pending",
      reversible |-> storable /\ (known => previous.reversible),
      before     |-> before,
      after      |-> call.after]

\* Mutant of Recorded: every record replaces what was before.
RecordedAgain(loaded, call) ==
  [loaded EXCEPT ![call.path] = HeadOf(@, call, call.before)]

\* _record_task: the first record keeps what was before.
Recorded(loaded, call) ==
  LET first_record == loaded[call.path] = NoHead
      kept == CASE ~first_record -> loaded[call.path].before
                [] first_record /\ call.kind = "add" -> None
                [] OTHER -> call.before
  IN [loaded EXCEPT ![call.path] = HeadOf(@, call, kept)]

Call(p, kind, before, after) == [path |-> p, kind |-> kind, before |-> before, after |-> after]

\* _apply_delta for one path: the call it makes, if it makes one.
Delta(p, old, new) ==
  CASE new = None /\ old = None -> {}
    [] new = None /\ old # None ->
         {Call(p, "delete", IF Bytes(old) = None THEN HeadBytes(p) ELSE Bytes(old), None)}
    [] new = Clean /\ Present(old) -> {Call(p, "delete", Bytes(old), None)}
    [] new = Clean /\ ~Present(old) -> {}
    [] Present(new) /\ old = new -> {}
    [] Present(new) /\ old = Clean ->
         {Call(p, IF HeadBytes(p) = None THEN "add" ELSE "modify", HeadBytes(p), Bytes(new))}
    [] OTHER -> {Call(p, "modify", Bytes(old), Bytes(new))}

Deltas(before, after) == UNION {Delta(p, before[p], after[p]) : p \in Paths}

\* A missing file that a command brings back as it was in HEAD.
Unrecorded(before) ==
  {p \in Paths : Snapshot[p] # before[p] /\ Delta(p, before[p], Snapshot[p]) = {}}

-----------------------------------------------------------------------------
(* History                                                                 *)

\* Somebody else changed p while a review is at work.
Moved(p) == web' = IF web.at = "idle" THEN web ELSE [web EXCEPT !.moved = @ \cup {p}]

\* The task changes p: what it held is what a revert has to give back.
TaskChanges(p, content) ==
  /\ writes < MaxWrites /\ writes' = writes + 1
  /\ tree[p] # content
  /\ tree' = [tree EXCEPT ![p] = content]
  /\ first' = [first EXCEPT ![p] = IF @ = Unset THEN tree[p] ELSE @]
  /\ wrote' = [wrote EXCEPT ![p] = content]
  /\ Moved(p)
  /\ UNCHANGED committed

\* Captures that are open, or ended and not yet recorded.
Captures == {w \in Recorders : IF w = "task" THEN task.at = "command"
                               ELSE shell.at = "running" \/ todo["reader"] # {}}

Blur(p, open) == blurred' = IF open = {} THEN blurred ELSE blurred \cup {p}

-----------------------------------------------------------------------------
(* The task                                                                *)

Idle == [at |-> "idle", snap |-> NoCopy]

\* _write_text: the file is written, then noted.
WriteFile(p, content) ==
  /\ task.at = "idle" /\ todo["task"] = {}
  /\ content \in Contents
  /\ TaskChanges(p, content)
  /\ todo' = [todo EXCEPT !["task"] =
       {Call(p, IF tree[p] = None THEN "add" ELSE "modify", tree[p], content)}]
  /\ Blur(p, Captures)
  /\ UNCHANGED <<heads, copy, task, shell, counts>>

\* execute_command: capture, then the shell.
StartCommand ==
  /\ task.at = "idle" /\ todo["task"] = {}
  /\ commands < MaxCommands /\ commands' = commands + 1
  /\ task' = [at |-> "command", snap |-> Snapshot]
  /\ UNCHANGED <<files, journal, shell, web, reviews, history>>

\* A command that runs writes, removes or commits a file.
CommandWrites(p, content) ==
  /\ task.at = "command" \/ shell.at = "running"
  /\ TaskChanges(p, content)
  /\ Blur(p, IF Captures = Recorders THEN Captures ELSE {})
  /\ UNCHANGED <<journal, task, shell, counts>>

\* It ended with a return code: commit_capture.
EndCommand ==
  /\ task.at = "command"
  /\ todo' = [todo EXCEPT !["task"] = Deltas(task.snap, Snapshot)]
  /\ task' = Idle
  /\ blurred' = blurred \cup Unrecorded(task.snap)
  /\ UNCHANGED <<files, heads, copy, shell, web, counts, first, wrote>>

\* Cancelled, or over its time where it may not go on: no second look.
AbandonCommand ==
  /\ task.at = "command"
  /\ task' = Idle
  /\ blurred' = blurred \cup {p \in Paths : Snapshot[p] # task.snap[p]}
  /\ UNCHANGED <<files, journal, shell, web, counts, first, wrote>>

\* It goes on in the background, where it may end before hold is called.
PublishCommand ==
  /\ task.at = "command" /\ shell.at = "none"
  /\ task' = [task EXCEPT !.at = "holding"]
  /\ shell' = [at |-> "running", held |-> FALSE, snap |-> task.snap]
  /\ UNCHANGED <<files, journal, web, counts, history>>

Hold ==
  /\ task.at = "holding"
  /\ task' = Idle
  /\ shell' = [shell EXCEPT !.held = TRUE]
  /\ UNCHANGED <<files, journal, web, counts, history>>

\* finish_held, on the reader's thread; without a capture nothing happens.
FinishHeld ==
  /\ shell.at = "running" /\ todo["reader"] = {}
  /\ shell' = [at |-> "none", held |-> FALSE, snap |-> NoCopy]
  /\ todo' = [todo EXCEPT !["reader"] =
       IF shell.held THEN Deltas(shell.snap, Snapshot) ELSE {}]
  /\ blurred' = IF shell.held THEN blurred \cup Unrecorded(shell.snap)
                ELSE blurred \cup {p \in Paths : Snapshot[p] # shell.snap[p]}
  /\ UNCHANGED <<files, heads, copy, task, web, counts, first, wrote>>

-----------------------------------------------------------------------------
(* Records: _record_task loads, changes and saves journal.json under a lock *)
(* the recorders share.                                                    *)

Record(r) ==
  /\ \E call \in todo[r] :
       /\ heads' = Recorded(heads, call)
       /\ todo' = [todo EXCEPT ![r] = @ \ {call}]
  /\ UNCHANGED <<files, copy, task, shell, web, counts, history>>

-----------------------------------------------------------------------------
(* The review                                                              *)

\* disposition of a head, given the file as it is listed
Disposition(head, current) ==
  CASE current # (IF head.kind = "delete" THEN None ELSE head.after) -> "conflict"
    [] OTHER -> IF ~head.reversible THEN "unsafe"
                ELSE IF head.review = "accepted" THEN "accepted" ELSE "task"

\* projection; a path without a head is blocked whether it is preexisting or
\* external, so the baseline is left out.
View(p) ==
  IF heads[p] = NoHead THEN "external"
  ELSE Disposition(heads[p], IF Present(Snapshot[p]) THEN Snapshot[p] ELSE None)

\* preflight: the states either action takes.
Ready == {"task", "accepted"}

Passes(paths) == \A p \in paths : View(p) \in Ready

NoReview == [at |-> "idle", action |-> "accept", left |-> <<>>, done |-> <<>>,
             seen |-> NoCopy, moved |-> {}]

\* projection and preflight: a batch with a blocked path ends here.
BeginReview(action, batch) ==
  /\ web.at = "idle" /\ reviews < MaxReviews
  /\ reviews' = reviews + 1 /\ UNCHANGED commands
  /\ web' = IF Passes(Range(batch))
            THEN [at |-> "apply", action |-> action, left |-> batch, done |-> <<>>,
                  seen |-> [p \in Range(batch) |-> tree[p]], moved |-> {}]
            ELSE web
  /\ UNCHANGED <<files, heads, copy, todo, task, shell, history>>

\* _mark_accepted
\* The web's journal has a lock of its own: it loads, and saves over what was
\* recorded meanwhile.
Load == copy = NoCopy /\ copy' = heads

Save(saved, moved) ==
  /\ copy # NoCopy
  /\ heads' = saved /\ copy' = NoCopy
  /\ blurred' = blurred \cup moved \cup {p \in Paths : heads[p] # copy[p]}

MarkLoad ==
  /\ web.at = "apply" /\ web.action = "accept" /\ web.left # <<>>
  /\ Load
  /\ UNCHANGED <<files, heads, todo, task, shell, web, counts, history>>

MarkSave ==
  /\ web.at = "apply" /\ web.action = "accept" /\ web.left # <<>>
  /\ Save([copy EXCEPT ![Head(web.left)].review = "accepted"], {})
  /\ web' = [web EXCEPT !.left = Tail(@)]
  /\ UNCHANGED <<files, todo, task, shell, counts, first, wrote>>

\* _write_restored: the stored bytes, or no file.
Restored(p, bytes) == tree' = [tree EXCEPT ![p] = bytes]

\* _restore_before
Restore ==
  /\ web.at = "apply" /\ web.action = "revert" /\ web.left # <<>>
  /\ LET p == Head(web.left) IN
     /\ heads[p] # NoHead
     /\ Restored(p, heads[p].before)
     /\ web' = [web EXCEPT !.left = Tail(@), !.done = Append(@, p)]
     /\ Blur(p, Captures)
  /\ UNCHANGED <<committed, writes, journal, task, shell, counts, first, wrote>>

\* It raises: a directory is in the way, a blob is gone or cannot be read.
RestoreFails ==
  /\ web.at = "apply" /\ web.action = "revert" /\ web.left # <<>>
  /\ web' = [web EXCEPT !.at = "rollback"]
  /\ UNCHANGED <<files, journal, task, shell, counts, history>>

\* _restore_after
RolledBack(p) ==
  IF heads[p] = NoHead THEN UNCHANGED tree ELSE Restored(p, heads[p].after)

RollBack ==
  /\ web.at = "rollback" /\ web.done # <<>>
  /\ LET p == web.done[Len(web.done)] IN
     /\ RolledBack(p)
     /\ web' = [web EXCEPT !.done = SubSeq(@, 1, Len(@) - 1)]
     /\ Blur(p, Captures)
  /\ UNCHANGED <<committed, writes, journal, task, shell, counts, first, wrote>>

\* applied: false
ReportFailure ==
  /\ web.at = "rollback" /\ web.done = <<>>
  /\ web' = NoReview
  /\ UNCHANGED <<files, journal, task, shell, counts, history>>

\* The heads of a reverted batch are dropped.
PopLoad ==
  /\ web.at = "apply" /\ web.action = "revert" /\ web.left = <<>>
  /\ Load
  /\ UNCHANGED <<files, heads, todo, task, shell, web, counts, history>>

PopSave ==
  /\ web.at = "apply" /\ web.action = "revert" /\ web.left = <<>>
  /\ Save([p \in Paths |-> IF p \in Range(web.done) THEN NoHead ELSE copy[p]],
          web.moved)
  /\ first' = [p \in Paths |-> IF p \in Range(web.done) THEN Unset ELSE first[p]]
  /\ web' = NoReview
  /\ UNCHANGED <<files, todo, task, shell, counts, wrote>>

EndAccept ==
  /\ web.at = "apply" /\ web.action = "accept" /\ web.left = <<>>
  /\ web' = NoReview
  /\ UNCHANGED <<files, journal, task, shell, counts, history>>

-----------------------------------------------------------------------------
(* The user, git and the process                                           *)

UserWrites(p, content) ==
  /\ writes < MaxWrites /\ writes' = writes + 1
  /\ tree[p] # content
  /\ tree' = [tree EXCEPT ![p] = content]
  /\ Moved(p)
  /\ Blur(p, Captures)
  /\ UNCHANGED <<committed, journal, task, shell, counts, first, wrote>>

Commit(p) ==
  /\ tree[p] # committed[p]
  /\ committed' = [committed EXCEPT ![p] = tree[p]]
  /\ Moved(p)
  /\ Blur(p, Captures)
  /\ UNCHANGED <<tree, writes, journal, task, shell, counts, first, wrote>>

Init ==
  /\ tree \in [Paths -> Initially] /\ committed \in [Paths -> Initially]
  /\ heads = [p \in Paths |-> NoHead]
  /\ copy = NoCopy
  /\ todo = [r \in Recorders |-> {}]
  /\ task = Idle /\ shell = [at |-> "none", held |-> FALSE, snap |-> NoCopy]
  /\ web = NoReview
  /\ writes = 0 /\ commands = 0 /\ reviews = 0
  /\ first = [p \in Paths |-> Unset] /\ wrote = [p \in Paths |-> Unset] /\ blurred = {}

Batches == {s \in [1..1 -> Paths] \cup [1..2 -> Paths] : IsInjective(s)}

Next ==
  \/ \E p \in Paths, c \in Contents : WriteFile(p, c)
  \/ \E p \in Paths, c \in Contents \cup {None} : CommandWrites(p, c)
  \/ \E p \in Shared, c \in Contents \cup {None} : UserWrites(p, c)
  \/ \E p \in Shared : Commit(p)
  \/ StartCommand \/ EndCommand \/ AbandonCommand \/ PublishCommand \/ Hold \/ FinishHeld
  \/ \E r \in Recorders : Record(r)
  \/ \E action \in {"accept", "revert"}, batch \in Batches : BeginReview(action, batch)
  \/ MarkLoad \/ MarkSave \/ Restore \/ RestoreFails \/ RollBack \/ ReportFailure
  \/ PopLoad \/ PopSave \/ EndAccept

Spec == Init /\ [][Next]_vars

-----------------------------------------------------------------------------
(* Properties                                                              *)

TypeOK ==
  /\ {tree, committed} \subseteq [Paths -> Contents \cup {None}]
  /\ \A p \in Paths : heads[p].before \in Contents \cup {None}
                      /\ heads[p].after \in Contents \cup {None}
  /\ task.at \in {"idle", "command", "holding"} /\ shell.at \in {"none", "running"}
  /\ web.at \in {"idle", "apply", "rollback"}
  /\ blurred \subseteq Paths

Reviewable(p) == View(p) \in Ready

\* What Revert would give back are the bytes from before the task first
\* touched the file, however often file tools and commands, in the background
\* too, wrote it since.
FirstBytesAreKept ==
  \A p \in Paths \ blurred :
    Reviewable(p) /\ (\A r \in Recorders : todo[r] = {}) /\ first[p] \notin Large
      => heads[p].before = first[p]

\* Nobody wrote the path since the review looked at it.
Quiet(p) == p \notin web.moved \cup blurred

\* What Revert replaces is what the task wrote last, bytes that HEAD
\* holds, or nothing.
OnlyTaskBytesAreReplaced ==
  [][\A p \in Paths : Restore /\ p = Head(web.left) /\ Quiet(p)
                      => tree[p] \in {wrote[p], committed[p], None}]_vars
=============================================================================

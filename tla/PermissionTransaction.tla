------------------------ MODULE PermissionTransaction ------------------------
(***************************************************************************)
(* infrastructure/permission_transaction.py: the permission stores and the *)
(* checkpoints change together or not at all.  A unit of work collects its *)
(* writes in memory, logs what the files held and what they will hold,     *)
(* replaces them one by one, marks the log committed and removes it.       *)
(* Whoever enters a transaction next finishes what a crash or a failure    *)
(* left behind, before it may read anything.                               *)
(*                                                                         *)
(* A file is replaced atomically (os.replace), yet the call can fail       *)
(* before or after the replacement: the directory is flushed afterwards.   *)
(* A process stands for one thread of one process; the threads of a        *)
(* process exclude one another with _LOCK as processes do with the file    *)
(* lock.  Which paths may be written, and the checksums, are left out.     *)
(***************************************************************************)
CONSTANTS Procs, Files, Values

VARIABLES
  disk,     \* the content of each file
  log,      \* the log in the journal directory: its state and its files
  lock,     \* the owner of permission-transaction.lock, as a set
  at,       \* where each process is
  pending,  \* _STATE.pending: what each file held, and what it will hold
  left,     \* files a replacement or a recovery has still to write
  failed,   \* the recovery has already failed for some file
  answer    \* how the last unit of work of the process ended

vars == <<disk, log, lock, at, pending, left, failed, answer>>

Nothing == [f \in {} |-> f]
NoLog   == [state |-> "none", files |-> Nothing]
Entry   == [before : Values, after : Values]
Entries == UNION {[S -> Entry] : S \in SUBSET Files}
Stages  == {"out", "recover", "open", "unit", "replace", "undo", "clean"}

TypeOK ==
  /\ disk \in [Files -> Values]
  /\ log \in [state : {"none", "PREPARED", "COMMITTED"}, files : Entries]
  /\ lock \in SUBSET Procs
  /\ at \in [Procs -> Stages]
  /\ pending \in [Procs -> Entries]
  /\ left \in [Procs -> SUBSET Files]
  /\ failed \in [Procs -> BOOLEAN]
  /\ answer \in [Procs -> {"none", "ok", "error"}]

Init ==
  /\ disk \in [Files -> Values]
  /\ log = NoLog /\ lock = {}
  /\ at = [p \in Procs |-> "out"]
  /\ pending = [p \in Procs |-> Nothing]
  /\ left = [p \in Procs |-> {}]
  /\ failed = [p \in Procs |-> FALSE]
  /\ answer = [p \in Procs |-> "none"]

-----------------------------------------------------------------------------

\* The process leaves its transaction with an answer; the lock is free.
Out(p, said) ==
  /\ at' = [at EXCEPT ![p] = "out"]
  /\ lock' = {}
  /\ pending' = [pending EXCEPT ![p] = Nothing]
  /\ left' = [left EXCEPT ![p] = {}]
  /\ failed' = [failed EXCEPT ![p] = FALSE]
  /\ answer' = [answer EXCEPT ![p] = said]

\* A replacement that fails may have taken effect or not.
MayReplace(f, v) == disk' \in {disk, [disk EXCEPT ![f] = v]}

\* Nothing may be read before recovery: it comes first unless there is no log.
FirstStage == IF log.state = "none" THEN "open" ELSE "recover"

\* transaction: the lock, then _recover.
Enter(p) ==
  /\ at[p] = "out" /\ lock = {}
  /\ lock' = {p}
  /\ at' = [at EXCEPT ![p] = FirstStage]
  /\ left' = [left EXCEPT ![p] = DOMAIN log.files]
  /\ UNCHANGED <<disk, log, pending, failed, answer>>

\* Every log is finished, even one that was only prepared.
RestoredForward(f) == log.files[f].after

\* _recover_log: what is on disk decides, forwards once it says COMMITTED.
Restored(f) == IF log.state = "COMMITTED" THEN log.files[f].after ELSE log.files[f].before

\* One file is restored; a failure is remembered and the others still tried.
RestoreFile(p) ==
  /\ at[p] \in {"recover", "undo"}
  /\ \E f \in left[p] :
       /\ left' = [left EXCEPT ![p] = @ \ {f}]
       /\ \/ /\ disk' = [disk EXCEPT ![f] = Restored(f)]
             /\ UNCHANGED failed
          \/ /\ MayReplace(f, Restored(f))
             /\ failed' = [failed EXCEPT ![p] = TRUE]
  /\ UNCHANGED <<log, lock, at, pending, answer>>

\* Every file is restored: the log goes.  A unit of work that failed ends
\* with its error; whoever entered goes on.
Recovered(p) ==
  /\ at[p] \in {"recover", "undo"} /\ left[p] = {} /\ ~failed[p]
  /\ log' = NoLog
  /\ IF at[p] = "undo" THEN Out(p, "error")
     ELSE /\ at' = [at EXCEPT ![p] = "open"]
          /\ UNCHANGED <<lock, pending, left, failed, answer>>
  /\ UNCHANGED disk

\* Some file, or the removal of the log, failed: no authority is issued.
RecoveryFails(p) ==
  /\ at[p] \in {"recover", "undo"} /\ left[p] = {}
  /\ IF failed[p] THEN UNCHANGED log ELSE log' \in {log, NoLog}
  /\ Out(p, "error")
  /\ UNCHANGED disk

-----------------------------------------------------------------------------

\* atomic_write outside a unit of work: one file, replaced at once.
WriteOne(p) ==
  /\ at[p] = "open"
  /\ \E f \in Files, v \in Values :
       \/ /\ disk' = [disk EXCEPT ![f] = v]
          /\ UNCHANGED <<at, lock, pending, left, failed, answer>>
       \/ MayReplace(f, v) /\ Out(p, "error")
  /\ UNCHANGED log

\* The transaction ends, or its body raises: so does a unit of work whose
\* body raises, and which has written nothing.
Exit(p) ==
  /\ at[p] \in {"open", "unit"}
  /\ Out(p, IF at[p] = "open" THEN answer[p] ELSE "error")
  /\ UNCHANGED <<disk, log>>

StartUnit(p) ==
  /\ at[p] = "open"
  /\ at' = [at EXCEPT ![p] = "unit"]
  /\ pending' = [pending EXCEPT ![p] = Nothing]
  /\ UNCHANGED <<disk, log, lock, left, failed, answer>>

\* What a file held is what it held before the first write of the unit.
Before(p, f) == IF f \in DOMAIN pending[p] THEN pending[p][f].before ELSE disk[f]

\* atomic_write inside a unit of work.
Stage(p) ==
  /\ at[p] = "unit"
  /\ \E f \in Files, v \in Values :
       LET entry == [before |-> Before(p, f), after |-> v] IN
       pending' = [pending EXCEPT ![p] =
         [g \in DOMAIN pending[p] \cup {f} |-> IF g = f THEN entry ELSE pending[p][g]]]
  /\ UNCHANGED <<disk, log, lock, at, left, failed, answer>>

\* A unit of work without a write is over at once.
NothingToDo(p) ==
  /\ at[p] = "unit" /\ pending[p] = Nothing
  /\ at' = [at EXCEPT ![p] = "open"]
  /\ UNCHANGED <<disk, log, lock, pending, left, failed, answer>>

\* The log is written first.  It may fail, and leave a log that changes nothing.
Prepare(p) ==
  LET prepared == [state |-> "PREPARED", files |-> pending[p]] IN
  /\ at[p] = "unit" /\ pending[p] # Nothing
  /\ \/ /\ log' = prepared
        /\ at' = [at EXCEPT ![p] = "replace"]
        /\ left' = [left EXCEPT ![p] = DOMAIN pending[p]]
        /\ UNCHANGED <<lock, pending, failed, answer>>
     \/ log' \in {log, prepared} /\ Out(p, "error")
  /\ UNCHANGED disk

\* A failure is undone from the log, by what the log says on disk.
ToUndo(p) ==
  /\ at' = [at EXCEPT ![p] = "undo"]
  /\ left' = [left EXCEPT ![p] = DOMAIN log.files]
  /\ UNCHANGED <<lock, pending, failed, answer>>

ReplaceFile(p) ==
  /\ at[p] = "replace"
  /\ \E f \in left[p] :
       \/ /\ disk' = [disk EXCEPT ![f] = pending[p][f].after]
          /\ left' = [left EXCEPT ![p] = @ \ {f}]
          /\ UNCHANGED <<at, lock, pending, failed, answer>>
       \/ MayReplace(f, pending[p][f].after) /\ ToUndo(p)
  /\ UNCHANGED log

MarkCommitted(p) ==
  LET marked == [log EXCEPT !.state = "COMMITTED"] IN
  /\ at[p] = "replace" /\ left[p] = {}
  /\ \/ /\ log' = marked
        /\ at' = [at EXCEPT ![p] = "clean"]
        /\ UNCHANGED <<lock, pending, left, failed, answer>>
     \/ log' \in {log, marked} /\ ToUndo(p)
  /\ UNCHANGED disk

\* The log is removed, and only then is the unit reported as done.  When that
\* fails the caller gets an error for a unit that has taken effect.
Clean(p) ==
  /\ at[p] = "clean"
  /\ \/ /\ log' = NoLog
        /\ at' = [at EXCEPT ![p] = "open"]
        /\ pending' = [pending EXCEPT ![p] = Nothing]
        /\ answer' = [answer EXCEPT ![p] = "ok"]
        /\ UNCHANGED <<lock, left, failed>>
     \/ log' \in {log, NoLog} /\ Out(p, "error")
  /\ UNCHANGED disk

\* The process dies: its lock goes with it, what it wrote stays.
Crash(p) ==
  /\ at[p] # "out"
  /\ Out(p, "none")
  /\ UNCHANGED <<disk, log>>

Step(p) ==
  \/ Enter(p) \/ RestoreFile(p) \/ Recovered(p) \/ RecoveryFails(p)
  \/ WriteOne(p) \/ Exit(p) \/ StartUnit(p) \/ Stage(p) \/ NothingToDo(p)
  \/ Prepare(p) \/ ReplaceFile(p) \/ MarkCommitted(p) \/ Clean(p) \/ Crash(p)

Next == \E p \in Procs : Step(p)

Spec == Init /\ [][Next]_vars

-----------------------------------------------------------------------------

\* What the files hold once recovery has run.
Visible ==
  [f \in Files |->
     IF f \notin DOMAIN log.files THEN disk[f]
     ELSE IF log.state = "COMMITTED" THEN log.files[f].after ELSE log.files[f].before]

\* Whoever may read, in a transaction or in the body of a unit of work, reads
\* files no failed or dead unit has left half written (transaction, _recover).
ReadsAreWhole ==
  \A p \in Procs : at[p] \in {"open", "unit"} => lock = {p} /\ disk = Visible

Committed == {p \in Procs : at[p] \in {"clean", "undo"} /\ log.state = "COMMITTED"}
Writes    == [p \in Procs |-> [f \in DOMAIN pending[p] |-> pending[p][f].after]]

Atomic == INSTANCE AtomicFiles
            WITH content <- Visible, owner <- lock, work <- Writes, done <- Committed

\* A unit of work changes all its files at the moment its log says COMMITTED,
\* whoever fails or dies while they are replaced, restored or removed, and a
\* process is told "ok" only when that has happened.
ImplementsAtomicFiles == Atomic!Spec

=============================================================================

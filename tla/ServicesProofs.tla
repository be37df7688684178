----------------------------- MODULE ServicesProofs -----------------------------
(***************************************************************************)
(* Proofs about the services that MCServices checks, for every value of    *)
(* the constants: the transaction of the permission files, the triggers of *)
(* the jobs, the processes of a shell command and the loops of a session.  *)
(* The end of each part states what MCServices checks of it.               *)
(*                                                                         *)
(* Of the transaction: whoever may read reads whole units of work, and the *)
(* transactions implement AtomicFiles, for any number of processes, files  *)
(* and contents.                                                           *)
(***************************************************************************)
EXTENDS MCServices, Sequences, FiniteSetTheorems, FunctionTheorems, WellFoundedInduction, TLAPS

\* Only the owner of the lock is inside a transaction, and a unit of work
\* exists only there.
Alone ==
  \A p \in Procs :
    /\ at[p] # "out" => lock = {p}
    /\ at[p] \in {"out", "recover", "open"} => pending[p] = Nothing

\* What the log on disk is at each stage, and what it says of the files.
LogFits ==
  /\ log.state = "none" => log.files = Nothing
  /\ \A p \in Procs :
       /\ at[p] \in {"open", "unit"} => log.state = "none"
       /\ at[p] = "unit" =>
            \A f \in DOMAIN pending[p] : pending[p][f].before = disk[f]
       /\ at[p] = "replace" => log.state = "PREPARED"
       /\ at[p] = "clean" => log.state = "COMMITTED"
       /\ at[p] \in {"recover", "undo"} => log.state # "none"
       /\ at[p] \in {"replace", "clean", "undo"} => log.files = pending[p]

\* What is left to write; the rest has been written.
Progress ==
  \A p \in Procs :
    /\ at[p] \in {"recover", "undo"} =>
         /\ left[p] \subseteq DOMAIN log.files
         /\ ~failed[p] => \A f \in DOMAIN log.files \ left[p] : disk[f] = Restored(f)
    /\ at[p] \in {"replace", "clean"} =>
         /\ left[p] \subseteq DOMAIN pending[p]
         /\ at[p] = "clean" => left[p] = {}
         /\ \A f \in DOMAIN pending[p] \ left[p] : disk[f] = pending[p][f].after

IInv == TypeOK /\ Alone /\ LogFits /\ Progress

-----------------------------------------------------------------------------

LEMMA NothingIsEntries == Nothing \in Entries /\ DOMAIN Nothing = {}
<1>1. Nothing \in [{} -> Entry]
  BY DEF Nothing
<1> QED
  BY <1>1 DEF Entries, Nothing

LEMMA EntriesFacts ==
  ASSUME NEW e \in Entries
  PROVE  /\ DOMAIN e \subseteq Files
         /\ \A f \in DOMAIN e : e[f] \in Entry
BY DEF Entries

\* One more write of a unit of work.
LEMMA EntriesGrow ==
  ASSUME NEW e \in Entries, NEW f \in Files, NEW x \in Entry,
         NEW g, g = [h \in DOMAIN e \cup {f} |-> IF h = f THEN x ELSE e[h]]
  PROVE  g \in Entries
<1>1. DOMAIN e \cup {f} \in SUBSET Files
  BY EntriesFacts
<1>2. g \in [DOMAIN e \cup {f} -> Entry]
  BY EntriesFacts
<1> QED
  BY <1>1, <1>2 DEF Entries

\* What Restored and the writes of a unit put on disk are contents.
LEMMA LoggedValues ==
  ASSUME TypeOK
  PROVE  /\ DOMAIN log.files \subseteq Files
         /\ \A f \in DOMAIN log.files :
              /\ log.files[f].before \in Values /\ log.files[f].after \in Values
              /\ Restored(f) \in Values
         /\ \A p \in Procs : DOMAIN pending[p] \subseteq Files
         /\ \A p \in Procs : \A f \in DOMAIN pending[p] :
              pending[p][f].before \in Values /\ pending[p][f].after \in Values
<1>1. log.files \in Entries
  BY DEF TypeOK
<1>2. \A p \in Procs : pending[p] \in Entries
  BY DEF TypeOK
<1> QED
  BY <1>1, <1>2, EntriesFacts DEF Restored, Entry

LEMMA TypeInit == Init => TypeOK
<1> SUFFICES ASSUME Init PROVE TypeOK
  OBVIOUS
<1>1. log \in [state : {"none", "PREPARED", "COMMITTED"}, files : Entries]
  BY NothingIsEntries DEF Init, NoLog
<1>2. pending \in [Procs -> Entries]
  BY NothingIsEntries DEF Init
<1> QED
  BY <1>1, <1>2 DEF Init, TypeOK, Stages

LEMMA OutTypes ==
  ASSUME TypeOK, NEW p \in Procs, NEW said \in {"none", "ok", "error"}, Out(p, said)
  PROVE  /\ lock' \in SUBSET Procs /\ at' \in [Procs -> Stages]
         /\ pending' \in [Procs -> Entries] /\ left' \in [Procs -> SUBSET Files]
         /\ failed' \in [Procs -> BOOLEAN] /\ answer' \in [Procs -> {"none", "ok", "error"}]
<1>1. pending' \in [Procs -> Entries]
  BY NothingIsEntries DEF Out, TypeOK
<1> QED
  BY <1>1 DEF Out, TypeOK, Stages

LEMMA ToUndoTypes ==
  ASSUME TypeOK, NEW p \in Procs, ToUndo(p)
  PROVE  /\ lock' \in SUBSET Procs /\ at' \in [Procs -> Stages]
         /\ pending' \in [Procs -> Entries] /\ left' \in [Procs -> SUBSET Files]
         /\ failed' \in [Procs -> BOOLEAN] /\ answer' \in [Procs -> {"none", "ok", "error"}]
BY LoggedValues DEF ToUndo, TypeOK, Stages

LEMMA TypeStep == IInv /\ [Next]_vars => TypeOK'
<1> SUFFICES ASSUME TypeOK, Progress, [Next]_vars PROVE TypeOK'
  BY DEF IInv
<1> USE LoggedValues
<1>1. ASSUME NEW p \in Procs, Enter(p) PROVE TypeOK'
  BY <1>1 DEF Enter, TypeOK, Stages, FirstStage
<1>2. ASSUME NEW p \in Procs, RestoreFile(p) PROVE TypeOK'
  <2>1. PICK f \in left[p] :
          /\ left' = [left EXCEPT ![p] = @ \ {f}]
          /\ disk' \in {disk, [disk EXCEPT ![f] = Restored(f)]}
          /\ failed' \in {failed, [failed EXCEPT ![p] = TRUE]}
    BY <1>2 DEF RestoreFile, MayReplace
  <2>2. f \in Files /\ Restored(f) \in Values
    BY <1>2 DEF RestoreFile, Progress, TypeOK
  <2>3. disk' \in [Files -> Values]
    BY <2>1, <2>2 DEF TypeOK
  <2>4. left' \in [Procs -> SUBSET Files]
    BY <2>1 DEF TypeOK
  <2>5. failed' \in [Procs -> BOOLEAN]
    BY <2>1, Zenon DEF TypeOK
  <2> QED
    BY <2>3, <2>4, <2>5, <1>2 DEF RestoreFile, TypeOK
<1>3. ASSUME NEW p \in Procs, Recovered(p) PROVE TypeOK'
  <2>1. log' \in [state : {"none", "PREPARED", "COMMITTED"}, files : Entries]
    BY <1>3, NothingIsEntries DEF Recovered, NoLog
  <2>2. CASE at[p] = "undo"
    BY <2>1, <2>2, <1>3, OutTypes DEF Recovered, TypeOK
  <2>3. CASE at[p] # "undo"
    BY <2>1, <2>3, <1>3 DEF Recovered, TypeOK, Stages
  <2> QED
    BY <2>2, <2>3
<1>4. ASSUME NEW p \in Procs, RecoveryFails(p) PROVE TypeOK'
  <2>1. log' \in [state : {"none", "PREPARED", "COMMITTED"}, files : Entries]
    BY <1>4, NothingIsEntries DEF RecoveryFails, NoLog, TypeOK
  <2> QED
    BY <2>1, <1>4, OutTypes DEF RecoveryFails, TypeOK
<1>5. ASSUME NEW p \in Procs, WriteOne(p) PROVE TypeOK'
  <2>1. disk' \in [Files -> Values] /\ UNCHANGED log
    BY <1>5 DEF WriteOne, MayReplace, TypeOK
  <2>2. CASE Out(p, "error")
    BY <2>1, <2>2, OutTypes DEF TypeOK
  <2>3. CASE UNCHANGED <<at, lock, pending, left, failed, answer>>
    BY <2>1, <2>3 DEF TypeOK
  <2> QED
    BY <1>5, <2>2, <2>3 DEF WriteOne
<1>6. ASSUME NEW p \in Procs, Exit(p) PROVE TypeOK'
  BY <1>6, OutTypes DEF Exit, TypeOK
<1>7. ASSUME NEW p \in Procs, StartUnit(p) PROVE TypeOK'
  <2>1. pending' \in [Procs -> Entries]
    BY <1>7, NothingIsEntries DEF StartUnit, TypeOK
  <2> QED
    BY <2>1, <1>7 DEF StartUnit, TypeOK, Stages
<1>8. ASSUME NEW p \in Procs, Stage(p) PROVE TypeOK'
  <2>1. PICK f \in Files, v \in Values :
          pending' = [pending EXCEPT ![p] =
            [g \in DOMAIN pending[p] \cup {f} |->
               IF g = f THEN [before |-> Before(p, f), after |-> v] ELSE pending[p][g]]]
    BY <1>8 DEF Stage
  <2>2. [before |-> Before(p, f), after |-> v] \in Entry
    BY DEF Before, TypeOK, Entry
  <2>3. pending[p] \in Entries
    BY DEF TypeOK
  <2>4. pending' \in [Procs -> Entries]
    <3> DEFINE grown == [g \in DOMAIN pending[p] \cup {f} |->
               IF g = f THEN [before |-> Before(p, f), after |-> v] ELSE pending[p][g]]
    <3>1. grown \in Entries
      BY <2>2, <2>3, EntriesGrow
    <3> HIDE DEF grown
    <3> QED
      BY <2>1, <3>1 DEF TypeOK, grown
  <2> QED
    BY <2>4, <1>8 DEF Stage, TypeOK
<1>9. ASSUME NEW p \in Procs, NothingToDo(p) PROVE TypeOK'
  BY <1>9 DEF NothingToDo, TypeOK, Stages
<1>10. ASSUME NEW p \in Procs, Prepare(p) PROVE TypeOK'
  <2>1. /\ log' \in [state : {"none", "PREPARED", "COMMITTED"}, files : Entries]
        /\ disk' = disk
    BY <1>10 DEF Prepare, TypeOK
  <2>2. CASE Out(p, "error")
    BY <2>1, <2>2, OutTypes DEF TypeOK
  <2>3. CASE ~Out(p, "error")
    <3>1. /\ at' = [at EXCEPT ![p] = "replace"]
          /\ left' = [left EXCEPT ![p] = DOMAIN pending[p]]
          /\ UNCHANGED <<lock, pending, failed, answer>>
      BY <2>3, <1>10 DEF Prepare
    <3>2. left' \in [Procs -> SUBSET Files] /\ at' \in [Procs -> Stages]
      BY <3>1 DEF TypeOK, Stages
    <3> QED
      BY <2>1, <3>1, <3>2 DEF TypeOK
  <2> QED
    BY <2>2, <2>3
<1>11. ASSUME NEW p \in Procs, ReplaceFile(p) PROVE TypeOK'
  <2>1. PICK f \in left[p] :
          \/ /\ disk' = [disk EXCEPT ![f] = pending[p][f].after]
             /\ left' = [left EXCEPT ![p] = @ \ {f}]
             /\ UNCHANGED <<at, lock, pending, failed, answer>>
          \/ MayReplace(f, pending[p][f].after) /\ ToUndo(p)
    BY <1>11 DEF ReplaceFile
  <2>2. f \in Files /\ pending[p][f].after \in Values
    BY <1>11 DEF ReplaceFile, Progress, TypeOK
  <2>3. disk' \in [Files -> Values] /\ UNCHANGED log
    BY <2>1, <2>2, <1>11 DEF ReplaceFile, MayReplace, TypeOK
  <2>4. CASE ToUndo(p)
    BY <2>3, <2>4, ToUndoTypes DEF TypeOK
  <2>5. CASE ~ToUndo(p)
    BY <2>1, <2>3, <2>5 DEF TypeOK
  <2> QED
    BY <2>4, <2>5
<1>12. ASSUME NEW p \in Procs, MarkCommitted(p) PROVE TypeOK'
  <2>1. /\ log' \in [state : {"none", "PREPARED", "COMMITTED"}, files : Entries]
        /\ disk' = disk
    BY <1>12 DEF MarkCommitted, TypeOK
  <2>2. CASE ToUndo(p)
    BY <2>1, <2>2, ToUndoTypes DEF TypeOK
  <2>3. CASE ~ToUndo(p)
    BY <2>1, <2>3, <1>12 DEF MarkCommitted, TypeOK, Stages
  <2> QED
    BY <2>2, <2>3
<1>13. ASSUME NEW p \in Procs, Clean(p) PROVE TypeOK'
  <2>1. /\ log' \in [state : {"none", "PREPARED", "COMMITTED"}, files : Entries]
        /\ disk' = disk
    BY <1>13, NothingIsEntries DEF Clean, TypeOK, NoLog
  <2>2. CASE Out(p, "error")
    BY <2>1, <2>2, OutTypes DEF TypeOK
  <2>3. CASE ~Out(p, "error")
    <3>1. pending' \in [Procs -> Entries]
      BY <2>3, <1>13, NothingIsEntries DEF Clean, TypeOK
    <3> QED
      BY <2>1, <3>1, <2>3, <1>13 DEF Clean, TypeOK, Stages
  <2> QED
    BY <2>2, <2>3
<1>14. ASSUME NEW p \in Procs, Crash(p) PROVE TypeOK'
  BY <1>14, OutTypes DEF Crash, TypeOK
<1>15. CASE UNCHANGED vars
  BY <1>15 DEF vars, TypeOK
<1> QED
  BY <1>1, <1>2, <1>3, <1>4, <1>5, <1>6, <1>7, <1>8, <1>9, <1>10, <1>11, <1>12,
     <1>13, <1>14, <1>15 DEF Next, Step

-----------------------------------------------------------------------------
(* The inductive invariant.                                                *)

\* Whoever leaves was alone: nobody is inside afterwards.
LEMMA OutKeeps ==
  ASSUME TypeOK, Alone, NEW p \in Procs, at[p] # "out", NEW said, Out(p, said),
         log'.state = "none" => log'.files = Nothing
  PROVE  /\ (Alone /\ LogFits /\ Progress)'
         /\ \A q \in Procs : at'[q] = "out" /\ pending'[q] = Nothing
<1>1. \A q \in Procs : at'[q] = "out" /\ pending'[q] = Nothing
  <2>1. \A q \in Procs \ {p} : at[q] = "out"
    BY DEF Alone
  <2> QED
    BY <2>1 DEF Alone, Out, TypeOK
<1> QED
  BY <1>1 DEF Alone, LogFits, Progress

\* The other processes are out: only p can disturb the invariant.
LEMMA OthersOut ==
  ASSUME Alone, NEW p \in Procs, at[p] # "out"
  PROVE  \A q \in Procs : q # p => at[q] = "out" /\ pending[q] = Nothing
BY DEF Alone

LEMMA EnterKeeps ==
  ASSUME IInv, TypeOK', NEW p \in Procs, Enter(p)
  PROVE  (Alone /\ LogFits /\ Progress)'
<1> USE DEF IInv, TypeOK
<1>1. \A q \in Procs : at[q] = "out" /\ pending[q] = Nothing
  BY DEF Alone, Enter
<1>2. at'[p] \in {"open", "recover"} /\ \A q \in Procs : q # p => at'[q] = "out"
  BY <1>1 DEF Enter, FirstStage
<1>3. Alone'
  BY <1>1, <1>2 DEF Enter, Alone
<1>4. LogFits'
  BY <1>1, <1>2 DEF Enter, LogFits, FirstStage
<1>5. Progress'
  BY <1>1, <1>2 DEF Enter, Progress
<1> QED
  BY <1>3, <1>4, <1>5

LEMMA RestoreKeeps ==
  ASSUME IInv, TypeOK', NEW p \in Procs, RestoreFile(p)
  PROVE  (Alone /\ LogFits /\ Progress)'
<1> USE DEF IInv, TypeOK
<1>0. \A q \in Procs : q # p => at[q] = "out" /\ pending[q] = Nothing
  BY OthersOut DEF RestoreFile
<1>1. UNCHANGED <<log, lock, at, pending>> /\ at[p] \in {"recover", "undo"}
  BY DEF RestoreFile
<1>2. Alone'
  BY <1>1 DEF Alone
<1>3. LogFits'
  BY <1>0, <1>1 DEF LogFits
<1>4. PICK f \in left[p] :
        /\ left' = [left EXCEPT ![p] = @ \ {f}]
        /\ \/ disk' = [disk EXCEPT ![f] = Restored(f)] /\ failed' = failed
           \/ failed' = [failed EXCEPT ![p] = TRUE]
  BY DEF RestoreFile
<1>5. left'[p] = left[p] \ {f} /\ f \in Files /\ left[p] \subseteq DOMAIN log.files
  BY <1>1, <1>4 DEF Progress
<1>6. ASSUME ~failed'[p], NEW g \in DOMAIN log.files \ left'[p]
      PROVE  disk'[g] = Restored(g)
  <2>1. disk' = [disk EXCEPT ![f] = Restored(f)] /\ failed' = failed
    BY <1>4, <1>6
  <2>2. CASE g = f
    BY <2>1, <2>2, <1>5
  <2>3. CASE g # f
    BY <2>1, <2>3, <1>1, <1>5, <1>6 DEF Progress
  <2> QED BY <2>2, <2>3
<1>7. \A g \in DOMAIN log.files : Restored(g)' = Restored(g)
  BY <1>1 DEF Restored
<1>8. Progress'
  BY <1>0, <1>1, <1>5, <1>6, <1>7 DEF Progress
<1> QED
  BY <1>2, <1>3, <1>8

LEMMA RecoveredKeeps ==
  ASSUME IInv, TypeOK', NEW p \in Procs, Recovered(p)
  PROVE  (Alone /\ LogFits /\ Progress)'
<1> USE DEF IInv, TypeOK
<1>0. \A q \in Procs : q # p => at[q] = "out" /\ pending[q] = Nothing
  BY OthersOut DEF Recovered
<1>1. log'.state = "none" /\ log'.files = Nothing
  BY DEF Recovered, NoLog
<1>2. CASE at[p] = "undo"
  BY <1>1, <1>2, OutKeeps DEF Recovered
<1>3. CASE at[p] = "recover"
  <2>1. at' = [at EXCEPT ![p] = "open"] /\ UNCHANGED <<lock, pending, left, failed>>
    BY <1>3 DEF Recovered
  <2>2. Alone'
    BY <2>1, <1>3, <1>0 DEF Alone
  <2>3. LogFits' /\ Progress'
    BY <2>1, <1>0, <1>1 DEF LogFits, Progress
  <2> QED BY <2>2, <2>3
<1> QED
  BY <1>2, <1>3 DEF Recovered

\* The steps that leave the transaction.
LEMMA LeavingKeeps ==
  ASSUME IInv, NEW p \in Procs,
         \/ RecoveryFails(p) \/ Exit(p) \/ Crash(p)
         \/ (WriteOne(p) \/ Prepare(p) \/ Clean(p)) /\ Out(p, "error")
  PROVE  (Alone /\ LogFits /\ Progress)'
<1> USE DEF IInv
<1>1. at[p] # "out"
  BY DEF RecoveryFails, Exit, Crash, WriteOne, Prepare, Clean
<1>2. log'.state = "none" => log'.files = Nothing
  <2>1. log' = log \/ log' = NoLog \/ log'.state = "PREPARED"
    BY DEF RecoveryFails, Exit, Crash, WriteOne, Prepare, Clean
  <2> QED BY <2>1 DEF NoLog, LogFits
<1>3. \E said : Out(p, said)
  BY DEF RecoveryFails, Exit, Crash
<1> QED
  BY <1>1, <1>2, <1>3, OutKeeps

\* The steps of an open transaction that stay in it.
LEMMA OpenKeeps ==
  ASSUME IInv, TypeOK', NEW p \in Procs,
         \/ WriteOne(p) /\ ~Out(p, "error")
         \/ StartUnit(p) \/ Stage(p) \/ NothingToDo(p)
  PROVE  (Alone /\ LogFits /\ Progress)'
<1> USE DEF IInv, TypeOK
<1>0. \A q \in Procs : q # p => at[q] = "out" /\ pending[q] = Nothing
  BY OthersOut DEF WriteOne, StartUnit, Stage, NothingToDo
<1>a. at[p] \in {"open", "unit"} /\ UNCHANGED <<log, lock, left, failed>>
  BY DEF WriteOne, StartUnit, Stage, NothingToDo
<1>b. lock = {p} /\ log.state = "none" /\ log.files = Nothing
  BY <1>a DEF Alone, LogFits
<1>c. at'[p] \in {"open", "unit"}
  BY <1>a DEF WriteOne, StartUnit, Stage, NothingToDo
<1>d. \A q \in Procs : q # p => at'[q] = at[q] /\ pending'[q] = pending[q]
  BY DEF WriteOne, StartUnit, Stage, NothingToDo
<1>1. /\ at[p] \in {"open", "unit"} /\ lock = {p} /\ log.state = "none" /\ log.files = Nothing
      /\ UNCHANGED <<log, lock, left, failed>>
      /\ at'[p] \in {"open", "unit"}
      /\ \A q \in Procs : q # p => at'[q] = "out" /\ pending'[q] = Nothing
  BY <1>0, <1>a, <1>b, <1>c, <1>d
<1>2. at'[p] = "open" => pending'[p] = Nothing
  <2>1. CASE WriteOne(p) /\ ~Out(p, "error")
    BY <2>1 DEF WriteOne, Alone
  <2>2. CASE StartUnit(p) \/ Stage(p)
    BY <2>2 DEF StartUnit, Stage
  <2>3. CASE NothingToDo(p)
    BY <2>3 DEF NothingToDo
  <2> QED BY <2>1, <2>2, <2>3
<1>3. at'[p] = "unit" => \A f \in DOMAIN pending'[p] : pending'[p][f].before = disk'[f]
  <2>1. CASE WriteOne(p) /\ ~Out(p, "error")
    BY <2>1 DEF WriteOne
  <2>2. CASE StartUnit(p)
    BY <2>2, NothingIsEntries DEF StartUnit
  <2>3. CASE Stage(p)
    <3>1. PICK f \in Files, v \in Values :
            pending'[p] = [g \in DOMAIN pending[p] \cup {f} |->
               IF g = f THEN [before |-> Before(p, f), after |-> v] ELSE pending[p][g]]
      BY <2>3 DEF Stage
    <3>2. \A g \in DOMAIN pending[p] : pending[p][g].before = disk[g]
      BY <2>3 DEF Stage, LogFits
    <3> QED
      BY <2>3, <3>1, <3>2 DEF Stage, Before
  <2>4. CASE NothingToDo(p)
    BY <2>4 DEF NothingToDo
  <2> QED BY <2>1, <2>2, <2>3, <2>4
<1>4. Alone'
  BY <1>1, <1>2 DEF Alone
<1>5. LogFits' /\ Progress'
  BY <1>1, <1>3 DEF LogFits, Progress
<1> QED
  BY <1>4, <1>5

\* A failure turns to recovery with nothing restored yet.
LEMMA ToUndoKeeps ==
  ASSUME IInv, TypeOK', NEW p \in Procs, at[p] = "replace", ToUndo(p),
         log' \in {log, [log EXCEPT !.state = "COMMITTED"]}
  PROVE  (Alone /\ LogFits /\ Progress)'
<1> USE DEF IInv, TypeOK
<1>0. \A q \in Procs : q # p => at[q] = "out" /\ pending[q] = Nothing
  BY OthersOut
<1>1. /\ log'.files = log.files /\ log'.state # "none" /\ log.files = pending[p]
      /\ at' = [at EXCEPT ![p] = "undo"] /\ lock = {p}
      /\ left' = [left EXCEPT ![p] = DOMAIN log.files]
      /\ UNCHANGED <<lock, pending, failed>>
  BY DEF ToUndo, LogFits, Alone
<1>2. Alone'
  BY <1>0, <1>1 DEF Alone
<1>3. LogFits'
  BY <1>0, <1>1 DEF LogFits
<1>4. Progress'
  BY <1>0, <1>1 DEF Progress
<1> QED
  BY <1>2, <1>3, <1>4

LEMMA PrepareKeeps ==
  ASSUME IInv, TypeOK', NEW p \in Procs, Prepare(p), ~Out(p, "error")
  PROVE  (Alone /\ LogFits /\ Progress)'
<1> USE DEF IInv, TypeOK
<1>0. \A q \in Procs : q # p => at[q] = "out" /\ pending[q] = Nothing
  BY OthersOut DEF Prepare
<1>1. /\ log' = [state |-> "PREPARED", files |-> pending[p]]
      /\ at' = [at EXCEPT ![p] = "replace"] /\ lock = {p}
      /\ left' = [left EXCEPT ![p] = DOMAIN pending[p]]
      /\ UNCHANGED <<lock, pending, failed, disk>>
  BY DEF Prepare, Alone
<1>2. Alone'
  BY <1>0, <1>1 DEF Alone
<1>3. LogFits'
  BY <1>0, <1>1 DEF LogFits
<1>4. Progress'
  BY <1>0, <1>1 DEF Progress
<1> QED
  BY <1>2, <1>3, <1>4

LEMMA ReplaceKeeps ==
  ASSUME IInv, TypeOK', NEW p \in Procs, ReplaceFile(p)
  PROVE  (Alone /\ LogFits /\ Progress)'
<1> USE DEF IInv, TypeOK
<1>0. \A q \in Procs : q # p => at[q] = "out" /\ pending[q] = Nothing
  BY OthersOut DEF ReplaceFile
<1>1. PICK f \in left[p] :
        \/ /\ disk' = [disk EXCEPT ![f] = pending[p][f].after]
           /\ left' = [left EXCEPT ![p] = @ \ {f}]
           /\ UNCHANGED <<at, lock, pending, failed, answer>>
        \/ MayReplace(f, pending[p][f].after) /\ ToUndo(p)
  BY DEF ReplaceFile
<1>2. CASE ToUndo(p)
  BY <1>2, ToUndoKeeps DEF ReplaceFile
<1>3. CASE ~ToUndo(p)
  <2>1. /\ disk' = [disk EXCEPT ![f] = pending[p][f].after]
        /\ left' = [left EXCEPT ![p] = @ \ {f}]
        /\ UNCHANGED <<at, lock, pending, failed, log>>
    BY <1>1, <1>3 DEF ReplaceFile
  <2>2. at[p] = "replace" /\ f \in Files /\ left[p] \subseteq DOMAIN pending[p]
    BY DEF ReplaceFile, Progress
  <2>3. \A g \in DOMAIN pending[p] \ left'[p] : disk'[g] = pending[p][g].after
    BY <2>1, <2>2 DEF Progress
  <2>4. Alone'
    BY <2>1 DEF Alone
  <2>5. LogFits'
    BY <1>0, <2>1, <2>2 DEF LogFits
  <2>6. Progress'
    BY <1>0, <2>1, <2>2, <2>3 DEF Progress
  <2> QED BY <2>4, <2>5, <2>6
<1> QED
  BY <1>2, <1>3

LEMMA MarkKeeps ==
  ASSUME IInv, TypeOK', NEW p \in Procs, MarkCommitted(p)
  PROVE  (Alone /\ LogFits /\ Progress)'
<1> USE DEF IInv, TypeOK
<1>0. \A q \in Procs : q # p => at[q] = "out" /\ pending[q] = Nothing
  BY OthersOut DEF MarkCommitted
<1>1. CASE ToUndo(p)
  BY <1>1, ToUndoKeeps DEF MarkCommitted
<1>2. CASE ~ToUndo(p)
  <2>1. /\ log' = [log EXCEPT !.state = "COMMITTED"]
        /\ at' = [at EXCEPT ![p] = "clean"] /\ at[p] = "replace"
        /\ UNCHANGED <<lock, pending, left, failed, disk>>
    BY <1>2 DEF MarkCommitted
  <2>2. /\ left[p] = {} /\ lock = {p} /\ log.files = pending[p]
        /\ log'.state = "COMMITTED" /\ log'.files = log.files
    BY <2>1 DEF MarkCommitted, Alone, LogFits
  <2>3. Alone'
    BY <1>0, <2>1, <2>2 DEF Alone
  <2>4. LogFits'
    BY <1>0, <2>1, <2>2 DEF LogFits
  <2>5. Progress'
    BY <1>0, <2>1, <2>2 DEF Progress
  <2> QED BY <2>3, <2>4, <2>5
<1> QED
  BY <1>1, <1>2

LEMMA CleanKeeps ==
  ASSUME IInv, TypeOK', NEW p \in Procs, Clean(p), ~Out(p, "error")
  PROVE  (Alone /\ LogFits /\ Progress)'
<1> USE DEF IInv, TypeOK
<1>0. \A q \in Procs : q # p => at[q] = "out" /\ pending[q] = Nothing
  BY OthersOut DEF Clean
<1>1. /\ log'.state = "none" /\ log'.files = Nothing
      /\ at' = [at EXCEPT ![p] = "open"] /\ lock = {p}
      /\ pending' = [pending EXCEPT ![p] = Nothing]
      /\ UNCHANGED <<lock, left, failed>>
  BY DEF Clean, Alone, NoLog
<1>2. Alone'
  BY <1>0, <1>1 DEF Alone
<1>3. LogFits' /\ Progress'
  BY <1>0, <1>1 DEF LogFits, Progress
<1> QED
  BY <1>2, <1>3

LEMMA InitInv == Init => IInv
BY TypeInit, NothingIsEntries DEF IInv, Init, NoLog, Alone, LogFits, Progress

LEMMA StepInv == IInv /\ [Next]_vars => IInv'
<1> SUFFICES ASSUME IInv, [Next]_vars PROVE IInv'
  OBVIOUS
<1>0. TypeOK'
  BY TypeStep
<1>1. ASSUME NEW p \in Procs, Step(p) PROVE (Alone /\ LogFits /\ Progress)'
  <2>1. CASE Enter(p) BY <2>1, <1>0, EnterKeeps
  <2>2. CASE RestoreFile(p) BY <2>2, <1>0, RestoreKeeps
  <2>3. CASE Recovered(p) BY <2>3, <1>0, RecoveredKeeps
  <2>4. CASE RecoveryFails(p) \/ Exit(p) \/ Crash(p) BY <2>4, LeavingKeeps
  <2>5. CASE WriteOne(p) BY <2>5, <1>0, LeavingKeeps, OpenKeeps
  <2>6. CASE StartUnit(p) \/ Stage(p) \/ NothingToDo(p) BY <2>6, <1>0, OpenKeeps
  <2>7. CASE Prepare(p) BY <2>7, <1>0, LeavingKeeps, PrepareKeeps
  <2>8. CASE ReplaceFile(p) BY <2>8, <1>0, ReplaceKeeps
  <2>9. CASE MarkCommitted(p) BY <2>9, <1>0, MarkKeeps
  <2>10. CASE Clean(p) BY <2>10, <1>0, LeavingKeeps, CleanKeeps
  <2> QED
    BY <1>1, <2>1, <2>2, <2>3, <2>4, <2>5, <2>6, <2>7, <2>8, <2>9, <2>10 DEF Step
<1>2. CASE UNCHANGED vars
  <2>1. UNCHANGED <<disk, log, lock, at, pending, left, failed>>
    BY <1>2 DEF vars
  <2>2. Alone' /\ LogFits'
    BY <2>1 DEF IInv, Alone, LogFits
  <2>3. \A f : Restored(f)' = Restored(f)
    BY <2>1 DEF Restored
  <2>4. Progress'
    BY <2>1, <2>3 DEF IInv, Progress
  <2> QED BY <1>0, <2>2, <2>4 DEF IInv
<1> QED
  BY <1>0, <1>1, <1>2 DEF Next, IInv

\* The files, the log and what each process holds keep their shape.
THEOREM TypeCorrect == Spec => []TypeOK
<1>1. IInv => TypeOK
  BY DEF IInv
<1> QED
  BY <1>1, InitInv, StepInv, PTL DEF Spec

\* Nobody reads a file that a failed or dead unit of work left half written.
THEOREM WholeReads == Spec => []ReadsAreWhole
<1>1. IInv => ReadsAreWhole
  <2> SUFFICES ASSUME IInv, NEW p \in Procs, at[p] \in {"open", "unit"}
               PROVE  lock = {p} /\ disk = Visible
    BY DEF ReadsAreWhole
  <2>1. lock = {p} /\ DOMAIN log.files = {}
    BY NothingIsEntries DEF IInv, Alone, LogFits
  <2>2. \A f \in Files : Visible[f] = disk[f]
    BY <2>1 DEF Visible
  <2> QED
    BY <2>1, <2>2 DEF IInv, TypeOK, Visible
<1> QED
  BY <1>1, InitInv, StepInv, PTL DEF Spec

-----------------------------------------------------------------------------
(* The refinement.                                                         *)

LEMMA NothingSame == Nothing = Atomic!Nothing
BY DEF Nothing, Atomic!Nothing

\* No log, or one whose files are all restored, shows what is on disk.
LEMMA VisibleIs ==
  ASSUME NEW f \in Files
  PROVE  /\ f \notin DOMAIN log.files => Visible[f] = disk[f]
         /\ f \in DOMAIN log.files => Visible[f] = Restored(f)
BY DEF Visible, Restored

\* Only the owner can have committed.
LEMMA CommittedIs ==
  ASSUME IInv, NEW p \in Procs, at[p] # "out"
  PROVE  Committed = IF at[p] \in {"clean", "undo"} /\ log.state = "COMMITTED"
                     THEN {p} ELSE {}
BY OthersOut DEF IInv, Committed

LEMMA WritesKept == pending' = pending => Writes' = Writes
BY DEF Writes

\* Whoever leaves without changing what is visible leaves the abstract
\* transaction too.
LEMMA OutLeaves ==
  ASSUME IInv, IInv', NEW p \in Procs, at[p] # "out",
         NEW said \in {answer[p], "error", "none"}, Out(p, said), Visible' = Visible
  PROVE  Atomic!Leave(p)
<1>1. p \in lock /\ lock' = {}
  BY DEF IInv, Alone, Out
<1>2. \A q \in Procs : at'[q] = "out" /\ pending'[q] = Nothing /\ (q # p => pending[q] = Nothing)
  BY OthersOut DEF IInv, TypeOK, Alone, Out
<1>3. Committed' = {} /\ Committed \ {p} = {}
  BY <1>2, CommittedIs DEF Committed
<1>4. \A q \in Procs : Writes'[q] = Nothing
  BY <1>2 DEF Writes, Nothing
<1>5. \A q \in Procs : q # p => Writes[q] = Nothing
  BY <1>2 DEF Writes, Nothing
<1>6. Writes' = [Writes EXCEPT ![p] = Atomic!Nothing]
  BY <1>4, <1>5, NothingSame DEF Writes
<1>7. answer' = [answer EXCEPT ![p] = said]
  BY DEF Out
<1>8. answer' \in {answer, [answer EXCEPT ![p] = "error"], [answer EXCEPT ![p] = "none"]}
  <2>1. [answer EXCEPT ![p] = answer[p]] = answer
    BY DEF IInv, TypeOK
  <2>2. said = answer[p] \/ said = "error" \/ said = "none"
    OBVIOUS
  <2> QED
    BY <1>7, <2>1, <2>2, Zenon
<1> QED
  BY <1>1, <1>3, <1>6, <1>8 DEF Atomic!Leave

LEMMA RecoveryRefines ==
  ASSUME IInv, IInv', NEW p \in Procs,
         \/ RestoreFile(p) \/ Recovered(p) \/ RecoveryFails(p)
  PROVE  Atomic!Leave(p) \/ UNCHANGED Atomic!vars
<1>0. at[p] \in {"recover", "undo"}
  BY DEF RestoreFile, Recovered, RecoveryFails
<1>1. CASE RestoreFile(p)
  <2>1. PICK f \in left[p] :
          /\ disk' \in {disk, [disk EXCEPT ![f] = Restored(f)]}
    BY <1>1 DEF RestoreFile, MayReplace
  <2>2. f \in DOMAIN log.files /\ log' = log
    BY <1>0, <1>1 DEF RestoreFile, IInv, Progress
  <2>3. ASSUME NEW g \in Files PROVE Visible'[g] = Visible[g]
    <3>1. CASE g \in DOMAIN log.files
      BY <2>2, <3>1 DEF Visible
    <3>2. CASE g \notin DOMAIN log.files
      <4>1. disk'[g] = disk[g]
        BY <2>1, <2>2, <3>2 DEF IInv, TypeOK
      <4> QED
        BY <2>2, <3>2, <4>1 DEF Visible
    <3> QED BY <3>1, <3>2
  <2>4. Visible' = Visible
    BY <2>3 DEF Visible
  <2>5. Committed' = Committed /\ Writes' = Writes /\ lock' = lock /\ answer' = answer
    BY <1>1, <2>2, WritesKept DEF RestoreFile, Committed
  <2> QED
    BY <2>4, <2>5 DEF Atomic!vars
<1>2. ASSUME left[p] = {}, ~failed[p], disk' = disk, log' = NoLog
      PROVE  Visible' = Visible
  <2>1. \A g \in DOMAIN log.files : disk[g] = Restored(g)
    BY <1>0, <1>2 DEF IInv, Progress
  <2>2. DOMAIN log'.files = {}
    BY <1>2, NothingIsEntries DEF NoLog
  <2>3. \A g \in Files : Visible'[g] = Visible[g]
    BY <1>2, <2>1, <2>2 DEF Visible, Restored
  <2> QED
    BY <2>3 DEF Visible
<1>3. CASE Recovered(p)
  <2>1. Visible' = Visible
    BY <1>2, <1>3 DEF Recovered
  <2>2. CASE at[p] = "undo"
    BY <1>3, <2>1, <2>2, OutLeaves DEF Recovered
  <2>3. CASE at[p] = "recover"
    <3>1. Committed = {} /\ Committed' = {}
      BY <1>3, <2>3, CommittedIs, OthersOut DEF Recovered, Committed, IInv, TypeOK
    <3>2. UNCHANGED <<lock, pending, answer>>
      BY <1>3, <2>3 DEF Recovered
    <3> QED
      BY <2>1, <3>1, <3>2, WritesKept DEF Atomic!vars
  <2> QED
    BY <1>0, <2>2, <2>3
<1>4. CASE RecoveryFails(p)
  <2>1. Visible' = Visible
    <3>1. CASE log' = log
      BY <1>4, <3>1 DEF RecoveryFails, Visible
    <3>2. CASE log' # log
      BY <1>2, <1>4, <3>2 DEF RecoveryFails
    <3> QED BY <3>1, <3>2
  <2> QED
    BY <1>0, <1>4, <2>1, OutLeaves DEF RecoveryFails
<1> QED
  BY <1>1, <1>3, <1>4

LEMMA OpenRefines ==
  ASSUME IInv, IInv', NEW p \in Procs,
         Enter(p) \/ WriteOne(p) \/ StartUnit(p) \/ Stage(p) \/ NothingToDo(p)
  PROVE  Atomic!Enter(p) \/ Atomic!Write(p) \/ Atomic!Prepare(p) \/ UNCHANGED Atomic!vars
<1>0. Committed = {} /\ (at'[p] \in {"out", "open", "unit", "recover"} => Committed' = {})
  <2>1. \A q \in Procs : q # p => at[q] = "out" /\ at'[q] = "out"
    BY OthersOut DEF Enter, WriteOne, StartUnit, Stage, NothingToDo, Out, IInv, Alone, TypeOK
  <2>2. at[p] \in {"out", "open", "unit"}
    BY DEF Enter, WriteOne, StartUnit, Stage, NothingToDo
  <2> QED BY <2>1, <2>2 DEF Committed
<1>1. CASE Enter(p)
  <2>1. Visible' = Visible /\ Writes' = Writes /\ answer' = answer
    BY <1>1, WritesKept DEF Enter, Visible
  <2>2. at'[p] \in {"open", "recover"}
    BY <1>1 DEF Enter, FirstStage, IInv, TypeOK
  <2> QED
    BY <1>0, <1>1, <2>1, <2>2 DEF Enter, Atomic!Enter
<1>2. CASE WriteOne(p)
  <2>1. at[p] = "open" /\ lock = {p} /\ DOMAIN log.files = {} /\ log' = log
    BY <1>2, NothingIsEntries DEF WriteOne, IInv, Alone, LogFits
  <2>2. Visible = disk /\ Visible' = disk'
    <3>1. \A g \in Files : Visible[g] = disk[g] /\ Visible'[g] = disk'[g]
      BY <2>1 DEF Visible
    <3> QED
      BY <3>1 DEF Visible, IInv, TypeOK
  <2>3. PICK f \in Files, v \in Values :
          \/ /\ disk' = [disk EXCEPT ![f] = v]
             /\ UNCHANGED <<at, lock, pending, left, failed, answer>>
          \/ MayReplace(f, v) /\ Out(p, "error")
    BY <1>2 DEF WriteOne
  <2>4. PICK w \in Values : disk' = [disk EXCEPT ![f] = w]
    <3>1. disk = [disk EXCEPT ![f] = disk[f]] /\ disk[f] \in Values
      BY DEF IInv, TypeOK
    <3> QED BY <2>3, <3>1 DEF MayReplace
  <2>5. at'[p] \in {"out", "open"} /\ lock' \in {lock, {}} /\ answer' \in {answer, [answer EXCEPT ![p] = "error"]}
    BY <2>1, <2>3 DEF Out, IInv, TypeOK
  <2>6. Writes' = Writes
    <3>1. pending[p] = Nothing
      BY <2>1 DEF IInv, Alone
    <3>2. pending' = pending
      BY <2>3, <3>1 DEF Out, IInv, TypeOK
    <3> QED BY <3>2, WritesKept
  <2>7. p \in lock /\ Committed' = Committed
    BY <1>0, <2>1, <2>5
  <2>8. \E g \in Files, u \in Values : Visible' = [Visible EXCEPT ![g] = u]
    BY <2>2, <2>4
  <2> QED
    BY <2>5, <2>6, <2>7, <2>8 DEF Atomic!Write
<1>3. CASE StartUnit(p) \/ NothingToDo(p)
  <2>1. UNCHANGED <<disk, log, lock, answer>> /\ at'[p] \in {"open", "unit"}
    BY <1>3 DEF StartUnit, NothingToDo, IInv, TypeOK
  <2>2. pending' = pending
    BY <1>3 DEF StartUnit, NothingToDo, IInv, TypeOK, Alone
  <2>3. Visible' = Visible /\ Writes' = Writes
    BY <2>1, <2>2, WritesKept DEF Visible
  <2> QED
    BY <1>0, <2>1, <2>3 DEF Atomic!vars
<1>4. CASE Stage(p)
  <2>1. at[p] = "unit" /\ UNCHANGED <<disk, log, lock, at, answer>> /\ lock = {p}
    BY <1>4 DEF Stage, IInv, Alone
  <2>2. PICK f \in Files, v \in Values :
          pending' = [pending EXCEPT ![p] =
            [g \in DOMAIN pending[p] \cup {f} |->
               IF g = f THEN [before |-> Before(p, f), after |-> v] ELSE pending[p][g]]]
    BY <1>4 DEF Stage
  <2> DEFINE new == [g \in DOMAIN Writes[p] \cup {f} |-> IF g = f THEN v ELSE Writes[p][g]]
  <2>3. DOMAIN Writes[p] = DOMAIN pending[p] /\ \A g \in DOMAIN pending[p] : Writes[p][g] = pending[p][g].after
    BY DEF Writes
  <2>4. pending'[p] = [g \in DOMAIN pending[p] \cup {f} |->
               IF g = f THEN [before |-> Before(p, f), after |-> v] ELSE pending[p][g]]
    BY <2>2 DEF IInv, TypeOK
  <2>5. Writes'[p] = [g \in DOMAIN pending'[p] |-> pending'[p][g].after]
    BY DEF Writes
  <2>6. Writes'[p] = new
    BY <2>3, <2>4, <2>5
  <2>7. \A q \in Procs : q # p => Writes'[q] = Writes[q]
    BY <2>2 DEF Writes, IInv, TypeOK
  <2> HIDE DEF new
  <2>8. Writes' = [Writes EXCEPT ![p] = new]
    BY <2>6, <2>7 DEF Writes
  <2>9. Visible' = Visible /\ Committed' = Committed
    BY <2>1 DEF Visible, Committed
  <2> QED
    BY <1>0, <2>1, <2>8, <2>9 DEF Atomic!Prepare, new
<1> QED
  BY <1>1, <1>2, <1>3, <1>4

LEMMA EndRefines ==
  ASSUME IInv, IInv', NEW p \in Procs, Exit(p) \/ Crash(p)
  PROVE  Atomic!Leave(p)
<1>1. at[p] # "out" /\ Visible' = Visible
  BY DEF Exit, Crash, Visible
<1>2. CASE Exit(p)
  BY <1>1, <1>2, OutLeaves DEF Exit
<1>3. CASE Crash(p)
  BY <1>1, <1>3, OutLeaves DEF Crash
<1> QED
  BY <1>2, <1>3

\* What is visible while a unit of work replaces its files: the contents from
\* before, as the log is only prepared.
LEMMA PrepareRefines ==
  ASSUME IInv, IInv', NEW p \in Procs, Prepare(p)
  PROVE  Atomic!Leave(p) \/ UNCHANGED Atomic!vars
<1>1. /\ at[p] = "unit" /\ disk' = disk /\ DOMAIN log.files = {}
      /\ log' = log \/ log' = [state |-> "PREPARED", files |-> pending[p]]
      /\ \A f \in DOMAIN pending[p] : pending[p][f].before = disk[f]
  BY NothingIsEntries DEF Prepare, IInv, LogFits
<1>2. ASSUME NEW f \in Files PROVE Visible'[f] = Visible[f]
  BY <1>1 DEF Visible
<1>3. Visible' = Visible
  BY <1>2 DEF Visible
<1>4. CASE Out(p, "error")
  BY <1>1, <1>3, <1>4, OutLeaves
<1>5. CASE ~Out(p, "error")
  <2>1. UNCHANGED <<lock, pending, answer>> /\ at'[p] = "replace"
    BY <1>5 DEF Prepare, IInv, TypeOK
  <2>2. Committed = {} /\ Committed' = {}
    <3>1. \A q \in Procs : q # p => at[q] = "out" /\ at'[q] = "out"
      BY <1>1, <2>1, OthersOut DEF IInv, Alone
    <3> QED BY <1>1, <2>1, <3>1 DEF Committed
  <2> QED
    BY <1>3, <2>1, <2>2, WritesKept DEF Atomic!vars
<1> QED
  BY <1>4, <1>5

LEMMA ReplaceRefines ==
  ASSUME IInv, IInv', NEW p \in Procs, ReplaceFile(p)
  PROVE  UNCHANGED Atomic!vars
<1>1. at[p] = "replace" /\ log' = log /\ log.files = pending[p] /\ log.state = "PREPARED"
  BY DEF ReplaceFile, IInv, LogFits
<1>2. PICK f \in left[p] : disk' = [disk EXCEPT ![f] = pending[p][f].after] \/ disk' = disk
  BY DEF ReplaceFile, MayReplace
<1>3. f \in DOMAIN log.files
  BY <1>1 DEF IInv, Progress
<1>4. ASSUME NEW g \in Files PROVE Visible'[g] = Visible[g]
  <2>1. CASE g \in DOMAIN log.files
    BY <1>1, <2>1 DEF Visible
  <2>2. CASE g \notin DOMAIN log.files
    <3>1. disk'[g] = disk[g]
      BY <1>2, <1>3, <2>2 DEF IInv, TypeOK
    <3> QED
      BY <1>1, <2>2, <3>1 DEF Visible
  <2> QED BY <2>1, <2>2
<1>5. Visible' = Visible
  BY <1>4 DEF Visible
<1>6. UNCHANGED <<lock, pending, answer>>
  BY DEF ReplaceFile, ToUndo
<1>7. Committed = {} /\ Committed' = {}
  BY <1>1 DEF Committed
<1> QED
  BY <1>5, <1>6, <1>7, WritesKept DEF Atomic!vars

\* The unit of work takes effect when its log says COMMITTED, also when the
\* call that wrote it failed afterwards.
LEMMA MarkRefines ==
  ASSUME IInv, IInv', NEW p \in Procs, MarkCommitted(p)
  PROVE  Atomic!Commit(p) \/ UNCHANGED Atomic!vars
<1>1. /\ at[p] = "replace" /\ left[p] = {} /\ lock = {p} /\ disk' = disk
      /\ log.files = pending[p] /\ log.state = "PREPARED"
      /\ UNCHANGED <<lock, pending, answer>> /\ at'[p] \in {"clean", "undo"}
      /\ log' = log \/ log' = [log EXCEPT !.state = "COMMITTED"]
  BY DEF MarkCommitted, ToUndo, IInv, TypeOK, Alone, LogFits
<1>2. \A q \in Procs : q # p => at[q] = "out" /\ at'[q] = "out"
  BY <1>1, OthersOut DEF IInv, Alone
<1>3. Writes' = Writes /\ Committed = {}
  BY <1>1, <1>2, WritesKept DEF Committed
<1>4. CASE log' = log
  <2>1. Visible' = Visible /\ Committed' = {}
    BY <1>1, <1>2, <1>4 DEF Visible, Committed
  <2> QED
    BY <1>1, <1>3, <2>1 DEF Atomic!vars
<1>5. CASE log' = [log EXCEPT !.state = "COMMITTED"]
  <2>1. log'.files = pending[p] /\ log'.state = "COMMITTED"
    BY <1>1, <1>5 DEF IInv, TypeOK
  <2>2. Committed' = {p}
    BY <1>1, <1>2, <2>1 DEF Committed
  <2>3. DOMAIN Writes[p] = DOMAIN pending[p] /\ \A f \in DOMAIN pending[p] : Writes[p][f] = pending[p][f].after
    BY DEF Writes
  <2>4. \A f \in Files : Visible'[f] = IF f \in DOMAIN Writes[p] THEN Writes[p][f] ELSE Visible[f]
    BY <1>1, <2>1, <2>3 DEF Visible
  <2>5. Visible' = [f \in Files |-> IF f \in DOMAIN Writes[p] THEN Writes[p][f] ELSE Visible[f]]
    BY <2>4 DEF Visible
  <2> QED
    BY <1>1, <1>3, <2>2, <2>5 DEF Atomic!Commit
<1> QED
  BY <1>1, <1>4, <1>5

LEMMA CleanRefines ==
  ASSUME IInv, IInv', NEW p \in Procs, Clean(p)
  PROVE  Atomic!Acknowledge(p) \/ Atomic!Leave(p)
<1>1. /\ at[p] = "clean" /\ lock = {p} /\ disk' = disk
      /\ log' = log \/ log' = NoLog
      /\ log.state = "COMMITTED"
      /\ \A f \in DOMAIN log.files : disk[f] = log.files[f].after
  BY DEF Clean, IInv, Alone, LogFits, Progress
<1>2. Visible' = Visible
  <2>1. CASE log' = log
    BY <1>1, <2>1 DEF Visible
  <2>2. CASE log' = NoLog
    <3>1. \A f \in Files : Visible'[f] = Visible[f]
      BY <1>1, <2>2, NothingIsEntries DEF Visible, NoLog
    <3> QED BY <3>1 DEF Visible
  <2> QED BY <1>1, <2>1, <2>2
<1>3. CASE Out(p, "error")
  BY <1>1, <1>2, <1>3, OutLeaves
<1>4. CASE ~Out(p, "error")
  <2>1. /\ at'[p] = "open" /\ lock' = lock
        /\ pending' = [pending EXCEPT ![p] = Nothing]
        /\ answer' = [answer EXCEPT ![p] = "ok"]
    BY <1>4 DEF Clean, IInv, TypeOK, Out
  <2>2. Committed = {p} /\ Committed' = {}
    <3>1. \A q \in Procs : q # p => at[q] = "out" /\ at'[q] = "out"
      <4>1. lock' = {p} /\ at[p] # "out" /\ at'[p] # "out"
        BY <1>1, <2>1
      <4> QED BY <1>1, <4>1, OthersOut DEF IInv, Alone
    <3> QED BY <1>1, <2>1, <3>1 DEF Committed
  <2>3. Writes'[p] = Nothing /\ \A q \in Procs : q # p => Writes'[q] = Writes[q]
    BY <2>1 DEF Writes, Nothing, IInv, TypeOK
  <2>4. Writes' = [Writes EXCEPT ![p] = Atomic!Nothing]
    BY <2>3, NothingSame DEF Writes
  <2> QED
    BY <1>2, <2>1, <2>2, <2>4 DEF Atomic!Acknowledge
<1> QED
  BY <1>3, <1>4

\* A unit of work changes all its files at once or none, whatever fails or
\* dies, and is reported as done only after it took effect.
THEOREM TransactionsAreAtomic == Spec => ImplementsAtomicFiles
<1>1. Init => Atomic!Init
  <2> SUFFICES ASSUME Init PROVE Atomic!Init
    OBVIOUS
  <2>1. Visible = disk
    <3>1. \A f \in Files : Visible[f] = disk[f]
      BY NothingIsEntries DEF Init, NoLog, Visible
    <3> QED BY <3>1 DEF Init, Visible
  <2>2. Committed = {}
    BY DEF Init, Committed
  <2>3. Writes = [p \in Procs |-> Nothing]
    BY DEF Init, Writes, Nothing
  <2> QED
    BY <2>1, <2>2, <2>3, NothingSame DEF Init, Atomic!Init
<1>2. IInv /\ IInv' /\ [Next]_vars => [Atomic!Next]_Atomic!vars
  <2> SUFFICES ASSUME IInv, IInv', [Next]_vars PROVE [Atomic!Next]_Atomic!vars
    OBVIOUS
  <2>1. CASE UNCHANGED vars
    BY <2>1 DEF vars, Atomic!vars, Visible, Writes, Committed
  <2>2. ASSUME NEW p \in Procs, Step(p) PROVE [Atomic!Next]_Atomic!vars
    <3>1. CASE RestoreFile(p) \/ Recovered(p) \/ RecoveryFails(p)
      BY <3>1, RecoveryRefines DEF Atomic!Next
    <3>2. CASE Enter(p) \/ WriteOne(p) \/ StartUnit(p) \/ Stage(p) \/ NothingToDo(p)
      BY <3>2, OpenRefines DEF Atomic!Next
    <3>3. CASE Exit(p) \/ Crash(p)
      BY <3>3, EndRefines DEF Atomic!Next
    <3>4. CASE Prepare(p)
      BY <3>4, PrepareRefines DEF Atomic!Next
    <3>5. CASE ReplaceFile(p)
      BY <3>5, ReplaceRefines
    <3>6. CASE MarkCommitted(p)
      BY <3>6, MarkRefines DEF Atomic!Next
    <3>7. CASE Clean(p)
      BY <3>7, CleanRefines DEF Atomic!Next
    <3> QED
      BY <2>2, <3>1, <3>2, <3>3, <3>4, <3>5, <3>6, <3>7 DEF Step
  <2> QED
    BY <2>1, <2>2 DEF Next
<1> QED
  BY <1>1, <1>2, InitInv, StepInv, PTL DEF Spec, ImplementsAtomicFiles, Atomic!Spec

-----------------------------------------------------------------------------
(* Triggers.  A job has one live run at most, so that a batch of events makes *)
(* one of them a run and notes the others; and what was matched is either  *)
(* covered by a run or in the note, which a flush turns into a run.        *)

LEMMA TriggersAssumed == Triggers!TriggerAssumption
BY MCServicesAssumption

\* The instance has its own copies of the two operators of FiniteSets.
LEMMA SameTriggersFinite == \A S : Triggers!IsFiniteSet(S) <=> IsFiniteSet(S)
BY DEF Triggers!IsFiniteSet, IsFiniteSet

LEMMA SameTriggersCardinality == \A S : Triggers!Cardinality(S) = Cardinality(S)
BY DEF Triggers!Cardinality, Cardinality

Statuses   == {"absent", "active", "paused", "completed", "cancelled", "deleted"}
RunStates  == {"none", "waiting", "running", "over"}
Snapshots  == Contents \union {NoContent}
Probes     == [page : Targets, seen : Snapshots]
EventNotes == [id : 0..MaxJobEvents, count : Nat]

JobTypes ==
  /\ j_kind \in [Jobs -> Triggers!Kinds] /\ j_target \in [Jobs -> Targets]
  /\ j_job_status \in [Jobs -> Statuses]
  /\ j_next_run \in [Jobs -> Nat \union {NoContent}]
  /\ j_baseline \in [Jobs -> Snapshots] /\ j_delivered \in [Jobs -> Snapshots]
  /\ j_pending \in [Jobs -> EventNotes]
  /\ j_runs \in [Jobs -> [Triggers!Keys -> RunStates]]

WorldTypes ==
  /\ j_events \in Seq(Targets) /\ Len(j_events) <= MaxJobEvents
  /\ j_consumed \in Nat /\ j_consumed <= Len(j_events)
  /\ j_now \in Triggers!Times /\ j_changes \in 0..MaxChanges /\ j_content \in [Targets -> Contents]

CountTypes == j_matched \in [Jobs -> Nat] /\ j_covered \in [Jobs -> Nat]

\* A probe is of a job that watches a page.
ProbesAreWeb ==
  /\ j_probe \in [Jobs -> {NoContent} \union Probes]
  /\ \A j \in Jobs : j_probe[j] # NoContent => j_probe[j] \in Probes /\ j_kind[j] = "web_change"

\* At most one run of a job is live.
LiveIsOne ==
  \A j \in Jobs, k, m \in Triggers!Keys :
    j_runs[j][k] \in {"waiting", "running"} /\ j_runs[j][m] \in {"waiting", "running"} => k = m

\* The keys of the runs of events are events that were consumed, and what is
\* pending is one without a run.
EventsHaveKeys ==
  \A j \in Jobs :
    /\ j_kind[j] # "event" => j_pending[j] = Triggers!NoEvent
    /\ j_kind[j] = "event" =>
         \A k \in Triggers!Keys : j_runs[j][k] # "none" => k \in 1..j_consumed
    /\ j_pending[j] # Triggers!NoEvent =>
         /\ j_pending[j].id \in 1..j_consumed /\ j_pending[j].id \in Triggers!Keys
         /\ j_runs[j][j_pending[j].id] = "none"

\* Every event that was consumed for a job is in one run or pending.
AllCounted ==
  \A j \in Jobs : j_matched[j] = j_covered[j] + j_pending[j].count /\ j_matched[j] <= j_consumed

TriggersInv ==
  /\ JobTypes /\ WorldTypes /\ CountTypes
  /\ ProbesAreWeb /\ LiveIsOne /\ EventsHaveKeys /\ AllCounted
\* Among the natural numbers that a set holds there is a least one.
LEMMA LeastNumber ==
  ASSUME NEW T \in SUBSET Nat, T # {}
  PROVE  \E n \in T : \A m \in T : n <= m
<1> DEFINE U == {1..n : n \in T}
<1>1. U \subseteq FiniteSubsetsOf(Nat) /\ U # {}
  <2>1. ASSUME NEW n \in T
        PROVE  1..n \in FiniteSubsetsOf(Nat)
    <3>1. IsFiniteSet(1..n)
      BY FS_Interval
    <3>2. 1..n \subseteq Nat
      OBVIOUS
    <3> QED
      BY <3>1, <3>2 DEF FiniteSubsetsOf
  <2> QED
    BY <2>1
<1>2. PICK u \in U : \A v \in U : ~ (<<v, u>> \in StrictSubsetOrdering(Nat))
  <2> HIDE DEF U
  <2> QED
    BY <1>1, WFMin, FS_StrictSubsetOrderingWellFounded
<1>3. PICK n \in T : u = 1..n
  OBVIOUS
<1>4. ASSUME NEW m \in T, m < n
      PROVE  FALSE
  <2>1. 1..m \subseteq 1..n /\ n \in 1..n /\ n \notin 1..m
    BY <1>4
  <2>2. <<1..m, u>> \in StrictSubsetOrdering(Nat)
    BY <2>1, <1>3 DEF StrictSubsetOrdering
  <2> QED
    BY <1>2, <2>2
<1> QED
  BY <1>4

LEMMA FirstOfSome ==
  ASSUME NEW S \in SUBSET Nat, S # {}
  PROVE  Triggers!First(S) \in S /\ \A k \in S : Triggers!First(S) <= k
<1>1. \E i \in S : \A k \in S : i <= k
  BY LeastNumber
<1> QED
  BY <1>1 DEF Triggers!First

LEMMA LastOfSome ==
  ASSUME NEW n \in Nat, NEW S \in SUBSET (0..n), S # {}
  PROVE  Triggers!Last(S) \in S
<1> DEFINE T == {n - i : i \in S}
<1>1. T \in SUBSET Nat /\ T # {}
  <2>1. ASSUME NEW i \in S PROVE n - i \in Nat
    OBVIOUS
  <2> QED
    BY <2>1
<1>2. PICK m \in T : \A t \in T : m <= t
  <2> HIDE DEF T
  <2> QED
    BY <1>1, LeastNumber
<1>3. PICK i \in S : m = n - i
  OBVIOUS
<1>4. \A k \in S : n - i <= n - k
  BY <1>2, <1>3
<1>5. \A k \in S : k <= i
  BY <1>4
<1> QED
  BY <1>5 DEF Triggers!Last

\* The events of a batch that are for a job.
LEMMA BatchOfEvents ==
  ASSUME Triggers!TriggerAssumption, WorldTypes
  PROVE  /\ Triggers!ReadTo \in Nat /\ j_consumed <= Triggers!ReadTo /\ Triggers!ReadTo <= Len(j_events)
         /\ \A j \in Jobs :
              /\ Triggers!Matching(j) \subseteq j_consumed + 1 .. Triggers!ReadTo
              /\ IsFiniteSet(Triggers!Matching(j))
              /\ Cardinality(Triggers!Matching(j)) \in Nat
              /\ Cardinality(Triggers!Matching(j)) <= Triggers!ReadTo - j_consumed
<1>1. Triggers!ReadTo \in Nat /\ j_consumed <= Triggers!ReadTo /\ Triggers!ReadTo <= Len(j_events)
  BY DEF Triggers!ReadTo, WorldTypes, Triggers!TriggerAssumption
<1>2. ASSUME NEW j \in Jobs PROVE Triggers!Matching(j) \subseteq j_consumed + 1 .. Triggers!ReadTo
  BY DEF Triggers!Matching
<1>3. j_consumed \in Nat
  BY DEF WorldTypes
<1>4. /\ IsFiniteSet(j_consumed + 1 .. Triggers!ReadTo)
      /\ Cardinality(j_consumed + 1 .. Triggers!ReadTo) = Triggers!ReadTo - j_consumed
  <2> DEFINE from == j_consumed + 1
  <2>1. from \in Int /\ Triggers!ReadTo \in Int
    BY <1>1, <1>3
  <2>2. from = j_consumed + 1
    OBVIOUS
  <2> HIDE DEF from
  <2>3. /\ IsFiniteSet(from .. Triggers!ReadTo)
        /\ Cardinality(from .. Triggers!ReadTo) = IF from > Triggers!ReadTo THEN 0 ELSE Triggers!ReadTo - from + 1
    BY <2>1, FS_Interval
  <2> QED
    BY <1>1, <1>3, <2>2, <2>3
<1> QED
  BY <1>1, <1>2, <1>4, FS_Subset, FS_CardinalityType

LEMMA TriggersInit == Triggers!TriggerAssumption /\ Triggers!Init => TriggersInv
<1> SUFFICES ASSUME Triggers!TriggerAssumption, Triggers!Init PROVE TriggersInv
  OBVIOUS
<1>1. JobTypes
  <2>1. Triggers!NoEvent \in EventNotes
    BY DEF Triggers!NoEvent, EventNotes, Triggers!TriggerAssumption
  <2> QED
    BY <2>1 DEF Triggers!Init, JobTypes, Statuses, Snapshots, RunStates
<1>2. WorldTypes
  <2>1. j_events = <<>> /\ j_consumed = 0
    BY DEF Triggers!Init
  <2>2. j_events \in Seq(Targets) /\ Len(j_events) = 0
    BY <2>1
  <2> QED
    BY <2>1, <2>2 DEF Triggers!Init, WorldTypes, Triggers!Times, Triggers!TriggerAssumption
<1>3. CountTypes /\ ProbesAreWeb
  BY DEF Triggers!Init, CountTypes, ProbesAreWeb
<1>4. LiveIsOne /\ EventsHaveKeys
  BY DEF Triggers!Init, LiveIsOne, EventsHaveKeys
<1>5. AllCounted
  BY DEF Triggers!Init, AllCounted, Triggers!NoEvent
<1> QED
  BY <1>1, <1>2, <1>3, <1>4, <1>5 DEF TriggersInv

\* Steps that leave runs, events and counts alone.
LEMMA CountsStay ==
  ASSUME TriggersInv, JobTypes', WorldTypes', ProbesAreWeb',
         UNCHANGED <<j_kind, j_pending, j_runs, j_consumed, j_matched, j_covered>>
  PROVE  TriggersInv'
BY DEF TriggersInv, CountTypes, LiveIsOne, EventsHaveKeys, AllCounted

LEMMA EditsKeep ==
  ASSUME Triggers!TriggerAssumption, TriggersInv, NEW j \in Jobs,
         NEW due \in Triggers!Times, NEW t \in Targets,
         Triggers!CreateJob(j, due) \/ Triggers!UpdateJob(j, t, due) \/ Triggers!PauseJob(j) \/ Triggers!ResumeJob(j, due) \/ Triggers!DeleteJob(j)
  PROVE  TriggersInv'
<1> USE DEF TriggersInv, JobTypes
<1>1. UNCHANGED <<j_kind, j_pending, j_runs, j_events, j_consumed, j_matched, j_covered, j_probe, j_now, j_content,
                  j_changes>>
  BY DEF Triggers!CreateJob, Triggers!UpdateJob, Triggers!PauseJob, Triggers!ResumeJob,
     Triggers!DeleteJob, Triggers!definition, Triggers!queue, Triggers!world, Triggers!history
<1>2. due \in Nat /\ j_now \in Nat
  BY DEF Triggers!Times, WorldTypes, Triggers!TriggerAssumption
<1>3. /\ Triggers!InitialNextRun(j, due) \in Nat \union {NoContent}
      /\ Triggers!ResumeNextRun(j, due) \in Nat \union {NoContent}
  BY <1>2 DEF Triggers!InitialNextRun, Triggers!ResumeNextRun, Triggers!Every
<1>4. j_next_run' \in [Jobs -> Nat \union {NoContent}] /\ j_job_status' \in [Jobs -> Statuses]
  <2>1. j_next_run' = j_next_run \/ \E n \in Nat \union {NoContent} : j_next_run' = [j_next_run EXCEPT ![j] = n]
    BY <1>3 DEF Triggers!CreateJob, Triggers!UpdateJob, Triggers!PauseJob, Triggers!ResumeJob,
       Triggers!DeleteJob
  <2>2. j_job_status' = j_job_status \/ \E n \in Statuses : j_job_status' = [j_job_status EXCEPT ![j] = n]
    BY DEF Triggers!CreateJob, Triggers!UpdateJob, Triggers!PauseJob, Triggers!ResumeJob,
       Triggers!DeleteJob, Statuses
  <2> QED
    BY <2>1, <2>2
<1>5. j_content[j_target[j]] \in Contents
  BY DEF WorldTypes
<1>6. j_baseline' \in [Jobs -> Snapshots]
  BY <1>5 DEF Triggers!CreateJob, Triggers!UpdateJob, Triggers!PauseJob, Triggers!ResumeJob,
     Triggers!DeleteJob, Snapshots
<1>7. j_delivered' \in [Jobs -> Snapshots] /\ j_target' \in [Jobs -> Targets]
  BY <1>6 DEF Triggers!CreateJob, Triggers!UpdateJob, Triggers!PauseJob, Triggers!ResumeJob,
     Triggers!DeleteJob, Triggers!history, Triggers!definition
<1>8. JobTypes'
  BY <1>1, <1>4, <1>6, <1>7
<1>9. WorldTypes' /\ ProbesAreWeb'
  BY <1>1 DEF WorldTypes, ProbesAreWeb
<1> QED
  BY <1>1, <1>8, <1>9, CountsStay

LEMMA ProbesKeep ==
  ASSUME Triggers!TriggerAssumption, TriggersInv, NEW j \in Jobs,
         Triggers!SubmitProbe(j) \/ Triggers!FetchPage(j) \/ Triggers!ProbeIgnored(j) \/ Triggers!DeferProbe(j)
  PROVE  TriggersInv'
<1> USE DEF TriggersInv
<1>1. /\ UNCHANGED <<j_kind, j_target, j_job_status, j_baseline, j_delivered, j_pending, j_runs, j_events,
                     j_consumed, j_matched, j_covered, j_now, j_content, j_changes>>
      /\ j_next_run' = j_next_run \/ j_next_run' = [j_next_run EXCEPT ![j] = Triggers!Later(j_now + Triggers!Every)]
  BY DEF Triggers!SubmitProbe, Triggers!FetchPage, Triggers!ProbeIgnored, Triggers!DeferProbe,
     Triggers!definition, Triggers!store, Triggers!queue, Triggers!world, Triggers!history
<1>2. Triggers!Later(j_now + Triggers!Every) \in Nat
  BY DEF Triggers!Later, Triggers!Every, WorldTypes, Triggers!Times, Triggers!TriggerAssumption
<1>3. JobTypes' /\ WorldTypes'
  BY <1>1, <1>2 DEF JobTypes, WorldTypes
<1>4. PICK p \in {NoContent} \union Probes :
        j_probe' = [j_probe EXCEPT ![j] = p] /\ (p # NoContent => p \in Probes /\ j_kind[j] = "web_change")
  <2>1. CASE Triggers!SubmitProbe(j)
    <3>1. [page |-> j_target[j], seen |-> NoContent] \in Probes
      BY DEF JobTypes, Probes, Snapshots
    <3> QED
      BY <2>1, <3>1 DEF Triggers!SubmitProbe
  <2>2. CASE Triggers!FetchPage(j)
    <3>1. j_probe[j] \in Probes /\ j_kind[j] = "web_change"
      BY <2>2 DEF Triggers!FetchPage, ProbesAreWeb
    <3>2. [j_probe[j] EXCEPT !.seen = j_content[j_probe[j].page]] \in Probes
      BY <3>1 DEF Probes, Snapshots, WorldTypes
    <3> QED
      BY <2>2, <3>1, <3>2 DEF Triggers!FetchPage
  <2>3. CASE Triggers!ProbeIgnored(j) \/ Triggers!DeferProbe(j)
    BY <2>3 DEF Triggers!ProbeIgnored, Triggers!DeferProbe
  <2> QED
    BY <2>1, <2>2, <2>3
<1>5. ProbesAreWeb'
  BY <1>1, <1>4 DEF ProbesAreWeb
<1> QED
  BY <1>1, <1>3, <1>5, CountsStay

LEMMA WorldKeeps ==
  ASSUME Triggers!TriggerAssumption, TriggersInv,
         Triggers!Tick \/ (\E t \in Targets, c \in Contents : Triggers!Edit(t, c)) \/ (\E t \in Targets : Triggers!EmitEvent(t))
  PROVE  TriggersInv'
<1> USE DEF TriggersInv
<1>1. UNCHANGED <<j_kind, j_target, j_job_status, j_next_run, j_baseline, j_delivered, j_pending, j_runs,
                  j_consumed, j_matched, j_covered, j_probe>>
  <2>1. CASE Triggers!Tick
    BY <2>1 DEF Triggers!Tick, Triggers!definition, Triggers!store, Triggers!queue, Triggers!history
  <2>2. ASSUME NEW t \in Targets, NEW c \in Contents, Triggers!Edit(t, c)
        PROVE  UNCHANGED <<j_kind, j_target, j_job_status, j_next_run, j_baseline, j_delivered, j_pending, j_runs,
                           j_consumed, j_matched, j_covered, j_probe>>
    BY <2>2 DEF Triggers!Edit, Triggers!definition, Triggers!store, Triggers!queue, Triggers!history
  <2>3. ASSUME NEW t \in Targets, Triggers!EmitEvent(t)
        PROVE  UNCHANGED <<j_kind, j_target, j_job_status, j_next_run, j_baseline, j_delivered, j_pending, j_runs,
                           j_consumed, j_matched, j_covered, j_probe>>
    BY <2>3 DEF Triggers!EmitEvent, Triggers!definition, Triggers!store, Triggers!history
  <2> QED
    BY <2>1, <2>2, <2>3
<1>2. WorldTypes'
  <2>1. CASE Triggers!Tick
    BY <2>1 DEF Triggers!Tick, Triggers!queue, WorldTypes, Triggers!Times,
       Triggers!TriggerAssumption
  <2>2. ASSUME NEW t \in Targets, NEW c \in Contents, Triggers!Edit(t, c) PROVE WorldTypes'
    BY <2>2 DEF Triggers!Edit, Triggers!queue, WorldTypes, Triggers!TriggerAssumption
  <2>3. ASSUME NEW t \in Targets, Triggers!EmitEvent(t) PROVE WorldTypes'
    <3>1. j_events' = Append(j_events, t) /\ Len(j_events) < MaxJobEvents /\ UNCHANGED <<j_now, j_content, j_changes>>
      BY <2>3 DEF Triggers!EmitEvent, Triggers!world
    <3>2. j_events' \in Seq(Targets) /\ Len(j_events') = Len(j_events) + 1
      BY <3>1 DEF WorldTypes
    <3> QED
      BY <1>1, <3>1, <3>2 DEF WorldTypes, Triggers!TriggerAssumption
  <2> QED
    BY <2>1, <2>2, <2>3
<1>3. JobTypes' /\ ProbesAreWeb'
  BY <1>1 DEF JobTypes, ProbesAreWeb
<1> QED
  BY <1>1, <1>2, <1>3, CountsStay

\* Steps of runs: nothing is inserted, and what is live was live.
LEMMA RunsKeep ==
  ASSUME Triggers!TriggerAssumption, TriggersInv, NEW j \in Jobs,
         Triggers!CancelJob(j) \/ Triggers!StartRun(j) \/ Triggers!EndRun(j) \/ Triggers!CancelRun(j) \/ Triggers!RetryRun(j)
  PROVE  TriggersInv'
<1> USE DEF TriggersInv
<1>1. UNCHANGED <<j_kind, j_target, j_baseline, j_delivered, j_pending, j_events, j_consumed, j_matched, j_covered,
                  j_probe, j_now, j_content, j_changes>>
  BY DEF Triggers!CancelJob, Triggers!StartRun, Triggers!EndRun, Triggers!CancelRun,
     Triggers!RetryRun, Triggers!RunStep, Triggers!definition, Triggers!queue, Triggers!world,
     Triggers!history
<1>2. /\ j_next_run' \in [Jobs -> Nat \union {NoContent}]
      /\ j_job_status' \in [Jobs -> Statuses]
  BY DEF Triggers!CancelJob, Triggers!StartRun, Triggers!EndRun, Triggers!CancelRun,
     Triggers!RetryRun, Triggers!RunStep, JobTypes, Statuses
<1>3. j_runs' \in [Jobs -> [Triggers!Keys -> RunStates]]
  <2>1. CASE Triggers!CancelJob(j)
    <3>1. [k \in Triggers!Keys |-> IF j_runs[j][k] = "waiting" THEN "over" ELSE j_runs[j][k]]
            \in [Triggers!Keys -> RunStates]
      BY DEF JobTypes, RunStates
    <3>2. j_runs' = [j_runs EXCEPT ![j] =
                     [k \in Triggers!Keys |-> IF j_runs[j][k] = "waiting" THEN "over" ELSE j_runs[j][k]]]
      BY <2>1 DEF Triggers!CancelJob
    <3> QED
      BY <3>1, <3>2 DEF JobTypes
  <2>2. CASE ~Triggers!CancelJob(j)
    <3>1. PICK k \in Triggers!Keys, to \in RunStates : j_runs' = [j_runs EXCEPT ![j][k] = to]
      BY <2>2 DEF Triggers!StartRun, Triggers!EndRun, Triggers!CancelRun, Triggers!RetryRun,
         Triggers!RunStep, RunStates
    <3> QED
      BY <3>1 DEF JobTypes
  <2> QED
    BY <2>1, <2>2
<1>4. \A i \in Jobs, k \in Triggers!Keys :
        /\ j_runs'[i][k] = "none" <=> j_runs[i][k] = "none"
        /\ j_runs'[i][k] \in {"waiting", "running"} => j_runs[i][k] \in {"waiting", "running"}
  <2>1. CASE Triggers!CancelJob(j)
    BY <2>1 DEF Triggers!CancelJob, JobTypes
  <2>2. CASE ~Triggers!CancelJob(j)
    BY <2>2 DEF Triggers!StartRun, Triggers!EndRun, Triggers!CancelRun, Triggers!RetryRun,
       Triggers!RunStep, JobTypes
  <2> QED
    BY <2>1, <2>2
<1>5. JobTypes' /\ WorldTypes' /\ CountTypes' /\ ProbesAreWeb' /\ AllCounted'
  BY <1>1, <1>2, <1>3 DEF JobTypes, WorldTypes, CountTypes, ProbesAreWeb, AllCounted
<1>6. LiveIsOne'
  BY <1>4 DEF LiveIsOne
<1>7. EventsHaveKeys'
  BY <1>1, <1>4 DEF EventsHaveKeys
<1> QED
  BY <1>5, <1>6, <1>7

\* A run that is inserted for a job with no live run.
LEMMA RunInserted ==
  ASSUME NEW rows \in [Triggers!Keys -> RunStates], NEW key \in Triggers!Keys,
         \A k \in Triggers!Keys : rows[k] \notin {"waiting", "running"}
  PROVE  /\ Triggers!WithRun(rows, key) \in [Triggers!Keys -> RunStates]
         /\ Triggers!WithRun(rows, key)[key] # "none"
         /\ \A k \in Triggers!Keys : k # key => Triggers!WithRun(rows, key)[k] = rows[k]
         /\ \A k, m \in Triggers!Keys : /\ Triggers!WithRun(rows, key)[k] \in {"waiting", "running"}
                                        /\ Triggers!WithRun(rows, key)[m] \in {"waiting", "running"}
                               => k = m
BY DEF Triggers!WithRun, RunStates

LEMMA ProbeRecorded ==
  ASSUME Triggers!TriggerAssumption, TriggersInv, NEW j \in Jobs, Triggers!RecordProbe(j)
  PROVE  TriggersInv'
<1> USE DEF TriggersInv
<1> DEFINE snapshot == j_probe[j].seen
<1>1. /\ UNCHANGED <<j_kind, j_target, j_job_status, j_pending, j_events, j_consumed, j_matched, j_covered, j_now,
                     j_content, j_changes>>
      /\ j_probe' = [j_probe EXCEPT ![j] = NoContent]
      /\ j_next_run' = [j_next_run EXCEPT ![j] = Triggers!Later(j_now + Triggers!Every)]
  BY DEF Triggers!RecordProbe, Triggers!definition, Triggers!queue, Triggers!world
<1>2. j_kind[j] = "web_change" /\ snapshot \in Contents
  BY DEF Triggers!RecordProbe, ProbesAreWeb, Probes, Snapshots
<1>3. \/ j_runs' = j_runs
      \/ ~Triggers!HasLiveRun(j) /\ j_runs' = [j_runs EXCEPT ![j] = Triggers!WithRun(j_runs[j], snapshot)]
  <2>1. j_runs' = IF (j_baseline[j] # NoContent /\ j_baseline[j] # snapshot) /\ ~Triggers!HasLiveRun(j)
                THEN [j_runs EXCEPT ![j] = Triggers!WithRun(j_runs[j], snapshot)] ELSE j_runs
    BY DEF Triggers!RecordProbe
  <2>2. ASSUME j_baseline[j] # NoContent, j_baseline[j] # snapshot, ~Triggers!HasLiveRun(j)
        PROVE  j_runs' = [j_runs EXCEPT ![j] = Triggers!WithRun(j_runs[j], snapshot)]
    BY <2>1, <2>2
  <2>3. ASSUME j_baseline[j] = NoContent \/ j_baseline[j] = snapshot \/ Triggers!HasLiveRun(j)
        PROVE  j_runs' = j_runs
    BY <2>1, <2>3
  <2> QED
    BY <2>2, <2>3
<1>4. j_baseline' \in [Jobs -> Snapshots]
  BY <1>2 DEF Triggers!RecordProbe, JobTypes, Snapshots
<1>5. j_delivered' \in [Jobs -> Snapshots]
  BY <1>2 DEF Triggers!RecordProbe, JobTypes, Snapshots
<1>6. Triggers!Later(j_now + Triggers!Every) \in Nat
  BY DEF Triggers!Later, Triggers!Every, WorldTypes, Triggers!Times, Triggers!TriggerAssumption
<1>7. snapshot \in Triggers!Keys
  BY <1>2 DEF Triggers!Keys
<1> HIDE DEF snapshot
<1>8. ~Triggers!HasLiveRun(j) => \A k \in Triggers!Keys : j_runs[j][k] \notin {"waiting", "running"}
  BY DEF Triggers!HasLiveRun, Triggers!LiveKeys
<1>9. j_runs' \in [Jobs -> [Triggers!Keys -> RunStates]] /\ LiveIsOne'
  <2>1. j_runs[j] \in [Triggers!Keys -> RunStates]
    BY DEF JobTypes
  <2>2. CASE j_runs' = j_runs
    BY <2>2 DEF JobTypes, LiveIsOne
  <2>3. CASE ~Triggers!HasLiveRun(j) /\ j_runs' = [j_runs EXCEPT ![j] = Triggers!WithRun(j_runs[j], snapshot)]
    BY <1>7, <1>8, <2>1, <2>3, RunInserted DEF JobTypes, LiveIsOne
  <2> QED
    BY <1>3, <2>2, <2>3
<1>10. \A i \in Jobs : i # j => j_runs'[i] = j_runs[i]
  BY <1>3 DEF JobTypes
<1>11. JobTypes' /\ WorldTypes' /\ CountTypes' /\ ProbesAreWeb' /\ AllCounted'
  BY <1>1, <1>4, <1>5, <1>6, <1>9 DEF JobTypes, WorldTypes, CountTypes, ProbesAreWeb, AllCounted
<1>12. EventsHaveKeys'
  BY <1>1, <1>2, <1>10 DEF EventsHaveKeys
<1> QED
  BY <1>9, <1>11, <1>12

-----------------------------------------------------------------------------
\* What materialize_due makes of a job.
LEMMA KeysToInsert ==
  ASSUME Triggers!TriggerAssumption, TriggersInv, NEW j \in Jobs
  PROVE  /\ Triggers!NewKeys(j) \subseteq Triggers!Keys
         /\ Triggers!NewKeys(j) # {} => \A k \in Triggers!Keys : j_runs[j][k] \notin {"waiting", "running"}
         /\ j_kind[j] = "event" /\ Triggers!Matching(j) # {} =>
              /\ Triggers!First(Triggers!Matching(j)) \in Triggers!Matching(j)
              /\ j_runs[j][Triggers!First(Triggers!Matching(j))] = "none"
              /\ ~Triggers!HasLiveRun(j) => Triggers!NewKeys(j) = {Triggers!First(Triggers!Matching(j))}
         /\ Triggers!Flushes(j) => Triggers!NewKeys(j) = {j_pending[j].id} /\ j_runs[j][j_pending[j].id] = "none"
<1> USE DEF TriggersInv
<1>1. Triggers!Matching(j) \subseteq j_consumed + 1 .. Triggers!ReadTo /\ Triggers!ReadTo \in Nat /\ Triggers!ReadTo <= MaxJobEvents
  BY BatchOfEvents DEF WorldTypes, Triggers!TriggerAssumption
<1>2. Triggers!Matching(j) # {} => Triggers!First(Triggers!Matching(j)) \in Triggers!Matching(j)
  <2>1. Triggers!Matching(j) \in SUBSET Nat
    BY <1>1 DEF WorldTypes
  <2> QED
    BY <2>1, FirstOfSome
<1>3. Triggers!Matching(j) \subseteq Triggers!Keys /\ Triggers!Matching(j) \subseteq Nat
  <2>1. ASSUME NEW i \in Triggers!Matching(j) PROVE i \in 1..MaxJobEvents
    BY <1>1 DEF WorldTypes, Triggers!TriggerAssumption
  <2> QED
    BY <2>1 DEF Triggers!Keys
<1>4. Triggers!Flushes(j) => j_pending[j].id \in Triggers!Keys /\ j_runs[j][j_pending[j].id] = "none"
  BY DEF Triggers!Flushes, EventsHaveKeys
<1>5. Triggers!TimeDue(j) => j_next_run[j] \in Triggers!Keys
  BY DEF Triggers!TimeDue, JobTypes, WorldTypes, Triggers!Times, Triggers!Keys,
     Triggers!TriggerAssumption
<1>6. Triggers!FileChanged(j) => j_content[j_target[j]] \in Triggers!Keys
  BY DEF JobTypes, WorldTypes, Triggers!Keys
<1>7. Triggers!NewKeys(j) \subseteq Triggers!Keys
  BY <1>2, <1>3, <1>4, <1>5, <1>6 DEF Triggers!NewKeys
<1>8. Triggers!NewKeys(j) # {} => \A k \in Triggers!Keys : j_runs[j][k] \notin {"waiting", "running"}
  BY DEF Triggers!NewKeys, Triggers!HasLiveRun, Triggers!LiveKeys
<1>9. j_kind[j] = "event" => ~Triggers!TimeDue(j) /\ ~Triggers!FileChanged(j)
  BY DEF Triggers!TimeDue, Triggers!FileChanged, Triggers!Timed
<1>10. Triggers!Flushes(j) => Triggers!NewKeys(j) = {j_pending[j].id}
  BY <1>9 DEF Triggers!Flushes, Triggers!NewKeys
<1>11. j_kind[j] = "event" /\ Triggers!Matching(j) # {} => j_runs[j][Triggers!First(Triggers!Matching(j))] = "none"
  <2> SUFFICES ASSUME j_kind[j] = "event", Triggers!Matching(j) # {}, j_runs[j][Triggers!First(Triggers!Matching(j))] # "none"
               PROVE  FALSE
    OBVIOUS
  <2>1. Triggers!First(Triggers!Matching(j)) \in Triggers!Keys /\ Triggers!First(Triggers!Matching(j)) \in j_consumed + 1 .. Triggers!ReadTo
    BY <1>1, <1>2, <1>3
  <2>2. Triggers!First(Triggers!Matching(j)) \in 1..j_consumed
    BY <2>1 DEF EventsHaveKeys
  <2> QED
    BY <2>1, <2>2, <1>1 DEF WorldTypes
<1>12. j_kind[j] = "event" /\ Triggers!Matching(j) # {} /\ ~Triggers!HasLiveRun(j) => Triggers!NewKeys(j) = {Triggers!First(Triggers!Matching(j))}
  BY <1>9 DEF Triggers!Flushes, Triggers!NewKeys
<1> QED
  BY <1>2, <1>4, <1>7, <1>8, <1>10, <1>11, <1>12

\* What is pending after a batch.
LEMMA NotedEvents ==
  ASSUME Triggers!TriggerAssumption, TriggersInv, NEW j \in Jobs
  PROVE  /\ Triggers!PendingAfter(j) \in EventNotes
         /\ Triggers!Noted(j) \subseteq Triggers!Matching(j)
         /\ Triggers!Noted(j) = {} => Triggers!PendingAfter(j) = j_pending[j]
         /\ Triggers!Noted(j) # {} => Triggers!PendingAfter(j).id \in Triggers!Noted(j)
         /\ Triggers!PendingAfter(j).count = j_pending[j].count + Cardinality(Triggers!Noted(j))
         /\ Cardinality(Triggers!Noted(j)) = 
              IF Triggers!HasLiveRun(j) \/ Triggers!Matching(j) = {} THEN Cardinality(Triggers!Matching(j))
              ELSE Cardinality(Triggers!Matching(j)) - 1
<1> USE DEF TriggersInv
<1>1. /\ Triggers!Matching(j) \subseteq j_consumed + 1 .. Triggers!ReadTo /\ Triggers!ReadTo \in Nat /\ Triggers!ReadTo <= MaxJobEvents
      /\ IsFiniteSet(Triggers!Matching(j)) /\ Cardinality(Triggers!Matching(j)) \in Nat
  BY BatchOfEvents DEF WorldTypes, Triggers!TriggerAssumption
<1>2. Triggers!Noted(j) \subseteq Triggers!Matching(j)
  BY DEF Triggers!Noted
<1>3. IsFiniteSet(Triggers!Noted(j)) /\ Cardinality(Triggers!Noted(j)) \in Nat
  BY <1>1, <1>2, FS_Subset, FS_CardinalityType
<1>4. Triggers!Noted(j) # {} => Triggers!Last(Triggers!Noted(j)) \in Triggers!Noted(j)
  <2>1. MaxJobEvents \in Nat /\ Triggers!Noted(j) \in SUBSET (0..MaxJobEvents)
    BY <1>1, <1>2 DEF WorldTypes, Triggers!TriggerAssumption
  <2> QED
    BY <2>1, LastOfSome
<1>5. j_pending[j] \in EventNotes /\ j_pending[j].count \in Nat
  BY DEF JobTypes, EventNotes
<1>6. Triggers!Noted(j) # {} =>
        Triggers!PendingAfter(j) = [id |-> Triggers!Last(Triggers!Noted(j)),
                           count |-> j_pending[j].count + Cardinality(Triggers!Noted(j))]
  BY SameTriggersCardinality DEF Triggers!PendingAfter
<1>7. Triggers!Noted(j) = {} => Triggers!PendingAfter(j) = j_pending[j] /\ Cardinality(Triggers!Noted(j)) = 0
  BY FS_EmptySet DEF Triggers!PendingAfter
<1>8. Triggers!Noted(j) # {} => Triggers!Last(Triggers!Noted(j)) \in 0..MaxJobEvents
  <2>1. ASSUME NEW i \in Triggers!Matching(j) PROVE i \in 0..MaxJobEvents
    BY <1>1 DEF WorldTypes, Triggers!TriggerAssumption
  <2> QED
    BY <1>2, <1>4, <2>1
<1>9. Triggers!PendingAfter(j) \in EventNotes
  BY <1>3, <1>5, <1>6, <1>7, <1>8 DEF EventNotes
<1>10. Triggers!PendingAfter(j).count = j_pending[j].count + Cardinality(Triggers!Noted(j))
  BY <1>3, <1>5, <1>6, <1>7
<1>11. Cardinality(Triggers!Noted(j)) =
         IF Triggers!HasLiveRun(j) \/ Triggers!Matching(j) = {} THEN Cardinality(Triggers!Matching(j))
         ELSE Cardinality(Triggers!Matching(j)) - 1
  <2>1. CASE Triggers!HasLiveRun(j) \/ Triggers!Matching(j) = {}
    BY <2>1 DEF Triggers!Noted
  <2>2. CASE ~Triggers!HasLiveRun(j) /\ Triggers!Matching(j) # {}
    <3>1. Triggers!Matching(j) \in SUBSET Nat
      BY <1>1 DEF WorldTypes
    <3>2. Triggers!First(Triggers!Matching(j)) \in Triggers!Matching(j)
      BY <2>2, <3>1, FirstOfSome
    <3>3. Triggers!Noted(j) = Triggers!Matching(j) \ {Triggers!First(Triggers!Matching(j))}
      BY <2>2 DEF Triggers!Noted
    <3> QED
      BY <1>1, <2>2, <3>2, <3>3, FS_RemoveElement
  <2> QED
    BY <2>1, <2>2
<1> QED
  BY <1>2, <1>4, <1>6, <1>7, <1>9, <1>10, <1>11

\* What materialize_due does to a job, said for that job alone.
LEMMA MaterializedJob ==
  ASSUME Triggers!TriggerAssumption, TriggersInv, Triggers!Materialize, NEW j \in Jobs
  PROVE  /\ \/ j_runs'[j] = j_runs[j]
            \/ \E key \in Triggers!NewKeys(j) : j_runs'[j] = Triggers!WithRun(j_runs[j], key)
         /\ j_job_status[j] # "active" =>
              /\ j_runs'[j] = j_runs[j] /\ j_pending'[j] = j_pending[j]
              /\ j_matched'[j] = j_matched[j] /\ j_covered'[j] = j_covered[j]
         /\ j_job_status[j] = "active" =>
              /\ j_pending'[j] = IF Triggers!Flushes(j) THEN Triggers!NoEvent ELSE Triggers!PendingAfter(j)
              /\ j_matched'[j] = j_matched[j] + Cardinality(Triggers!Matching(j))
              /\ Triggers!NewKeys(j) = {} => j_runs'[j] = j_runs[j] /\ j_covered'[j] = j_covered[j]
              /\ j_kind[j] # "event" => j_covered'[j] = j_covered[j]
              /\ \A key : Triggers!NewKeys(j) = {key} =>
                   /\ j_runs'[j] = Triggers!WithRun(j_runs[j], key)
                   /\ j_kind[j] = "event" /\ j_runs[j][key] = "none" =>
                        j_covered'[j] = j_covered[j] + IF Triggers!Flushes(j) THEN j_pending[j].count ELSE 1
<1> DEFINE active == {i \in Jobs : j_job_status[i] = "active"}
           fires  == {i \in active : Triggers!NewKeys(i) # {}}
           Inserted(i) == CHOOSE k \in Triggers!NewKeys(i) : TRUE
           isNew == {i \in fires : j_runs[i][Inserted(i)] = "none"}
<1>1. /\ j_runs'[j] = IF j \in fires THEN Triggers!WithRun(j_runs[j], Inserted(j)) ELSE j_runs[j]
      /\ j_pending'[j] = IF j \notin active THEN j_pending[j]
                       ELSE IF Triggers!Flushes(j) THEN Triggers!NoEvent ELSE Triggers!PendingAfter(j)
      /\ j_matched'[j] = IF j \in active THEN j_matched[j] + Cardinality(Triggers!Matching(j)) ELSE j_matched[j]
      /\ j_covered'[j] = IF j \notin isNew \/ j_kind[j] # "event" THEN j_covered[j]
                       ELSE j_covered[j] + IF Triggers!Flushes(j) THEN j_pending[j].count ELSE 1
  BY SameTriggersCardinality DEF Triggers!Materialize
<1>2. Triggers!NewKeys(j) # {} => Inserted(j) \in Triggers!NewKeys(j)
  OBVIOUS
<1>3. \A key : Triggers!NewKeys(j) = {key} => Inserted(j) = key
  BY <1>2
<1>4. /\ j \in active <=> j_job_status[j] = "active"
      /\ j \in fires <=> j_job_status[j] = "active" /\ Triggers!NewKeys(j) # {}
      /\ j \in isNew <=> j \in fires /\ j_runs[j][Inserted(j)] = "none"
  OBVIOUS
<1> HIDE DEF active, fires, Inserted, isNew
<1>5. CASE j_job_status[j] # "active"
  BY <1>1, <1>4, <1>5
<1>6. CASE j_job_status[j] = "active" /\ Triggers!NewKeys(j) = {}
  BY <1>1, <1>4, <1>6
<1>7. CASE j_job_status[j] = "active" /\ Triggers!NewKeys(j) # {}
  BY <1>1, <1>2, <1>3, <1>4, <1>7
<1> QED
  BY <1>5, <1>6, <1>7

LEMMA MaterializeTypes ==
  ASSUME Triggers!TriggerAssumption, TriggersInv, Triggers!Materialize
  PROVE  JobTypes' /\ WorldTypes' /\ ProbesAreWeb'
<1> USE DEF TriggersInv
<1>1. UNCHANGED <<j_kind, j_target, j_events, j_probe, j_now, j_content, j_changes>> /\ j_consumed' = Triggers!ReadTo
  BY DEF Triggers!Materialize, Triggers!definition, Triggers!world
<1>2. WorldTypes' /\ ProbesAreWeb'
  BY <1>1, BatchOfEvents DEF WorldTypes, ProbesAreWeb
<1>3. j_job_status' \in [Jobs -> Statuses]
  BY DEF Triggers!Materialize, JobTypes, Statuses
<1>4. ASSUME NEW j \in Jobs, Triggers!TimeDue(j) PROVE Triggers!Advance(j_next_run[j]) \in Nat
  <2>1. j_next_run[j] \in Nat /\ j_now \in Nat
    BY <1>4 DEF Triggers!TimeDue, JobTypes, WorldTypes, Triggers!Times, Triggers!TriggerAssumption
  <2>2. \A t \in j_now + 1 .. j_now + Triggers!Every : t = j_now + 1 /\ (t - j_next_run[j]) % Triggers!Every = 0
    BY <2>1 DEF Triggers!Every
  <2>3. j_now + 1 \in j_now + 1 .. j_now + Triggers!Every
    BY <2>1 DEF Triggers!Every
  <2>4. Triggers!Advance(j_next_run[j]) \in j_now + 1 .. j_now + Triggers!Every
    BY <2>2, <2>3 DEF Triggers!Advance
  <2> QED
    BY <2>1, <2>4 DEF Triggers!Every
<1>5. j_next_run' \in [Jobs -> Nat \union {NoContent}]
  <2> DEFINE active == {i \in Jobs : j_job_status[i] = "active"}
  <2>1. j_next_run' = [j \in Jobs |->
          IF j \in active /\ Triggers!TimeDue(j)
          THEN IF j_kind[j] = "once" THEN NoContent ELSE Triggers!Advance(j_next_run[j]) ELSE j_next_run[j]]
    BY DEF Triggers!Materialize
  <2> QED
    BY <1>4, <2>1 DEF JobTypes
<1>6. \A j \in Jobs : j_content[j_target[j]] \in Contents
  BY DEF JobTypes, WorldTypes
<1>7. j_baseline' \in [Jobs -> Snapshots] /\ j_delivered' \in [Jobs -> Snapshots]
  BY <1>6 DEF Triggers!Materialize, JobTypes, Snapshots
<1>8. j_pending' \in [Jobs -> EventNotes]
  <2>1. \A j \in Jobs : j_pending[j] \in EventNotes /\ Triggers!PendingAfter(j) \in EventNotes
    BY NotedEvents DEF JobTypes
  <2>2. Triggers!NoEvent \in EventNotes
    BY DEF Triggers!NoEvent, EventNotes, WorldTypes, Triggers!TriggerAssumption
  <2> QED
    BY <2>1, <2>2 DEF Triggers!Materialize
<1>9. j_runs' \in [Jobs -> [Triggers!Keys -> RunStates]]
  <2>1. \A j \in Jobs : j_runs'[j] \in [Triggers!Keys -> RunStates]
    <3> SUFFICES ASSUME NEW j \in Jobs PROVE j_runs'[j] \in [Triggers!Keys -> RunStates]
      OBVIOUS
    <3>1. j_runs[j] \in [Triggers!Keys -> RunStates]
      BY DEF JobTypes
    <3>2. ASSUME NEW key \in Triggers!NewKeys(j) PROVE Triggers!WithRun(j_runs[j], key) \in [Triggers!Keys -> RunStates]
      BY <3>1, <3>2, KeysToInsert, RunInserted
    <3> QED
      BY <3>1, <3>2, MaterializedJob
  <2>2. DOMAIN j_runs' = Jobs /\ j_runs' = [j \in Jobs |-> j_runs'[j]]
    BY DEF Triggers!Materialize
  <2> QED
    BY <2>1, <2>2
<1> QED
  BY <1>1, <1>2, <1>3, <1>5, <1>7, <1>8, <1>9 DEF JobTypes

\* The books of a job are right after a batch.
LEMMA MaterializeCounts ==
  ASSUME Triggers!TriggerAssumption, TriggersInv, Triggers!Materialize, NEW j \in Jobs
  PROVE  /\ j_matched'[j] \in Nat /\ j_covered'[j] \in Nat
         /\ j_matched'[j] = j_covered'[j] + j_pending'[j].count /\ j_matched'[j] <= j_consumed'
<1> USE DEF TriggersInv
<1> DEFINE c == Cardinality(Triggers!Matching(j))
<1>1. /\ j_matched[j] \in Nat /\ j_covered[j] \in Nat /\ j_pending[j].count \in Nat
      /\ j_matched[j] = j_covered[j] + j_pending[j].count /\ j_matched[j] <= j_consumed /\ j_consumed \in Nat
  BY DEF CountTypes, JobTypes, EventNotes, AllCounted, WorldTypes
<1>2. /\ c \in Nat /\ c <= Triggers!ReadTo - j_consumed /\ Triggers!ReadTo \in Nat /\ j_consumed <= Triggers!ReadTo
      /\ j_consumed' = Triggers!ReadTo
  BY BatchOfEvents DEF Triggers!Materialize
<1>3. j_job_status[j] # "active" => j_matched'[j] = j_matched[j] /\ j_covered'[j] = j_covered[j] /\ j_pending'[j] = j_pending[j]
  BY MaterializedJob
<1>4. j_job_status[j] = "active" =>
        /\ j_pending'[j] = IF Triggers!Flushes(j) THEN Triggers!NoEvent ELSE Triggers!PendingAfter(j)
        /\ j_matched'[j] = j_matched[j] + c
  BY MaterializedJob
<1>5. j_kind[j] # "event" => c = 0 /\ ~Triggers!Flushes(j) /\ Triggers!Noted(j) = {}
  BY FS_EmptySet DEF Triggers!Matching, Triggers!Flushes, Triggers!Noted
<1>6. Triggers!PendingAfter(j).count = j_pending[j].count + Cardinality(Triggers!Noted(j))
  BY NotedEvents
<1>7. Cardinality(Triggers!Noted(j)) = IF Triggers!HasLiveRun(j) \/ Triggers!Matching(j) = {} THEN c ELSE c - 1
  BY NotedEvents
<1>8. c = 0 <=> Triggers!Matching(j) = {}
  BY BatchOfEvents, FS_EmptySet
<1> HIDE DEF c
<1>9. CASE j_job_status[j] # "active"
  BY <1>1, <1>2, <1>3, <1>9
<1>10. CASE j_job_status[j] = "active" /\ j_kind[j] # "event"
  <2>1. j_covered'[j] = j_covered[j]
    BY <1>10, MaterializedJob
  <2>2. Triggers!PendingAfter(j) = j_pending[j]
    BY <1>5, <1>10, NotedEvents
  <2> QED
    BY <1>1, <1>2, <1>4, <1>5, <1>10, <2>1, <2>2
<1>11. CASE j_job_status[j] = "active" /\ j_kind[j] = "event" /\ Triggers!HasLiveRun(j)
  <2>1. Triggers!NewKeys(j) = {} /\ ~Triggers!Flushes(j)
    BY <1>11 DEF Triggers!NewKeys, Triggers!Flushes
  <2>2. j_covered'[j] = j_covered[j]
    BY <1>11, <2>1, MaterializedJob
  <2> QED
    BY <1>1, <1>2, <1>4, <1>6, <1>7, <1>11, <2>1, <2>2
<1>12. CASE j_job_status[j] = "active" /\ j_kind[j] = "event" /\ ~Triggers!HasLiveRun(j) /\ Triggers!Matching(j) = {}
  <2>1. CASE Triggers!Flushes(j)
    <3>1. Triggers!NewKeys(j) = {j_pending[j].id} /\ j_runs[j][j_pending[j].id] = "none"
      BY <2>1, KeysToInsert
    <3>2. j_covered'[j] = j_covered[j] + j_pending[j].count
      BY <1>12, <2>1, <3>1, MaterializedJob
    <3>3. j_pending'[j].count = 0
      BY <1>4, <1>12, <2>1 DEF Triggers!NoEvent
    <3> QED
      BY <1>1, <1>2, <1>4, <1>8, <1>12, <3>2, <3>3
  <2>2. CASE ~Triggers!Flushes(j)
    <3>1. Triggers!NewKeys(j) = {}
      BY <1>12, <2>2 DEF Triggers!NewKeys, Triggers!TimeDue, Triggers!FileChanged, Triggers!Timed
    <3>2. j_covered'[j] = j_covered[j]
      BY <1>12, <3>1, MaterializedJob
    <3> QED
      BY <1>1, <1>2, <1>4, <1>6, <1>7, <1>8, <1>12, <2>2, <3>2
  <2> QED
    BY <2>1, <2>2
<1>13. CASE j_job_status[j] = "active" /\ j_kind[j] = "event" /\ ~Triggers!HasLiveRun(j) /\ Triggers!Matching(j) # {}
  <2>1. Triggers!NewKeys(j) = {Triggers!First(Triggers!Matching(j))} /\ j_runs[j][Triggers!First(Triggers!Matching(j))] = "none"
    BY <1>13, KeysToInsert
  <2>2. ~Triggers!Flushes(j)
    BY <1>13 DEF Triggers!Flushes
  <2>3. j_covered'[j] = j_covered[j] + 1
    BY <1>13, <2>1, <2>2, MaterializedJob
  <2> QED
    BY <1>1, <1>2, <1>4, <1>6, <1>7, <1>8, <1>13, <2>2, <2>3
<1> QED
  BY <1>9, <1>10, <1>11, <1>12, <1>13

LEMMA MaterializeKeys ==
  ASSUME Triggers!TriggerAssumption, TriggersInv, Triggers!Materialize
  PROVE  LiveIsOne' /\ EventsHaveKeys'
<1> USE DEF TriggersInv
<1>0. \A j \in Jobs : j_runs[j] \in [Triggers!Keys -> RunStates]
  BY DEF JobTypes
<1>1. LiveIsOne'
  <2> SUFFICES ASSUME NEW j \in Jobs
               PROVE  \A k, m \in Triggers!Keys : j_runs'[j][k] \in {"waiting", "running"} /\ j_runs'[j][m] \in {"waiting", "running"}
                                           => k = m
    BY DEF LiveIsOne
  <2>1. CASE j_runs'[j] = j_runs[j]
    <3>1. \A k, m \in Triggers!Keys : j_runs[j][k] \in {"waiting", "running"} /\ j_runs[j][m] \in {"waiting", "running"}
                               => k = m
      BY DEF LiveIsOne
    <3> QED
      BY <2>1, <3>1
  <2>2. ASSUME NEW key \in Triggers!NewKeys(j), j_runs'[j] = Triggers!WithRun(j_runs[j], key)
        PROVE  \A k, m \in Triggers!Keys : j_runs'[j][k] \in {"waiting", "running"} /\ j_runs'[j][m] \in {"waiting", "running"}
                                    => k = m
    <3>1. key \in Triggers!Keys /\ \A k \in Triggers!Keys : j_runs[j][k] \notin {"waiting", "running"}
      BY KeysToInsert
    <3>2. j_runs[j] \in [Triggers!Keys -> RunStates]
      BY <1>0
    <3> DEFINE f == Triggers!WithRun(j_runs[j], key)
    <3>3. \A k, m \in Triggers!Keys : f[k] \in {"waiting", "running"} /\ f[m] \in {"waiting", "running"}
                               => k = m
      BY <3>1, <3>2, RunInserted
    <3>4. j_runs'[j] = f
      BY <2>2
    <3> HIDE DEF f
    <3> QED
      BY <3>3, <3>4
  <2> QED
    BY <2>1, <2>2, MaterializedJob
<1>2. UNCHANGED j_kind /\ j_consumed' = Triggers!ReadTo
  BY DEF Triggers!Materialize, Triggers!definition
<1>3. Triggers!ReadTo \in Nat /\ j_consumed <= Triggers!ReadTo /\ j_consumed \in Nat
  BY BatchOfEvents DEF WorldTypes
<1>4. ASSUME NEW j \in Jobs
      PROVE  /\ j_kind'[j] # "event" => j_pending'[j] = Triggers!NoEvent
             /\ j_kind'[j] = "event" => \A k \in Triggers!Keys : j_runs'[j][k] # "none" => k \in 1..j_consumed'
             /\ j_pending'[j] # Triggers!NoEvent =>
                  /\ j_pending'[j].id \in 1..j_consumed' /\ j_pending'[j].id \in Triggers!Keys
                  /\ j_runs'[j][j_pending'[j].id] = "none"
  <2>0. Triggers!Matching(j) \subseteq j_consumed + 1 .. Triggers!ReadTo /\ Triggers!Matching(j) \subseteq 1 .. MaxJobEvents
    <3>1. /\ Triggers!Matching(j) \subseteq j_consumed + 1 .. Triggers!ReadTo /\ Triggers!ReadTo <= Len(j_events)
          /\ Len(j_events) <= MaxJobEvents /\ Len(j_events) \in Nat /\ MaxJobEvents \in Nat
      BY BatchOfEvents DEF WorldTypes, Triggers!TriggerAssumption
    <3>2. ASSUME NEW i \in Triggers!Matching(j) PROVE i \in 1..MaxJobEvents
      BY <1>3, <3>1
    <3> QED
      BY <3>1, <3>2
  <2>1. j_kind[j] # "event" => j_pending[j] = Triggers!NoEvent
    BY DEF EventsHaveKeys
  <2>2. j_kind[j] = "event" => \A k \in Triggers!Keys : j_runs[j][k] # "none" => k \in 1..j_consumed
    BY DEF EventsHaveKeys
  <2>3. j_pending[j] # Triggers!NoEvent => /\ j_pending[j].id \in 1..j_consumed /\ j_pending[j].id \in Triggers!Keys
                                           /\ j_runs[j][j_pending[j].id] = "none"
    BY DEF EventsHaveKeys
  <2>4. j_kind'[j] # "event" => j_pending'[j] = Triggers!NoEvent
    <3> SUFFICES ASSUME j_kind[j] # "event" PROVE j_pending'[j] = Triggers!NoEvent
      BY <1>2
    <3>1. Triggers!Noted(j) = {} /\ ~Triggers!Flushes(j)
      BY DEF Triggers!Matching, Triggers!Noted, Triggers!Flushes
    <3>2. Triggers!PendingAfter(j) = Triggers!NoEvent
      BY <2>1, <3>1, NotedEvents
    <3> QED
      BY <2>1, <3>1, <3>2, MaterializedJob
  <2>5. CASE j_kind[j] # "event"
    BY <1>2, <2>4, <2>5
  <2>6. CASE j_kind[j] = "event" /\ j_job_status[j] # "active"
    <3>1. j_runs'[j] = j_runs[j] /\ j_pending'[j] = j_pending[j]
      BY <2>6, MaterializedJob
    <3> QED
      BY <1>2, <1>3, <2>2, <2>3, <2>6, <3>1
  <2>7. CASE j_kind[j] = "event" /\ j_job_status[j] = "active" /\ Triggers!HasLiveRun(j)
    <3>1. Triggers!NewKeys(j) = {} /\ ~Triggers!Flushes(j) /\ Triggers!Noted(j) = Triggers!Matching(j)
      BY <2>7 DEF Triggers!NewKeys, Triggers!Flushes, Triggers!Noted
    <3>2. j_runs'[j] = j_runs[j] /\ j_pending'[j] = Triggers!PendingAfter(j)
      BY <2>7, <3>1, MaterializedJob
    <3>3. CASE Triggers!Matching(j) = {}
      <4>1. j_pending'[j] = j_pending[j]
        BY <3>1, <3>2, <3>3, NotedEvents
      <4> QED
        BY <1>2, <1>3, <2>2, <2>3, <2>7, <3>2, <4>1
    <3>4. CASE Triggers!Matching(j) # {}
      <4>1. j_pending'[j].id \in Triggers!Matching(j)
        BY <3>1, <3>2, <3>4, NotedEvents
      <4>2. j_pending'[j].id \in j_consumed + 1 .. Triggers!ReadTo /\ j_pending'[j].id \in Triggers!Keys
        BY <2>0, <4>1 DEF Triggers!Keys
      <4>3. j_runs[j][j_pending'[j].id] = "none"
        BY <1>3, <2>2, <2>7, <4>2
      <4> QED
        BY <1>2, <1>3, <2>2, <2>7, <3>2, <4>2, <4>3
    <3> QED
      BY <3>3, <3>4
  <2>8. CASE j_kind[j] = "event" /\ j_job_status[j] = "active" /\ ~Triggers!HasLiveRun(j) /\ Triggers!Matching(j) = {}
    <3>1. CASE Triggers!Flushes(j)
      <4>1. Triggers!NewKeys(j) = {j_pending[j].id} /\ j_pending[j] # Triggers!NoEvent /\ j_pending[j].id \in Triggers!Keys
        BY <2>3, <3>1, KeysToInsert DEF Triggers!Flushes
      <4>2. j_runs'[j] = Triggers!WithRun(j_runs[j], j_pending[j].id) /\ j_pending'[j] = Triggers!NoEvent
        BY <2>8, <3>1, <4>1, MaterializedJob
      <4>3. \A k \in Triggers!Keys : k # j_pending[j].id => j_runs'[j][k] = j_runs[j][k]
        <5>1. /\ j_runs[j] \in [Triggers!Keys -> RunStates]
              /\ \A k \in Triggers!Keys : j_runs[j][k] \notin {"waiting", "running"}
          BY <1>0, <4>1, KeysToInsert
        <5>2. \A k \in Triggers!Keys : k # j_pending[j].id => Triggers!WithRun(j_runs[j], j_pending[j].id)[k] = j_runs[j][k]
          BY <4>1, <5>1, RunInserted
        <5> QED
          BY <4>2, <5>2
      <4> QED
        BY <1>2, <1>3, <2>2, <2>3, <2>8, <4>1, <4>2, <4>3
    <3>2. CASE ~Triggers!Flushes(j)
      <4>1. Triggers!NewKeys(j) = {} /\ Triggers!Noted(j) = {}
        BY <2>8, <3>2 DEF Triggers!NewKeys, Triggers!TimeDue, Triggers!FileChanged,
           Triggers!Timed, Triggers!Noted
      <4>2. j_runs'[j] = j_runs[j] /\ j_pending'[j] = j_pending[j]
        BY <2>8, <3>2, <4>1, MaterializedJob, NotedEvents
      <4> QED
        BY <1>2, <1>3, <2>2, <2>3, <2>8, <4>2
    <3> QED
      BY <3>1, <3>2
  <2>9. CASE j_kind[j] = "event" /\ j_job_status[j] = "active" /\ ~Triggers!HasLiveRun(j) /\ Triggers!Matching(j) # {}
    <3> DEFINE f == Triggers!First(Triggers!Matching(j))
    <3>1. f \in Triggers!Matching(j) /\ Triggers!NewKeys(j) = {f} /\ ~Triggers!Flushes(j)
      BY <2>9, KeysToInsert DEF Triggers!Flushes
    <3>2. Triggers!Noted(j) = Triggers!Matching(j) \ {f}
      BY <2>9 DEF Triggers!Noted
    <3> HIDE DEF f
    <3>3. j_runs'[j] = Triggers!WithRun(j_runs[j], f) /\ j_pending'[j] = Triggers!PendingAfter(j)
      BY <2>9, <3>1, MaterializedJob
    <3>4. f \in Triggers!Keys /\ f \in j_consumed + 1 .. Triggers!ReadTo
      BY <2>0, <3>1 DEF Triggers!Keys
    <3>5. \A k \in Triggers!Keys : k # f => j_runs'[j][k] = j_runs[j][k]
      <4>1. \A k \in Triggers!Keys : j_runs[j][k] \notin {"waiting", "running"}
        BY <3>1, KeysToInsert
      <4> QED
        BY <1>0, <3>3, <3>4, <4>1, RunInserted
    <3>6. \A k \in Triggers!Keys : j_runs'[j][k] # "none" => k \in 1..j_consumed'
      BY <1>2, <1>3, <2>2, <2>9, <3>4, <3>5
    <3>7. CASE Triggers!Noted(j) = {}
      <4>1. j_pending'[j] = j_pending[j]
        BY <3>3, <3>7, NotedEvents
      <4>2. j_pending[j] # Triggers!NoEvent => j_pending[j].id # f
        BY <1>3, <2>3, <3>4
      <4> QED
        BY <1>2, <1>3, <2>3, <2>9, <3>5, <3>6, <4>1, <4>2
    <3>8. CASE Triggers!Noted(j) # {}
      <4>1. j_pending'[j].id \in Triggers!Matching(j) /\ j_pending'[j].id # f
        BY <3>2, <3>3, <3>8, NotedEvents
      <4>2. j_pending'[j].id \in j_consumed + 1 .. Triggers!ReadTo /\ j_pending'[j].id \in Triggers!Keys
        BY <2>0, <4>1 DEF Triggers!Keys
      <4>3. j_runs[j][j_pending'[j].id] = "none"
        BY <1>3, <2>2, <2>9, <4>2
      <4> QED
        BY <1>2, <1>3, <2>9, <3>5, <3>6, <4>1, <4>2, <4>3
    <3> QED
      BY <3>7, <3>8
  <2> QED
    BY <2>5, <2>6, <2>7, <2>8, <2>9
<1>5. EventsHaveKeys'
  BY <1>4 DEF EventsHaveKeys
<1> QED
  BY <1>1, <1>5

LEMMA TriggersStep == ASSUME Triggers!TriggerAssumption PROVE TriggersInv /\ Triggers!Next => TriggersInv'
<1> SUFFICES ASSUME TriggersInv, Triggers!Next PROVE TriggersInv'
  OBVIOUS
<1>1. CASE Triggers!Materialize
  <2>1. j_matched' = [j \in Jobs |-> j_matched'[j]] /\ j_covered' = [j \in Jobs |-> j_covered'[j]]
    BY <1>1 DEF Triggers!Materialize
  <2>2. CountTypes' /\ AllCounted'
    BY <1>1, <2>1, MaterializeCounts DEF CountTypes, AllCounted
  <2> QED
    BY <1>1, <2>2, MaterializeTypes, MaterializeKeys DEF TriggersInv
<1>2. ASSUME NEW j \in Jobs, Triggers!EditJob(j) PROVE TriggersInv'
  <2>1. CASE Triggers!CancelJob(j)
    BY <2>1, RunsKeep
  <2>2. ASSUME NEW due \in Triggers!Times, Triggers!CreateJob(j, due) \/ Triggers!ResumeJob(j, due) \/ Triggers!PauseJob(j) \/ Triggers!DeleteJob(j)
        PROVE  TriggersInv'
    <3>1. j_target[j] \in Targets
      BY DEF TriggersInv, JobTypes
    <3> QED
      BY <2>2, <3>1, EditsKeep
  <2>3. ASSUME NEW t \in Targets, NEW due \in Triggers!Times, Triggers!UpdateJob(j, t, due) PROVE TriggersInv'
    BY <2>3, EditsKeep
  <2>4. j_now \in Triggers!Times
    BY DEF TriggersInv, WorldTypes
  <2> QED
    BY <1>2, <2>1, <2>2, <2>3, <2>4 DEF Triggers!EditJob
<1>3. ASSUME NEW j \in Jobs, Triggers!ProbeStep(j) \/ Triggers!DeferProbe(j) PROVE TriggersInv'
  BY <1>3, ProbesKeep, ProbeRecorded DEF Triggers!ProbeStep
<1>4. ASSUME NEW j \in Jobs, Triggers!StartRun(j) \/ Triggers!EndRun(j) \/ Triggers!CancelRun(j) \/ Triggers!RetryRun(j)
      PROVE  TriggersInv'
  BY <1>4, RunsKeep
<1>5. CASE Triggers!Tick \/ (\E t \in Targets, c \in Contents : Triggers!Edit(t, c)) \/ (\E t \in Targets : Triggers!EmitEvent(t))
  BY <1>5, WorldKeeps
<1> QED
  BY <1>1, <1>2, <1>3, <1>4, <1>5 DEF Triggers!Next

LEMMA TriggersStutter == TriggersInv /\ UNCHANGED Triggers!vars => TriggersInv'
<1> SUFFICES ASSUME TriggersInv, UNCHANGED Triggers!vars PROVE TriggersInv'
  OBVIOUS
<1>1. UNCHANGED <<j_kind, j_target, j_job_status, j_next_run, j_baseline, j_pending, j_runs, j_events, j_consumed,
                  j_probe, j_now, j_content, j_changes, j_matched, j_covered, j_delivered>>
  BY DEF Triggers!vars, Triggers!definition, Triggers!store, Triggers!queue, Triggers!world,
     Triggers!history
<1>2. JobTypes' /\ WorldTypes' /\ CountTypes' /\ ProbesAreWeb'
  BY <1>1 DEF TriggersInv, JobTypes, WorldTypes, CountTypes, ProbesAreWeb
<1>3. LiveIsOne' /\ EventsHaveKeys' /\ AllCounted'
  BY <1>1 DEF TriggersInv, LiveIsOne, EventsHaveKeys, AllCounted
<1> QED
  BY <1>2, <1>3 DEF TriggersInv

LEMMA TriggersKept == ASSUME Triggers!TriggerAssumption PROVE TriggersInv => Triggers!TypeOK /\ Triggers!RunsAddUp
<1> SUFFICES ASSUME TriggersInv PROVE Triggers!TypeOK /\ Triggers!RunsAddUp
  OBVIOUS
<1> USE DEF TriggersInv
<1>1. Triggers!OneLiveRun
  <2> SUFFICES ASSUME NEW j \in Jobs PROVE Cardinality(Triggers!LiveKeys(j)) <= 1
    BY SameTriggersCardinality DEF Triggers!OneLiveRun
  <2>1. CASE Triggers!LiveKeys(j) = {}
    BY <2>1, FS_EmptySet
  <2>2. CASE Triggers!LiveKeys(j) # {}
    <3>1. PICK k \in Triggers!LiveKeys(j) : TRUE
      BY <2>2
    <3>2. Triggers!LiveKeys(j) = {k}
      BY <3>1 DEF Triggers!LiveKeys, LiveIsOne
    <3>3. Cardinality({k}) = 1
      BY FS_Singleton
    <3>4. Cardinality(Triggers!LiveKeys(j)) = 1
      BY <3>2, <3>3
    <3> QED
      BY <3>4
  <2> QED
    BY <2>1, <2>2
<1>2. Triggers!EventsConserved
  BY DEF Triggers!EventsConserved, AllCounted
<1>3. \A j \in Jobs : /\ j_matched[j] \in 0..MaxJobEvents /\ j_covered[j] \in 0..MaxJobEvents
                      /\ j_pending[j] \in [id : 0..MaxJobEvents, count : 0..MaxJobEvents]
  <2> SUFFICES ASSUME NEW j \in Jobs
               PROVE  /\ j_matched[j] \in 0..MaxJobEvents /\ j_covered[j] \in 0..MaxJobEvents
                      /\ j_pending[j] \in [id : 0..MaxJobEvents, count : 0..MaxJobEvents]
    OBVIOUS
  <2>1. /\ j_matched[j] \in Nat /\ j_covered[j] \in Nat /\ j_pending[j].count \in Nat
        /\ j_matched[j] = j_covered[j] + j_pending[j].count /\ j_matched[j] <= MaxJobEvents
        /\ MaxJobEvents \in Nat
    BY DEF CountTypes, JobTypes, EventNotes, AllCounted, WorldTypes, Triggers!TriggerAssumption
  <2>2. j_pending[j] \in EventNotes /\ j_pending[j].count \in 0..MaxJobEvents
    BY <2>1 DEF JobTypes
  <2> QED
    BY <2>1, <2>2 DEF EventNotes
<1>4. /\ j_matched \in [Jobs -> 0..MaxJobEvents] /\ j_covered \in [Jobs -> 0..MaxJobEvents]
      /\ j_pending \in [Jobs -> [id : 0..MaxJobEvents, count : 0..MaxJobEvents]]
  BY <1>3 DEF CountTypes, JobTypes
<1>5. j_probe \in [Jobs -> {NoContent} \cup [page : Targets, seen : Contents \cup {NoContent}]]
  BY DEF ProbesAreWeb, Probes, Snapshots
<1>6. Triggers!TypeOK
  BY <1>4, <1>5 DEF Triggers!TypeOK, JobTypes, WorldTypes, Statuses, Snapshots, RunStates
<1> QED
  BY <1>1, <1>2, <1>6 DEF Triggers!RunsAddUp

\* A run is inserted for an active job, if at all.
LEMMA RunsForTheActive ==
  ASSUME Triggers!TriggerAssumption, TriggersInv, Triggers!Next
  PROVE  \A j \in Jobs, k \in Triggers!Keys :
           j_runs[j][k] = "none" /\ j_runs'[j][k] # "none" => j_job_status[j] = "active"
<1> SUFFICES ASSUME NEW j \in Jobs, NEW k \in Triggers!Keys,
                    j_runs[j][k] = "none", j_runs'[j][k] # "none"
             PROVE  j_job_status[j] = "active"
  OBVIOUS
<1>1. CASE Triggers!Materialize
  BY <1>1, MaterializedJob
<1>2. ASSUME NEW i \in Jobs, Triggers!RecordProbe(i) PROVE j_job_status[j] = "active"
  <2>1. j_job_status[i] = "active" /\ (i # j => j_runs'[j] = j_runs[j])
    BY <1>2 DEF Triggers!RecordProbe, TriggersInv, JobTypes
  <2> QED
    BY <2>1
<1>3. CASE UNCHANGED j_runs
  BY <1>3
<1>4. ASSUME NEW i \in Jobs, Triggers!CancelJob(i) PROVE FALSE
  BY <1>4 DEF Triggers!CancelJob, TriggersInv, JobTypes
<1>5. ASSUME NEW i \in Jobs, Triggers!StartRun(i) \/ Triggers!EndRun(i) \/ Triggers!CancelRun(i) \/ Triggers!RetryRun(i) PROVE FALSE
  <2>1. PICK m \in Triggers!Keys, to \in RunStates :
          j_runs[i][m] \in {"waiting", "running"} /\ j_runs' = [j_runs EXCEPT ![i][m] = to]
    BY <1>5 DEF Triggers!StartRun, Triggers!EndRun, Triggers!CancelRun, Triggers!RetryRun,
       Triggers!RunStep, RunStates
  <2> QED
    BY <2>1 DEF TriggersInv, JobTypes
<1>6. ASSUME NEW i \in Jobs, Triggers!EditJob(i), ~Triggers!CancelJob(i) PROVE UNCHANGED j_runs
  BY <1>6 DEF Triggers!EditJob, Triggers!PauseJob, Triggers!DeleteJob, Triggers!CreateJob,
     Triggers!ResumeJob, Triggers!UpdateJob
<1>7. ASSUME NEW i \in Jobs, Triggers!SubmitProbe(i) \/ Triggers!FetchPage(i) \/ Triggers!ProbeIgnored(i) \/ Triggers!DeferProbe(i)
      PROVE  UNCHANGED j_runs
  BY <1>7 DEF Triggers!SubmitProbe, Triggers!FetchPage, Triggers!ProbeIgnored,
     Triggers!DeferProbe, Triggers!store
<1>8. CASE Triggers!Tick \/ (\E t \in Targets, c \in Contents : Triggers!Edit(t, c)) \/ (\E t \in Targets : Triggers!EmitEvent(t))
  BY <1>8, <1>3 DEF Triggers!Tick, Triggers!Edit, Triggers!EmitEvent, Triggers!store
<1> QED
  BY <1>1, <1>2, <1>3, <1>4, <1>5, <1>6, <1>7, <1>8 DEF Triggers!Next, Triggers!ProbeStep

\* A step of the suite is a step of this part, or leaves it alone.
LEMMA TriggersAlone == [SuiteNext]_suite_vars => Triggers!Next \/ UNCHANGED Triggers!vars
<1>1. SuiteNext => Triggers!Next \/ UNCHANGED j_vars
  BY DEF SuiteNext, InFiles, InStream, InProcess, InLoops, j_vars
<1>2. UNCHANGED suite_vars => UNCHANGED j_vars
  BY DEF suite_vars
<1>3. UNCHANGED j_vars => UNCHANGED Triggers!vars
  BY DEF j_vars, Triggers!vars, Triggers!definition, Triggers!store, Triggers!queue,
     Triggers!world, Triggers!history
<1> QED
  BY <1>1, <1>2, <1>3

LEMMA TriggersHolds == SuiteSpec => []TriggersInv
<1>1. SuiteInit => TriggersInv
  BY TriggersInit, TriggersAssumed DEF SuiteInit
<1>2. TriggersInv /\ [SuiteNext]_suite_vars => TriggersInv'
  BY TriggersAlone, TriggersAssumed, TriggersStep, TriggersStutter
<1> QED
  BY <1>1, <1>2, PTL DEF SuiteSpec

-----------------------------------------------------------------------------
(* The processes of a shell command.  The number of the leader is given away *)
(* only after it was reaped, and a signal is sent only before that; what was *)
(* written is in the pipe, in the queue or was read.                       *)

LEMMA ProcessAssumed == Process!LocalProcessAssumption
BY MCServicesAssumption

Exits == {None, 0, 1}

\* What TypeOK says, variable by variable, but for the verdict.
ProcessTypes ==
  /\ p_leader \in {"runs", "zombie", "reaped"} /\ p_code \in Exits
  /\ p_kids \in Nat /\ p_kids <= MaxKids /\ p_stranger \in BOOLEAN /\ p_struck = FALSE
  /\ p_written \in Nat /\ p_written <= MaxWritten
  /\ p_pipe \in Nat /\ p_queue \in Nat /\ p_queue <= QueueMax /\ p_log \in Nat /\ p_log <= LogMax
  /\ p_ended \in {None, "queued", "read"}
  /\ p_reader \in {"read", "poll", "group", "settle", "done"}
  /\ p_record \in [disposition : {"running", "completed", "failed", "cancelled", "unknown"},
                 cancel : BOOLEAN, code : Exits]
  /\ p_killer \in {"idle", "look", "term", "wait", "relook", "kill", "rewait"}

\* Of what was written, what is not in the pipe and not in the queue was read, and
\* the log has it up to its limit.
OutputIsSomewhere ==
  /\ p_pipe + p_queue <= p_written
  /\ p_log = IF p_written - p_pipe - p_queue < LogMax THEN p_written - p_pipe - p_queue ELSE LogMax

\* The end of the output comes behind all of it, when nobody can write any more.
EndIsBehind ==
  /\ p_ended # None => ~Process!Works /\ p_pipe = 0
  /\ p_ended = "read" => p_queue = 0

\* The number of the leader is another's only if nobody of the group is left.
NumberIsFree == p_stranger => ~Process!Owned

\* Past its last look the reader has a leader that ended and a group that is gone.
ReaderIsLate ==
  /\ p_reader = "group" => p_leader = "reaped"
  /\ p_reader \in {"settle", "done"} => ~Process!Owned

Output   == ProcessTypes /\ OutputIsSomewhere /\ EndIsBehind
Ending   == NumberIsFree /\ ReaderIsLate /\ Process!DoneIsGone
Verdicts == p_verdict \in {None, TRUE, FALSE} /\ Process!StoppedIsGone

ProcessInv == Output /\ Ending /\ Verdicts

LEMMA ProcessInit == Process!LocalProcessAssumption /\ Process!Init => ProcessInv
<1> SUFFICES ASSUME Process!LocalProcessAssumption, Process!Init PROVE ProcessInv
  OBVIOUS
<1>1. Output
  <2>1. p_record \in [disposition : {"running", "completed", "failed", "cancelled", "unknown"},
                   cancel : BOOLEAN, code : Exits]
    BY DEF Process!Init, Exits
  <2>2. ProcessTypes
    <3>1. /\ QueueMax \in Nat /\ LogMax \in Nat /\ MaxKids \in Nat /\ MaxWritten \in Nat
          /\ 0 <= QueueMax /\ 0 <= LogMax /\ 0 <= MaxKids /\ 0 <= MaxWritten
      BY DEF Process!LocalProcessAssumption
    <3> QED
      BY <2>1, <3>1 DEF Process!Init, ProcessTypes, Exits
  <2> QED
    BY <2>2 DEF Process!Init, Output, OutputIsSomewhere, EndIsBehind, Process!LocalProcessAssumption
<1>2. Ending
  BY DEF Process!Init, Ending, NumberIsFree, ReaderIsLate, Process!DoneIsGone, Process!Owned,
     Process!Works
<1>3. Verdicts
  BY DEF Process!Init, Verdicts, Process!StoppedIsGone, Process!LocalProcessAssumption
<1> QED
  BY <1>1, <1>2, <1>3 DEF ProcessInv

LEMMA OutputKept ==
  ASSUME Process!LocalProcessAssumption, Output, NumberIsFree, Process!Next
  PROVE  Output'
<1> USE DEF Output, ProcessTypes, Exits, OutputIsSomewhere, EndIsBehind, NumberIsFree, Process!Owned, Process!Works, Process!LocalProcessAssumption, Process!osVars
<1>1. CASE Process!Fork
  BY <1>1 DEF Process!Fork
<1>2. CASE Process!Emit
  BY <1>2 DEF Process!Emit
<1>3. CASE Process!Exit
  BY <1>3 DEF Process!Exit
<1>4. CASE Process!Recycle
  BY <1>4 DEF Process!Recycle
<1>5. CASE Process!Collect
  BY <1>5 DEF Process!Collect
<1>6. CASE Process!EndOfOutput
  BY <1>6 DEF Process!EndOfOutput
<1>7. CASE Process!Read
  BY <1>7 DEF Process!Read
<1>8. CASE Process!Poll
  BY <1>8 DEF Process!Poll, Process!Reaped, Process!AfterPoll
<1>9. CASE Process!LookAtGroup
  BY <1>9 DEF Process!LookAtGroup, Process!Members
<1>10. CASE Process!Settle
  BY <1>10 DEF Process!Settle, Process!Disposition, Process!Members
<1>11. CASE Process!Terminate
  BY <1>11 DEF Process!Terminate
<1>12. ASSUME NEW from \in {"look", "relook"}, NEW next \in {"term", "kill"}, Process!Look(from, next)
       PROVE  Output'
  BY <1>12 DEF Process!Look, Process!Answered, Process!Members
<1>13. ASSUME NEW from \in {"term", "kill"}, NEW next \in {"wait", "rewait"},
              NEW kill \in BOOLEAN, Process!SignalGroup(from, next, kill)
       PROVE  Output'
  BY <1>13 DEF Process!SignalGroup, Process!Signal, Process!Signalled
<1>14. ASSUME NEW from \in {"wait", "rewait"}, NEW next \in {"relook", None},
              Process!WaitClear(from, next)
       PROVE  Output'
  BY <1>14 DEF Process!WaitClear, Process!Reaped
<1> QED
  BY <1>1, <1>2, <1>3, <1>4, <1>5, <1>6, <1>7, <1>8, <1>9, <1>10, <1>11, <1>12,
     <1>13, <1>14 DEF Process!Next, Process!ReaderStep, Process!KillerStep

LEMMA EndingKept ==
  ASSUME ProcessTypes, Ending, Process!Next
  PROVE  Ending'
<1> USE DEF Ending, ProcessTypes, Exits, NumberIsFree, ReaderIsLate, Process!DoneIsGone, Process!Owned, Process!Works, Process!osVars
<1>1. CASE Process!Fork
  BY <1>1 DEF Process!Fork
<1>2. CASE Process!Emit
  BY <1>2 DEF Process!Emit
<1>3. CASE Process!Exit
  BY <1>3 DEF Process!Exit
<1>4. CASE Process!Recycle
  BY <1>4 DEF Process!Recycle
<1>5. CASE Process!Collect
  BY <1>5 DEF Process!Collect
<1>6. CASE Process!EndOfOutput
  BY <1>6 DEF Process!EndOfOutput
<1>7. CASE Process!Read
  BY <1>7 DEF Process!Read
<1>8. CASE Process!Poll
  BY <1>8 DEF Process!Poll, Process!Reaped, Process!AfterPoll
<1>9. CASE Process!LookAtGroup
  BY <1>9 DEF Process!LookAtGroup, Process!Members
<1>10. CASE Process!Settle
  BY <1>10 DEF Process!Settle, Process!Disposition, Process!Members
<1>11. CASE Process!Terminate
  BY <1>11 DEF Process!Terminate
<1>12. ASSUME NEW from \in {"look", "relook"}, NEW next \in {"term", "kill"}, Process!Look(from, next)
       PROVE  Ending'
  BY <1>12 DEF Process!Look, Process!Answered, Process!Members
<1>13. ASSUME NEW from \in {"term", "kill"}, NEW next \in {"wait", "rewait"},
              NEW kill \in BOOLEAN, Process!SignalGroup(from, next, kill)
       PROVE  Ending'
  BY <1>13 DEF Process!SignalGroup, Process!Signal, Process!Signalled
<1>14. ASSUME NEW from \in {"wait", "rewait"}, NEW next \in {"relook", None},
              Process!WaitClear(from, next)
       PROVE  Ending'
  BY <1>14 DEF Process!WaitClear, Process!Reaped
<1> QED
  BY <1>1, <1>2, <1>3, <1>4, <1>5, <1>6, <1>7, <1>8, <1>9, <1>10, <1>11, <1>12,
     <1>13, <1>14 DEF Process!Next, Process!ReaderStep, Process!KillerStep

LEMMA Agreed ==
  ASSUME NEW P, NEW Q, NEW v, v = (P /\ Q)
  PROVE  v \in {TRUE, FALSE} /\ (v = TRUE => Q)
OBVIOUS

\* No step makes a group that is gone come back.
LEMMA GoneStaysGone ==
  ASSUME ProcessTypes, NumberIsFree, Process!Next, ~Process!Owned
  PROVE  ~Process!Owned'
<1> USE DEF ProcessTypes, Process!Owned, Process!Works, Process!osVars
<1>1. CASE Process!Fork \/ Process!Emit \/ Process!Exit \/ Process!Recycle \/ Process!Collect \/ Process!EndOfOutput
  BY <1>1 DEF Process!Fork, Process!Emit, Process!Exit, Process!Recycle, Process!Collect,
     Process!EndOfOutput
<1>2. CASE Process!ReaderStep
  BY <1>2 DEF Process!ReaderStep, Process!Read, Process!Poll, Process!Reaped,
     Process!LookAtGroup, Process!Settle
<1>3. CASE Process!Terminate
  BY <1>3 DEF Process!Terminate
<1>4. ASSUME NEW from \in {"look", "relook"}, NEW next \in {"term", "kill"}, Process!Look(from, next)
      PROVE  ~Process!Owned'
  BY <1>4 DEF Process!Look
<1>5. ASSUME NEW from \in {"term", "kill"}, NEW next \in {"wait", "rewait"},
             NEW kill \in BOOLEAN, Process!SignalGroup(from, next, kill)
      PROVE  ~Process!Owned'
  BY <1>5 DEF Process!SignalGroup, Process!Signal, Process!Signalled
<1>6. ASSUME NEW from \in {"wait", "rewait"}, NEW next \in {"relook", None},
             Process!WaitClear(from, next)
      PROVE  ~Process!Owned'
  BY <1>6 DEF Process!WaitClear, Process!Reaped
<1> QED
  BY <1>1, <1>2, <1>3, <1>4, <1>5, <1>6 DEF Process!Next, Process!KillerStep

LEMMA VerdictsKept ==
  ASSUME Process!LocalProcessAssumption, ProcessTypes, NumberIsFree, Verdicts, Process!Next
  PROVE  Verdicts'
<1> USE DEF Verdicts, Process!StoppedIsGone
<1>1. CASE UNCHANGED p_verdict
  BY <1>1, GoneStaysGone
<1>2. CASE Process!Terminate
  BY <1>2 DEF Process!Terminate, Process!LocalProcessAssumption
<1>3. ASSUME NEW from \in {"look", "relook"}, NEW next \in {"term", "kill"}, Process!Look(from, next)
      PROVE  Verdicts'
  <2>1. UNCHANGED <<p_leader, p_kids>>
    BY <1>3 DEF Process!Look, Process!osVars
  <2>2. CASE p_stranger
    <3>1. p_verdict' = (FALSE /\ Process!Members = 0)
      BY <1>3, <2>2 DEF Process!Look, Process!Answered
    <3> QED
      BY <3>1, Agreed
  <2>3. CASE ~p_stranger /\ Process!Members = 0
    <3>1. p_verdict' = (TRUE /\ Process!Members = 0)
      BY <1>3, <2>3 DEF Process!Look, Process!Answered
    <3>2. ~Process!Owned'
      BY <2>1, <2>3 DEF Process!Members, Process!Owned, ProcessTypes
    <3> QED
      BY <3>1, <3>2, Agreed
  <2>4. CASE ~p_stranger /\ Process!Members # 0
    BY <1>3, <2>4, <1>1 DEF Process!Look
  <2> QED
    BY <2>2, <2>3, <2>4
<1>4. ASSUME NEW from \in {"wait", "rewait"}, NEW next \in {"relook", None},
             Process!WaitClear(from, next)
      PROVE  Verdicts'
  <2> DEFINE living == IF p_stranger THEN 0 ELSE (IF p_leader' = "reaped" THEN 0 ELSE 1) + p_kids
  <2>1. CASE living = 0 /\ p_verdict' = ~p_stranger
    <3>1. p_kids' = p_kids
      BY <1>4 DEF Process!WaitClear
    <3>2. ~p_stranger => ~Process!Owned'
      BY <2>1, <3>1 DEF Process!Owned, ProcessTypes
    <3>3. p_verdict' = (~p_stranger /\ ~p_stranger)
      BY <2>1
    <3>4. p_verdict' \in {TRUE, FALSE} /\ (p_verdict' = TRUE => ~p_stranger)
      BY <3>3, Agreed
    <3> QED
      BY <3>2, <3>4
  <2>2. CASE p_verdict' = FALSE
    BY <2>2
  <2> QED
    BY <1>4, <1>1, <2>1, <2>2 DEF Process!WaitClear
<1> QED
  BY <1>1, <1>2, <1>3, <1>4 DEF Process!Next, Process!ReaderStep, Process!KillerStep,
     Process!Fork, Process!Emit, Process!Exit, Process!Recycle, Process!Collect,
     Process!EndOfOutput, Process!Read, Process!Poll, Process!LookAtGroup, Process!Settle, Process!SignalGroup

LEMMA ProcessStep == ASSUME Process!LocalProcessAssumption PROVE ProcessInv /\ Process!Next => ProcessInv'
<1> SUFFICES ASSUME ProcessInv, Process!Next PROVE ProcessInv'
  OBVIOUS
<1>1. ProcessTypes /\ NumberIsFree /\ Output /\ Ending /\ Verdicts
  BY DEF ProcessInv, Output, Ending
<1> QED
  BY <1>1, OutputKept, EndingKept, VerdictsKept DEF ProcessInv

LEMMA ProcessStutter == ProcessInv /\ UNCHANGED Process!vars => ProcessInv'
<1> SUFFICES ASSUME ProcessInv, UNCHANGED Process!vars PROVE ProcessInv'
  OBVIOUS
<1>1. UNCHANGED <<p_leader, p_code, p_kids, p_stranger, p_struck, p_written, p_pipe, p_queue, p_log, p_ended,
                  p_reader, p_record, p_killer, p_verdict>>
  BY DEF Process!vars
<1>2. Output'
  BY <1>1 DEF ProcessInv, Output, ProcessTypes, Exits, OutputIsSomewhere, EndIsBehind, Process!Works
<1>3. Ending'
  BY <1>1 DEF ProcessInv, Ending, NumberIsFree, ReaderIsLate, Process!DoneIsGone, Process!Owned,
     Process!Works
<1>4. Verdicts'
  BY <1>1 DEF ProcessInv, Verdicts, Process!StoppedIsGone, Process!Owned
<1> QED
  BY <1>2, <1>3, <1>4 DEF ProcessInv

LEMMA ProcessKept == ASSUME Process!LocalProcessAssumption PROVE ProcessInv => Process!TypeOK /\ Process!GroupIsOwned
<1> SUFFICES ASSUME ProcessInv PROVE Process!TypeOK /\ Process!GroupIsOwned
  OBVIOUS
<1> USE DEF ProcessInv, Output, ProcessTypes, OutputIsSomewhere, Process!LocalProcessAssumption
<1>1. {p_pipe, p_queue, p_log} \subseteq 0..MaxWritten
  OBVIOUS
<1>2. {p_stranger, p_struck} \subseteq BOOLEAN
  OBVIOUS
<1>3. Process!TypeOK
  <2>1. /\ p_leader \in {"runs", "zombie", "reaped"} /\ p_code \in {None, 0, 1}
        /\ p_kids \in 0..MaxKids /\ p_written \in 0..MaxWritten
        /\ p_queue <= QueueMax /\ p_log <= LogMax
        /\ p_ended \in {None, "queued", "read"}
        /\ p_reader \in {"read", "poll", "group", "settle", "done"}
        /\ p_record.disposition \in {"running", "completed", "failed", "cancelled", "unknown"}
        /\ p_killer \in {"idle", "look", "term", "wait", "relook", "kill", "rewait"}
    BY DEF Exits
  <2>2. p_verdict \in {None, TRUE, FALSE}
    BY DEF Verdicts
  <2> QED
    BY <1>1, <1>2, <2>1, <2>2 DEF Process!TypeOK
<1>4. Process!WholeAtTheEnd
  <2>1. ASSUME p_ended = "read" PROVE p_queue = 0 /\ p_pipe = 0
    BY <2>1 DEF EndIsBehind
  <2>2. p_queue = 0 /\ p_pipe = 0 => p_log = (IF p_written < LogMax THEN p_written ELSE LogMax)
    OBVIOUS
  <2> QED
    BY <2>1, <2>2 DEF Process!WholeAtTheEnd
<1> QED
  BY <1>3, <1>4 DEF Process!GroupIsOwned, Process!StrangersUntouched, Ending, Verdicts

\* A step of the suite is a step of this part, or leaves it alone.
LEMMA ProcessAlone == [SuiteNext]_suite_vars => Process!Next \/ UNCHANGED Process!vars
<1>1. SuiteNext => Process!Next \/ UNCHANGED p_vars
  BY DEF SuiteNext, InFiles, InTriggers, InStream, InLoops, p_vars
<1>2. UNCHANGED suite_vars => UNCHANGED p_vars
  BY DEF suite_vars
<1>3. UNCHANGED p_vars => UNCHANGED Process!vars
  BY DEF p_vars, Process!vars
<1> QED
  BY <1>1, <1>2, <1>3

LEMMA ProcessHolds == SuiteSpec => []ProcessInv
<1>1. SuiteInit => ProcessInv
  BY ProcessInit, ProcessAssumed DEF SuiteInit
<1>2. ProcessInv /\ [SuiteNext]_suite_vars => ProcessInv'
  BY ProcessAlone, ProcessAssumed, ProcessStep, ProcessStutter
<1> QED
  BY <1>1, <1>2, PTL DEF SuiteSpec

-----------------------------------------------------------------------------
(* Loops.  A tick of a loop is about to be put into the queue, lies in it or is *)
(* in the hands of the session, in one of them only, and then the record of the *)
(* loop says that it is pending.                                           *)

LEMMA LoopsAssumed == Loops!SessionLoopsAssumption
BY MCServicesAssumption

\* The instance has its own copies of the two operators of FiniteSets.
LEMMA SameLoopsFinite == \A S : Loops!IsFiniteSet(S) <=> IsFiniteSet(S)
BY DEF Loops!IsFiniteSet, IsFiniteSet

LEMMA SameLoopsCardinality == \A S : Loops!Cardinality(S) = Cardinality(S)
BY DEF Loops!Cardinality, Cardinality

Events == LoopIds \union {Loops!Input, Loops!Exit}
Records == [state : {"new", "open", "stopped"}, due : BOOLEAN, pending : BOOLEAN]
ThreadPlaces == {"top", "look", "forever", "timed", "busy", "collect", "next", "put", "ended"}
LoopStages == {"get", "begin", "tick", "run", "finish", "idle", "closing", "ended"}

\* How often an event lies in a queue.
OnQueue(q, l) == Cardinality({n \in DOMAIN q : q[n] = l})

LoopTypes ==
  /\ l_loops \in [LoopIds -> Records]
  /\ l_wake \in BOOLEAN /\ l_closed \in BOOLEAN /\ l_idle \in BOOLEAN
  /\ l_queue \in Seq(Events)
  /\ l_thread \in [at : ThreadPlaces, waits : LoopIds \union {None}, todo : Seq(LoopIds)]
  /\ l_consumer \in [at : LoopStages, event : Events \union {None}]

\* The thread has a list only while it goes through it, and each loop once.
ListIsHeld ==
  /\ l_thread.at \notin {"next", "put"} => l_thread.todo = <<>>
  /\ l_thread.at = "put" => l_thread.todo # <<>>
  /\ \A i, j \in DOMAIN l_thread.todo : l_thread.todo[i] = l_thread.todo[j] => i = j

\* The event the consumer has, if any.
EventIsHeld ==
  /\ l_consumer.at = "get" => l_consumer.event = None
  /\ l_consumer.at \in {"closing", "ended"} => l_consumer.event = Loops!Exit

\* What is still to be marked is due and has no tick to come.
ListIsDue ==
  \A i \in DOMAIN l_thread.todo :
    LET l == l_thread.todo[i]
    IN  /\ l_loops[l].state # "new"
        /\ l \in Loops!Held /\ (l_thread.at = "next" \/ i > 1) => l_loops[l].due /\ ~l_loops[l].pending

\* TicksAreMerged, and a loop that is not yet there has no tick.
OneTick ==
  \A l \in LoopIds :
    /\ l_loops[l].state # "stopped" =>
         OnQueue(l_queue, l)
           + (IF l_consumer.event = l /\ l_consumer.at # "idle" THEN 1 ELSE 0)
           + (IF Loops!At("put") /\ Head(l_thread.todo) = l THEN 1 ELSE 0)
         = IF l_loops[l].pending THEN 1 ELSE 0
    /\ l_loops[l].state = "open" /\ l_loops[l].pending => l_loops[l].due
    /\ l_loops[l].state = "new" => ~l_loops[l].pending

LoopsInv == LoopTypes /\ ListIsHeld /\ EventIsHeld /\ ListIsDue /\ OneTick

LEMMA OnQueueType ==
  ASSUME NEW q \in Seq(Events), NEW l
  PROVE  /\ OnQueue(q, l) \in Nat
         /\ IsFiniteSet({n \in DOMAIN q : q[n] = l})
<1>1. IsFiniteSet(1..Len(q)) /\ {n \in DOMAIN q : q[n] = l} \subseteq 1..Len(q)
  BY FS_Interval
<1> QED
  BY <1>1, FS_Subset, FS_CardinalityType DEF OnQueue

LEMMA OnQueueAppend ==
  ASSUME NEW q \in Seq(Events), NEW x \in Events, NEW l
  PROVE  /\ Append(q, x) \in Seq(Events)
         /\ OnQueue(Append(q, x), l) = OnQueue(q, l) + (IF x = l THEN 1 ELSE 0)
<1> DEFINE S == {n \in DOMAIN q : q[n] = l}
           T == {n \in DOMAIN Append(q, x) : Append(q, x)[n] = l}
<1>1. IsFiniteSet(S) /\ OnQueue(q, l) \in Nat
  BY OnQueueType
<1>2. OnQueue(q, l) = Cardinality(S) /\ OnQueue(Append(q, x), l) = Cardinality(T)
  BY DEF OnQueue
<1>3. x = l => T = S \union {Len(q) + 1} /\ Len(q) + 1 \notin S
  OBVIOUS
<1>4. x # l => T = S
  OBVIOUS
<1>5. Append(q, x) \in Seq(Events)
  OBVIOUS
<1> HIDE DEF S, T
<1>6. Cardinality(S \union {Len(q) + 1}) = IF Len(q) + 1 \in S THEN Cardinality(S)
                                          ELSE Cardinality(S) + 1
  BY <1>1, FS_AddElement
<1>7. CASE x = l
  <2>1. Cardinality(T) = Cardinality(S) + 1
    BY <1>3, <1>6, <1>7
  <2> QED
    BY <1>2, <1>5, <1>7, <2>1
<1>8. CASE x # l
  BY <1>1, <1>2, <1>4, <1>5, <1>8
<1> QED
  BY <1>7, <1>8

LEMMA OnQueueTail ==
  ASSUME NEW q \in Seq(Events), q # <<>>, NEW l
  PROVE  /\ Head(q) \in Events /\ Tail(q) \in Seq(Events)
         /\ OnQueue(q, l) = OnQueue(Tail(q), l) + (IF Head(q) = l THEN 1 ELSE 0)
<1> DEFINE S == {n \in DOMAIN q : q[n] = l}
           T == {n \in DOMAIN Tail(q) : Tail(q)[n] = l}
           f == [n \in T |-> n + 1]
<1>1. Head(q) \in Events /\ Tail(q) \in Seq(Events)
  OBVIOUS
<1>2. f \in Bijection(T, S \ {1})
  <2>1. f \in [T -> S \ {1}]
    OBVIOUS
  <2>2. \A i, j \in T : f[i] = f[j] => i = j
    OBVIOUS
  <2>3. \A j \in S \ {1} : \E i \in T : f[i] = j
    <3> SUFFICES ASSUME NEW j \in S \ {1} PROVE j - 1 \in T /\ f[j - 1] = j
      OBVIOUS
    <3> QED
      OBVIOUS
  <2> QED
    BY <2>1, <2>2, <2>3, Fun_IsBij
<1>3. IsFiniteSet(S) /\ OnQueue(q, l) \in Nat
  BY OnQueueType
<1>4. IsFiniteSet(T)
  BY <1>1, OnQueueType
<1>5. 1 \in S <=> Head(q) = l
  OBVIOUS
<1>6. OnQueue(q, l) = Cardinality(S) /\ OnQueue(Tail(q), l) = Cardinality(T)
  BY DEF OnQueue
<1> HIDE DEF S, T, f
<1>7. Cardinality(S \ {1}) = Cardinality(T)
  BY <1>2, <1>4, FS_Bijection DEF ExistsBijection
<1>8. Cardinality(S \ {1}) = (IF 1 \in S THEN Cardinality(S) - 1 ELSE Cardinality(S))
  BY <1>3, FS_RemoveElement
<1> QED
  BY <1>1, <1>3, <1>5, <1>6, <1>7, <1>8

\* The list of the loops that are due has each of them once.
LEMMA ListedOnce ==
  ASSUME NEW S, IsFiniteSet(S)
  PROVE  /\ Loops!SetToSeq(S) \in Seq(S)
         /\ \A i, j \in DOMAIN Loops!SetToSeq(S) : Loops!SetToSeq(S)[i] = Loops!SetToSeq(S)[j] => i = j
<1> DEFINE N == Cardinality(S)
<1>1. N \in Nat /\ ExistsBijection(1..N, S)
  BY FS_CardinalityType
<1>2. \E f \in [1..N -> S] : Loops!IsInjective(f)
  BY <1>1 DEF ExistsBijection, Bijection, Injection, IsInjective,
     Loops!IsInjective
<1>3. Loops!SetToSeq(S) \in [1..N -> S] /\ Loops!IsInjective(Loops!SetToSeq(S))
  BY <1>2, SameLoopsCardinality DEF Loops!SetToSeq
<1> HIDE DEF N
<1> QED
  BY <1>1, <1>3 DEF Loops!IsInjective

LEMMA LoopsInit == Loops!SessionLoopsAssumption /\ Loops!Init => LoopsInv
<1> SUFFICES ASSUME Loops!SessionLoopsAssumption, Loops!Init PROVE LoopsInv
  OBVIOUS
<1>1. LoopTypes
  <2>1. l_loops \in [LoopIds -> Records]
    BY DEF Loops!Init, Loops!Record, Records
  <2>2. l_thread \in [at : ThreadPlaces, waits : LoopIds \union {None}, todo : Seq(LoopIds)]
    BY DEF Loops!Init, ThreadPlaces, Loops!Started
  <2>3. l_consumer \in [at : LoopStages, event : Events \union {None}]
    BY DEF Loops!Init, LoopStages
  <2>4. l_wake \in BOOLEAN /\ l_closed \in BOOLEAN /\ l_idle \in BOOLEAN
    BY DEF Loops!Init
  <2>5. l_queue \in Seq(Events)
    <3>1. l_queue = <<>>
      BY DEF Loops!Init
    <3> QED
      BY <3>1
  <2> QED
    BY <2>1, <2>2, <2>3, <2>4, <2>5 DEF LoopTypes
<1>2. ListIsHeld /\ EventIsHeld /\ ListIsDue
  BY DEF Loops!Init, ListIsHeld, EventIsHeld, ListIsDue, Loops!Started
<1>3. ASSUME NEW l PROVE OnQueue(<<>>, l) = 0
  <2>1. {n \in DOMAIN <<>> : <<>>[n] = l} = {}
    OBVIOUS
  <2> QED
    BY <2>1, FS_EmptySet DEF OnQueue
<1>4. OneTick
  BY <1>3 DEF Loops!Init, OneTick, Loops!Record, Loops!Started, Loops!At,
     Loops!SessionLoopsAssumption
<1> QED
  BY <1>1, <1>2, <1>4 DEF LoopsInv

LEMMA TypesKept ==
  ASSUME Loops!SessionLoopsAssumption, LoopsInv, Loops!Next
  PROVE  LoopTypes'
<1> USE DEF LoopsInv, LoopTypes, Loops!Go, Loops!At
<1>1. ASSUME NEW l \in LoopIds, Loops!Create(l) \/ Loops!Stop(l) \/ Loops!Elapse(l) PROVE LoopTypes'
  <2>1. l_loops' \in [LoopIds -> Records]
    <3>1. l_loops[l] \in Records
      OBVIOUS
    <3>2. /\ [state |-> "open", due |-> FALSE, pending |-> FALSE] \in Records
          /\ [l_loops[l] EXCEPT !.state = "stopped"] \in Records
          /\ [l_loops[l] EXCEPT !.due = TRUE] \in Records
      BY <3>1 DEF Records
    <3>3. \E r \in Records : l_loops' = [l_loops EXCEPT ![l] = r]
      BY <1>1, <3>2 DEF Loops!Create, Loops!Stop, Loops!Elapse, Loops!Record
    <3> QED
      BY <3>3
  <2> QED
    BY <1>1, <2>1 DEF Loops!Create, Loops!Stop, Loops!Elapse
<1>2. CASE Loops!ClearWake \/ Loops!Awake \/ Loops!TimeOut \/ Loops!WaitIdle
  <2>1. l_thread' \in [at : ThreadPlaces, waits : LoopIds \union {None}, todo : Seq(LoopIds)]
    BY <1>2 DEF Loops!ClearWake, Loops!Awake, Loops!TimeOut, Loops!WaitIdle, ThreadPlaces
  <2> QED
    BY <1>2, <2>1 DEF Loops!ClearWake, Loops!Awake, Loops!TimeOut, Loops!WaitIdle
<1>3. CASE Loops!Look
  <2>1. l_thread' \in [at : ThreadPlaces, waits : LoopIds \union {None}, todo : Seq(LoopIds)]
    BY <1>3 DEF Loops!Look, ThreadPlaces, Loops!Waiting, Loops!Held
  <2> QED
    BY <1>3, <2>1 DEF Loops!Look
<1>4. CASE Loops!Collect
  <2>1. IsFiniteSet({l \in Loops!Waiting : l_loops[l].due})
    BY FS_Subset, SameLoopsFinite DEF Loops!Waiting, Loops!Held, Loops!SessionLoopsAssumption
  <2>2. Loops!SetToSeq({l \in Loops!Waiting : l_loops[l].due}) \in Seq(LoopIds)
    BY <2>1, ListedOnce DEF Loops!Waiting, Loops!Held
  <2>3. l_thread' \in [at : ThreadPlaces, waits : LoopIds \union {None}, todo : Seq(LoopIds)]
    BY <1>4, <2>2 DEF Loops!Collect, ThreadPlaces
  <2> QED
    BY <1>4, <2>3 DEF Loops!Collect
<1>5. CASE Loops!Mark
  <2>1. Head(l_thread.todo) \in LoopIds /\ Tail(l_thread.todo) \in Seq(LoopIds)
    BY <1>5 DEF Loops!Mark
  <2>2. l_thread' \in [at : ThreadPlaces, waits : LoopIds \union {None}, todo : Seq(LoopIds)]
    BY <1>5, <2>1 DEF Loops!Mark, ThreadPlaces
  <2>3. l_loops' \in [LoopIds -> Records]
    <3> DEFINE l == Head(l_thread.todo)
    <3>1. [l_loops[l] EXCEPT !.pending = TRUE] \in Records
      BY <2>1 DEF Records
    <3>2. l_loops' = l_loops \/ l_loops' = [l_loops EXCEPT ![l] = [l_loops[l] EXCEPT !.pending = TRUE]]
      BY <1>5 DEF Loops!Mark
    <3> QED
      BY <2>1, <3>1, <3>2
  <2> QED
    BY <1>5, <2>2, <2>3 DEF Loops!Mark
<1>6. CASE Loops!Put
  <2>1. Head(l_thread.todo) \in LoopIds /\ Tail(l_thread.todo) \in Seq(LoopIds)
    BY <1>6 DEF Loops!Put, ListIsHeld
  <2>2. l_thread' \in [at : ThreadPlaces, waits : LoopIds \union {None}, todo : Seq(LoopIds)]
    BY <1>6, <2>1 DEF Loops!Put, ThreadPlaces
  <2>3. l_queue' \in Seq(Events)
    BY <1>6, <2>1, OnQueueAppend DEF Loops!Put, Events
  <2> QED
    BY <1>6, <2>2, <2>3 DEF Loops!Put
<1>7. CASE Loops!Again
  <2>1. l_thread' \in [at : ThreadPlaces, waits : LoopIds \union {None}, todo : Seq(LoopIds)]
    BY <1>7 DEF Loops!Again, Loops!Started, ThreadPlaces
  <2> QED
    BY <1>7, <2>1 DEF Loops!Again
<1>8. CASE Loops!UserInput \/ Loops!RequestClose
  <2>1. PICK x \in Events : l_queue' = Append(l_queue, x)
    BY <1>8 DEF Loops!UserInput, Loops!RequestClose, Events
  <2>2. l_queue' \in Seq(Events)
    BY <2>1, OnQueueAppend
  <2> QED
    BY <1>8, <2>2 DEF Loops!UserInput, Loops!RequestClose
<1>9. CASE Loops!Get
  <2>1. Head(l_queue) \in Events /\ l_queue' \in Seq(Events)
    BY <1>9, OnQueueTail DEF Loops!Get
  <2>2. l_consumer' \in [at : LoopStages, event : Events \union {None}]
    BY <1>9, <2>1 DEF Loops!Get, LoopStages
  <2> QED
    BY <1>9, <2>1, <2>2 DEF Loops!Get
<1>10. CASE Loops!Busy \/ Loops!BeginTick \/ Loops!EndTurn \/ Loops!SetIdle \/ Loops!Close
  <2>1. l_consumer' \in [at : LoopStages, event : Events \union {None}]
    BY <1>10 DEF Loops!Busy, Loops!BeginTick, Loops!EndTurn, Loops!SetIdle, Loops!Close, LoopStages
  <2> QED
    BY <1>10, <2>1 DEF Loops!Busy, Loops!BeginTick, Loops!EndTurn, Loops!SetIdle, Loops!Close
<1>11. CASE Loops!FinishTick
  <2>1. l_consumer' \in [at : LoopStages, event : Events \union {None}]
    BY <1>11 DEF Loops!FinishTick, LoopStages
  <2>2. l_loops' \in [LoopIds -> Records] /\ l_wake' \in BOOLEAN
    <3>1. [state |-> "open", due |-> FALSE, pending |-> FALSE] \in Records
      BY DEF Records
    <3>2. l_consumer.event \in Loops!Held => l_consumer.event \in LoopIds
      BY DEF Loops!Held
    <3> QED
      BY <1>11, <3>1, <3>2 DEF Loops!FinishTick, Loops!Record, Loops!Wakes
  <2> QED
    BY <1>11, <2>1, <2>2 DEF Loops!FinishTick
<1> QED
  BY <1>1, <1>2, <1>3, <1>4, <1>5, <1>6, <1>7, <1>8, <1>9, <1>10, <1>11
     DEF Loops!Next, Loops!ThreadStep, Loops!ConsumerStep

LEMMA ListKept ==
  ASSUME Loops!SessionLoopsAssumption, LoopsInv, Loops!Next
  PROVE  ListIsHeld' /\ EventIsHeld'
<1> USE DEF LoopsInv, LoopTypes, ListIsHeld, EventIsHeld, Loops!Go, Loops!At
<1>1. CASE \E l \in LoopIds : Loops!Create(l) \/ Loops!Stop(l) \/ Loops!Elapse(l)
  BY <1>1 DEF Loops!Create, Loops!Stop, Loops!Elapse
<1>2. CASE Loops!ClearWake \/ Loops!Awake \/ Loops!TimeOut \/ Loops!WaitIdle \/ Loops!Look
  BY <1>2 DEF Loops!ClearWake, Loops!Awake, Loops!TimeOut, Loops!WaitIdle, Loops!Look
<1>3. CASE Loops!Collect
  <2>1. IsFiniteSet({l \in Loops!Waiting : l_loops[l].due})
    BY FS_Subset, SameLoopsFinite DEF Loops!Waiting, Loops!Held, Loops!SessionLoopsAssumption
  <2>2. \A i, j \in DOMAIN Loops!SetToSeq({l \in Loops!Waiting : l_loops[l].due}) :
          Loops!SetToSeq({l \in Loops!Waiting : l_loops[l].due})[i] = Loops!SetToSeq({l \in Loops!Waiting : l_loops[l].due})[j]
            => i = j
    BY <2>1, ListedOnce
  <2> QED
    BY <1>3, <2>2 DEF Loops!Collect
<1>4. CASE Loops!Mark \/ Loops!Put
  <2>1. l_thread.todo \in Seq(LoopIds) /\ l_thread.todo # <<>>
    BY <1>4 DEF Loops!Mark, Loops!Put
  <2>2. \A i, j \in DOMAIN Tail(l_thread.todo) :
          Tail(l_thread.todo)[i] = Tail(l_thread.todo)[j] => i = j
    BY <2>1
  <2>3. \/ l_thread'.todo = l_thread.todo /\ l_thread'.at = "put"
        \/ l_thread'.todo = Tail(l_thread.todo) /\ l_thread'.at = "next"
    BY <1>4 DEF Loops!Mark, Loops!Put
  <2>4. EventIsHeld'
    BY <1>4 DEF Loops!Mark, Loops!Put
  <2> QED
    BY <2>1, <2>2, <2>3, <2>4
<1>5. CASE Loops!Again
  BY <1>5 DEF Loops!Again, Loops!Started
<1>6. CASE Loops!UserInput \/ Loops!RequestClose
  BY <1>6 DEF Loops!UserInput, Loops!RequestClose
<1>7. CASE Loops!ConsumerStep
  BY <1>7 DEF Loops!ConsumerStep, Loops!Get, Loops!Busy, Loops!BeginTick, Loops!EndTurn,
     Loops!FinishTick, Loops!SetIdle, Loops!Close
<1> QED
  BY <1>1, <1>2, <1>3, <1>4, <1>5, <1>6, <1>7 DEF Loops!Next, Loops!ThreadStep

LEMMA DueKept ==
  ASSUME Loops!SessionLoopsAssumption, LoopsInv, Loops!Next
  PROVE  ListIsDue'
<1> USE DEF LoopsInv, LoopTypes, ListIsDue, Loops!Go, Loops!At, Loops!Held, Records
<1>0. l_thread.todo \in Seq(LoopIds) /\ \A i \in DOMAIN l_thread.todo : l_thread.todo[i] \in LoopIds
  OBVIOUS
<1>1. ASSUME NEW l \in LoopIds, Loops!Create(l) PROVE ListIsDue'
  BY <1>0, <1>1 DEF Loops!Create, Loops!Record
<1>2. ASSUME NEW l \in LoopIds, Loops!Stop(l) PROVE ListIsDue'
  BY <1>0, <1>2 DEF Loops!Stop
<1>3. ASSUME NEW l \in LoopIds, Loops!Elapse(l) PROVE ListIsDue'
  BY <1>0, <1>3 DEF Loops!Elapse
<1>4. CASE Loops!ClearWake \/ Loops!Awake \/ Loops!TimeOut \/ Loops!WaitIdle \/ Loops!Look
  <2>1. l_thread.todo = <<>> /\ l_thread'.todo = l_thread.todo
    BY <1>4 DEF Loops!ClearWake, Loops!Awake, Loops!TimeOut, Loops!WaitIdle, Loops!Look, ListIsHeld
  <2> QED
    BY <2>1
<1>5. CASE Loops!Collect
  <2> DEFINE S == {l \in Loops!Waiting : l_loops[l].due}
  <2>1. IsFiniteSet(S)
    BY FS_Subset, SameLoopsFinite DEF Loops!Waiting, Loops!SessionLoopsAssumption
  <2>2. Loops!SetToSeq(S) \in Seq(S)
    BY <2>1, ListedOnce
  <2>3. \A i \in DOMAIN Loops!SetToSeq(S) : Loops!SetToSeq(S)[i] \in S
    BY <2>2
  <2> QED
    BY <1>5, <2>3 DEF Loops!Collect, Loops!Waiting, ListIsHeld
<1>6. CASE Loops!Mark
  <2> DEFINE h == Head(l_thread.todo)
  <2>1. h = l_thread.todo[1] /\ 1 \in DOMAIN l_thread.todo /\ h \in LoopIds /\ l_thread.at = "next"
    BY <1>0, <1>6 DEF Loops!Mark
  <2>2. CASE Loops!Marks(h)
    <3>1. l_loops' = [l_loops EXCEPT ![h].pending = TRUE] /\ l_thread' = [l_thread EXCEPT !.at = "put"]
      BY <1>6, <2>2 DEF Loops!Mark
    <3>2. \A i \in DOMAIN l_thread.todo : i # 1 => l_thread.todo[i] # h
      BY <2>1 DEF ListIsHeld
    <3> HIDE DEF h
    <3> QED
      BY <1>0, <2>1, <3>1, <3>2
  <2>3. CASE ~Loops!Marks(h)
    <3>1. l_loops' = l_loops /\ l_thread' = [l_thread EXCEPT !.todo = Tail(@)]
      BY <1>6, <2>3 DEF Loops!Mark
    <3>2. \A i \in DOMAIN Tail(l_thread.todo) :
            /\ i + 1 \in DOMAIN l_thread.todo
            /\ Tail(l_thread.todo)[i] = l_thread.todo[i + 1]
      BY <1>0, <2>1
    <3> HIDE DEF h
    <3> QED
      BY <1>0, <2>1, <3>1, <3>2
  <2> QED
    BY <2>2, <2>3
<1>7. CASE Loops!Put
  <2>1. l_loops' = l_loops /\ l_thread'.todo = Tail(l_thread.todo)
    BY <1>7 DEF Loops!Put
  <2>2. l_thread.todo # <<>>
    BY <1>7 DEF Loops!Put, ListIsHeld
  <2>3. \A i \in DOMAIN Tail(l_thread.todo) :
          /\ i + 1 \in DOMAIN l_thread.todo /\ i + 1 > 1
          /\ Tail(l_thread.todo)[i] = l_thread.todo[i + 1]
    BY <1>0, <2>2
  <2> QED
    BY <1>0, <2>1, <2>3
<1>8. CASE Loops!Again
  BY <1>8 DEF Loops!Again, Loops!Started
<1>9. CASE Loops!UserInput \/ Loops!RequestClose
  BY <1>9 DEF Loops!UserInput, Loops!RequestClose
<1>10. CASE Loops!Get \/ Loops!Busy \/ Loops!BeginTick \/ Loops!EndTurn \/ Loops!SetIdle \/ Loops!Close
  BY <1>10 DEF Loops!Get, Loops!Busy, Loops!BeginTick, Loops!EndTurn, Loops!SetIdle, Loops!Close
<1>11. CASE Loops!FinishTick
  <2> DEFINE e == l_consumer.event
  <2>1. CASE e \in Loops!Held
    <3>1. l_loops' = [l_loops EXCEPT ![e] = Loops!Record("open")] /\ l_thread' = l_thread
      BY <1>11, <2>1 DEF Loops!FinishTick
    <3>2. l_loops[e].pending
      <4>1. OnQueue(l_queue, e) \in Nat
        BY OnQueueType
      <4>2. l_consumer.at = "finish" /\ l_loops[e].state # "stopped" /\ e \in LoopIds
        BY <1>11, <2>1 DEF Loops!FinishTick
      <4>3. OnQueue(l_queue, e) + 1 + (IF Loops!At("put") /\ Head(l_thread.todo) = e THEN 1 ELSE 0)
              = IF l_loops[e].pending THEN 1 ELSE 0
        BY <4>2 DEF OneTick
      <4> QED
        BY <4>1, <4>3
    <3>3. \A i \in DOMAIN l_thread.todo : (l_thread.at = "next" \/ i > 1) => l_thread.todo[i] # e
      BY <1>0, <2>1, <3>2
    <3>4. ~(Loops!At("put") /\ Head(l_thread.todo) = e)
      <4>1. OnQueue(l_queue, e) \in Nat
        BY OnQueueType
      <4>2. l_consumer.at = "finish" /\ l_loops[e].state # "stopped" /\ e \in LoopIds
        BY <1>11, <2>1 DEF Loops!FinishTick
      <4>3. OnQueue(l_queue, e) + 1 + (IF Loops!At("put") /\ Head(l_thread.todo) = e THEN 1 ELSE 0)
              = IF l_loops[e].pending THEN 1 ELSE 0
        BY <4>2 DEF OneTick
      <4> QED
        BY <4>1, <4>3
    <3>5. \A i \in DOMAIN l_thread.todo : l_thread.todo[i] # e
      <4>1. \A i \in DOMAIN l_thread.todo : l_thread.at \in {"next", "put"} /\ i >= 1
        BY <1>0 DEF ListIsHeld
      <4>2. l_thread.todo # <<>> => Head(l_thread.todo) = l_thread.todo[1]
        OBVIOUS
      <4> QED
        BY <1>0, <3>3, <3>4, <4>1, <4>2
    <3> HIDE DEF e
    <3>6. \A l \in LoopIds : l # e => l_loops'[l] = l_loops[l]
      BY <3>1
    <3> QED
      BY <1>0, <3>1, <3>5, <3>6
  <2>2. CASE e \notin Loops!Held
    BY <1>11, <2>2 DEF Loops!FinishTick
  <2> QED
    BY <2>1, <2>2
<1> QED
  BY <1>1, <1>2, <1>3, <1>4, <1>5, <1>6, <1>7, <1>8, <1>9, <1>10, <1>11
     DEF Loops!Next, Loops!ThreadStep, Loops!ConsumerStep

LEMMA TickKept ==
  ASSUME Loops!SessionLoopsAssumption, LoopsInv, Loops!Next
  PROVE  OneTick'
<1> USE DEF LoopsInv, LoopTypes, Loops!Go, Loops!At, Loops!Held, Records
<1>0. /\ \A l \in LoopIds : OnQueue(l_queue, l) \in Nat
      /\ \A l \in LoopIds : l # None /\ l # Loops!Input /\ l # Loops!Exit
  BY OnQueueType DEF Loops!SessionLoopsAssumption, Loops!Input, Loops!Exit
<1> HIDE DEF Loops!Input, Loops!Exit
<1>1. ASSUME NEW l \in LoopIds, Loops!Create(l) \/ Loops!Stop(l) \/ Loops!Elapse(l) PROVE OneTick'
  <2>1. UNCHANGED <<l_thread, l_queue, l_consumer>>
    BY <1>1 DEF Loops!Create, Loops!Stop, Loops!Elapse
  <2>2. \A m \in LoopIds : m # l => l_loops'[m] = l_loops[m]
    BY <1>1 DEF Loops!Create, Loops!Stop, Loops!Elapse
  <2>3. CASE Loops!Create(l)
    BY <2>1, <2>2, <2>3 DEF Loops!Create, Loops!Record, OneTick
  <2>4. CASE Loops!Stop(l)
    BY <2>1, <2>2, <2>4 DEF Loops!Stop, OneTick
  <2>5. CASE Loops!Elapse(l)
    BY <2>1, <2>2, <2>5 DEF Loops!Elapse, OneTick
  <2> QED
    BY <1>1, <2>3, <2>4, <2>5
<1>2. CASE Loops!ClearWake \/ Loops!Awake \/ Loops!TimeOut \/ Loops!WaitIdle \/ Loops!Look \/ Loops!Collect \/ Loops!Again
  <2>1. UNCHANGED <<l_loops, l_queue, l_consumer>> /\ ~Loops!At("put") /\ ~Loops!At("put")'
    <3>1. CASE Loops!ClearWake \/ Loops!Awake \/ Loops!TimeOut \/ Loops!WaitIdle
      BY <3>1 DEF Loops!ClearWake, Loops!Awake, Loops!TimeOut, Loops!WaitIdle
    <3>2. CASE Loops!Look
      BY <3>2 DEF Loops!Look
    <3>3. CASE Loops!Collect
      <4>1. l_thread'.at \in {"ended", "next"} /\ l_thread.at = "collect"
        BY <3>3 DEF Loops!Collect
      <4> QED
        BY <3>3, <4>1 DEF Loops!Collect
    <3>4. CASE Loops!Again
      BY <3>4 DEF Loops!Again, Loops!Started
    <3> QED
      BY <1>2, <3>1, <3>2, <3>3, <3>4
  <2> QED
    BY <2>1 DEF OneTick
<1>3. CASE Loops!Mark
  <2> DEFINE h == Head(l_thread.todo)
  <2>1. /\ l_thread.at = "next" /\ h \in LoopIds /\ h = l_thread.todo[1] /\ 1 \in DOMAIN l_thread.todo
        /\ UNCHANGED <<l_queue, l_consumer>>
    BY <1>3 DEF Loops!Mark
  <2>2. h \in Loops!Held => l_loops[h].due
    BY <2>1 DEF ListIsDue
  <2>3. CASE Loops!Marks(h)
    <3>1. /\ l_loops' = [l_loops EXCEPT ![h].pending = TRUE] /\ l_thread' = [l_thread EXCEPT !.at = "put"]
          /\ h \in Loops!Held /\ ~l_loops[h].pending
      BY <1>3, <2>3 DEF Loops!Mark, Loops!Marks, Loops!Waiting
    <3>2. Loops!At("put")' /\ Head(l_thread'.todo) = h
      BY <3>1
    <3> HIDE DEF h
    <3>3. \A m \in LoopIds : m # h => l_loops'[m] = l_loops[m]
      BY <3>1
    <3>4. l_loops'[h].pending /\ l_loops'[h].due /\ l_loops'[h].state = "open"
      BY <2>1, <2>2, <3>1
    <3> QED
      BY <1>0, <2>1, <3>1, <3>2, <3>3, <3>4 DEF OneTick
  <2>4. CASE ~Loops!Marks(h)
    <3>1. l_loops' = l_loops /\ ~Loops!At("put")'
      BY <1>3, <2>1, <2>4 DEF Loops!Mark
    <3> QED
      BY <2>1, <3>1 DEF OneTick
  <2> QED
    BY <2>3, <2>4
<1>4. CASE Loops!Put
  <2> DEFINE h == Head(l_thread.todo)
  <2>1. /\ Loops!At("put") /\ ~Loops!At("put")' /\ UNCHANGED <<l_loops, l_consumer>> /\ l_queue' = Append(l_queue, h)
        /\ h \in Events
    BY <1>4 DEF Loops!Put, ListIsHeld, Events
  <2>2. \A l \in LoopIds : OnQueue(l_queue', l) = OnQueue(l_queue, l) + (IF h = l THEN 1 ELSE 0)
    BY <2>1, OnQueueAppend
  <2> HIDE DEF h
  <2>3. \A l \in LoopIds : Head(l_thread.todo) = l <=> h = l
    BY DEF h
  <2> QED
    BY <1>0, <2>1, <2>2, <2>3 DEF OneTick
<1>5. CASE Loops!UserInput \/ Loops!RequestClose
  <2>1. PICK x \in {Loops!Input, Loops!Exit} : l_queue' = Append(l_queue, x)
    BY <1>5 DEF Loops!UserInput, Loops!RequestClose
  <2>2. \A l \in LoopIds : OnQueue(l_queue', l) = OnQueue(l_queue, l)
    <3>1. x \in Events /\ \A l \in LoopIds : x # l
      BY <1>0 DEF Events
    <3> QED
      BY <1>0, <2>1, <3>1, OnQueueAppend
  <2>3. UNCHANGED <<l_loops, l_thread, l_consumer>>
    BY <1>5 DEF Loops!UserInput, Loops!RequestClose
  <2> QED
    BY <2>2, <2>3 DEF OneTick
<1>6. CASE Loops!Get
  <2>1. /\ l_queue # <<>> /\ l_queue' = Tail(l_queue) /\ UNCHANGED <<l_loops, l_thread>>
        /\ l_consumer.event = None /\ l_consumer'.event = Head(l_queue) /\ l_consumer'.at # "idle"
    BY <1>6 DEF Loops!Get, EventIsHeld
  <2>2. \A l \in LoopIds :
          /\ OnQueue(l_queue', l) \in Nat
          /\ OnQueue(l_queue, l) = OnQueue(l_queue', l) + (IF Head(l_queue) = l THEN 1 ELSE 0)
    BY <2>1, OnQueueTail, OnQueueType
  <2> QED
    BY <1>0, <2>1, <2>2 DEF OneTick
<1>7. CASE Loops!Busy \/ Loops!BeginTick \/ Loops!EndTurn \/ Loops!Close
  <2>1. /\ UNCHANGED <<l_loops, l_thread, l_queue>> /\ l_consumer'.event = l_consumer.event
        /\ l_consumer.at # "idle" /\ l_consumer'.at # "idle"
    BY <1>7 DEF Loops!Busy, Loops!BeginTick, Loops!EndTurn, Loops!Close
  <2> QED
    BY <2>1 DEF OneTick
<1>8. CASE Loops!FinishTick
  <2> DEFINE e == l_consumer.event
  <2>1. /\ UNCHANGED <<l_thread, l_queue>> /\ l_consumer.at = "finish" /\ l_consumer'.at = "idle"
    BY <1>8 DEF Loops!FinishTick
  <2>2. CASE e \in Loops!Held
    <3>1. l_loops' = [l_loops EXCEPT ![e] = Loops!Record("open")]
      BY <1>8, <2>2 DEF Loops!FinishTick
    <3>2. e \in LoopIds /\ l_loops[e].state = "open" /\ l_loops'[e] = Loops!Record("open")
      BY <2>2, <3>1
    <3> HIDE DEF e
    <3>3. \A m \in LoopIds : m # e => l_loops'[m] = l_loops[m]
      BY <3>1
    <3>4. l_consumer.event = e
      BY DEF e
    <3>5. OnQueue(l_queue, e) = 0 /\ ~(Loops!At("put") /\ Head(l_thread.todo) = e)
      BY <1>0, <2>1, <3>2, <3>4 DEF OneTick
    <3> QED
      BY <1>0, <2>1, <3>2, <3>3, <3>4, <3>5 DEF OneTick, Loops!Record
  <2>3. CASE e \notin Loops!Held
    <3>1. l_loops' = l_loops
      BY <1>8, <2>3 DEF Loops!FinishTick
    <3>2. e \in LoopIds => l_loops[e].state # "open"
      BY <2>3
    <3>3. ASSUME e \in LoopIds PROVE l_loops[e].state # "new"
      <4>1. l_consumer.event = e
        OBVIOUS
      <4> HIDE DEF e
      <4>2. l_loops[e].state = "new" => ~l_loops[e].pending
        BY <3>3 DEF OneTick
      <4>3. l_loops[e].state # "stopped" =>
              OnQueue(l_queue, e) + 1 + (IF Loops!At("put") /\ Head(l_thread.todo) = e THEN 1 ELSE 0)
                = IF l_loops[e].pending THEN 1 ELSE 0
        BY <2>1, <3>3, <4>1 DEF OneTick
      <4> QED
        BY <1>0, <3>3, <4>2, <4>3
    <3>4. e \in LoopIds => l_loops[e].state = "stopped"
      BY <3>2, <3>3
    <3> QED
      BY <2>1, <3>1, <3>4 DEF OneTick
  <2> QED
    BY <2>2, <2>3
<1>9. CASE Loops!SetIdle
  <2>1. /\ UNCHANGED <<l_loops, l_thread, l_queue>> /\ l_consumer.at = "idle" /\ l_consumer'.event = None
    BY <1>9 DEF Loops!SetIdle
  <2> QED
    BY <1>0, <2>1 DEF OneTick
<1> QED
  BY <1>1, <1>2, <1>3, <1>4, <1>5, <1>6, <1>7, <1>8, <1>9 DEF Loops!Next, Loops!ThreadStep,
     Loops!ConsumerStep

LEMMA LoopsStep == ASSUME Loops!SessionLoopsAssumption PROVE LoopsInv /\ Loops!Next => LoopsInv'
BY TypesKept, ListKept, DueKept, TickKept DEF LoopsInv

LEMMA LoopsStutter == LoopsInv /\ UNCHANGED Loops!vars => LoopsInv'
<1> SUFFICES ASSUME LoopsInv, UNCHANGED Loops!vars PROVE LoopsInv'
  OBVIOUS
<1>1. UNCHANGED <<l_loops, l_wake, l_closed, l_thread, l_queue, l_idle, l_consumer>>
  BY DEF Loops!vars
<1>2. LoopTypes' /\ ListIsHeld' /\ EventIsHeld' /\ OneTick'
  BY <1>1 DEF LoopsInv, LoopTypes, ListIsHeld, EventIsHeld, OneTick, Loops!At
<1>3. ListIsDue'
  BY <1>1 DEF LoopsInv, ListIsDue, Loops!Held
<1> QED
  BY <1>2, <1>3 DEF LoopsInv

\* Who begins a tick has looked whether its loop stands.
LEMMA TicksStand ==
  ASSUME Loops!SessionLoopsAssumption, LoopsInv, Loops!Next
  PROVE  \A l \in LoopIds :
           l_consumer'.at = "run" /\ l_consumer.at # "run" /\ l_consumer.event = l => l \in Loops!Held
<1> SUFFICES ASSUME NEW l \in LoopIds, l_consumer'.at = "run", l_consumer.at # "run",
                    l_consumer.event = l
             PROVE  l \in Loops!Held
  OBVIOUS
<1>1. l # Loops!Input
  BY DEF Loops!SessionLoopsAssumption, Loops!Input
<1>2. CASE Loops!BeginTick
  BY <1>1, <1>2 DEF Loops!BeginTick, Loops!Begins
<1>3. ~(\E m \in LoopIds : Loops!Create(m) \/ Loops!Stop(m) \/ Loops!Elapse(m)) /\ ~Loops!ThreadStep /\ ~Loops!UserInput
        /\ ~Loops!RequestClose
  BY DEF Loops!Create, Loops!Stop, Loops!Elapse, Loops!ThreadStep, Loops!ClearWake, Loops!Look,
     Loops!Awake, Loops!TimeOut, Loops!WaitIdle, Loops!Collect,
    Loops!Mark, Loops!Put, Loops!Again, Loops!UserInput, Loops!RequestClose
<1>4. ~Loops!Get /\ ~Loops!Busy /\ ~Loops!EndTurn /\ ~Loops!FinishTick /\ ~Loops!SetIdle /\ ~Loops!Close
  BY DEF LoopsInv, LoopTypes, Loops!Get, Loops!Busy, Loops!EndTurn, Loops!FinishTick,
     Loops!SetIdle, Loops!Close
<1> QED
  BY <1>2, <1>3, <1>4 DEF Loops!Next, Loops!ConsumerStep

LEMMA LoopsKept == LoopsInv => Loops!TypeOK /\ Loops!TicksAreMerged
<1> SUFFICES ASSUME LoopsInv PROVE Loops!TypeOK /\ Loops!TicksAreMerged
  OBVIOUS
<1> USE DEF LoopsInv, LoopTypes
<1>1. Loops!Range(l_queue) \subseteq LoopIds \union {Loops!Input, Loops!Exit}
  BY DEF Loops!Range, Events
<1>2. {l_wake, l_closed, l_idle} \subseteq BOOLEAN
  OBVIOUS
<1>3. l_loops \in [LoopIds -> [state : {"new", "open", "stopped"}, due : BOOLEAN, pending : BOOLEAN]]
  BY DEF Records
<1>4. l_thread.at \in ThreadPlaces /\ l_consumer.at \in LoopStages
  OBVIOUS
<1>5. Loops!TypeOK
  BY <1>1, <1>2, <1>3, <1>4 DEF Loops!TypeOK, ThreadPlaces, LoopStages
<1>6. Loops!TicksAreMerged
  BY SameLoopsCardinality DEF Loops!TicksAreMerged, OneTick, Loops!Underway, OnQueue, Loops!Held
<1> QED
  BY <1>5, <1>6

\* A step of the suite is a step of this part, or leaves it alone.
LEMMA LoopsAlone == [SuiteNext]_suite_vars => Loops!Next \/ UNCHANGED Loops!vars
<1>1. SuiteNext => Loops!Next \/ UNCHANGED l_vars
  BY DEF SuiteNext, InFiles, InTriggers, InStream, InProcess, l_vars
<1>2. UNCHANGED suite_vars => UNCHANGED l_vars
  BY DEF suite_vars
<1>3. UNCHANGED l_vars => UNCHANGED Loops!vars
  BY DEF l_vars, Loops!vars
<1> QED
  BY <1>1, <1>2, <1>3

LEMMA LoopsHolds == SuiteSpec => []LoopsInv
<1>1. SuiteInit => LoopsInv
  BY LoopsInit, LoopsAssumed DEF SuiteInit
<1>2. LoopsInv /\ [SuiteNext]_suite_vars => LoopsInv'
  BY LoopsAlone, LoopsAssumed, LoopsStep, LoopsStutter
<1> QED
  BY <1>1, <1>2, PTL DEF SuiteSpec

-----------------------------------------------------------------------------
(* What MCServices checks of the three.                                    *)

\* RunsAddUp of MCServices, for any jobs, loops, events and commands: runs of a job never
\* overlap, every event that matched is covered by a run or still noted, a loop has at most
\* one tick to come, and a command that ended has left no process behind.
THEOREM ServicesAddUp == SuiteSpec => []RunsAddUp
<1>1. TriggersInv /\ LoopsInv /\ ProcessInv => RunsAddUp
  BY TriggersKept, TriggersAssumed, LoopsKept, ProcessKept, ProcessAssumed DEF RunsAddUp
<1> QED
  BY <1>1, TriggersHolds, LoopsHolds, ProcessHolds, PTL

\* OnlyActiveWorkBegins of MCServices, for any jobs, loops and events: whatever is edited,
\* probed, cancelled or closed meanwhile, a run is inserted for an active job only, and a
\* loop that was stopped before its tick was taken up does not begin a turn.
THEOREM OnlyActiveWork == SuiteSpec => OnlyActiveWorkBegins
<1> DEFINE RunsBegin ==
      \A j \in Jobs, k \in Triggers!Keys :
        j_runs[j][k] = "none" /\ j_runs'[j][k] # "none" => j_job_status[j] = "active"
<1> DEFINE TicksBegin ==
      \A l \in LoopIds :
        l_consumer'.at = "run" /\ l_consumer.at # "run" /\ l_consumer.event = l => l \in Loops!Held
<1>1. TriggersInv /\ [SuiteNext]_suite_vars => [RunsBegin]_(Triggers!vars)
  BY TriggersAlone, RunsForTheActive, TriggersAssumed DEF Triggers!vars
<1>2. LoopsInv /\ [SuiteNext]_suite_vars => [TicksBegin]_(Loops!vars)
  BY LoopsAlone, TicksStand, LoopsAssumed DEF Loops!vars
<1> HIDE DEF RunsBegin, TicksBegin
<1>3. SuiteSpec => [][RunsBegin]_(Triggers!vars)
  BY <1>1, TriggersHolds, PTL DEF SuiteSpec
<1>4. SuiteSpec => [][TicksBegin]_(Loops!vars)
  BY <1>2, LoopsHolds, PTL DEF SuiteSpec
<1> QED
  BY <1>3, <1>4 DEF OnlyActiveWorkBegins, Triggers!OnlyActiveJobsRun, Loops!StoppedNeverBegins,
     RunsBegin, TicksBegin

=============================================================================

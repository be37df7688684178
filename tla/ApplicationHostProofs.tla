------------------------- MODULE ApplicationHostProofs -------------------------
(***************************************************************************)
(* Proofs about ApplicationHost for any number of hosts, sessions and      *)
(* runs.  The inductive invariant says who is responsible for a row of an  *)
(* open session: a waiting row is in nobody's hands, a claimed one in the  *)
(* hands of its scheduler, of one launch or of one worker of the current   *)
(* host, and a launch that is past its wait occupies the directory.        *)
(***************************************************************************)
EXTENDS ApplicationHost, FiniteSetTheorems, TLAPS

Threads == Hosts \X Runs

\* A scheduler holds only runs of its own session, which is open.
HandOfSession ==
  \A s \in Sessions :
    hand[s] # NoRun => s \in open /\ SessionOf[hand[s]] = s /\ host_state # "new"

\* Hosts to come have no threads; those of the current one serve open sessions.
ThreadsOfHost ==
  \A t \in Threads :
    launch[t] # "none" \/ worker[t] # "none" =>
      t[1] <= host /\ (t[1] = host => SessionOf[t[2]] \in open)

\* A launch that is past its wait occupies the directory.
LaunchHoldsLease ==
  \A t \in Threads : launch[t] \in {"read", "start", "assemble"} => lease = t

\* A host that has not started has no session, one that has closed its stores
\* takes no submission.
HostStates ==
  /\ host_state = "new" => open = {}
  /\ host_state = "closed" => ~store_open
  /\ ~store_open => bg_closed

\* The row a launch of the current host assembles is running.
AssembleRuns ==
  \A t \in Threads :
    t[1] = host /\ launch[t] = "assemble" /\ store_open => status[t[2]] = "running"

\* Of an open session, a waiting row is in nobody's hands and a running one in
\* no scheduler's, nor in those of a launch that has not started it.
RowsInHand ==
  \A r \in Runs : SessionOf[r] \in open =>
    /\ status[r] \in Waiting \cup {"running"} => \A s \in Sessions : hand[s] # r
    /\ status[r] \in Waiting => launch[<<host, r>>] = "none"
    /\ status[r] = "running" => launch[<<host, r>>] \in {"none", "assemble"}

\* A run is with its scheduler, its launch or its worker.
OneStage ==
  \A r \in Runs :
    /\ worker[<<host, r>>] # "none" => launch[<<host, r>>] = "none"
    /\ (\E s \in Sessions : hand[s] = r) =>
         launch[<<host, r>>] = "none" /\ worker[<<host, r>>] = "none"

\* The slot is taken by one row.
OneActive == \A q, r \in ActiveRuns : q = r

IInv ==
  /\ TypeOK /\ AgentHoldsDirectory /\ WorkerKeepsItsRun
  /\ HandOfSession /\ ThreadsOfHost /\ LaunchHoldsLease /\ HostStates
  /\ AssembleRuns /\ RowsInHand /\ OneStage /\ OneActive

-----------------------------------------------------------------------------
(* Types                                                                   *)

\* What a finished or a recovered row may hold are statuses.
LEMMA RowStatuses ==
  ASSUME NEW r \in Runs, NEW reported \in {"completed", "failed", "cancelled"}
  PROVE  Finished(r, reported) \cup {"unknown"} \subseteq Terminal \cup Waiting \cup Active
  BY DEF Finished, Terminal, Waiting, Active

LEMMA LaunchTypes ==
  ASSUME TypeOK, NEW t \in Threads,
         LaunchStep(t) \/ Acquire(t)
  PROVE  TypeOK'
<1> USE DEF TypeOK, hostVars, rowVars, threadVars, Threads, Go
<1>0. /\ t[2] \in Runs
      /\ {"dispatched", "running", "cancelled"} \subseteq Terminal \cup Waiting \cup Active
  BY DEF Terminal, Waiting, Active
<1>1. ASSUME FailRow(t) PROVE status' \in [Runs -> Terminal \cup Waiting \cup Active]
  BY <1>0, <1>1, RowStatuses DEF FailRow
<1>2. CASE Acquire(t) BY <1>2 DEF Acquire
<1>3. CASE WaitCancelled(t) BY <1>3, <1>0 DEF WaitCancelled
<1>4. CASE ReadRun(t) BY <1>4 DEF ReadRun
<1>5. CASE SkipRun(t) BY <1>5 DEF SkipRun
<1>6. CASE StartRun(t) BY <1>6, <1>0 DEF StartRun
<1>7. CASE LaunchRaises(t) BY <1>7 DEF LaunchRaises
<1>8. CASE LaunchRefused(t) BY <1>8, <1>1 DEF LaunchRefused
<1>9. CASE AssemblyRaises(t) BY <1>9, <1>1 DEF AssemblyRaises
<1>10. CASE Submit(t) BY <1>10 DEF Submit
<1>11. CASE SubmitRefused(t) BY <1>11, <1>1 DEF SubmitRefused
<1> QED
  BY <1>2, <1>3, <1>4, <1>5, <1>6, <1>7, <1>8, <1>9, <1>10, <1>11 DEF LaunchStep

LEMMA HostTypes ==
  ASSUME TypeOK,
         \/ \E s \in Sessions : StartHost(s) \/ OpenSession(s)
         \/ BeginClose \/ CloseStep \/ NewHost \/ Crash
  PROVE  TypeOK'
<1> USE DEF TypeOK, hostVars, rowVars, threadVars, Hosts
<1>1. ASSUME NEW s \in Sessions, StartHost(s) \/ OpenSession(s) PROVE TypeOK'
  <2>1. CASE StartHost(s) BY <2>1 DEF StartHost
  <2>2. CASE OpenSession(s) BY <2>2 DEF OpenSession
  <2> QED BY <1>1, <2>1, <2>2
<1>2. CASE BeginClose BY <1>2 DEF BeginClose
<1>3. ASSUME NEW s \in Sessions, CloseScheduler(s) PROVE TypeOK'
  BY <1>3 DEF CloseScheduler
<1>4. CASE ShutdownBackground BY <1>4 DEF ShutdownBackground
<1>5. CASE FinishClose BY <1>5 DEF FinishClose
<1>6. ASSUME Fresh
      PROVE  /\ host' \in Hosts /\ host_state' = "new" /\ open' = {} /\ sched_closed' = {}
             /\ stop' \in BOOLEAN /\ bg_closed' \in BOOLEAN /\ store_open' \in BOOLEAN
             /\ hand' \in [Sessions -> Runs \cup {NoRun}]
  <2>1. host' \in Hosts /\ host_state' = "new" /\ open' = {} /\ sched_closed' = {}
    BY <1>6, HostAssumption DEF Fresh
  <2>2. stop' \in BOOLEAN /\ bg_closed' \in BOOLEAN /\ store_open' \in BOOLEAN
    BY <1>6, Zenon DEF Fresh
  <2>3. hand' \in [Sessions -> Runs \cup {NoRun}]
    BY <1>6 DEF Fresh
  <2> QED BY <2>1, <2>2, <2>3
<1>7. CASE NewHost BY <1>7, <1>6 DEF NewHost
<1>8. CASE Crash BY <1>8, <1>6 DEF Crash
<1> QED
  BY <1>1, <1>2, <1>3, <1>4, <1>5, <1>7, <1>8 DEF CloseStep

LEMMA OtherTypes ==
  ASSUME TypeOK,
         \/ \E s \in Sessions : SchedulerStep(s) \/ \E r \in Runs : Claim(s, r)
         \/ \E t \in Threads : WorkerStep(t)
         \/ \E r \in Runs : CancelRun(r)
         \/ TurnBegins \/ TurnEnds
  PROVE  TypeOK'
<1> USE DEF TypeOK, hostVars, rowVars, threadVars
<1>0. {"dispatched", "cancelled"} \subseteq Terminal \cup Waiting \cup Active
  BY DEF Terminal, Waiting, Active
<1>1. ASSUME NEW s \in Sessions, SchedulerStep(s) PROVE TypeOK'
  <2>1. CASE Dispatch(s) BY <2>1 DEF Dispatch
  <2>2. CASE AbandonClaim(s) BY <2>2 DEF AbandonClaim
  <2> QED BY <1>1, <2>1, <2>2 DEF SchedulerStep
<1>2. ASSUME NEW s \in Sessions, NEW r \in Runs, Claim(s, r) PROVE TypeOK'
  BY <1>2, <1>0 DEF Claim
<1>3. ASSUME NEW t \in Threads, WorkerStep(t) PROVE TypeOK'
  <2>1. CASE AgentEnds(t) BY <2>1 DEF AgentEnds
  <2>2. ASSUME NEW reported \in {"completed", "failed", "cancelled"}, Commit(t, reported)
        PROVE  TypeOK'
    <3>1. t[2] \in Runs
      BY DEF Threads
    <3>2. PICK row \in Terminal \cup Waiting \cup Active : status' = [status EXCEPT ![t[2]] = row]
      BY <2>2, <3>1, RowStatuses DEF Commit
    <3> QED BY <2>2, <3>2 DEF Commit
  <2> QED BY <1>3, <2>1, <2>2 DEF WorkerStep
<1>4. ASSUME NEW r \in Runs, CancelRun(r) PROVE TypeOK'
  BY <1>4, <1>0 DEF CancelRun
<1>5. CASE TurnBegins BY <1>5 DEF TurnBegins
<1>6. CASE TurnEnds BY <1>6 DEF TurnEnds
<1> QED
  BY <1>1, <1>2, <1>3, <1>4, <1>5, <1>6

\* The host, its rows, its threads and the directory keep their types.
THEOREM TypeCorrect == Spec => []TypeOK
<1>1. Init => TypeOK
  <2> SUFFICES ASSUME Init PROVE TypeOK
    OBVIOUS
  <2>1. stop \in BOOLEAN /\ bg_closed \in BOOLEAN /\ store_open \in BOOLEAN
    BY Zenon DEF Init
  <2>2. host \in Hosts /\ "queued" \in Waiting
    BY HostAssumption DEF Init, Hosts, Waiting
  <2> QED BY <2>1, <2>2 DEF Init, TypeOK
<1>2. TypeOK /\ [Next]_vars => TypeOK'
  <2>1. TypeOK /\ UNCHANGED vars => TypeOK'
    BY DEF TypeOK, vars, hostVars, rowVars, threadVars
  <2> QED
    BY <2>1, LaunchTypes, HostTypes, OtherTypes DEF Next, Threads
<1> QED
  BY <1>1, <1>2, PTL DEF Spec

-----------------------------------------------------------------------------
(* Each kind of step keeps the invariant.  The conjuncts come in three     *)
(* groups: whose hands a run is in, who has the directory, and what the    *)
(* rows say.                                                               *)

LEMMA Pairs ==
  ASSUME NEW t \in Threads
  PROVE  t[1] \in Hosts /\ t[2] \in Runs /\ t = <<t[1], t[2]>>
  BY DEF Threads

LEMMA StartHostInv ==
  ASSUME IInv, TypeOK', NEW s \in Sessions, StartHost(s)
  PROVE  IInv'
<1> USE DEF IInv, Threads, StartHost, threadVars
<1>1. HandOfSession' /\ ThreadsOfHost' /\ HostStates' /\ OneStage'
  BY DEF HandOfSession, ThreadsOfHost, HostStates, OneStage
<1>2. AgentHoldsDirectory' /\ LaunchHoldsLease'
  BY DEF LaunchHoldsLease, AgentHoldsDirectory
<1>3. WorkerKeepsItsRun' /\ AssembleRuns' /\ RowsInHand' /\ OneActive'
  BY HostAssumption
  DEF TypeOK, HandOfSession, ThreadsOfHost, HostStates, WorkerKeepsItsRun,
      AssembleRuns, RowsInHand, OneActive, ActiveRuns, Recovered, Active
<1> QED BY <1>1, <1>2, <1>3

LEMMA OpenSessionInv ==
  ASSUME IInv, TypeOK', NEW s \in Sessions, OpenSession(s)
  PROVE  IInv'
<1> USE DEF IInv, Threads, OpenSession, threadVars
<1>1. HandOfSession' /\ ThreadsOfHost' /\ HostStates' /\ OneStage'
  BY DEF HandOfSession, ThreadsOfHost, HostStates, OneStage
<1>2. AgentHoldsDirectory' /\ LaunchHoldsLease'
  BY DEF LaunchHoldsLease, AgentHoldsDirectory
<1>3. WorkerKeepsItsRun' /\ AssembleRuns' /\ RowsInHand' /\ OneActive'
  BY HostAssumption
  DEF TypeOK, HandOfSession, ThreadsOfHost, WorkerKeepsItsRun, AssembleRuns,
      RowsInHand, OneActive, ActiveRuns, Recovered, Active
<1> QED BY <1>1, <1>2, <1>3

LEMMA BeginCloseInv ==
  ASSUME IInv, TypeOK', BeginClose
  PROVE  IInv'
<1> USE DEF IInv, Threads, BeginClose, rowVars, threadVars
<1>1. HandOfSession' /\ ThreadsOfHost' /\ HostStates' /\ OneStage'
  BY DEF HandOfSession, ThreadsOfHost, HostStates, OneStage
<1>2. AgentHoldsDirectory' /\ LaunchHoldsLease'
  BY DEF LaunchHoldsLease, AgentHoldsDirectory
<1>3. WorkerKeepsItsRun' /\ AssembleRuns' /\ RowsInHand' /\ OneActive'
  BY DEF WorkerKeepsItsRun, AssembleRuns, RowsInHand, OneActive, ActiveRuns
<1> QED BY <1>1, <1>2, <1>3

LEMMA CloseSchedulerInv ==
  ASSUME IInv, TypeOK', NEW s \in Sessions, CloseScheduler(s)
  PROVE  IInv'
<1> USE DEF IInv, Threads, CloseScheduler, rowVars, threadVars
<1>1. HandOfSession' /\ ThreadsOfHost' /\ HostStates' /\ OneStage'
  BY DEF HandOfSession, ThreadsOfHost, HostStates, OneStage
<1>2. AgentHoldsDirectory' /\ LaunchHoldsLease'
  BY DEF LaunchHoldsLease, AgentHoldsDirectory
<1>3. WorkerKeepsItsRun' /\ AssembleRuns' /\ RowsInHand' /\ OneActive'
  BY DEF WorkerKeepsItsRun, AssembleRuns, RowsInHand, OneActive, ActiveRuns
<1> QED BY <1>1, <1>2, <1>3

LEMMA ShutdownBackgroundInv ==
  ASSUME IInv, TypeOK', ShutdownBackground
  PROVE  IInv'
<1> USE DEF IInv, Threads, ShutdownBackground, rowVars, threadVars
<1>1. HandOfSession' /\ ThreadsOfHost' /\ HostStates' /\ OneStage'
  BY DEF HandOfSession, ThreadsOfHost, HostStates, OneStage
<1>2. AgentHoldsDirectory' /\ LaunchHoldsLease'
  BY DEF LaunchHoldsLease, AgentHoldsDirectory
<1>3. WorkerKeepsItsRun' /\ AssembleRuns' /\ RowsInHand' /\ OneActive'
  BY DEF WorkerKeepsItsRun, AssembleRuns, RowsInHand, OneActive, ActiveRuns
<1> QED BY <1>1, <1>2, <1>3

LEMMA FinishCloseInv ==
  ASSUME IInv, TypeOK', FinishClose
  PROVE  IInv'
<1> USE DEF IInv, Threads, FinishClose, rowVars, threadVars
<1>1. HandOfSession' /\ ThreadsOfHost' /\ HostStates' /\ OneStage'
  BY DEF HandOfSession, ThreadsOfHost, HostStates, OneStage
<1>2. AgentHoldsDirectory' /\ LaunchHoldsLease'
  BY DEF LaunchHoldsLease, AgentHoldsDirectory
<1>3. WorkerKeepsItsRun' /\ AssembleRuns' /\ RowsInHand' /\ OneActive'
  BY DEF WorkerKeepsItsRun, AssembleRuns, RowsInHand, OneActive, ActiveRuns
<1> QED BY <1>1, <1>2, <1>3

LEMMA NewHostInv ==
  ASSUME IInv, TypeOK', NewHost
  PROVE  IInv'
<1> USE DEF IInv, Threads, NewHost, Fresh, rowVars
<1>1. HandOfSession' /\ ThreadsOfHost' /\ HostStates' /\ OneStage'
  BY DEF TypeOK, HandOfSession, ThreadsOfHost, HostStates, OneStage, Hosts
<1>2. AgentHoldsDirectory' /\ LaunchHoldsLease'
  BY DEF LaunchHoldsLease, AgentHoldsDirectory
<1>3. WorkerKeepsItsRun' /\ AssembleRuns' /\ RowsInHand' /\ OneActive'
  BY DEF TypeOK, ThreadsOfHost, HostStates, WorkerKeepsItsRun, AssembleRuns,
         RowsInHand, OneActive, ActiveRuns
<1> QED BY <1>1, <1>2, <1>3

LEMMA CrashInv ==
  ASSUME IInv, TypeOK', Crash
  PROVE  IInv'
<1> USE DEF IInv, Threads, Crash, Fresh, rowVars
<1>1. HandOfSession' /\ ThreadsOfHost' /\ HostStates' /\ OneStage'
  BY DEF TypeOK, HandOfSession, ThreadsOfHost, HostStates, OneStage
<1>2. AgentHoldsDirectory' /\ LaunchHoldsLease'
  BY DEF LaunchHoldsLease, AgentHoldsDirectory
<1>3. WorkerKeepsItsRun' /\ AssembleRuns' /\ RowsInHand' /\ OneActive'
  BY DEF WorkerKeepsItsRun, AssembleRuns, RowsInHand, OneActive, ActiveRuns
<1> QED BY <1>1, <1>2, <1>3

LEMMA ClaimInv ==
  ASSUME IInv, TypeOK', NEW s \in Sessions, NEW r \in Runs, Claim(s, r)
  PROVE  IInv'
<1> USE DEF IInv, Threads, Claim, hostVars
<1>1. HandOfSession' /\ ThreadsOfHost' /\ HostStates' /\ OneStage'
  BY DEF TypeOK, HandOfSession, ThreadsOfHost, HostStates, WorkerKeepsItsRun,
         RowsInHand, OneStage, Waiting
<1>2. AgentHoldsDirectory' /\ LaunchHoldsLease'
  BY DEF LaunchHoldsLease, AgentHoldsDirectory
<1>3. WorkerKeepsItsRun' /\ AssembleRuns' /\ RowsInHand' /\ OneActive'
  BY DEF TypeOK, WorkerKeepsItsRun, AssembleRuns, RowsInHand, OneActive,
         ActiveRuns, Waiting
<1> QED BY <1>1, <1>2, <1>3

LEMMA AbandonClaimInv ==
  ASSUME IInv, TypeOK', NEW s \in Sessions, AbandonClaim(s)
  PROVE  IInv'
<1> USE DEF IInv, Threads, AbandonClaim, hostVars, rowVars
<1>1. HandOfSession' /\ ThreadsOfHost' /\ HostStates' /\ OneStage'
  BY HostAssumption DEF HandOfSession, ThreadsOfHost, HostStates, OneStage
<1>2. AgentHoldsDirectory' /\ LaunchHoldsLease'
  BY DEF LaunchHoldsLease, AgentHoldsDirectory
<1>3. WorkerKeepsItsRun' /\ AssembleRuns' /\ RowsInHand' /\ OneActive'
  BY HostAssumption
  DEF WorkerKeepsItsRun, AssembleRuns, RowsInHand, OneActive, ActiveRuns
<1> QED BY <1>1, <1>2, <1>3

LEMMA DispatchInv ==
  ASSUME IInv, TypeOK', NEW s \in Sessions, Dispatch(s)
  PROVE  IInv'
<1> USE DEF IInv, Threads, Dispatch, hostVars, rowVars
<1>1. HandOfSession' /\ ThreadsOfHost' /\ HostStates' /\ OneStage'
  BY HostAssumption
  DEF TypeOK, HandOfSession, ThreadsOfHost, HostStates, OneStage, Hosts
<1>2. AgentHoldsDirectory' /\ LaunchHoldsLease'
  BY DEF LaunchHoldsLease, AgentHoldsDirectory
<1>3. WorkerKeepsItsRun' /\ AssembleRuns' /\ RowsInHand' /\ OneActive'
  BY HostAssumption
  DEF WorkerKeepsItsRun, AssembleRuns, RowsInHand, OneActive, ActiveRuns
<1> QED BY <1>1, <1>2, <1>3

LEMMA AcquireInv ==
  ASSUME IInv, TypeOK', NEW t \in Threads, Acquire(t)
  PROVE  IInv'
<1> USE DEF IInv, Threads, Acquire, Go, hostVars, rowVars
<1>1. HandOfSession' /\ ThreadsOfHost' /\ HostStates' /\ OneStage'
  BY DEF HandOfSession, ThreadsOfHost, HostStates, OneStage
<1>2. AgentHoldsDirectory' /\ LaunchHoldsLease'
  BY HostAssumption DEF LaunchHoldsLease, AgentHoldsDirectory, Hosts
<1>3. WorkerKeepsItsRun' /\ AssembleRuns' /\ RowsInHand' /\ OneActive'
  BY DEF WorkerKeepsItsRun, AssembleRuns, RowsInHand, OneActive, ActiveRuns
<1> QED BY <1>1, <1>2, <1>3

LEMMA WaitCancelledInv ==
  ASSUME IInv, TypeOK', NEW t \in Threads, WaitCancelled(t)
  PROVE  IInv'
<1> USE DEF IInv, Threads, WaitCancelled, Go, hostVars, rowVars
<1>1. HandOfSession' /\ ThreadsOfHost' /\ HostStates' /\ OneStage'
  BY DEF HandOfSession, ThreadsOfHost, HostStates, OneStage
<1>2. AgentHoldsDirectory' /\ LaunchHoldsLease'
  BY DEF LaunchHoldsLease, AgentHoldsDirectory
<1>3. WorkerKeepsItsRun' /\ AssembleRuns' /\ RowsInHand' /\ OneActive'
  BY SMTT(30) DEF TypeOK, HandOfSession, WorkerKeepsItsRun, AssembleRuns, RowsInHand,
         OneActive, ActiveRuns, Waiting, Terminal
<1> QED BY <1>1, <1>2, <1>3

LEMMA ReadRunInv ==
  ASSUME IInv, TypeOK', NEW t \in Threads, ReadRun(t)
  PROVE  IInv'
<1> USE DEF IInv, Threads, ReadRun, Go, hostVars, rowVars
<1>1. HandOfSession' /\ ThreadsOfHost' /\ HostStates' /\ OneStage'
  BY DEF HandOfSession, ThreadsOfHost, HostStates, RowsInHand, OneStage
<1>2. AgentHoldsDirectory' /\ LaunchHoldsLease'
  BY DEF LaunchHoldsLease, AgentHoldsDirectory
<1>3. WorkerKeepsItsRun' /\ AssembleRuns' /\ RowsInHand' /\ OneActive'
  BY DEF WorkerKeepsItsRun, AssembleRuns, RowsInHand, OneActive, ActiveRuns
<1> QED BY <1>1, <1>2, <1>3

LEMMA SkipRunInv ==
  ASSUME IInv, TypeOK', NEW t \in Threads, SkipRun(t)
  PROVE  IInv'
<1> USE DEF IInv, Threads, SkipRun, Go, hostVars, rowVars
<1>1. HandOfSession' /\ ThreadsOfHost' /\ HostStates' /\ OneStage'
  BY DEF HandOfSession, ThreadsOfHost, HostStates, OneStage
<1>2. AgentHoldsDirectory' /\ LaunchHoldsLease'
  BY DEF TypeOK, LaunchHoldsLease, AgentHoldsDirectory, WorkerKeepsItsRun,
         RowsInHand
<1>3. WorkerKeepsItsRun' /\ AssembleRuns' /\ RowsInHand' /\ OneActive'
  BY DEF WorkerKeepsItsRun, AssembleRuns, RowsInHand, OneActive, ActiveRuns
<1> QED BY <1>1, <1>2, <1>3

LEMMA StartRunInv ==
  ASSUME IInv, TypeOK', NEW t \in Threads, StartRun(t)
  PROVE  IInv'
<1> USE DEF IInv, Threads, StartRun, Go, hostVars
<1>1. HandOfSession' /\ ThreadsOfHost' /\ HostStates' /\ OneStage'
  BY DEF HandOfSession, ThreadsOfHost, HostStates, RowsInHand, OneStage
<1>2. AgentHoldsDirectory' /\ LaunchHoldsLease'
  BY DEF LaunchHoldsLease, AgentHoldsDirectory
<1>3. WorkerKeepsItsRun' /\ AssembleRuns' /\ RowsInHand' /\ OneActive'
  BY DEF TypeOK, WorkerKeepsItsRun, AssembleRuns, RowsInHand, OneStage,
         OneActive, ActiveRuns, StoreOpen, Waiting, Terminal
<1> QED BY <1>1, <1>2, <1>3

LEMMA LaunchRaisesInv ==
  ASSUME IInv, TypeOK', NEW t \in Threads, LaunchRaises(t)
  PROVE  IInv'
<1> USE DEF IInv, Threads, LaunchRaises, Go, hostVars, rowVars
<1>1. HandOfSession' /\ ThreadsOfHost' /\ HostStates' /\ OneStage'
  BY DEF HandOfSession, ThreadsOfHost, HostStates, OneStage
<1>2. AgentHoldsDirectory' /\ LaunchHoldsLease'
  BY DEF LaunchHoldsLease, AgentHoldsDirectory
<1>3. WorkerKeepsItsRun' /\ AssembleRuns' /\ RowsInHand' /\ OneActive'
  <2>1. WorkerKeepsItsRun'
    BY Pairs DEF WorkerKeepsItsRun
  <2>2. AssembleRuns'
    BY Pairs DEF HostStates, AssembleRuns, StoreOpen
  <2>3. RowsInHand'
    BY Pairs DEF TypeOK, RowsInHand, OneStage
  <2>4. OneActive'
    BY Pairs DEF OneActive, ActiveRuns
  <2> QED BY <2>1, <2>2, <2>3, <2>4
<1> QED BY <1>1, <1>2, <1>3

LEMMA LaunchRefusedInv ==
  ASSUME IInv, TypeOK', NEW t \in Threads, LaunchRefused(t)
  PROVE  IInv'
<1> USE DEF IInv, Threads, LaunchRefused, Go, hostVars
<1>1. HandOfSession' /\ ThreadsOfHost' /\ HostStates' /\ OneStage'
  BY DEF HandOfSession, ThreadsOfHost, HostStates, OneStage
<1>2. AgentHoldsDirectory' /\ LaunchHoldsLease'
  BY DEF TypeOK, LaunchHoldsLease, AgentHoldsDirectory, WorkerKeepsItsRun,
         OneStage
<1>3. WorkerKeepsItsRun' /\ AssembleRuns' /\ RowsInHand' /\ OneActive'
  BY SMTT(30) DEF TypeOK, WorkerKeepsItsRun, AssembleRuns, RowsInHand, OneStage,
         OneActive, ActiveRuns, FailRow, StoreOpen, Terminal
<1> QED BY <1>1, <1>2, <1>3

LEMMA AssemblyRaisesInv ==
  ASSUME IInv, TypeOK', NEW t \in Threads, AssemblyRaises(t)
  PROVE  IInv'
<1> USE DEF IInv, Threads, AssemblyRaises, Go, hostVars
<1>1. HandOfSession' /\ ThreadsOfHost' /\ HostStates' /\ OneStage'
  BY DEF HandOfSession, ThreadsOfHost, HostStates, OneStage
<1>2. AgentHoldsDirectory' /\ LaunchHoldsLease'
  BY DEF LaunchHoldsLease, AgentHoldsDirectory
<1>3. WorkerKeepsItsRun' /\ AssembleRuns' /\ RowsInHand' /\ OneActive'
  <2>1. WorkerKeepsItsRun'
    BY Pairs DEF TypeOK, WorkerKeepsItsRun, OneStage, FailRow, StoreOpen
  <2>2. AssembleRuns'
    BY Pairs DEF TypeOK, HostStates, AssembleRuns, FailRow, StoreOpen
  <2>3. RowsInHand'
    BY Pairs
    DEF TypeOK, HandOfSession, AssembleRuns, RowsInHand, OneStage, FailRow,
        StoreOpen
  <2>4. OneActive'
    BY Pairs DEF TypeOK, OneActive, ActiveRuns, FailRow, StoreOpen, Finished, Active
  <2> QED BY <2>1, <2>2, <2>3, <2>4
<1> QED BY <1>1, <1>2, <1>3

LEMMA SubmitInv ==
  ASSUME IInv, TypeOK', NEW t \in Threads, Submit(t)
  PROVE  IInv'
<1> USE DEF IInv, Threads, Submit, Go, hostVars, rowVars
<1>1. HandOfSession' /\ ThreadsOfHost' /\ HostStates' /\ OneStage'
  BY DEF TypeOK, HandOfSession, ThreadsOfHost, HostStates, OneStage
<1>2. AgentHoldsDirectory' /\ LaunchHoldsLease'
  BY DEF LaunchHoldsLease, AgentHoldsDirectory
<1>3. WorkerKeepsItsRun' /\ AssembleRuns' /\ RowsInHand' /\ OneActive'
  BY DEF ThreadsOfHost, HostStates, WorkerKeepsItsRun, AssembleRuns, RowsInHand,
         OneActive, ActiveRuns
<1> QED BY <1>1, <1>2, <1>3

LEMMA SubmitRefusedInv ==
  ASSUME IInv, TypeOK', NEW t \in Threads, SubmitRefused(t)
  PROVE  IInv'
<1> USE DEF IInv, Threads, SubmitRefused, Go, hostVars
<1>1. HandOfSession' /\ ThreadsOfHost' /\ HostStates' /\ OneStage'
  BY DEF HandOfSession, ThreadsOfHost, HostStates, OneStage
<1>2. AgentHoldsDirectory' /\ LaunchHoldsLease'
  BY DEF TypeOK, LaunchHoldsLease, AgentHoldsDirectory, WorkerKeepsItsRun,
         OneStage
<1>3. WorkerKeepsItsRun' /\ AssembleRuns' /\ RowsInHand' /\ OneActive'
  BY Pairs, SMTT(30)
  DEF TypeOK, WorkerKeepsItsRun, AssembleRuns, RowsInHand, OneStage, OneActive,
      ActiveRuns, FailRow, StoreOpen, Terminal, Hosts
<1> QED BY <1>1, <1>2, <1>3

LEMMA AgentEndsInv ==
  ASSUME IInv, TypeOK', NEW t \in Threads, AgentEnds(t)
  PROVE  IInv'
<1> USE DEF IInv, Threads, AgentEnds, hostVars, rowVars
<1>1. HandOfSession' /\ ThreadsOfHost' /\ HostStates' /\ OneStage'
  BY DEF HandOfSession, ThreadsOfHost, HostStates, RowsInHand, OneStage
<1>2. AgentHoldsDirectory' /\ LaunchHoldsLease'
  BY DEF TypeOK, LaunchHoldsLease, AgentHoldsDirectory, WorkerKeepsItsRun,
         OneStage
<1>3. WorkerKeepsItsRun' /\ AssembleRuns' /\ RowsInHand' /\ OneActive'
  BY DEF WorkerKeepsItsRun, AssembleRuns, RowsInHand, OneActive, ActiveRuns
<1> QED BY <1>1, <1>2, <1>3

LEMMA CommitInv ==
  ASSUME IInv, TypeOK', NEW t \in Threads,
         NEW reported \in {"completed", "failed", "cancelled"},
         Commit(t, reported)
  PROVE  IInv'
<1> USE DEF IInv, Threads, Commit, hostVars
<1>1. HandOfSession' /\ ThreadsOfHost' /\ HostStates' /\ OneStage'
  BY DEF HandOfSession, ThreadsOfHost, HostStates, OneStage
<1>2. AgentHoldsDirectory' /\ LaunchHoldsLease'
  BY DEF LaunchHoldsLease, AgentHoldsDirectory
<1>3. WorkerKeepsItsRun' /\ AssembleRuns' /\ RowsInHand' /\ OneActive'
  BY HostAssumption, Pairs
  DEF TypeOK, HandOfSession, LaunchHoldsLease, AgentHoldsDirectory,
      WorkerKeepsItsRun, AssembleRuns, RowsInHand, OneStage, OneActive,
      ActiveRuns, Active, Hosts
<1> QED BY <1>1, <1>2, <1>3

LEMMA CancelRunInv ==
  ASSUME IInv, TypeOK', NEW r \in Runs, CancelRun(r)
  PROVE  IInv'
<1> USE DEF IInv, Threads, CancelRun, hostVars, threadVars
<1>1. HandOfSession' /\ ThreadsOfHost' /\ HostStates' /\ OneStage'
  BY DEF HandOfSession, ThreadsOfHost, HostStates, OneStage
<1>2. AgentHoldsDirectory' /\ LaunchHoldsLease'
  BY DEF LaunchHoldsLease, AgentHoldsDirectory
<1>3. WorkerKeepsItsRun' /\ AssembleRuns' /\ RowsInHand' /\ OneActive'
  BY DEF WorkerKeepsItsRun, AssembleRuns, RowsInHand, OneActive, ActiveRuns,
         Active, Waiting
<1> QED BY <1>1, <1>2, <1>3

LEMMA TurnBeginsInv ==
  ASSUME IInv, TypeOK', TurnBegins
  PROVE  IInv'
<1> USE DEF IInv, Threads, TurnBegins, hostVars, rowVars, threadVars
<1>1. HandOfSession' /\ ThreadsOfHost' /\ HostStates' /\ OneStage'
  BY DEF HandOfSession, ThreadsOfHost, HostStates, OneStage
<1>2. AgentHoldsDirectory' /\ LaunchHoldsLease'
  BY HostAssumption DEF LaunchHoldsLease, AgentHoldsDirectory, Hosts
<1>3. WorkerKeepsItsRun' /\ AssembleRuns' /\ RowsInHand' /\ OneActive'
  BY DEF WorkerKeepsItsRun, AssembleRuns, RowsInHand, OneActive, ActiveRuns
<1> QED BY <1>1, <1>2, <1>3

LEMMA TurnEndsInv ==
  ASSUME IInv, TypeOK', TurnEnds
  PROVE  IInv'
<1> USE DEF IInv, Threads, TurnEnds, hostVars, rowVars, threadVars
<1>1. HandOfSession' /\ ThreadsOfHost' /\ HostStates' /\ OneStage'
  BY DEF HandOfSession, ThreadsOfHost, HostStates, OneStage
<1>2. AgentHoldsDirectory' /\ LaunchHoldsLease'
  BY HostAssumption DEF LaunchHoldsLease, AgentHoldsDirectory, Hosts
<1>3. WorkerKeepsItsRun' /\ AssembleRuns' /\ RowsInHand' /\ OneActive'
  BY DEF WorkerKeepsItsRun, AssembleRuns, RowsInHand, OneActive, ActiveRuns
<1> QED BY <1>1, <1>2, <1>3

LEMMA StutterInv ==
  ASSUME IInv, UNCHANGED vars
  PROVE  IInv'
<1> USE DEF IInv, vars, hostVars, rowVars, threadVars
<1>1. TypeOK'
  BY DEF TypeOK
<1>2. HandOfSession' /\ ThreadsOfHost' /\ HostStates' /\ OneStage'
  BY DEF HandOfSession, ThreadsOfHost, HostStates, OneStage
<1>3. AgentHoldsDirectory' /\ LaunchHoldsLease'
  BY DEF AgentHoldsDirectory, LaunchHoldsLease
<1>4. WorkerKeepsItsRun' /\ AssembleRuns' /\ RowsInHand' /\ OneActive'
  BY DEF WorkerKeepsItsRun, AssembleRuns, RowsInHand, OneActive, ActiveRuns
<1> QED BY <1>1, <1>2, <1>3, <1>4

-----------------------------------------------------------------------------
(* Safety                                                                  *)

LEMMA InitInv ==
  ASSUME Init
  PROVE  IInv
<1>1. TypeOK
  <2>1. stop \in BOOLEAN /\ bg_closed \in BOOLEAN /\ store_open \in BOOLEAN
    BY Zenon DEF Init
  <2>2. host \in Hosts /\ "queued" \in Waiting
    BY HostAssumption DEF Init, Hosts, Waiting
  <2> QED BY <2>1, <2>2 DEF Init, TypeOK
<1>2. HandOfSession /\ ThreadsOfHost /\ HostStates /\ OneStage
  BY Pairs, HostAssumption
  DEF Init, HandOfSession, ThreadsOfHost, HostStates, OneStage, Threads, Hosts
<1>3. AgentHoldsDirectory /\ LaunchHoldsLease
  BY DEF Init, AgentHoldsDirectory, LaunchHoldsLease, Threads
<1>4. WorkerKeepsItsRun /\ AssembleRuns /\ RowsInHand /\ OneActive
  BY DEF Init, WorkerKeepsItsRun, AssembleRuns, RowsInHand, OneActive, ActiveRuns, Threads
<1> QED BY <1>1, <1>2, <1>3, <1>4 DEF IInv

\* The invariant is inductive.
THEOREM Inductive == Spec => []IInv
<1>1. Init => IInv
  BY InitInv
<1>2. IInv /\ [Next]_vars => IInv'
  <2> SUFFICES ASSUME IInv, [Next]_vars PROVE IInv'
    OBVIOUS
  <2>1. CASE UNCHANGED vars
    BY <2>1, StutterInv
  <2>2. CASE Next
    <3>1. TypeOK'
      <4>1. TypeOK
        BY DEF IInv
      <4> QED
        BY <2>2, <4>1, LaunchTypes, HostTypes, OtherTypes DEF Next, Threads
    <3>2. ASSUME NEW s \in Sessions, StartHost(s) \/ OpenSession(s) PROVE IInv'
      BY <3>1, <3>2, StartHostInv, OpenSessionInv
    <3>3. ASSUME BeginClose \/ NewHost \/ Crash PROVE IInv'
      BY <3>1, <3>3, BeginCloseInv, NewHostInv, CrashInv
    <3>4. CASE CloseStep
      BY <3>1, <3>4, ShutdownBackgroundInv, FinishCloseInv, CloseSchedulerInv
      DEF CloseStep
    <3>5. ASSUME NEW s \in Sessions, SchedulerStep(s) PROVE IInv'
      BY <3>1, <3>5, AbandonClaimInv, DispatchInv DEF SchedulerStep
    <3>6. ASSUME NEW s \in Sessions, NEW r \in Runs, Claim(s, r) PROVE IInv'
      BY <3>1, <3>6, ClaimInv
    <3>7. ASSUME NEW t \in Threads, Acquire(t) PROVE IInv'
      BY <3>1, <3>7, AcquireInv
    <3>8. ASSUME NEW t \in Threads, LaunchStep(t) PROVE IInv'
      BY <3>1, <3>8, WaitCancelledInv, ReadRunInv, SkipRunInv, StartRunInv,
         LaunchRaisesInv, LaunchRefusedInv, AssemblyRaisesInv, SubmitInv,
         SubmitRefusedInv
      DEF LaunchStep
    <3>9. ASSUME NEW t \in Threads, WorkerStep(t) PROVE IInv'
      BY <3>1, <3>9, AgentEndsInv, CommitInv DEF WorkerStep
    <3>10. ASSUME NEW r \in Runs, CancelRun(r) PROVE IInv'
      BY <3>1, <3>10, CancelRunInv
    <3>11. ASSUME TurnBegins \/ TurnEnds PROVE IInv'
      BY <3>1, <3>11, TurnBeginsInv, TurnEndsInv
    <3> QED
      BY <2>2, <3>2, <3>3, <3>4, <3>5, <3>6, <3>7, <3>8, <3>9, <3>10, <3>11
      DEF Next, Threads
  <2> QED BY <2>1, <2>2
<1> QED
  BY <1>1, <1>2, PTL DEF Spec

\* A set whose members are all equal has at most one.
LEMMA AtMostOne ==
  ASSUME NEW S, \A x, y \in S : x = y
  PROVE  Cardinality(S) <= 1
<1>1. CASE S = {}
  BY <1>1, FS_EmptySet
<1>2. ASSUME NEW x \in S PROVE Cardinality(S) <= 1
  <2>1. S = {x}
    OBVIOUS
  <2> QED BY <2>1, FS_Singleton
<1> QED BY <1>1, <1>2

\* One run at a time: at most one row of the open sessions is active, and at
\* most one worker is there.  Workers have running rows of open sessions, so
\* two of them would be two active rows.
THEOREM SlotIsExclusive == Spec => []OneRunAtATime
<1>1. IInv => OneRunAtATime
  <2> SUFFICES ASSUME IInv PROVE OneRunAtATime
    OBVIOUS
  <2>1. Cardinality(ActiveRuns) <= 1
    BY AtMostOne DEF IInv, OneActive
  <2>2. ASSUME NEW t \in Threads, NEW u \in Threads, worker[t] # "none", worker[u] # "none"
        PROVE  t = u
    <3>1. t[2] \in ActiveRuns /\ u[2] \in ActiveRuns /\ t[1] = host /\ u[1] = host
      BY <2>2, Pairs DEF IInv, WorkerKeepsItsRun, ActiveRuns, Active, Threads
    <3>2. t[2] = u[2]
      BY <3>1 DEF IInv, OneActive
    <3> QED BY <3>1, <3>2, Pairs
  <2>3. Cardinality({t \in Threads : worker[t] # "none"}) <= 1
    <3> DEFINE W == {t \in Threads : worker[t] # "none"}
    <3>1. \A t, u \in W : t = u
      BY <2>2
    <3> HIDE DEF W
    <3>2. Cardinality(W) <= 1
      BY <3>1, AtMostOne
    <3> QED BY <3>2 DEF W
  <2> QED BY <2>1, <2>3 DEF OneRunAtATime, Threads
<1> QED
  BY <1>1, Inductive, PTL

\* Who runs an agent in the directory occupies it.
THEOREM LeaseIsHeld == Spec => []AgentHoldsDirectory
<1>1. IInv => AgentHoldsDirectory
  BY DEF IInv
<1> QED
  BY <1>1, Inductive, PTL

\* No close and no other session takes the run away from a worker.
THEOREM WorkersKeepTheirRuns == Spec => []WorkerKeepsItsRun
<1>1. IInv => WorkerKeepsItsRun
  BY DEF IInv
<1> QED
  BY <1>1, Inductive, PTL

\* Work is exclusive, for any number of hosts, sessions and runs.
THEOREM ExclusiveWork == Spec => []WorkIsExclusive
  BY SlotIsExclusive, LeaseIsHeld, WorkersKeepTheirRuns, PTL DEF WorkIsExclusive

=============================================================================

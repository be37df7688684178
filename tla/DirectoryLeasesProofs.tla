----------------------- MODULE DirectoryLeasesProofs -----------------------
(***************************************************************************)
(* Proofs about DirectoryLeases for any number of calls and directories.   *)
(* The inductive invariant adds to the checked invariants where a call can *)
(* be: a holder sits under the root it asked for and is not idle, a queued *)
(* call is still waiting, has no lease and is not cancelled, and a waiting *)
(* call that has a lease got it through its _Waiter.                       *)
(***************************************************************************)
EXTENDS DirectoryLeases, TLAPS

HoldersBusy ==
  \A h \in by_id :
    /\ pc[h] # "idle" /\ pc[family[h]] # "idle"
    /\ Waiting(h) => h \in granted

QueuedWait ==
  \A r \in Roots : \A c \in queue[r] :
    /\ root[c] = r
    /\ pc[c] \in {"waiting", "polled"}
    /\ c \notin granted \cup cancelled \cup ready \cup to_signal \cup by_id

IdleIsFresh ==
  \A c \in Calls : pc[c] = "idle" =>
    c \notin granted \cup cancelled \cup ready \cup to_signal

IInv ==
  /\ TypeOK /\ OneFamily /\ QueueHasHolder /\ CancelWaitersStrandsNothing
  /\ HoldersBusy /\ QueuedWait /\ IdleIsFresh

-----------------------------------------------------------------------------
(* Types                                                                   *)

\* The state of the coordinator and of its callers keeps its shape.
THEOREM TypeCorrect == Spec => []TypeOK
<1>1. Init => TypeOK
  BY DEF Init, TypeOK, Steps
<1>2. TypeOK /\ [Next]_vars => TypeOK'
  <2> SUFFICES ASSUME TypeOK, [Next]_vars
               PROVE  TypeOK'
    OBVIOUS
  <2> USE DEF TypeOK, Steps, lockVars, waiterVars, callVars
  <2>1. ASSUME NEW c \in Calls, NEW p \in Calls \cup {NoLease}, AcquireNow(c, p)
        PROVE  TypeOK'
    BY <2>1 DEF AcquireNow, Grant, Inherited
  <2>2. ASSUME NEW c \in Calls, NEW p \in Calls \cup {NoLease}, Enqueue(c, p)
        PROVE  TypeOK'
    BY <2>2 DEF Enqueue
  <2>3. ASSUME NEW c \in Calls, NEW p \in Calls, Retain(c, p)
        PROVE  TypeOK'
    BY <2>3 DEF Retain, Grant
  <2>4. ASSUME NEW c \in Calls, Release(c)
        PROVE  TypeOK'
    BY <2>4 DEF Release, Vacate, HandOver, Behind
  <2>5. ASSUME NEW c \in Calls, DropWaiter(c) \/ Settle(c) \/ Signal(c) \/ SetStop(c)
        PROVE  TypeOK'
    BY <2>5 DEF DropWaiter, Settle, Signal, SetStop
  <2>6. ASSUME NEW filter \in SUBSET Calls, CancelWaiters(filter)
        PROVE  TypeOK'
    BY <2>6 DEF CancelWaiters
  <2>7. ASSUME NEW c \in Calls, NEW p \in Calls \cup {NoLease}, 
               \/ AcquireCancelled(c, p) \/ RetainRefused(c, p)
               \/ WaitTimeout(c) \/ PollContinue(c) \/ WaitReady(c)
        PROVE  TypeOK'
    BY <2>7 DEF AcquireCancelled, RetainRefused, WaitTimeout, PollContinue, WaitReady
  <2>8. CASE UNCHANGED vars
    BY <2>8 DEF vars
  <2> QED
    BY <2>1, <2>2, <2>3, <2>4, <2>5, <2>6, <2>7, <2>8 DEF Next, Thread
<1> QED
  BY <1>1, <1>2, PTL DEF Spec

-----------------------------------------------------------------------------
(* The inductive invariant: one lemma per kind of step.                     *)

\* acquire() that finds the root free or inherits, and retain().
LEMMA GrantKeeps ==
  ASSUME IInv, TypeOK', NEW c \in Calls, NEW p \in Calls \cup {NoLease},
         AcquireNow(c, p) \/ (p \in Calls /\ Retain(c, p))
  PROVE  IInv'
PROOF
  <1> USE DEF IInv, TypeOK, Waiting
  <1> DEFINE r == root'[c]
  <1>1. /\ pc[c] = "idle" /\ c \notin by_id /\ r \in Roots
        /\ pc' = [pc EXCEPT ![c] = "holding"]
        /\ by_id' = by_id \cup {c}
        /\ holders' = [holders EXCEPT ![r] = @ \cup {c}]
        /\ root' = [root EXCEPT ![c] = r]
        /\ UNCHANGED <<queue, arrival, arrivals, waiters, waiterVars, stop>>
    BY DEF AcquireNow, Retain, Grant, HoldersBusy
  <1>2. /\ \A x \in Calls : x # c => family'[x] = family[x]
        /\ \/ holders[r] = {} /\ queue[r] = {} /\ family'[c] = c
           \/ \E q \in holders[r] : family'[c] = family[q]
    BY NoLeaseAssumption DEF AcquireNow, Retain, Grant, Inherited, CanGrant, OneFamily
  <1>3. \A s \in Roots : c \notin queue[s] /\ c \notin holders[s]
    BY <1>1 DEF QueuedWait, OneFamily
  <1>4. OneFamily'
    <2>1. ASSUME NEW x \in Calls PROVE (x \in by_id <=> x \in holders[root[x]])'
      BY <1>1, <1>3 DEF OneFamily
    <2>2. ASSUME NEW s \in Roots, NEW a \in holders'[s], NEW b \in holders'[s]
          PROVE  root'[a] = s /\ family'[a] = family'[b]
      BY <1>1, <1>2, <1>3 DEF OneFamily
    <2> QED BY <2>1, <2>2 DEF OneFamily
  <1>5. QueueHasHolder'
    BY <1>1 DEF QueueHasHolder
  <1>6. CancelWaitersStrandsNothing'
    BY <1>1 DEF CancelWaitersStrandsNothing
  <1>7. HoldersBusy'
    BY <1>1, <1>2 DEF HoldersBusy, OneFamily, waiterVars
  <1>8. QueuedWait'
    BY <1>1, <1>3 DEF QueuedWait, waiterVars
  <1>9. IdleIsFresh'
    BY <1>1 DEF IdleIsFresh, waiterVars
  <1> QED BY <1>4, <1>5, <1>6, <1>7, <1>8, <1>9

\* release() that hands the root to the next waiter.
LEMMA HandOverKeeps ==
  ASSUME IInv, TypeOK', NEW c \in Calls, NEW d \in Calls, c \in by_id,
         holders[root[c]] \ {c} = {}, HandOver(c, d),
         pc[c] \in {"holding", "giving_back"}, UNCHANGED <<stop, root>>,
         pc' = [pc EXCEPT ![c] = IF @ = "holding" THEN "released" ELSE "cancelled"]
  PROVE  IInv'
PROOF
  <1> USE DEF IInv, TypeOK, Waiting
  <1> DEFINE r == root[c]
  <1>1. /\ d \in queue[r] /\ d # c /\ root[d] = r /\ d \notin by_id
        /\ pc[d] \in {"waiting", "polled"} /\ holders[r] = {c}
    BY DEF HandOver, NextWaiter, QueuedWait, OneFamily
  <1>2. /\ by_id' = (by_id \ {c}) \cup {d} /\ holders' = [holders EXCEPT ![r] = {d}]
        /\ family' = [family EXCEPT ![d] = d]
        /\ granted' = granted \cup {d} /\ to_signal' = to_signal \cup {d}
        /\ UNCHANGED <<cancelled, ready>>
    BY DEF HandOver
  <1>3. queue'[r] \subseteq queue[r] \ {d} /\ \A s \in Roots : s # r => queue'[s] = queue[s]
    BY DEF HandOver, Behind
  <1>4. OneFamily'
    <2>1. ASSUME NEW x \in Calls PROVE (x \in by_id <=> x \in holders[root[x]])'
      BY <1>1, <1>2 DEF OneFamily
    <2>2. ASSUME NEW s \in Roots, NEW a \in holders'[s], NEW b \in holders'[s]
          PROVE  root'[a] = s /\ family'[a] = family'[b]
      BY <1>1, <1>2 DEF OneFamily
    <2> QED BY <2>1, <2>2 DEF OneFamily
  <1>5. QueueHasHolder'
    <2> SUFFICES ASSUME NEW s \in Roots, queue'[s] # {} PROVE holders'[s] # {}
      BY DEF QueueHasHolder
    <2>1. CASE s = r BY <1>2, <2>1
    <2>2. CASE s # r BY <1>1, <1>2, <1>3, <2>2 DEF QueueHasHolder
    <2> QED BY <2>1, <2>2
  <1>6. CancelWaitersStrandsNothing'
    BY <1>1, <1>2 DEF CancelWaitersStrandsNothing
  <1>7. HoldersBusy'
    BY <1>1, <1>2 DEF HoldersBusy
  <1>8. QueuedWait'
    BY <1>1, <1>2, <1>3 DEF QueuedWait
  <1>9. IdleIsFresh'
    BY <1>1, <1>2 DEF IdleIsFresh
  <1> QED BY <1>4, <1>5, <1>6, <1>7, <1>8, <1>9

\* release() that leaves the root to its other holders, or to nobody.
LEMMA VacateKeeps ==
  ASSUME IInv, TypeOK', NEW c \in Calls, c \in by_id, Vacate(c),
         pc[c] \in {"holding", "giving_back"}, UNCHANGED <<stop, root>>,
         pc' = [pc EXCEPT ![c] = IF @ = "holding" THEN "released" ELSE "cancelled"]
  PROVE  IInv'
PROOF
  <1> USE DEF IInv, TypeOK, Waiting
  <1> DEFINE r == root[c]
  <1>1. /\ by_id' = by_id \ {c} /\ holders' = [holders EXCEPT ![r] = @ \ {c}]
        /\ UNCHANGED <<family, granted, cancelled, ready, to_signal>>
    BY DEF Vacate, waiterVars
  <1>2. \A s \in Roots : queue'[s] \subseteq queue[s]
                         /\ (s = r /\ holders'[s] = {} => queue'[s] = {})
    BY <1>1 DEF Vacate
  <1>3. OneFamily'
    BY <1>1 DEF OneFamily
  <1>4. QueueHasHolder'
    BY <1>1, <1>2 DEF QueueHasHolder
  <1>5. CancelWaitersStrandsNothing'
    BY <1>1 DEF CancelWaitersStrandsNothing
  <1>6. HoldersBusy'
    BY <1>1 DEF HoldersBusy
  <1>7. QueuedWait'
    BY <1>1, <1>2 DEF QueuedWait
  <1>8. IdleIsFresh'
    BY <1>1 DEF IdleIsFresh
  <1> QED BY <1>3, <1>4, <1>5, <1>6, <1>7, <1>8

LEMMA ReleaseKeeps ==
  ASSUME IInv, TypeOK', NEW c \in Calls, Release(c)
  PROVE  IInv'
PROOF
  <1>1. CASE c \in by_id /\ Vacate(c)
    BY <1>1, VacateKeeps DEF Release
  <1>2. CASE c \in by_id /\ ~Vacate(c)
    <2>1. holders[root[c]] \ {c} = {} /\ \E d \in Calls : HandOver(c, d)
      BY <1>2 DEF Release
    <2>2. PICK d \in Calls : HandOver(c, d)
      BY <2>1
    <2> QED BY <1>2, <2>1, <2>2, HandOverKeeps DEF Release
  <1>3. CASE c \notin by_id
    <2> USE <1>3 DEF IInv, TypeOK, Waiting, lockVars, waiterVars
    <2>1. OneFamily' /\ QueueHasHolder'
      BY DEF Release, OneFamily, QueueHasHolder
    <2>2. CancelWaitersStrandsNothing' /\ HoldersBusy'
      BY DEF Release, CancelWaitersStrandsNothing, HoldersBusy
    <2>3. QueuedWait' /\ IdleIsFresh'
      BY DEF Release, QueuedWait, IdleIsFresh
    <2> QED BY <2>1, <2>2, <2>3
  <1> QED BY <1>1, <1>2, <1>3

\* A caller that goes to the queue, leaves it, or finds out how its wait ended.
LEMMA QueueStepKeeps ==
  ASSUME IInv, TypeOK', NEW c \in Calls, NEW p \in Calls \cup {NoLease},
         Enqueue(c, p) \/ DropWaiter(c) \/ Settle(c)
  PROVE  IInv'
PROOF
  <1> USE DEF IInv, TypeOK, Waiting
  <1>1. CASE Enqueue(c, p)
    <2> USE <1>1
    <2>1. c \notin by_id /\ holders[root[c]] # {}
      BY DEF Enqueue, CanGrant, QueueHasHolder, HoldersBusy
    <2>2. OneFamily' /\ QueueHasHolder'
      BY <2>1 DEF Enqueue, OneFamily, QueueHasHolder
    <2>3. CancelWaitersStrandsNothing' /\ HoldersBusy'
      BY <2>1 DEF Enqueue, CancelWaitersStrandsNothing, HoldersBusy, waiterVars
    <2>4. QueuedWait' /\ IdleIsFresh'
      BY <2>1 DEF Enqueue, QueuedWait, IdleIsFresh, waiterVars
    <2> QED BY <2>2, <2>3, <2>4
  <1>2. CASE DropWaiter(c)
    <2> USE <1>2
    <2>1. OneFamily' /\ QueueHasHolder'
      BY DEF DropWaiter, OneFamily, QueueHasHolder
    <2>2. CancelWaitersStrandsNothing' /\ HoldersBusy'
      BY DEF DropWaiter, CancelWaitersStrandsNothing, HoldersBusy
    <2>3. QueuedWait' /\ IdleIsFresh'
      BY DEF DropWaiter, QueuedWait, IdleIsFresh
    <2> QED BY <2>1, <2>2, <2>3
  <1>3. CASE Settle(c)
    <2> USE <1>3
    <2>1. OneFamily' /\ QueueHasHolder'
      BY DEF Settle, OneFamily, QueueHasHolder
    <2>2. CancelWaitersStrandsNothing' /\ HoldersBusy'
      BY DEF Settle, CancelWaitersStrandsNothing, HoldersBusy, waiterVars
    <2>3. QueuedWait' /\ IdleIsFresh'
      BY DEF Settle, QueuedWait, IdleIsFresh, waiterVars
    <2> QED BY <2>1, <2>2, <2>3
  <1> QED BY <1>1, <1>2, <1>3

\* Steps that move neither a lease nor the queue, and cancel_waiters().
LEMMA OtherStepKeeps ==
  ASSUME IInv, TypeOK', NEW c \in Calls, NEW p \in Calls \cup {NoLease},
         NEW filter \in SUBSET Calls,
         \/ AcquireCancelled(c, p) \/ RetainRefused(c, p) \/ WaitTimeout(c)
         \/ PollContinue(c) \/ WaitReady(c) \/ Signal(c) \/ SetStop(c)
         \/ CancelWaiters(filter)
  PROVE  IInv'
PROOF
  <1> USE DEF IInv, TypeOK, Waiting, lockVars, waiterVars, callVars
  <1>1. CASE \/ AcquireCancelled(c, p) \/ RetainRefused(c, p) \/ WaitTimeout(c)
             \/ PollContinue(c) \/ WaitReady(c)
    <2> USE <1>1 DEF AcquireCancelled, RetainRefused, WaitTimeout, PollContinue, WaitReady
    <2>1. OneFamily' /\ QueueHasHolder'
      BY DEF OneFamily, QueueHasHolder
    <2>2. CancelWaitersStrandsNothing' /\ HoldersBusy'
      BY DEF CancelWaitersStrandsNothing, HoldersBusy
    <2>3. QueuedWait' /\ IdleIsFresh'
      BY DEF QueuedWait, IdleIsFresh
    <2> QED BY <2>1, <2>2, <2>3
  <1>2. CASE Signal(c) \/ SetStop(c)
    <2> USE <1>2 DEF Signal, SetStop
    <2>1. OneFamily' /\ QueueHasHolder'
      BY DEF OneFamily, QueueHasHolder
    <2>2. CancelWaitersStrandsNothing' /\ HoldersBusy'
      BY DEF CancelWaitersStrandsNothing, HoldersBusy
    <2>3. QueuedWait' /\ IdleIsFresh'
      BY DEF QueuedWait, IdleIsFresh
    <2> QED BY <2>1, <2>2, <2>3
  <1>3. CASE CancelWaiters(filter)
    <2> USE <1>3 DEF CancelWaiters
    <2>1. OneFamily' /\ QueueHasHolder'
      BY DEF OneFamily, QueueHasHolder
    <2>2. CancelWaitersStrandsNothing' /\ HoldersBusy'
      BY DEF CancelWaitersStrandsNothing, HoldersBusy
    <2>3. QueuedWait' /\ IdleIsFresh'
      BY DEF QueuedWait, IdleIsFresh
    <2> QED BY <2>1, <2>2, <2>3
  <1> QED BY <1>1, <1>2, <1>3

LEMMA Invariance == Spec => []IInv
PROOF
  <1>1. Init => IInv
    <2> SUFFICES ASSUME Init PROVE IInv
      OBVIOUS
    <2>1. TypeOK
      BY DEF Init, TypeOK, Steps
    <2> QED
      BY <2>1 DEF Init, IInv, OneFamily, QueueHasHolder, CancelWaitersStrandsNothing,
         HoldersBusy, QueuedWait, IdleIsFresh
  <1>2. IInv /\ TypeOK' /\ [Next]_vars => IInv'
    <2> SUFFICES ASSUME IInv, TypeOK', [Next]_vars PROVE IInv'
      OBVIOUS
    <2>1. ASSUME NEW c \in Calls, NEW p \in Calls \cup {NoLease},
                 AcquireNow(c, p) \/ AcquireCancelled(c, p) \/ Enqueue(c, p)
          PROVE  IInv'
      BY <2>1, GrantKeeps, QueueStepKeeps, OtherStepKeeps
    <2>2. ASSUME NEW c \in Calls, NEW p \in Calls, Retain(c, p) \/ RetainRefused(c, p)
          PROVE  IInv'
      BY <2>2, GrantKeeps, OtherStepKeeps
    <2>3. ASSUME NEW c \in Calls, Thread(c) \/ Signal(c) \/ SetStop(c)
          PROVE  IInv'
      BY <2>3, ReleaseKeeps, QueueStepKeeps, OtherStepKeeps DEF Thread
    <2>4. ASSUME NEW filter \in SUBSET Calls, CancelWaiters(filter)
          PROVE  IInv'
      <3>1. CASE Calls = {}
        BY <3>1, <2>4 DEF CancelWaiters, IInv, TypeOK
      <3>2. CASE Calls # {}
        BY <3>2, <2>4, OtherStepKeeps
      <3> QED BY <3>1, <3>2
    <2>5. CASE UNCHANGED vars
      BY <2>5 DEF vars, lockVars, waiterVars, callVars, IInv, OneFamily, QueueHasHolder,
         CancelWaitersStrandsNothing, HoldersBusy, QueuedWait, IdleIsFresh, Waiting
    <2> QED
      BY <2>1, <2>2, <2>3, <2>4, <2>5 DEF Next
  <1> QED
    BY <1>1, <1>2, TypeCorrect, PTL DEF Spec

\* However calls interleave, the leases of a directory descend from one
\* top-level grant and the two indexes of the coordinator agree.
THEOREM OneFamilyAlways == Spec => []OneFamily
  BY Invariance, PTL DEF IInv

\* Nobody waits for a directory that nobody holds: no release() or cancellation
\* can leave a queue behind without a lease whose release serves it.
THEOREM QueueHasHolderAlways == Spec => []QueueHasHolder
  BY Invariance, PTL DEF IInv

\* cancel_waiters() alone can never leave a cancelled call as the holder.
THEOREM CancelWaitersStrandsNothingAlways == Spec => []CancelWaitersStrandsNothing
  BY Invariance, PTL DEF IInv

-----------------------------------------------------------------------------
(* Order of service                                                        *)

\* Grants outside the queue either inherit or find the queue empty, and
\* release() serves the earliest waiter, since no queued waiter is cancelled.
THEOREM ServedInOrder == Spec => FirstComeFirstServed
PROOF
  <1> DEFINE InOrder ==
        \A r \in Roots : \A c \in holders'[r] \ holders[r] :
          (family'[c] = c /\ queue[r] # {})
            => /\ c \in queue[r]
               /\ \A e \in queue[r] : arrival[c] <= arrival[e]
  <1>1. IInv /\ [Next]_vars => [InOrder]_vars
    <2> SUFFICES ASSUME IInv, Next PROVE InOrder
      BY DEF vars
    <2> USE DEF IInv, TypeOK
    <2>1. ASSUME NEW x \in Calls, NEW p \in Calls \cup {NoLease}, AcquireNow(x, p)
          PROVE  InOrder
      <3>1. \A r \in Roots : holders'[r] \ holders[r] \subseteq {x} \cap {y \in Calls : r = root[x]}
        BY <2>1 DEF AcquireNow, Grant
      <3>2. CASE Inherited(x, p)
        <4>1. family'[x] = family[p] /\ family[p] # x
          BY <2>1, <3>2, NoLeaseAssumption DEF AcquireNow, Grant, Inherited, HoldersBusy
        <4> QED BY <3>1, <4>1
      <3>3. CASE ~Inherited(x, p)
        BY <2>1, <3>1, <3>3 DEF AcquireNow, CanGrant
      <3> QED BY <3>2, <3>3
    <2>2. ASSUME NEW x \in Calls, NEW p \in Calls, Retain(x, p)
          PROVE  InOrder
      <3>1. \A r \in Roots : holders'[r] \ holders[r] \subseteq {x}
        BY <2>2 DEF Retain, Grant
      <3>2. family'[x] = family[p] /\ family[p] # x
        BY <2>2, NoLeaseAssumption DEF Retain, Grant, HoldersBusy
      <3> QED BY <3>1, <3>2
    <2>3. ASSUME NEW x \in Calls, Release(x)
          PROVE  InOrder
      <3>1. CASE \E d \in Calls : HandOver(x, d)
        <4>1. PICK d \in Calls : HandOver(x, d)
          BY <3>1
        <4>2. \A r \in Roots : holders'[r] \ holders[r] \subseteq {d} \cap {y \in Calls : r = root[x]}
          BY <4>1 DEF HandOver
        <4> QED BY <4>1, <4>2 DEF HandOver, NextWaiter, QueuedWait
      <3>2. CASE UNCHANGED holders \/ Vacate(x)
        BY <3>2 DEF Vacate
      <3> QED BY <2>3, <3>1, <3>2 DEF Release, lockVars
    <2>4. CASE UNCHANGED holders
      BY <2>4
    <2> QED
      BY <2>1, <2>2, <2>3, <2>4 DEF Next, Thread, AcquireCancelled, Enqueue,
         RetainRefused, WaitTimeout, PollContinue, DropWaiter, WaitReady, Settle,
         Signal, SetStop, CancelWaiters, lockVars, callVars
  <1> QED
    BY <1>1, Invariance, PTL DEF Spec, FirstComeFirstServed

-----------------------------------------------------------------------------
(* Refinement                                                              *)

LEMMA OwnerIsFamily ==
  ASSUME IInv, NEW r \in Roots, NEW h \in holders[r]
  PROVE  OwnerOf(r) = family[h]
  BY DEF OwnerOf, IInv, OneFamily

LEMMA OwnerIsFamilyNext ==
  ASSUME IInv', NEW r \in Roots, NEW h \in holders'[r]
  PROVE  OwnerOf(r)' = family'[h]
  BY DEF OwnerOf, IInv, OneFamily

\* The owner of a root is untouched by a step that changes neither its holders
\* nor the family of any of them.
LEMMA SameOwner ==
  ASSUME IInv, IInv', NEW r \in Roots, holders'[r] = holders[r],
         \A h \in holders[r] : family'[h] = family[h]
  PROVE  OwnerOf(r)' = OwnerOf(r)
PROOF
  <1>1. CASE holders[r] = {}
    BY <1>1 DEF OwnerOf
  <1>2. CASE holders[r] # {}
    <2>1. PICK h \in holders[r] : TRUE
      BY <1>2
    <2> QED BY <2>1, OwnerIsFamily, OwnerIsFamilyNext
  <1> QED BY <1>1, <1>2

\* One root's holders and owner change as the abstract specification allows.
LEMMA RootStep ==
  ASSUME IInv, IInv', NEW r \in Roots, NEW H \in SUBSET Calls,
         holders' = [holders EXCEPT ![r] = H],
         \A s \in Roots \ {r} : \A h \in holders[s] : family'[h] = family[h]
  PROVE  [s \in Roots |-> OwnerOf(s)]' =
         [[s \in Roots |-> OwnerOf(s)] EXCEPT ![r] = OwnerOf(r)']
PROOF
  <1>1. \A s \in Roots \ {r} : OwnerOf(s)' = OwnerOf(s)
    BY SameOwner DEF IInv, TypeOK
  <1> QED BY <1>1

\* acquire() on a free root enters it; a child joins its parent's occupancy.
LEMMA GrantImplements ==
  ASSUME IInv, IInv', NEW c \in Calls, NEW p \in Calls \cup {NoLease},
         AcquireNow(c, p) \/ (p \in Calls /\ Retain(c, p))
  PROVE  Occupancy!Next
PROOF
  <1> USE DEF IInv, TypeOK
  <1>0. PICK r \in Roots : r = root'[c]
    OBVIOUS
  <1>1. /\ r \in Roots /\ c \notin holders[r]
        /\ holders' = [holders EXCEPT ![r] = @ \cup {c}]
        /\ \A s \in Roots : \A h \in holders[s] : family'[h] = family[h]
    BY <1>0 DEF AcquireNow, Retain, Grant, OneFamily, HoldersBusy
  <1>2. [s \in Roots |-> OwnerOf(s)]' =
        [[s \in Roots |-> OwnerOf(s)] EXCEPT ![r] = OwnerOf(r)']
    <2>1. holders[r] \cup {c} \in SUBSET Calls
      OBVIOUS
    <2> HIDE DEF IInv, TypeOK
    <2> QED BY <1>1, <2>1, RootStep
  <1>3. CASE holders[r] = {}
    <2>1. family'[c] = c
      BY <1>0, <1>3, NoLeaseAssumption DEF AcquireNow, Retain, Grant, Inherited, OneFamily
    <2>2. OwnerOf(r)' = c
      BY <1>1, <2>1, OwnerIsFamilyNext
    <2>3. Occupancy!Enter(r, c)
      BY <1>1, <1>2, <1>3, <2>2 DEF Occupancy!Enter
    <2> QED BY <1>1, <2>3 DEF Occupancy!Next
  <1>4. CASE holders[r] # {}
    <2>1. PICK h \in holders[r] : TRUE
      BY <1>4
    <2>2. OwnerOf(r)' = OwnerOf(r)
      BY <1>1, <2>1, OwnerIsFamily, OwnerIsFamilyNext
    <2>3. UNCHANGED [s \in Roots |-> OwnerOf(s)]
      BY <1>2, <2>2
    <2>4. Occupancy!Join(r, c)
      BY <1>1, <1>4, <2>3 DEF Occupancy!Join
    <2> QED BY <1>1, <2>4 DEF Occupancy!Next
  <1> QED BY <1>3, <1>4

\* release() leaves the occupancy or hands the directory over.
LEMMA ReleaseImplements ==
  ASSUME IInv, IInv', NEW c \in Calls, Release(c), c \in by_id
  PROVE  Occupancy!Next
PROOF
  <1> USE DEF IInv, TypeOK
  <1>0. PICK r \in Roots : r = root[c] /\ c \in holders[r]
    BY DEF OneFamily
  <1>1. CASE Vacate(c)
    <2>1. /\ holders' = [holders EXCEPT ![r] = holders[r] \ {c}]
          /\ holders[r] \ {c} \in SUBSET Calls
          /\ \A s \in Roots : \A h \in holders[s] : family'[h] = family[h]
      BY <1>0, <1>1 DEF Vacate
    <2>2. [s \in Roots |-> OwnerOf(s)]' =
          [[s \in Roots |-> OwnerOf(s)] EXCEPT ![r] = OwnerOf(r)']
      <3> HIDE DEF IInv, TypeOK
      <3> QED BY <2>1, RootStep
    <2>3. OwnerOf(r)' = IF holders[r] = {c} THEN NoLease ELSE OwnerOf(r)
      <3>1. CASE holders[r] = {c}
        BY <1>0, <2>1, <3>1 DEF OwnerOf
      <3>2. CASE holders[r] # {c}
        <4>1. PICK h \in holders[r] : h # c
          BY <1>0, <3>2
        <4>2. h \in holders'[r]
          BY <1>0, <2>1, <4>1
        <4> QED BY <1>0, <2>1, <3>2, <4>1, <4>2, OwnerIsFamily, OwnerIsFamilyNext
      <3> QED BY <3>1, <3>2
    <2>4. Occupancy!Leave(r, c)
      BY <1>0, <2>1, <2>2, <2>3 DEF Occupancy!Leave
    <2> QED BY <1>0, <2>4 DEF Occupancy!Next
  <1>2. CASE ~Vacate(c)
    <2>1. holders[r] \ {c} = {} /\ \E d \in Calls : HandOver(c, d)
      BY <1>0, <1>2 DEF Release
    <2>2. PICK d \in Calls : HandOver(c, d)
      BY <2>1
    <2>3. /\ holders' = [holders EXCEPT ![r] = {d}] /\ d # c
          /\ \A s \in Roots \ {r} : \A h \in holders[s] : family'[h] = family[h]
          /\ family'[d] = d
      BY <1>0, <2>2 DEF HandOver, NextWaiter, QueuedWait, OneFamily
    <2>4. [s \in Roots |-> OwnerOf(s)]' =
          [[s \in Roots |-> OwnerOf(s)] EXCEPT ![r] = OwnerOf(r)']
      <3> HIDE DEF IInv, TypeOK
      <3>1. {d} \in SUBSET Calls
        OBVIOUS
      <3> QED BY <2>3, <3>1, RootStep
    <2>5. OwnerOf(r)' = d
      BY <1>0, <2>3, OwnerIsFamilyNext
    <2>6. Occupancy!HandOver(r, c, d)
      BY <1>0, <2>1, <2>3, <2>4, <2>5 DEF Occupancy!HandOver
    <2> QED BY <1>0, <2>6 DEF Occupancy!Next
  <1> QED BY <1>1, <1>2

\* The coordinator implements exclusive occupancy by one piece of top-level
\* work and its children, for every interleaving of waits and cancellations.
THEOREM Refinement == Spec => ImplementsOccupancy
PROOF
  <1> DEFINE owners == [r \in Roots |-> OwnerOf(r)]
  <1>1. Init => Occupancy!Init
    BY DEF Init, Occupancy!Init, OwnerOf
  <1>2. IInv /\ IInv' /\ [Next]_vars => [Occupancy!Next]_<<holders, owners>>
    <2> SUFFICES ASSUME IInv, IInv', [Next]_vars
                 PROVE  Occupancy!Next \/ UNCHANGED <<holders, owners>>
      OBVIOUS
    <2>1. ASSUME UNCHANGED <<holders, family>>
          PROVE  UNCHANGED <<holders, owners>>
      BY <2>1, SameOwner
    <2>2. ASSUME NEW c \in Calls, Release(c)
          PROVE  Occupancy!Next \/ UNCHANGED <<holders, owners>>
      <3>1. CASE c \in by_id BY <2>2, <3>1, ReleaseImplements
      <3>2. CASE c \notin by_id BY <2>1, <2>2, <3>2 DEF Release, lockVars
      <3> QED BY <3>1, <3>2
    <2>3. CASE UNCHANGED vars
      BY <2>1, <2>3 DEF vars, lockVars, callVars
    <2>4. CASE Next
      BY <2>1, <2>2, <2>4, GrantImplements DEF Next, Thread, AcquireCancelled, Enqueue,
         RetainRefused, WaitTimeout, PollContinue, DropWaiter, WaitReady, Settle,
         Signal, SetStop, CancelWaiters, lockVars, callVars
    <2> QED BY <2>3, <2>4
  <1> QED
    BY <1>1, <1>2, Invariance, PTL DEF Spec, ImplementsOccupancy, Occupancy!Spec

=============================================================================

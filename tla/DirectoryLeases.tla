--------------------------- MODULE DirectoryLeases ---------------------------
(***************************************************************************)
(* DirectoryExecutionCoordinator (application/execution/directory.py): the *)
(* process-wide object that serialises turns, durable runs, background     *)
(* commands and sub-agents that share one execution directory.             *)
(*                                                                         *)
(* A call is one call of acquire() or retain().  Lease ids are fresh uuids *)
(* and a call returns at most one lease, so a lease is named by the call   *)
(* that obtained it.  Every `with self._lock` section is one action; the   *)
(* waits, the polling of the caller's cancel event and the ready.set()     *)
(* that release() performs after it has left the lock are actions of their *)
(* own, so all their interleavings are explored.                           *)
(***************************************************************************)
EXTENDS Naturals

CONSTANTS
  Calls,    \* calls of acquire() and retain(); each is also the lease it gets
  Roots,    \* resolved execution directories
  NoLease   \* no parent lease

ASSUME NoLeaseAssumption == NoLease \notin Calls

VARIABLES
  by_id,      \* _by_id: the leases that are held
  holders,    \* _holders: for each root, its leases
  queue,      \* _queues: for each root, the calls queued for it
  arrival,    \* position at which a call was appended to its deque
  arrivals,   \* how many calls have been appended so far
  waiters,    \* _waiters: what waiting_reason() looks through
  granted,    \* waiters whose _Waiter.lease release() has filled in
  cancelled,  \* waiters whose _Waiter.cancelled is set
  ready,      \* waiters whose _Waiter.ready event is set
  to_signal,  \* waiters granted by a release() that has not called ready.set()
  stop,       \* calls whose cancel event is set
  root,       \* execution_root of the call's waiter or lease
  family,     \* the lease at the top of the parent_lease_id chain
  pc          \* where the calling thread is

lockVars   == <<by_id, holders, queue, arrival, arrivals, waiters>>
waiterVars == <<granted, cancelled, ready, to_signal>>
callVars   == <<stop, root, family, pc>>
vars       == <<lockVars, waiterVars, callVars>>

(***************************************************************************)
(* "idle": not called yet; "waiting": inside ready.wait(0.05); "polled":   *)
(* the wait timed out; "woken": the wait returned True; "holding": a lease *)
(* was returned; "giving_back": the last lines of acquire(), which release *)
(* a lease found on a cancelled waiter; the others are final.              *)
(***************************************************************************)
Steps == {"idle", "waiting", "polled", "woken", "holding", "giving_back",
          "released", "cancelled", "refused"}

Waiting(c) == pc[c] \in {"waiting", "polled", "woken"}

TypeOK ==
  /\ by_id \subseteq Calls
  /\ holders \in [Roots -> SUBSET Calls]
  /\ queue \in [Roots -> SUBSET Calls]
  /\ arrival \in [Calls -> Nat]
  /\ arrivals \in Nat
  /\ waiters \subseteq Calls
  /\ granted \subseteq Calls
  /\ cancelled \subseteq Calls
  /\ ready \subseteq Calls
  /\ to_signal \subseteq Calls
  /\ stop \subseteq Calls
  /\ root \in [Calls -> Roots]
  /\ family \in [Calls -> Calls]
  /\ pc \in [Calls -> Steps]

Init ==
  /\ by_id = {}
  /\ holders = [r \in Roots |-> {}]
  /\ queue = [r \in Roots |-> {}]
  /\ arrival = [c \in Calls |-> 0]
  /\ arrivals = 0
  /\ waiters = {}
  /\ granted = {}
  /\ cancelled = {}
  /\ ready = {}
  /\ to_signal = {}
  /\ stop = {}
  /\ root \in [Calls -> Roots]
  /\ family = [c \in Calls |-> c]
  /\ pc = [c \in Calls |-> "idle"]

-----------------------------------------------------------------------------
(* Operators of the coordinator, each used inside its lock.                *)

\* _inherited_locked: the parent still occupies the requested root.
Inherited(c, p) == p # NoLease /\ p \in by_id /\ root[p] = root[c]

\* _can_grant_locked: nobody occupies the root and nobody is ahead.
CanGrant(r) == holders[r] = {} /\ queue[r] = {}

\* _grant_locked: a fresh lease of root r, below parent p if there is one.
Grant(c, r, p) ==
  /\ by_id' = by_id \cup {c}
  /\ holders' = [holders EXCEPT ![r] = @ \cup {c}]
  /\ family' = [family EXCEPT ![c] = IF p = NoLease THEN c ELSE family[p]]

\* Mutant of NextWaiter: pop() instead of popleft().
LastWaiter(r, d) ==
  /\ d \in queue[r] \ cancelled
  /\ \A e \in queue[r] \ cancelled : arrival[d] >= arrival[e]

\* popleft() until a waiter that is not cancelled: the call it ends with.
NextWaiter(r, d) ==
  /\ d \in queue[r] \ cancelled
  /\ \A e \in queue[r] \ cancelled : arrival[d] <= arrival[e]

\* The queue once that call and everything ahead of it was popped.
Behind(r, d) == {e \in queue[r] : arrival[e] > arrival[d]}

-----------------------------------------------------------------------------
(* acquire()                                                               *)

\* The root is free, or the parent lease occupies it already.
AcquireNow(c, p) ==
  /\ pc[c] = "idle"
  /\ Inherited(c, p) \/ CanGrant(root[c])
  /\ Grant(c, root[c], IF Inherited(c, p) THEN p ELSE NoLease)
  /\ pc' = [pc EXCEPT ![c] = "holding"]
  /\ UNCHANGED <<queue, arrival, arrivals, waiters, waiterVars, stop, root>>

\* The root is busy and the caller has been cancelled before it queued.
AcquireCancelled(c, p) ==
  /\ pc[c] = "idle"
  /\ ~Inherited(c, p) /\ ~CanGrant(root[c])
  /\ c \in stop
  /\ pc' = [pc EXCEPT ![c] = "cancelled"]
  /\ UNCHANGED <<lockVars, waiterVars, stop, root, family>>

\* The root is busy: append a waiter and start to wait for its event.
Enqueue(c, p) ==
  /\ pc[c] = "idle"
  /\ ~Inherited(c, p) /\ ~CanGrant(root[c])
  /\ c \notin stop
  /\ queue' = [queue EXCEPT ![root[c]] = @ \cup {c}]
  /\ arrival' = [arrival EXCEPT ![c] = arrivals]
  /\ arrivals' = arrivals + 1
  /\ waiters' = waiters \cup {c}
  /\ pc' = [pc EXCEPT ![c] = "waiting"]
  /\ UNCHANGED <<by_id, holders, waiterVars, stop, root, family>>

\* ready.wait(timeout=0.05) ran into its timeout.
WaitTimeout(c) ==
  /\ pc[c] = "waiting" /\ c \notin ready
  /\ pc' = [pc EXCEPT ![c] = "polled"]
  /\ UNCHANGED <<lockVars, waiterVars, stop, root, family>>

\* The cancel event is not set: wait again.
PollContinue(c) ==
  /\ pc[c] = "polled" /\ c \notin stop
  /\ pc' = [pc EXCEPT ![c] = "waiting"]
  /\ UNCHANGED <<lockVars, waiterVars, stop, root, family>>

\* Mutant of DropWaiter: gives up after one poll without asking for the event.
DropWaiterOnTimeout(c) ==
  /\ pc[c] = "polled"
  /\ queue' = [queue EXCEPT ![root[c]] = @ \ {c}]
  /\ cancelled' = cancelled \cup {c}
  /\ waiters' = waiters \ {c}
  /\ pc' = [pc EXCEPT ![c] = "cancelled"]
  /\ UNCHANGED <<by_id, holders, arrival, arrivals, granted, ready, to_signal,
                 stop, root, family>>

\* The cancel event is set: _drop_waiter, then DirectoryWaitCancelled.  A
\* lease that release() filled in meanwhile is not looked at.
DropWaiter(c) ==
  /\ pc[c] = "polled" /\ c \in stop
  /\ queue' = [queue EXCEPT ![root[c]] = @ \ {c}]
  /\ cancelled' = cancelled \cup {c}
  /\ waiters' = waiters \ {c}
  /\ pc' = [pc EXCEPT ![c] = "cancelled"]
  /\ UNCHANGED <<by_id, holders, arrival, arrivals, granted, ready, to_signal,
                 stop, root, family>>

\* ready.wait() returned True.
WaitReady(c) ==
  /\ pc[c] = "waiting" /\ c \in ready
  /\ pc' = [pc EXCEPT ![c] = "woken"]
  /\ UNCHANGED <<lockVars, waiterVars, stop, root, family>>

\* The last section of acquire(): return the lease, or give it back and raise.
Settle(c) ==
  /\ pc[c] = "woken"
  /\ waiters' = waiters \ {c}
  /\ pc' = [pc EXCEPT ![c] =
              IF c \in cancelled \/ c \notin granted
              THEN IF c \in granted THEN "giving_back" ELSE "cancelled"
              ELSE "holding"]
  /\ UNCHANGED <<by_id, holders, queue, arrival, arrivals, waiterVars, stop,
                 root, family>>

-----------------------------------------------------------------------------
(* retain(), release(), cancel_waiters()                                   *)

\* Mutant of Retain: does not notice that the parent has been released.
RetainReleased(c, p) ==
  /\ pc[c] = "idle"
  /\ p \in by_id \/ pc[p] = "released"
  /\ Grant(c, root[p], p)
  /\ root' = [root EXCEPT ![c] = root[p]]
  /\ pc' = [pc EXCEPT ![c] = "holding"]
  /\ UNCHANGED <<queue, arrival, arrivals, waiters, waiterVars, stop>>

\* A child keeps the directory beside a lease it was given.
Retain(c, p) ==
  /\ pc[c] = "idle"
  /\ p \in by_id
  /\ Grant(c, root[p], p)
  /\ root' = [root EXCEPT ![c] = root[p]]
  /\ pc' = [pc EXCEPT ![c] = "holding"]
  /\ UNCHANGED <<queue, arrival, arrivals, waiters, waiterVars, stop>>

\* The parent released first: RuntimeError, nothing is granted.
RetainRefused(c, p) ==
  /\ pc[c] = "idle"
  /\ pc[p] = "released" /\ p \notin by_id
  /\ pc' = [pc EXCEPT ![c] = "refused"]
  /\ UNCHANGED <<lockVars, waiterVars, stop, root, family>>

\* Mutant of HandOver: forgets to hand the waiter on to ready.set().
HandOverSilently(c, d) ==
  LET r == root[c] IN
  /\ NextWaiter(r, d)
  /\ by_id' = (by_id \ {c}) \cup {d}
  /\ holders' = [holders EXCEPT ![r] = {d}]
  /\ family' = [family EXCEPT ![d] = d]
  /\ queue' = [queue EXCEPT ![r] = Behind(r, d)]
  /\ granted' = granted \cup {d}
  /\ UNCHANGED <<to_signal, arrival, arrivals, waiters, cancelled, ready>>

\* release() of the last lease of a root hands it to the next waiter.
HandOver(c, d) ==
  LET r == root[c] IN
  /\ NextWaiter(r, d)
  /\ by_id' = (by_id \ {c}) \cup {d}
  /\ holders' = [holders EXCEPT ![r] = {d}]
  /\ family' = [family EXCEPT ![d] = d]
  /\ queue' = [queue EXCEPT ![r] = Behind(r, d)]
  /\ granted' = granted \cup {d}
  /\ to_signal' = to_signal \cup {d}
  /\ UNCHANGED <<arrival, arrivals, waiters, cancelled, ready>>

\* release() that leaves other holders behind, or finds nobody waiting.
Vacate(c) ==
  LET r == root[c] IN
  /\ by_id' = by_id \ {c}
  /\ holders' = [holders EXCEPT ![r] = @ \ {c}]
  /\ IF holders[r] \ {c} = {}
     THEN queue[r] \subseteq cancelled /\ queue' = [queue EXCEPT ![r] = {}]
     ELSE UNCHANGED queue
  /\ UNCHANGED <<arrival, arrivals, waiters, waiterVars, family>>

\* release(), called by the holder in its finally block.
Release(c) ==
  /\ pc[c] \in {"holding", "giving_back"}
  /\ IF c \in by_id
     THEN \/ Vacate(c)
          \/ /\ holders[root[c]] \ {c} = {}
             /\ \E d \in Calls : HandOver(c, d)
     ELSE UNCHANGED <<lockVars, waiterVars, family>>
  /\ pc' = [pc EXCEPT ![c] = IF @ = "holding" THEN "released" ELSE "cancelled"]
  /\ UNCHANGED <<stop, root>>

\* The last line of release(), outside the lock: wake the new holder.
Signal(d) ==
  /\ d \in to_signal
  /\ to_signal' = to_signal \ {d}
  /\ ready' = ready \cup {d}
  /\ UNCHANGED <<lockVars, granted, cancelled, callVars>>

\* cancel_waiters(): the filter by session and holder selects any set of calls.
CancelWaiters(filter) ==
  LET matched == filter \cap UNION {queue[r] : r \in Roots} IN
  /\ matched # {}
  /\ queue' = [r \in Roots |-> queue[r] \ matched]
  /\ cancelled' = cancelled \cup matched
  /\ ready' = ready \cup matched
  /\ waiters' = waiters \ matched
  /\ UNCHANGED <<by_id, holders, arrival, arrivals, granted, to_signal, callVars>>

\* The user or a closing host sets the cancel event the call was given.
SetStop(c) ==
  /\ c \notin stop
  /\ stop' = stop \cup {c}
  /\ UNCHANGED <<lockVars, waiterVars, root, family, pc>>

-----------------------------------------------------------------------------
Thread(c) ==
  \/ WaitTimeout(c) \/ PollContinue(c) \/ DropWaiter(c)
  \/ WaitReady(c) \/ Settle(c) \/ Release(c)

Next ==
  \/ \E c \in Calls, p \in Calls \cup {NoLease} :
       AcquireNow(c, p) \/ AcquireCancelled(c, p) \/ Enqueue(c, p)
  \/ \E c, p \in Calls : Retain(c, p) \/ RetainRefused(c, p)
  \/ \E c \in Calls : Thread(c) \/ Signal(c) \/ SetStop(c)
  \/ \E filter \in SUBSET Calls : CancelWaiters(filter)

Spec == Init /\ [][Next]_vars

(***************************************************************************)
(* A waiting thread keeps running, a releasing thread reaches ready.set(), *)
(* and whoever holds a lease releases it: every caller does so in a        *)
(* finally block or in a done callback.  Nobody has to acquire or cancel.  *)
(***************************************************************************)
Fairness == \A c \in Calls : WF_vars(Thread(c)) /\ WF_vars(Signal(c))

FairSpec == Spec /\ Fairness

-----------------------------------------------------------------------------
(* Properties                                                              *)

\* The two indexes of the coordinator agree, and one occupancy at a time: all
\* leases of a root descend from one top-level grant (_grant_locked, retain).
OneFamily ==
  /\ \A c \in Calls : c \in by_id <=> c \in holders[root[c]]
  /\ \A r \in Roots : \A a, b \in holders[r] : root[a] = r /\ family[a] = family[b]

\* A queue never outlives the occupancy it waits for: as long as somebody is
\* queued for a root somebody holds it, whose release will serve the queue.
QueueHasHolder == \A r \in Roots : queue[r] # {} => holders[r] # {}

\* A new occupancy of a root that others queue for goes to the one who came
\* first; nobody gets in from outside the queue (acquire, release).
FirstComeFirstServed ==
  [][\A r \in Roots : \A c \in holders'[r] \ holders[r] :
       (family'[c] = c /\ queue[r] # {})
         => /\ c \in queue[r]
            /\ \A e \in queue[r] : arrival[c] <= arrival[e]]_vars

\* cancel_waiters() never strands a lease: the only cancelled call that can be
\* left as a holder is one whose own cancel event was set while it was polling.
CancelWaitersStrandsNothing == \A c \in by_id : pc[c] = "cancelled" => c \in stop

\* directory.py:21, "The waiter left the queue. The current holder is
\* unchanged.": a call that raised DirectoryWaitCancelled holds nothing.
CancelledCallHoldsNothing == \A c \in by_id : pc[c] # "cancelled"

\* Every queued call is eventually served or cancelled, unless a lease of its
\* root was stranded (which CancelledCallHoldsNothing is about).
NoWaiterStarves ==
  \A c \in Calls :
    Waiting(c) ~> \/ ~Waiting(c)
                  \/ \E h \in holders[root[c]] : pc[h] = "cancelled"

\* The top-level lease that the holders of a root descend from.
OwnerOf(r) ==
  IF holders[r] = {} THEN NoLease ELSE family[CHOOSE h \in holders[r] : TRUE]

Occupancy == INSTANCE DirectoryOccupancy
               WITH Leases <- Calls, occupants <- holders,
                    owner <- [r \in Roots |-> OwnerOf(r)]

\* The coordinator with its queues and threads implements the promise.
ImplementsOccupancy == Occupancy!Spec

=============================================================================

--------------------------- MODULE InteractionMailbox ---------------------------
(***************************************************************************)
(* Questions to the user: InteractionMailbox (application/session/         *)
(* mailbox.py), its browser and terminal adapters (interfaces/             *)
(* interaction.py) and the rows of pending_interactions                    *)
(* (_interactions.py).  An agent thread asks and blocks; a request handler *)
(* or the terminal's collector answers; a stop or a close cancels; a       *)
(* changed permission denies.  The decision is persisted outside the lock, *)
(* so every operation is split where another thread may come in between.   *)
(***************************************************************************)
EXTENDS Naturals, FiniteSets

CONSTANTS
  Requests,    \* questions, each asked by a thread of its own
  Answerers,   \* request handlers and the collector
  Cancellers,  \* threads that stop a turn or close the session
  NoRequest

\* What the constants have to be.
InteractionMailboxAssumption == NoRequest \notin Requests

VARIABLES
  state,      \* InteractionRequest.state; "new" before begin()
  requests,   \* _requests: what can be resolved or cancelled
  pending,    \* _pending: what the collector has not been given
  done,       \* requests whose done event is set
  answer,     \* InteractionRequest.answer
  closed,     \* _closed
  stale,      \* requests whose permissions have changed: validator() raises
  asker,      \* where the thread of each request is
  answerer,   \* where each answerer is: its request and its choice
  canceller,  \* where each canceller is, and the items it still has to wake
  record,     \* pending_interactions.status of each request, "none" without a row
  failed      \* requests whose decision could not be persisted once (history)

box     == <<state, requests, pending, done, answer, closed>>
threads == <<asker, answerer, canceller>>
vars    == <<box, stale, threads, record, failed>>

Choices  == {"allow", "deny"}
NoAnswer == [at |-> "idle", req |-> NoRequest, choice |-> "deny"]

TypeOK ==
  /\ state \in [Requests -> {"new", "pending", "committing", "approved", "denied", "cancelled"}]
  /\ requests \subseteq Requests /\ pending \subseteq Requests /\ done \subseteq Requests
  /\ answer \in [Requests -> Choices \cup {"none"}]
  /\ closed \in BOOLEAN
  /\ stale \subseteq Requests /\ failed \subseteq Requests
  /\ asker \in [Requests -> {"idle", "record", "wait", "commit", "finish", "returned", "raised"}]
  /\ answerer \in [Answerers -> [at: {"idle", "commit", "finish"},
                                 req: Requests \cup {NoRequest}, choice: Choices]]
  /\ canceller \in [Cancellers -> [at: {"idle", "collect", "wake"}, items: SUBSET Requests]]
  /\ record \in [Requests -> {"none", "pending", "approved", "denied", "cancelled"}]

Init ==
  /\ state = [r \in Requests |-> "new"]
  /\ requests = {} /\ pending = {} /\ done = {} /\ closed = FALSE
  /\ answer = [r \in Requests |-> "none"]
  /\ stale = {} /\ failed = {}
  /\ asker = [r \in Requests |-> "idle"]
  /\ answerer = [h \in Answerers |-> NoAnswer]
  /\ canceller = [k \in Cancellers |-> [at |-> "idle", items |-> {}]]
  /\ record = [r \in Requests |-> "none"]

-----------------------------------------------------------------------------
(* The agent's thread.                                                     *)

AskerAt(r, at) == asker' = [asker EXCEPT ![r] = at]

\* begin(), under the lock: registered, or refused by a closed mailbox.
Ask(r) ==
  /\ asker[r] = "idle"
  /\ IF closed
     THEN AskerAt(r, "returned") /\ UNCHANGED box
     ELSE /\ state' = [state EXCEPT ![r] = "pending"]
          /\ requests' = requests \cup {r} /\ pending' = pending \cup {r}
          /\ AskerAt(r, "record")
          /\ UNCHANGED <<done, answer, closed>>
  /\ UNCHANGED <<stale, answerer, canceller, record, failed>>

\* begin(), after the lock: record_interaction inserts the row, once.
Record(r) ==
  /\ asker[r] = "record"
  /\ record' = [record EXCEPT ![r] = IF @ = "none" THEN "pending" ELSE @]
  /\ AskerAt(r, "wait")
  /\ UNCHANGED <<box, stale, answerer, canceller, failed>>

\* record_interaction raises: the request is withdrawn and begin() raises.
RecordFails(r) ==
  /\ asker[r] = "record"
  /\ requests' = requests \ {r} /\ pending' = pending \ {r}
  /\ AskerAt(r, "raised")
  /\ UNCHANGED <<state, done, answer, closed, stale, answerer, canceller, record, failed>>

\* wait(): the event is set and the answer is taken.
Wake(r) ==
  /\ asker[r] = "wait" /\ r \in done
  /\ AskerAt(r, "returned")
  /\ UNCHANGED <<box, stale, answerer, canceller, record, failed>>

-----------------------------------------------------------------------------
(* resolve(), by whoever answers.                                          *)

\* The first locked part: one resolver takes a pending request.
Takes(r) == r \in requests /\ state[r] = "pending"

Committing(r) == state' = [state EXCEPT ![r] = "committing"]

\* decision_record and resolve_interaction: only a pending row is decided.
Decision(choice) == IF choice = "allow" THEN "approved" ELSE "denied"

Decide(r, status) == record' = [record EXCEPT ![r] = IF @ = "pending" THEN status ELSE @]

\* The decision was not persisted: the request can be answered again.
PutBack(r) ==
  /\ state' = [state EXCEPT ![r] = IF @ = "committing" THEN "pending" ELSE @]
  /\ pending' = IF state[r] = "committing" THEN pending \cup {r} ELSE pending
  /\ failed' = failed \cup {r}
  /\ UNCHANGED <<requests, done, answer, closed, record>>

\* The second locked part: the answer is given and the asker woken.
Give(r, choice) ==
  IF state[r] = "committing"
  THEN /\ state' = [state EXCEPT ![r] = Decision(choice)]
       /\ answer' = [answer EXCEPT ![r] = choice]
       /\ requests' = requests \ {r} /\ pending' = pending \ {r}
       /\ done' = done \cup {r}
       /\ UNCHANGED closed
  ELSE UNCHANGED box

\* respond_interaction and the collector: a user's choice for a known request.
AnswerTake(h) ==
  /\ answerer[h].at = "idle"
  /\ \E r \in Requests, c \in Choices :
       /\ Takes(r)
       /\ Committing(r)
       /\ answerer' = [answerer EXCEPT ![h] = [at |-> "commit", req |-> r, choice |-> c]]
  /\ UNCHANGED <<requests, pending, done, answer, closed, stale, asker, canceller,
                 record, failed>>

\* poll(): the collector is given a request that still waits, and skips others.
Poll ==
  /\ \E r \in pending : pending' = pending \ {r}
  /\ UNCHANGED <<state, requests, done, answer, closed, stale, threads, record, failed>>

AnswerCommit(h) ==
  LET a == answerer[h] IN
  /\ a.at = "commit"
  /\ Decide(a.req, Decision(a.choice))
  /\ answerer' = [answerer EXCEPT ![h].at = "finish"]
  /\ UNCHANGED <<box, stale, asker, canceller, failed>>

AnswerCommitFails(h) ==
  /\ answerer[h].at = "commit"
  /\ PutBack(answerer[h].req)
  /\ answerer' = [answerer EXCEPT ![h] = NoAnswer]
  /\ UNCHANGED <<stale, asker, canceller>>

AnswerGive(h) ==
  /\ answerer[h].at = "finish"
  /\ Give(answerer[h].req, answerer[h].choice)
  /\ answerer' = [answerer EXCEPT ![h] = NoAnswer]
  /\ UNCHANGED <<stale, asker, canceller, record, failed>>

\* The permissions a question is about change while it waits.
PermissionsChange(r) ==
  /\ asker[r] = "wait" /\ r \notin stale
  /\ stale' = stale \cup {r}
  /\ UNCHANGED <<box, threads, record, failed>>

\* wait() with a validator: the asker itself resolves its request as denied,
\* and tries again while another resolver is committing.
DenyTake(r) ==
  /\ asker[r] = "wait" /\ r \in stale /\ r \notin done
  /\ Takes(r)
  /\ Committing(r)
  /\ AskerAt(r, "commit")
  /\ UNCHANGED <<requests, pending, done, answer, closed, stale, answerer, canceller,
                 record, failed>>

DenyCommit(r) ==
  /\ asker[r] = "commit"
  /\ Decide(r, "denied")
  /\ AskerAt(r, "finish")
  /\ UNCHANGED <<box, stale, answerer, canceller, failed>>

DenyCommitFails(r) ==
  /\ asker[r] = "commit"
  /\ PutBack(r)
  /\ AskerAt(r, "wait")
  /\ UNCHANGED <<stale, answerer, canceller>>

DenyGive(r) ==
  /\ asker[r] = "finish"
  /\ Give(r, "deny")
  /\ AskerAt(r, "wait")
  /\ UNCHANGED <<stale, answerer, canceller, record, failed>>

-----------------------------------------------------------------------------
(* cancel_pending() and close().                                           *)

\* A cancel_pending that goes through the collector's queue.
CancellableUnread == {r \in pending : state[r] = "pending"}

\* What cancel_pending cancels: every pending request, given to a collector or not.
Cancellable == {r \in requests : state[r] = "pending"}

\* A stop, or a close, begins; close() first refuses new requests.
CancelBegin(k) ==
  /\ canceller[k].at = "idle"
  /\ canceller' = [canceller EXCEPT ![k].at = "collect"]
  /\ \E closing \in BOOLEAN : closed' = (closed \/ closing)
  /\ UNCHANGED <<state, requests, pending, done, answer, stale, asker, answerer,
                 record, failed>>

\* The locked part: what is pending is cancelled and denied, what is being
\* committed is left to its resolver.
CancelCollect(k) ==
  LET items == Cancellable IN
  /\ canceller[k].at = "collect"
  /\ state' = [r \in Requests |-> IF r \in items THEN "cancelled" ELSE state[r]]
  /\ answer' = [r \in Requests |-> IF r \in items THEN "deny" ELSE answer[r]]
  /\ requests' = requests \ items
  /\ pending' = {}
  /\ canceller' = [canceller EXCEPT ![k] = [at |-> "wake", items |-> items]]
  /\ UNCHANGED <<done, closed, stale, asker, answerer, record, failed>>

\* After the lock, item by item: the row, whose failure is ignored, and the wake.
CancelWake(k) ==
  /\ canceller[k].at = "wake"
  /\ \E r \in canceller[k].items :
       /\ \/ Decide(r, "cancelled")
          \/ record' = record
       /\ done' = done \cup {r}
       /\ canceller' = [canceller EXCEPT ![k].items = @ \ {r}]
  /\ UNCHANGED <<state, requests, pending, answer, closed, stale, asker, answerer, failed>>

CancelDone(k) ==
  /\ canceller[k].at = "wake" /\ canceller[k].items = {}
  /\ canceller' = [canceller EXCEPT ![k].at = "idle"]
  /\ UNCHANGED <<box, stale, asker, answerer, record, failed>>

\* The session is opened by a new process: terminate_pending_interactions ends
\* the rows whose askers are gone, and the mailbox is empty.
Reopen ==
  /\ closed /\ \A r \in Requests : asker[r] \in {"idle", "returned", "raised"}
  /\ \A h \in Answerers : answerer[h].at = "idle"
  /\ \A k \in Cancellers : canceller[k].at = "idle"
  /\ record' = [r \in Requests |-> IF record[r] = "pending" THEN "cancelled" ELSE record[r]]
  /\ closed' = FALSE /\ requests' = {} /\ pending' = {}
  /\ UNCHANGED <<state, done, answer, stale, threads, failed>>

-----------------------------------------------------------------------------
AskerStep(r) ==
  \/ Record(r) \/ RecordFails(r) \/ Wake(r)
  \/ DenyTake(r) \/ DenyCommit(r) \/ DenyCommitFails(r) \/ DenyGive(r)

AnswererStep(h) == AnswerCommit(h) \/ AnswerCommitFails(h) \/ AnswerGive(h)

CancellerStep(k) == CancelCollect(k) \/ CancelWake(k) \/ CancelDone(k)

Next ==
  \/ \E r \in Requests : Ask(r) \/ PermissionsChange(r) \/ AskerStep(r)
  \/ \E h \in Answerers : AnswerTake(h) \/ AnswererStep(h)
  \/ \E k \in Cancellers : CancelBegin(k) \/ CancellerStep(k)
  \/ Poll
  \/ Reopen

Spec == Init /\ [][Next]_vars

\* Threads that have begun go on; nobody promises an answer, a stop or a close.
Fairness ==
  /\ \A r \in Requests : WF_vars(AskerStep(r))
  /\ \A h \in Answerers : WF_vars(AnswererStep(h))
  /\ \A k \in Cancellers : WF_vars(CancellerStep(k))

FairSpec == Spec /\ Fairness

-----------------------------------------------------------------------------
\* Once the mailbox is closed nobody waits for ever, whatever was registered,
\* answered or cancelled just before.  Left out are requests whose decision
\* could not be persisted while the close passed over them: they are pending
\* again in a mailbox that will never cancel them.
NobodyWaitsAfterClose ==
  \A r \in Requests : closed /\ asker[r] = "wait" ~> asker[r] # "wait" \/ r \in failed

\* Whoever answers first, and whatever a stop or changed permissions do at the
\* same time: the asker is never told the opposite of the decision on record.
\* (A question answered before its row was inserted leaves a row that stays
\* pending; one whose decision could not be persisted once is left out.)
ApprovalIsTheRecord ==
  \A r \in Requests \ failed : asker[r] = "returned" =>
    /\ record[r] = "approved" => answer[r] = "allow"
    /\ record[r] = "denied" => answer[r] = "deny"

=============================================================================

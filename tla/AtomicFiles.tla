----------------------------- MODULE AtomicFiles -----------------------------
(***************************************************************************)
(* What the permission stores promise about the files they share: units of *)
(* work run one at a time, a unit changes all of its files or none,        *)
(* whatever fails or dies, and who is told that it succeeded was not lied  *)
(* to.                                                                     *)
(***************************************************************************)
CONSTANTS Procs, Files, Values

VARIABLES
  content,   \* what each file holds
  owner,     \* the process inside a transaction, as a set
  work,      \* what it has prepared to write
  done,      \* processes whose unit of work has taken effect
  answer     \* what each process was last told

vars == <<content, owner, work, done, answer>>

Nothing == [f \in {} |-> f]

Init ==
  /\ content \in [Files -> Values]
  /\ owner = {} /\ done = {}
  /\ work = [p \in Procs |-> Nothing]
  /\ answer = [p \in Procs |-> "none"]

Enter(p) ==
  /\ owner = {} /\ owner' = {p}
  /\ UNCHANGED <<content, work, done, answer>>

\* A single file is written on its own.
Write(p) ==
  /\ p \in owner
  /\ \E f \in Files, v \in Values : content' = [content EXCEPT ![f] = v]
  /\ UNCHANGED <<work, done>>
  /\ owner' \in {owner, {}} /\ answer' \in {answer, [answer EXCEPT ![p] = "error"]}

\* A unit of work grows, and has no effect yet.
Prepare(p) ==
  /\ p \in owner /\ p \notin done
  /\ \E f \in Files, v \in Values :
       work' = [work EXCEPT ![p] = [g \in DOMAIN work[p] \cup {f} |->
                                      IF g = f THEN v ELSE work[p][g]]]
  /\ UNCHANGED <<content, owner, done, answer>>

Commit(p) ==
  /\ p \in owner /\ p \notin done
  /\ content' = [f \in Files |-> IF f \in DOMAIN work[p] THEN work[p][f] ELSE content[f]]
  /\ done' = done \cup {p}
  /\ UNCHANGED <<owner, work, answer>>

Acknowledge(p) ==
  /\ p \in done
  /\ done' = done \ {p} /\ work' = [work EXCEPT ![p] = Nothing]
  /\ answer' = [answer EXCEPT ![p] = "ok"]
  /\ UNCHANGED <<content, owner>>

\* The transaction is left: it is over, it failed, or its process died.
Leave(p) ==
  /\ p \in owner /\ owner' = {}
  /\ done' = done \ {p} /\ work' = [work EXCEPT ![p] = Nothing]
  /\ answer' \in {answer, [answer EXCEPT ![p] = "error"], [answer EXCEPT ![p] = "none"]}
  /\ UNCHANGED content

Next == \E p \in Procs : \/ Enter(p) \/ Write(p) \/ Prepare(p)
                         \/ Commit(p) \/ Acknowledge(p) \/ Leave(p)

Spec == Init /\ [][Next]_vars

=============================================================================

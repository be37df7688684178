---------------------------- MODULE RequestContext ----------------------------
(***************************************************************************)
(* What one request of the agent loop holds: the projection of the         *)
(* transcript that ContextBuilder makes for it and forgets                 *)
(* (application/agent/context.py).                                         *)
(*                                                                         *)
(* A message is its kind, its size and, for the result of load_skill, the  *)
(* retention key of the instruction.  Sizes stand for estimated tokens; a  *)
(* folded result has the size Short, and there is no shorter one.  Every   *)
(* agent has a compactor of its own, which serves one conversation.        *)
(***************************************************************************)
EXTENDS Naturals, Sequences, FiniteSets, FiniteSetsExt

CONSTANTS
  None,
  Skills,      \* retention keys
  Keyless,     \* stands for that of an instruction that has none
  KeepRecent,  \* keep_recent_tool_results
  Limit,       \* context_limit
  Watermark,   \* context_limit * context_watermark
  Fixed,       \* the system prompt, the schemas, reminders and output reserve
  Long,        \* the size of a long result
  Recalled,    \* the size of an episode recall, the optional reminder
  MaxMessages, \* bounds: messages of a transcript and calls of an answer
  MaxCalls

RequestContextAssumption ==
  /\ {KeepRecent, Limit, Watermark, Fixed, Long, Recalled, MaxCalls} \subseteq Nat \ {0}
  /\ Watermark <= Limit /\ Long > 1

VARIABLES
  transcript,  \* message_records of the session
  request,     \* the last request: [sent, folded, recall], or None
  announced,   \* _compact_announced of the agent's compactor
  said         \* history: announcements since a projection fit the watermark

vars == <<transcript, request, announced, said>>

Short   == 1
Text    == [kind |-> "text", size |-> Short, key |-> None]
Catalog == [kind |-> "catalog", size |-> Short, key |-> None]
Loaded  ==
  {[kind |-> "result", size |-> s, key |-> k] : s \in {Short, Long}, k \in Skills \union {Keyless}}
Answers == {[kind |-> "result", size |-> s, key |-> None] : s \in {Short, Long}} \union Loaded

\* A transcript of an older version may hold catalogs and recalls.
Init ==
  /\ transcript \in {<<Text>>, <<Catalog, Text>>}
  /\ request = None /\ announced = FALSE /\ said = 0

-----------------------------------------------------------------------------
(* ContextBuilder and ContextCompactor *)

\* Recalls and catalogs that were written stay out of requests.
Shown   == {i \in DOMAIN transcript : transcript[i].kind # "catalog"}
Results == {i \in Shown : transcript[i].kind = "result"}

\* An instruction without a key is its own.
SameKey(i, j) ==
  transcript[i].key \notin {None, Keyless} /\ transcript[i].key = transcript[j].key

\* The copies that were loaded first.
FirstCopies ==
  {i \in Results : transcript[i].key # None /\ ~\E j \in Results : j < i /\ SameKey(i, j)}

\* latest_instruction
Protected ==
  {i \in Results : transcript[i].key # None /\ ~\E j \in Results : j > i /\ SameKey(i, j)}

Recent == {i \in Results : Cardinality({j \in Results : j > i}) < KeepRecent}

Foldable == {i \in Results \ (Recent \union Protected) : transcript[i].size > Short}

Size(folded, recall) ==
  Fixed + recall
    + MapThenSumSet(LAMBDA i : IF i \in folded THEN Short ELSE transcript[i].size, Shown)

UnderWatermark(recall) == Size({}, recall) <= Watermark

Folded(recall) == IF UnderWatermark(recall) THEN {} ELSE Foldable

Over(recall) == Size(Folded(recall), recall) > Limit

\* on_compact is called once for a crossing of the watermark.
Announces(recall, was) == ~UnderWatermark(recall) /\ Foldable # {} /\ ~was

AnnouncedAfter(recall, was) == ~UnderWatermark(recall) /\ (was \/ Foldable # {})

SaidAfter(recall, was, n) ==
  IF UnderWatermark(recall) THEN 0 ELSE IF Announces(recall, was) THEN n + 1 ELSE n

-----------------------------------------------------------------------------
(* The loop *)

Idle == request # None => ~request.sent

\* A user writes, also after a turn whose request was refused.
UserText ==
  /\ Idle /\ Len(transcript) < MaxMessages
  /\ transcript' = Append(transcript, Text)
  /\ request' = None
  /\ UNCHANGED <<announced, said>>

\* build: the recall is left out when the request is too large with it, which
\* takes a second projection.
LeavesOut(recall) == recall # 0 /\ Over(recall)

Kept(recall) == IF LeavesOut(recall) THEN 0 ELSE recall

\* _run_turn: the projection is made, and announced when it folds; a request that
\* is too large even so is not sent.
Request ==
  /\ request = None
  /\ \E recall \in {0, Recalled} :
       LET kept == Kept(recall)
           once == AnnouncedAfter(recall, announced)
           told == SaidAfter(recall, announced, said)
       IN  /\ request' = [sent |-> ~Over(kept), folded |-> Folded(kept),
                          recall |-> kept, omitted |-> LeavesOut(recall)]
           /\ announced' = IF LeavesOut(recall) THEN AnnouncedAfter(kept, once) ELSE once
           /\ said' = IF LeavesOut(recall) THEN SaidAfter(kept, once, told) ELSE told
  /\ UNCHANGED transcript

\* The model answers, or calls tools whose results are recorded after what it
\* wrote; or the call fails or is stopped before anything was written.
Answer ==
  /\ ~Idle
  /\ \/ UNCHANGED transcript
     \/ \E n \in 0..MaxCalls : \E results \in [1..n -> Answers] :
          /\ Len(transcript) + 1 + n <= MaxMessages
          /\ transcript' = Append(transcript, Text) \o results
  /\ request' = None
  /\ UNCHANGED <<announced, said>>

\* The session is loaded into another process.
Restart ==
  /\ Idle
  /\ request' = None /\ announced' = FALSE /\ said' = 0
  /\ UNCHANGED transcript

Next == UserText \/ Request \/ Answer \/ Restart

Spec == Init /\ [][Next]_vars

-----------------------------------------------------------------------------
(* Properties *)

TypeOK ==
  /\ \A i \in DOMAIN transcript : transcript[i] \in {Text, Catalog} \union Answers
  /\ Len(transcript) <= MaxMessages
  /\ request # None =>
       /\ request \in [sent : BOOLEAN, folded : SUBSET Results, recall : {0, Recalled},
                       omitted : BOOLEAN]
  /\ announced \in BOOLEAN /\ said \in Nat

\* A skill that was loaded is in every later request: of each retention key the
\* newest text in full, and "the latest full text remains in this request" is
\* said of a copy only where it does (docs/skills-and-knowledge.md).
InstructionsStand ==
  request # None =>
    \A i \in Results : transcript[i].key # None =>
      \E j \in Results : (j = i \/ (j > i /\ SameKey(i, j))) /\ j \notin request.folded

\* What the last calls returned is shown as it was.
RecentResultsStand ==
  request # None =>
    \A i \in request.folded : Cardinality({j \in Results : j > i}) >= KeepRecent

\* A request that is sent fits, and one is refused only when it would not fit
\* without its recall and with every result folded that may be.
RefusedOnlyWhenFull ==
  request # None =>
    /\ request.sent => Size(request.folded, request.recall) <= Limit
    /\ ~request.sent => Size(Foldable, 0) > Limit
    /\ request.omitted => Size(Foldable, Recalled) > Limit

\* The user is told once that older results are being folded.
SaidOncePerCrossing == said <= 1

RequestIsWhole ==
  InstructionsStand /\ RecentResultsStand /\ RefusedOnlyWhenFull /\ SaidOncePerCrossing

=============================================================================

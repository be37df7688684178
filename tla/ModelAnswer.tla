------------------------------ MODULE ModelAnswer ------------------------------
(***************************************************************************)
(* One answer of a model: LLMClient makes the request, reads the stream of *)
(* the provider and puts the calls of tools together from their fragments  *)
(* (infrastructure/llm/llm.py, model_adapters.py), the agent shows what    *)
(* arrives, stops reading when the user stops the turn, and accepts or     *)
(* refuses what came (application/agent/runner.py, parse.py).              *)
(*                                                                         *)
(* The provider is external.  It means to send the text 1..n and calls     *)
(* whose arguments are the texts 1..k; a fragment brings some more of a    *)
(* call in the shape that this provider gives its fragments.               *)
(***************************************************************************)
EXTENDS Naturals, Sequences, FiniteSets, Functions, FiniteSetsExt

CONSTANTS
  None,
  Shapes,      \* of ShapesKnown, those that are tried
  MaxAttempts, \* max_attempts
  MaxText,     \* bounds: pieces of text, calls, length of their arguments
  MaxCalls,
  MaxArgs

ShapesKnown ==
  {"indexed",    \* index always; id and name once; the arguments piece by piece
   "repeating",  \* index, id and name always; piece by piece
   "growing",    \* index always; the arguments so far, with each fragment longer
   "bare",       \* no index; id and name once; one call after the other
   "named",      \* no index; id and name always
   "responses"}  \* the Responses API: calls come with the finished response

ModelAnswerAssumption ==
  /\ Shapes \subseteq ShapesKnown /\ MaxAttempts \in Nat \ {0}
  /\ {MaxText, MaxCalls, MaxArgs} \subseteq Nat

VARIABLES
  plan,       \* [shape, text, calls]: what the provider means to send
  phase,      \* of the request
  tries,      \* requests that failed
  sent,       \* [text, calls]: how much of it was sent; a call not begun is None
  got,        \* tool_calls: what was put together, by index
  shown,      \* pieces of text on the screen
  stop,       \* the turn was stopped
  connection, \* of the response
  usage,      \* the usage: None, then "arrived", then "counted"
  answer      \* what became of it: [kind, text, calls]

vars == <<plan, phase, tries, sent, got, shown, stop, connection, usage, answer>>

UpTo(n) == [k \in 1..n |-> k]

Id(i)   == <<"id", i>>
Name(i) == <<i>>

NoAnswer == [kind |-> None, text |-> <<>>, calls |-> <<>>]

Init ==
  /\ \E n \in 0..MaxCalls :
       plan \in [shape : Shapes, text : 0..MaxText, calls : [1..n -> 0..MaxArgs]]
  /\ phase = "create" /\ tries = 0
  /\ sent = [text |-> 0, calls |-> [i \in DOMAIN plan.calls |-> None]]
  /\ got = <<>> /\ shown = <<>>
  /\ stop = FALSE /\ connection = "none" /\ usage = None
  /\ answer = NoAnswer

-----------------------------------------------------------------------------
(* merge_tool_call_delta *)

Starts(piece, text) == Len(piece) >= Len(text) /\ SubSeq(piece, 1, Len(text)) = text

\* A text that is sent again counts as more of it.
PieceAppended(current, piece, repeated) == current \o piece

\* _merge_piece
Piece(current, piece, repeated) ==
  IF piece = <<>> \/ (repeated /\ piece = current) THEN current
  ELSE IF Len(piece) > Len(current) /\ Starts(piece, current) THEN piece
  ELSE current \o piece

NoCall == [id |-> None, name |-> <<>>, arguments |-> <<>>]

\* A fragment without an index belongs to the call with its id, begins a new one,
\* or goes on with the last.
Index(calls, f) ==
  LET known == {k \in DOMAIN calls : f.id # None /\ calls[k].id = f.id}
  IN  IF f.index # None THEN f.index
      ELSE IF known # {} THEN Min(known)
      ELSE IF f.id # None \/ calls = <<>> THEN Cardinality(DOMAIN calls) + 1
      ELSE Max(DOMAIN calls)

Merged(calls, f) ==
  LET k   == Index(calls, f)
      old == IF k \in DOMAIN calls THEN calls[k] ELSE NoCall
      new == [id        |-> IF old.id = None THEN f.id ELSE old.id,
              name      |-> Piece(old.name, f.name, TRUE),
              arguments |-> Piece(old.arguments, f.arguments, FALSE)]
  IN  [j \in DOMAIN calls \union {k} |-> IF j = k THEN new ELSE calls[j]]

\* The calls in the order of their indices.
InOrder(calls) ==
  [n \in 1..Cardinality(DOMAIN calls) |->
     calls[CHOOSE k \in DOMAIN calls : Cardinality({j \in DOMAIN calls : j <= k}) = n]]

Planned ==
  [i \in DOMAIN plan.calls |->
     [id |-> Id(i), name |-> Name(i), arguments |-> UpTo(plan.calls[i])]]

-----------------------------------------------------------------------------
(* call_with_retry: only the request itself is tried again *)

Raise ==
  /\ phase' = "over"
  /\ connection' = IF connection = "open" THEN "closed" ELSE connection
  /\ usage' = IF usage = None THEN None ELSE "counted"
  /\ answer' = [NoAnswer EXCEPT !.kind = IF stop THEN "stopped" ELSE "failed"]

Create ==
  /\ phase = "create"
  /\ phase' = "stream" /\ connection' = "open"
  /\ UNCHANGED <<plan, tries, sent, got, shown, stop, usage, answer>>

CreateFails ==
  /\ phase = "create"
  /\ tries' = tries + 1
  /\ \/ tries + 1 < MaxAttempts /\ UNCHANGED <<phase, connection, usage, answer>>
     \/ Raise
  /\ UNCHANGED <<plan, sent, got, shown, stop>>

-----------------------------------------------------------------------------
(* The stream *)

\* The user stops the turn.
Stop ==
  /\ ~stop /\ phase # "over"
  /\ stop' = TRUE
  /\ UNCHANGED <<plan, phase, tries, sent, got, shown, connection, usage, answer>>

\* A piece of text is shown; after a stop it is dropped, the stream is closed,
\* and what was shown is what the model said.
TextArrives ==
  /\ phase = "stream" /\ sent.text < plan.text
  /\ sent' = [sent EXCEPT !.text = @ + 1]
  /\ IF stop
       THEN /\ phase' = "over" /\ connection' = "closed"
            /\ answer' = [NoAnswer EXCEPT !.kind = "cancelled", !.text = shown]
            /\ UNCHANGED shown
       ELSE /\ shown' = Append(shown, sent.text + 1)
            /\ UNCHANGED <<phase, connection, answer>>
  /\ UNCHANGED <<plan, tries, got, stop, usage>>

\* The fragment in which call i goes on to k characters.
Fragment(i, k) ==
  LET before == IF sent.calls[i] = None THEN 0 ELSE sent.calls[i]
      first  == sent.calls[i] = None
      always == plan.shape \in {"repeating", "named"}
  IN  [index     |-> IF plan.shape \in {"bare", "named"} THEN None ELSE i,
       id        |-> IF first \/ always THEN Id(i) ELSE None,
       name      |-> IF first \/ always THEN Name(i) ELSE <<>>,
       arguments |-> IF plan.shape = "growing" THEN UpTo(k) ELSE SubSeq(UpTo(k), before + 1, k)]

\* A fragment raises no event: a stop is not noticed with it.  Without an index
\* calls begin in their order, and without id they come one after the other.
CallArrives(i) ==
  /\ phase = "stream" /\ plan.shape # "responses" /\ i \in DOMAIN plan.calls
  /\ plan.shape \in {"bare", "named"} => \A j \in 1..i-1 : sent.calls[j] # None
  /\ plan.shape = "bare" => \A j \in 1..i-1 : sent.calls[j] = plan.calls[j]
  /\ \E k \in 0..plan.calls[i] :
       /\ sent.calls[i] # None => sent.calls[i] < k
       /\ got' = Merged(got, Fragment(i, k))
       /\ sent' = [sent EXCEPT !.calls[i] = k]
  /\ UNCHANGED <<plan, phase, tries, shown, stop, connection, usage, answer>>

UsageArrives ==
  /\ phase = "stream" /\ usage = None
  /\ usage' = "arrived"
  /\ UNCHANGED <<plan, phase, tries, sent, got, shown, stop, connection, answer>>

AllSent ==
  /\ sent.text = plan.text
  /\ plan.shape # "responses" => sent.calls = plan.calls

\* parse_turn: calls, or a text that is not empty.
Kind(calls, text) ==
  IF calls # <<>> THEN "calls" ELSE IF text # <<>> THEN "final" ELSE "invalid"

\* The provider says that the answer is complete.  A complete one is kept, also
\* after a stop.
Completes ==
  /\ phase = "stream" /\ AllSent
  /\ LET calls == IF plan.shape = "responses" THEN Planned ELSE InOrder(got)
         text  == UpTo(plan.text)
     IN  answer' = [kind |-> Kind(calls, text), text |-> text, calls |-> calls]
  /\ usage' = IF usage = None THEN None ELSE "counted"
  /\ phase' = "over" /\ connection' = "closed"
  /\ UNCHANGED <<plan, tries, sent, got, shown, stop>>

\* The stream ends early: cut at a limit, or without a word.  What arrived is
\* refused; the Responses API raises.
EndsEarly ==
  /\ phase = "stream" /\ plan.shape # "responses"
  /\ answer' = [kind |-> "invalid", text |-> shown, calls |-> InOrder(got)]
  /\ usage' = IF usage = None THEN None ELSE "counted"
  /\ phase' = "over" /\ connection' = "closed"
  /\ UNCHANGED <<plan, tries, sent, got, shown, stop>>

\* The connection breaks, or a response failed: it is not requested again.
Breaks ==
  /\ phase = "stream"
  /\ Raise
  /\ UNCHANGED <<plan, tries, sent, got, shown, stop>>

Next ==
  \/ Create \/ CreateFails \/ Stop \/ TextArrives \/ UsageArrives
  \/ Completes \/ EndsEarly \/ Breaks
  \/ \E i \in 1..MaxCalls : CallArrives(i)

Spec == Init /\ [][Next]_vars

-----------------------------------------------------------------------------
(* Properties *)

TypeOK ==
  /\ plan.shape \in Shapes /\ plan.text \in 0..MaxText
  /\ phase \in {"create", "stream", "over"} /\ tries \in 0..MaxAttempts
  /\ DOMAIN got \subseteq 1..MaxCalls
  /\ stop \in BOOLEAN /\ connection \in {"none", "open", "closed"}
  /\ usage \in {None, "arrived", "counted"}
  /\ answer.kind \in {None, "calls", "final", "invalid", "cancelled", "stopped", "failed"}

\* The calls that are executed are those the model made, whatever the shape of
\* their fragments and however they come between each other.
CallsAreTheModels == answer.kind = "calls" => answer.calls = Planned

\* "Keep what was already shown, so history matches the screen": what is recorded
\* of an answer is what was shown of it, once (no retry shows a text again).
HistoryMatchesScreen ==
  /\ shown = UpTo(Len(shown))
  /\ answer.kind \in {"calls", "final", "cancelled"} => answer.text = shown

\* A response is closed, and a usage that arrived is counted, however it ends
\* but one: an answer the user cut short.
EndsClean ==
  phase = "over" =>
    /\ connection # "open"
    /\ usage = "arrived" => answer.kind = "cancelled"

AnswerIsSound == CallsAreTheModels /\ HistoryMatchesScreen /\ EndsClean

=============================================================================

------------------------------ MODULE ToolOffers ------------------------------
(***************************************************************************)
(* Which tools a request offers.  Most tools of an agent are deferred:     *)
(* their schemas are sent once tool_search has activated them, at most     *)
(* MaxActive at a time, those used last (infrastructure/tools/             *)
(* tool_search.py, Session.touch_active_deferred_tool).  The mode of the   *)
(* session hides tools (application/workspace/modes.py), and MCP servers,  *)
(* and with them tools, come and go between processes.                     *)
(***************************************************************************)
EXTENDS Naturals, Sequences, FiniteSets, SequencesExt

CONSTANTS
  Deferred,     \* tools with defer_to_model
  AskTools,     \* those of them that Ask and Plan mode leave visible
  MaxActive,    \* MAX_ACTIVE_DEFERRED_TOOLS
  MaxCalls,     \* bounds: calls of an answer, loads of the session
  MaxRestarts

ToolOffersAssumption ==
  /\ MaxActive \in Nat \ {0} /\ MaxCalls \in Nat \ {0} /\ MaxRestarts \in Nat
  /\ AskTools \subseteq Deferred

VARIABLES
  active,    \* active_deferred_tools, the one used last at the end
  known,     \* the deferred tools of this process: MCP servers come and go
  mode,      \* "agent", or a mode with a ceiling
  phase,     \* where the round is
  round,     \* [offers, calls]: the schemas sent, the calls left
  recency,   \* history: deferred tools by their last use or find
  restarts

vars == <<active, known, mode, phase, round, recency, restarts>>

Search   == "tool_search"
Reader   == "read_file"
NoRound  == [offers |-> {}, calls |-> <<>>]

Init ==
  /\ active = <<>> /\ known = Deferred
  /\ mode = "agent"
  /\ phase = "idle" /\ round = NoRound
  /\ recency = <<>> /\ restarts = 0

\* tool_visible
Visible(t) == mode = "agent" \/ t \in AskTools \union {Search, Reader}

\* visible_schema_tools and encode_tools, on the list as it is now.
Offers == {t \in Range(active) \union {Search, Reader} : Visible(t)}

Without(list, set) == SelectSeq(list, LAMBDA x : x \notin set)
Moved(list, t)     == IF t \in Range(list) THEN Append(Without(list, {t}), t) ELSE list

-----------------------------------------------------------------------------
(* A round of the loop *)

Request ==
  /\ phase = "idle"
  /\ round' = [round EXCEPT !.offers = Offers]
  /\ phase' = "asked"
  /\ UNCHANGED <<active, known, mode, recency, restarts>>

\* A use does not count.
Untouched(list, t) == list

\* touch_active_deferred_tool
Touched(list, t) == Moved(list, t)

\* The calls of an answer are looked up in turn; the first that was not offered
\* ends the answer as an invalid one.
Answer ==
  /\ phase = "asked"
  /\ \E n \in 0..MaxCalls :
     \E calls \in [1..n -> Deferred \union {Search, Reader}] :
       LET bad  == {k \in 1..n : calls[k] \notin round.offers}
           good == IF bad = {} THEN n ELSE (CHOOSE k \in bad : \A l \in bad : k <= l) - 1
           used == [k \in 1..good |-> calls[k]]
       IN  /\ active'  = FoldLeft(Touched, active, used)
           /\ recency' = FoldLeft(Moved, recency, used)
           /\ round' = [round EXCEPT !.calls = IF bad = {} THEN used ELSE <<>>]
  /\ phase' = "tools"
  /\ UNCHANGED <<known, mode, restarts>>

\* A search finds tools in the order of their scores: those already active and
\* new ones, of which it takes at most MaxActive.  The result names what it
\* evicted.
Found(list, found) ==
  LET already == SelectSeq(found, LAMBDA t : t \in Range(list))
      new     == SelectSeq(found, LAMBDA t : t \notin Range(list))
      taken   == SubSeq(new, 1, IF Len(new) < MaxActive THEN Len(new) ELSE MaxActive)
  IN  already \o taken

Kept(list) ==
  SubSeq(list, IF Len(list) > MaxActive THEN Len(list) - MaxActive + 1 ELSE 1, Len(list))

RunSearch ==
  /\ phase = "tools" /\ round.calls # <<>> /\ Head(round.calls) = Search
  /\ \E found \in SetToAllKPermutations(known) :
       LET hits == Found(active, found)
           list == Without(active, Range(hits)) \o hits
       IN  /\ active' = Kept(list)
           /\ recency' = Without(recency, Range(hits)) \o hits
  /\ round' = [round EXCEPT !.calls = Tail(@)]
  /\ UNCHANGED <<known, mode, phase, restarts>>

RunOther ==
  /\ phase = "tools" /\ round.calls # <<>> /\ Head(round.calls) # Search
  /\ round' = [round EXCEPT !.calls = Tail(@)]
  /\ UNCHANGED <<active, known, mode, phase, recency, restarts>>

EndRound ==
  /\ phase = "tools" /\ round.calls = <<>>
  /\ phase' = "idle" /\ round' = NoRound
  /\ UNCHANGED <<active, known, mode, recency, restarts>>

-----------------------------------------------------------------------------
(* Around it *)

\* A front end sets the mode at any time.
SetMode ==
  /\ mode' = IF mode = "agent" THEN "ask" ELSE "agent"
  /\ UNCHANGED <<active, known, phase, round, recency, restarts>>

\* prepare_model_tools of the process that loads the session
Restart ==
  /\ phase = "idle" /\ restarts < MaxRestarts
  /\ known' \in SUBSET Deferred
  /\ active' = Kept(SelectSeq(active, LAMBDA t : t \in known'))
  /\ recency' = active'
  /\ restarts' = restarts + 1
  /\ UNCHANGED <<mode, phase, round>>

Next ==
  Request \/ Answer \/ RunSearch \/ RunOther \/ EndRound
    \/ SetMode \/ Restart

Spec == Init /\ [][Next]_vars

-----------------------------------------------------------------------------
(* Properties *)

TypeOK ==
  /\ active \in Seq(known) /\ recency \in Seq(Deferred)
  /\ known \subseteq Deferred
  /\ mode \in {"agent", "ask"}
  /\ phase \in {"idle", "asked", "tools"}
  /\ round.offers \subseteq Deferred \union {Search, Reader}

\* The active tools are the MaxActive ones used or found last, however searches,
\* uses, evictions and loads of the session follow each other: what a search has
\* found is offered by the next request, and a tool in use is not evicted.
ActiveAreTheLastUsed ==
  active = SubSeq(recency, Len(recency) - Len(active) + 1, Len(recency))
    /\ Len(active) = IF Len(recency) < MaxActive THEN Len(recency) ELSE MaxActive

=============================================================================

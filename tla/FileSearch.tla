------------------------------- MODULE FileSearch -------------------------------
(***************************************************************************)
(* One call of grep: a ripgrep that lists the files below a directory,     *)
(* the permission that each of them must pass, and for every batch a       *)
(* second ripgrep that searches it, while the tree changes, the user       *)
(* cancels, time runs out or the permission is taken back                  *)
(* (infrastructure/tools/file/search.py, infrastructure/runtime/           *)
(* authorized.py and local.py).  The generators are one thread, and one    *)
(* step of it here is what it does for one file or one match; the ripgreps *)
(* are processes of their own, the second ahead of who reads its output.   *)
(***************************************************************************)
EXTENDS Naturals, FiniteSets

CONSTANTS
  Files,      \* files below the directory
  Hits,       \* those that match, once each
  Nameless,   \* files whose names are no UTF-8 text
  BatchMax,   \* files that one ripgrep searches (128)
  MaxResults, \* max_results
  MaxChanges  \* bound: changes of the tree

FileSearchAssumption ==
  Hits \union Nameless \subseteq Files /\ {BatchMax, MaxResults} \subseteq Nat \ {0} /\ MaxChanges \in Nat

VARIABLES
  place,    \* where the name of each file leads: "in" the grant, "out" of it, "gone"
  moved,    \* history: files that changed since the call began
  signal,   \* what the turn or the clock says: "go", "cancelled", "late", "revoked"
  pc,       \* "list", "find", "close", "over"
  lister,   \* the ripgrep of iter_search_candidates: "off", "on", "ended", "closed"
  finder,   \* that of search_files
  unlisted, \* files the lister has yet to name
  batch,    \* files collected for the finder, or that it has yet to search
  printed,  \* matches that the finder has written and that were not read yet
  bad,      \* the finder met a file it could not read
  matches,  \* what was found
  result    \* [ok, truncated] of the call

vars == <<place, moved, signal, pc, lister, finder, unlisted, batch, printed, bad, matches,
          result>>
tree == <<place, moved>>

Pending == [ok |-> FALSE, truncated |-> FALSE]

Init ==
  /\ place \in [Files -> {"in", "out"}] /\ moved = {}
  /\ signal = "go" /\ pc = "list" /\ lister = "on" /\ finder = "off"
  /\ unlisted = Files /\ batch = {} /\ printed = {} /\ bad = FALSE /\ matches = {}
  /\ result = Pending

-----------------------------------------------------------------------------
(* The surroundings *)

\* A file is deleted, or its name becomes a link elsewhere, or comes back.
Change(f) ==
  /\ pc # "over" /\ Cardinality(moved) < MaxChanges
  /\ place' \in {[place EXCEPT ![f] = p] : p \in {"in", "out", "gone"} \ {place[f]}}
  /\ moved' = moved \union {f}
  /\ UNCHANGED <<signal, pc, lister, finder, unlisted, batch, printed, bad, matches, result>>

\* The turn is cancelled, 20 seconds are over, or the grant is not valid any more.
Interrupt ==
  /\ signal = "go" /\ pc # "over"
  /\ signal' \in {"cancelled", "late", "revoked"}
  /\ UNCHANGED <<tree, pc, lister, finder, unlisted, batch, printed, bad, matches, result>>

\* The finder reads a file where its name leads now, and writes what matches.
FindOne(f) ==
  /\ pc = "find" /\ finder = "on" /\ f \in batch
  /\ batch' = batch \ {f}
  /\ bad' = (bad \/ place[f] = "gone")
  /\ printed' = IF f \in Hits /\ place[f] # "gone" THEN printed \union {f} ELSE printed
  /\ UNCHANGED <<tree, signal, pc, lister, finder, unlisted, matches, result>>

-----------------------------------------------------------------------------
(* The pipeline *)

Raise == pc' = "close" /\ result' = Pending

\* _check_search_controls asks whether to go on before each wait for output; what
\* was read before is still used.
Halted == signal \in {"cancelled", "late"}

\* A grant that is not valid refuses a path as one outside of it.
GateQuietly(f) == IF place[f] = "out" \/ signal = "revoked" THEN "skip" ELSE "pass"

\* AuthorizedExecution._target: a path outside is skipped, but a grant that is
\* not valid any more is an error of its own (PermissionConflict).  The path of
\* a file that is gone still lies where its name says.
Gate(f) ==
  IF signal = "revoked" THEN "raise" ELSE IF place[f] = "out" THEN "skip" ELSE "pass"

\* The lister names a file that is there.  One that was removed is not named,
\* or was before: then it passes the gate, and metadata() sees that it is gone.
ListOne(f) ==
  /\ pc = "list" /\ lister = "on" /\ Cardinality(batch) < BatchMax
  /\ f \in unlisted
  /\ unlisted' = unlisted \ {f}
  /\ \/ place[f] = "gone" /\ UNCHANGED <<pc, batch, result>>
     \/ Gate(f) = "raise" /\ Raise /\ UNCHANGED batch
     \/ Gate(f) = "skip" /\ UNCHANGED <<pc, batch, result>>
     \/ /\ Gate(f) = "pass" /\ place[f] # "gone"
        /\ batch' = batch \union {f}
        /\ UNCHANGED <<pc, result>>
  /\ UNCHANGED <<tree, signal, lister, finder, printed, bad, matches>>

\* It has named all; or it failed, or its directory did not pass the gate.
ListerEnds ==
  /\ pc = "list" /\ lister = "on"
  /\ \/ unlisted = {} /\ lister' = "ended" /\ UNCHANGED <<pc, result>>
     \/ lister' = "ended" /\ Raise
  /\ UNCHANGED <<tree, signal, finder, unlisted, batch, printed, bad, matches>>

\* The batch is full, or the lister has no more; no ripgrep to start is an error.
StartFinder ==
  /\ pc = "list" /\ batch # {}
  /\ lister = "ended" \/ Cardinality(batch) = BatchMax
  /\ \/ pc' = "find" /\ finder' = "on" /\ bad' = FALSE /\ UNCHANGED result
     \/ Raise /\ UNCHANGED <<finder, bad>>
  /\ UNCHANGED <<tree, signal, lister, unlisted, batch, printed, matches>>

NoMore ==
  /\ pc = "list" /\ lister = "ended" /\ batch = {}
  /\ pc' = "close" /\ result' = [ok |-> TRUE, truncated |-> FALSE]
  /\ UNCHANGED <<tree, signal, lister, finder, unlisted, batch, printed, bad, matches>>

\* _parse_rg_json_matches: a match whose path is not given as text is none.
Parsed(f) == f \notin Nameless

\* A match must pass again, as its path is when the match is read.
TakeMatch(f) ==
  /\ pc = "find" /\ f \in printed
  /\ printed' = printed \ {f}
  /\ \/ ~Parsed(f) /\ UNCHANGED <<pc, matches, result>>
     \/ Parsed(f) /\ Gate(f) = "raise" /\ Raise /\ UNCHANGED matches
     \/ Parsed(f) /\ Gate(f) = "skip" /\ UNCHANGED <<pc, matches, result>>
     \/ /\ Parsed(f) /\ Gate(f) = "pass" /\ signal # "cancelled"
        /\ matches' = matches \union {f}
        /\ IF Cardinality(matches') >= MaxResults
             THEN pc' = "close" /\ result' = [ok |-> TRUE, truncated |-> TRUE]
             ELSE UNCHANGED <<pc, result>>
  /\ UNCHANGED <<tree, signal, lister, finder, unlisted, batch, bad>>

\* Exit code 2, when a file could not be read or the pattern is no regular
\* expression, is an error of the whole search.
FinderEnds ==
  /\ pc = "find" /\ finder = "on" /\ batch = {} /\ printed = {}
  /\ finder' = "closed"
  /\ \/ ~bad /\ pc' = "list" /\ UNCHANGED result
     \/ Raise
  /\ UNCHANGED <<tree, signal, lister, unlisted, batch, printed, bad, matches>>

Halt ==
  /\ pc \in {"list", "find"} /\ Halted
  /\ Raise
  /\ UNCHANGED <<tree, signal, lister, finder, unlisted, batch, printed, bad, matches>>

\* The generator that raised closes what it started; grep closes both.
Closed == finder' = "closed" /\ lister' = "closed"

Close ==
  /\ pc = "close"
  /\ Closed
  /\ pc' = "over"
  /\ UNCHANGED <<tree, signal, unlisted, batch, printed, bad, matches, result>>

Next ==
  \/ Interrupt \/ ListerEnds \/ StartFinder \/ NoMore \/ FinderEnds \/ Halt \/ Close
  \/ \E f \in Files : Change(f) \/ ListOne(f) \/ FindOne(f) \/ TakeMatch(f)

Spec == Init /\ [][Next]_vars

-----------------------------------------------------------------------------
(* Properties *)

TypeOK ==
  /\ place \in [Files -> {"in", "out", "gone"}]
  /\ signal \in {"go", "cancelled", "late", "revoked"}
  /\ pc \in {"list", "find", "close", "over"}
  /\ {lister, finder} \subseteq {"off", "on", "ended", "closed"}
  /\ unlisted \union batch \union printed \union matches \union moved \subseteq Files
  /\ Cardinality(batch) <= BatchMax /\ Cardinality(matches) <= MaxResults

\* A search that succeeds has every match of the files that stayed where they
\* were and that can be named, or says that there may be more; and it has nothing
\* else.
WholeOrSaid ==
  /\ pc = "over" /\ result.ok /\ ~result.truncated =>
       \A f \in Hits \ (moved \union Nameless) : place[f] = "in" => f \in matches
  /\ \A f \in matches \ moved : place[f] = "in"

\* However it ends, no ripgrep goes on.
NoRipgrepLeft == pc = "over" => lister = "closed" /\ finder = "closed"

SearchIsWhole == WholeOrSaid /\ NoRipgrepLeft

=============================================================================

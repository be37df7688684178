----------------------------- MODULE SemanticMemory -----------------------------
(***************************************************************************)
(* The semantic memories: one Markdown file per record in a directory that *)
(* every session of every process shares, behind a lock of the directory   *)
(* (infrastructure/persistence/memory/semantic*.py), the service of each   *)
(* session over it (application/memory/semantic_ops.py), what a turn       *)
(* recalls (recall_ops.py, manager.py) and what its end extracts           *)
(* (extract.py, domain/policy/memory/semantic.py).                         *)
(*                                                                         *)
(* Two hands write in a session: its agent, whose tools run between two    *)
(* requests to the model, and the memory page, whose requests run at any   *)
(* time.  Both are editors: they read a record, and update the revision    *)
(* they have read.  The extraction is not: it shows a manifest to a model, *)
(* and writes when the answer comes.                                       *)
(***************************************************************************)
EXTENDS Naturals, FiniteSets, Functions

CONSTANTS
  Sessions,
  Projects,
  ProjectOf,    \* the project of each session
  Ids,          \* ids of memories; a random id is never used again
  Texts,        \* contents that the guardrails accept
  Secrets,      \* contents that look like a credential
  None,
  MaxRevision,  \* bound: revisions of one record
  MaxTurns,     \* bound: turns of each session
  MaxWrites     \* bound: writes that the service of each session sees succeed

SemanticMemoryAssumption ==
  /\ ProjectOf \in [Sessions -> Projects]
  /\ Texts \cap Secrets = {} /\ None \notin Texts \cup Secrets
  /\ "global" \notin Projects
  /\ MaxTurns \in [Sessions -> Nat] /\ MaxWrites \in [Sessions -> Nat] /\ MaxRevision \in Nat

VARIABLES
  records,     \* the files
  generation,  \* writes that the service of a session has seen succeed
  held,        \* the revision that an editor has read
  phase,       \* where the turn of a session is
  turns,       \* turns begun
  cache,       \* the recall of the turn
  offered,     \* the records that a selection, or an extraction, offers to a model
  known        \* history: the last revision that a session wrote in this turn, outside a selection

vars == <<records, generation, held, phase, turns, cache, offered, known>>

Owners  == Projects \cup {"global"}
Editors == Sessions \X {"agent", "page"}
Phases  == {"idle", "turn", "selecting", "ended", "extracting", "writing"}

\* `cites` is the text that the source refs are about.
Records ==
  [owner: Owners, active: BOOLEAN, text: Texts, rev: 1..MaxRevision, cites: Texts \cup {None}]

NoRecord(rev) == [owner |-> "global", active |-> FALSE, text |-> None, rev |-> rev, cites |-> None]
Unborn  == NoRecord(0)
Deleted == NoRecord(MaxRevision + 1)

IsRecord(r) == r.rev \in 1..MaxRevision

Living == {id \in Ids : IsRecord(records[id])}

Contents == Texts \cup Secrets

Init ==
  /\ records = [id \in Ids |-> Unborn]
  /\ generation = [s \in Sessions |-> 0]
  /\ held = [e \in Editors |-> None]
  /\ phase = [s \in Sessions |-> "idle"]
  /\ turns = [s \in Sessions |-> 0]
  /\ cache = [s \in Sessions |-> None]
  /\ offered = [s \in Sessions |-> [id \in {} |-> 0]]
  /\ known = [s \in Sessions |-> [id \in Ids |-> 0]]

-----------------------------------------------------------------------------
(* The store. *)

\* record_in_read_scope: whether a read of this scope from this project may see the record.
InScope(r, scope, project) ==
  CASE scope = "global"          -> r.owner = "global"
    [] scope = "current_project" -> r.owner = project
    [] scope = "all_projects"    -> r.owner # "global"
    [] scope = "applicable"      -> r.owner \in {"global", project}

Scopes == {"global", "current_project", "all_projects", "applicable"}

\* list: the active records of a scope, each with the revision that is read.
Listed(scope, project) ==
  [id \in {i \in Living : records[i].active /\ InScope(records[i], scope, project)}
     |-> records[id].rev]

\* The file is replaced, then MEMORY.md, which is for people, is rebuilt.  When
\* the rebuild fails the caller gets an error; the file has changed all the same.
Store(id, r) == records' = [records EXCEPT ![id] = r]

\* Mutant of Touch: the write is not counted.
Untouched(s) ==
  /\ generation[s] < MaxWrites[s]
  /\ UNCHANGED generation

\* A write that is reported as done.  The cached recall of the session is now old.
Touch(s) ==
  /\ generation[s] < MaxWrites[s]
  /\ generation' = [generation EXCEPT ![s] = @ + 1]

\* What the session has been told of its write.  A selection that is under way
\* has read the files before, and stamps what it read with the generation after.
Told(s, id, rev) ==
  known' = IF phase[s] = "selecting" THEN known ELSE [known EXCEPT ![s][id] = rev]

\* The end of a write: told and counted, or an error.
Answer(e, id, r, rebuilt) ==
  LET s == e[1] IN
  IF rebuilt
    THEN /\ Touch(s)
         /\ Told(s, id, IF IsRecord(r) THEN r.rev ELSE MaxRevision + 1)
         /\ held' = [held EXCEPT ![e] = IF IsRecord(r) THEN [id |-> id, rev |-> r.rev] ELSE None]
    ELSE /\ held' = [held EXCEPT ![e] = None]
         /\ UNCHANGED <<generation, known>>

\* _apply_update_unlocked: a new content without new sources loses the old ones.
Updated(r, text, active, cites) ==
  [r EXCEPT !.text = text, !.active = active, !.rev = @ + 1,
            !.cites = IF cites # None THEN cites ELSE IF text # r.text THEN None ELSE @]

\* update_memory: the revision that the caller has read must still be the one.
Agrees(id, rev) == IsRecord(records[id]) /\ records[id].rev = rev

-----------------------------------------------------------------------------
(* The editors. *)

\* The agent's tools run while a turn is between two requests; the page's
\* requests run on a thread of their own.
MayAct(e) == e[2] = "page" \/ phase[e[1]] = "turn"

\* The page always reads and writes in the scope "applicable".
ScopesOf(e) == IF e[2] = "page" THEN {"applicable"} ELSE Scopes

Visible(e, id) ==
  \E scope \in ScopesOf(e) : InScope(records[id], scope, ProjectOf[e[1]])

Look(e) ==
  /\ MayAct(e)
  /\ \E id \in Living :
       /\ Visible(e, id)
       /\ held' = [held EXCEPT ![e] = [id |-> id, rev |-> records[id].rev]]
  /\ UNCHANGED <<records, generation, phase, turns, cache, offered, known>>

\* create_memory: a new file, for a project or for all, at its first revision.
New(id, owner, text, cites) ==
  /\ records[id] = Unborn
  /\ Store(id, [owner |-> owner, active |-> TRUE, text |-> text, rev |-> 1, cites |-> cites])

\* delete_memory: the file is unlinked, whatever its revision.
Remove(id) == IsRecord(records[id]) /\ Store(id, Deleted)

\* create_semantic.
Create(e) ==
  /\ MayAct(e)
  /\ \E id \in Ids, text \in Contents \ Secrets, owner \in {"global", ProjectOf[e[1]]},
        rebuilt \in BOOLEAN :
       /\ New(id, owner, text, None)
       /\ Answer(e, id, records'[id], rebuilt)
  /\ UNCHANGED <<phase, turns, cache, offered>>

\* update_semantic: another content, deactivation and reactivation.  An update
\* that changes nothing answers the record and counts as a write.
Update(e) ==
  /\ MayAct(e) /\ held[e] # None
  /\ \E text \in Contents \ Secrets, active \in BOOLEAN, rebuilt \in BOOLEAN :
       LET id == held[e].id
           r  == records[id]
       IN
       /\ Agrees(id, held[e].rev)
       /\ Visible(e, id)
       /\ IF text = r.text /\ active = r.active
            THEN /\ Touch(e[1]) /\ Told(e[1], id, r.rev)
                 /\ UNCHANGED <<records, held>>
            ELSE LET u == Updated(r, text, active, None) IN
                 /\ r.rev < MaxRevision
                 /\ Store(id, u)
                 /\ Answer(e, id, u, rebuilt)
  /\ UNCHANGED <<phase, turns, cache, offered>>

\* delete_semantic: no revision is asked for.
Delete(e) ==
  /\ MayAct(e)
  /\ \E id \in Living, rebuilt \in BOOLEAN :
       /\ Visible(e, id)
       /\ Remove(id)
       /\ Answer(e, id, Deleted, rebuilt)
  /\ UNCHANGED <<phase, turns, cache, offered>>

-----------------------------------------------------------------------------
(* The recall of a turn. *)

BeginTurn(s) ==
  /\ phase[s] = "idle" /\ turns[s] < MaxTurns[s]
  /\ phase' = [phase EXCEPT ![s] = "turn"]
  /\ turns' = [turns EXCEPT ![s] = @ + 1]
  /\ cache' = [cache EXCEPT ![s] = None]  \* the recall is kept by turn
  /\ known' = [known EXCEPT ![s] = [id \in Ids |-> 0]]
  /\ UNCHANGED <<records, generation, held, offered>>

\* recall_for_turn: what was recalled is used again while no write was seen.
Usable(s) == cache[s] # None /\ cache[s].generation = generation[s]

\* A request to the model, when the recall cannot be used: the candidates are read.
ReadCandidates(s) ==
  /\ phase[s] = "turn" /\ ~Usable(s)
  /\ phase' = [phase EXCEPT ![s] = "selecting"]
  /\ offered' = [offered EXCEPT ![s] = Listed("applicable", ProjectOf[s])]
  /\ UNCHANGED <<records, generation, held, turns, cache, known>>

\* prepare_memory_context, after the selector has chosen, and
\* reproject_semantic, which keeps the choice of the turn: the text is rendered
\* from what was read, and stamped with the generation of now.
Render(s) ==
  /\ phase[s] = "selecting"
  /\ \E chosen \in SUBSET DOMAIN offered[s] :
       /\ cache[s] # None => chosen = cache[s].chosen \cap DOMAIN offered[s]
       /\ cache' = [cache EXCEPT ![s] =
            [generation |-> generation[s], chosen |-> chosen, shown |-> offered[s]]]
  /\ phase' = [phase EXCEPT ![s] = "turn"]
  /\ offered' = [offered EXCEPT ![s] = [id \in {} |-> 0]]
  /\ UNCHANGED <<records, generation, held, turns, known>>

\* The store or the rendering raised: the request carries no memory, and the
\* next one begins again.
RecallFails(s) ==
  /\ phase[s] = "selecting" /\ cache[s] = None
  /\ phase' = [phase EXCEPT ![s] = "turn"]
  /\ offered' = [offered EXCEPT ![s] = [id \in {} |-> 0]]
  /\ UNCHANGED <<records, generation, held, turns, cache, known>>

\* The turn ends; what it recalled is not asked for again.
EndTurn(s) ==
  /\ phase[s] = "turn"
  /\ phase' = [phase EXCEPT ![s] = "ended"]
  /\ held' = [held EXCEPT ![<<s, "agent">>] = None]
  /\ cache' = [cache EXCEPT ![s] = None]
  /\ UNCHANGED <<records, generation, turns, offered, known>>

-----------------------------------------------------------------------------
(* The extraction at the end of a turn. *)

Kinds == {"user", "tool", "verification", "assistant"}

\* What a turn has to say: whether the user asked for something to be kept, its
\* tool results in order, and the answers of its verification in order.
Sources ==
  [durable: BOOLEAN, tools: {<<>>, <<"failed">>, <<"failed", "ok">>, <<"ok", "failed">>},
   checks: {<<>>, <<FALSE>>, <<FALSE, TRUE>>, <<TRUE, FALSE>>}]

\* SemanticExtractPolicy.decide: a durable statement, or a failure followed by a success.
Followed(results, bad, good) ==
  \E i, j \in DOMAIN results : i < j /\ results[i] = bad /\ results[j] = good

Worthwhile(src) ==
  \/ src.durable
  \/ Followed(src.tools, "failed", "ok")
  \/ Followed(src.checks, FALSE, TRUE)

KindsOf(src) ==
  {"user", "assistant"}
    \cup (IF src.tools = <<>> THEN {} ELSE {"tool"})
    \cup (IF src.checks = <<>> THEN {} ELSE {"verification"})

\* review_provenance: the sources must have been shown, the assistant's word
\* alone proves nothing, and a preference needs the user's own.
Justified(personal, cited, shown) ==
  /\ cited # {} /\ cited \subseteq shown
  /\ ~(cited \subseteq {"assistant"})
  /\ personal => "user" \in cited

\* _save_memories: the items of an answer that are written, of a turn that is
\* worth asking about.
Items ==
  {item \in [personal: BOOLEAN, cited: SUBSET Kinds, text: Contents] :
     /\ \E src \in Sources : Worthwhile(src) /\ Justified(item.personal, item.cited, KindsOf(src))
     /\ item.text \notin Secrets}

Extractable == {item.text : item \in Items}

\* extraction_manifest and the call of the model: the active memories of the
\* project may be updated, the global ones are only shown.
AskExtraction(s) ==
  /\ phase[s] = "ended"
  /\ phase' = [phase EXCEPT ![s] = "extracting"]
  /\ offered' = [offered EXCEPT ![s] = Listed("current_project", ProjectOf[s])]
  /\ UNCHANGED <<records, generation, held, turns, cache, known>>

\* The gate says no, the model failed, or its answer holds nothing (more).
EndExtraction(s) ==
  /\ phase[s] \in {"ended", "extracting"}
  /\ phase' = [phase EXCEPT ![s] = "idle"]
  /\ offered' = [offered EXCEPT ![s] = [id \in {} |-> 0]]
  /\ UNCHANGED <<records, generation, held, turns, cache, known>>

\* record_extracted, create.
ExtractNew(s) ==
  /\ phase[s] = "extracting"
  /\ \E id \in Ids, text \in Extractable, rebuilt \in BOOLEAN :
       /\ New(id, ProjectOf[s], text, text)
       /\ IF rebuilt THEN Touch(s) /\ UNCHANGED phase
                     ELSE phase' = [phase EXCEPT ![s] = "idle"] /\ UNCHANGED generation
  /\ UNCHANGED <<held, turns, cache, offered, known>>

\* record_extracted, update: the record is read first.  Only what was offered
\* is, while it is still active.
ReadForExtraction(s) ==
  /\ phase[s] = "extracting"
  /\ \E id \in DOMAIN offered[s] :
       /\ IsRecord(records[id])
       /\ records[id].owner = ProjectOf[s] /\ records[id].active
       /\ held' = [held EXCEPT ![<<s, "agent">>] = [id |-> id, rev |-> records[id].rev]]
  /\ phase' = [phase EXCEPT ![s] = "writing"]
  /\ UNCHANGED <<records, generation, turns, cache, offered, known>>

\* ... and then updated at the revision just read; a conflict rejects the item.
WriteExtracted(s) ==
  LET e  == <<s, "agent">>
      id == held[e].id
  IN
  /\ phase[s] = "writing"
  /\ \/ /\ Agrees(id, held[e].rev) /\ records[id].rev < MaxRevision
        /\ \E text \in Extractable, rebuilt \in BOOLEAN :
             /\ Store(id, Updated(records[id], text, records[id].active, text))
             /\ IF rebuilt
                  THEN Touch(s) /\ phase' = [phase EXCEPT ![s] = "extracting"]
                  ELSE phase' = [phase EXCEPT ![s] = "idle"] /\ UNCHANGED generation
     \/ /\ phase' = [phase EXCEPT ![s] = "extracting"]
        /\ UNCHANGED <<records, generation>>
  /\ held' = [held EXCEPT ![e] = None]
  /\ UNCHANGED <<turns, cache, offered, known>>

SessionNext(s) ==
  \/ BeginTurn(s) \/ ReadCandidates(s) \/ Render(s) \/ RecallFails(s) \/ EndTurn(s)
  \/ AskExtraction(s) \/ EndExtraction(s) \/ ExtractNew(s)
  \/ ReadForExtraction(s) \/ WriteExtracted(s)

EditorNext(e) == Look(e) \/ Create(e) \/ Update(e) \/ Delete(e)

Next ==
  \/ \E s \in Sessions : SessionNext(s)
  \/ \E e \in Editors : EditorNext(e)

Spec == Init /\ [][Next]_vars

-----------------------------------------------------------------------------
(* Properties. *)

Marks == [id: Ids, rev: 1..MaxRevision]

\* Every variable has its type.
TypeOK ==
  /\ records \in [Ids -> Records \cup {Unborn, Deleted}]
  /\ \A s \in Sessions : generation[s] \in 0..MaxWrites[s]
  /\ held \in [Editors -> Marks \cup {None}]
  /\ phase \in [Sessions -> Phases]
  /\ \A s \in Sessions : turns[s] \in 0..MaxTurns[s]
  /\ \A s \in Sessions : cache[s] # None =>
       /\ cache[s].generation \in 0..generation[s]
       /\ cache[s].chosen \subseteq DOMAIN cache[s].shown
  /\ \A s \in Sessions : DOMAIN offered[s] \subseteq Ids
  /\ known \in [Sessions -> [Ids -> 0..(MaxRevision + 1)]]

\* A turn does not go on with a memory that its session has been told is
\* changed, deactivated or deleted: the recall that the next request would use
\* shows no revision older than the session's own last write.
RecallIsCurrent ==
  \A s \in Sessions : Usable(s) =>
    \A id \in DOMAIN cache[s].shown : cache[s].shown[id] >= known[s][id]

\* The sources of a memory are about the content it has now.
SourcesMatchText ==
  \A id \in Living : records[id].cites \in {records[id].text, None}

\* A model is shown what the memory says now, and where it has it from.
RecallIsSound == RecallIsCurrent /\ SourcesMatchText

\* No edit is lost under another: who changes a record has read the revision it
\* replaces.  An extraction changes only an active memory of its own project
\* that it offered to its model.
EditsAreInformed ==
  [][\A id \in Living : IsRecord(records'[id]) /\ records'[id] # records[id] =>
       \E e \in Editors :
         /\ held[e] = [id |-> id, rev |-> records[id].rev] /\ held'[e] # held[e]
         /\ phase[e[1]] = "writing" /\ e[2] = "agent" =>
              /\ id \in DOMAIN offered[e[1]]
              /\ records[id].owner = ProjectOf[e[1]] /\ records[id].active]_vars
=============================================================================

----------------------------- MODULE SessionImages -----------------------------
(***************************************************************************)
(* The images of a session: uploaded by a browser or attached with         *)
(* /attach, named by the commands that send them, removed again, part of   *)
(* the conversation, in the checkpoint, and gone at the end if they were   *)
(* never sent (application/session/service.py, dispatch.py,                *)
(* infrastructure/storage/attachments.py).  Uploads are served one at a    *)
(* time, removals and submissions each by a thread of their own; /attach   *)
(* and /detach are inputs of the session.                                  *)
(*                                                                         *)
(* An image is known by its number; made[n] is the picture it shows.       *)
(***************************************************************************)
EXTENDS Naturals, Sequences, FiniteSets, Functions, FiniteSetsExt

CONSTANTS
  None,
  Pictures,
  Commands,    \* turn.submit commands
  MaxImages,   \* bounds: registrations, removals by a browser, saves that fail and crashes
  MaxRemovals,
  MaxFaults

SessionImagesAssumption == {MaxImages, MaxRemovals, MaxFaults} \subseteq Nat

VARIABLES
  made,     \* what each image shows, by its number
  files,    \* images whose bytes are there
  records,  \* session_state.attachments
  history,  \* images of the messages
  saved,    \* the checkpoint: [records, history]
  drafts,   \* DraftAttachments.ids
  upload,   \* the registration: [at, image, draft, found, new]
  removal,  \* remove_attachment: [at, image, rivals], those that may still name the image;
            \* it looks in the history, then at the commands, and removes
  command,  \* of each command: [at, images, drafts], drafts: its images were drafts
  life,     \* "up", "closing", "clearing", "down"
  doomed,   \* images the shutdown has yet to remove
  removals, faults,
  lapsed    \* history: images that were lost on one of the ways named below

vars == <<made, files, records, history, saved, drafts, upload, removal, command,
          life, doomed, removals, faults, lapsed>>

NoUpload  == [at |-> "idle", image |-> None, draft |-> FALSE, found |-> FALSE, new |-> FALSE]
NoRemoval == [at |-> "idle", image |-> None, rivals |-> {}]

Init ==
  /\ made = <<>> /\ files = {} /\ records = {} /\ history = {} /\ drafts = {}
  /\ saved = [records |-> {}, history |-> {}]
  /\ upload = NoUpload /\ removal = NoRemoval
  /\ command = [c \in Commands |-> [at |-> "new", images |-> {}, drafts |-> FALSE]]
  /\ life = "up" /\ doomed = {} /\ removals = 0 /\ faults = 0 /\ lapsed = {}

At(stages) == {c \in Commands : command[c].at \in stages}
ImagesOf(cs) == UNION {command[c].images : c \in cs}

\* Messages, commands and the checkpoint.
Referenced == saved.records \union history \union ImagesOf(Commands)

\* The worker of the session has nothing to do.
Idle == At({"active", "begun", "noted", "runs"}) = {} /\ ~upload.draft

Checkpoint == saved' = [records |-> records', history |-> history']

Fault == faults < MaxFaults /\ faults' = faults + 1

-----------------------------------------------------------------------------
(* add_attachment and /attach *)

\* A picture that the session has is not stored again.
Register(p, draft) ==
  /\ life = "up" /\ upload.at = "idle" /\ (draft => Idle)
  /\ LET same == {n \in records : made[n] = p}
         new  == Len(made) + 1
     IN  IF same # {}
           THEN /\ upload' = [at |-> "record", image |-> Min(same), draft |-> draft,
                              found |-> TRUE, new |-> FALSE]
                /\ UNCHANGED <<made, files>>
           ELSE /\ new <= MaxImages
                /\ upload' = [at |-> "record", image |-> new, draft |-> draft,
                              found |-> FALSE, new |-> FALSE]
                /\ made' = Append(made, p) /\ files' = files \union {new}
  /\ UNCHANGED <<records, history, saved, drafts, removal, command, life, doomed,
                 removals, faults, lapsed>>

\* An upload is saved at once, a draft with the next checkpoint.  What was found
\* may have been removed in the meantime: its record comes back.
Record ==
  /\ upload.at = "record"
  /\ records' = records \union {upload.image}
  /\ lapsed' = IF upload.found THEN lapsed \union ({upload.image} \ records) ELSE lapsed
  /\ IF upload.draft
       THEN upload' = NoUpload /\ drafts' = drafts \union {upload.image}
       ELSE /\ upload' = [upload EXCEPT !.at = "save", !.new = upload.image \notin records]
            /\ UNCHANGED drafts
  /\ UNCHANGED <<made, files, history, saved, removal, command, life, doomed,
                 removals, faults>>

SaveUpload ==
  /\ upload.at = "save"
  /\ UNCHANGED <<records, history>> /\ Checkpoint
  /\ upload' = NoUpload
  /\ UNCHANGED <<made, files, drafts, removal, command, life, doomed, removals, faults, lapsed>>

\* What could not be saved is taken back, unless it was there before.
SaveUploadFails ==
  /\ upload.at = "save" /\ Fault
  /\ LET back == IF upload.new THEN {upload.image} ELSE {}
     IN  /\ records' = records \ back /\ files' = files \ back
         /\ lapsed' = lapsed \union (back \intersect Referenced)
  /\ upload' = NoUpload
  /\ UNCHANGED <<made, history, saved, drafts, removal, command, life, doomed, removals>>

\* DraftAttachments.detach.  It takes the record and the bytes, also if a message
\* has the image, a command that waits, or the checkpoint, which is not saved.
Detach(n) ==
  /\ life = "up" /\ Idle /\ n \in drafts
  /\ drafts' = drafts \ {n}
  /\ records' = records \ {n}
  /\ files' = IF n \in records THEN files \ {n} ELSE files
  /\ lapsed' = lapsed \union ({n} \intersect Referenced)
  /\ UNCHANGED <<made, history, saved, upload, removal, command, life, doomed, removals, faults>>

-----------------------------------------------------------------------------
(* remove_attachment *)

Drafting == {c \in Commands : command[c].drafts}

\* Without the commands that run.
InflightQueued == ImagesOf(At({"waiting", "dropping"}))

\* _inflight_attachment_ids: what commands came with, not the drafts they took.
Inflight == ImagesOf(At({"waiting", "dropping", "active", "begun", "noted", "runs"}) \ Drafting)

\* The commands that nobody asks about an image: those that are not queued, and
\* those that have drafts or may take them.
Rivals == At({"new", "checked"}) \union Drafting
            \union {c \in Commands : command[c].images = {}}

CheckHistory(n) ==
  /\ life = "up" /\ removal.at = "idle" /\ removals < MaxRemovals
  /\ n \in records /\ n \notin history
  /\ removal' = [at |-> "look", image |-> n, rivals |-> {}]
  /\ removals' = removals + 1
  /\ UNCHANGED <<made, files, records, history, saved, drafts, upload, command, life,
                 doomed, faults, lapsed>>

\* A turn may have run as a whole since the look in the history.
CheckCommands ==
  /\ removal.at = "look"
  /\ IF removal.image \in Inflight
       THEN removal' = NoRemoval /\ UNCHANGED lapsed
       ELSE /\ removal' = [removal EXCEPT !.at = "pop", !.rivals = Rivals]
            /\ lapsed' = lapsed \union ({removal.image} \intersect history)
  /\ UNCHANGED <<made, files, records, history, saved, drafts, upload, command, life,
                 doomed, removals, faults>>

PopRecord ==
  /\ removal.at = "pop"
  /\ records' = records \ {removal.image}
  /\ removal' = [removal EXCEPT !.at = "save"]
  /\ lapsed' = lapsed \union ({removal.image} \intersect ImagesOf(removal.rivals))
  /\ UNCHANGED <<made, files, history, saved, drafts, upload, command, life, doomed,
                 removals, faults>>

SaveRemoval ==
  /\ removal.at = "save"
  /\ UNCHANGED <<records, history>> /\ Checkpoint
  /\ removal' = [removal EXCEPT !.at = "unlink"]
  /\ UNCHANGED <<made, files, drafts, upload, command, life, doomed, removals, faults, lapsed>>

SaveRemovalFails ==
  /\ removal.at = "save" /\ Fault
  /\ records' = records \union {removal.image}
  /\ lapsed' = lapsed \union ({removal.image} \ files)
  /\ removal' = NoRemoval
  /\ UNCHANGED <<made, files, history, saved, drafts, upload, command, life, doomed, removals>>

Unlink ==
  /\ removal.at = "unlink"
  /\ files' = files \ {removal.image}
  /\ removal' = NoRemoval
  /\ UNCHANGED <<made, records, history, saved, drafts, upload, command, life, doomed,
                 removals, faults, lapsed>>

-----------------------------------------------------------------------------
(* submit, and the worker *)

\* A client knows an image from the answer to its upload.
Answered == records \ (IF upload.at = "save" /\ upload.new THEN {upload.image} ELSE {})

Submit(c, images) ==
  /\ life = "up" /\ command[c].at = "new" /\ images \subseteq Answered
  /\ command' = [command EXCEPT ![c] = [at |-> "checked", images |-> images, drafts |-> FALSE]]
  /\ UNCHANGED <<made, files, records, history, saved, drafts, upload, removal, life,
                 doomed, removals, faults, lapsed>>

Move(c, from, to) ==
  /\ command[c].at = from
  /\ command' = [command EXCEPT ![c].at = to]
  /\ UNCHANGED <<made, files, records, history, saved, drafts, upload, removal, life,
                 doomed, removals, faults, lapsed>>

\* After the end the row waits for the next process.
Queue(c) == Move(c, "checked", "waiting")

\* _consume
Consume(c) == life = "up" /\ Idle /\ Move(c, "waiting", "active")
Reject(c)  ==
  \/ life = "up" /\ Idle /\ Move(c, "waiting", "over")
  \/ life = "closing" /\ Idle /\ Move(c, "dropping", "over")

\* The input is a slash command, or empty: no turn.
EndWithoutTurn(c) == Move(c, "active", "over")

\* process_session_event takes the drafts for an input without images.  A stop
\* while the turn waits for its directory ends it, and so does a record that is
\* not there.
Begin(c) ==
  /\ command[c].at = "active"
  /\ LET images == IF command[c].images = {} THEN drafts ELSE command[c].images
     IN  /\ drafts' = IF command[c].images = {} THEN {} ELSE drafts
         /\ \E at \in {"over"} \union (IF images \subseteq records THEN {"begun"} ELSE {}) :
              command' = [command EXCEPT ![c] = [at |-> at, images |-> images,
                                                 drafts |-> command[c].images = {}]]
  /\ UNCHANGED <<made, files, records, history, saved, upload, removal, life, doomed,
                 removals, faults, lapsed>>

\* Images of a browser that a message was given while their removal, or the end
\* of a failed upload, was under way.
Contested(c) ==
  {n \in DOMAIN made : \/ removal.at = "pop" /\ removal.image = n /\ c \in removal.rivals
                       \/ upload.at = "save" /\ upload.new /\ upload.image = n}

\* append_user_message looks once more.  A hook can reject the turn before.
Note(c) ==
  /\ command[c].at = "begun" /\ command[c].images \subseteq records
  /\ history' = history \union command[c].images
  /\ lapsed' = lapsed \union (command[c].images \intersect Contested(c))
  /\ command' = [command EXCEPT ![c].at = "noted"]
  /\ UNCHANGED <<made, files, records, saved, drafts, upload, removal, life, doomed,
                 removals, faults>>

\* A rejected turn is saved, too.
NotNoted(c) ==
  /\ command[c].at = "begun"
  /\ command' = [command EXCEPT ![c].at = "over"]
  /\ UNCHANGED <<records, history>>
  /\ Checkpoint \/ UNCHANGED saved
  /\ UNCHANGED <<made, files, drafts, upload, removal, life, doomed, removals, faults, lapsed>>

\* The checkpoints of the agent, when the turn begins and after its rounds; a
\* failed one is reported and the turn goes on.
SaveTurn(c) ==
  /\ command[c].at \in {"noted", "runs"}
  /\ command' = [command EXCEPT ![c].at = "runs"]
  /\ UNCHANGED <<records, history>>
  /\ \/ Checkpoint /\ UNCHANGED faults
     \/ Fault /\ UNCHANGED saved
  /\ UNCHANGED <<made, files, drafts, upload, removal, life, doomed, removals, lapsed>>

End(c) == Move(c, "runs", "over")

-----------------------------------------------------------------------------
(* close, shutdown_runtime and the next process *)

Close ==
  /\ life = "up"
  /\ life' = "closing"
  /\ command' = [c \in Commands |->
                   IF command[c].at = "waiting" THEN [command[c] EXCEPT !.at = "dropping"]
                   ELSE command[c]]
  /\ UNCHANGED <<made, files, records, history, saved, drafts, upload, removal, doomed,
                 removals, faults, lapsed>>

\* Also those that the conversation has.
UnsentAll == records

Unsent == records \ history

Clear ==
  /\ life = "closing" /\ Idle /\ At({"dropping"}) = {}
  /\ life' = "clearing" /\ doomed' = Unsent
  /\ UNCHANGED <<made, files, records, history, saved, drafts, upload, removal, command,
                 removals, faults, lapsed>>

\* The bytes go first.  A record that a browser removes meanwhile is an error,
\* and the shutdown ends without its checkpoint.
RemoveUnsent(n) ==
  /\ life = "clearing" /\ n \in doomed
  /\ files' = files \ {n} /\ records' = records \ {n}
  /\ IF n \in records
       THEN doomed' = doomed \ {n} /\ UNCHANGED life
       ELSE doomed' = {} /\ life' = "down"
  /\ lapsed' = lapsed \union ({n} \ history)
  /\ UNCHANGED <<made, history, saved, drafts, upload, removal, command, removals, faults>>

\* A checkpoint that fails is reported; it still has what was removed.
SaveEnd ==
  /\ life = "clearing" /\ doomed = {}
  /\ life' = "down"
  /\ UNCHANGED <<records, history>>
  /\ \/ Checkpoint /\ UNCHANGED faults
     \/ Fault /\ UNCHANGED saved
  /\ UNCHANGED <<made, files, drafts, upload, removal, command, doomed, removals, lapsed>>

\* Commands whose run has begun are not offered again; drafts are not kept.
Crash ==
  /\ life # "down" /\ Fault
  /\ life' = "down" /\ doomed' = {}
  /\ upload' = NoUpload /\ removal' = NoRemoval
  /\ \E at \in [Commands -> {"new", "waiting", "over"}] :
       /\ \A c \in Commands : at[c] \in
            CASE command[c].at \in {"new", "over"} -> {command[c].at}
              [] command[c].at \in {"waiting", "dropping", "active"} -> {"waiting"}
              [] command[c].at \in {"checked", "begun"} -> {"waiting", "over"}
              [] OTHER -> {"over"}
       /\ command' = [c \in Commands |->
                        IF at[c] = "waiting" /\ command[c].drafts
                          THEN [at |-> at[c], images |-> {}, drafts |-> FALSE]
                          ELSE [command[c] EXCEPT !.at = at[c]]]
  /\ UNCHANGED <<made, files, records, history, saved, drafts, removals, lapsed>>

Loads(checkpoint) == checkpoint.history \subseteq checkpoint.records

\* _recover_durable_commands leaves a command alone whose image is gone.
Restart ==
  /\ life = "down" /\ Loads(saved)
  /\ upload.at = "idle" /\ removal.at = "idle" /\ At({"checked"}) = {}
  /\ life' = "up"
  /\ records' = saved.records /\ history' = saved.history /\ drafts' = {}
  /\ command' = [c \in Commands |->
                   IF command[c].at = "waiting" /\ ~(command[c].images \subseteq saved.records)
                     THEN [command[c] EXCEPT !.at = "kept"] ELSE command[c]]
  /\ UNCHANGED <<made, files, saved, upload, removal, doomed, removals, faults, lapsed>>

Next ==
  \/ \E p \in Pictures, draft \in BOOLEAN : Register(p, draft)
  \/ Record \/ SaveUpload \/ SaveUploadFails
  \/ \E n \in DOMAIN made : Detach(n) \/ CheckHistory(n) \/ RemoveUnsent(n)
  \/ CheckCommands \/ PopRecord \/ SaveRemoval \/ SaveRemovalFails \/ Unlink
  \/ \E c \in Commands :
       \/ \E images \in SUBSET records : Submit(c, images)
       \/ Queue(c) \/ Consume(c) \/ Reject(c) \/ EndWithoutTurn(c) \/ Begin(c) \/ Note(c)
       \/ NotNoted(c) \/ SaveTurn(c) \/ End(c)
  \/ Close \/ Clear \/ SaveEnd \/ Crash \/ Restart

Spec == Init /\ [][Next]_vars

-----------------------------------------------------------------------------
(* Properties *)

TypeOK ==
  /\ Range(made) \subseteq Pictures /\ Len(made) <= MaxImages
  /\ files \union records \union history \union drafts \union doomed \union lapsed \subseteq DOMAIN made
  /\ saved.records \union saved.history \subseteq DOMAIN made
  /\ upload.at \in {"idle", "record", "save"}
  /\ removal.at \in {"idle", "look", "pop", "save", "unlink"}
  /\ life \in {"up", "closing", "clearing", "down"}

\* "Referenced images deliberately remain available for checkpoint resume"
\* (runtime.py): what a message refers to is there, every checkpoint loads and has
\* the bytes of its messages, and a command in the queue has its images; but for
\* images that somebody removed with /detach or in a browser while they were being
\* sent, and for those of a shutdown that was not saved.
ImagesAreKept ==
  /\ life = "up" =>
       /\ history \ lapsed \subseteq records \intersect files
       /\ Inflight \ lapsed \subseteq records \intersect files
  /\ saved.history \ lapsed \subseteq saved.records \intersect files

=============================================================================

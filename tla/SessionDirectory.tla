--------------------------- MODULE SessionDirectory ---------------------------
(***************************************************************************)
(* The open sessions of one project: SessionDirectory (application/session/ *)
(* directory.py), the browser's adapter over it (interfaces/web/           *)
(* runtime_manager.py), the assembly of a runtime with its ApplicationHost *)
(* (application/composition/runtime.py) and the git worktrees              *)
(* (infrastructure/workspace/worktrees.py).                                *)
(*                                                                         *)
(* Requests arrive on threads of their own.  The directory's lock is not   *)
(* held while a runtime is assembled, a session is closed or the request   *)
(* file is written, so every call is split there.  A runtime and a host    *)
(* are named by the call that made them, a session by the call that        *)
(* created it.                                                             *)
(***************************************************************************)
EXTENDS Naturals, FiniteSets

CONSTANTS
  Opens,      \* calls of open()
  Enders,     \* calls of close() or archive()
  Saved,      \* worktree sessions that have a checkpoint from before
  RequestOf,  \* the client_request_id of each open, None without one
  Capacity,   \* SessionDirectory.capacity
  Project,    \* the project's own checkout
  None

\* What the constants have to be.
SessionDirectoryAssumption ==
  /\ IsFiniteSet(Opens) /\ IsFiniteSet(Saved) /\ Opens \cap Saved = {}
  /\ None \notin Opens \cup Saved
  /\ {"local", "worktree"} \cap (Opens \cup Saved) = {}
  /\ Capacity \in Nat

Ids      == Opens \cup Saved
Roots    == Ids \cup {Project}    \* execution directories: the checkout, a worktree per session
Requests == {RequestOf[o] : o \in Opens} \ {None}

VARIABLES
  sessions,    \* _sessions: the runtime registered for each session id
  hosts,       \* _hosts: the host kept for each execution directory
  hostState,   \* ApplicationHost.state of the host each open made
  runtime,     \* the runtime each open made
  home,        \* the execution directory of each session
  trees,       \* worktrees that exist
  saved,       \* sessions that have a checkpoint
  remembered,  \* open_requests.json
  handles,     \* RuntimeManager._handles
  locks,       \* request ids, resumed ids and directories whose lock an open holds
  open,        \* where each open is and what it has read
  ender,       \* where each close or archive is
  down         \* shutdown() has been called

project == <<sessions, hosts, hostState, runtime>>
disk    == <<home, trees, saved, remembered>>
calls   == <<open, ender>>
vars    == <<project, disk, handles, locks, calls, down>>

NewOpen == [at |-> "new", want |-> "local", id |-> None, victim |-> None, host |-> None,
            created |-> FALSE, copy |-> [r \in Requests |-> None], result |-> None]
NewCall == [at |-> "new", id |-> None, opened |-> None, host |-> None]

TypeOK ==
  /\ sessions \in [Ids -> Opens \cup {None}]
  /\ hosts \in [Roots -> Opens \cup {None}]
  /\ hostState \in [Opens -> {"none", "running", "closing", "closed"}]
  /\ runtime \in [Opens -> {"none", "idle", "busy", "closing", "closed"}]
  /\ home \in [Ids -> Roots]
  /\ trees \subseteq Ids /\ saved \subseteq Ids
  /\ remembered \in [Requests -> Ids \cup {None}]
  /\ handles \in [Ids -> Opens \cup {None}]
  /\ locks \in [Requests \cup Roots -> Opens \cup {None}]
  /\ \A o \in Opens :
       /\ open[o].at \in {"new", "reuse", "room", "evict", "reserve", "lock", "assemble",
                          "register", "loser", "read", "write", "done"}
       /\ open[o].want \in {"local", "worktree"} \cup Ids
       /\ open[o].result \in Ids \cup {None, "raised"}
  /\ \A e \in Enders :
       ender[e].at \in {"new", "close", "wait", "check", "host", "pop", "remove", "done"}

Init ==
  /\ sessions = [i \in Ids |-> None] /\ hosts = [r \in Roots |-> None]
  /\ hostState = [o \in Opens |-> "none"] /\ runtime = [o \in Opens |-> "none"]
  /\ home = [i \in Ids |-> IF i \in Saved THEN i ELSE Project]
  /\ trees = Saved /\ saved = Saved
  /\ remembered = [r \in Requests |-> None]
  /\ handles = [i \in Ids |-> None]
  /\ locks = [l \in Requests \cup Roots |-> None]
  /\ open = [o \in Opens |-> NewOpen]
  /\ ender = [e \in Enders |-> NewCall]
  /\ down = FALSE

-----------------------------------------------------------------------------
(* What the calls share.                                                   *)

\* _prune_closed_locked: a session whose worker has stopped is forgotten.
Pruned == [i \in Ids |-> IF sessions[i] # None /\ runtime[sessions[i]] = "closed"
                         THEN None ELSE sessions[i]]

Active(table) == {i \in Ids : table[i] # None}

\* is_evictable: nothing runs or waits in it, or its worker is ending.
Evictable(o) == runtime[o] \in {"idle", "closing", "closed"}

\* SessionService.close: a worker that runs is asked to end.
Closing(o) == [runtime EXCEPT ![o] = IF @ = "closed" THEN @ ELSE "closing"]

\* worktrees.archive of a worktree without changes, after a failed open.
RolledBack(o) == IF open[o].created THEN trees \ {o} ELSE trees

\* A failed open that leaves the host to the next one.
HostKept(o) == hostState

\* What a failed open leaves of the host: closed, when it was made for it.
HostAfter(o) == IF open[o].host = None THEN [hostState EXCEPT ![o] = "closed"] ELSE hostState

\* The call ends and its locks are free.
Return(o, result) ==
  /\ open' = [open EXCEPT ![o].at = "done", ![o].result = result]
  /\ locks' = [l \in DOMAIN locks |-> IF locks[l] = o THEN None ELSE locks[l]]

Goto(o, at) == open' = [open EXCEPT ![o].at = at]

-----------------------------------------------------------------------------
(* RuntimeManager._open_on and _open_once.                                 *)

\* A new session, or a resume that waits for the resumes of the same session:
\* one that is open is simply attached to.
Attach(o) ==
  /\ open[o].at = "new" /\ ~down
  /\ \/ \E kind \in {"local", "worktree"} :
          /\ open' = [open EXCEPT ![o].at = "reuse", ![o].want = kind]
          /\ UNCHANGED locks
     \/ \E i \in saved :
          /\ locks[i] = None
          /\ IF handles[i] # None /\ runtime[handles[i]] # "closed"
             THEN open' = [open EXCEPT ![o].at = "done", ![o].want = i, ![o].result = i]
                  /\ UNCHANGED locks
             ELSE open' = [open EXCEPT ![o].at = "reuse", ![o].want = i]
                  /\ locks' = [locks EXCEPT ![i] = o]
  /\ UNCHANGED <<project, disk, handles, ender, down>>

-----------------------------------------------------------------------------
(* SessionDirectory.open.                                                  *)

\* _reuse_request, under the lock of the request id: the session it made is
\* returned when it is open, and resumed when it has a checkpoint.
Reuse(o) ==
  LET r == RequestOf[o]
      i == IF r = None THEN None ELSE remembered[r] IN
  /\ open[o].at = "reuse"
  /\ r # None => locks[r] = None
  /\ IF i # None /\ sessions[i] # None
     THEN /\ sessions' = Pruned
          /\ Return(o, IF Pruned[i] # None THEN i ELSE "raised")
          /\ handles' = IF Pruned[i] # None THEN [handles EXCEPT ![i] = sessions[i]] ELSE handles
     ELSE /\ open' = [open EXCEPT ![o].at = "room",
               ![o].want = IF i \in saved /\ @ \in {"local", "worktree"} THEN i ELSE @]
          /\ locks' = IF r = None THEN locks ELSE [locks EXCEPT ![r] = o]
          /\ UNCHANGED <<sessions, handles>>
  /\ UNCHANGED <<hosts, hostState, runtime, disk, ender, down>>

\* _make_room: a full directory picks an idle session, outside the lock it is
\* closed.
MakeRoom(o) ==
  /\ open[o].at = "room"
  /\ sessions' = Pruned
  /\ IF Cardinality(Active(Pruned)) < Capacity
        \/ \A i \in Active(Pruned) : ~Evictable(Pruned[i])
     THEN Goto(o, "reserve") /\ UNCHANGED runtime
     ELSE \E i \in Active(Pruned) :
            /\ Evictable(Pruned[i])
            /\ open' = [open EXCEPT ![o].at = "evict", ![o].victim = Pruned[i], ![o].id = i]
            /\ runtime' = Closing(Pruned[i])
  /\ UNCHANGED <<hosts, hostState, disk, handles, locks, ender, down>>

\* close() of the victim: it is forgotten when it ended within five seconds.
Forget(i, o) == IF sessions[i] = o /\ runtime[o] = "closed" THEN [sessions EXCEPT ![i] = None]
                ELSE sessions

Evict(o) ==
  /\ open[o].at = "evict"
  /\ \/ sessions' = Forget(open[o].id, open[o].victim)
     \/ UNCHANGED sessions
  /\ open' = [open EXCEPT ![o].at = "reserve", ![o].victim = None, ![o].id = None]
  /\ UNCHANGED <<hosts, hostState, runtime, disk, handles, locks, ender, down>>

\* _open, the locked part: a slot must be free and the session not open; a
\* checkpoint's directory must exist, a new worktree is created.
Reserve(o) ==
  LET want == open[o].want
      new  == want \in {"local", "worktree"}
      id   == IF new THEN o ELSE want IN
  /\ open[o].at = "reserve"
  /\ sessions' = Pruned
  /\ IF \/ Cardinality(Active(Pruned)) >= Capacity
        \/ Pruned[id] # None
        \/ ~new /\ home[id] # Project /\ home[id] \notin trees
     THEN Return(o, "raised") /\ UNCHANGED <<home, trees>>
     ELSE /\ open' = [open EXCEPT ![o].at = "lock", ![o].id = id,
                                  ![o].created = want = "worktree"]
          /\ home' = [home EXCEPT ![id] = IF want = "worktree" THEN id ELSE @]
          /\ trees' = IF want = "worktree" THEN trees \cup {id} ELSE trees
          /\ UNCHANGED locks
  /\ UNCHANGED <<hosts, hostState, runtime, saved, remembered, handles, ender, down>>

RootOf(o) == home[open[o].id]

\* The directory's own lock: one assembly at a time, with the host kept for it.
\* (A worktree's directory is named as its session: the lock of a resume is
\* another one, taken before.)
LockRoot(o) ==
  /\ open[o].at = "lock"
  /\ \A p \in Opens : open[p].at \in {"assemble", "register", "loser"}
                        => RootOf(p) # RootOf(o)
  /\ open' = [open EXCEPT ![o].at = "assemble", ![o].host = hosts[RootOf(o)]]
  /\ UNCHANGED <<project, disk, handles, locks, ender, down>>

\* ApplicationHost.start: one host owns a directory's lock file.
DirectoryOwned(o) ==
  \E p \in Opens : hostState[p] \in {"running", "closing"} /\ home[open[p].id] = RootOf(o)

\* assemble_runtime with the host that was kept, while it takes sessions, or with
\* a new one; SessionService.start then recovers the commands and runs the worker.
Assemble(o) ==
  /\ open[o].at = "assemble"
  /\ IF open[o].host = None
     THEN ~DirectoryOwned(o) /\ hostState' = [hostState EXCEPT ![o] = "running"]
     ELSE hostState[open[o].host] = "running" /\ UNCHANGED hostState
  /\ runtime' = [runtime EXCEPT ![o] = "idle"]
  /\ Goto(o, "register")
  /\ UNCHANGED <<sessions, hosts, disk, handles, locks, ender, down>>

\* assemble_runtime raises and has released what it made; a new worktree goes.
AssembleFails(o) ==
  /\ open[o].at = "assemble"
  /\ trees' = RolledBack(o)
  /\ Return(o, "raised")
  /\ UNCHANGED <<project, home, saved, remembered, handles, ender, down>>

\* SessionService.start raises: the runtime is shut down, its new host closed.
StartFails(o) ==
  /\ open[o].at = "assemble"
  /\ IF open[o].host = None THEN ~DirectoryOwned(o) ELSE hostState[open[o].host] = "running"
  /\ runtime' = [runtime EXCEPT ![o] = "closed"]
  /\ hostState' = HostAfter(o)
  /\ trees' = RolledBack(o)
  /\ saved' = saved \cup {open[o].id}
  /\ Return(o, "raised")
  /\ UNCHANGED <<sessions, hosts, home, remembered, handles, ender, down>>

\* The check that is made again once the runtime exists.
MayRegister(table, id) == table[id] = None /\ Cardinality(Active(table)) < Capacity

\* The locked part after the assembly: registered, or too late.
Register(o) ==
  LET id == open[o].id IN
  /\ open[o].at = "register"
  /\ IF MayRegister(Pruned, id)
     THEN /\ sessions' = [Pruned EXCEPT ![id] = o]
          /\ hosts' = [hosts EXCEPT ![RootOf(o)] = IF open[o].host = None THEN o ELSE open[o].host]
          /\ Goto(o, "read")
     ELSE sessions' = Pruned /\ UNCHANGED hosts /\ Goto(o, "loser")
  /\ UNCHANGED <<hostState, runtime, disk, handles, locks, ender, down>>

\* Too late: what was assembled is closed again.
Loser(o) ==
  /\ open[o].at = "loser"
  /\ runtime' = Closing(o)
  /\ hostState' = HostAfter(o)
  /\ trees' = RolledBack(o)
  /\ Return(o, "raised")
  /\ UNCHANGED <<sessions, hosts, home, saved, remembered, handles, ender, down>>

\* _remember_request reads open_requests.json; without an id the call is done.
RememberRead(o) ==
  /\ open[o].at = "read"
  /\ IF RequestOf[o] = None
     THEN /\ Return(o, open[o].id)
          /\ handles' = [handles EXCEPT ![open[o].id] = o]
     ELSE /\ open' = [open EXCEPT ![o].at = "write", ![o].copy = remembered]
          /\ UNCHANGED <<locks, handles>>
  /\ UNCHANGED <<project, disk, ender, down>>

\* _remember_request replaces the file with what it read and its own entry.
RememberWrite(o) ==
  /\ open[o].at = "write"
  /\ remembered' = [open[o].copy EXCEPT ![RequestOf[o]] = open[o].id]
  /\ Return(o, open[o].id)
  /\ handles' = [handles EXCEPT ![open[o].id] = o]
  /\ UNCHANGED <<project, home, trees, saved, ender, down>>

-----------------------------------------------------------------------------
(* The worker of a runtime.                                                *)

\* A turn begins in an open session; at its end the checkpoint is saved.
Work(o) ==
  /\ runtime[o] = "idle" /\ open[o].at \in {"read", "write", "done"}
  /\ runtime' = [runtime EXCEPT ![o] = "busy"]
  /\ UNCHANGED <<sessions, hosts, hostState, disk, handles, locks, calls, down>>

Rest(o) ==
  /\ runtime[o] = "busy"
  /\ runtime' = [runtime EXCEPT ![o] = "idle"]
  /\ saved' = saved \cup {open[o].id}
  /\ UNCHANGED <<sessions, hosts, hostState, home, trees, remembered, handles, locks, calls, down>>

\* The worker ends, as asked or by an unexpected failure: shutdown_runtime
\* saves the checkpoint.  The host is not the runtime's to close.
WorkerEnds(o) ==
  /\ runtime[o] \in {"busy", "closing"}
  /\ runtime' = [runtime EXCEPT ![o] = "closed"]
  /\ saved' = saved \cup {open[o].id}
  /\ UNCHANGED <<sessions, hosts, hostState, home, trees, remembered, handles, locks, calls, down>>

\* ApplicationHost._wait_then_finish_close.
HostEnds(o) ==
  /\ hostState[o] = "closing"
  /\ hostState' = [hostState EXCEPT ![o] = "closed"]
  /\ UNCHANGED <<sessions, hosts, runtime, disk, handles, locks, calls, down>>

-----------------------------------------------------------------------------
(* SessionDirectory.close and archive.                                     *)

CloseBegin(e) ==
  /\ ender[e].at = "new"
  /\ \E i \in Active(sessions) :
       /\ ender' = [ender EXCEPT ![e] = [NewCall EXCEPT !.at = "close", !.id = i,
                                                        !.opened = sessions[i]]]
       /\ runtime' = Closing(sessions[i])
  /\ UNCHANGED <<sessions, hosts, hostState, disk, handles, locks, open, down>>

\* The wait of five seconds ends with the worker or without it; the browser's
\* handle goes with the worker.
CloseEnd(e) ==
  LET i == ender[e].id IN
  /\ ender[e].at = "close"
  /\ \/ sessions' = Forget(i, ender[e].opened)
     \/ UNCHANGED sessions
  /\ handles' = IF handles[i] # None /\ runtime[handles[i]] = "closed"
                THEN [handles EXCEPT ![i] = None] ELSE handles
  /\ ender' = [ender EXCEPT ![e].at = "done"]
  /\ UNCHANGED <<hosts, hostState, runtime, disk, locks, open, down>>

ArchiveAt(e, at) == ender' = [ender EXCEPT ![e].at = at]

\* An open session is closed first, of another one the checkpoint is read.
ArchiveBegin(e) ==
  /\ ender[e].at = "new"
  /\ \E i \in saved \cup Active(sessions) :
       /\ ender' = [ender EXCEPT ![e] =
            [NewCall EXCEPT !.at = IF sessions[i] # None THEN "wait" ELSE "check",
                            !.id = i, !.opened = sessions[i]]]
       /\ runtime' = IF sessions[i] # None THEN Closing(sessions[i]) ELSE runtime
  /\ UNCHANGED <<sessions, hosts, hostState, disk, handles, locks, open, down>>

ArchiveWait(e) ==
  LET i == ender[e].id IN
  /\ ender[e].at = "wait"
  /\ \/ sessions' = Forget(i, ender[e].opened)
     \/ UNCHANGED sessions
  /\ ArchiveAt(e, IF sessions'[i] = None THEN "check" ELSE "done")
  /\ UNCHANGED <<hosts, hostState, runtime, disk, handles, locks, open, down>>

\* The sessions that use the directory, under the lock; what still executes or
\* has an active job refuses as well.
Users(root) == {i \in Active(sessions) : home[i] = root}

ArchiveCheck(e) ==
  LET root == home[ender[e].id] IN
  /\ ender[e].at = "check"
  /\ \/ /\ Users(root) = {}
        /\ ender' = [ender EXCEPT ![e].host = hosts[root],
                         ![e].at = IF hosts[root] = None THEN "remove" ELSE "host"]
     \/ ArchiveAt(e, "done")
  /\ UNCHANGED <<project, disk, handles, locks, open, down>>

\* host.close(): finished, or still closing, which refuses.
ArchiveHost(e) ==
  LET h == ender[e].host IN
  /\ ender[e].at = "host"
  /\ \/ /\ hostState[h] # "closing"
        /\ hostState' = [hostState EXCEPT ![h] = "closed"]
        /\ ArchiveAt(e, "pop")
     \/ /\ hostState' = [hostState EXCEPT ![h] = IF @ = "closed" THEN @ ELSE "closing"]
        /\ hostState[h] # "closed"
        /\ ArchiveAt(e, "done")
  /\ UNCHANGED <<sessions, hosts, runtime, disk, handles, locks, open, down>>

ArchivePop(e) ==
  LET root == home[ender[e].id] IN
  /\ ender[e].at = "pop"
  /\ hosts' = [hosts EXCEPT ![root] = IF @ = ender[e].host THEN None ELSE @]
  /\ ArchiveAt(e, "remove")
  /\ UNCHANGED <<sessions, hostState, runtime, disk, handles, locks, open, down>>

\* worktrees.archive: a clean worktree is removed; the checkout and a worktree
\* with changes stay.
ArchiveRemove(e) ==
  /\ ender[e].at = "remove"
  /\ trees' \in {trees, trees \ {home[ender[e].id]}}
  /\ ArchiveAt(e, "done")
  /\ UNCHANGED <<project, home, saved, remembered, handles, locks, open, down>>

\* shutdown(): the tables are emptied and everything that was in them closes.
Shutdown ==
  /\ ~down /\ down' = TRUE
  /\ sessions' = [i \in Ids |-> None] /\ hosts' = [r \in Roots |-> None]
  /\ handles' = [i \in Ids |-> None]
  /\ runtime' = [o \in Opens |-> IF \E i \in Ids : sessions[i] = o /\ runtime[o] # "closed"
                                 THEN "closing" ELSE runtime[o]]
  /\ \E after \in {"closing", "closed"} :
       hostState' = [o \in Opens |-> IF \E r \in Roots : hosts[r] = o /\ hostState[o] = "running"
                                     THEN after ELSE hostState[o]]
  /\ UNCHANGED <<disk, locks, calls>>

-----------------------------------------------------------------------------
OpenStep(o) ==
  \/ Attach(o) \/ Reuse(o) \/ MakeRoom(o) \/ Evict(o) \/ Reserve(o) \/ LockRoot(o)
  \/ Assemble(o) \/ AssembleFails(o) \/ StartFails(o)
  \/ Register(o) \/ Loser(o) \/ RememberRead(o) \/ RememberWrite(o)

Next ==
  \/ \E o \in Opens : OpenStep(o) \/ Work(o) \/ Rest(o) \/ WorkerEnds(o) \/ HostEnds(o)
  \/ \E e \in Enders :
       \/ CloseBegin(e) \/ CloseEnd(e)
       \/ ArchiveBegin(e) \/ ArchiveWait(e) \/ ArchiveCheck(e) \/ ArchiveHost(e)
       \/ ArchivePop(e) \/ ArchiveRemove(e)
  \/ Shutdown

Spec == Init /\ [][Next]_vars

-----------------------------------------------------------------------------
\* Never more sessions than the capacity are registered, although the slot is
\* looked for before a runtime is assembled and taken after it.
CapacityHolds == Cardinality(Active(sessions)) <= Capacity

\* Whatever step of an open raised or came too late, and whatever was closed,
\* archived or shut down meanwhile: once the call is over a runtime that works
\* is registered or was told to close, a running host is one the directory
\* knows, and a worktree is one a session can be resumed in.
NoOrphans ==
  \A o \in Opens : open[o].at = "done" =>
    /\ runtime[o] \in {"idle", "busy"} => sessions[open[o].id] = o
    /\ hostState[o] = "running" => hosts[home[open[o].id]] = o
    /\ o \in trees => o \in saved \/ sessions[o] # None \/ runtime[o] = "closing"

\* At its capacity too, whichever opens race for the last place: no more is
\* registered than fits, and what found no place leaves nothing behind.
DirectoryIsSound == CapacityHolds /\ NoOrphans

=============================================================================

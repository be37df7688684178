-------------------------- MODULE PermissionAuthority --------------------------
(***************************************************************************)
(* Who may do what: PermissionService (application/permission/service.py), *)
(* the approval workflow (workflow.py), the policy it asks                 *)
(* (domain/policy/permission/resolver.py) and the modes of a session and   *)
(* its child agents (domain/model/session/authorization.py).               *)
(*                                                                         *)
(* An invocation is decided on a snapshot, may wait for the user, is       *)
(* issued in a transaction, and its guard looks again at every use.  Users *)
(* change modes, rules and grants in between.  A rule is a pair: it covers *)
(* one call, or it opens a directory for reading or for writing.  How the  *)
(* rules match commands, paths and addresses is left out.                  *)
(***************************************************************************)
EXTENDS Naturals, FiniteSets

CONSTANTS
  Calls,       \* invocations of tools
  Sessions,    \* a conversation and its child agents
  Root,        \* the conversation: it owns what is granted
  SessionOf,   \* the session each call belongs to
  Ops,         \* the operations each call declares
  Place,       \* where its target is: "in", "outside" or "protected"
  DirOf,       \* the directory of its target
  MaxEdits     \* bound on the changes users make

\* What the constants have to be.
PermissionAuthorityAssumption ==
  /\ Root \in Sessions
  /\ SessionOf \in [Calls -> Sessions]

Dirs  == {DirOf[c] : c \in Calls}
Rules == {<<"call", c>> : c \in Calls} \cup ({"read", "write"} \X Dirs)

VARIABLES
  deny, ask,    \* settings.deny and settings.ask: the calls they match
  allow,        \* settings.allow of the user and the project
  grants,       \* the session rules of the owner
  mode,         \* permission_mode of each session, "unset" for the default
  interaction,  \* interaction_mode of each session
  host,         \* sessions whose execution mode is "host"
  inv,          \* each invocation
  edits         \* changes made by users

settings == <<deny, ask, allow, grants>>
modes    == <<mode, interaction, host>>
vars     == <<settings, modes, inv, edits>>

Modes        == {"unset", "default", "acceptEdits", "bypass", "plan"}
Interactions == {"agent", "plan", "ask"}

TypeOK ==
  /\ deny \subseteq Calls /\ ask \subseteq Calls
  /\ allow \subseteq Rules /\ grants \subseteq Rules
  /\ mode \in [Sessions -> Modes]
  /\ interaction \in [Sessions -> Interactions]
  /\ host \subseteq Sessions
  /\ \A c \in Calls :
       /\ inv[c].at \in {"idle", "asked", "issue", "live", "ended"}
       /\ inv[c].as \in Calls /\ inv[c].rewritten \in BOOLEAN
       /\ inv[c].approved \in BOOLEAN /\ inv[c].change \subseteq Rules

-----------------------------------------------------------------------------
(* Snapshots: what a session is subject to at one moment.                  *)

\* combine_modes: a plan anywhere in the lineage, else the mode of the oldest
\* session that has one.
CombinedMode(s) ==
  IF "plan" \in {mode[s], mode[Root]} THEN "plan"
  ELSE IF mode[Root] # "unset" THEN mode[Root]
  ELSE IF mode[s] # "unset" THEN mode[s] ELSE "default"

\* The strictest interaction mode of the lineage.
CombinedInteraction(s) ==
  LET both == {interaction[s], interaction[Root]} IN
  IF "ask" \in both THEN "ask" ELSE IF "plan" \in both THEN "plan" ELSE "agent"

Snapshot(s) ==
  [deny |-> deny, ask |-> ask, rules |-> allow \cup grants,
   mode |-> CombinedMode(s), interaction |-> CombinedInteraction(s), host |-> s \in host]

Blank == [deny |-> {}, ask |-> {}, rules |-> {}, mode |-> "default",
          interaction |-> "agent", host |-> FALSE]

-----------------------------------------------------------------------------
(* PermissionResolver.prepare and PermissionPolicy.evaluate.               *)

AskOps  == {"file_read", "user_interaction"}
PlanOps == AskOps \cup {"plan_update"}
Edits   == {"file_read", "file_write"}

\* AccessScope.classify: inside the workspace or a directory that was opened.
InScope(p, c) ==
  \/ Place[c] = "in"
  \/ Place[c] = "outside" /\ p.rules \cap ({"read", "write"} \X {DirOf[c]}) # {}

ReadOnly(p) == {d \in Dirs : <<"read", d>> \in p.rules}

\* Protected targets, commands outside the scope, writes to read-only places.
Refused(p, c) ==
  \/ Place[c] = "protected"
  \/ "shell" \in Ops[c] /\ ~InScope(p, c)
  \/ "file_write" \in Ops[c] /\ DirOf[c] \in ReadOnly(p)

\* Ask and plan are ceilings: no rule and no bypass widens them.
AboveCeiling(p, c) ==
  \/ p.interaction = "ask" /\ ~(Ops[c] \subseteq AskOps)
  \/ "plan" \in {p.mode, p.interaction} /\ ~(Ops[c] \subseteq PlanOps)

Denied(p, c) == Refused(p, c) \/ AboveCeiling(p, c) \/ c \in p.deny

\* Ask rules and undeclared effects come before the allow rules.
MustAsk(p, c) == c \in p.ask \/ "unknown" \in Ops[c]

Covered(p, c) ==
  \/ <<"call", c>> \in p.rules
  \/ Ops[c] \subseteq {"file_read"} /\ <<"read", DirOf[c]>> \in p.rules
  \/ Ops[c] \subseteq Edits /\ <<"write", DirOf[c]>> \in p.rules

ByMode(p, c) ==
  /\ InScope(p, c)
  /\ \/ p.mode \in {"bypass", "acceptEdits"} /\ Ops[c] \subseteq Edits
     \/ p.mode = "bypass" /\ Ops[c] \subseteq {"shell", "plan_update", "user_interaction"}
     \/ Ops[c] \subseteq {"file_read", "plan_update"}

Decision(p, c) ==
  IF Denied(p, c) THEN "deny"
  ELSE IF "user_interaction" \in Ops[c] THEN "ask"
  ELSE IF ~MustAsk(p, c) /\ (Covered(p, c) \/ ByMode(p, c)) THEN "allow" ELSE "ask"

-----------------------------------------------------------------------------
(* PermissionService.authorize and AuthorizationWorkflow.resolve.          *)

Idle(c) == [at |-> "idle", as |-> c, snap |-> Blank, rewritten |-> FALSE,
            approved |-> FALSE, change |-> {}]

Init ==
  /\ deny = {} /\ ask = {} /\ allow = {} /\ grants = {}
  /\ mode = [s \in Sessions |-> "unset"]
  /\ interaction = [s \in Sessions |-> "agent"]
  /\ host = {}
  /\ inv = [c \in Calls |-> Idle(c)]
  /\ edits = 0

Now(c) == Snapshot(SessionOf[c])

End(c) == inv' = [inv EXCEPT ![c] = [Idle(c) EXCEPT !.at = "ended"]]

\* Decided on the snapshot p, as the arguments of call d.
Decide(c, d, p, rewritten) ==
  IF Decision(p, d) = "deny" THEN End(c)
  ELSE inv' = [inv EXCEPT ![c] = [Idle(c) EXCEPT
                 !.at = IF Decision(p, d) = "ask" THEN "asked" ELSE "issue",
                 !.as = d, !.snap = p, !.rewritten = rewritten]]

\* The call is decided on a snapshot.
Resolve(c) ==
  /\ inv[c].at = "idle"
  /\ Decide(c, c, Now(c), FALSE)
  /\ UNCHANGED <<settings, modes, edits>>

\* What the user may remember with an approval: nothing, the call, its directory.
Offered(c) ==
  {{}} \cup (IF "unknown" \in Ops[c] THEN {}
             ELSE {{<<"call", c>>}} \cup (IF Ops[c] \subseteq Edits
                  THEN {{<<kind, DirOf[c]>>} : kind \in IF "file_write" \in Ops[c] THEN {"write"}
                                                        ELSE {"read", "write"}}
                  ELSE {}))

\* The user approves, for this invocation or for longer.
Approve(c) ==
  /\ inv[c].at = "asked"
  /\ \E change \in Offered(inv[c].as) :
       inv' = [inv EXCEPT ![c].at = "issue", ![c].approved = TRUE, ![c].change = change]
  /\ UNCHANGED <<settings, modes, edits>>

\* The user approves other arguments: they are decided from scratch, on the
\* same snapshot, and may not be changed a second time.
Rewrite(c) ==
  /\ inv[c].at = "asked"
  /\ \E d \in Calls \ {inv[c].as} :
       /\ SessionOf[d] = SessionOf[c]
       /\ IF inv[c].rewritten THEN End(c) ELSE Decide(c, d, inv[c].snap, TRUE)
  /\ UNCHANGED <<settings, modes, edits>>

\* The user denies, the adapter fails, or the mailbox has seen that the
\* permissions changed while the user thought about it.
Reject(c) ==
  /\ inv[c].at = "asked"
  /\ End(c)
  /\ UNCHANGED <<settings, modes, edits>>

\* validate(): nothing has changed since the snapshot.
Unchanged(c) == Now(c) = inv[c].snap

\* commit: what is to be remembered goes to the conversation or to the stores.
Commit(change) ==
  \/ grants' = grants \cup change /\ UNCHANGED allow
  \/ allow' = allow \cup change /\ UNCHANGED grants

\* The transaction: validated, what the user wanted remembered is committed
\* for the owner, and the guard's baseline is what holds afterwards.
Issue(c) ==
  /\ inv[c].at = "issue"
  /\ IF Unchanged(c)
     THEN \/ /\ Commit(inv[c].change)
             /\ inv' = [inv EXCEPT ![c].at = "live", ![c].change = {},
                                   ![c].snap = [Now(c) EXCEPT !.rules = @ \cup inv[c].change]]
          \* The commit fails: rules and stores are as before, the call ends.
          \/ inv[c].change # {} /\ End(c) /\ UNCHANGED <<grants, allow>>
     ELSE End(c) /\ UNCHANGED <<grants, allow>>
  /\ UNCHANGED <<deny, ask, modes, edits>>

-----------------------------------------------------------------------------
(* execution_guard: at every use of what was issued.                       *)

\* A guard that only looks for what was revoked.
GuardRevoked(base, p) == base.rules \subseteq p.rules

\* Additions are permitted; removals, restrictions and other modes are not.
Guard(base, p) ==
  /\ p.host = base.host
  /\ p.deny = base.deny /\ p.ask = base.ask
  /\ p.mode = base.mode /\ p.interaction = base.interaction
  /\ ReadOnly(p) = ReadOnly(base)
  /\ base.rules \subseteq p.rules

\* A use of the execution or the network passes the guard, and may come again.
Use(c) ==
  /\ inv[c].at = "live"
  /\ Guard(inv[c].snap, Now(c))
  /\ UNCHANGED <<inv, settings, modes, edits>>

\* The guard raises, or the tool returns.
Finish(c) ==
  /\ inv[c].at = "live"
  /\ End(c)
  /\ UNCHANGED <<settings, modes, edits>>

-----------------------------------------------------------------------------
(* What users change meanwhile.                                            *)

Edit == edits < MaxEdits /\ edits' = edits + 1 /\ UNCHANGED inv

\* set_modes, for the conversation or a child agent; what is not given stays.
SetModes(s) ==
  /\ Edit
  /\ \/ \E m \in Modes \ {"unset"} : mode' = [mode EXCEPT ![s] = m] /\ UNCHANGED <<interaction, host>>
     \/ \E i \in Interactions : interaction' = [interaction EXCEPT ![s] = i] /\ UNCHANGED <<mode, host>>
     \/ host' = (host \cup {s}) \ (host \cap {s}) /\ UNCHANGED <<mode, interaction>>
  /\ UNCHANGED settings

\* The settings files are edited: a restriction comes or goes.
EditRestrictions ==
  /\ Edit
  /\ \E c \in Calls :
       \/ deny' = (deny \cup {c}) \ (deny \cap {c}) /\ UNCHANGED ask
       \/ ask' = (ask \cup {c}) \ (ask \cap {c}) /\ UNCHANGED deny
  /\ UNCHANGED <<allow, grants, modes>>

\* grant_resource: a directory is opened from the interface.
GrantResource ==
  /\ Edit
  /\ \E kind \in {"read", "write"}, d \in Dirs : Commit({<<kind, d>>})
  /\ UNCHANGED <<deny, ask, modes>>

\* revoke: a session, project or user rule is removed.
Revoke ==
  /\ Edit
  /\ \E r \in Rules :
       \/ r \in grants /\ grants' = grants \ {r} /\ UNCHANGED allow
       \/ r \in allow /\ allow' = allow \ {r} /\ UNCHANGED grants
  /\ UNCHANGED <<deny, ask, modes>>

-----------------------------------------------------------------------------
Next ==
  \/ \E c \in Calls :
       Resolve(c) \/ Approve(c) \/ Rewrite(c) \/ Reject(c) \/ Issue(c) \/ Use(c) \/ Finish(c)
  \/ \E s \in Sessions : SetModes(s)
  \/ EditRestrictions \/ GrantResource \/ Revoke

Spec == Init /\ [][Next]_vars

-----------------------------------------------------------------------------
\* Whatever users change between the decision, the approval, the issue and a
\* use: what the guard lets pass is not denied by the policy of that moment, and
\* is allowed by it unless the user has approved this very invocation.
UseIsAuthorized ==
  \A c \in Calls :
    inv[c].at = "live" /\ Guard(inv[c].snap, Now(c)) =>
      /\ Decision(Now(c), inv[c].as) # "deny"
      /\ inv[c].approved \/ Decision(Now(c), inv[c].as) = "allow"

\* While the conversation is in plan or ask mode no child agent of it writes or
\* runs a command, whatever its own mode and its rules say.
CeilingCoversChildren ==
  \A c \in Calls :
    /\ inv[c].at = "live" /\ Guard(inv[c].snap, Now(c))
    /\ mode[Root] = "plan" \/ interaction[Root] \in {"plan", "ask"}
    => Ops[inv[c].as] \subseteq PlanOps

=============================================================================

---------------------------- MODULE PermissionRules ----------------------------
(***************************************************************************)
(* What a permission rule matches, and what an approval remembers          *)
(* (domain/policy/permission/settings.py and resolver.py,                  *)
(* application/permission/workflow.py, service.py,                         *)
(* infrastructure/config/permission_store.py).                             *)
(*                                                                         *)
(* PermissionAuthority is about when a call is decided; this module is     *)
(* about the answer.  The rules of the user, of the project and of the     *)
(* conversation meet in one policy; a user who is asked may answer for     *)
(* this once, or choose one of the rules that the prompt offers.  Later    *)
(* the conversation may end, and another begin in another workspace of     *)
(* the same project.                                                       *)
(*                                                                         *)
(* A path is the sequence of its names.  A call is a record: its `targets` *)
(* pair a path with an operation, and are relative to the workspace when   *)
(* `inside` is TRUE; a command is a `line`, with the `segments` that       *)
(* deny and ask rules see and the `programs` that the splitter for command *)
(* rules sees, both empty when they cannot tell; a request to the web has  *)
(* a `host` and a `method`.                                                *)
(***************************************************************************)
EXTENDS Naturals, FiniteSets, SequencesExt

CONSTANTS
  Calls,
  Workspaces,     \* roots of the workspaces of the project
  Protected,      \* paths of the permission files
  Installed,      \* programs that the shell finds
  Restrictions,   \* the rules that users may write under deny or ask
  Lifetimes,      \* some of "session", "project", "user"
  None,
  MaxApprovals,   \* bound: remembered approvals
  MaxEdits        \* bound: other changes by users

\* What a tool declares (ToolAccess): a file is read or written, a directory
\* read; a command is plain if it is one program.  A call that names several
\* files is left out, since no rule is offered for it.
WellFormed(c) ==
  /\ c.kind \in {"file", "directory"} =>
       /\ c.inside \in BOOLEAN
       /\ c.targets # {} /\ c.ops = {t[2] : t \in c.targets}
       /\ \A t, u \in c.targets : t[1] \in Seq(STRING) /\ u[1] = t[1]
       /\ c.ops \subseteq IF c.kind = "file" THEN {"file_read", "file_write"} ELSE {"file_read"}
  /\ c.kind = "shell" =>
       /\ c.plain \in BOOLEAN
       /\ c.programs \in Seq(Seq(STRING) \ {<<>>})
       /\ c.plain => c.programs # <<>>
  /\ c.kind = "web" => c.programs = <<>>

\* What the constants have to be.
PermissionRulesAssumption ==
  /\ Lifetimes \subseteq {"session", "project", "user"}
  /\ {MaxApprovals, MaxEdits} \subseteq Nat
  /\ Workspaces \subseteq Seq(STRING)
  /\ \A c \in Calls : c.kind \in {"file", "directory", "shell", "web"} /\ WellFormed(c)

VARIABLES
  rules,      \* what was remembered: pairs of a lifetime and a rule
  deny, ask,  \* the restrictions in force
  mode,
  workspace,  \* where the conversation works
  approvals,  \* history: what users have been shown, and chosen
  edits

vars == <<rules, deny, ask, mode, workspace, approvals, edits>>

Modes == {"default", "acceptEdits", "bypass", "plan"}

Init ==
  /\ rules = {} /\ deny = {} /\ ask = {} /\ approvals = {}
  /\ mode = "default"
  /\ workspace \in Workspaces
  /\ edits = 0

\* PermissionSnapshot.
Policy == [rules |-> {r[2] : r \in rules}, deny |-> deny, ask |-> ask, mode |-> mode, at |-> workspace]

-----------------------------------------------------------------------------
(* Paths and scopes. *)

Under(path, root) == IsPrefix(root, path)

Parent(path) == Front(path)

\* The backend resolves a target in the working directory.
Files(p, c) ==
  {[path |-> IF c.inside THEN p.at \o t[1] ELSE t[1], op |-> t[2]] : t \in c.targets}

Target(p, c) == (CHOOSE f \in Files(p, c) : TRUE).path

\* resource_root.
RootOf(p, rule) == IF rule.inside THEN p.at \o rule.path ELSE rule.path

Directories(p) == {r \in p.rules : r.kind = "directory"}

\* AccessScope: the workspace and the directories that were opened.
Roots(p) == {p.at} \cup {RootOf(p, r) : r \in Directories(p)}

InScope(p, c) == \A f \in Files(p, c) : \E root \in Roots(p) : Under(f.path, root)

ReadOnly(p) == {RootOf(p, r) : r \in {d \in Directories(p) : "file_write" \notin d.ops}}

-----------------------------------------------------------------------------
(* PermissionRule.matches. *)

\* component_match: one name for each name of the pattern.
Glob(pattern, path) ==
  /\ Len(pattern) = Len(path)
  /\ \A i \in DOMAIN pattern : pattern[i] \in {"*", path[i]}

\* Mutant of Operated: a rule for reading answers for writing.
OperatedAnyway(rule, op) == TRUE

Operated(rule, op) == op \in rule.ops

\* One target.  A remembered file is exact; a file that a restriction names is
\* a pattern in the workspace.
FileMatches(p, rule, f) ==
  /\ Operated(rule, f.op)
  /\ IF rule.kind = "directory" THEN Under(f.path, RootOf(p, rule))
     ELSE IF rule.exact THEN f.path = RootOf(p, rule)
     ELSE Under(f.path, p.at) /\ Glob(rule.path, SubSeq(f.path, Len(p.at) + 1, Len(f.path)))

\* The sandbox of a command: where it runs, and what it can reach.
SandboxKey(p) == <<p.at, Roots(p), ReadOnly(p)>>

\* covers: the program, and the first arguments.
Covers(rule, argv) == argv # <<>> /\ Head(argv) \in Installed /\ IsPrefix(rule.argv, argv)

\* direct_command_argv: the one program that the line names, if it is that plain.
Argv(c) == IF c.plain THEN c.programs[1] ELSE <<>>

\* A restriction matches what it cannot read.
Restricts(p, rule, c) ==
  CASE rule.kind = "shell" -> c.kind = "shell" /\ (c.segments = <<>> \/ rule.program \in Range(c.segments))
    [] rule.kind = "network" -> c.kind = "web" /\ rule.host \in {c.host, None}
    [] rule.kind = "file" -> c.kind \in {"file", "directory"} /\ \E f \in Files(p, c) : FileMatches(p, rule, f)

\* A compound command is allowed once each of its programs is; then the line
\* itself counts as allowed.
Answered(p, c) ==
  /\ ~c.plain /\ c.programs # <<>>
  /\ \A argv \in Range(c.programs) : \E r \in p.rules : r.kind = "command" /\ Covers(r, argv)

Allows(p, rule, c) ==
  CASE rule.kind = "command" -> c.kind = "shell" /\ Covers(rule, Argv(c))
    [] rule.kind = "shell" -> c.kind = "shell" /\ rule.line = c.line /\ rule.key = SandboxKey(p)
    [] rule.kind = "network" ->
         c.kind = "web" /\ rule.host = c.host /\ c.method = rule.method /\ rule.page \in {c.page, None}
    [] rule.kind \in {"file", "directory"} -> FALSE

\* Every target by itself, or the call as a whole.
Allowed(p, c) ==
  IF c.kind \in {"file", "directory"}
    THEN \A f \in Files(p, c) : \E r \in p.rules :
           r.kind \in {"file", "directory"} /\ FileMatches(p, r, f)
    ELSE Answered(p, c) \/ \E r \in p.rules : Allows(p, r, c)

-----------------------------------------------------------------------------
(* PermissionResolver.prepare and PermissionPolicy.evaluate. *)

Edits == {"file_read", "file_write"}

\* Protected files, programs that are not found, and writes below a directory
\* that was opened for reading only.
Refused(p, c) ==
  \/ \E f \in Files(p, c) : \E root \in Protected : Under(f.path, root)
  \/ ~c.plain /\ \E argv \in Range(c.programs) : Head(argv) \notin Installed
  \/ \E f \in Files(p, c) : f.op = "file_write" /\ \E root \in ReadOnly(p) : Under(f.path, root)

Ceiling(p, c) == p.mode = "plan" /\ ~(c.ops \subseteq {"file_read", "network_read"})

Denied(p, c) ==
  Refused(p, c) \/ Ceiling(p, c) \/ \E r \in p.deny : Restricts(p, r, c)

MustAsk(p, c) == \E r \in p.ask : Restricts(p, r, c)

ByMode(p, c) ==
  /\ InScope(p, c)
  /\ \/ p.mode \in {"bypass", "acceptEdits"} /\ c.ops \subseteq Edits
     \/ p.mode = "bypass" /\ c.ops = {"shell"}
     \/ c.ops = {"file_read"}

Decision(p, c) ==
  IF Denied(p, c) THEN "deny"
  ELSE IF ~MustAsk(p, c) /\ (Allowed(p, c) \/ ByMode(p, c)) THEN "allow" ELSE "ask"

-----------------------------------------------------------------------------
(* The choices of a prompt. *)

FileRule(path, ops)      == [kind |-> "file", path |-> path, inside |-> FALSE, exact |-> TRUE, ops |-> ops]
DirectoryRule(path, ops) == [kind |-> "directory", path |-> path, inside |-> FALSE, ops |-> ops]
CommandRule(argv)        == [kind |-> "command", argv |-> argv]
ShellRule(p, c)          == [kind |-> "shell", line |-> c.line, key |-> SandboxKey(p)]
NetworkRule(c, page)     == [kind |-> "network", host |-> c.host, method |-> c.method, page |-> page]

\* _rememberable_rule, and the directory around the file.
FileChoices(p, c) ==
  LET path == Target(p, c)
      around == IF c.kind = "file" THEN Parent(path) ELSE path
  IN
  {{IF c.kind = "file" THEN FileRule(path, c.ops) ELSE DirectoryRule(path, {"file_read"})}}
    \cup {{DirectoryRule(around, Edits)}}
    \cup (IF "file_write" \in c.ops THEN {} ELSE {{DirectoryRule(around, {"file_read"})}})

\* The programs of a compound command that have no rule yet.
Missing(p, c) ==
  {argv[1] : argv \in {a \in Range(c.programs) : ~\E r \in p.rules : r.kind = "command" /\ Covers(r, a)}}

ReadingSubcommands == {"status", "log"}

\* The program with any arguments; the reading subcommands of git; or all the
\* programs that are missing.
CommandChoices(p, c) ==
  IF c.plain
    THEN IF Head(Argv(c)) \in Installed
           THEN {{CommandRule(<<Head(Argv(c))>>)}}
                  \cup {{CommandRule(SubSeq(Argv(c), 1, n))} :
                          n \in {m \in {2} : Len(Argv(c)) >= m /\ Argv(c)[2] \in ReadingSubcommands}}
           ELSE {}
    ELSE IF Missing(p, c) = {} THEN {} ELSE {{CommandRule(<<program>>) : program \in Missing(p, c)}}

WebChoices(c) ==
  IF c.method = "GET" THEN {{NetworkRule(c, c.page)}, {NetworkRule(c, None)}} ELSE {}

\* What may be chosen: a lifetime and the rules.  The line of a command is only
\* remembered in the conversation.
Offers(p, c) ==
  (CASE c.kind \in {"file", "directory"} -> Lifetimes \X FileChoices(p, c)
     [] c.kind = "shell" ->
          (Lifetimes \X CommandChoices(p, c)) \cup ((Lifetimes \cap {"session"}) \X {{ShellRule(p, c)}})
     [] c.kind = "web" -> Lifetimes \X WebChoices(c))

\* _allowed: in the workspace, a rule of the conversation or of the project is
\* relative to the workspace.
Placed(p, lifetime, rule) ==
  IF lifetime # "user" /\ rule.kind \in {"file", "directory"} /\ Under(rule.path, p.at)
    THEN [rule EXCEPT !.inside = TRUE, !.path = SubSeq(@, Len(p.at) + 1, Len(@))]
    ELSE rule

-----------------------------------------------------------------------------
(* Steps. *)

\* The user answers a prompt with a rule, and the call runs.
Approve(c) ==
  /\ Decision(Policy, c) = "ask" /\ Cardinality(approvals) < MaxApprovals
  /\ \E choice \in Offers(Policy, c) :
       /\ rules' = rules \cup {<<choice[1], Placed(Policy, choice[1], r)>> : r \in choice[2]}
       /\ approvals' = approvals \cup
            {[call |-> c, lifetime |-> choice[1], shown |-> choice[2], at |-> workspace,
             before |-> rules]}
  /\ UNCHANGED <<deny, ask, mode, workspace, edits>>

Edited == edits < MaxEdits /\ edits' = edits + 1

\* revoke, from the permission page.
Revoke(r) ==
  /\ r \in rules /\ Edited
  /\ rules' = rules \ {r}
  /\ UNCHANGED <<deny, ask, mode, workspace, approvals>>

AddRestriction(r) ==
  /\ Edited
  /\ \/ r \notin deny /\ deny' = deny \cup {r} /\ UNCHANGED ask
     \/ r \notin ask /\ ask' = ask \cup {r} /\ UNCHANGED deny
  /\ UNCHANGED <<rules, mode, workspace, approvals>>

SetMode(m) ==
  /\ m # mode /\ Edited
  /\ mode' = m
  /\ UNCHANGED <<rules, deny, ask, workspace, approvals>>

\* Another conversation of the same project, in this workspace or another.
NewSession(w) ==
  /\ Edited
  /\ workspace' = w
  /\ rules' = {r \in rules : r[1] # "session"}
  /\ UNCHANGED <<deny, ask, mode, approvals>>

Next ==
  \/ \E c \in Calls : Approve(c)
  \/ \E r \in rules : Revoke(r)
  \/ \E r \in Restrictions : AddRestriction(r)
  \/ \E m \in Modes : SetMode(m)
  \/ \E w \in Workspaces : NewSession(w)

Spec == Init /\ [][Next]_vars

-----------------------------------------------------------------------------
(* Properties. *)

\* Every variable has its type.
TypeOK ==
  /\ \A r \in rules :
       r[1] \in Lifetimes /\ r[2].kind \in {"file", "directory", "shell", "command", "network"}
  /\ deny \subseteq Restrictions /\ ask \subseteq Restrictions
  /\ mode \in Modes /\ workspace \in Workspaces /\ edits \in 0..MaxEdits

\* The part of an approval that is still in force.
Live(a) == {r \in a.shown : <<a.lifetime, Placed([at |-> a.at], a.lifetime, r)>> \in rules}

\* The path that a user was shown, seen from the workspace of now: a rule of the
\* project about a file of the workspace is about that file in each workspace.
ShownPath(a, r) ==
  IF a.lifetime # "user" /\ Under(r.path, a.at)
    THEN workspace \o SubSeq(r.path, Len(a.at) + 1, Len(r.path)) ELSE r.path

\* What an approval said that it answers.
Answers(a, c) ==
  \E r \in Live(a) :
    CASE c.kind = "shell" ->
           \/ r.kind = "shell" /\ r.line = c.line
           \/ r.kind = "command" /\ c.plain /\ IsPrefix(r.argv, c.programs[1])
      [] c.kind = "web" -> r.kind = "network" /\ r.host = c.host /\ c.method = r.method
      [] OTHER -> FALSE

AnswersFile(a, f) ==
  \E r \in Live(a) :
    /\ r.kind \in {"file", "directory"} /\ f.op \in r.ops
    /\ r.kind = "file" => f.path = ShownPath(a, r)
    /\ r.kind = "directory" => Under(f.path, ShownPath(a, r))

\* What is allowed and would be asked without any rule was approved: each
\* target, the command or each of its programs, the host, by a user who was
\* shown it, in a conversation or a project that is still the same.
OnlyTheApproved ==
  \A c \in Calls :
    Decision(Policy, c) = "allow" /\ ~ByMode(Policy, c) =>
      \/ \E a \in approvals : Answers(a, c)
      \/ c.targets # {} /\ \A f \in Files(Policy, c) : \E a \in approvals : AnswersFile(a, f)
      \/ c.kind = "shell" /\ c.programs # <<>> /\
           \A argv \in Range(c.programs) : \E a \in approvals :
             \E r \in Live(a) : r.kind = "command" /\ IsPrefix(r.argv, argv)

\* What was approved is not asked again: the same call, in the same place, goes
\* through while no restriction and no mode stops it.  A file of the workspace
\* and a command are tied to the workspace, a line of shell to the directories
\* that its sandbox could reach.
RememberedIsAnswered ==
  \A a \in approvals :
    LET c == a.call IN
    (/\ Live(a) = a.shown /\ a.before \subseteq rules
     /\ ~Denied(Policy, c) /\ ~MustAsk(Policy, c)
     /\ c.kind = "shell" \/ (\E f \in Files([at |-> a.at], c) : Under(f.path, a.at)) => workspace = a.at
     /\ \A r \in Live(a) : r.kind = "shell" => r.key = SandboxKey(Policy))
    => Decision(Policy, c) = "allow"

\* Rules are what users approved: no more in another place, no less in the same.
RulesAreApprovals == OnlyTheApproved /\ RememberedIsAnswered

=============================================================================

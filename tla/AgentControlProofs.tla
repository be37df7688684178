--------------------------- MODULE AgentControlProofs ---------------------------
(***************************************************************************)
(* Proofs about AgentControl, for any limits and any number of tasks: the  *)
(* budgets of a turn hold, the checkpoint of the plane can be loaded, and  *)
(* nothing begins for an agent that is cancelled.                          *)
(***************************************************************************)
EXTENDS AgentControl, FiniteSetTheorems, WellFoundedInduction, TLAPS

-----------------------------------------------------------------------------
(* Sums over finite sets.                                                  *)

\* Among the natural numbers that a set holds there is a least one.
LEMMA LeastNumber ==
  ASSUME NEW T \in SUBSET Nat, T # {}
  PROVE  \E n \in T : \A m \in T : n <= m
<1> DEFINE U == {1..n : n \in T}
<1>1. U \subseteq FiniteSubsetsOf(Nat) /\ U # {}
  <2>1. ASSUME NEW n \in T
        PROVE  1..n \in FiniteSubsetsOf(Nat)
    <3>1. IsFiniteSet(1..n)
      BY FS_Interval
    <3>2. 1..n \subseteq Nat
      OBVIOUS
    <3> QED
      BY <3>1, <3>2 DEF FiniteSubsetsOf
  <2> QED
    BY <2>1
<1>2. PICK u \in U : \A v \in U : ~ (<<v, u>> \in StrictSubsetOrdering(Nat))
  <2> HIDE DEF U
  <2> QED
    BY <1>1, WFMin, FS_StrictSubsetOrderingWellFounded
<1>3. PICK n \in T : u = 1..n
  OBVIOUS
<1>4. ASSUME NEW m \in T, m < n
      PROVE  FALSE
  <2>1. 1..m \subseteq 1..n /\ n \in 1..n /\ n \notin 1..m
    BY <1>4
  <2>2. <<1..m, u>> \in StrictSubsetOrdering(Nat)
    BY <2>1, <1>3 DEF StrictSubsetOrdering
  <2> QED
    BY <1>2, <2>2
<1> QED
  BY <1>4

\* The element a sum takes first.
Pick(s) == CHOOSE x \in s : TRUE

\* g adds up f over the subsets of S with at most n elements.
Adds(g, f, S, n) ==
  g = [s \in {r \in SUBSET S : Cardinality(r) <= n} |->
         IF s = {} THEN 0 ELSE f[Pick(s)] + g[s \ {Pick(s)}]]

LEMMA SumIsFunction ==
  ASSUME NEW S, IsFiniteSet(S), NEW f, NEW n \in Nat
  PROVE  \E g : Adds(g, f, S, n)
<1> DEFINE T == {m \in Nat : ~ \E g : Adds(g, f, S, m)}
<1>1. SUFFICES ASSUME T # {} PROVE FALSE
  OBVIOUS
<1>2. PICK m \in T : \A k \in T : m <= k
  BY <1>1, LeastNumber
<1>3. \A s \in SUBSET S : IsFiniteSet(s) /\ Cardinality(s) \in Nat
  BY FS_Subset, FS_CardinalityType
<1>4. CASE m = 0
  <2> DEFINE g == [s \in {r \in SUBSET S : Cardinality(r) <= 0} |-> 0]
  <2>1. \A s \in SUBSET S : Cardinality(s) <= 0 => s = {}
    BY <1>3, FS_EmptySet
  <2>2. Adds(g, f, S, 0)
    BY <2>1 DEF Adds
  <2> QED
    BY <1>4, <2>2
<1>5. CASE m # 0
  <2>1. m - 1 \in Nat /\ m - 1 \notin T
    BY <1>2, <1>5
  <2>2. PICK g : Adds(g, f, S, m - 1)
    BY <2>1
  <2> DEFINE h == [s \in {r \in SUBSET S : Cardinality(r) <= m} |->
                     IF s = {} THEN 0 ELSE f[Pick(s)] + g[s \ {Pick(s)}]]
  <2>3. ASSUME NEW s \in SUBSET S, s # {}
        PROVE  /\ s \ {Pick(s)} \in SUBSET S
               /\ Cardinality(s \ {Pick(s)}) = Cardinality(s) - 1
    <3>1. Pick(s) \in s
      BY <2>3 DEF Pick
    <3> QED
      BY <3>1, <1>3, FS_RemoveElement
  <2>4. ASSUME NEW s \in SUBSET S, Cardinality(s) <= m - 1
        PROVE  g[s] = h[s]
    <3>1. s \in {r \in SUBSET S : Cardinality(r) <= m - 1} /\ Cardinality(s) <= m
      BY <2>4, <1>3, <2>1
    <3> HIDE DEF T
    <3>2. g[s] = IF s = {} THEN 0 ELSE f[Pick(s)] + g[s \ {Pick(s)}]
      BY <3>1, <2>2 DEF Adds
    <3> QED
      BY <3>1, <3>2
  <2>5. ASSUME NEW s \in SUBSET S, Cardinality(s) <= m, s # {}
        PROVE  g[s \ {Pick(s)}] = h[s \ {Pick(s)}]
    <3>1. Cardinality(s \ {Pick(s)}) <= m - 1
      BY <2>5, <2>3, <1>3, <2>1
    <3> HIDE DEF h, T
    <3> QED
      BY <2>5, <2>3, <2>4, <3>1
  <2>6. Adds(h, f, S, m)
    BY <2>5 DEF Adds
  <2> QED
    BY <2>6
<1> QED
  BY <1>4, <1>5

\* g has the sum of f over each subset of S.
Unfolds(g, f, S) ==
  \A s \in SUBSET S : g[s] = IF s = {} THEN 0 ELSE f[Pick(s)] + g[s \ {Pick(s)}]

\* What SumFunctionOnSet computes over the subsets of a finite set.
LEMMA SumUnfolds ==
  ASSUME NEW S, IsFiniteSet(S), NEW f
  PROVE  \E g : SumFunctionOnSet(f, S) = g[S] /\ Unfolds(g, f, S)
<1> DEFINE iter == CHOOSE g : g = [s \in SUBSET S |->
                     IF s = {} THEN 0 ELSE f[Pick(s)] + g[s \ {Pick(s)}]]
<1>1. SumFunctionOnSet(f, S) = iter[S]
  BY DEF SumFunctionOnSet, FoldFunctionOnSet, MapThenFoldSet, Pick
<1>2. \A s \in SUBSET S : Cardinality(s) <= Cardinality(S)
  BY FS_Subset
<1>3. \E g : Adds(g, f, S, Cardinality(S))
  BY SumIsFunction, FS_CardinalityType
<1>4. \E g : g = [s \in SUBSET S |->
                    IF s = {} THEN 0 ELSE f[Pick(s)] + g[s \ {Pick(s)}]]
  <2>1. {r \in SUBSET S : Cardinality(r) <= Cardinality(S)} = SUBSET S
    BY <1>2
  <2> QED
    BY <2>1, <1>3 DEF Adds
<1>5. iter = [s \in SUBSET S |->
                IF s = {} THEN 0 ELSE f[Pick(s)] + iter[s \ {Pick(s)}]]
  BY <1>4
<1> HIDE DEF iter
<1> QED
  BY <1>1, <1>5 DEF Unfolds

\* Among the subsets of a finite set there are smallest ones of any kind.
LEMMA SmallestSubset ==
  ASSUME NEW S, IsFiniteSet(S), NEW B \in SUBSET (SUBSET S), B # {}
  PROVE  \E s \in B : \A r \in SUBSET S : r \subseteq s /\ r # s => r \notin B
<1>1. B \subseteq FiniteSubsetsOf(S)
  BY FS_FiniteSubsetsOfFinite
<1>2. PICK s \in B : \A r \in B : ~ (<<r, s>> \in StrictSubsetOrdering(S))
  BY <1>1, WFMin, FS_StrictSubsetOrderingWellFounded
<1> QED
  BY <1>2 DEF StrictSubsetOrdering

\* A sum starts at 0 and takes one element after the other.
LEMMA SumStep ==
  ASSUME NEW S, IsFiniteSet(S), NEW f
  PROVE  SumFunctionOnSet(f, S) =
           IF S = {} THEN 0 ELSE f[Pick(S)] + SumFunctionOnSet(f, S \ {Pick(S)})
<1>1. PICK g : SumFunctionOnSet(f, S) = g[S] /\ Unfolds(g, f, S)
  BY SumUnfolds
<1>2. CASE S = {}
  BY <1>1, <1>2 DEF Unfolds
<1>3. CASE S # {}
  <2> DEFINE T == S \ {Pick(S)}
  <2>1. IsFiniteSet(T) /\ T \in SUBSET S
    BY FS_Subset
  <2>2. PICK h : SumFunctionOnSet(f, T) = h[T] /\ Unfolds(h, f, T)
    <3> HIDE DEF T
    <3> QED
      BY <2>1, SumUnfolds
  <2> HIDE DEF T
  <2> DEFINE B == {s \in SUBSET T : g[s] # h[s]}
  <2>3. B = {}
    <3>1. SUFFICES ASSUME B # {} PROVE FALSE
      OBVIOUS
    <3>2. PICK s \in B : \A r \in SUBSET T : r \subseteq s /\ r # s => r \notin B
      <4> HIDE DEF B
      <4>1. B \in SUBSET (SUBSET T)
        BY DEF B
      <4> QED
        BY <2>1, <3>1, <4>1, SmallestSubset
    <3>3. CASE s = {}
      BY <3>2, <3>3, <1>1, <2>1, <2>2 DEF Unfolds
    <3>4. CASE s # {}
      <4>1. Pick(s) \in s
        BY <3>4 DEF Pick
      <4>2. g[s \ {Pick(s)}] = h[s \ {Pick(s)}]
        BY <4>1, <3>2
      <4> QED
        BY <3>2, <3>4, <4>2, <1>1, <2>1, <2>2 DEF Unfolds
    <3> QED
      BY <3>3, <3>4
  <2>4. g[T] = h[T]
    BY <2>3
  <2> QED
    BY <1>1, <1>3, <2>2, <2>4 DEF T, Unfolds
<1> QED
  BY <1>2, <1>3

LEMMA SumEmpty ==
  ASSUME NEW f
  PROVE  SumFunctionOnSet(f, {}) = 0
BY SumStep, FS_EmptySet

LEMMA SumNat ==
  ASSUME NEW S, IsFiniteSet(S), NEW f, \A x \in S : f[x] \in Nat
  PROVE  SumFunctionOnSet(f, S) \in Nat
<1> DEFINE B == {s \in SUBSET S : SumFunctionOnSet(f, s) \notin Nat}
<1>1. SUFFICES ASSUME B # {} PROVE FALSE
  OBVIOUS
<1>2. PICK s \in B : \A r \in SUBSET S : r \subseteq s /\ r # s => r \notin B
  <2> HIDE DEF B
  <2>1. B \in SUBSET (SUBSET S)
    BY DEF B
  <2> QED
    BY <1>1, <2>1, SmallestSubset
<1>3. IsFiniteSet(s)
  BY FS_Subset
<1>4. CASE s = {}
  BY <1>2, <1>4, SumEmpty
<1>5. CASE s # {}
  <2>1. Pick(s) \in s
    BY <1>5 DEF Pick
  <2>2. SumFunctionOnSet(f, s \ {Pick(s)}) \in Nat
    BY <2>1, <1>2
  <2>3. SumFunctionOnSet(f, s) = f[Pick(s)] + SumFunctionOnSet(f, s \ {Pick(s)})
    BY <1>3, <1>5, SumStep
  <2>4. f[Pick(s)] \in Nat
    BY <2>1
  <2> QED
    BY <1>2, <2>2, <2>3, <2>4
<1> QED
  BY <1>4, <1>5

\* Any element may be taken first.
LEMMA SumTakes ==
  ASSUME NEW S, IsFiniteSet(S), NEW f, \A x \in S : f[x] \in Nat, NEW x \in S
  PROVE  SumFunctionOnSet(f, S) = f[x] + SumFunctionOnSet(f, S \ {x})
<1> DEFINE Sum(s) == SumFunctionOnSet(f, s)
<1> DEFINE B == {s \in SUBSET S : \E y \in s : Sum(s) # f[y] + Sum(s \ {y})}
<1> HIDE DEF Sum
<1>1. SUFFICES ASSUME B # {} PROVE FALSE
  BY DEF Sum
<1>2. PICK s \in B : \A r \in SUBSET S : r \subseteq s /\ r # s => r \notin B
  <2> HIDE DEF B
  <2>1. B \in SUBSET (SUBSET S)
    BY DEF B
  <2> QED
    BY <1>1, <2>1, SmallestSubset
<1>3. PICK y \in s : Sum(s) # f[y] + Sum(s \ {y})
  BY <1>2
<1>4. \A r \in SUBSET S : IsFiniteSet(r) /\ Sum(r) \in Nat
  BY FS_Subset, SumNat DEF Sum
<1>5. Pick(s) \in s
  BY <1>3 DEF Pick
<1>6. Sum(s) = f[Pick(s)] + Sum(s \ {Pick(s)})
  BY <1>4, <1>3, SumStep DEF Sum
<1>7. Pick(s) # y
  BY <1>3, <1>6
<1> DEFINE r == (s \ {Pick(s)}) \ {y}
<1>8. Sum(s \ {Pick(s)}) = f[y] + Sum(r)
  <2>1. s \ {Pick(s)} \in SUBSET S /\ s \ {Pick(s)} # s /\ y \in s \ {Pick(s)}
    BY <1>5, <1>7
  <2>2. s \ {Pick(s)} \notin B
    BY <1>2, <2>1
  <2> QED
    BY <2>1, <2>2
<1>9. Sum(s \ {y}) = f[Pick(s)] + Sum(r)
  <2>1. s \ {y} \in SUBSET S /\ s \ {y} # s /\ Pick(s) \in s \ {y}
    BY <1>5, <1>7
  <2>2. s \ {y} \notin B
    BY <1>2, <2>1
  <2>3. (s \ {y}) \ {Pick(s)} = r
    OBVIOUS
  <2> QED
    BY <2>1, <2>2, <2>3
<1>10. Sum(r) \in Nat /\ f[y] \in Nat /\ f[Pick(s)] \in Nat
  BY <1>4, <1>5
<1> QED
  BY <1>3, <1>6, <1>8, <1>9, <1>10

\* A sum over fewer elements, or of smaller ones, is not greater.
LEMMA SumMonotone ==
  ASSUME NEW S, IsFiniteSet(S), NEW R \in SUBSET S, NEW f, NEW g,
         \A x \in S : g[x] \in Nat, \A x \in R : f[x] \in Nat /\ f[x] <= g[x]
  PROVE  SumFunctionOnSet(f, R) <= SumFunctionOnSet(g, S)
<1> DEFINE Part(s) == SumFunctionOnSet(f, R \cap s)
           All(s)  == SumFunctionOnSet(g, s)
           B == {s \in SUBSET S : ~ (Part(s) <= All(s))}
<1>1. SUFFICES ASSUME B # {} PROVE FALSE
  <2>1. R \cap S = R
    OBVIOUS
  <2> QED
    BY <2>1
<1>2. PICK s \in B : \A r \in SUBSET S : r \subseteq s /\ r # s => r \notin B
  <2> HIDE DEF B
  <2>1. B \in SUBSET (SUBSET S)
    BY DEF B
  <2> QED
    BY <1>1, <2>1, SmallestSubset
<1>3. \A r \in SUBSET S : IsFiniteSet(r) /\ IsFiniteSet(R \cap r)
  BY FS_Subset
<1>4. \A r \in SUBSET S : Part(r) \in Nat /\ All(r) \in Nat
  BY <1>3, SumNat
<1>5. CASE s = {}
  <2>1. R \cap s = {}
    BY <1>5
  <2> QED
    BY <1>2, <1>5, <2>1, SumEmpty
<1>6. CASE s # {}
  <2>1. PICK x \in s : TRUE
    BY <1>6
  <2> DEFINE r == s \ {x}
  <2>2. Part(r) <= All(r)
    BY <1>2, <2>1
  <2>3. All(s) = g[x] + All(r)
    BY <1>3, <2>1, SumTakes
  <2>4. Part(s) = IF x \in R THEN f[x] + Part(r) ELSE Part(r)
    <3>1. CASE x \in R
      <4>1. x \in R \cap s /\ (R \cap s) \ {x} = R \cap r
        BY <2>1, <3>1
      <4>2. IsFiniteSet(R \cap s) /\ \A y \in R \cap s : f[y] \in Nat
        BY <1>3
      <4>3. SumFunctionOnSet(f, R \cap s) = f[x] + SumFunctionOnSet(f, (R \cap s) \ {x})
        BY <4>1, <4>2, SumTakes
      <4> QED
        BY <3>1, <4>1, <4>3
    <3>2. CASE x \notin R
      <4>1. R \cap s = R \cap r
        BY <3>2
      <4> QED
        BY <3>2, <4>1
    <3> QED
      BY <3>1, <3>2
  <2>5. Part(r) \in Nat /\ All(r) \in Nat /\ g[x] \in Nat
    BY <1>4, <2>1
  <2> HIDE DEF Part, All, r
  <2> QED
    BY <1>2, <2>1, <2>2, <2>3, <2>4, <2>5
<1> QED
  BY <1>5, <1>6

-----------------------------------------------------------------------------
(* The inductive invariant.                                                *)

\* The states of an agent that has a thread, or is going to get one.
Busy == {"assemble", "queued", "model", "llm", "reply", "tools", "over"}

\* Identifiers are given in order, parents before their children; a task has
\* used no more than it was given.
RecordsInOrder ==
  \A t \in Ids :
    /\ t > counter => t \notin Stored
    /\ t \notin Stored => task[t] = NoTask
    /\ task[t].parent < t
    /\ task[t].used <= task[t].budget /\ task[t].tokens <= task[t].budget

\* What begin_task has reserved in a turn, and ended tasks have used.
ReservedHolds == \A u \in 0..config.turns : Committed(u) <= config.steps

\* In a turn that has used up its tokens, what has used any is cancelled.
SpentIsCancelled ==
  \A u \in 0..config.turns :
    Tokens(u) >= config.tokens =>
      \A t \in TurnTasks(u) \cap Live : task[t].tokens > 0 => task[t].cancel

\* What the plane holds.
PlaneInv ==
  /\ config \in Configs /\ task \in [Ids -> TaskRecord] /\ counter \in 0..MaxIds
  /\ RecordsInOrder /\ SnapshotLoads /\ ReservedHolds /\ SpentIsCancelled

\* The types of what is not in the plane.
RestTypes ==
  /\ turn \in 0..config.turns /\ root \in {"idle", "busy"} /\ stopped \in BOOLEAN
  /\ agent \in [Ids -> {"none", "assemble", "queued", "model", "llm", "reply", "tools",
                        "over", "callback", "gone"}]
  /\ todo \in [Ids -> 0..MaxBatch] /\ steps \in [Ids -> 0..config.steps]
  /\ verdict \in [Ids -> {"none", "answered", "unanswered", "raised", "dropped"}]
  /\ deadline \subseteq Ids /\ background \subseteq Ids
  /\ told \subseteq background /\ heard \subseteq told
  /\ pool \in {"open", "closing", "closed"} /\ faults \in 0..MaxFaults

\* A thread works for a running task, within what the task was given, and its
\* rounds are in the record when the task has ended.
ThreadInStep(t) ==
  /\ agent[t] \in Busy => t \in Live
  /\ t > counter => agent[t] = "none" /\ verdict[t] = "none"
  /\ verdict[t] = "dropped" => agent[t] \in {"callback", "gone"}
  /\ agent[t] \in {"none", "assemble", "queued"} \/ verdict[t] = "dropped" => steps[t] = 0
  /\ agent[t] \in Busy \ {"over"} => task[t].tokens <= steps[t]
  /\ agent[t] = "tools" => task[t].depth < config.depth
  /\ t \in Live => Rounds(t) <= task[t].budget
  /\ task[t].status \in Terminal /\ verdict[t] # "raised" => Rounds(t) <= task[t].used

ThreadsInStep == \A t \in Ids : ThreadInStep(t)

\* Who waits in the executor is in the background, and is announced at its end.
QueuesInStep ==
  \A t \in Ids :
    /\ agent[t] \in {"queued", "callback"} => t \in background
    /\ t \in told => agent[t] = "gone"

Inv == TypeOK /\ PlaneInv /\ ThreadsInStep /\ QueuesInStep

-----------------------------------------------------------------------------
(* Limits, identifiers and records.                                        *)

LEMMA Limits ==
  ASSUME config \in Configs
  PROVE  /\ {config.depth, config.children, config.per_turn, config.stored,
             config.concurrent, config.steps, config.tokens, config.requested}
              \subseteq Nat \ {0}
         /\ config.turns \in Nat
BY ControlAssumption

LEMMA SomeIds ==
  /\ MaxIds \in Nat \ {0} /\ Ids \subseteq Nat \ {0} /\ IsFiniteSet(Ids)
  /\ \A S \in SUBSET Ids : IsFiniteSet(S)
<1>1. MaxIds \in Nat \ {0}
  BY ControlAssumption
<1>2. IsFiniteSet(Ids)
  BY <1>1, FS_Interval DEF Ids
<1>3. \A S \in SUBSET Ids : IsFiniteSet(S)
  BY <1>2, FS_Subset
<1>4. Ids \subseteq Nat \ {0}
  BY <1>1 DEF Ids
<1> QED
  BY <1>1, <1>2, <1>3, <1>4

LEMMA LesserOfTwo ==
  ASSUME NEW a \in Int, NEW b \in Int
  PROVE  Min({a, b}) = IF a <= b THEN a ELSE b
BY DEF Min

\* The fields of a record.
LEMMA Fields ==
  ASSUME PlaneInv, NEW t \in Ids
  PROVE  /\ task[t] \in TaskRecord
         /\ task[t].status \in Terminal \cup {"none", "running"}
         /\ task[t].turn \in 0..config.turns /\ task[t].parent \in 0..MaxIds
         /\ task[t].depth \in 0..config.depth /\ task[t].budget \in Nat
         /\ task[t].budget <= config.steps /\ task[t].used \in Nat
         /\ task[t].used <= config.steps /\ task[t].tokens \in Nat
         /\ task[t].tokens <= config.steps /\ task[t].cancel \in BOOLEAN
         /\ task[t].children \in SUBSET Ids
BY Limits DEF PlaneInv, TaskRecord

\* The sums over a turn are sums of numbers over a finite set.
LEMMA TurnSums ==
  ASSUME PlaneInv, NEW u
  PROVE  /\ TurnTasks(u) \in SUBSET Ids /\ IsFiniteSet(TurnTasks(u))
         /\ \A t \in Ids : Taken(t) \in Nat /\ Taken(t) <= task[t].budget
         /\ Committed(u) \in Nat /\ Tokens(u) \in Nat
<1>1. TurnTasks(u) \in SUBSET Ids /\ IsFiniteSet(TurnTasks(u))
  BY SomeIds DEF TurnTasks, Stored
<1>2. \A t \in Ids : Taken(t) \in Nat /\ Taken(t) <= task[t].budget
  BY Fields DEF Taken, PlaneInv, RecordsInOrder
<1>3. Committed(u) \in Nat
  <2> DEFINE f == [t \in Ids |-> Taken(t)]
  <2>1. \A t \in TurnTasks(u) : f[t] \in Nat
    BY <1>1, <1>2
  <2> HIDE DEF f
  <2>2. SumFunctionOnSet(f, TurnTasks(u)) \in Nat
    BY <1>1, <2>1, SumNat
  <2> QED
    BY <2>2 DEF Committed, f
<1>4. Tokens(u) \in Nat
  <2> DEFINE f == [t \in Ids |-> task[t].tokens]
  <2>1. \A t \in TurnTasks(u) : f[t] \in Nat
    BY <1>1, Fields
  <2> HIDE DEF f
  <2>2. SumFunctionOnSet(f, TurnTasks(u)) \in Nat
    BY <1>1, <2>1, SumNat
  <2> QED
    BY <2>2 DEF Tokens, f
<1> QED
  BY <1>1, <1>2, <1>3, <1>4

-----------------------------------------------------------------------------
(* Steps that end or cancel tasks.                                         *)

\* A task is cancelled, or ends, but neither comes back nor grows.
Calm ==
  /\ UNCHANGED <<config, counter>> /\ task' \in [Ids -> TaskRecord]
  /\ \A t \in Ids :
       /\ task'[t].turn = task[t].turn /\ task'[t].parent = task[t].parent
       /\ task'[t].depth = task[t].depth /\ task'[t].budget = task[t].budget
       /\ task'[t].tokens = task[t].tokens /\ task'[t].children = task[t].children
       /\ task[t].cancel => task'[t].cancel
       /\ t \notin Live => task'[t] = task[t]
       /\ t \in Live =>
            \/ task'[t].status = "running" /\ task'[t].used = task[t].used
            \/ task'[t].status \in Terminal /\ task'[t].used <= task[t].budget

LEMMA CalmKeepsTurns ==
  ASSUME PlaneInv, Calm
  PROVE  /\ Stored' = Stored /\ Live' \subseteq Live
         /\ \A u : TurnTasks(u)' = TurnTasks(u) /\ Tokens(u)' = Tokens(u)
<1>1. \A t \in Ids : task'[t].status # "none" <=> task[t].status # "none"
  BY DEF Calm, Live, Terminal
<1>2. Stored' = Stored
  BY <1>1 DEF Stored
<1>3. Live' \subseteq Live
  BY DEF Calm, Live
<1>4. \A u : TurnTasks(u)' = TurnTasks(u)
  BY <1>2 DEF TurnTasks, Calm, Stored
<1>5. [t \in Ids |-> task'[t].tokens] = [t \in Ids |-> task[t].tokens]
  BY DEF Calm
<1>6. \A u : Tokens(u)' = Tokens(u)
  BY <1>4, <1>5 DEF Tokens
<1> QED
  BY <1>2, <1>3, <1>4, <1>6

LEMMA CalmKeepsPlane ==
  ASSUME PlaneInv, Calm
  PROVE  PlaneInv'
<1>1. Stored' = Stored /\ Live' \subseteq Live
  BY CalmKeepsTurns
<1>2. (config \in Configs /\ task \in [Ids -> TaskRecord] /\ counter \in 0..MaxIds)'
  <2>1. TaskRecord' = TaskRecord
    BY DEF Calm, TaskRecord
  <2> QED
    BY <2>1 DEF Calm, PlaneInv
<1>3. RecordsInOrder'
  <2> SUFFICES ASSUME NEW t \in Ids
               PROVE  /\ t > counter => t \notin Stored
                      /\ t \notin Stored => task'[t] = NoTask
                      /\ task'[t].parent < t
                      /\ task'[t].used <= task'[t].budget
                      /\ task'[t].tokens <= task'[t].budget
    BY <1>1 DEF RecordsInOrder, Calm
  <2>1. t \notin Stored => t \notin Live
    BY DEF Stored, Live
  <2> QED
    BY <2>1 DEF PlaneInv, RecordsInOrder, Calm
<1>4. SnapshotLoads'
  <2> SUFFICES ASSUME NEW t \in Stored
               PROVE  /\ task'[t].used <= task'[t].budget
                      /\ task'[t].parent = 0 => task'[t].depth = 1
                      /\ task'[t].parent # 0 =>
                           task'[t].parent \in Stored /\ t \in task'[task'[t].parent].children
                      /\ \A c \in task'[t].children :
                           /\ c \in Stored /\ task'[c].parent = t
                           /\ task'[c].turn = task'[t].turn
                           /\ task'[c].depth = task'[t].depth + 1
    BY <1>1 DEF SnapshotLoads
  <2>1. \A s \in Stored : s \in Ids
    BY DEF Stored
  <2>2. task'[t].used <= task'[t].budget
    BY <1>3, <2>1 DEF RecordsInOrder
  <2> QED
    BY <2>1, <2>2 DEF PlaneInv, SnapshotLoads, Calm
<1>5. ReservedHolds'
  <2> SUFFICES ASSUME NEW u \in 0..config.turns
               PROVE  Committed(u)' <= config.steps
    BY DEF ReservedHolds, Calm
  <2> DEFINE f == [t \in Ids |-> Taken(t)']
             g == [t \in Ids |-> Taken(t)]
  <2>1. \A t \in Ids : /\ Taken(t) \in Nat /\ Taken(t)' \in Nat
                       /\ Taken(t)' <= Taken(t)
    <3> TAKE t \in Ids
    <3>1. Taken(t) \in Nat
      BY TurnSums
    <3>2. task'[t] \in TaskRecord /\ config.steps \in Nat
      BY Limits DEF Calm, PlaneInv
    <3>3. CASE t \notin Live
      BY <3>1, <3>3 DEF Calm, Taken
    <3>4. CASE t \in Live
      BY <3>1, <3>2, <3>4, Fields DEF Calm, Taken, Live, Terminal, TaskRecord
    <3> QED
      BY <3>3, <3>4
  <2>2. TurnTasks(u)' = TurnTasks(u) /\ IsFiniteSet(TurnTasks(u)) /\ TurnTasks(u) \subseteq Ids
    BY CalmKeepsTurns, TurnSums
  <2>3. \A t \in TurnTasks(u) : f[t] \in Nat /\ g[t] \in Nat /\ f[t] <= g[t]
    BY <2>1, <2>2
  <2> HIDE DEF f, g
  <2>4. SumFunctionOnSet(f, TurnTasks(u)) <= SumFunctionOnSet(g, TurnTasks(u))
    BY <2>2, <2>3, SumMonotone
  <2>5. SumFunctionOnSet(f, TurnTasks(u)) \in Nat
    BY <2>2, <2>3, SumNat
  <2>6. /\ Committed(u) = SumFunctionOnSet(g, TurnTasks(u))
        /\ Committed(u)' = SumFunctionOnSet(f, TurnTasks(u))
    BY <2>2 DEF Committed, f, g
  <2> QED
    BY <2>4, <2>5, <2>6, TurnSums, Limits DEF PlaneInv, ReservedHolds
<1>6. SpentIsCancelled'
  <2> SUFFICES ASSUME NEW u \in 0..config.turns, Tokens(u)' >= config.tokens,
                      NEW t \in TurnTasks(u)' \cap Live', task'[t].tokens > 0
               PROVE  task'[t].cancel
    BY DEF SpentIsCancelled, Calm
  <2>1. t \in TurnTasks(u) \cap Live /\ t \in Ids /\ Tokens(u) >= config.tokens
    BY CalmKeepsTurns DEF Live
  <2> QED
    BY <2>1 DEF PlaneInv, SpentIsCancelled, Calm
<1> QED
  BY <1>2, <1>3, <1>4, <1>5, <1>6 DEF PlaneInv

\* A record that is cancelled.
LEMMA CancelledRecord ==
  ASSUME NEW r \in TaskRecord, NEW q, q = [r EXCEPT !.cancel = TRUE]
  PROVE  /\ q \in TaskRecord /\ q.cancel
         /\ q.status = r.status /\ q.turn = r.turn /\ q.parent = r.parent
         /\ q.depth = r.depth /\ q.budget = r.budget /\ q.used = r.used
         /\ q.tokens = r.tokens /\ q.children = r.children
BY DEF TaskRecord

LEMMA FlaggedIsCalm ==
  ASSUME PlaneInv, NEW roots, task' = Flagged(roots), UNCHANGED <<config, counter>>
  PROVE  Calm /\ Live' = Live
<1> DEFINE hit == Live \cap UNION {Subtree(t) : t \in roots}
<1>1. task' = [t \in Ids |-> IF t \in hit THEN [task[t] EXCEPT !.cancel = TRUE] ELSE task[t]]
  BY DEF Flagged
<1>2. hit \subseteq Live
  OBVIOUS
<1> HIDE DEF hit
<1>3. \A t \in Ids :
        /\ task'[t] \in TaskRecord
        /\ task[t].cancel => task'[t].cancel
        /\ task'[t].status = task[t].status /\ task'[t].turn = task[t].turn
        /\ task'[t].parent = task[t].parent /\ task'[t].depth = task[t].depth
        /\ task'[t].budget = task[t].budget /\ task'[t].used = task[t].used
        /\ task'[t].tokens = task[t].tokens /\ task'[t].children = task[t].children
        /\ t \notin Live => task'[t] = task[t]
  <2> TAKE t \in Ids
  <2>1. CASE t \in hit
    <3>1. task'[t] = [task[t] EXCEPT !.cancel = TRUE] /\ task[t] \in TaskRecord
      BY <1>1, <2>1, Fields
    <3> QED
      BY <1>2, <2>1, <3>1, CancelledRecord
  <2>2. CASE t \notin hit
    BY <1>1, <2>2, Fields
  <2> QED
    BY <2>1, <2>2
<1>4. task' \in [Ids -> TaskRecord]
  <2>1. \A t \in Ids : task'[t] \in TaskRecord
    BY <1>3
  <2> QED
    BY <1>1, <2>1
<1> QED
  BY <1>3, <1>4 DEF Calm, Live

LEMMA UnchangedIsCalm ==
  ASSUME PlaneInv, UNCHANGED planeVars
  PROVE  Calm /\ Live' = Live
BY DEF Calm, Live, PlaneInv, planeVars

\* finish_task after the cancellations of cancelled().
LEMMA SettledIsCalm ==
  ASSUME PlaneInv, NEW roots, NEW table \in {task, Flagged(roots)}, NEW t \in Ids,
         NEW status \in Terminal, NEW used \in Nat,
         task' = Settled(table, t, status, used), UNCHANGED <<config, counter>>
  PROVE  /\ Calm
         /\ t \in Live => /\ task'[t].status \in Terminal
                          /\ used <= task[t].budget => task'[t].used = used
         /\ \A s \in Ids \ {t} : task'[s].status = task[s].status /\ task'[s].used = task[s].used
<1> DEFINE hit == IF table = task THEN {} ELSE Live \cap UNION {Subtree(s) : s \in roots}
<1>1. table = [s \in Ids |-> IF s \in hit THEN [task[s] EXCEPT !.cancel = TRUE] ELSE task[s]]
  <2>1. CASE table = task
    BY <2>1 DEF PlaneInv
  <2>2. CASE table # task
    BY <2>2 DEF Flagged
  <2> QED
    BY <2>1, <2>2
<1>2. hit \subseteq Live
  OBVIOUS
<1> HIDE DEF hit
<1>3. \A s \in Ids :
        /\ table[s] \in TaskRecord
        /\ table[s].status = task[s].status /\ table[s].used = task[s].used
        /\ table[s].turn = task[s].turn /\ table[s].parent = task[s].parent
        /\ table[s].depth = task[s].depth /\ table[s].budget = task[s].budget
        /\ table[s].tokens = task[s].tokens /\ table[s].children = task[s].children
        /\ task[s].cancel => table[s].cancel
        /\ s \notin Live => table[s] = task[s]
  <2> TAKE s \in Ids
  <2>1. CASE s \in hit
    <3>1. table[s] = [task[s] EXCEPT !.cancel = TRUE] /\ task[s] \in TaskRecord
      BY <1>1, <2>1, Fields
    <3> QED
      BY <1>2, <2>1, <3>1, CancelledRecord
  <2>2. CASE s \notin hit
    BY <1>1, <2>2, Fields
  <2> QED
    BY <2>1, <2>2
<1>4. DOMAIN table = Ids
  BY <1>1
<1>5. CASE t \notin Live
  <2>1. task' = table
    BY <1>5 DEF Settled
  <2>2. task' \in [Ids -> TaskRecord]
    BY <1>1, <1>3, <2>1
  <2> QED
    BY <1>3, <1>5, <2>1, <2>2 DEF Calm, Live
<1>6. CASE t \in Live
  <2> DEFINE less == Min({used, table[t].budget})
  <2>1. /\ less \in Nat /\ less <= table[t].budget
        /\ used <= task[t].budget => less = used
    BY <1>3, Fields, LesserOfTwo
  <2> HIDE DEF less
  <2> DEFINE cancel == table[t].cancel \/ status \in {"cancelled", "timed_out"}
  <2>2. task' = [table EXCEPT ![t] = [@ EXCEPT !.status = status, !.used = less,
                                               !.cancel = cancel]]
    BY <1>6 DEF Settled, less
  <2>3. \A s \in Ids \ {t} : task'[s] = table[s]
    BY <1>4, <2>2
  <2>4. task'[t] = [table[t] EXCEPT !.status = status, !.used = less, !.cancel = cancel]
    BY <1>4, <2>2
  <2>5. /\ task'[t] \in TaskRecord /\ task'[t].status = status /\ task'[t].used = less
        /\ table[t].cancel => task'[t].cancel
        /\ task'[t].turn = task[t].turn /\ task'[t].parent = task[t].parent
        /\ task'[t].depth = task[t].depth /\ task'[t].budget = task[t].budget
        /\ task'[t].tokens = task[t].tokens /\ task'[t].children = task[t].children
    <3>1. less \in 0..config.steps
      BY <2>1, <1>3, Fields, Limits DEF PlaneInv
    <3> DEFINE r == table[t]
               q == task'[t]
    <3>2. r \in TaskRecord /\ cancel \in BOOLEAN
      BY <1>3 DEF TaskRecord
    <3>3. q = [r EXCEPT !.status = status, !.used = less, !.cancel = cancel]
      BY <2>4
    <3> HIDE DEF cancel, r, q
    <3>4. /\ q \in TaskRecord /\ q.status = status /\ q.used = less /\ q.cancel = cancel
          /\ q.turn = r.turn /\ q.parent = r.parent /\ q.depth = r.depth
          /\ q.budget = r.budget /\ q.tokens = r.tokens /\ q.children = r.children
      BY <3>1, <3>2, <3>3 DEF TaskRecord, Terminal
    <3> QED
      BY <1>3, <3>4 DEF cancel, r, q
  <2> HIDE DEF cancel
  <2>6. task' \in [Ids -> TaskRecord]
    <3>1. task' = [s \in Ids |-> task'[s]]
      BY <1>1, <2>2
    <3>2. \A s \in Ids : task'[s] \in TaskRecord
      BY <1>3, <2>3, <2>5
    <3> QED
      BY <3>1, <3>2
  <2>7. \A s \in Ids : task[s].cancel => task'[s].cancel
    BY <1>3, <2>3, <2>5
  <2>8. \A s \in Ids \ {t} : s \in Live => task'[s].status = "running"
    BY <1>3, <2>3 DEF Live
  <2> QED
    BY <1>3, <1>6, <2>1, <2>3, <2>5, <2>6, <2>7, <2>8 DEF Calm
<1> QED
  BY <1>5, <1>6

LEMMA InterruptedIsCalm ==
  ASSUME PlaneInv, task' = Interrupted, UNCHANGED <<config, counter>>
  PROVE  Calm /\ Live' = {}
<1>1. \A t \in Ids : task'[t] = IF t \in Live THEN [task[t] EXCEPT !.status = "failed", !.cancel = TRUE]
                                              ELSE task[t]
  BY DEF Interrupted
<1>2. \A t \in Ids :
        /\ task'[t] \in TaskRecord /\ task'[t].turn = task[t].turn
        /\ task'[t].parent = task[t].parent /\ task'[t].depth = task[t].depth
        /\ task'[t].budget = task[t].budget /\ task'[t].used = task[t].used
        /\ task'[t].tokens = task[t].tokens /\ task'[t].children = task[t].children
        /\ t \in Live => task'[t].cancel /\ task'[t].status = "failed"
        /\ t \notin Live => task'[t] = task[t]
  <2> TAKE t \in Ids
  <2>1. CASE t \in Live
    <3>1. task[t] \in TaskRecord /\ task[t].used \in 0..config.steps
      BY Fields, Limits DEF PlaneInv
    <3>2. [task[t] EXCEPT !.status = "failed", !.cancel = TRUE] =
            [task[t] EXCEPT !.status = "failed", !.used = task[t].used, !.cancel = TRUE]
      BY <3>1 DEF TaskRecord
    <3>3. "failed" \in Terminal
      BY DEF Terminal
    <3> DEFINE r == task[t]
               q == task'[t]
               used == task[t].used
    <3>4. /\ q = [r EXCEPT !.status = "failed", !.used = used, !.cancel = TRUE]
          /\ r \in TaskRecord /\ used \in 0..config.steps
      BY <1>1, <2>1, <3>1, <3>2
    <3> HIDE DEF r, q, used
    <3>5. /\ q \in TaskRecord /\ q.status = "failed" /\ q.used = used /\ q.cancel
          /\ q.turn = r.turn /\ q.parent = r.parent /\ q.depth = r.depth
          /\ q.budget = r.budget /\ q.tokens = r.tokens /\ q.children = r.children
      BY <3>3, <3>4 DEF TaskRecord, Terminal
    <3> QED
      BY <2>1, <3>5 DEF r, q, used
  <2>2. CASE t \notin Live
    BY <1>1, <2>2, Fields
  <2> QED
    BY <2>1, <2>2
<1>3. task' \in [Ids -> TaskRecord]
  BY <1>2 DEF Interrupted
<1>4. Live' = {}
  BY <1>2 DEF Live
<1> QED
  BY <1>2, <1>3, <1>4, Fields DEF Calm, Terminal, PlaneInv, RecordsInOrder

-----------------------------------------------------------------------------
(* The charge of a model call.                                             *)

LEMMA ChargedRecords ==
  ASSUME PlaneInv, NEW t \in Live, task[t].tokens < task[t].budget,
         task' = Charged(t), UNCHANGED <<config, counter>>
  PROVE  /\ t \in Ids /\ Stored' = Stored /\ Live' = Live
         /\ \A u : TurnTasks(u)' = TurnTasks(u)
         /\ task' \in [Ids -> TaskRecord]
         /\ Tokens(task[t].turn) + 1 >= config.tokens =>
              \A s \in Live : task[s].turn = task[t].turn => task'[s].cancel
         /\ \A s \in Ids :
              /\ task'[s].status = task[s].status /\ task'[s].used = task[s].used
              /\ task'[s].turn = task[s].turn /\ task'[s].parent = task[s].parent
              /\ task'[s].depth = task[s].depth /\ task'[s].budget = task[s].budget
              /\ task'[s].children = task[s].children
              /\ task'[s].tokens = task[s].tokens + IF s = t THEN 1 ELSE 0
              /\ task'[s].cancel \in BOOLEAN
              /\ task[s].cancel => task'[s].cancel
              /\ s \notin Stored => task'[s] = task[s]
<1> DEFINE more == [task EXCEPT ![t].tokens = @ + 1]
           spent == Tokens(task[t].turn) + 1 >= config.tokens
           hit(s) == spent /\ s \in Live /\ task[s].turn = task[t].turn
<1>1. t \in Ids
  BY DEF Live
<1>2. /\ more = [s \in Ids |-> more[s]]
      /\ \A s \in Ids : more[s] = IF s = t THEN [task[s] EXCEPT !.tokens = @ + 1] ELSE task[s]
  BY <1>1 DEF PlaneInv
<1>3. task' = IF spent THEN [s \in Ids |-> IF s \in Live /\ task[s].turn = task[t].turn
                                            THEN [more[s] EXCEPT !.cancel = TRUE] ELSE more[s]]
                       ELSE more
  BY DEF Charged
<1> HIDE DEF more, spent
<1>4. task' = [s \in Ids |-> task'[s]]
  BY <1>2, <1>3
<1>5. \A s \in Ids : task'[s] = IF hit(s) THEN [more[s] EXCEPT !.cancel = TRUE] ELSE more[s]
  BY <1>2, <1>3
<1> HIDE DEF hit
<1>6. \A s \in Ids :
        /\ task'[s].status = task[s].status /\ task'[s].used = task[s].used
        /\ task'[s].turn = task[s].turn /\ task'[s].parent = task[s].parent
        /\ task'[s].depth = task[s].depth /\ task'[s].budget = task[s].budget
        /\ task'[s].children = task[s].children
        /\ task'[s].tokens = task[s].tokens + IF s = t THEN 1 ELSE 0
        /\ task'[s].cancel \in BOOLEAN
        /\ task[s].cancel => task'[s].cancel
  <2> TAKE s \in Ids
  <2>1. /\ more[s].status = task[s].status /\ more[s].used = task[s].used
        /\ more[s].turn = task[s].turn /\ more[s].parent = task[s].parent
        /\ more[s].depth = task[s].depth /\ more[s].budget = task[s].budget
        /\ more[s].children = task[s].children /\ more[s].cancel = task[s].cancel
        /\ more[s].tokens = task[s].tokens + IF s = t THEN 1 ELSE 0
        /\ DOMAIN more[s] = DOMAIN task[s]
    BY <1>2, Fields DEF TaskRecord
  <2>2. /\ "cancel" \in DOMAIN task[s] /\ task[s].cancel \in BOOLEAN
    BY Fields DEF TaskRecord
  <2>3. CASE hit(s)
    <3>1. task'[s] = [more[s] EXCEPT !.cancel = TRUE]
      BY <1>5, <2>3
    <3> QED
      BY <2>1, <2>2, <3>1
  <2>4. CASE ~hit(s)
    BY <1>5, <2>1, <2>2, <2>4
  <2> QED
    BY <2>3, <2>4
<1>7. \A s \in Ids : s \notin Stored => task'[s] = task[s]
  BY <1>1, <1>2, <1>5 DEF hit, Live, Stored
<1>8. Stored' = Stored /\ Live' = Live
  BY <1>6 DEF Stored, Live
<1>9. \A u : TurnTasks(u)' = TurnTasks(u)
  BY <1>6, <1>8 DEF TurnTasks, Stored
<1>10. task' \in [Ids -> TaskRecord]
  <2>1. ASSUME NEW s \in Ids
        PROVE  task'[s] \in TaskRecord
    <3> DEFINE r == task[s]
               m == more[s]
               q == task'[s]
               n == task[s].tokens + IF s = t THEN 1 ELSE 0
    <3>1. n \in 0..config.steps
      <4>1. task[s].tokens \in Nat /\ task[s].tokens <= config.steps /\ config.steps \in Nat
        BY Fields, Limits DEF PlaneInv
      <4>2. s = t => task[s].tokens + 1 <= config.steps
        BY <1>1, <4>1, Fields
      <4> QED
        BY <4>1, <4>2
    <3>2. r \in TaskRecord /\ m = [r EXCEPT !.tokens = n]
      BY <1>2, Fields DEF TaskRecord
    <3>3. q = [m EXCEPT !.cancel = TRUE] \/ q = m
      BY <1>5
    <3> HIDE DEF r, m, q, n
    <3>4. m \in TaskRecord
      BY <3>1, <3>2 DEF TaskRecord
    <3>5. q \in TaskRecord
      BY <3>3, <3>4 DEF TaskRecord
    <3> QED
      BY <3>5 DEF q
  <2> QED
    BY <1>4, <2>1
<1>11. spent => \A s \in Live : task[s].turn = task[t].turn => task'[s].cancel
  <2> SUFFICES ASSUME spent, NEW s \in Live, task[s].turn = task[t].turn
               PROVE  task'[s].cancel
    OBVIOUS
  <2>1. s \in Ids /\ hit(s)
    BY DEF hit, Live
  <2>2. "cancel" \in DOMAIN more[s]
    BY <1>2, <2>1, Fields DEF TaskRecord
  <2> QED
    BY <1>5, <2>1, <2>2
<1> QED
  BY <1>1, <1>6, <1>7, <1>8, <1>9, <1>10, <1>11 DEF spent

LEMMA ChargedTokens ==
  ASSUME PlaneInv, NEW t \in Live, task[t].tokens < task[t].budget,
         task' = Charged(t), UNCHANGED <<config, counter>>, NEW u
  PROVE  Tokens(u)' = Tokens(u) + IF t \in TurnTasks(u) THEN 1 ELSE 0
<1> DEFINE f == [s \in Ids |-> task[s].tokens]
           g == [s \in Ids |-> task'[s].tokens]
           S == TurnTasks(u)
<1>1. S \in SUBSET Ids /\ IsFiniteSet(S) /\ TurnTasks(u)' = S
  BY TurnSums, ChargedRecords
<1>2. /\ \A s \in Ids : f[s] \in Nat /\ g[s] \in Nat
      /\ \A s \in Ids : g[s] = f[s] + IF s = t THEN 1 ELSE 0
  BY ChargedRecords, Fields
<1>3. Tokens(u) = SumFunctionOnSet(f, S) /\ Tokens(u)' = SumFunctionOnSet(g, S)
  BY <1>1 DEF Tokens
<1> HIDE DEF f, g, S
<1>4. \A R \in SUBSET S : t \notin R => SumFunctionOnSet(f, R) = SumFunctionOnSet(g, R)
  <2> SUFFICES ASSUME NEW R \in SUBSET S, t \notin R
               PROVE  SumFunctionOnSet(f, R) = SumFunctionOnSet(g, R)
    OBVIOUS
  <2>1. IsFiniteSet(R) /\ R \in SUBSET R /\ \A s \in R : f[s] \in Nat /\ g[s] = f[s]
    BY <1>1, <1>2, FS_Subset
  <2>2. /\ SumFunctionOnSet(f, R) \in Nat /\ SumFunctionOnSet(g, R) \in Nat
    BY <2>1, SumNat
  <2>3. SumFunctionOnSet(f, R) <= SumFunctionOnSet(g, R)
    BY <2>1, SumMonotone
  <2>4. SumFunctionOnSet(g, R) <= SumFunctionOnSet(f, R)
    BY <2>1, SumMonotone
  <2> QED
    BY <2>2, <2>3, <2>4
<1>5. CASE t \notin S
  BY <1>3, <1>4, <1>5, TurnSums DEF S
<1>6. CASE t \in S
  <2>1. \A s \in S : f[s] \in Nat /\ g[s] \in Nat
    BY <1>1, <1>2
  <2>2. SumFunctionOnSet(f, S) = f[t] + SumFunctionOnSet(f, S \ {t})
    BY <1>1, <1>6, <2>1, SumTakes
  <2>3. SumFunctionOnSet(g, S) = g[t] + SumFunctionOnSet(g, S \ {t})
    BY <1>1, <1>6, <2>1, SumTakes
  <2>4. SumFunctionOnSet(f, S \ {t}) = SumFunctionOnSet(g, S \ {t})
    BY <1>4
  <2>5. SumFunctionOnSet(f, S \ {t}) \in Nat /\ f[t] \in Nat /\ g[t] = f[t] + 1
    <3>1. IsFiniteSet(S \ {t}) /\ \A s \in S \ {t} : f[s] \in Nat
      BY <1>1, <2>1, FS_Subset
    <3> QED
      BY <1>1, <1>2, <1>6, <3>1, SumNat
  <2> QED
    BY <1>3, <1>6, <2>2, <2>3, <2>4, <2>5 DEF S
<1> QED
  BY <1>5, <1>6

LEMMA ChargedKeepsPlane ==
  ASSUME PlaneInv, NEW t \in Live, task[t].tokens < task[t].budget,
         task' = Charged(t), UNCHANGED <<config, counter>>
  PROVE  PlaneInv'
<1>1. (config \in Configs /\ task \in [Ids -> TaskRecord] /\ counter \in 0..MaxIds)'
  <2>1. TaskRecord' = TaskRecord
    BY DEF TaskRecord
  <2> QED
    BY <2>1, ChargedRecords DEF PlaneInv
<1>2. RecordsInOrder'
  <2> SUFFICES ASSUME NEW s \in Ids
               PROVE  /\ s > counter => s \notin Stored
                      /\ s \notin Stored => task'[s] = NoTask
                      /\ task'[s].parent < s
                      /\ task'[s].used <= task'[s].budget
                      /\ task'[s].tokens <= task'[s].budget
    BY ChargedRecords DEF RecordsInOrder
  <2>1. task'[s].tokens <= task'[s].budget
    BY ChargedRecords, Fields DEF PlaneInv, RecordsInOrder
  <2> QED
    BY <2>1, ChargedRecords DEF PlaneInv, RecordsInOrder
<1>3. SnapshotLoads'
  <2>1. Stored \in SUBSET Ids
    BY DEF Stored
  <2> QED
    BY <2>1, ChargedRecords DEF PlaneInv, SnapshotLoads
<1>4. ReservedHolds'
  <2>1. \A s \in Ids : Taken(s)' = Taken(s)
    BY ChargedRecords DEF Taken
  <2>2. \A u : Committed(u)' = Committed(u)
    <3>1. [s \in Ids |-> Taken(s)'] = [s \in Ids |-> Taken(s)]
      BY <2>1
    <3> QED
      BY <3>1, ChargedRecords DEF Committed
  <2> QED
    BY <2>2 DEF PlaneInv, ReservedHolds
<1>5. SpentIsCancelled'
  <2> SUFFICES ASSUME NEW u \in 0..config.turns, Tokens(u)' >= config.tokens,
                      NEW s \in TurnTasks(u)' \cap Live', task'[s].tokens > 0
               PROVE  task'[s].cancel
    BY DEF SpentIsCancelled
  <2>1. s \in TurnTasks(u) \cap Live /\ s \in Ids /\ task[s].turn = u
    BY ChargedRecords DEF Live, TurnTasks
  <2>2. CASE task[t].turn = u
    <3>1. t \in TurnTasks(u)
      BY <2>2 DEF TurnTasks, Live, Stored
    <3>2. Tokens(u) + 1 >= config.tokens
      BY <3>1, ChargedTokens
    <3> QED
      BY <2>1, <2>2, <3>2, ChargedRecords
  <2>3. CASE task[t].turn # u
    <3>1. t \notin TurnTasks(u) /\ s # t
      BY <2>1, <2>3 DEF TurnTasks
    <3>2. Tokens(u)' = Tokens(u)
      BY <3>1, ChargedTokens, TurnSums
    <3>3. task[s].tokens > 0
      BY <2>1, <3>1, ChargedRecords, Fields
    <3>4. task[s].cancel
      BY <2>1, <3>2, <3>3 DEF PlaneInv, SpentIsCancelled
    <3> QED
      BY <2>1, <3>4, ChargedRecords
  <2> QED
    BY <2>2, <2>3
<1> QED
  BY <1>1, <1>2, <1>3, <1>4, <1>5 DEF PlaneInv

-----------------------------------------------------------------------------
(* The begin of a task.                                                    *)

\* Who may begin a task: the root agent, or a running child above the depth limit.
MayBegin(p, u) ==
  /\ p \in 0..MaxIds /\ u \in 0..config.turns
  /\ p # 0 => p \in Live /\ task[p].turn = u /\ task[p].depth < config.depth

\* What is pruned are whole turns without a live task.
LEMMA PrunedTurns ==
  ASSUME PlaneInv, NEW u, NEW s \in Pruned(u)
  PROVE  /\ s \in Stored /\ s \in Ids /\ s \notin Live /\ task[s].turn # u
         /\ \A r \in Stored : task[r].turn = task[s].turn => r \in Pruned(u)
<1>1. s \in Stored /\ task[s].turn # u /\ TurnTasks(task[s].turn) \cap Live = {}
  BY DEF Pruned
<1>2. s \in TurnTasks(task[s].turn) /\ s \in Ids
  BY <1>1 DEF TurnTasks, Stored
<1>3. ASSUME NEW r \in Stored, task[r].turn = task[s].turn
      PROVE  r \in Pruned(u)
  <2> DEFINE old == {t \in Stored : task[t].turn # u /\ TurnTasks(task[t].turn) \cap Live = {}}
             Kept(w) == Cardinality({t \in old : task[t].turn < w}) < Cardinality(Stored) + 1 - config.stored
  <2>1. \A t : t \in Pruned(u) <=> t \in old /\ Kept(task[t].turn)
    BY DEF Pruned
  <2>2. r \in old
    BY <1>1, <1>3
  <2> HIDE DEF old, Kept
  <2> QED
    BY <1>3, <2>1, <2>2
<1> QED
  BY <1>1, <1>2, <1>3

\* The record of a new task.
LEMMA NewRecord ==
  ASSUME PlaneInv, NEW p, NEW u, MayBegin(p, u), HasRoom(p, u)
  PROVE  LET r == NewTask(p, u)
         IN  /\ r \in TaskRecord /\ r.status \in {"running", "failed"}
             /\ r.turn = u /\ r.parent = p
             /\ r.depth = IF p = 0 THEN 1 ELSE task[p].depth + 1
             /\ r.used = 0 /\ r.tokens = 0 /\ ~r.cancel /\ r.children = {}
             /\ r.status = "failed" => r.budget = 0
             /\ r.budget + Committed(u) <= config.steps
<1> DEFINE depth == IF p = 0 THEN 1 ELSE task[p].depth + 1
           fits == Cardinality(Live) < config.concurrent
           status == IF fits THEN "running" ELSE "failed"
           budget == IF fits THEN Allocation(u) ELSE 0
           r == NewTask(p, u)
<1>1. Committed(u) \in Nat /\ Committed(u) < config.steps /\ config.steps \in Nat
      /\ config.requested \in Nat
  BY TurnSums, Limits DEF PlaneInv, HasRoom
<1>2. Allocation(u) \in Nat /\ Allocation(u) + Committed(u) <= config.steps
  BY <1>1, LesserOfTwo DEF Allocation
<1>3. budget \in 0..config.steps /\ budget + Committed(u) <= config.steps
  BY <1>1, <1>2
<1>4. depth \in 0..config.depth
  <2>1. config.depth \in Nat \ {0}
    BY Limits DEF PlaneInv
  <2>2. p # 0 => p \in Ids
    BY SomeIds DEF MayBegin, Ids
  <2> QED
    BY <2>1, <2>2, Fields DEF MayBegin
<1>5. u \in 0..config.turns /\ p \in 0..MaxIds
  BY DEF MayBegin
<1>6. r = [NoTask EXCEPT !.status = status, !.turn = u, !.parent = p, !.depth = depth,
                         !.budget = budget]
  BY DEF NewTask
<1>7. status \in {"running", "failed"} /\ (status = "failed" => budget = 0)
  OBVIOUS
<1>8. 0 \in 0..config.steps
  BY <1>1
<1> HIDE DEF status, budget, depth, r
<1>9. /\ r \in TaskRecord /\ r.status = status /\ r.turn = u /\ r.parent = p
      /\ r.depth = depth /\ r.budget = budget
      /\ r.used = 0 /\ r.tokens = 0 /\ ~r.cancel /\ r.children = {}
  BY <1>3, <1>4, <1>5, <1>6, <1>7, <1>8 DEF TaskRecord, NoTask, Terminal
<1> QED
  BY <1>3, <1>7, <1>9 DEF r, depth

\* The identifier that begin_task gives, if it does.
Fresh(p, u) == IF HasRoom(p, u) THEN {counter + 1} ELSE {}

LEMMA BegunRecords ==
  ASSUME PlaneInv, NEW p, NEW u, MayBegin(p, u), Begin(p, u)
  PROVE  /\ config' = config /\ counter + 1 \in Ids /\ counter + 1 \notin Stored
         /\ counter' = IF HasRoom(p, u) THEN counter + 1 ELSE counter
         /\ task' \in [Ids -> TaskRecord]
         /\ \A s \in Pruned(u) : task'[s] = NoTask
         /\ \A s \in Ids \ (Pruned(u) \cup Fresh(p, u)) :
              /\ task'[s].status = task[s].status /\ task'[s].turn = task[s].turn
              /\ task'[s].parent = task[s].parent /\ task'[s].depth = task[s].depth
              /\ task'[s].budget = task[s].budget /\ task'[s].used = task[s].used
              /\ task'[s].tokens = task[s].tokens /\ task'[s].cancel = task[s].cancel
              /\ task'[s].children = task[s].children \cup IF s = p THEN Fresh(p, u) ELSE {}
              /\ s \notin Stored => task'[s] = NoTask
         /\ \A s \in Fresh(p, u) : task'[s] = NewTask(p, u)
<1> DEFINE t == counter + 1
           kept == [s \in Ids |-> IF s \in Pruned(u) THEN NoTask ELSE task[s]]
<1>1. config' = config /\ t \in Ids
  BY DEF Begin
<1>2. t \notin Stored
  <2>1. counter \in Nat
    BY SomeIds DEF PlaneInv
  <2> QED
    BY <1>1, <2>1 DEF PlaneInv, RecordsInOrder
<1>3. t \notin Pruned(u)
  BY <1>2, PrunedTurns
<1>4. NoTask \in TaskRecord
  <2>1. config.steps \in Nat /\ config.depth \in Nat /\ config.turns \in Nat /\ MaxIds \in Nat
    BY Limits, SomeIds DEF PlaneInv
  <2> QED
    BY <2>1 DEF NoTask, TaskRecord
<1>5. kept \in [Ids -> TaskRecord]
  BY <1>4 DEF PlaneInv
<1>6. \A s \in Ids : s \notin Stored => task[s] = NoTask
  BY DEF PlaneInv, RecordsInOrder
<1>7. CASE ~HasRoom(p, u)
  <2>1. task' = kept /\ counter' = counter
    BY <1>7 DEF Begin
  <2>2. Fresh(p, u) = {}
    BY <1>7 DEF Fresh
  <2>3. \A s \in Ids : task'[s] = IF s \in Pruned(u) THEN NoTask ELSE task[s]
    BY <2>1
  <2>4. \A s \in Pruned(u) : s \in Ids
    BY PrunedTurns
  <2> HIDE DEF kept
  <2> QED
    BY <1>1, <1>2, <1>5, <1>6, <1>7, <2>1, <2>2, <2>3, <2>4
<1>8. CASE HasRoom(p, u)
  <2>1. /\ task' = [s \in Ids |-> CASE s = t -> NewTask(p, u)
                                    [] s = p -> [kept[p] EXCEPT !.children = @ \cup {t}]
                                    [] OTHER -> kept[s]]
        /\ counter' = t
    BY <1>8 DEF Begin
  <2>2. Fresh(p, u) = {t}
    BY <1>8 DEF Fresh
  <2>3. p # t /\ p \notin Pruned(u)
    <3>1. p # 0 => p \in Live
      BY DEF MayBegin
    <3>2. p \in Live => p \in Stored
      BY DEF Live, Stored
    <3>3. t # 0
      BY <1>1, SomeIds
    <3> QED
      BY <1>2, <3>1, <3>2, <3>3, PrunedTurns, SomeIds
  <2>4. task'[t] = NewTask(p, u) /\ NewTask(p, u) \in TaskRecord
    <3>1. task'[t] = NewTask(p, u)
      BY <1>1, <2>1, <2>3
    <3> QED
      BY <1>8, <3>1, NewRecord
  <2>5. \A s \in Pruned(u) : s \in Ids /\ task'[s] = NoTask
    BY <1>3, <2>1, <2>3, PrunedTurns
  <2>6. \A s \in Ids : s \notin Pruned(u) /\ s # t /\ s # p => task'[s] = task[s]
    BY <2>1
  <2>7. p \in Ids => /\ task'[p] = [task[p] EXCEPT !.children = @ \cup {t}]
                     /\ p \in Stored
    <3>1. p \in Ids => p # 0
      BY SomeIds
    <3> QED
      BY <2>1, <2>3, <3>1 DEF MayBegin, Live, Stored
  <2> HIDE DEF t, kept
  <2>8. p \in Ids =>
          /\ task'[p] \in TaskRecord
          /\ task'[p].status = task[p].status /\ task'[p].turn = task[p].turn
          /\ task'[p].parent = task[p].parent /\ task'[p].depth = task[p].depth
          /\ task'[p].budget = task[p].budget /\ task'[p].used = task[p].used
          /\ task'[p].tokens = task[p].tokens /\ task'[p].cancel = task[p].cancel
          /\ task'[p].children = task[p].children \cup {t}
    <3> SUFFICES ASSUME p \in Ids
                 PROVE  /\ task'[p] \in TaskRecord
                        /\ task'[p].status = task[p].status /\ task'[p].turn = task[p].turn
                        /\ task'[p].parent = task[p].parent /\ task'[p].depth = task[p].depth
                        /\ task'[p].budget = task[p].budget /\ task'[p].used = task[p].used
                        /\ task'[p].tokens = task[p].tokens /\ task'[p].cancel = task[p].cancel
                        /\ task'[p].children = task[p].children \cup {t}
      OBVIOUS
    <3>1. task[p] \in TaskRecord
      BY Fields
    <3> QED
      BY <1>1, <2>7, <3>1 DEF TaskRecord
  <2>9. task' \in [Ids -> TaskRecord]
    <3>1. \A s \in Ids : task'[s] \in TaskRecord
      BY <1>4, <2>4, <2>5, <2>6, <2>8, Fields
    <3>2. task' = [s \in Ids |-> task'[s]]
      BY <2>1
    <3> QED
      BY <3>1, <3>2
  <2>10. ASSUME NEW s \in Ids \ (Pruned(u) \cup {t})
         PROVE  /\ task'[s].status = task[s].status /\ task'[s].turn = task[s].turn
                /\ task'[s].parent = task[s].parent /\ task'[s].depth = task[s].depth
                /\ task'[s].budget = task[s].budget /\ task'[s].used = task[s].used
                /\ task'[s].tokens = task[s].tokens /\ task'[s].cancel = task[s].cancel
                /\ task'[s].children = task[s].children \cup IF s = p THEN {t} ELSE {}
                /\ s \notin Stored => task'[s] = NoTask
    BY <1>6, <2>6, <2>7, <2>8
  <2> QED
    BY <1>1, <1>2, <1>8, <2>1, <2>2, <2>4, <2>5, <2>9, <2>10 DEF t
<1> QED
  BY <1>7, <1>8

\* How the sets of tasks change.
LEMMA BegunTurns ==
  ASSUME PlaneInv, NEW p, NEW u, MayBegin(p, u), Begin(p, u)
  PROVE  /\ Stored' = (Stored \ Pruned(u)) \cup Fresh(p, u)
         /\ Live' \subseteq Live \cup Fresh(p, u) /\ Live \subseteq Live'
         /\ Fresh(p, u) \cap Stored = {} /\ Fresh(p, u) \in SUBSET Ids
         /\ \A w : TurnTasks(w)' =
              (TurnTasks(w) \ Pruned(u)) \cup IF w = u THEN Fresh(p, u) ELSE {}
<1>1. \A s \in Fresh(p, u) :
        /\ s \in Ids /\ s \notin Stored /\ s \notin Pruned(u)
        /\ task'[s].status \in {"running", "failed"} /\ task'[s].turn = u
  <2> SUFFICES ASSUME NEW s \in Fresh(p, u)
               PROVE  /\ s \in Ids /\ s \notin Stored /\ s \notin Pruned(u)
                      /\ task'[s].status \in {"running", "failed"} /\ task'[s].turn = u
    OBVIOUS
  <2>1. s = counter + 1 /\ HasRoom(p, u)
    BY DEF Fresh
  <2>2. s \in Ids /\ s \notin Stored /\ task'[s] = NewTask(p, u)
    BY <2>1, BegunRecords
  <2> QED
    BY <2>1, <2>2, NewRecord, PrunedTurns
<1>2. \A s \in Pruned(u) : s \in Ids /\ task'[s] = NoTask /\ s \notin Live
  BY BegunRecords, PrunedTurns
<1>3. \A s \in Ids \ (Pruned(u) \cup Fresh(p, u)) :
        task'[s].status = task[s].status /\ task'[s].turn = task[s].turn
  BY BegunRecords
<1>4. NoTask.status = "none"
  BY DEF NoTask
<1>5. Stored' = (Stored \ Pruned(u)) \cup Fresh(p, u)
  BY <1>1, <1>2, <1>3, <1>4 DEF Stored
<1>6. Live' \subseteq Live \cup Fresh(p, u)
  BY <1>2, <1>3, <1>4 DEF Live
<1>7. Live \subseteq Live'
  BY <1>1, <1>2, <1>3 DEF Live, Stored
<1>8. ASSUME NEW w
      PROVE  TurnTasks(w)' = (TurnTasks(w) \ Pruned(u)) \cup IF w = u THEN Fresh(p, u) ELSE {}
  <2>1. TurnTasks(w)' = {s \in Stored' : task'[s].turn = w}
    BY DEF TurnTasks
  <2>2. \A s \in Stored : s \in Ids
    BY DEF Stored
  <2> QED
    BY <1>1, <1>3, <1>5, <2>1, <2>2 DEF TurnTasks
<1> QED
  BY <1>1, <1>5, <1>6, <1>7, <1>8

LEMMA BegunTokens ==
  ASSUME PlaneInv, NEW p, NEW u, MayBegin(p, u), Begin(p, u), NEW w,
         TurnTasks(w) \cap Pruned(u) = {}
  PROVE  Tokens(w)' = Tokens(w)
<1> DEFINE f == [s \in Ids |-> task[s].tokens]
           g == [s \in Ids |-> task'[s].tokens]
           S == TurnTasks(w)
           T == TurnTasks(w)'
<1>1. S \in SUBSET Ids /\ IsFiniteSet(S)
  BY TurnSums
<1>2. T = S \cup IF w = u THEN Fresh(p, u) ELSE {}
  BY BegunTurns
<1>3. T \in SUBSET Ids /\ IsFiniteSet(T)
  BY <1>1, <1>2, BegunTurns, SomeIds
<1>4. \A s \in S : f[s] \in Nat /\ g[s] = f[s]
  <2>1. \A s \in S : s \in Ids /\ s \notin Pruned(u) /\ s \notin Fresh(p, u)
    BY <1>1, BegunTurns DEF TurnTasks
  <2> QED
    BY <2>1, BegunRecords, Fields
<1>5. \A s \in T \ S : g[s] = 0
  <2>1. \A s \in T \ S : s \in Ids /\ s \in Fresh(p, u) /\ HasRoom(p, u)
    BY <1>2, <1>3 DEF Fresh
  <2> QED
    BY <2>1, BegunRecords, NewRecord
<1>6. Tokens(w) = SumFunctionOnSet(f, S) /\ Tokens(w)' = SumFunctionOnSet(g, T)
  BY DEF Tokens
<1>7. T \ S = {} \/ \E t : T = S \cup {t} /\ t \notin S
  BY <1>2 DEF Fresh
<1> HIDE DEF f, g, S, T
<1>8. SumFunctionOnSet(f, S) = SumFunctionOnSet(g, S)
  <2>1. \A s \in S : f[s] \in Nat /\ g[s] \in Nat /\ f[s] = g[s]
    BY <1>4
  <2>2. S \in SUBSET S
    OBVIOUS
  <2>3. SumFunctionOnSet(f, S) \in Nat /\ SumFunctionOnSet(g, S) \in Nat
    BY <1>1, <2>1, SumNat
  <2>4. SumFunctionOnSet(f, S) <= SumFunctionOnSet(g, S)
    BY <1>1, <2>1, <2>2, SumMonotone
  <2>5. SumFunctionOnSet(g, S) <= SumFunctionOnSet(f, S)
    BY <1>1, <2>1, <2>2, SumMonotone
  <2> QED
    BY <2>3, <2>4, <2>5
<1>9. SumFunctionOnSet(g, T) = SumFunctionOnSet(g, S)
  <2>1. CASE T \ S = {}
    <3>1. T = S
      BY <2>1, <1>2
    <3> QED
      BY <3>1
  <2>2. CASE T \ S # {}
    <3>1. PICK t : T = S \cup {t} /\ t \notin S
      BY <1>7, <2>2
    <3>2. \A s \in T : g[s] \in Nat
      BY <1>4, <1>5
    <3>3. SumFunctionOnSet(g, T) = g[t] + SumFunctionOnSet(g, T \ {t})
      BY <1>3, <3>1, <3>2, SumTakes
    <3>4. T \ {t} = S /\ g[t] = 0
      BY <1>5, <3>1
    <3>5. SumFunctionOnSet(g, S) \in Nat
      <4>1. \A s \in S : g[s] \in Nat
        BY <1>4
      <4> QED
        BY <1>1, <4>1, SumNat
    <3> DEFINE Sum(s) == SumFunctionOnSet(g, s)
    <3>6. Sum(T) = g[t] + Sum(T \ {t}) /\ Sum(S) \in Nat
      BY <3>3, <3>5
    <3> HIDE DEF Sum
    <3>7. Sum(T) = Sum(S)
      BY <3>4, <3>6
    <3> QED
      BY <3>7 DEF Sum
  <2> QED
    BY <2>1, <2>2
<1> QED
  BY <1>6, <1>8, <1>9

LEMMA BegunCommitted ==
  ASSUME PlaneInv, NEW p, NEW u, MayBegin(p, u), Begin(p, u), NEW w \in 0..config.turns
  PROVE  Committed(w)' <= config.steps
<1> DEFINE f == [s \in Ids |-> Taken(s)]
           g == [s \in Ids |-> Taken(s)']
           S == TurnTasks(w)
           R == S \ Pruned(u)
           T == TurnTasks(w)'
<1>1. S \in SUBSET Ids /\ IsFiniteSet(S) /\ R \in SUBSET S /\ IsFiniteSet(R)
  BY TurnSums, FS_Subset
<1>2. T = R \cup IF w = u THEN Fresh(p, u) ELSE {}
  BY BegunTurns
<1>3. T \in SUBSET Ids /\ IsFiniteSet(T)
  BY <1>1, <1>2, BegunTurns, SomeIds
<1>4. \A s \in Ids : f[s] \in Nat
  BY TurnSums
<1>5. \A s \in R : g[s] = f[s]
  <2>1. \A s \in R : s \in Ids /\ s \notin Pruned(u) /\ s \notin Fresh(p, u)
    BY <1>1, BegunTurns DEF TurnTasks
  <2> QED
    BY <2>1, BegunRecords DEF Taken
<1>6. Committed(w) = SumFunctionOnSet(f, S) /\ Committed(w)' = SumFunctionOnSet(g, T)
  BY DEF Committed
<1>7. ASSUME NEW t \in T \ R
      PROVE  /\ T = R \cup {t} /\ t \notin R /\ w = u
             /\ g[t] \in Nat /\ g[t] + Committed(u) <= config.steps
  <2>1. t \in Fresh(p, u) /\ w = u /\ HasRoom(p, u) /\ Fresh(p, u) = {t} /\ t \in Ids
    BY <1>2, <1>3, <1>7 DEF Fresh
  <2>2. task'[t] = NewTask(p, u)
    BY <2>1, BegunRecords
  <2>3. /\ task'[t].status \in {"running", "failed"} /\ task'[t].used = 0
        /\ task'[t].budget + Committed(u) <= config.steps
        /\ task'[t].status = "failed" => task'[t].budget = 0
        /\ task'[t].budget \in Nat
    <3>1. NewTask(p, u).budget \in Nat
      BY <2>1, NewRecord, Limits DEF TaskRecord, PlaneInv
    <3> QED
      BY <2>1, <2>2, <3>1, NewRecord
  <2>4. g[t] = task'[t].budget
    BY <2>1, <2>3 DEF Taken, Terminal
  <2> QED
    BY <1>2, <1>7, <2>1, <2>3, <2>4
<1>8. Committed(w) <= config.steps /\ Committed(w) \in Nat /\ config.steps \in Nat
  BY TurnSums, Limits DEF PlaneInv, ReservedHolds
<1> HIDE DEF f, g, S, R, T
<1>9. SumFunctionOnSet(g, R) <= Committed(w) /\ SumFunctionOnSet(g, R) \in Nat
  <2>1. \A s \in R : g[s] \in Nat /\ g[s] <= f[s]
    BY <1>1, <1>4, <1>5
  <2>2. \A s \in S : f[s] \in Nat
    BY <1>1, <1>4
  <2>3. SumFunctionOnSet(g, R) <= SumFunctionOnSet(f, S)
    BY <1>1, <2>1, <2>2, SumMonotone
  <2> QED
    BY <1>1, <1>6, <2>1, <2>3, SumNat
<1>10. CASE T \ R = {}
  <2>1. T = R
    BY <1>2, <1>10
  <2> QED
    BY <1>6, <1>8, <1>9, <2>1
<1>11. CASE T \ R # {}
  <2>1. PICK t : t \in T \ R
    BY <1>11
  <2>2. \A s \in T : g[s] \in Nat
    BY <1>1, <1>4, <1>5, <1>7
  <2>3. SumFunctionOnSet(g, T) = g[t] + SumFunctionOnSet(g, T \ {t})
    BY <1>3, <2>1, <2>2, SumTakes
  <2>4. T \ {t} = R /\ w = u /\ g[t] \in Nat /\ g[t] + Committed(u) <= config.steps
    BY <1>7, <2>1
  <2> QED
    BY <1>6, <1>8, <1>9, <2>3, <2>4
<1> QED
  BY <1>10, <1>11

LEMMA BeginKeepsPlane ==
  ASSUME PlaneInv, NEW p, NEW u, MayBegin(p, u), Begin(p, u)
  PROVE  PlaneInv'
<1>1. (config \in Configs /\ task \in [Ids -> TaskRecord] /\ counter \in 0..MaxIds)'
  <2>1. TaskRecord' = TaskRecord
    BY BegunRecords DEF TaskRecord
  <2>2. counter' \in 0..MaxIds
    BY BegunRecords DEF Ids, PlaneInv
  <2> QED
    BY <2>1, <2>2, BegunRecords DEF PlaneInv
<1>2. RecordsInOrder'
  <2> SUFFICES ASSUME NEW s \in Ids
               PROVE  /\ s > counter' => s \notin Stored'
                      /\ s \notin Stored' => task'[s] = NoTask
                      /\ task'[s].parent < s
                      /\ task'[s].used <= task'[s].budget
                      /\ task'[s].tokens <= task'[s].budget
    BY DEF RecordsInOrder
  <2>1. counter \in Nat /\ s \in Nat \ {0} /\ counter + 1 \in Ids
    BY SomeIds, BegunRecords DEF PlaneInv
  <2>2. NoTask.parent = 0 /\ NoTask.used = 0 /\ NoTask.budget = 0 /\ NoTask.tokens = 0
    BY DEF NoTask
  <2>3. CASE s \in Pruned(u)
    <3>1. task'[s] = NoTask /\ s \notin Fresh(p, u)
      BY <2>3, BegunRecords, BegunTurns, PrunedTurns
    <3> QED
      BY <2>1, <2>2, <2>3, <3>1, BegunTurns
  <2>4. CASE s \in Fresh(p, u)
    <3>1. s = counter + 1 /\ HasRoom(p, u) /\ counter' = counter + 1 /\ task'[s] = NewTask(p, u)
      BY <2>4, BegunRecords DEF Fresh
    <3>2. p < s
      <4>1. p = 0 \/ p \in Stored
        BY DEF MayBegin, Live, Stored
      <4>2. ASSUME p \in Stored
            PROVE  p \in Nat /\ p <= counter
        <5>1. p \in Ids /\ p \in Nat /\ ~ (p > counter)
          BY <4>2, SomeIds DEF Stored, PlaneInv, RecordsInOrder
        <5> QED
          BY <2>1, <5>1
      <4> QED
        BY <2>1, <3>1, <4>1, <4>2
    <3>3. /\ task'[s].parent = p /\ task'[s].used = 0 /\ task'[s].tokens = 0
          /\ task'[s].budget \in Nat /\ task'[s].budget >= 0
      BY <3>1, NewRecord, Limits DEF TaskRecord, PlaneInv
    <3>4. s \in Stored'
      BY <2>4, BegunTurns
    <3> QED
      BY <2>1, <3>1, <3>2, <3>3, <3>4
  <2>5. CASE s \notin Pruned(u) /\ s \notin Fresh(p, u)
    <3>1. s \in Stored' <=> s \in Stored
      BY <2>5, BegunTurns
    <3>2. s > counter' => s > counter
      BY <2>1, BegunRecords
    <3> QED
      BY <2>5, <3>1, <3>2, BegunRecords DEF PlaneInv, RecordsInOrder
  <2> QED
    BY <2>3, <2>4, <2>5
<1>3. SnapshotLoads'
  <2> SUFFICES ASSUME NEW t \in Stored'
               PROVE  /\ task'[t].used <= task'[t].budget
                      /\ task'[t].parent = 0 => task'[t].depth = 1
                      /\ task'[t].parent # 0 =>
                           task'[t].parent \in Stored' /\ t \in task'[task'[t].parent].children
                      /\ \A c \in task'[t].children :
                           /\ c \in Stored' /\ task'[c].parent = t
                           /\ task'[c].turn = task'[t].turn
                           /\ task'[c].depth = task'[t].depth + 1
    BY DEF SnapshotLoads
  <2>1. t \in Ids /\ task'[t].used <= task'[t].budget
    BY <1>2 DEF RecordsInOrder, Stored
  <2>2. p # 0 => /\ p \in Ids /\ p \in Stored /\ p \notin Pruned(u) /\ p \notin Fresh(p, u)
                 /\ p \in Stored'
    BY PrunedTurns, BegunTurns DEF MayBegin, Live, Stored
  <2>3. CASE t \in Fresh(p, u)
    <3>1. /\ HasRoom(p, u) /\ task'[t] = NewTask(p, u)
      BY <2>3, BegunRecords DEF Fresh
    <3>2. /\ task'[t].parent = p /\ task'[t].children = {}
          /\ p = 0 => task'[t].depth = 1
      BY <3>1, NewRecord
    <3>3. p # 0 => t \in task'[p].children
      BY <2>2, <2>3, BegunRecords
    <3> QED
      BY <2>1, <2>2, <3>2, <3>3
  <2>4. CASE t \notin Fresh(p, u)
    <3>1. t \in Stored /\ t \notin Pruned(u)
      BY <2>4, BegunTurns
    <3>2. /\ task'[t].parent = task[t].parent /\ task'[t].depth = task[t].depth
          /\ task'[t].turn = task[t].turn
          /\ task'[t].children = task[t].children \cup IF t = p THEN Fresh(p, u) ELSE {}
      BY <2>1, <2>4, <3>1, BegunRecords
    <3>3. task[t].parent = 0 => task[t].depth = 1
      BY <3>1 DEF PlaneInv, SnapshotLoads
    <3>4. ASSUME task[t].parent # 0
          PROVE  task[t].parent \in Stored' /\ t \in task'[task[t].parent].children
      <4> DEFINE r == task[t].parent
      <4>1. r \in Stored /\ r \in Ids /\ t \in task[r].children /\ task[t].turn = task[r].turn
        BY <3>1, <3>4 DEF PlaneInv, SnapshotLoads, Stored
      <4>2. r \notin Pruned(u) /\ r \notin Fresh(p, u)
        BY <3>1, <4>1, PrunedTurns, BegunTurns
      <4> HIDE DEF r
      <4>3. task'[r].children = task[r].children \cup IF r = p THEN Fresh(p, u) ELSE {}
        BY <4>1, <4>2, BegunRecords
      <4>4. r \in Stored' /\ t \in task'[r].children
        BY <4>1, <4>2, <4>3, BegunTurns
      <4> QED
        BY <4>4 DEF r
    <3>5. ASSUME NEW c \in task'[t].children
          PROVE  /\ c \in Stored' /\ task'[c].parent = t
                 /\ task'[c].turn = task'[t].turn
                 /\ task'[c].depth = task'[t].depth + 1
      <4>1. CASE c \in task[t].children
        <5>1. /\ c \in Stored /\ c \in Ids /\ task[c].parent = t /\ task[c].turn = task[t].turn
              /\ task[c].depth = task[t].depth + 1
          BY <3>1, <4>1 DEF PlaneInv, SnapshotLoads, Stored
        <5>2. c \notin Pruned(u) /\ c \notin Fresh(p, u)
          BY <3>1, <5>1, PrunedTurns, BegunTurns
        <5>3. task'[c].parent = task[c].parent /\ task'[c].turn = task[c].turn
              /\ task'[c].depth = task[c].depth
          BY <5>1, <5>2, BegunRecords
        <5> QED
          BY <3>2, <5>1, <5>2, <5>3, BegunTurns
      <4>2. CASE c \notin task[t].children
        <5>1. t = p /\ c \in Fresh(p, u) /\ HasRoom(p, u) /\ p # 0
          BY <2>1, <3>2, <3>5, <4>2, SomeIds DEF Fresh
        <5>2. task'[c] = NewTask(p, u) /\ c \in Stored'
          BY <5>1, BegunRecords, BegunTurns
        <5>3. task'[c].parent = p /\ task'[c].turn = u /\ task'[c].depth = task[p].depth + 1
          BY <5>1, <5>2, NewRecord
        <5> QED
          BY <3>2, <5>1, <5>2, <5>3 DEF MayBegin
      <4> QED
        BY <4>1, <4>2
    <3> QED
      BY <2>1, <3>2, <3>3, <3>4, <3>5
  <2> QED
    BY <2>3, <2>4
<1>4. ReservedHolds'
  BY BegunCommitted, BegunRecords DEF ReservedHolds
<1>5. SpentIsCancelled'
  <2> SUFFICES ASSUME NEW w \in 0..config.turns, Tokens(w)' >= config.tokens,
                      NEW s \in TurnTasks(w)' \cap Live', task'[s].tokens > 0
               PROVE  task'[s].cancel
    BY BegunRecords DEF SpentIsCancelled
  <2>1. s \notin Fresh(p, u)
    <3>1. ASSUME s \in Fresh(p, u)
          PROVE  task'[s].tokens = 0
      <4>1. HasRoom(p, u) /\ task'[s] = NewTask(p, u)
        BY <3>1, BegunRecords DEF Fresh
      <4> QED
        BY <4>1, NewRecord
    <3> QED
      BY <3>1
  <2>2. s \in TurnTasks(w) /\ s \in Live /\ s \in Ids /\ s \notin Pruned(u)
    BY <2>1, BegunTurns DEF Live
  <2>3. TurnTasks(w) \cap Pruned(u) = {}
    <3>1. ASSUME NEW r \in TurnTasks(w) \cap Pruned(u)
          PROVE  FALSE
      BY <2>2, <3>1, PrunedTurns DEF TurnTasks
    <3> QED
      BY <3>1
  <2>4. Tokens(w) >= config.tokens /\ task[s].tokens > 0
    BY <2>1, <2>2, <2>3, BegunTokens, BegunRecords
  <2>5. task[s].cancel
    BY <2>2, <2>4 DEF PlaneInv, SpentIsCancelled
  <2> QED
    BY <2>1, <2>2, <2>5, BegunRecords
<1> QED
  BY <1>1, <1>2, <1>3, <1>4, <1>5 DEF PlaneInv

-----------------------------------------------------------------------------
(* The threads of the agents.                                              *)

LEMMA InvParts ==
  ASSUME PlaneInv', RestTypes', ThreadsInStep', QueuesInStep'
  PROVE  Inv'
BY DEF Inv, PlaneInv, TypeOK, RestTypes

\* The thread of s and its task stay as they are, but for a cancellation.
Same(s) ==
  /\ agent'[s] = agent[s] /\ steps'[s] = steps[s] /\ verdict'[s] = verdict[s]
  /\ task'[s].status = task[s].status /\ task'[s].used = task[s].used
  /\ task'[s].budget = task[s].budget /\ task'[s].tokens = task[s].tokens
  /\ task'[s].depth = task[s].depth

LEMMA SameInStep ==
  ASSUME NEW s \in Ids, ThreadInStep(s), Same(s), UNCHANGED config, counter \in Nat,
         counter' \in Nat, counter <= counter'
  PROVE  ThreadInStep(s)'
<1>1. s \in Nat
  BY SomeIds
<1>2. s > counter' => s > counter
  BY <1>1
<1>3. Rounds(s)' = Rounds(s) /\ (s \in Live' <=> s \in Live)
  BY DEF Same, Rounds, Live
<1> QED
  BY <1>2, <1>3 DEF Same, ThreadInStep

LEMMA OthersInStep ==
  ASSUME Inv, UNCHANGED <<config, counter>>, NEW t \in Ids,
         \A s \in Ids \ {t} : Same(s), ThreadInStep(t)'
  PROVE  ThreadsInStep'
<1>1. counter \in Nat /\ counter' \in Nat /\ counter <= counter'
  BY SomeIds DEF Inv, PlaneInv
<1>2. \A s \in Ids \ {t} : ThreadInStep(s)'
  BY <1>1, SameInStep DEF Inv, ThreadsInStep
<1> QED
  BY <1>2 DEF ThreadsInStep

\* What holds of a thread that works.
LEMMA BusyThread ==
  ASSUME Inv, NEW t \in Ids, agent[t] \in Busy
  PROVE  /\ t \in Live /\ task[t].status = "running" /\ ~ (t > counter)
         /\ verdict[t] # "dropped" /\ t \notin told
         /\ steps[t] \in Nat /\ task[t].budget \in Nat /\ task[t].tokens \in Nat
         /\ task[t].budget <= config.steps /\ config.steps \in Nat
         /\ steps[t] <= task[t].budget
         /\ agent[t] = "llm" => steps[t] + 1 <= task[t].budget
         /\ agent[t] # "over" => task[t].tokens <= steps[t]
         /\ agent[t] \in {"assemble", "queued"} => steps[t] = 0
<1>1. t \in Live /\ task[t].status = "running"
  BY DEF Inv, ThreadsInStep, ThreadInStep, Live
<1>2. ~ (t > counter) /\ verdict[t] # "dropped" /\ t \notin told
  BY DEF Inv, ThreadsInStep, ThreadInStep, QueuesInStep, Busy
<1>3. /\ task[t].budget \in Nat /\ task[t].tokens \in Nat /\ config.steps \in Nat
      /\ task[t].budget <= config.steps
  BY Fields, Limits DEF Inv, PlaneInv
<1>4. steps[t] \in Nat
  BY <1>3 DEF Inv, TypeOK
<1>5. Rounds(t) <= task[t].budget /\ Rounds(t) = steps[t] + IF agent[t] = "llm" THEN 1 ELSE 0
  BY <1>1 DEF Inv, ThreadsInStep, ThreadInStep, Rounds
<1>6. /\ agent[t] # "over" => task[t].tokens <= steps[t]
      /\ agent[t] \in {"assemble", "queued"} => steps[t] = 0
  BY DEF Inv, ThreadsInStep, ThreadInStep
<1> QED
  BY <1>1, <1>2, <1>3, <1>4, <1>5, <1>6

\* A thread that goes on to work at place, perhaps with more steps, while the task
\* is charged with no more than them.
LEMMA WorksOn ==
  ASSUME Inv, NEW t \in Ids, agent[t] \in Busy, UNCHANGED <<config, counter>>,
         t \in Live', task'[t].budget = task[t].budget, task'[t].depth = task[t].depth,
         agent'[t] \in Busy \ {"assemble"}, agent'[t] = "queued" => agent[t] = "assemble",
         verdict'[t] # "dropped", steps'[t] \in Nat, agent'[t] = "queued" => steps'[t] = steps[t],
         task'[t].tokens <= steps'[t] \/ agent'[t] = "over",
         agent'[t] = "tools" => task[t].depth < config.depth,
         steps'[t] + (IF agent'[t] = "llm" THEN 1 ELSE 0) <= task[t].budget
  PROVE  ThreadInStep(t)'
<1>1. task'[t].status = "running" /\ Rounds(t)' <= task'[t].budget
  BY DEF Live, Rounds
<1>2. task'[t].status \notin Terminal
  BY <1>1 DEF Terminal
<1>3. ~ (t > counter')
  BY BusyThread
<1>4. agent'[t] \in {"none", "assemble", "queued"} => steps'[t] = 0
  BY BusyThread DEF Busy
<1> QED
  BY <1>1, <1>2, <1>3, <1>4 DEF ThreadInStep

\* Plane and threads stay as they are.
LEMMA Elsewhere ==
  ASSUME Inv, UNCHANGED <<planeVars, agentVars, told>>, RestTypes'
  PROVE  Inv'
<1>1. PlaneInv'
  BY UnchangedIsCalm, CalmKeepsPlane DEF Inv, planeVars
<1>2. ThreadsInStep'
  BY DEF Inv, planeVars, agentVars, ThreadsInStep, ThreadInStep, Rounds, Live
<1>3. QueuesInStep'
  BY DEF Inv, agentVars, QueuesInStep
<1> QED
  BY <1>1, <1>2, <1>3, InvParts

LEMMA UserTurnKeeps ==
  ASSUME Inv, UserTurn
  PROVE  Inv'
<1>1. turn' \in 0..config.turns
  BY Limits DEF UserTurn, Inv, TypeOK, PlaneInv
<1> QED
  BY <1>1, Elsewhere
  DEF Inv, TypeOK, RestTypes, UserTurn, restVars, agentVars, planeVars

LEMMA RootKeeps ==
  ASSUME Inv, faults' \in 0..MaxFaults, RootEnds \/ StopRoot
  PROVE  Inv'
BY Elsewhere
DEF Inv, TypeOK, RestTypes, RootEnds, StopRoot, restVars, agentVars, planeVars

LEMMA RuntimeEventKeeps ==
  ASSUME Inv, NEW t \in Ids, RuntimeEvent(t)
  PROVE  Inv'
BY Elsewhere DEF Inv, TypeOK, RestTypes, RuntimeEvent, agentVars, planeVars

LEMMA ShutdownKeeps ==
  ASSUME Inv, Shutdown
  PROVE  Inv'
BY Elsewhere DEF Inv, TypeOK, RestTypes, Shutdown, agentVars, planeVars, rootVars

\* A step of one agent that leaves the plane as it is.
LEMMA PlaneStands ==
  ASSUME Inv, UNCHANGED planeVars
  PROVE  /\ PlaneInv' /\ Live' = Live /\ UNCHANGED <<config, counter, task>>
BY UnchangedIsCalm, CalmKeepsPlane DEF Inv, planeVars

\* One thread goes on, and the plane stays as it is.
LEMMA OneGoesOn ==
  ASSUME Inv, NEW t \in Ids, UNCHANGED <<planeVars, steps, verdict, background, told>>,
         \A s \in Ids \ {t} : agent'[s] = agent[s],
         agent[t] \in Busy, agent'[t] \in Busy \ {"assemble"},
         agent'[t] = "queued" => agent[t] = "assemble" /\ t \in background,
         agent'[t] = "llm" => steps[t] < task[t].budget,
         agent'[t] = "tools" => task[t].depth < config.depth,
         agent[t] # "over", RestTypes'
  PROVE  Inv'
<1>1. PlaneInv' /\ Live' = Live /\ UNCHANGED <<config, counter, task>>
  BY PlaneStands
<1>2. ThreadInStep(t)'
  <2>1. steps[t] + (IF agent'[t] = "llm" THEN 1 ELSE 0) <= task[t].budget
    BY BusyThread
  <2> QED
    BY <1>1, <2>1, BusyThread, WorksOn
<1>3. ThreadsInStep'
  BY <1>1, <1>2, OthersInStep DEF Same
<1>4. QueuesInStep'
  BY BusyThread DEF Inv, QueuesInStep, Busy
<1> QED
  BY <1>1, <1>3, <1>4, InvParts

LEMMA AssembleKeeps ==
  ASSUME Inv, NEW t \in Ids, Assemble(t)
  PROVE  Inv'
<1>1. RestTypes'
  BY DEF Inv, TypeOK, RestTypes, Assemble, planeVars, rootVars, restVars
<1> QED
  BY <1>1, OneGoesOn DEF Inv, TypeOK, Assemble, Busy, restVars

LEMMA StartWorkerKeeps ==
  ASSUME Inv, NEW t \in Ids, StartWorker(t)
  PROVE  Inv'
<1>1. RestTypes'
  BY DEF Inv, TypeOK, RestTypes, StartWorker, planeVars, rootVars, restVars
<1> QED
  BY <1>1, OneGoesOn DEF Inv, TypeOK, StartWorker, Busy, restVars

LEMMA StartRoundKeeps ==
  ASSUME Inv, NEW t \in Ids, StartRound(t)
  PROVE  Inv'
<1>1. RestTypes'
  BY DEF Inv, TypeOK, RestTypes, StartRound, planeVars, rootVars, restVars
<1> QED
  BY <1>1, OneGoesOn DEF Inv, TypeOK, StartRound, Busy, restVars

LEMMA CallToolsKeeps ==
  ASSUME Inv, NEW t \in Ids, NEW n \in 1..MaxBatch, CallTools(t, n)
  PROVE  Inv'
<1>1. RestTypes'
  <2>1. n \in 0..MaxBatch
    BY ControlAssumption
  <2> QED
    BY <2>1 DEF Inv, TypeOK, RestTypes, CallTools, planeVars, rootVars, restVars
<1> QED
  BY <1>1, OneGoesOn DEF Inv, TypeOK, CallTools, Busy, restVars

LEMMA EndToolsKeeps ==
  ASSUME Inv, NEW t \in Ids, EndTools(t)
  PROVE  Inv'
<1>1. RestTypes'
  BY DEF Inv, TypeOK, RestTypes, EndTools, planeVars, rootVars, restVars
<1> QED
  BY <1>1, OneGoesOn DEF Inv, TypeOK, EndTools, Busy, restVars

\* Each end of a run: the thread is over, and has recorded no more rounds than its
\* task was given.
LEMMA OverKeeps ==
  ASSUME Inv, NEW t \in Ids, NEW answer \in {"answered", "unanswered"},
         agent[t] \in Busy \ {"over"}, PlaneInv', Over(t, answer),
         UNCHANGED <<config, counter>>, t \in Live',
         \A s \in Ids : /\ task'[s].status = task[s].status /\ task'[s].used = task[s].used
                        /\ task'[s].budget = task[s].budget /\ task'[s].depth = task[s].depth
                        /\ s # t => task'[s].tokens = task[s].tokens,
         steps' \in {steps, [steps EXCEPT ![t] = @ + 1]}, steps'[t] <= task[t].budget
  PROVE  Inv'
<1>1. /\ agent'[t] = "over" /\ verdict'[t] = answer
      /\ \A s \in Ids \ {t} : /\ agent'[s] = agent[s] /\ verdict'[s] = verdict[s]
                              /\ steps'[s] = steps[s]
      /\ UNCHANGED <<todo, deadline, background, told, heard, pool, faults, turn, root, stopped>>
      /\ agent' \in [Ids -> {"none", "assemble", "queued", "model", "llm", "reply", "tools",
                             "over", "callback", "gone"}]
      /\ verdict' \in [Ids -> {"none", "answered", "unanswered", "raised", "dropped"}]
  BY DEF Over, Inv, TypeOK, rootVars, restVars
<1>2. steps'[t] \in Nat /\ steps'[t] \in 0..config.steps
  BY BusyThread DEF Inv, TypeOK
<1>3. RestTypes'
  <2>1. steps' \in [Ids -> 0..config.steps]
    <3>1. DOMAIN steps' = Ids /\ steps' = [s \in Ids |-> steps'[s]]
      BY DEF Inv, TypeOK
    <3>2. \A s \in Ids : steps'[s] \in 0..config.steps
      BY <1>1, <1>2 DEF Inv, TypeOK
    <3> QED
      BY <3>1, <3>2
  <2> QED
    BY <1>1, <2>1 DEF Inv, TypeOK, RestTypes
<1>4. ThreadInStep(t)'
  <2>1. "over" \in Busy \ {"assemble"} /\ "over" # "queued" /\ "over" # "tools" /\ "over" # "llm"
    BY DEF Busy
  <2> QED
    BY <1>1, <1>2, <2>1, WorksOn
<1>5. ThreadsInStep'
  BY <1>1, <1>4, OthersInStep DEF Same
<1>6. QueuesInStep'
  BY <1>1, BusyThread DEF Inv, QueuesInStep
<1> QED
  BY <1>3, <1>5, <1>6, InvParts

LEMMA AnswerKeeps ==
  ASSUME Inv, NEW t \in Ids, Answer(t) \/ GiveUp(t)
  PROVE  Inv'
<1>1. /\ agent[t] \in Busy \ {"over"} /\ UNCHANGED <<planeVars, steps>>
      /\ \E answer \in {"answered", "unanswered"} : Over(t, answer)
  BY DEF Answer, GiveUp, Over, planeVars, Busy
<1>2. PlaneInv' /\ Live' = Live /\ UNCHANGED <<config, counter, task>>
  BY <1>1, PlaneStands
<1> QED
  BY <1>1, <1>2, BusyThread, OverKeeps

\* The charge of a model call stays within what the task was given.
LEMMA CallCharged ==
  ASSUME Inv, NEW t \in Ids, agent[t] = "llm", task' \in {task, Charged(t)},
         UNCHANGED <<config, counter>>
  PROVE  /\ PlaneInv' /\ Live' = Live
         /\ \A s \in Ids :
              /\ task'[s].status = task[s].status /\ task'[s].used = task[s].used
              /\ task'[s].budget = task[s].budget /\ task'[s].depth = task[s].depth
              /\ s # t => task'[s].tokens = task[s].tokens
         /\ task'[t].tokens <= steps[t] + 1
<1>1. agent[t] \in Busy
  BY DEF Busy
<1>2. t \in Live /\ task[t].tokens < task[t].budget /\ task[t].tokens <= steps[t]
      /\ task[t].tokens \in Nat /\ steps[t] \in Nat
  BY <1>1, BusyThread
<1>3. CASE task' = task
  BY <1>2, <1>3, PlaneStands DEF planeVars
<1>4. CASE task' = Charged(t)
  <2>1. PlaneInv' /\ Live' = Live
    BY <1>2, <1>4, ChargedKeepsPlane, ChargedRecords DEF Inv
  <2>2. \A s \in Ids :
          /\ task'[s].status = task[s].status /\ task'[s].used = task[s].used
          /\ task'[s].budget = task[s].budget /\ task'[s].depth = task[s].depth
          /\ task'[s].tokens = task[s].tokens + IF s = t THEN 1 ELSE 0
    BY <1>2, <1>4, ChargedRecords DEF Inv
  <2>3. \A s \in Ids : task[s].tokens \in Nat
    BY Fields DEF Inv
  <2> QED
    BY <1>2, <2>1, <2>2, <2>3
<1> QED
  BY <1>3, <1>4

LEMMA EndRoundKeeps ==
  ASSUME Inv, NEW t \in Ids, EndRound(t)
  PROVE  Inv'
<1>1. /\ agent[t] = "llm" /\ agent'[t] = "reply" /\ task' = Charged(t)
      /\ UNCHANGED <<config, counter, verdict, background, told>>
      /\ steps'[t] = steps[t] + 1
      /\ \A s \in Ids \ {t} : agent'[s] = agent[s] /\ steps'[s] = steps[s]
  BY DEF EndRound, Inv, TypeOK, restVars
<1>2. agent[t] \in Busy /\ agent'[t] \in Busy \ {"assemble"}
  BY <1>1 DEF Busy
<1>3. /\ PlaneInv' /\ Live' = Live
      /\ \A s \in Ids :
           /\ task'[s].status = task[s].status /\ task'[s].used = task[s].used
           /\ task'[s].budget = task[s].budget /\ task'[s].depth = task[s].depth
           /\ s # t => task'[s].tokens = task[s].tokens
      /\ task'[t].tokens <= steps[t] + 1
  BY <1>1, CallCharged
<1>4. steps'[t] \in Nat /\ steps'[t] <= task[t].budget /\ steps'[t] \in 0..config.steps
  BY <1>1, <1>2, BusyThread
<1>5. RestTypes'
  BY <1>4 DEF Inv, TypeOK, RestTypes, EndRound, rootVars, restVars
<1>6. ThreadInStep(t)'
  BY <1>1, <1>2, <1>3, <1>4, BusyThread, WorksOn
<1>7. ThreadsInStep'
  BY <1>1, <1>3, <1>6, OthersInStep DEF Same
<1>8. QueuesInStep'
  BY <1>1, <1>2, BusyThread DEF Inv, QueuesInStep
<1> QED
  BY <1>3, <1>5, <1>7, <1>8, InvParts

LEMMA RequestFailsKeeps ==
  ASSUME Inv, NEW t \in Ids, RequestFails(t)
  PROVE  Inv'
<1>1. /\ agent[t] = "llm" /\ task' \in {task, Charged(t)} /\ Over(t, "unanswered")
      /\ UNCHANGED <<config, counter, steps>>
  BY DEF RequestFails, Over
<1>2. agent[t] \in Busy \ {"over"} /\ t \in Live /\ steps[t] <= task[t].budget
  <2>1. agent[t] \in Busy
    BY <1>1 DEF Busy
  <2> QED
    BY <1>1, <2>1, BusyThread
<1> QED
  BY <1>1, <1>2, CallCharged, OverKeeps

\* What a calm step without an end leaves of each task.
LEMMA FlaggedTasks ==
  ASSUME Inv, NEW roots, task' = Flagged(roots), UNCHANGED <<config, counter>>
  PROVE  /\ PlaneInv' /\ Live' = Live
         /\ \A s \in Ids :
              /\ task'[s].status = task[s].status /\ task'[s].used = task[s].used
              /\ task'[s].budget = task[s].budget /\ task'[s].depth = task[s].depth
              /\ task'[s].tokens = task[s].tokens
<1>1. Calm /\ Live' = Live
  BY FlaggedIsCalm DEF Inv
<1>2. \A s \in Ids : s \in Live => task'[s].status = "running" /\ task[s].status = "running"
  BY <1>1 DEF Live
<1>3. \A s \in Ids : task'[s].status = "running" => ~ (task'[s].status \in Terminal)
  BY DEF Terminal
<1> QED
  BY <1>1, <1>2, <1>3, CalmKeepsPlane DEF Inv, Calm

LEMMA StoppedKeeps ==
  ASSUME Inv, NEW t \in Ids, StopIfCancelled(t) \/ StopStreaming(t)
  PROVE  Inv'
<1>1. /\ agent[t] \in {"model", "llm", "reply"} /\ task' = Flagged(Requests[t])
      /\ Over(t, "unanswered") /\ UNCHANGED <<config, counter>>
      /\ steps' \in {steps, [steps EXCEPT ![t] = @ + 1]}
      /\ agent[t] # "llm" => steps' = steps
  BY DEF StopIfCancelled, StopStreaming, Over
<1>2. agent[t] \in Busy \ {"over"}
  BY <1>1 DEF Busy
<1>3. steps'[t] <= task[t].budget
  BY <1>1, <1>2, BusyThread DEF Inv, TypeOK
<1>4. t \in Live /\ Live' = Live
  BY <1>1, <1>2, BusyThread, FlaggedTasks
<1> QED
  BY <1>1, <1>2, <1>3, <1>4, FlaggedTasks, OverKeeps

\* A cancellation that no thread has looked at yet.
LEMMA FlagKeeps ==
  ASSUME Inv, NEW roots, task' = Flagged(roots), RestTypes',
         UNCHANGED <<config, counter, agent, steps, verdict, background, told>>
  PROVE  Inv'
<1>1. /\ PlaneInv' /\ Live' = Live
      /\ \A s \in Ids : Same(s)
  BY FlaggedTasks DEF Same
<1>2. counter \in Nat /\ counter' \in Nat /\ counter <= counter'
  BY SomeIds DEF Inv, PlaneInv
<1>3. ThreadsInStep'
  BY <1>1, <1>2, SameInStep DEF Inv, ThreadsInStep
<1>4. QueuesInStep'
  BY DEF Inv, QueuesInStep
<1> QED
  BY <1>1, <1>3, <1>4, InvParts

LEMMA SkipCallKeeps ==
  ASSUME Inv, NEW p \in Ids, SkipCall(p)
  PROVE  Inv'
<1>1. todo' \in [Ids -> 0..MaxBatch]
  <2>1. todo[p] - 1 \in 0..MaxBatch
    BY ControlAssumption DEF SkipCall, Inv, TypeOK
  <2> QED
    BY <2>1 DEF SkipCall, Inv, TypeOK
<1>2. RestTypes'
  BY <1>1 DEF SkipCall, Inv, TypeOK, RestTypes, rootVars, restVars
<1> QED
  BY <1>2, FlagKeeps DEF SkipCall, restVars

LEMMA RequestCancelKeeps ==
  ASSUME Inv, NEW t \in Ids, RequestCancel(t), faults' \in 0..MaxFaults
  PROVE  Inv'
<1>1. RestTypes'
  BY DEF RequestCancel, Inv, TypeOK, RestTypes, rootVars, agentVars
<1> QED
  BY <1>1, FlagKeeps DEF RequestCancel, agentVars

LEMMA DeadlineKeeps ==
  ASSUME Inv, NEW t \in Ids, Deadline(t), faults' \in 0..MaxFaults
  PROVE  Inv'
<1>1. PlaneInv' /\ Live' = Live /\ UNCHANGED <<config, counter, task>>
  BY PlaneStands DEF Deadline
<1>2. RestTypes'
  BY <1>1 DEF Deadline, Inv, TypeOK, RestTypes, rootVars
<1>3. \A s \in Ids : Same(s)
  BY <1>1 DEF Deadline, Same
<1>4. counter \in Nat /\ counter' \in Nat /\ counter <= counter'
  BY <1>1, SomeIds DEF Inv, PlaneInv
<1>5. ThreadsInStep'
  BY <1>1, <1>3, <1>4, SameInStep DEF Inv, ThreadsInStep
<1>6. QueuesInStep'
  BY DEF Inv, QueuesInStep, Deadline
<1> QED
  BY <1>1, <1>2, <1>5, <1>6, InvParts

\* Each end of a thread: nobody works for the task any more.
LEMMA GoneInStep ==
  ASSUME Inv, NEW t \in Ids, UNCHANGED <<config, counter>>, ~ (t > counter),
         agent'[t] \in {"callback", "gone"}, steps'[t] \in Nat,
         verdict'[t] = "dropped" => steps'[t] = 0,
         t \in Live' => steps'[t] <= task'[t].budget,
         task'[t].status \in Terminal /\ verdict'[t] # "raised" => steps'[t] <= task'[t].used
  PROVE  ThreadInStep(t)'
<1>1. agent'[t] \notin Busy \cup {"none"} /\ Rounds(t)' = steps'[t]
  BY DEF Busy, Rounds
<1> QED
  BY <1>1 DEF ThreadInStep, Busy

\* finish_task in a step of t: the tasks afterwards.
LEMMA SettledTasks ==
  ASSUME Inv, NEW roots, NEW table \in {task, Flagged(roots)}, NEW t \in Ids,
         NEW status \in Terminal, NEW used \in Nat,
         task' = Settled(table, t, status, used), UNCHANGED <<config, counter>>
  PROVE  /\ PlaneInv' /\ t \notin Live'
         /\ t \in Live /\ used <= task[t].budget => task'[t].used = used
         /\ t \notin Live => task'[t] = task[t]
         /\ \A s \in Ids \ {t} :
              /\ task'[s].status = task[s].status /\ task'[s].used = task[s].used
              /\ task'[s].budget = task[s].budget /\ task'[s].depth = task[s].depth
              /\ task'[s].tokens = task[s].tokens
<1>1. /\ Calm
      /\ t \in Live => /\ task'[t].status \in Terminal
                       /\ used <= task[t].budget => task'[t].used = used
      /\ \A s \in Ids \ {t} : task'[s].status = task[s].status /\ task'[s].used = task[s].used
  BY SettledIsCalm DEF Inv
<1>2. t \notin Live'
  <2>1. t \in Live => task'[t].status # "running"
    BY <1>1 DEF Terminal
  <2> QED
    BY <1>1, <2>1, CalmKeepsTurns DEF Live, Inv
<1> QED
  BY <1>1, <1>2, CalmKeepsPlane DEF Inv, Calm

LEMMA AssemblyFailsKeeps ==
  ASSUME Inv, NEW t \in Ids, AssemblyFails(t), faults' \in 0..MaxFaults
  PROVE  Inv'
<1>1. /\ agent[t] = "assemble" /\ agent'[t] = "gone" /\ task' = Settled(task, t, "failed", 0)
      /\ \A s \in Ids \ {t} : agent'[s] = agent[s]
      /\ background' = background \ {t} /\ deadline' = deadline \ {t}
      /\ UNCHANGED <<config, counter, steps, verdict, told>>
  BY DEF AssemblyFails, NotStarted, Inv, TypeOK
<1>2. agent[t] \in Busy /\ "failed" \in Terminal
  BY <1>1 DEF Busy, Terminal
<1>3. /\ PlaneInv' /\ t \notin Live' /\ task'[t].used = 0
      /\ \A s \in Ids \ {t} : Same(s)
  <2>1. 0 <= task[t].budget /\ t \in Live
    BY <1>2, BusyThread
  <2> QED
    BY <1>1, <1>2, <2>1, SettledTasks DEF Same
<1>4. t \notin told /\ ~ (t > counter) /\ steps[t] = 0
  BY <1>1, <1>2, BusyThread
<1>5. RestTypes'
  BY <1>1, <1>4 DEF AssemblyFails, NotStarted, Inv, TypeOK, RestTypes, rootVars
<1>6. ThreadInStep(t)'
  BY <1>1, <1>3, <1>4, GoneInStep
<1>7. ThreadsInStep'
  BY <1>1, <1>3, <1>6, OthersInStep
<1>8. QueuesInStep'
  BY <1>1, <1>4 DEF Inv, QueuesInStep
<1> QED
  BY <1>3, <1>5, <1>7, <1>8, InvParts

LEMMA AssemblyRaisesKeeps ==
  ASSUME Inv, NEW t \in Ids, AssemblyRaises(t), faults' \in 0..MaxFaults
  PROVE  Inv'
<1>1. PlaneInv' /\ Live' = Live /\ UNCHANGED <<config, counter, task>>
  BY PlaneStands DEF AssemblyRaises, NotStarted, planeVars
<1>2. /\ agent[t] = "assemble" /\ agent'[t] = "gone" /\ verdict'[t] = "raised"
      /\ \A s \in Ids \ {t} : agent'[s] = agent[s] /\ verdict'[s] = verdict[s]
      /\ background' = background \ {t} /\ deadline' = deadline \ {t}
      /\ UNCHANGED <<steps, told>>
  BY DEF AssemblyRaises, NotStarted, Inv, TypeOK
<1>3. agent[t] \in Busy
  BY <1>2 DEF Busy
<1>4. t \notin told /\ ~ (t > counter) /\ steps[t] = 0 /\ steps[t] <= task[t].budget
  BY <1>2, <1>3, BusyThread
<1>5. RestTypes'
  BY <1>1, <1>2, <1>4 DEF AssemblyRaises, NotStarted, Inv, TypeOK, RestTypes, rootVars
<1>6. ThreadInStep(t)'
  BY <1>1, <1>2, <1>4, GoneInStep
<1>7. ThreadsInStep'
  BY <1>1, <1>2, <1>6, OthersInStep DEF Same
<1>8. QueuesInStep'
  BY <1>2, <1>4 DEF Inv, QueuesInStep
<1> QED
  BY <1>1, <1>5, <1>7, <1>8, InvParts

LEMMA BodyRaisesKeeps ==
  ASSUME Inv, NEW t \in Ids, BodyRaises(t), faults' \in 0..MaxFaults
  PROVE  Inv'
<1>1. PlaneInv' /\ Live' = Live /\ UNCHANGED <<config, counter, task>>
  BY PlaneStands DEF BodyRaises
<1>2. /\ agent[t] = "over" /\ verdict'[t] = "raised"
      /\ agent'[t] = IF t \in background THEN "callback" ELSE "gone"
      /\ \A s \in Ids \ {t} : agent'[s] = agent[s] /\ verdict'[s] = verdict[s]
      /\ UNCHANGED <<steps, told, background>>
  BY DEF BodyRaises, Left, Inv, TypeOK
<1>3. agent[t] \in Busy
  BY <1>2 DEF Busy
<1>4. t \notin told /\ ~ (t > counter) /\ steps[t] \in Nat /\ steps[t] <= task[t].budget
  BY <1>2, <1>3, BusyThread
<1>5. RestTypes'
  BY <1>1, <1>2, <1>4 DEF BodyRaises, Left, Inv, TypeOK, RestTypes, rootVars
<1>6. ThreadInStep(t)'
  BY <1>1, <1>2, <1>4, GoneInStep
<1>7. ThreadsInStep'
  BY <1>1, <1>2, <1>6, OthersInStep DEF Same
<1>8. QueuesInStep'
  BY <1>2, <1>4 DEF Inv, QueuesInStep
<1> QED
  BY <1>1, <1>5, <1>7, <1>8, InvParts

LEMMA FinishKeeps ==
  ASSUME Inv, NEW t \in Ids, Finish(t)
  PROVE  Inv'
<1>1. /\ agent[t] = "over" /\ verdict'[t] = "none"
      /\ agent'[t] = IF t \in background THEN "callback" ELSE "gone"
      /\ \A s \in Ids \ {t} : agent'[s] = agent[s] /\ verdict'[s] = verdict[s]
      /\ UNCHANGED <<config, counter, steps, told, background>>
  BY DEF Finish, Left, Inv, TypeOK, restVars
<1>2. \E roots : \E status \in Terminal : task' = Settled(Flagged(roots), t, status, steps[t])
  BY DEF Finish, Terminal
<1>3. agent[t] \in Busy
  BY <1>1 DEF Busy
<1>4. /\ t \notin told /\ ~ (t > counter) /\ steps[t] \in Nat /\ steps[t] <= task[t].budget
      /\ t \in Live
  BY <1>1, <1>3, BusyThread
<1>5. PICK roots : \E status \in Terminal : task' = Settled(Flagged(roots), t, status, steps[t])
  BY <1>2
<1>6. PICK status \in Terminal : task' = Settled(Flagged(roots), t, status, steps[t])
  BY <1>5
<1>7. /\ PlaneInv' /\ t \notin Live' /\ task'[t].used = steps[t]
      /\ \A s \in Ids \ {t} : Same(s)
  <2> DEFINE table == Flagged(roots)
             used == steps[t]
  <2>1. task' = Settled(table, t, status, used) /\ table \in {task, Flagged(roots)} /\ used \in Nat
    BY <1>4, <1>6
  <2> HIDE DEF table, used
  <2>2. /\ PlaneInv' /\ t \notin Live'
        /\ t \in Live /\ used <= task[t].budget => task'[t].used = used
        /\ \A s \in Ids \ {t} :
              /\ task'[s].status = task[s].status /\ task'[s].used = task[s].used
              /\ task'[s].budget = task[s].budget /\ task'[s].depth = task[s].depth
              /\ task'[s].tokens = task[s].tokens
    BY <1>1, <2>1, SettledTasks
  <2> QED
    BY <1>1, <1>4, <2>2 DEF Same, used
<1>8. RestTypes'
  BY <1>1, <1>4 DEF Finish, Left, Inv, TypeOK, RestTypes, rootVars, restVars
<1>9. ThreadInStep(t)'
  BY <1>1, <1>4, <1>7, GoneInStep
<1>10. ThreadsInStep'
  BY <1>1, <1>7, <1>9, OthersInStep
<1>11. QueuesInStep'
  BY <1>1, <1>4 DEF Inv, QueuesInStep
<1> QED
  BY <1>7, <1>8, <1>10, <1>11, InvParts

LEMMA CallbackKeeps ==
  ASSUME Inv, NEW t \in Ids, Callback(t)
  PROVE  Inv'
<1>1. /\ agent[t] = "callback" /\ agent'[t] = "gone" /\ told' \in {told, told \cup {t}}
      /\ \A s \in Ids \ {t} : agent'[s] = agent[s]
      /\ UNCHANGED <<config, counter, steps, verdict, background>>
  BY DEF Callback, Leave, Inv, TypeOK
<1>2. t \in background /\ ~ (t > counter)
  BY <1>1 DEF Inv, QueuesInStep, ThreadsInStep, ThreadInStep
<1>3. steps[t] \in Nat
  BY Limits DEF Inv, TypeOK
<1>4. /\ verdict[t] = "dropped" => steps[t] = 0
      /\ t \in Live => steps[t] <= task[t].budget
      /\ task[t].status \in Terminal /\ verdict[t] # "raised" => steps[t] <= task[t].used
  <2>1. Rounds(t) = steps[t]
    BY <1>1, <1>3 DEF Rounds
  <2> QED
    BY <2>1 DEF Inv, ThreadsInStep, ThreadInStep
<1>5. "cancelled" \in Terminal /\ "failed" \in Terminal /\ task[t].used \in Nat
      /\ task[t].budget \in Nat
  BY Fields DEF Terminal, Inv
<1>6. /\ PlaneInv'
      /\ \A s \in Ids \ {t} : Same(s)
      /\ t \in Live' => steps[t] <= task'[t].budget
      /\ task'[t].status \in Terminal /\ verdict[t] # "raised" => steps[t] <= task'[t].used
  <2>1. CASE verdict[t] = "dropped"
    <3>1. task' = Settled(task, t, "cancelled", 0)
      BY <2>1 DEF Callback
    <3>2. /\ PlaneInv' /\ t \notin Live'
          /\ t \in Live => task'[t].used = 0
          /\ t \notin Live => task'[t] = task[t]
          /\ \A s \in Ids \ {t} : Same(s)
      BY <1>1, <1>5, <3>1, SettledTasks DEF Same
    <3> QED
      BY <1>4, <1>5, <2>1, <3>2
  <2>2. CASE verdict[t] = "raised"
    <3>1. task' = Settled(task, t, "failed", 0)
      BY <2>2 DEF Callback
    <3>2. PlaneInv' /\ t \notin Live' /\ \A s \in Ids \ {t} : Same(s)
      BY <1>1, <1>5, <3>1, SettledTasks DEF Same
    <3> QED
      BY <2>2, <3>2
  <2>3. CASE verdict[t] \notin {"dropped", "raised"}
    <3>1. task' = task
      BY <2>3 DEF Callback
    <3>2. PlaneInv' /\ Live' = Live
      BY <1>1, <3>1, PlaneStands DEF planeVars
    <3> QED
      BY <1>1, <1>4, <3>1, <3>2 DEF Same
  <2> QED
    BY <2>1, <2>2, <2>3
<1>7. RestTypes'
  BY <1>1, <1>2 DEF Callback, Leave, Inv, TypeOK, RestTypes, rootVars
<1>8. ThreadInStep(t)'
  BY <1>1, <1>2, <1>3, <1>4, <1>6, GoneInStep
<1>9. ThreadsInStep'
  BY <1>1, <1>6, <1>8, OthersInStep
<1>10. QueuesInStep'
  BY <1>1 DEF Inv, QueuesInStep
<1> QED
  BY <1>6, <1>7, <1>9, <1>10, InvParts

LEMMA ShutdownCancelsKeeps ==
  ASSUME Inv, ShutdownCancels
  PROVE  Inv'
<1>1. task' = Flagged(Live) /\ UNCHANGED <<config, counter, steps, background, told>>
  BY DEF ShutdownCancels
<1>2. /\ PlaneInv' /\ Live' = Live
      /\ \A s \in Ids :
           /\ task'[s].status = task[s].status /\ task'[s].used = task[s].used
           /\ task'[s].budget = task[s].budget /\ task'[s].depth = task[s].depth
           /\ task'[s].tokens = task[s].tokens
  BY <1>1, FlaggedTasks
<1>3. \A s \in Ids : agent[s] # "queued" => agent'[s] = agent[s] /\ verdict'[s] = verdict[s]
  BY DEF ShutdownCancels
<1>4. \A s \in Ids : agent[s] = "queued" => agent'[s] = "callback" /\ verdict'[s] = "dropped"
  BY DEF ShutdownCancels
<1>5. RestTypes'
  BY <1>1 DEF ShutdownCancels, Inv, TypeOK, RestTypes, rootVars
<1>6. counter \in Nat /\ counter' \in Nat /\ counter <= counter'
  BY <1>1, SomeIds DEF Inv, PlaneInv
<1>7. ThreadsInStep'
  <2> SUFFICES ASSUME NEW s \in Ids
               PROVE  ThreadInStep(s)'
    BY DEF ThreadsInStep
  <2>1. CASE agent[s] # "queued"
    BY <1>1, <1>2, <1>3, <1>6, <2>1, SameInStep DEF Inv, ThreadsInStep, Same
  <2>2. CASE agent[s] = "queued"
    <3>1. agent[s] \in Busy
      BY <2>2 DEF Busy
    <3>2. /\ steps[s] = 0 /\ ~ (s > counter) /\ task[s].budget \in Nat
          /\ task[s].used \in Nat
      BY <2>2, <3>1, BusyThread, Fields DEF Inv
    <3> QED
      BY <1>1, <1>2, <1>4, <2>2, <3>2, GoneInStep
  <2> QED
    BY <2>1, <2>2
<1>8. QueuesInStep'
  BY <1>1, <1>3, <1>4 DEF Inv, QueuesInStep
<1> QED
  BY <1>2, <1>5, <1>7, <1>8, InvParts

LEMMA RestartKeeps ==
  ASSUME Inv, Restart, faults' \in 0..MaxFaults
  PROVE  Inv'
<1>1. task' = Interrupted /\ UNCHANGED <<config, counter, turn>>
  BY DEF Restart
<1>2. PlaneInv' /\ Live' = {}
  BY <1>1, InterruptedIsCalm, CalmKeepsPlane DEF Inv
<1>3. \A s \in Ids : agent'[s] = "none" /\ steps'[s] = 0 /\ verdict'[s] = "none"
  BY DEF Restart
<1>4. RestTypes'
  <2>1. 0 \in 0..MaxBatch /\ 0 \in 0..config.steps
    BY ControlAssumption, Limits DEF Inv, PlaneInv
  <2> QED
    BY <1>1, <2>1 DEF Restart, Inv, TypeOK, RestTypes
<1>5. ThreadsInStep'
  <2> SUFFICES ASSUME NEW s \in Ids
               PROVE  ThreadInStep(s)'
    BY DEF ThreadsInStep
  <2>1. task'[s].used \in Nat
    BY <1>1, <1>2, Limits DEF PlaneInv, TaskRecord
  <2>2. Rounds(s)' = 0 /\ agent'[s] \notin Busy
    BY <1>3 DEF Rounds, Busy
  <2> QED
    BY <1>2, <1>3, <2>1, <2>2 DEF ThreadInStep, Busy
<1>6. QueuesInStep'
  BY <1>3 DEF QueuesInStep, Restart
<1> QED
  BY <1>2, <1>4, <1>5, <1>6, InvParts

\* spawn_agent of p in turn u: the new thread, and what is pruned.
LEMMA BegunInStep ==
  ASSUME Inv, NEW p, NEW u, MayBegin(p, u), Begin(p, u),
         UNCHANGED <<steps, verdict, told>>, background \subseteq background'
  PROVE  /\ PlaneInv' /\ ThreadsInStep' /\ QueuesInStep' /\ UNCHANGED config
         /\ agent' \in [Ids -> {"none", "assemble", "queued", "model", "llm", "reply", "tools",
                                "over", "callback", "gone"}]
         /\ counter' # counter => counter' \in Ids
<1>1. PlaneInv' /\ UNCHANGED config /\ (counter' # counter => counter' \in Ids)
  BY BeginKeepsPlane, BegunRecords DEF Inv
<1>2. counter \in Nat /\ counter' \in Nat /\ counter <= counter' /\ counter + 1 \in Ids
  BY BegunRecords, SomeIds DEF Inv, PlaneInv
<1>3. /\ agent' \in [Ids -> {"none", "assemble", "queued", "model", "llm", "reply", "tools",
                             "over", "callback", "gone"}]
      /\ \A s \in Ids \ Fresh(p, u) : agent'[s] = agent[s]
      /\ \A s \in Fresh(p, u) :
           agent'[s] = IF task'[s].status = "running" THEN "assemble" ELSE "gone"
  <2>1. CASE HasRoom(p, u)
    BY <1>2, <2>1 DEF Begin, Fresh, Inv, TypeOK
  <2>2. CASE ~HasRoom(p, u)
    BY <2>2 DEF Begin, Fresh, Inv, TypeOK
  <2> QED
    BY <2>1, <2>2
<1>4. ASSUME NEW s \in Fresh(p, u)
      PROVE  /\ ThreadInStep(s)' /\ agent[s] = "none"
  <2>1. s = counter + 1 /\ s \in Ids /\ HasRoom(p, u) /\ counter' = counter + 1
    BY <1>2, <1>4, BegunRecords DEF Fresh, Inv
  <2>2. agent[s] = "none" /\ verdict[s] = "none" /\ steps[s] = 0
    BY <1>2, <2>1 DEF Inv, ThreadsInStep, ThreadInStep
  <2>3. /\ task'[s].status \in {"running", "failed"} /\ task'[s].used = 0
        /\ task'[s].tokens = 0 /\ task'[s].budget \in Nat
    <3>1. task'[s] = NewTask(p, u)
      BY <1>4, BegunRecords DEF Inv
    <3> QED
      BY <2>1, <3>1, NewRecord, Limits DEF Inv, PlaneInv, TaskRecord
  <2>4. Rounds(s)' = 0 /\ (s \in Live' <=> task'[s].status = "running")
    BY <1>3, <2>1, <2>2 DEF Rounds, Live
  <2> QED
    BY <1>2, <1>3, <1>4, <2>1, <2>2, <2>3, <2>4 DEF ThreadInStep, Busy
<1>5. ThreadsInStep'
  <2> SUFFICES ASSUME NEW s \in Ids \ Fresh(p, u)
               PROVE  ThreadInStep(s)'
    BY <1>4 DEF ThreadsInStep
  <2>1. CASE s \notin Pruned(u)
    <3>1. Same(s)
      BY <1>3, <2>1, BegunRecords DEF Inv, Same
    <3> QED
      BY <1>1, <1>2, <3>1, SameInStep DEF Inv, ThreadsInStep
  <2>2. CASE s \in Pruned(u)
    <3>1. task'[s] = NoTask /\ s \notin Live /\ s \notin Live'
      BY <2>2, BegunRecords, PrunedTurns, BegunTurns DEF Inv
    <3>2. task'[s].status \notin Terminal
      BY <3>1 DEF NoTask, Terminal
    <3>3. agent[s] \notin Busy
      BY <3>1 DEF Inv, ThreadsInStep, ThreadInStep
    <3>4. s > counter' => s > counter
      BY <1>2, SomeIds
    <3> QED
      BY <1>3, <3>1, <3>2, <3>3, <3>4 DEF Inv, ThreadsInStep, ThreadInStep, Busy
  <2> QED
    BY <2>1, <2>2
<1>6. QueuesInStep'
  <2>1. \A s \in Fresh(p, u) : s \notin told /\ agent'[s] \notin {"queued", "callback"}
    BY <1>3, <1>4, BegunTurns DEF Inv, QueuesInStep
  <2> QED
    BY <1>3, <2>1 DEF Inv, QueuesInStep
<1> QED
  BY <1>1, <1>3, <1>5, <1>6

LEMMA SpawnChildKeeps ==
  ASSUME Inv, NEW p \in Ids, SpawnChild(p)
  PROVE  Inv'
<1>1. /\ agent[p] = "tools" /\ Begin(p, task[p].turn)
      /\ UNCHANGED <<turn, root, stopped, steps, verdict, deadline, background, told, heard,
                     pool, faults>>
  BY DEF SpawnChild, rootVars, restVars
<1>2. agent[p] \in Busy
  BY <1>1 DEF Busy
<1>3. MayBegin(p, task[p].turn)
  <2>1. p \in Live /\ task[p].depth < config.depth
    BY <1>1, <1>2, BusyThread DEF Inv, ThreadsInStep, ThreadInStep
  <2>2. p \in 0..MaxIds /\ task[p].turn \in 0..config.turns
    BY SomeIds, Fields DEF Ids, Inv
  <2> QED
    BY <2>1, <2>2 DEF MayBegin
<1>4. /\ PlaneInv' /\ ThreadsInStep' /\ QueuesInStep' /\ UNCHANGED config
      /\ agent' \in [Ids -> {"none", "assemble", "queued", "model", "llm", "reply", "tools",
                             "over", "callback", "gone"}]
  BY <1>1, <1>3, BegunInStep
<1>5. todo' \in [Ids -> 0..MaxBatch]
  <2>1. todo[p] - 1 \in 0..MaxBatch
    BY ControlAssumption DEF SpawnChild, Inv, TypeOK
  <2> QED
    BY <2>1 DEF SpawnChild, Inv, TypeOK
<1>6. RestTypes'
  BY <1>1, <1>4, <1>5 DEF Inv, TypeOK, RestTypes
<1> QED
  BY <1>4, <1>6, InvParts

LEMMA SpawnFromRootKeeps ==
  ASSUME Inv, NEW in_background \in BOOLEAN, SpawnFromRoot(in_background)
  PROVE  Inv'
<1>1. /\ Begin(0, turn) /\ background \subseteq background'
      /\ background' \subseteq background \cup (IF counter' # counter THEN {counter'} ELSE {})
      /\ UNCHANGED <<turn, root, stopped, todo, steps, verdict, deadline, told, heard, pool,
                     faults>>
  BY DEF SpawnFromRoot, rootVars, restVars
<1>2. MayBegin(0, turn)
  BY SomeIds DEF MayBegin, Inv, TypeOK
<1>3. /\ PlaneInv' /\ ThreadsInStep' /\ QueuesInStep' /\ UNCHANGED config
      /\ agent' \in [Ids -> {"none", "assemble", "queued", "model", "llm", "reply", "tools",
                             "over", "callback", "gone"}]
      /\ counter' # counter => counter' \in Ids
  BY <1>1, <1>2, BegunInStep
<1>4. RestTypes'
  BY <1>1, <1>3 DEF Inv, TypeOK, RestTypes
<1> QED
  BY <1>3, <1>4, InvParts

-----------------------------------------------------------------------------
(* The invariant, and what follows from it.                                *)

LEMMA InitInv == Init => Inv
<1> SUFFICES ASSUME Init PROVE Inv
  OBVIOUS
<1>1. config \in Configs /\ task = [t \in Ids |-> NoTask] /\ counter = 0
  BY DEF Init
<1>2. config.steps \in Nat /\ config.depth \in Nat /\ config.turns \in Nat /\ MaxIds \in Nat
  BY <1>1, Limits, SomeIds
<1>3. NoTask \in TaskRecord /\ NoTask.status = "none"
  BY <1>2 DEF NoTask, TaskRecord
<1>4. task \in [Ids -> TaskRecord] /\ counter \in 0..MaxIds
  BY <1>1, <1>2, <1>3
<1>5. Stored = {} /\ Live = {}
  BY <1>1, <1>3 DEF Stored, Live
<1>6. RecordsInOrder
  BY <1>1, <1>5, SomeIds DEF RecordsInOrder, NoTask
<1>7. SnapshotLoads
  BY <1>5 DEF SnapshotLoads
<1>8. ReservedHolds
  <2>1. \A u : TurnTasks(u) = {}
    BY <1>5 DEF TurnTasks
  <2>2. \A u : Committed(u) = 0
    BY <2>1, SumEmpty DEF Committed
  <2> QED
    BY <1>2, <2>2 DEF ReservedHolds
<1>9. SpentIsCancelled
  BY <1>5 DEF SpentIsCancelled
<1>10. RestTypes
  <2>1. 0 \in 0..MaxBatch /\ 0 \in 0..config.steps /\ 0 \in 0..config.turns /\ 0 \in 0..MaxFaults
    BY <1>2, ControlAssumption
  <2> QED
    BY <2>1 DEF Init, RestTypes
<1>11. TypeOK
  BY <1>1, <1>4, <1>10 DEF TypeOK, RestTypes
<1>12. ThreadsInStep
  <2>1. \A t \in Ids : agent[t] = "none" /\ verdict[t] = "none" /\ steps[t] = 0
    BY DEF Init
  <2>2. \A t \in Ids : task[t].status \notin Terminal /\ agent[t] \notin Busy
    BY <1>1, <1>3, <2>1 DEF Terminal, Busy
  <2> QED
    BY <1>5, <2>1, <2>2 DEF ThreadsInStep, ThreadInStep, Busy
<1>13. QueuesInStep
  BY DEF Init, QueuesInStep
<1> QED
  BY <1>1, <1>4, <1>6, <1>7, <1>8, <1>9, <1>11, <1>12, <1>13 DEF Inv, PlaneInv

LEMMA NextKeepsInv ==
  ASSUME Inv, [Next]_vars
  PROVE  Inv'
<1>1. CASE UNCHANGED vars
  <2>1. RestTypes'
    BY <1>1 DEF vars, planeVars, rootVars, agentVars, restVars, Inv, TypeOK, RestTypes
  <2> QED
    BY <1>1, <2>1, Elsewhere DEF vars, restVars
<1>2. CASE UserTurn
  BY <1>2, UserTurnKeeps
<1>3. CASE RootEnds
  <2>1. faults' \in 0..MaxFaults
    BY <1>3 DEF RootEnds, restVars, Inv, TypeOK
  <2> QED
    BY <1>3, <2>1, RootKeeps
<1>4. CASE Fault
  <2>1. faults' \in 0..MaxFaults
    BY <1>4, ControlAssumption DEF Fault, Inv, TypeOK
  <2>2. \/ StopRoot \/ Restart
        \/ \E t \in Ids : \/ AssemblyFails(t) \/ AssemblyRaises(t) \/ BodyRaises(t)
                          \/ Deadline(t) \/ RequestCancel(t)
    BY <1>4 DEF Fault
  <2> QED
    BY <2>1, <2>2, RootKeeps, RestartKeeps, AssemblyFailsKeeps, AssemblyRaisesKeeps,
       BodyRaisesKeeps, DeadlineKeeps, RequestCancelKeeps
<1>5. ASSUME NEW in_background \in BOOLEAN, SpawnFromRoot(in_background)
      PROVE  Inv'
  BY <1>5, SpawnFromRootKeeps
<1>6. ASSUME NEW t \in Ids, AgentStep(t)
      PROVE  Inv'
  <2>1. \A n \in 1..MaxBatch : CallTools(t, n) => Inv'
    BY CallToolsKeeps
  <2> QED
    BY <1>6, <2>1, SpawnChildKeeps, SkipCallKeeps, AssembleKeeps, StartWorkerKeeps,
       StartRoundKeeps, EndRoundKeeps, EndToolsKeeps, AnswerKeeps, RequestFailsKeeps,
       StoppedKeeps, FinishKeeps, CallbackKeeps DEF AgentStep
<1>7. ASSUME NEW t \in Ids, RuntimeEvent(t)
      PROVE  Inv'
  BY <1>7, RuntimeEventKeeps
<1>8. CASE Shutdown
  BY <1>8, ShutdownKeeps
<1>9. CASE ShutdownCancels
  BY <1>9, ShutdownCancelsKeeps
<1> QED
  BY <1>1, <1>2, <1>3, <1>4, <1>5, <1>6, <1>7, <1>8, <1>9 DEF Next

\* The control plane, the threads of the agents and the executor agree in every
\* reachable state.
THEOREM InvHolds == Spec => []Inv
<1>1. Inv /\ [Next]_vars => Inv'
  BY NextKeepsInv
<1> QED
  BY <1>1, InitInv, PTL DEF Spec

\* Every variable of the control plane and of its agents keeps its type: no budget,
\* step count or batch leaves its bounds (control.py, AgentControlPlane).
THEOREM TypeCorrect == Spec => []TypeOK
<1>1. Inv => TypeOK
  BY DEF Inv
<1> QED
  BY <1>1, InvHolds, PTL

\* A checkpoint of the plane can be loaded after any step: _validate_tree_unlocked
\* finds parents and children of each other, one turn, one more depth (control.py).
THEOREM SnapshotAlwaysLoads == Spec => []SnapshotLoads
<1>1. Inv => SnapshotLoads
  BY DEF Inv, PlaneInv
<1> QED
  BY <1>1, InvHolds, PTL

LEMMA InvGivesBudgets == Inv => BudgetsHold
<1> SUFFICES ASSUME Inv PROVE BudgetsHold
  OBVIOUS
<1>1. StepsNeverOversold
  <2> SUFFICES ASSUME NEW u \in 1..config.turns
               PROVE  SumFunctionOnSet([t \in Ids |-> Rounds(t)],
                                       {t \in TurnTasks(u) : verdict[t] # "raised"})
                        <= config.steps
    BY DEF StepsNeverOversold
  <2> DEFINE f == [t \in Ids |-> Rounds(t)]
             g == [t \in Ids |-> Taken(t)]
             S == TurnTasks(u)
             R == {t \in S : verdict[t] # "raised"}
  <2>1. S \in SUBSET Ids /\ IsFiniteSet(S) /\ R \in SUBSET S
    BY TurnSums DEF Inv
  <2>2. \A t \in S : g[t] \in Nat
    BY <2>1, TurnSums DEF Inv
  <2>3. ASSUME NEW t \in R
        PROVE  f[t] \in Nat /\ f[t] <= g[t]
    <3>1. t \in Ids /\ t \in Stored /\ verdict[t] # "raised"
      BY <2>1 DEF TurnTasks
    <3>2. Rounds(t) \in Nat
      BY <3>1, Limits DEF Inv, PlaneInv, TypeOK, Rounds
    <3>3. CASE task[t].status \in Terminal
      BY <3>1, <3>2, <3>3 DEF Inv, ThreadsInStep, ThreadInStep, Taken
    <3>4. CASE task[t].status \notin Terminal
      <4>1. t \in Live
        BY <3>1, <3>4, Fields DEF Stored, Live, Inv
      <4> QED
        BY <3>1, <3>2, <3>4, <4>1 DEF Inv, ThreadsInStep, ThreadInStep, Taken
    <3> QED
      BY <3>3, <3>4
  <2>4. SumFunctionOnSet(g, S) <= config.steps /\ SumFunctionOnSet(g, S) \in Nat
    <3>1. u \in 0..config.turns
      OBVIOUS
    <3> QED
      BY <3>1, TurnSums DEF Inv, PlaneInv, ReservedHolds, Committed
  <2> HIDE DEF f, g, S
  <2>5. SumFunctionOnSet(f, R) <= SumFunctionOnSet(g, S) /\ SumFunctionOnSet(f, R) \in Nat
    <3>1. IsFiniteSet(R)
      BY <2>1, FS_Subset
    <3> HIDE DEF R
    <3> QED
      BY <2>1, <2>2, <2>3, <3>1, SumMonotone, SumNat
  <2>6. SumFunctionOnSet(f, R) <= config.steps
    BY <2>4, <2>5, Limits DEF Inv, PlaneInv
  <2> QED
    BY <2>6 DEF f, S
<1>2. ExhaustionStopsTheTurn
  <2> SUFFICES ASSUME NEW t \in Live, task[t].tokens > 0,
                      Tokens(task[t].turn) >= config.tokens
               PROVE  task[t].cancel
    BY DEF ExhaustionStopsTheTurn
  <2>1. task[t].turn \in 0..config.turns /\ t \in TurnTasks(task[t].turn)
    BY Fields DEF Inv, TurnTasks, Live, Stored
  <2> QED
    BY <2>1 DEF Inv, PlaneInv, SpentIsCancelled
<1> QED
  BY <1>1, <1>2 DEF BudgetsHold

\* The children of a turn never record or begin more rounds than max_steps_per_turn,
\* however they nest and overlap, and once the turn has used its tokens every running
\* task that used any is cancelled (begin_task, finish_task, add_usage).
THEOREM BudgetsAlwaysHold == Spec => []BudgetsHold
BY InvHolds, InvGivesBudgets, PTL

-----------------------------------------------------------------------------
(* Functions that follow the parents up to the root.                       *)

\* What is b at 0, and elsewhere what H makes of the value at a smaller parent, is
\* defined everywhere.
Descends(N, par) == \A t \in 1..N : par[t] \in 0..N /\ par[t] < t
Passes(N, V, H) == \A t \in 1..N : \A v \in V : H[<<t, v>>] \in V
Climbs(f, N, V, b, par, H) ==
  f \in [0..N -> V] /\ f[0] = b /\ \A t \in 1..N : f[t] = H[<<t, f[par[t]]>>]

LEMMA TreeFunction ==
  ASSUME NEW N \in Nat, NEW V, NEW b \in V, NEW par, NEW H,
         Descends(N, par), Passes(N, V, H)
  PROVE  \E f : Climbs(f, N, V, b, par, H)
<1> USE DEF Descends, Passes
<1> DEFINE Upto(n, f) == /\ f \in [0..n -> V] /\ f[0] = b
                         /\ \A t \in 1..n : f[t] = H[<<t, f[par[t]]>>]
           T == {n \in 0..N : ~ \E f : Upto(n, f)}
<1>1. SUFFICES ASSUME T # {} PROVE FALSE
  <2>1. SUFFICES ASSUME T = {} PROVE \E f : Upto(N, f)
    BY DEF Climbs
  <2>2. N \in 0..N
    OBVIOUS
  <2> HIDE DEF Upto
  <2> QED
    BY <2>1, <2>2
<1>2. PICK m \in T : \A k \in T : m <= k
  <2> HIDE DEF Upto
  <2>1. T \in SUBSET Nat
    OBVIOUS
  <2> QED
    BY <1>1, <2>1, LeastNumber
<1>3. CASE m = 0
  <2> DEFINE f == [t \in 0..0 |-> b]
  <2>1. Upto(0, f)
    OBVIOUS
  <2> QED
    BY <1>3, <2>1
<1>4. CASE m # 0
  <2>1. m - 1 \in 0..N /\ m - 1 \notin T /\ m \in 1..N
    BY <1>2, <1>4
  <2>2. PICK f : Upto(m - 1, f)
    BY <2>1
  <2> DEFINE g == [t \in 0..m |-> IF t = m THEN H[<<m, f[par[m]]>>] ELSE f[t]]
  <2>3. \A t \in 0..m : t # m => t \in 0..(m - 1) /\ g[t] = f[t]
    BY <2>1
  <2>4. g \in [0..m -> V]
    <3>1. f[par[m]] \in V /\ H[<<m, f[par[m]]>>] \in V
      <4>1. par[m] \in 0..(m - 1)
        BY <2>1
      <4> QED
        BY <2>1, <2>2, <4>1
    <3>2. \A t \in 0..m : g[t] \in V
      BY <2>2, <2>3, <3>1
    <3> QED
      BY <3>2
  <2>5. g[0] = b
    BY <1>4, <2>1, <2>2
  <2>6. ASSUME NEW t \in 1..m
        PROVE  g[t] = H[<<t, g[par[t]]>>]
    <3>1. t \in 1..N /\ par[t] \in 0..m /\ par[t] # m
      BY <2>1
    <3>2. g[par[t]] = f[par[t]]
      BY <2>3, <3>1
    <3>3. CASE t = m
      BY <3>2, <3>3
    <3>4. CASE t # m
      <4>1. t \in 1..(m - 1) /\ g[t] = f[t]
        BY <2>1, <2>3, <3>4
      <4>2. f[t] = H[<<t, f[par[t]]>>]
        BY <2>2, <4>1
      <4> QED
        BY <3>2, <4>1, <4>2
    <3> QED
      BY <3>3, <3>4
  <2>7. Upto(m, g)
    BY <2>4, <2>5, <2>6
  <2> QED
    BY <2>7
<1> QED
  BY <1>3, <1>4

\* Parents come before their children.
LEMMA ParentsFirst ==
  ASSUME PlaneInv
  PROVE  /\ MaxIds \in Nat /\ Ids = 1..MaxIds
         /\ \A t \in 1..MaxIds : task[t].parent \in 0..MaxIds /\ task[t].parent < t
BY SomeIds, Fields DEF Ids, PlaneInv, RecordsInOrder

LEMMA IsCancelledUnfolds ==
  ASSUME PlaneInv
  PROVE  \A t \in 0..MaxIds :
           IsCancelled[t] <=> t \in Stored /\ (task[t].cancel \/ IsCancelled[task[t].parent])
<1> DEFINE Rule(f) == f = [t \in 0..MaxIds |->
                             t \in Stored /\ (task[t].cancel \/ f[task[t].parent])]
<1>1. \E f : Rule(f)
  <2> DEFINE par == [t \in 1..MaxIds |-> task[t].parent]
             H == [x \in (1..MaxIds) \X BOOLEAN |->
                     x[1] \in Stored /\ (task[x[1]].cancel \/ x[2])]
  <2>1. \A t \in 1..MaxIds : par[t] \in 0..MaxIds /\ par[t] < t
    BY ParentsFirst
  <2>2. \A t \in 1..MaxIds : \A v \in BOOLEAN :
          /\ H[<<t, v>>] \in BOOLEAN
          /\ H[<<t, v>>] = (t \in Stored /\ (task[t].cancel \/ v))
    OBVIOUS
  <2>3. \A t \in 1..MaxIds : par[t] = task[t].parent
    OBVIOUS
  <2> HIDE DEF par, H
  <2>4. PICK f \in [0..MaxIds -> BOOLEAN] :
          f[0] = FALSE /\ \A t \in 1..MaxIds : f[t] = H[<<t, f[par[t]]>>]
    <3> DEFINE V == BOOLEAN
               b == FALSE
    <3>1. b \in V /\ MaxIds \in Nat /\ Descends(MaxIds, par) /\ Passes(MaxIds, V, H)
      BY <2>1, <2>2, ParentsFirst DEF Descends, Passes
    <3> HIDE DEF V, b
    <3>2. \E f : Climbs(f, MaxIds, V, b, par, H)
      BY <3>1, TreeFunction
    <3> QED
      BY <3>2 DEF Climbs, V, b
  <2>5. 0 \notin Stored
    BY ParentsFirst DEF Stored
  <2>6. ASSUME NEW t \in 0..MaxIds
        PROVE  f[t] = (t \in Stored /\ (task[t].cancel \/ f[task[t].parent]))
    <3>1. CASE t = 0
      BY <2>4, <2>5, <3>1
    <3>2. CASE t # 0
      <4>1. t \in 1..MaxIds
        BY <3>2, ParentsFirst
      <4>2. f[par[t]] \in BOOLEAN /\ par[t] = task[t].parent
        BY <2>1, <2>3, <4>1
      <4>3. f[t] = H[<<t, f[par[t]]>>]
        BY <2>4, <4>1
      <4> QED
        BY <2>2, <4>1, <4>2, <4>3
    <3> QED
      BY <3>1, <3>2
  <2>7. f = [t \in 0..MaxIds |-> t \in Stored /\ (task[t].cancel \/ f[task[t].parent])]
    BY <2>6
  <2> QED
    BY <2>7
<1>2. IsCancelled = CHOOSE f : Rule(f)
  BY DEF IsCancelled
<1>3. Rule(IsCancelled)
  <2> HIDE DEF Rule
  <2> QED
    BY <1>1, <1>2
<1> QED
  BY <1>3

LEMMA CallCancelledUnfolds ==
  ASSUME PlaneInv, stopped \in BOOLEAN
  PROVE  /\ CallCancelled[0] <=> stopped
         /\ \A t \in Ids :
              CallCancelled[t] <=> \/ t \in deadline
                                   \/ CallCancelled[task[t].parent]
                                   \/ task[t].parent # 0 /\ IsCancelled[task[t].parent]
<1> DEFINE Rule(f) == f = [t \in 0..MaxIds |->
                             IF t = 0 THEN stopped
                             ELSE \/ t \in deadline
                                  \/ f[task[t].parent]
                                  \/ task[t].parent # 0 /\ IsCancelled[task[t].parent]]
<1>1. \E f : Rule(f)
  <2> DEFINE par == [t \in 1..MaxIds |-> task[t].parent]
             H == [x \in (1..MaxIds) \X BOOLEAN |->
                     \/ x[1] \in deadline
                     \/ x[2]
                     \/ task[x[1]].parent # 0 /\ IsCancelled[task[x[1]].parent]]
  <2>1. \A t \in 1..MaxIds : par[t] \in 0..MaxIds /\ par[t] < t
    BY ParentsFirst
  <2>2. \A t \in 1..MaxIds : \A v \in BOOLEAN :
          /\ H[<<t, v>>] \in BOOLEAN
          /\ H[<<t, v>>] = (\/ t \in deadline
                            \/ v
                            \/ task[t].parent # 0 /\ IsCancelled[task[t].parent])
    OBVIOUS
  <2>3. \A t \in 1..MaxIds : par[t] = task[t].parent
    OBVIOUS
  <2> HIDE DEF par, H
  <2>4. PICK f \in [0..MaxIds -> BOOLEAN] :
          f[0] = stopped /\ \A t \in 1..MaxIds : f[t] = H[<<t, f[par[t]]>>]
    <3> DEFINE V == BOOLEAN
               b == stopped
    <3>1. b \in V /\ MaxIds \in Nat /\ Descends(MaxIds, par) /\ Passes(MaxIds, V, H)
      BY <2>1, <2>2, ParentsFirst DEF Descends, Passes
    <3> HIDE DEF V, b
    <3>2. \E f : Climbs(f, MaxIds, V, b, par, H)
      BY <3>1, TreeFunction
    <3> QED
      BY <3>2 DEF Climbs, V, b
  <2>5. ASSUME NEW t \in 0..MaxIds
        PROVE  f[t] = IF t = 0 THEN stopped
                      ELSE \/ t \in deadline
                           \/ f[task[t].parent]
                           \/ task[t].parent # 0 /\ IsCancelled[task[t].parent]
    <3>1. CASE t = 0
      BY <2>4, <3>1
    <3>2. CASE t # 0
      <4>1. t \in 1..MaxIds
        BY <3>2, ParentsFirst
      <4>2. f[par[t]] \in BOOLEAN /\ par[t] = task[t].parent
        BY <2>1, <2>3, <4>1
      <4>3. f[t] = H[<<t, f[par[t]]>>]
        BY <2>4, <4>1
      <4> QED
        BY <2>2, <3>2, <4>1, <4>2, <4>3
    <3> QED
      BY <3>1, <3>2
  <2>6. Rule(f)
    BY <2>5
  <2> QED
    BY <2>6
<1>2. CallCancelled = CHOOSE f : Rule(f)
  BY DEF CallCancelled
<1>3. Rule(CallCancelled)
  <2> HIDE DEF Rule
  <2> QED
    BY <1>1, <1>2
<1>4. 0 \in 0..MaxIds /\ \A t \in Ids : t \in 0..MaxIds /\ t # 0
  BY ParentsFirst
<1>5. CallCancelled[0] = stopped
  BY <1>3, <1>4
<1>6. \A t \in Ids :
        CallCancelled[t] = (\/ t \in deadline
                            \/ CallCancelled[task[t].parent]
                            \/ task[t].parent # 0 /\ IsCancelled[task[t].parent])
  BY <1>3, <1>4
<1> QED
  BY <1>5, <1>6

LEMMA AncestorsUnfold ==
  ASSUME PlaneInv
  PROVE  /\ Ancestors[0] = {}
         /\ \A t \in Ids : Ancestors[t] = {t} \cup Ancestors[task[t].parent]
<1> DEFINE Rule(f) == f = [t \in 0..MaxIds |->
                             IF t = 0 THEN {} ELSE {t} \cup f[task[t].parent]]
<1>1. \E f : Rule(f)
  <2> DEFINE par == [t \in 1..MaxIds |-> task[t].parent]
             H == [x \in (1..MaxIds) \X (SUBSET Ids) |-> {x[1]} \cup x[2]]
  <2>1. \A t \in 1..MaxIds : par[t] \in 0..MaxIds /\ par[t] < t
    BY ParentsFirst
  <2>2. \A t \in 1..MaxIds : \A v \in SUBSET Ids :
          H[<<t, v>>] \in SUBSET Ids /\ H[<<t, v>>] = {t} \cup v
    BY ParentsFirst
  <2>3. \A t \in 1..MaxIds : par[t] = task[t].parent
    OBVIOUS
  <2> HIDE DEF par, H
  <2>4. PICK f \in [0..MaxIds -> SUBSET Ids] :
          f[0] = {} /\ \A t \in 1..MaxIds : f[t] = H[<<t, f[par[t]]>>]
    <3> DEFINE V == SUBSET Ids
               b == {}
    <3>1. b \in V /\ MaxIds \in Nat /\ Descends(MaxIds, par) /\ Passes(MaxIds, V, H)
      BY <2>1, <2>2, ParentsFirst DEF Descends, Passes
    <3> HIDE DEF V, b
    <3>2. \E f : Climbs(f, MaxIds, V, b, par, H)
      BY <3>1, TreeFunction
    <3> QED
      BY <3>2 DEF Climbs, V, b
  <2>5. ASSUME NEW t \in 0..MaxIds
        PROVE  f[t] = IF t = 0 THEN {} ELSE {t} \cup f[task[t].parent]
    <3>1. CASE t = 0
      BY <2>4, <3>1
    <3>2. CASE t # 0
      <4>1. t \in 1..MaxIds
        BY <3>2, ParentsFirst
      <4>2. f[par[t]] \in SUBSET Ids /\ par[t] = task[t].parent
        BY <2>1, <2>3, <4>1
      <4>3. f[t] = H[<<t, f[par[t]]>>]
        BY <2>4, <4>1
      <4> QED
        BY <2>2, <3>2, <4>1, <4>2, <4>3
    <3> QED
      BY <3>1, <3>2
  <2>6. Rule(f)
    BY <2>5
  <2> QED
    BY <2>6
<1>2. Ancestors = CHOOSE f : Rule(f)
  BY DEF Ancestors
<1>3. Rule(Ancestors)
  <2> HIDE DEF Rule
  <2> QED
    BY <1>1, <1>2
<1> QED
  BY <1>3, ParentsFirst

-----------------------------------------------------------------------------
(* Nothing begins for an agent that is cancelled.                          *)

\* An agent that sees no cancellation has none above it.
LEMMA NothingAbove ==
  ASSUME Inv, NEW t \in Stored, ~SeesCancel(t)
  PROVE  /\ ~\E a \in Ancestors[t] : task[a].cancel \/ a \in deadline
         /\ ~stopped
<1> DEFINE Above(s) == stopped \/ \E a \in Ancestors[s] : task[a].cancel \/ a \in deadline
           B == {s \in Stored : ~SeesCancel(s) /\ Above(s)}
<1>1. SUFFICES ASSUME B # {} PROVE FALSE
  OBVIOUS
<1>2. PICK s \in B : \A r \in B : s <= r
  <2> HIDE DEF Above
  <2>1. B \in SUBSET Nat
    BY SomeIds DEF Stored
  <2> QED
    BY <1>1, <2>1, LeastNumber
<1> DEFINE p == task[s].parent
<1>3. /\ s \in Stored /\ s \in Ids /\ s \in 0..MaxIds /\ ~CallCancelled[s] /\ ~IsCancelled[s]
      /\ p \in Nat /\ p < s /\ p \in 0..MaxIds
  BY ParentsFirst, SomeIds DEF SeesCancel, Stored, Inv
<1>4. ~task[s].cancel /\ ~IsCancelled[p]
  BY <1>3, IsCancelledUnfolds DEF Inv
<1>5. s \notin deadline /\ ~CallCancelled[p]
  BY <1>3, CallCancelledUnfolds DEF Inv, TypeOK
<1>6. Ancestors[s] = {s} \cup Ancestors[p]
  BY <1>3, AncestorsUnfold DEF Inv
<1>7. CASE p = 0
  <2>1. ~stopped /\ Ancestors[p] = {}
    BY <1>5, <1>7, CallCancelledUnfolds, AncestorsUnfold DEF Inv, TypeOK
  <2> QED
    BY <1>2, <1>4, <1>5, <1>6, <2>1
<1>8. CASE p # 0
  <2>1. p \in Stored
    BY <1>3, <1>8 DEF Inv, PlaneInv, SnapshotLoads
  <2>2. ~SeesCancel(p)
    BY <1>4, <1>5 DEF SeesCancel
  <2>3. p \notin B
    BY <1>2, <1>3, SomeIds
  <2>4. ~Above(p)
    BY <2>1, <2>2, <2>3
  <2> QED
    BY <1>2, <1>4, <1>5, <1>6, <2>4
<1> QED
  BY <1>7, <1>8

\* A request to a model begins in StartRound only.
LEMMA RequestsBegin ==
  ASSUME Inv, Next, NEW t \in Ids, agent[t] # "llm", agent'[t] = "llm"
  PROVE  StartRound(t)
<1> USE DEF Inv, TypeOK
<1>1. ~ (UserTurn \/ RootEnds \/ Shutdown)
  BY DEF UserTurn, RootEnds, Shutdown, agentVars
<1>2. ~ ShutdownCancels
  BY DEF ShutdownCancels
<1>3. ~ Fault
  <2>1. ~ (StopRoot \/ Restart)
    BY DEF StopRoot, Restart, agentVars
  <2>2. ASSUME NEW s \in Ids
        PROVE  ~ (AssemblyFails(s) \/ AssemblyRaises(s) \/ BodyRaises(s) \/ Deadline(s)
                   \/ RequestCancel(s))
    BY DEF AssemblyFails, AssemblyRaises, NotStarted, BodyRaises, Left, Deadline,
           RequestCancel, agentVars
  <2> QED
    BY <2>1, <2>2 DEF Fault
<1>4. ASSUME NEW p, NEW u, Begin(p, u)
      PROVE  FALSE
  BY <1>4 DEF Begin
<1>5. \A in_background \in BOOLEAN : ~ SpawnFromRoot(in_background)
  BY <1>4 DEF SpawnFromRoot
<1>6. ASSUME NEW s \in Ids
      PROVE  ~ RuntimeEvent(s)
  BY DEF RuntimeEvent, agentVars
<1>7. ASSUME NEW s \in Ids, AgentStep(s)
      PROVE  StartRound(t)
  <2>1. ~ SpawnChild(s)
    BY <1>4 DEF SpawnChild
  <2>2. ~ (SkipCall(s) \/ Assemble(s) \/ StartWorker(s) \/ EndRound(s) \/ EndTools(s))
    BY DEF SkipCall, Assemble, StartWorker, EndRound, EndTools
  <2>3. \A n : ~ CallTools(s, n)
    BY DEF CallTools
  <2>4. \A answer : ~ Over(s, answer)
    BY DEF Over
  <2>5. ~ (Answer(s) \/ GiveUp(s) \/ RequestFails(s) \/ StopIfCancelled(s) \/ StopStreaming(s))
    BY <2>4 DEF Answer, GiveUp, RequestFails, StopIfCancelled, StopStreaming
  <2>6. ~ (Finish(s) \/ Callback(s))
    BY DEF Finish, Left, Callback, Leave
  <2>7. StartRound(s)
    BY <1>7, <2>1, <2>2, <2>3, <2>5, <2>6 DEF AgentStep
  <2>8. s = t
    BY <2>7 DEF StartRound
  <2> QED
    BY <2>7, <2>8
<1> QED
  BY <1>1, <1>2, <1>3, <1>5, <1>6, <1>7 DEF Next

\* No request to a model begins for an agent that is cancelled, under a cancelled or
\* timed-out ancestor or under a stopped root, in any tree, however late the agent was
\* spawned (control.py is_cancelled, subagent.py cancelled, runner.py).
THEOREM NothingBeginsCancelled == Spec => NoWorkAfterCancel
<1> DEFINE A == \A t \in Ids :
                  agent[t] # "llm" /\ agent'[t] = "llm" =>
                    /\ ~\E a \in Ancestors[t] : task[a].cancel \/ a \in deadline
                    /\ ~stopped
<1>1. Inv /\ [Next]_vars => [A]_vars
  <2> SUFFICES ASSUME Inv, Next, NEW t \in Ids, agent[t] # "llm", agent'[t] = "llm"
               PROVE  /\ ~\E a \in Ancestors[t] : task[a].cancel \/ a \in deadline
                      /\ ~stopped
    OBVIOUS
  <2>1. StartRound(t)
    BY RequestsBegin
  <2>2. t \in Stored /\ ~SeesCancel(t)
    <3>1. agent[t] \in Busy
      BY <2>1 DEF StartRound, Busy
    <3> QED
      BY <2>1, <3>1 DEF StartRound, Inv, ThreadsInStep, ThreadInStep, Live, Stored
  <2> QED
    BY <2>2, NothingAbove
<1> QED
  BY <1>1, InvHolds, PTL DEF Spec, NoWorkAfterCancel

=============================================================================

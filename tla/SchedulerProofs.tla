--------------------------- MODULE SchedulerProofs ---------------------------
(***************************************************************************)
(* The campaign scheduler for any manifest and any number of kills and     *)
(* resumes.  SchedulerInv ties the handles to the processes, the records   *)
(* to the handles and state.json to the records.  Two lemmas reach beyond  *)
(* one step: choose_next finds a campaign whenever it should (the order of *)
(* cross-multiplied shares is total and transitive), and one more start    *)
(* raises the sum that MapThenSumSet folds by what it reserves; both rest  *)
(* on the smallest set of a family, not on induction.                      *)
(***************************************************************************)
EXTENDS Scheduler, TLAPS, FiniteSetTheorems

-----------------------------------------------------------------------------
(* The inductive strengthening *)

\* No campaign has outlived a scheduler.
Owned == ~Survive \/ used["crash"] = 0

\* A handle is that of a process of its campaign, and every live process has one.
HandlesHold ==
  /\ \A c \in Running :
       running[c] \in Pids /\ proc[running[c]].camp = c /\ proc[running[c]].st # "unborn"
  /\ Owned => \A q \in AliveProcs : proc[q].camp \in Running /\ running[proc[q].camp] = q
  /\ pc \in {"down", "stopping"} => Running = {}
  /\ pc = "poll" => unpolled \subseteq Running

\* The slots in use.
SlotsHold ==
  /\ Cardinality(Running) <= GlobalMax
  /\ \A p \in Projects : Cardinality(RunningOf(p)) <= ProjectMax[p]

\* The records agree with the handles, and the file with the records: it lags behind
\* only between a start or a global cancellation and the write that follows.
RecordsHold ==
  /\ \A c \in Running : state.status[c] = "running"
  /\ pc # "down" => \A c \in Campaigns : state.status[c] = "running" => c \in Running
  /\ pc = "down" /\ used["crash"] = 0 => \A c \in Campaigns : state.status[c] # "running"
  /\ pc \notin {"popen", "stopping"} => state = saved
  /\ \A c \in Campaigns : saved.status[c] \in Terminal => state.status[c] = saved.status[c]

\* A drained scheduler goes on only for what runs; without anything running, the launch
\* loop leaves nothing pending.
LoopHolds ==
  /\ pc \in {"launch", "popen", "check"} /\ drained => Running # {}
  /\ pc = "check" /\ Running = {} => ~SomePending
  /\ pc # "deadlock"

SchedulerInv ==
  /\ TypeOK /\ HandlesHold /\ SlotsHold /\ RecordsHold
  /\ ChargesHold(state) /\ ChargesHold(saved) /\ LoopHolds /\ FairShare


-----------------------------------------------------------------------------
(* Least elements and sums *)

\* Every set of naturals has a least element.
LEMMA LeastNat ==
  ASSUME NEW T \in SUBSET Nat, T # {}
  PROVE  \E n \in T : \A m \in T : n <= m
<1> DEFINE R == OpToRel(<, Nat)
<1>1. IsWellFoundedOn(R, Nat)
  BY NatLessThanWellFounded
<1>2. \A x, y \in Nat : y < x => <<y, x>> \in R
  BY DEF OpToRel
<1> HIDE DEF R
<1>3. PICK x \in T : \A y \in T : ~ (<<y, x>> \in R)
  BY <1>1, WFMin
<1>4. x \in Nat /\ \A y \in T : y \in Nat /\ ~(y < x)
  BY <1>2, <1>3
<1> QED BY <1>3, <1>4

\* The smallest member of a family of finite sets.
LEMMA SmallestSet ==
  ASSUME NEW F, F # {}, \A T \in F : IsFiniteSet(T)
  PROVE  \E T \in F : \A U \in F : Cardinality(T) <= Cardinality(U)
<1> DEFINE N == {Cardinality(T) : T \in F}
<1>1. N \in SUBSET Nat /\ N # {}
  BY FS_CardinalityType
<1>2. PICK n \in N : \A m \in N : n <= m
  <2> HIDE DEF N
  <2> QED BY <1>1, LeastNat
<1> QED BY <1>2

\* A finite set has a first element in every total, transitive order.
LEMMA FirstOfFinite ==
  ASSUME NEW S, IsFiniteSet(S), S # {}, NEW R,
         \A x, y \in S : <<x, y>> \in R \/ <<y, x>> \in R,
         \A x, y, z \in S : <<x, y>> \in R /\ <<y, z>> \in R => <<x, z>> \in R
  PROVE  \E x \in S : \A y \in S : <<x, y>> \in R
<1> DEFINE First(T) == \E x \in T : \A y \in T : <<x, y>> \in R
           F == {T \in SUBSET S : T # {} /\ ~First(T)}
<1>1. SUFFICES ASSUME ~First(S) PROVE FALSE
  OBVIOUS
<1>2. S \in F /\ \A T \in F : IsFiniteSet(T)
  BY <1>1, FS_Subset
<1>3. PICK T \in F : \A U \in F : Cardinality(T) <= Cardinality(U)
  <2> HIDE DEF F
  <2> QED BY <1>2, SmallestSet
<1>4. PICK x \in T : TRUE
  BY <1>3
<1>5. Cardinality(T \ {x}) = Cardinality(T) - 1 /\ Cardinality(T) \in Nat
  <2>1. IsFiniteSet(T)
    BY <1>2, <1>3
  <2> QED BY <1>4, <2>1, FS_RemoveElement, FS_CardinalityType
<1>6. T \ {x} \notin F
  <2> HIDE DEF F
  <2> QED BY <1>3, <1>5
<1>7. CASE T \ {x} = {}
  BY <1>3, <1>4, <1>7
<1>8. CASE T \ {x} # {}
  <2>1. PICK z \in T \ {x} : \A y \in T \ {x} : <<z, y>> \in R
    BY <1>3, <1>6, <1>8
  <2>2. CASE <<z, x>> \in R
    BY <1>3, <2>1, <2>2
  <2>3. CASE <<x, z>> \in R
    <3>1. x \in S /\ z \in S /\ \A y \in T : y \in S
      BY <1>3, <1>4, <2>1
    <3>2. \A y \in T : <<x, y>> \in R
      BY <2>1, <2>3, <3>1
    <3> QED BY <1>3, <1>4, <3>2
  <2> QED BY <1>3, <1>4, <2>1, <2>2, <2>3
<1> QED BY <1>7, <1>8

Charge(a, c) == a[c] * Reserve[c]
Some(s) == CHOOSE x \in s : TRUE

\* The fold of MapThenSumSet, as a function on the subsets of S.
Folds(f, a, S) ==
  f = [s \in SUBSET S |-> IF s = {} THEN 0 ELSE Charge(a, Some(s)) + f[s \ {Some(s)}]]

\* There is such a function.
LEMMA FoldExists ==
  ASSUME NEW S \in SUBSET Campaigns, IsFiniteSet(S), NEW a \in [Campaigns -> Nat]
  PROVE  \E f \in [SUBSET S -> Nat] : Folds(f, a, S)
<1> DEFINE D(n) == {s \in SUBSET S : Cardinality(s) <= n}
           Step(f, n) == [s \in D(n) |-> IF s = {} THEN 0 ELSE Charge(a, Some(s)) + f[s \ {Some(s)}]]
           Ok(n) == \E f \in [D(n) -> Nat] : f = Step(f, n)
           N == {n \in Nat : ~Ok(n)}
<1>1. \A s \in SUBSET S : IsFiniteSet(s) /\ Cardinality(s) \in Nat
  BY FS_Subset, FS_CardinalityType
<1>2. \A x \in S : Charge(a, x) \in Nat
  BY ManifestAssumption DEF ValidManifest, Charge
<1>3. \A s \in SUBSET S : s # {} => Some(s) \in s /\ s \ {Some(s)} \in SUBSET S
                            /\ Cardinality(s \ {Some(s)}) = Cardinality(s) - 1
  BY <1>1, FS_RemoveElement DEF Some
<1>4. \A s \in SUBSET S : s # {} => Cardinality(s) # 0
  BY <1>1, FS_EmptySet
<1>5. N = {}
  <2> SUFFICES ASSUME N # {} PROVE FALSE
    OBVIOUS
  <2>1. PICK n \in N : \A m \in N : n <= m
    <3>1. N \in SUBSET Nat
      OBVIOUS
    <3> HIDE DEF N
    <3> QED BY <3>1, LeastNat
  <2>2. n \in Nat /\ ~Ok(n)
    OBVIOUS
  <2>3. CASE n = 0
    <3> DEFINE f == [s \in D(0) |-> 0]
    <3>1. \A s \in D(0) : s = {}
      BY <1>1, <1>4
    <3>2. f \in [D(0) -> Nat] /\ \A s \in D(0) : Step(f, 0)[s] = 0
      BY <3>1
    <3>3. f = Step(f, 0)
      BY <3>2
    <3> QED BY <2>2, <2>3, <3>2, <3>3
  <2>4. CASE n # 0
    <3>1. n - 1 \in Nat /\ n - 1 \notin N
      <4> HIDE DEF N, Ok
      <4> QED BY <2>1, <2>2, <2>4
    <3>2. PICK f \in [D(n - 1) -> Nat] : f = Step(f, n - 1)
      BY <3>1
    <3> DEFINE g == Step(f, n)
    <3>3. \A s \in D(n) : s # {} => s \ {Some(s)} \in D(n - 1)
      BY <1>1, <1>3, <2>2
    <3>4. \A s \in D(n) : g[s] \in Nat
      <4> SUFFICES ASSUME NEW s \in D(n), s # {} PROVE g[s] \in Nat
        OBVIOUS
      <4>1. f[s \ {Some(s)}] \in Nat
        BY <3>2, <3>3
      <4>2. Charge(a, Some(s)) \in Nat
        BY <1>2, <1>3
      <4> QED BY <4>1, <4>2
    <3>5. D(n - 1) \subseteq D(n)
      BY <1>1, <2>2
    <3>6. \A s \in D(n - 1) : g[s] = f[s]
      BY <3>2, <3>5
    <3>7. \A s \in D(n) : s # {} => g[s \ {Some(s)}] = f[s \ {Some(s)}]
      BY <3>3, <3>6
    <3>8. g = Step(g, n)
      BY <3>7
    <3>9. g \in [D(n) -> Nat]
      BY <3>4
    <3> QED BY <2>2, <3>8, <3>9
  <2> QED BY <2>3, <2>4
<1>6. Cardinality(S) \in Nat /\ Ok(Cardinality(S))
  BY <1>1, <1>5
<1>7. D(Cardinality(S)) = SUBSET S
  <2>1. \A s \in SUBSET S : Cardinality(s) <= Cardinality(S)
    BY FS_Subset
  <2> QED BY <2>1
<1> QED BY <1>6, <1>7 DEF Folds

\* MapThenSumSet is the value of such a function.
LEMMA SumIsFold ==
  ASSUME NEW S \in SUBSET Campaigns, IsFiniteSet(S), NEW a \in [Campaigns -> Nat]
  PROVE  \E f : Folds(f, a, S) /\ SumOf(a, S) = f[S]
<1>1. \E f : f = [s \in SUBSET S |-> IF s = {} THEN 0
                 ELSE a[CHOOSE x \in s : TRUE] * Reserve[CHOOSE x \in s : TRUE]
                        + f[s \ {CHOOSE x \in s : TRUE}]]
  <2>1. PICK f : Folds(f, a, S)
    BY FoldExists
  <2> QED BY <2>1, Zenon DEF Folds, Charge, Some
<1>2. \E f : /\ f = [s \in SUBSET S |-> IF s = {} THEN 0
                      ELSE a[CHOOSE x \in s : TRUE] * Reserve[CHOOSE x \in s : TRUE]
                             + f[s \ {CHOOSE x \in s : TRUE}]]
             /\ SumOf(a, S) = f[S]
  BY <1>1, Zenon DEF SumOf, MapThenSumSet, MapThenFoldSet
<1> QED BY <1>2 DEF Folds, Charge, Some

\* What such a function does in one step.
LEMMA FoldStep ==
  ASSUME NEW S, IsFiniteSet(S), NEW a, NEW f, Folds(f, a, S), NEW T \in SUBSET S, T # {}
  PROVE  /\ Some(T) \in T /\ T \ {Some(T)} \in SUBSET S
         /\ f[T] = Charge(a, Some(T)) + f[T \ {Some(T)}]
         /\ Cardinality(T \ {Some(T)}) < Cardinality(T)
<1>1. Some(T) \in T
  BY DEF Some
<1>2. IsFiniteSet(T)
  BY FS_Subset
<1>3. Cardinality(T \ {Some(T)}) = Cardinality(T) - 1 /\ Cardinality(T) \in Nat
  BY <1>1, <1>2, FS_RemoveElement, FS_CardinalityType
<1>4. f[T] = Charge(a, Some(T)) + f[T \ {Some(T)}]
  BY Zenon DEF Folds
<1>5. Cardinality(T \ {Some(T)}) < Cardinality(T)
  BY <1>3
<1> QED BY <1>1, <1>4, <1>5

\* The fold of nothing.
LEMMA FoldEmpty ==
  ASSUME NEW S, NEW a, NEW f, Folds(f, a, S)
  PROVE  f[{}] = 0
  BY DEF Folds

\* Its values are naturals, and zero if nothing is charged.
LEMMA FoldType ==
  ASSUME NEW S \in SUBSET Campaigns, IsFiniteSet(S), NEW a \in [Campaigns -> Nat],
         NEW f, Folds(f, a, S)
  PROVE  /\ \A T \in SUBSET S : f[T] \in Nat
         /\ (\A c \in Campaigns : a[c] = 0) => \A T \in SUBSET S : f[T] = 0
<1> DEFINE Good(T) == f[T] \in Nat /\ ((\A c \in Campaigns : a[c] = 0) => f[T] = 0)
           F == {T \in SUBSET S : ~Good(T)}
<1>1. SUFFICES ASSUME F # {} PROVE FALSE
  OBVIOUS
<1>2. \A T \in F : IsFiniteSet(T) /\ T \in SUBSET S
  BY FS_Subset
<1>3. PICK T \in F : \A U \in F : Cardinality(T) <= Cardinality(U)
  <2> HIDE DEF F
  <2> QED BY <1>1, <1>2, SmallestSet
<1>4. T \in SUBSET S /\ ~Good(T)
  BY <1>3
<1>5. T # {}
  BY <1>4, FoldEmpty
<1> DEFINE x == Some(T)
           U == T \ {x}
<1>6. x \in T /\ U \in SUBSET S /\ f[T] = Charge(a, x) + f[U] /\ Cardinality(U) < Cardinality(T)
  BY <1>4, <1>5, FoldStep
<1>7. Cardinality(U) \in Nat /\ Cardinality(T) \in Nat
  <2>1. IsFiniteSet(U) /\ IsFiniteSet(T)
    BY <1>4, <1>6, FS_Subset
  <2> QED BY <2>1, FS_CardinalityType
<1> HIDE DEF x, U
<1>8. U \notin F
  <2> HIDE DEF F
  <2> QED BY <1>3, <1>6, <1>7
<1>9. Good(U)
  BY <1>6, <1>8
<1>10. x \in Campaigns /\ a[x] \in Nat /\ Reserve[x] \in Nat
  BY <1>4, <1>6, ManifestAssumption DEF ValidManifest
<1>11. Charge(a, x) \in Nat /\ (a[x] = 0 => Charge(a, x) = 0)
  BY <1>10 DEF Charge
<1> QED BY <1>4, <1>6, <1>9, <1>10, <1>11

\* One start more is charged once more.
LEMMA OneMore ==
  ASSUME NEW i \in Nat, NEW r \in Nat
  PROVE  (i + 1) * r = i * r + r /\ i * r \in Nat
  OBVIOUS

\* One more start of x adds what x reserves, to the sums that x is in.
LEMMA SumRaised ==
  ASSUME NEW S \in SUBSET Campaigns, IsFiniteSet(S), NEW a \in [Campaigns -> Nat],
         NEW x \in Campaigns, NEW b \in [Campaigns -> Nat], b = [a EXCEPT ![x] = a[x] + 1]
  PROVE  SumOf(b, S) = SumOf(a, S) + IF x \in S THEN Reserve[x] ELSE 0
<1>1. PICK f : Folds(f, a, S) /\ SumOf(a, S) = f[S]
  BY SumIsFold
<1>2. PICK g : Folds(g, b, S) /\ SumOf(b, S) = g[S]
  BY SumIsFold
<1> DEFINE Good(T) == g[T] = f[T] + IF x \in T THEN Reserve[x] ELSE 0
           F == {T \in SUBSET S : ~Good(T)}
<1>3. \A T \in SUBSET S : f[T] \in Nat /\ g[T] \in Nat
  BY <1>1, <1>2, FoldType
<1>4. SUFFICES ASSUME F # {} PROVE FALSE
  BY <1>1, <1>2
<1>5. \A T \in F : IsFiniteSet(T) /\ T \in SUBSET S
  BY FS_Subset
<1>6. PICK T \in F : \A U \in F : Cardinality(T) <= Cardinality(U)
  <2> HIDE DEF F
  <2> QED BY <1>4, <1>5, SmallestSet
<1>7. T \in SUBSET S /\ ~Good(T)
  BY <1>6
<1>8. T # {}
  BY <1>1, <1>2, <1>7, FoldEmpty
<1> DEFINE y == Some(T)
           U == T \ {y}
<1>9. /\ y \in T /\ U \in SUBSET S /\ Cardinality(U) < Cardinality(T)
      /\ f[T] = Charge(a, y) + f[U] /\ g[T] = Charge(b, y) + g[U]
  BY <1>1, <1>2, <1>7, <1>8, FoldStep
<1>10. Cardinality(U) \in Nat /\ Cardinality(T) \in Nat
  <2>1. IsFiniteSet(U) /\ IsFiniteSet(T)
    BY <1>7, <1>9, FS_Subset
  <2> QED BY <2>1, FS_CardinalityType
<1>11. (x \in U <=> x \in T /\ x # y)
  OBVIOUS
<1> HIDE DEF y, U
<1>12. Good(U)
  <2>1. U \notin F
    <3> HIDE DEF F
    <3> QED BY <1>6, <1>9, <1>10
  <2> QED BY <1>9, <2>1
<1>13. /\ x \in Campaigns /\ y \in Campaigns /\ a[x] \in Nat /\ a[y] \in Nat /\ b[y] \in Nat
       /\ Reserve[x] \in Nat /\ Reserve[y] \in Nat
  BY <1>7, <1>9, ManifestAssumption DEF ValidManifest
<1>14. Charge(a, y) \in Nat /\ Charge(b, y) = Charge(a, y) + IF x = y THEN Reserve[x] ELSE 0
  <2>1. CASE x = y
    <3>1. b[y] = a[y] + 1
      BY <1>13, <2>1
    <3>2. (a[y] + 1) * Reserve[y] = a[y] * Reserve[y] + Reserve[y] /\ a[y] * Reserve[y] \in Nat
      BY <1>13, OneMore
    <3> QED BY <2>1, <3>1, <3>2 DEF Charge
  <2>2. CASE x # y
    BY <1>13, <2>2 DEF Charge
  <2>3. Charge(a, y) \in Nat
    BY <1>13 DEF Charge
  <2> QED BY <2>1, <2>2, <2>3
<1>15. f[U] \in Nat /\ g[U] \in Nat /\ f[T] \in Nat /\ g[T] \in Nat
  BY <1>3, <1>7, <1>9
<1>16. CASE x = y
  <2>1. x \in T /\ x \notin U
    BY <1>9, <1>11, <1>16
  <2> QED BY <1>7, <1>9, <1>12, <1>13, <1>14, <1>15, <1>16, <2>1
<1>17. CASE x # y
  BY <1>7, <1>9, <1>11, <1>12, <1>13, <1>14, <1>15, <1>17
<1> QED BY <1>16, <1>17

\* Nothing is charged before the first start.
LEMMA SumOfNothing ==
  ASSUME NEW S \in SUBSET Campaigns, IsFiniteSet(S), NEW a \in [Campaigns -> Nat],
         \A c \in Campaigns : a[c] = 0
  PROVE  SumOf(a, S) = 0
  BY SumIsFold, FoldType

-----------------------------------------------------------------------------
(* choose_next *)

\* Products keep the order.
LEMMA Times ==
  ASSUME NEW x \in Nat, NEW y \in Nat, NEW z \in Nat \ {0}
  PROVE  /\ x * z \in Nat /\ y * z \in Nat
         /\ (x <= y <=> x * z <= y * z) /\ (x < y <=> x * z < y * z)
<1>1. x * z \in Nat /\ y * z \in Nat
  OBVIOUS
<1>2. x <= y => x * z <= y * z
  OBVIOUS
<1>3. x < y => x * z < y * z
  OBVIOUS
<1> QED BY <1>1, <1>2, <1>3

\* Shares in the order of choose_next: transitive, although cross-multiplied.
LEMMA SharesCompare ==
  ASSUME NEW a \in Nat, NEW b \in Nat, NEW c \in Nat,
         NEW u \in Nat \ {0}, NEW v \in Nat \ {0}, NEW w \in Nat \ {0},
         a * v <= b * u, b * w <= c * v
  PROVE  /\ a * w <= c * u
         /\ a * v < b * u \/ b * w < c * v => a * w < c * u
<1>1. /\ a * v \in Nat /\ b * u \in Nat /\ b * w \in Nat /\ c * v \in Nat
      /\ a * w \in Nat /\ c * u \in Nat
  BY Times
<1>2. (a * v) * w <= (b * u) * w /\ (a * v < b * u => (a * v) * w < (b * u) * w)
      /\ (a * v) * w \in Nat /\ (b * u) * w \in Nat
  BY <1>1, Times
<1>3. (b * w) * u <= (c * v) * u /\ (b * w < c * v => (b * w) * u < (c * v) * u)
      /\ (b * w) * u \in Nat /\ (c * v) * u \in Nat
  BY <1>1, Times
<1>4. (b * u) * w = (b * w) * u /\ (a * v) * w = (a * w) * v /\ (c * v) * u = (c * u) * v
  OBVIOUS
<1>5. (a * w) * v <= (c * u) * v
      /\ (a * v < b * u \/ b * w < c * v => (a * w) * v < (c * u) * v)
  BY <1>2, <1>3, <1>4
<1> QED BY <1>1, <1>5, Times

\* The manifest, as the proofs use it.
LEMMA Manifest ==
  /\ IsFiniteSet(Campaigns) /\ IsFiniteSet(Projects) /\ GlobalMax \in Nat /\ GlobalMax >= 1
  /\ \A c \in Campaigns : c \in Nat /\ ProjectOf[c] \in Projects /\ Priority[c] \in Int
                          /\ Reserve[c] \in Nat
  /\ \A p \in Projects : /\ p \in Nat /\ Weight[p] \in Nat \ {0}
                         /\ ProjectMax[p] \in Nat /\ ProjectMax[p] >= 1
                         /\ Budget[p] \in Nat \cup {-1}
  BY ManifestAssumption DEF ValidManifest

\* Of projects with work, one is served least.
LEMMA LeastServed ==
  ASSUME state \in States, NEW E \in SUBSET Projects, E # {}
  PROVE  \E p \in E : \A q \in E \ {p} : LessServed(p, q)
<1> DEFINE d(p) == state.dispatched[p]
           R == {r \in E \X E : r[1] = r[2] \/ LessServed(r[1], r[2])}
<1>1. \A p \in E : p \in Nat /\ d(p) \in Nat /\ Weight[p] \in Nat \ {0}
  BY Manifest DEF States
<1>2. \A p, q \in E : d(p) * Weight[q] \in Nat
  BY <1>1, Times
<1>3. ASSUME NEW p \in E, NEW q \in E, p # q PROVE LessServed(p, q) \/ LessServed(q, p)
  <2>1. d(p) * Weight[q] \in Nat /\ d(q) * Weight[p] \in Nat /\ p \in Nat /\ q \in Nat
    BY <1>1, <1>2
  <2> QED BY <1>3, <2>1 DEF LessServed
<1>4. ASSUME NEW p \in E, NEW q \in E, NEW r \in E, LessServed(p, q), LessServed(q, r)
      PROVE  LessServed(p, r)
  <2>1. /\ d(p) * Weight[q] \in Nat /\ d(q) * Weight[p] \in Nat /\ p \in Nat /\ q \in Nat /\ r \in Nat
        /\ d(q) * Weight[r] \in Nat /\ d(r) * Weight[q] \in Nat
        /\ d(p) * Weight[r] \in Nat /\ d(r) * Weight[p] \in Nat
    BY <1>1, <1>2
  <2>2. d(p) * Weight[q] <= d(q) * Weight[p] /\ d(q) * Weight[r] <= d(r) * Weight[q]
    BY <1>4, <2>1 DEF LessServed
  <2>3. /\ d(p) * Weight[r] <= d(r) * Weight[p]
        /\ d(p) * Weight[q] < d(q) * Weight[p] \/ d(q) * Weight[r] < d(r) * Weight[q]
             => d(p) * Weight[r] < d(r) * Weight[p]
    <3> HIDE DEF d
    <3> QED BY <1>1, <2>2, SharesCompare
  <2>4. CASE d(p) * Weight[q] < d(q) * Weight[p] \/ d(q) * Weight[r] < d(r) * Weight[q]
    BY <2>3, <2>4 DEF LessServed
  <2>5. CASE ~(d(p) * Weight[q] < d(q) * Weight[p]) /\ ~(d(q) * Weight[r] < d(r) * Weight[q])
    <3>1. p < q /\ q < r
      BY <1>4, <2>5 DEF LessServed
    <3>2. p < r
      BY <2>1, <3>1
    <3>3. d(p) * Weight[r] < d(r) * Weight[p] \/ d(p) * Weight[r] = d(r) * Weight[p]
      BY <2>1, <2>3
    <3> QED BY <3>2, <3>3 DEF LessServed
  <2> QED BY <2>4, <2>5
<1>5. \A x, y \in E : <<x, y>> \in R \/ <<y, x>> \in R
  BY <1>3
<1>6. \A x, y, z \in E : <<x, y>> \in R /\ <<y, z>> \in R => <<x, z>> \in R
  BY <1>4
<1>7. IsFiniteSet(E)
  BY Manifest, FS_Subset
<1>8. PICK p \in E : \A q \in E : <<p, q>> \in R
  <2> HIDE DEF R
  <2> QED BY <1>5, <1>6, <1>7, FirstOfFinite
<1> QED BY <1>8

\* Of pending campaigns, one is ahead of the rest.
LEMMA FirstAhead ==
  ASSUME NEW P \in SUBSET Campaigns, P # {}
  PROVE  \E c \in P : \A d \in P \ {c} : Ahead(c, d)
<1> DEFINE R == {r \in P \X P : r[1] = r[2] \/ Ahead(r[1], r[2])}
<1>1. \A c \in P : c \in Nat /\ Priority[c] \in Int
  BY Manifest
<1>2. \A x, y \in P : <<x, y>> \in R \/ <<y, x>> \in R
  BY <1>1 DEF Ahead
<1>3. \A x, y, z \in P : Ahead(x, y) /\ Ahead(y, z) => Ahead(x, z)
  BY <1>1 DEF Ahead
<1>4. \A x, y, z \in P : <<x, y>> \in R /\ <<y, z>> \in R => <<x, z>> \in R
  BY <1>3
<1>5. IsFiniteSet(P)
  BY Manifest, FS_Subset
<1>6. PICK c \in P : \A d \in P : <<c, d>> \in R
  <2> HIDE DEF R
  <2> QED BY <1>2, <1>4, <1>5, FirstOfFinite
<1> QED BY <1>6

\* With a free slot everywhere, choose_next finds a campaign while one is pending.
LEMMA ChoiceExists ==
  ASSUME state \in States, Running = {}, SomePending
  PROVE  choose_next # {}
<1>1. \A p \in Projects : Cardinality(RunningOf(p)) = 0
  <2>1. \A p \in Projects : RunningOf(p) = {}
    BY DEF RunningOf
  <2> QED BY <2>1, FS_EmptySet
<1>2. Eligible # {} /\ Eligible \in SUBSET Projects
  BY <1>1, Manifest DEF Eligible, SomePending
<1>3. PICK p \in Eligible : \A q \in Eligible \ {p} : LessServed(p, q)
  BY <1>2, LeastServed
<1>4. Pending(p) \in SUBSET Campaigns /\ Pending(p) # {}
  BY <1>3 DEF Eligible, Pending
<1>5. PICK c \in Pending(p) : \A d \in Pending(p) \ {c} : Ahead(c, d)
  BY <1>4, FirstAhead
<1> QED BY <1>3, <1>4, <1>5 DEF choose_next

\* What choose_next returns.
LEMMA Chosen ==
  ASSUME NEW c \in choose_next
  PROVE  /\ c \in Campaigns /\ state.status[c] = "pending"
         /\ Cardinality(RunningOf(ProjectOf[c])) < ProjectMax[ProjectOf[c]]
         /\ \A q \in Projects \ {ProjectOf[c]} :
              Cardinality(RunningOf(q)) < ProjectMax[q] /\ Pending(q) # {}
                => LessServed(ProjectOf[c], q)
<1>1. PICK p \in Eligible : (\A q \in Eligible \ {p} : LessServed(p, q)) /\ c \in Pending(p)
  BY DEF choose_next
<1> QED BY <1>1 DEF Eligible, Pending, choose_next

-----------------------------------------------------------------------------
(* Records *)

\* The fields of state.json.
LEMMA StateForm ==
  ASSUME NEW s \in States
  PROVE  /\ s = [status |-> s.status, attempts |-> s.attempts, reserved |-> s.reserved,
                 dispatched |-> s.dispatched, overWall |-> s.overWall]
         /\ s.status \in [Campaigns -> Terminal \cup {"pending", "running"}]
         /\ s.attempts \in [Campaigns -> Nat] /\ s.reserved \in [Projects -> Nat]
         /\ s.dispatched \in [Projects -> Nat] /\ s.overWall \in SUBSET WallProjects
  BY DEF States

\* Records that differ in the status of the campaigns and in the wall budgets only.
SameCounts(s, t) ==
  t.attempts = s.attempts /\ t.reserved = s.reserved /\ t.dispatched = s.dispatched

\* Replacing the statuses leaves the counters alone ...
LEMMA StatusSet ==
  ASSUME NEW s \in States, NEW f \in [Campaigns -> Terminal \cup {"pending", "running"}]
  PROVE  /\ [s EXCEPT !.status = f] \in States /\ [s EXCEPT !.status = f].status = f
         /\ SameCounts(s, [s EXCEPT !.status = f])
<1>1. [s EXCEPT !.status = f] = [status |-> f, attempts |-> s.attempts, reserved |-> s.reserved,
                                 dispatched |-> s.dispatched, overWall |-> s.overWall]
  BY StateForm
<1> QED BY <1>1, StateForm DEF States, SameCounts

\* ... and so does replacing one of them ...
LEMMA OneStatusSet ==
  ASSUME NEW s \in States, NEW c \in Campaigns, NEW v \in Terminal \cup {"pending", "running"}
  PROVE  /\ [s EXCEPT !.status[c] = v] \in States
         /\ [s EXCEPT !.status[c] = v].status = [s.status EXCEPT ![c] = v]
         /\ SameCounts(s, [s EXCEPT !.status[c] = v])
<1>1. [s EXCEPT !.status[c] = v] = [s EXCEPT !.status = [s.status EXCEPT ![c] = v]]
  OBVIOUS
<1>2. [s.status EXCEPT ![c] = v] \in [Campaigns -> Terminal \cup {"pending", "running"}]
  BY StateForm
<1> QED BY <1>1, <1>2, StatusSet

\* ... or charging the wall clock of a project.
LEMMA ChargedIs ==
  ASSUME NEW s \in States, NEW c \in Campaigns, NEW t \in Charged(s, c)
  PROVE  t \in States /\ t.status = s.status /\ SameCounts(s, t)
<1>1. CASE t = s
  BY <1>1 DEF SameCounts
<1>2. ASSUME NEW p \in WallProjects, t = [s EXCEPT !.overWall = s.overWall \cup {p}]
      PROVE  t \in States /\ t.status = s.status /\ SameCounts(s, t)
  <2> DEFINE w == s.overWall \cup {p}
  <2>1. s = [status |-> s.status, attempts |-> s.attempts, reserved |-> s.reserved,
             dispatched |-> s.dispatched, overWall |-> s.overWall] /\ w \in SUBSET WallProjects
    BY StateForm
  <2>2. t = [s EXCEPT !.overWall = w]
    BY <1>2
  <2> HIDE DEF w
  <2>3. t = [status |-> s.status, attempts |-> s.attempts, reserved |-> s.reserved,
             dispatched |-> s.dispatched, overWall |-> w]
    BY <2>1, <2>2
  <2> QED BY <2>1, <2>3, StateForm DEF States, SameCounts
<1> QED BY <1>1, <1>2 DEF Charged

\* load_state reopens what was running, and nothing else.
LEMMA ResumedIs ==
  ASSUME NEW s \in States
  PROVE  /\ Resumed(s) \in States /\ SameCounts(s, Resumed(s))
         /\ \A c \in Campaigns : Resumed(s).status[c] =
              IF s.status[c] = "running" THEN "pending" ELSE s.status[c]
<1> DEFINE f == [c \in Campaigns |-> IF s.status[c] = "running" THEN "pending" ELSE s.status[c]]
<1>1. f \in [Campaigns -> Terminal \cup {"pending", "running"}]
  BY StateForm
<1>2. Resumed(s) = [s EXCEPT !.status = f]
  BY DEF Resumed
<1>3. \A c \in Campaigns : f[c] = IF s.status[c] = "running" THEN "pending" ELSE s.status[c]
  OBVIOUS
<1> HIDE DEF f
<1> QED BY <1>1, <1>2, <1>3, StatusSet

\* The records after a start.
Started(s, c) ==
  [s EXCEPT !.status[c] = "running", !.attempts[c] = @ + 1,
            !.reserved[ProjectOf[c]] = @ + Reserve[c], !.dispatched[ProjectOf[c]] = @ + 1]

\* A start, field by field.
LEMMA StartedIs ==
  ASSUME NEW s \in States, NEW c \in Campaigns, NEW t, t = Started(s, c)
  PROVE  /\ t \in States /\ t.status = [s.status EXCEPT ![c] = "running"]
         /\ t.attempts = [s.attempts EXCEPT ![c] = s.attempts[c] + 1]
         /\ t.reserved = [s.reserved EXCEPT ![ProjectOf[c]] = s.reserved[ProjectOf[c]] + Reserve[c]]
         /\ t.dispatched = [s.dispatched EXCEPT ![ProjectOf[c]] = s.dispatched[ProjectOf[c]] + 1]
<1> DEFINE f == [s.status EXCEPT ![c] = "running"]
           a == [s.attempts EXCEPT ![c] = s.attempts[c] + 1]
           r == [s.reserved EXCEPT ![ProjectOf[c]] = s.reserved[ProjectOf[c]] + Reserve[c]]
           d == [s.dispatched EXCEPT ![ProjectOf[c]] = s.dispatched[ProjectOf[c]] + 1]
<1>1. t = [status |-> f, attempts |-> a, reserved |-> r, dispatched |-> d, overWall |-> s.overWall]
  <2>1. s = [status |-> s.status, attempts |-> s.attempts, reserved |-> s.reserved,
             dispatched |-> s.dispatched, overWall |-> s.overWall]
    BY StateForm
  <2>2. t = [s EXCEPT !.status = f, !.attempts = a, !.reserved = r, !.dispatched = d]
    BY DEF Started
  <2> HIDE DEF f, a, r, d
  <2> QED BY <2>1, <2>2
<1>2. ProjectOf[c] \in Projects /\ Reserve[c] \in Nat
  BY Manifest
<1>3. f \in [Campaigns -> Terminal \cup {"pending", "running"}] /\ a \in [Campaigns -> Nat]
  BY StateForm
<1>4. r \in [Projects -> Nat] /\ d \in [Projects -> Nat]
  BY <1>2, StateForm
<1>5. s.overWall \in SUBSET WallProjects
  BY StateForm
<1> HIDE DEF f, a, r, d
<1>6. t \in States
  BY <1>1, <1>3, <1>4, <1>5 DEF States
<1>7. t.status = f /\ t.attempts = a /\ t.reserved = r /\ t.dispatched = d
  BY <1>1
<1> QED BY <1>6, <1>7 DEF f, a, r, d

-----------------------------------------------------------------------------
(* What the steps keep *)

\* The parts of the invariant.
LEMMA Parts ==
  ASSUME SchedulerInv
  PROVE  /\ TypeOK /\ HandlesHold /\ SlotsHold /\ RecordsHold
         /\ ChargesHold(state) /\ ChargesHold(saved) /\ LoopHolds /\ FairShare
         /\ state \in States /\ saved \in States /\ Running \in SUBSET Campaigns
  BY DEF SchedulerInv, TypeOK, Running

\* Charges depend on the counters only.
LEMMA ChargesKept ==
  ASSUME NEW s, NEW t, ChargesHold(s), SameCounts(s, t)
  PROVE  ChargesHold(t)
  BY DEF ChargesHold, SameCounts

\* Slots are only freed.
LEMMA SlotsShrink ==
  ASSUME SlotsHold, Running' \subseteq Running
  PROVE  SlotsHold'
<1>1. IsFiniteSet(Running) /\ \A p \in Projects : IsFiniteSet(RunningOf(p))
  BY Manifest, FS_Subset DEF Running, RunningOf
<1>2. \A p \in Projects : RunningOf(p)' \subseteq RunningOf(p)
  BY DEF RunningOf
<1>3. /\ Cardinality(Running') <= Cardinality(Running)
      /\ Cardinality(Running') \in Nat /\ Cardinality(Running) \in Nat
  BY <1>1, FS_Subset, FS_CardinalityType
<1>4. ASSUME NEW p \in Projects
      PROVE  /\ Cardinality(RunningOf(p)') <= Cardinality(RunningOf(p))
             /\ Cardinality(RunningOf(p)') \in Nat /\ Cardinality(RunningOf(p)) \in Nat
  BY <1>1, <1>2, FS_Subset, FS_CardinalityType
<1>5. Cardinality(Running') <= GlobalMax
  BY <1>3, Manifest DEF SlotsHold
<1>6. \A p \in Projects : Cardinality(RunningOf(p)') <= ProjectMax[p]
  BY <1>4, Manifest DEF SlotsHold
<1> QED BY <1>5, <1>6 DEF SlotsHold

\* Shares stay fair while no work is added and nothing is started.
LEMMA SharesKept ==
  ASSUME FairShare, state'.dispatched = state.dispatched,
         used'["crash"] = 0 =>
           /\ used["crash"] = 0
           /\ \A c \in Campaigns : state'.status[c] = "pending" => state.status[c] = "pending"
  PROVE  FairShare'
<1>1. SUFFICES ASSUME used'["crash"] = 0 PROVE FairShare'
  BY DEF FairShare
<1>2. \A q \in Projects : Pending(q)' \subseteq Pending(q)
  BY <1>1 DEF Pending
<1> QED BY <1>1, <1>2 DEF FairShare

\* A step that leaves records, handles and processes alone.
LEMMA QuietStep ==
  ASSUME SchedulerInv, TypeOK', UNCHANGED <<state, saved, running, proc>>,
         used'["crash"] = used["crash"],
         \/ pc' = pc
         \/ /\ pc \notin {"down", "popen", "stopping"} /\ pc' \notin {"popen", "stopping"}
            /\ pc' = "down" => Running = {},
         pc' = "poll" => unpolled' \subseteq Running, LoopHolds'
  PROVE  SchedulerInv'
<1>1. /\ TypeOK /\ HandlesHold /\ SlotsHold /\ RecordsHold
      /\ ChargesHold(state) /\ ChargesHold(saved) /\ FairShare /\ Running' = Running
  BY Parts DEF Running
<1>2. HandlesHold'
  BY <1>1 DEF HandlesHold, Owned, AliveProcs
<1>3. SlotsHold'
  BY <1>1, SlotsShrink
<1>4. RecordsHold'
  BY <1>1 DEF RecordsHold
<1>5. ChargesHold(state)' /\ ChargesHold(saved)'
  BY <1>1, ChargesKept DEF SameCounts
<1>6. FairShare'
  BY <1>1, SharesKept
<1> QED BY <1>2, <1>3, <1>4, <1>5, <1>6 DEF SchedulerInv

\* The loop, between records.
LEMMA LoopKeeps ==
  ASSUME SchedulerInv, \/ Top /\ "CANCEL" \notin markers
                       \/ Polled \/ Launched \/ Check \/ \E c \in Campaigns : PollAlive(c)
  PROVE  SchedulerInv'
<1>1. TypeOK /\ HandlesHold /\ LoopHolds /\ state \in States /\ Running' = Running
      /\ UNCHANGED <<state, saved, running, proc, used>>
  BY Parts DEF Top, Polled, Launched, Check, PollAlive, Running
<1>2. CASE Top /\ "CANCEL" \notin markers
  <2>1. TypeOK' /\ LoopHolds'
    BY <1>1, <1>2 DEF TypeOK, LoopHolds, Top, Goto, Labels, Running
  <2> QED BY <1>1, <1>2, <2>1, QuietStep DEF Top, Goto
<1>3. CASE Polled
  <2>1. CASE drained' /\ Running = {}
    <3>1. pc = "poll" /\ pc' = "down" /\ summary' = SummaryOf(state, TRUE)
          /\ drained' = (drained \/ "DRAIN" \in markers) /\ launched' = FALSE
          /\ UNCHANGED <<unpolled, markers, cancel>>
      BY <1>3, <2>1 DEF Polled, Exit, Goto
    <3>2. summary' \in Summaries
      BY <3>1 DEF SummaryOf, Summaries
    <3>3. TypeOK'
      BY <1>1, <3>1, <3>2 DEF TypeOK, Labels
    <3>4. LoopHolds'
      BY <3>1 DEF LoopHolds
    <3> QED BY <1>1, <2>1, <3>1, <3>3, <3>4, QuietStep
  <2>2. CASE ~(drained' /\ Running = {})
    <3>1. pc = "poll" /\ pc' = "launch" /\ summary' = summary
          /\ drained' = (drained \/ "DRAIN" \in markers) /\ launched' = FALSE
          /\ UNCHANGED <<unpolled, markers, cancel>>
      BY <1>3, <2>2 DEF Polled, Goto
    <3>2. TypeOK'
      BY <1>1, <3>1 DEF TypeOK, Labels
    <3>3. LoopHolds'
      BY <1>1, <2>2, <3>1 DEF LoopHolds
    <3> QED BY <1>1, <3>1, <3>2, <3>3, QuietStep
  <2> QED BY <2>1, <2>2
<1>4. CASE Launched
  <2>1. /\ pc = "launch" /\ pc' = "check"
        /\ UNCHANGED <<unpolled, drained, launched, summary, markers, cancel>>
        /\ drained \/ Cardinality(Running) >= GlobalMax \/ choose_next = {}
    BY <1>4 DEF Launched, Goto
  <2>2. TypeOK'
    BY <1>1, <2>1 DEF TypeOK, Labels
  <2>3. Running = {} => ~SomePending
    <3> SUFFICES ASSUME Running = {}, SomePending PROVE FALSE
      OBVIOUS
    <3>1. choose_next # {}
      BY <1>1, ChoiceExists
    <3>2. ~drained
      BY <1>1, <2>1 DEF LoopHolds
    <3>3. Cardinality(Running) = 0
      BY FS_EmptySet
    <3> QED BY <2>1, <3>1, <3>2, <3>3, Manifest
  <2>4. SomePending' <=> SomePending
    BY <1>1 DEF SomePending, Pending
  <2>5. LoopHolds'
    BY <1>1, <2>1, <2>3, <2>4 DEF LoopHolds
  <2> QED BY <1>1, <2>1, <2>2, <2>5, QuietStep
<1>5. CASE Check
  <2>1. CASE Running = {}
    <3>1. pc = "check" /\ ~SomePending
      BY <1>1, <1>5, <2>1 DEF Check, LoopHolds
    <3>2. pc' = "down" /\ summary' = SummaryOf(state, drained)
          /\ UNCHANGED <<unpolled, drained, launched, markers, cancel>>
      BY <1>5, <2>1, <3>1 DEF Check, Exit, Goto
    <3>3. summary' \in Summaries
      BY <3>2 DEF SummaryOf, Summaries
    <3>4. TypeOK'
      BY <1>1, <3>2, <3>3 DEF TypeOK, Labels
    <3>5. LoopHolds'
      BY <3>2 DEF LoopHolds
    <3> QED BY <1>1, <2>1, <3>1, <3>2, <3>4, <3>5, QuietStep
  <2>2. CASE Running # {}
    <3>1. pc = "check" /\ pc' = "top"
          /\ UNCHANGED <<unpolled, drained, launched, summary, markers, cancel>>
      BY <1>5, <2>2 DEF Check, Goto
    <3>2. TypeOK' /\ LoopHolds'
      BY <1>1, <3>1 DEF TypeOK, Labels, LoopHolds
    <3> QED BY <1>1, <3>1, <3>2, QuietStep
  <2> QED BY <2>1, <2>2
<1>6. ASSUME NEW c \in Campaigns, PollAlive(c) PROVE SchedulerInv'
  <2>1. pc = "poll" /\ pc' = "poll" /\ unpolled' = unpolled \ {c}
        /\ UNCHANGED <<drained, launched, summary, markers, cancel>>
    BY <1>6 DEF PollAlive
  <2>2. TypeOK' /\ LoopHolds' /\ unpolled' \subseteq Running
    BY <1>1, <2>1 DEF TypeOK, LoopHolds, HandlesHold
  <2> QED BY <1>1, <2>1, <2>2, QuietStep
<1> QED BY <1>2, <1>3, <1>4, <1>5, <1>6

\* The environment, as far as it leaves the scheduler running.
LEMMA EnvironmentKeeps ==
  ASSUME SchedulerInv, Mark \/ \E q \in Pids : CampaignExit(q)
  PROVE  SchedulerInv'
<1>1. TypeOK /\ HandlesHold /\ LoopHolds /\ SlotsHold /\ RecordsHold /\ Running' = Running
      /\ ChargesHold(state) /\ ChargesHold(saved) /\ FairShare
      /\ UNCHANGED <<pc, state, saved, running, unpolled, drained, launched, summary>>
  BY Parts DEF Mark, CampaignExit, Running
<1>2. SomePending' <=> SomePending
  BY <1>1 DEF SomePending, Pending
<1>3. LoopHolds'
  BY <1>1, <1>2 DEF LoopHolds
<1>4. CASE Mark
  <2>1. proc' = proc /\ used' = [used EXCEPT !["marks"] = @ + 1]
    BY <1>4 DEF Mark, Spend
  <2>2. used'["crash"] = used["crash"] /\ used' \in [{"crash", "marks"} -> Nat]
    BY <1>1, <2>1 DEF TypeOK
  <2>3. markers' \subseteq {"DRAIN", "CANCEL"} /\ cancel' \subseteq Campaigns
    BY <1>1, <1>4 DEF Mark, TypeOK
  <2>4. TypeOK'
    BY <1>1, <2>1, <2>2, <2>3 DEF TypeOK
  <2> QED BY <1>1, <1>3, <2>1, <2>2, <2>4, QuietStep DEF HandlesHold
<1>5. ASSUME NEW q \in Pids, CampaignExit(q) PROVE SchedulerInv'
  <2>1. PICK r \in {"ok", "bad"} : proc' = [proc EXCEPT ![q].st = r]
    BY <1>5 DEF CampaignExit
  <2>2. UNCHANGED <<markers, cancel, used>> /\ proc[q].st = "alive"
    BY <1>5 DEF CampaignExit, Alive
  <2>3. /\ proc' \in [Pids -> [camp : Campaigns \cup {0},
                               st : {"unborn", "alive", "ok", "bad", "killed"}]]
        /\ \A p \in Pids : /\ proc'[p].camp = proc[p].camp
                           /\ proc'[p].st = IF p = q THEN r ELSE proc[p].st
    BY <1>1, <2>1 DEF TypeOK
  <2>4. TypeOK'
    BY <1>1, <2>2, <2>3 DEF TypeOK
  <2>5. AliveProcs' \subseteq AliveProcs
    BY <2>2, <2>3 DEF AliveProcs
  <2>6. HandlesHold'
    BY <1>1, <2>2, <2>3, <2>5 DEF HandlesHold, Owned, AliveProcs
  <2>7. SlotsHold' /\ RecordsHold'
    BY <1>1, <2>2, SlotsShrink DEF RecordsHold
  <2>8. ChargesHold(state)' /\ ChargesHold(saved)' /\ FairShare'
    BY <1>1, <2>2, ChargesKept, SharesKept DEF SameCounts
  <2> QED BY <1>3, <2>4, <2>6, <2>7, <2>8 DEF SchedulerInv
<1> QED BY <1>4, <1>5

\* One handle is dropped.
LEMMA HandleDropped ==
  ASSUME TypeOK, NEW c \in Campaigns, running' = [running EXCEPT ![c] = NoPid]
  PROVE  /\ running' \in [Campaigns -> Pids \cup {NoPid}] /\ Running' = Running \ {c}
         /\ \A d \in Campaigns \ {c} : running'[d] = running[d]
<1>1. running \in [Campaigns -> Pids \cup {NoPid}]
  BY DEF TypeOK
<1>2. /\ running' \in [Campaigns -> Pids \cup {NoPid}] /\ running'[c] = NoPid
      /\ \A d \in Campaigns \ {c} : running'[d] = running[d]
  BY <1>1 DEF NoPid
<1> QED BY <1>2 DEF Running

\* The poll loop settles a campaign: its process has ended, or is terminated.
LEMMA PollKeeps ==
  ASSUME SchedulerInv, NEW c \in Campaigns, PollCancelled(c) \/ PollFinished(c)
  PROVE  SchedulerInv'
<1>1. TypeOK /\ HandlesHold /\ SlotsHold /\ RecordsHold /\ LoopHolds /\ FairShare
      /\ ChargesHold(state) /\ ChargesHold(saved) /\ state \in States
      /\ Running \in SUBSET Campaigns
  BY Parts
<1>2. /\ pc = "poll" /\ c \in unpolled /\ pc' = "poll" /\ unpolled' = unpolled \ {c}
      /\ UNCHANGED <<drained, launched, summary, markers, cancel, used>>
      /\ running' = [running EXCEPT ![c] = NoPid]
  BY DEF PollCancelled, PollFinished
<1>3. c \in Running /\ running[c] \in Pids /\ proc[running[c]].camp = c
  BY <1>1, <1>2 DEF HandlesHold
<1>4. PICK v \in Terminal : \E s \in Charged([state EXCEPT !.status[c] = v], c) : SaveAs(s)
  <2>1. CASE PollCancelled(c)
    BY <2>1 DEF PollCancelled, Terminal
  <2>2. CASE PollFinished(c)
    <3> DEFINE v == IF proc[running[c]].st = "ok" THEN "complete" ELSE "failed"
    <3>1. \E s \in Charged([state EXCEPT !.status[c] = v], c) : SaveAs(s)
      BY <2>2 DEF PollFinished
    <3>2. v \in Terminal
      BY DEF Terminal
    <3> HIDE DEF v
    <3> QED BY <3>1, <3>2
  <2> QED BY <2>1, <2>2
<1>5. /\ state' \in States /\ saved' = state' /\ SameCounts(state, state')
      /\ state'.status = [state.status EXCEPT ![c] = v]
  <2> DEFINE u == [state EXCEPT !.status[c] = v]
  <2>1. u \in States /\ u.status = [state.status EXCEPT ![c] = v] /\ SameCounts(state, u)
    BY <1>1, <1>4, OneStatusSet
  <2>2. PICK s \in Charged(u, c) : state' = s /\ saved' = s
    BY <1>4 DEF SaveAs
  <2> HIDE DEF u
  <2>3. s \in States /\ s.status = u.status /\ SameCounts(u, s)
    BY <2>1, <2>2, ChargedIs
  <2> QED BY <2>1, <2>2, <2>3 DEF SameCounts
<1>6. /\ running' \in [Campaigns -> Pids \cup {NoPid}] /\ Running' = Running \ {c}
      /\ \A d \in Campaigns \ {c} : running'[d] = running[d]
  BY <1>1, <1>2, HandleDropped
<1>7. /\ proc' \in [Pids -> [camp : Campaigns \cup {0},
                             st : {"unborn", "alive", "ok", "bad", "killed"}]]
      /\ \A q \in Pids : /\ proc'[q].camp = proc[q].camp
                         /\ proc'[q].st = "alive" => proc[q].st = "alive" /\ q # running[c]
                         /\ proc'[q].st = "unborn" => proc[q].st = "unborn"
  <2>1. CASE proc' = proc /\ ~Alive(running[c])
    BY <1>1, <1>3, <2>1 DEF TypeOK, Alive
  <2>2. CASE proc' = [proc EXCEPT ![running[c]].st = "killed"]
    BY <1>1, <1>3, <2>2 DEF TypeOK
  <2> QED BY <2>1, <2>2 DEF PollCancelled, PollFinished, KillProc
<1>8. TypeOK'
  BY <1>1, <1>2, <1>5, <1>6, <1>7 DEF TypeOK
<1>9. HandlesHold'
  <2>1. \A d \in Running' :
          running'[d] \in Pids /\ proc'[running'[d]].camp = d /\ proc'[running'[d]].st # "unborn"
    BY <1>1, <1>6, <1>7 DEF HandlesHold
  <2>2. ASSUME Owned', NEW q \in AliveProcs'
        PROVE  proc'[q].camp \in Running' /\ running'[proc'[q].camp] = q
    <3>1. q \in AliveProcs /\ q # running[c] /\ proc'[q].camp = proc[q].camp
      BY <1>7 DEF AliveProcs
    <3>2. proc[q].camp \in Running /\ running[proc[q].camp] = q
      BY <1>1, <1>2, <2>2, <3>1 DEF HandlesHold, Owned
    <3> QED BY <1>1, <1>6, <3>1, <3>2
  <2> QED BY <1>1, <1>2, <1>6, <2>1, <2>2 DEF HandlesHold
<1>10. SlotsHold'
  BY <1>1, <1>6, SlotsShrink
<1>11. \A d \in Campaigns : state'.status[d] = IF d = c THEN v ELSE state.status[d]
  BY <1>1, <1>5, StateForm
<1>12. v \notin {"pending", "running"}
  BY DEF Terminal
<1>13. RecordsHold'
  BY <1>1, <1>2, <1>5, <1>6, <1>11, <1>12 DEF RecordsHold
<1>14. ChargesHold(state)' /\ ChargesHold(saved)'
  BY <1>1, <1>5, ChargesKept
<1>15. LoopHolds'
  BY <1>2 DEF LoopHolds
<1>16. FairShare'
  BY <1>1, <1>2, <1>5, <1>11, <1>12, SharesKept DEF SameCounts
<1> QED BY <1>8, <1>9, <1>10, <1>13, <1>14, <1>15, <1>16 DEF SchedulerInv

\* The launch loop strikes a campaign off.
LEMMA RefusalKeeps ==
  ASSUME SchedulerInv, NEW c \in choose_next, NEW v \in Terminal, pc = "launch", ~drained,
         SaveAs([state EXCEPT !.status[c] = v]),
         UNCHANGED <<pc, proc, running, unpolled, drained, launched, summary, markers, cancel, used>>
  PROVE  SchedulerInv'
<1>1. TypeOK /\ HandlesHold /\ SlotsHold /\ RecordsHold /\ LoopHolds /\ FairShare
      /\ ChargesHold(state) /\ state \in States /\ Running' = Running
  BY Parts DEF Running
<1>2. c \in Campaigns /\ state.status[c] = "pending" /\ v \notin {"pending", "running"}
  BY Chosen DEF Terminal
<1>3. /\ state' \in States /\ saved' = state' /\ SameCounts(state, state')
      /\ state'.status = [state.status EXCEPT ![c] = v]
  BY <1>1, <1>2, OneStatusSet DEF SaveAs
<1>4. \A d \in Campaigns : state'.status[d] = IF d = c THEN v ELSE state.status[d]
  BY <1>1, <1>2, <1>3, StateForm
<1>5. TypeOK'
  BY <1>1, <1>3 DEF TypeOK
<1>6. HandlesHold'
  BY <1>1 DEF HandlesHold, Owned, AliveProcs
<1>7. RecordsHold'
  BY <1>1, <1>2, <1>3, <1>4 DEF RecordsHold
<1>8. LoopHolds'
  BY <1>1 DEF LoopHolds
<1>9. SlotsHold' /\ ChargesHold(state)' /\ ChargesHold(saved)'
  BY <1>1, <1>3, SlotsShrink, ChargesKept
<1>10. FairShare'
  BY <1>1, <1>2, <1>3, <1>4, SharesKept DEF SameCounts
<1> QED BY <1>5, <1>6, <1>7, <1>8, <1>9, <1>10 DEF SchedulerInv

\* The launch loop starts a campaign.
LEMMA LaunchKeeps ==
  ASSUME SchedulerInv, NEW c \in choose_next, NEW q \in Pids, pc = "launch", ~drained,
         Cardinality(Running) < GlobalMax, quota_allows(c), Fresh(q),
         proc' = [proc EXCEPT ![q] = [camp |-> c, st |-> "alive"]],
         running' = [running EXCEPT ![c] = q], state' = Started(state, c), pc' = "popen",
         UNCHANGED <<saved, unpolled, drained, launched, summary, markers, cancel, used>>
  PROVE  SchedulerInv'
<1> DEFINE o == ProjectOf[c]
<1>1. TypeOK /\ HandlesHold /\ SlotsHold /\ RecordsHold /\ LoopHolds /\ FairShare
      /\ ChargesHold(state) /\ ChargesHold(saved) /\ state \in States /\ saved \in States
      /\ Running \in SUBSET Campaigns
  BY Parts
<1>2. /\ c \in Campaigns /\ state.status[c] = "pending" /\ c \notin Running /\ o \in Projects
      /\ Cardinality(RunningOf(o)) < ProjectMax[o]
  BY <1>1, Chosen, Manifest DEF RecordsHold
<1>3. /\ state' \in States /\ state'.status = [state.status EXCEPT ![c] = "running"]
      /\ state'.attempts = [state.attempts EXCEPT ![c] = state.attempts[c] + 1]
      /\ state'.reserved = [state.reserved EXCEPT ![o] = state.reserved[o] + Reserve[c]]
      /\ state'.dispatched = [state.dispatched EXCEPT ![o] = state.dispatched[o] + 1]
  BY <1>1, <1>2, StartedIs
<1>4. q \in Nat /\ q # NoPid /\ proc[q].st = "unborn"
  BY EnvironmentAssumption DEF Fresh, NoPid
<1>5. /\ running' \in [Campaigns -> Pids \cup {NoPid}] /\ running'[c] = q
      /\ \A d \in Campaigns \ {c} : running'[d] = running[d]
  BY <1>1, <1>2 DEF TypeOK
<1>6. Running' = Running \cup {c}
  BY <1>2, <1>4, <1>5 DEF Running
<1>7. /\ proc' \in [Pids -> [camp : Campaigns \cup {0},
                             st : {"unborn", "alive", "ok", "bad", "killed"}]]
      /\ proc'[q].camp = c /\ proc'[q].st = "alive"
      /\ \A r \in Pids \ {q} : proc'[r] = proc[r]
  BY <1>1, <1>2 DEF TypeOK
<1>8. TypeOK'
  BY <1>1, <1>3, <1>5, <1>7 DEF TypeOK, Labels
<1>9. HandlesHold'
  <2>1. \A d \in Running' :
          running'[d] \in Pids /\ proc'[running'[d]].camp = d /\ proc'[running'[d]].st # "unborn"
    <3>1. ASSUME NEW d \in Running, d # c
          PROVE  /\ running'[d] = running[d] /\ running[d] \in Pids /\ proc[running[d]].camp = d
                 /\ proc[running[d]].st # "unborn" /\ running[d] # q
      BY <1>1, <1>4, <1>5, <3>1 DEF HandlesHold
    <3> QED BY <1>5, <1>6, <1>7, <3>1
  <2>2. ASSUME Owned', NEW r \in AliveProcs'
        PROVE  proc'[r].camp \in Running' /\ running'[proc'[r].camp] = r
    <3>1. CASE r = q
      BY <1>5, <1>6, <1>7, <3>1
    <3>2. CASE r # q
      <4>1. r \in AliveProcs /\ proc'[r].camp = proc[r].camp
        BY <1>7, <3>2 DEF AliveProcs
      <4>2. proc[r].camp \in Running /\ running[proc[r].camp] = r
        BY <1>1, <2>2, <4>1 DEF HandlesHold, Owned
      <4>3. proc[r].camp # c
        BY <1>2, <4>2
      <4> QED BY <1>1, <1>5, <1>6, <4>1, <4>2, <4>3
    <3> QED BY <3>1, <3>2
  <2> QED BY <2>1, <2>2 DEF HandlesHold
<1>10. SlotsHold'
  <2>1. IsFiniteSet(Running) /\ \A p \in Projects : IsFiniteSet(RunningOf(p)) /\ c \notin RunningOf(p)
    BY <1>2, Manifest, FS_Subset DEF Running, RunningOf
  <2>2. Cardinality(Running') = Cardinality(Running) + 1 /\ Cardinality(Running) \in Nat
    BY <1>2, <1>6, <2>1, FS_AddElement, FS_CardinalityType
  <2>3. Cardinality(Running') <= GlobalMax
    BY <2>2, Manifest
  <2>4. ASSUME NEW p \in Projects PROVE Cardinality(RunningOf(p)') <= ProjectMax[p]
    <3>1. CASE p = o
      <4>1. RunningOf(p)' = RunningOf(p) \cup {c}
        BY <1>2, <1>6, <3>1 DEF RunningOf
      <4>2. Cardinality(RunningOf(p)') = Cardinality(RunningOf(p)) + 1
            /\ Cardinality(RunningOf(p)) \in Nat
        BY <2>1, <4>1, FS_AddElement, FS_CardinalityType
      <4> QED BY <1>2, <3>1, <4>2, Manifest
    <3>2. CASE p # o
      <4>1. RunningOf(p)' = RunningOf(p)
        BY <1>2, <1>6, <3>2 DEF RunningOf
      <4> QED BY <1>1, <4>1 DEF SlotsHold
    <3> QED BY <3>1, <3>2
  <2> QED BY <2>3, <2>4 DEF SlotsHold
<1>11. \A d \in Campaigns : state'.status[d] = IF d = c THEN "running" ELSE state.status[d]
  BY <1>1, <1>2, <1>3, StateForm
<1>12. RecordsHold'
  <2>1. \A d \in Campaigns : saved.status[d] \in Terminal => state'.status[d] = saved.status[d]
    BY <1>1, <1>2, <1>11 DEF RecordsHold, Terminal
  <2>2. \A d \in Running' : state'.status[d] = "running"
    BY <1>1, <1>2, <1>6, <1>11 DEF RecordsHold
  <2>3. \A d \in Campaigns : state'.status[d] = "running" => d \in Running'
    BY <1>1, <1>6, <1>11 DEF RecordsHold
  <2> QED BY <2>1, <2>2, <2>3 DEF RecordsHold
<1>13. ChargesHold(saved)'
  BY <1>1, ChargesKept DEF SameCounts
<1>14. ChargesHold(state)'
  <2> SUFFICES ASSUME NEW p \in Projects
               PROVE  /\ state'.reserved[p] = SumOf(state'.attempts, {d \in Campaigns : ProjectOf[d] = p})
                      /\ Budget[p] = -1 \/ state'.reserved[p] <= Budget[p]
    BY DEF ChargesHold
  <2> DEFINE S == {d \in Campaigns : ProjectOf[d] = p}
  <2>1. S \in SUBSET Campaigns /\ IsFiniteSet(S) /\ (c \in S <=> p = o)
    BY <1>2, Manifest, FS_Subset
  <2>2. /\ state.reserved[p] = SumOf(state.attempts, S) /\ state.reserved[p] \in Nat
        /\ Budget[p] = -1 \/ state.reserved[p] <= Budget[p]
    BY <1>1, StateForm DEF ChargesHold
  <2>3. state.attempts \in [Campaigns -> Nat] /\ state'.attempts \in [Campaigns -> Nat]
    BY <1>1, <1>3, StateForm
  <2> HIDE DEF S
  <2>4. SumOf(state'.attempts, S) = SumOf(state.attempts, S) + IF c \in S THEN Reserve[c] ELSE 0
    BY <1>2, <1>3, <2>1, <2>3, SumRaised
  <2>5. CASE p = o
    <3>1. state'.reserved[p] = state.reserved[p] + Reserve[c]
      BY <1>1, <1>3, <2>5, StateForm
    <3>2. Budget[p] = -1 \/ state.reserved[p] + Reserve[c] <= Budget[p]
      BY <2>5 DEF quota_allows
    <3> QED BY <2>1, <2>2, <2>4, <2>5, <3>1, <3>2 DEF S
  <2>6. CASE p # o
    <3>1. state'.reserved[p] = state.reserved[p]
      BY <1>1, <1>3, <2>6, StateForm
    <3> QED BY <2>1, <2>2, <2>4, <2>6, <3>1 DEF S
  <2> QED BY <2>5, <2>6
<1>15. LoopHolds'
  BY DEF LoopHolds
<1>16. FairShare'
  <2> DEFINE d(p) == state.dispatched[p]
             e(p) == state'.dispatched[p]
  <2> SUFFICES ASSUME used["crash"] = 0, NEW p \in Projects, NEW r \in Projects,
                      Pending(r)' # {}, ProjectMax[r] >= GlobalMax
               PROVE  (e(p) - 1) * Weight[r] <= e(r) * Weight[p]
    BY DEF FairShare
  <2>1. Pending(r) # {}
    BY <1>11 DEF Pending
  <2>2. (d(p) - 1) * Weight[r] <= d(r) * Weight[p]
    BY <1>1, <2>1 DEF FairShare
  <2>3. /\ d(p) \in Nat /\ d(r) \in Nat /\ Weight[p] \in Nat \ {0} /\ Weight[r] \in Nat \ {0}
        /\ e(p) = IF p = o THEN d(p) + 1 ELSE d(p)
        /\ e(r) = IF r = o THEN d(r) + 1 ELSE d(r)
    BY <1>1, <1>3, StateForm, Manifest
  <2> HIDE DEF d, e
  <2>4. d(p) * Weight[r] \in Nat /\ d(r) * Weight[p] \in Nat
    BY <2>3, Times
  <2>5. CASE p = o /\ r = o
    <3>1. d(p) * Weight[p] <= (d(p) + 1) * Weight[p]
      BY <2>3, Times
    <3> QED BY <2>3, <2>5, <3>1
  <2>6. CASE p = o /\ r # o
    <3>1. Cardinality(RunningOf(r)) < ProjectMax[r]
      <4>1. IsFiniteSet(Running) /\ RunningOf(r) \in SUBSET Running
        BY Manifest, FS_Subset DEF Running, RunningOf
      <4>2. Cardinality(RunningOf(r)) <= Cardinality(Running)
            /\ Cardinality(RunningOf(r)) \in Nat /\ Cardinality(Running) \in Nat
        BY <4>1, FS_Subset, FS_CardinalityType
      <4> QED BY <4>2, Manifest
    <3>2. LessServed(o, r)
      BY <2>1, <2>6, <3>1, Chosen
    <3>3. d(p) * Weight[r] <= d(r) * Weight[p]
      BY <2>4, <2>6, <3>2 DEF LessServed, d
    <3>4. e(p) - 1 = d(p) /\ e(r) = d(r)
      BY <2>3, <2>6
    <3> QED BY <3>3, <3>4
  <2>7. CASE p # o /\ r = o
    <3>1. d(r) * Weight[p] <= (d(r) + 1) * Weight[p] /\ (d(r) + 1) * Weight[p] \in Nat
      BY <2>3, Times
    <3>2. e(p) = d(p) /\ e(r) = d(r) + 1 /\ (d(p) - 1) * Weight[r] \in Int
      BY <2>3, <2>7
    <3> QED BY <2>2, <2>4, <3>1, <3>2
  <2>8. CASE p # o /\ r # o
    BY <2>2, <2>3, <2>8
  <2> QED BY <2>5, <2>6, <2>7, <2>8
<1> QED BY <1>8, <1>9, <1>10, <1>12, <1>13, <1>14, <1>15, <1>16 DEF SchedulerInv

\* Record, and the end of a global cancellation: the file catches up.
LEMMA WriteKeeps ==
  ASSUME SchedulerInv, Record \/ Stopping
  PROVE  SchedulerInv'
<1>1. TypeOK /\ HandlesHold /\ SlotsHold /\ RecordsHold /\ LoopHolds /\ FairShare
      /\ ChargesHold(state) /\ state \in States /\ Running' = Running
      /\ state' = state /\ saved' = state
      /\ UNCHANGED <<running, unpolled, drained, proc, markers, cancel, used>>
  BY Parts DEF Record, Stopping, SaveAs, Running
<1>2. CASE Record
  <2>1. pc = "popen" /\ pc' = "launch" /\ launched' = TRUE /\ summary' = summary
    BY <1>2 DEF Record, Goto
  <2>2. TypeOK'
    BY <1>1, <2>1 DEF TypeOK, Labels
  <2>3. HandlesHold' /\ RecordsHold' /\ LoopHolds'
    BY <1>1, <2>1 DEF HandlesHold, Owned, AliveProcs, RecordsHold, LoopHolds
  <2>4. SlotsHold' /\ ChargesHold(state)' /\ ChargesHold(saved)' /\ FairShare'
    BY <1>1, SlotsShrink, ChargesKept, SharesKept DEF SameCounts
  <2> QED BY <2>2, <2>3, <2>4 DEF SchedulerInv
<1>3. CASE Stopping
  <2>1. pc = "stopping" /\ pc' = "down" /\ launched' = launched /\ summary' = SummaryOf(state, drained)
    BY <1>3 DEF Stopping, Exit, Goto
  <2>2. summary' \in Summaries
    BY <2>1 DEF SummaryOf, Summaries
  <2>3. TypeOK'
    BY <1>1, <2>1, <2>2 DEF TypeOK, Labels
  <2>4. Running = {}
    BY <1>1, <2>1 DEF HandlesHold
  <2>5. HandlesHold' /\ RecordsHold' /\ LoopHolds'
    BY <1>1, <2>1, <2>4 DEF HandlesHold, Owned, AliveProcs, RecordsHold, LoopHolds
  <2>6. SlotsHold' /\ ChargesHold(state)' /\ ChargesHold(saved)' /\ FairShare'
    BY <1>1, SlotsShrink, ChargesKept, SharesKept DEF SameCounts
  <2> QED BY <2>3, <2>5, <2>6 DEF SchedulerInv
<1> QED BY <1>2, <1>3

\* CANCEL: what runs is terminated, and everything unfinished is cancelled.
LEMMA CancelKeeps ==
  ASSUME SchedulerInv, Top, "CANCEL" \in markers
  PROVE  SchedulerInv'
<1> DEFINE f == [c \in Campaigns |-> IF c \in Running \/ state.status[c] = "pending"
                                       THEN "cancelled" ELSE state.status[c]]
<1>1. TypeOK /\ HandlesHold /\ SlotsHold /\ RecordsHold /\ LoopHolds /\ FairShare
      /\ ChargesHold(state) /\ ChargesHold(saved) /\ state \in States
      /\ Running \in SUBSET Campaigns
  BY Parts
<1>2. /\ pc = "top" /\ pc' = "stopping" /\ state' = [state EXCEPT !.status = f]
      /\ running' = [c \in Campaigns |-> NoPid]
      /\ proc' = [q \in Pids |-> IF Alive(q) /\ \E c \in Running : running[c] = q
                                   THEN [proc[q] EXCEPT !.st = "killed"] ELSE proc[q]]
      /\ UNCHANGED <<saved, unpolled, drained, launched, summary, markers, cancel, used>>
  BY DEF Top, Goto
<1>3. f \in [Campaigns -> Terminal \cup {"pending", "running"}]
  BY <1>1, StateForm DEF Terminal
<1>4. \A c \in Campaigns : f[c] = IF c \in Running \/ state.status[c] = "pending"
                                    THEN "cancelled" ELSE state.status[c]
  OBVIOUS
<1> HIDE DEF f
<1>5. state' \in States /\ state'.status = f /\ SameCounts(state, state')
  BY <1>1, <1>2, <1>3, StatusSet
<1>6. Running' = {} /\ running' \in [Campaigns -> Pids \cup {NoPid}]
  BY <1>2 DEF Running
<1>7. /\ proc' \in [Pids -> [camp : Campaigns \cup {0},
                             st : {"unborn", "alive", "ok", "bad", "killed"}]]
      /\ \A q \in Pids : proc'[q].st = "alive" => /\ proc[q].st = "alive"
                                                 /\ ~\E c \in Running : running[c] = q
  BY <1>1, <1>2 DEF TypeOK, Alive
<1>8. TypeOK'
  BY <1>1, <1>2, <1>5, <1>6, <1>7 DEF TypeOK, Labels
<1>9. HandlesHold'
  <2>1. ASSUME Owned', NEW q \in AliveProcs' PROVE FALSE
    <3>1. q \in AliveProcs /\ ~\E c \in Running : running[c] = q
      BY <1>7 DEF AliveProcs
    <3>2. proc[q].camp \in Running /\ running[proc[q].camp] = q
      BY <1>1, <1>2, <2>1, <3>1 DEF HandlesHold, Owned
    <3> QED BY <3>1, <3>2
  <2> QED BY <1>2, <1>6, <2>1 DEF HandlesHold
<1>10. RecordsHold'
  <2>1. \A c \in Campaigns : f[c] # "running"
    BY <1>1, <1>2, <1>4 DEF RecordsHold
  <2>2. \A c \in Campaigns : saved.status[c] \in Terminal => f[c] = saved.status[c]
    BY <1>1, <1>2, <1>4 DEF RecordsHold, Terminal
  <2> QED BY <1>2, <1>5, <1>6, <2>1, <2>2 DEF RecordsHold
<1>11. SlotsHold' /\ ChargesHold(state)'
  BY <1>1, <1>5, <1>6, SlotsShrink, ChargesKept
<1>12. ChargesHold(saved)' /\ LoopHolds'
  BY <1>1, <1>2, ChargesKept DEF SameCounts, LoopHolds
<1>13. FairShare'
  BY <1>1, <1>2, <1>4, <1>5, SharesKept DEF SameCounts
<1> QED BY <1>8, <1>9, <1>10, <1>11, <1>12, <1>13 DEF SchedulerInv

\* The scheduler is started, or killed.
LEMMA RestartKeeps ==
  ASSUME SchedulerInv, Start \/ Crash
  PROVE  SchedulerInv'
<1>1. TypeOK /\ HandlesHold /\ SlotsHold /\ RecordsHold /\ LoopHolds /\ FairShare
      /\ ChargesHold(state) /\ ChargesHold(saved) /\ state \in States /\ saved \in States
  BY Parts
<1>2. /\ running' = [c \in Campaigns |-> NoPid] /\ unpolled' = {}
      /\ drained' = FALSE /\ launched' = FALSE /\ UNCHANGED <<summary, markers, cancel>>
  BY DEF Start, Crash
<1>3. Running' = {} /\ running' \in [Campaigns -> Pids \cup {NoPid}]
  BY <1>2 DEF Running
<1>4. SlotsHold'
  BY <1>1, <1>3, SlotsShrink
<1>5. CASE Start
  <2>1. /\ pc = "down" /\ pc' = "top" /\ state' = Resumed(saved) /\ saved' = Resumed(saved)
        /\ UNCHANGED <<proc, used>>
    BY <1>5 DEF Start, SaveAs, Goto
  <2>2. /\ state' \in States /\ SameCounts(saved, state')
        /\ \A c \in Campaigns : state'.status[c] =
             IF saved.status[c] = "running" THEN "pending" ELSE saved.status[c]
    BY <1>1, <2>1, ResumedIs
  <2>3. state = saved /\ Running = {}
    BY <1>1, <2>1 DEF RecordsHold, HandlesHold
  <2>4. TypeOK'
    BY <1>1, <1>2, <1>3, <2>1, <2>2 DEF TypeOK, Labels
  <2>5. HandlesHold'
    BY <1>1, <1>3, <2>1, <2>3 DEF HandlesHold, Owned, AliveProcs
  <2>6. RecordsHold'
    BY <1>3, <2>1, <2>2 DEF RecordsHold
  <2>7. ChargesHold(state)' /\ ChargesHold(saved)'
    BY <1>1, <2>1, <2>2, ChargesKept
  <2>8. LoopHolds'
    BY <2>1 DEF LoopHolds
  <2>9. FairShare'
    <3>1. used["crash"] = 0 =>
            \A c \in Campaigns : state'.status[c] = "pending" => state.status[c] = "pending"
      BY <1>1, <2>1, <2>2, <2>3 DEF RecordsHold
    <3> QED BY <1>1, <2>1, <2>2, <2>3, <3>1, SharesKept DEF SameCounts
  <2> QED BY <1>4, <2>4, <2>5, <2>6, <2>7, <2>8, <2>9 DEF SchedulerInv
<1>6. CASE Crash
  <2>1. /\ pc' = "down" /\ state' = saved /\ saved' = saved
        /\ used' = [used EXCEPT !["crash"] = used["crash"] + 1]
        /\ proc' = [q \in Pids |-> IF Alive(q) /\ ~Survive
                                     THEN [proc[q] EXCEPT !.st = "killed"] ELSE proc[q]]
    BY <1>6 DEF Crash, Goto, Spend
  <2>2. used' \in [{"crash", "marks"} -> Nat] /\ used'["crash"] # 0
    BY <1>1, <2>1 DEF TypeOK
  <2>3. /\ proc' \in [Pids -> [camp : Campaigns \cup {0},
                               st : {"unborn", "alive", "ok", "bad", "killed"}]]
        /\ ~Survive => \A q \in Pids : proc'[q].st # "alive"
    BY <1>1, <2>1 DEF TypeOK, Alive
  <2>4. TypeOK'
    BY <1>1, <1>2, <1>3, <2>1, <2>2, <2>3 DEF TypeOK, Labels
  <2>5. HandlesHold'
    BY <1>3, <2>1, <2>2, <2>3 DEF HandlesHold, Owned, AliveProcs
  <2>6. RecordsHold'
    BY <1>3, <2>1, <2>2 DEF RecordsHold
  <2>7. ChargesHold(state)' /\ ChargesHold(saved)' /\ LoopHolds'
    BY <1>1, <2>1, ChargesKept DEF LoopHolds, SameCounts
  <2>8. FairShare'
    BY <2>2 DEF FairShare
  <2> QED BY <1>4, <2>4, <2>5, <2>6, <2>7, <2>8 DEF SchedulerInv
<1> QED BY <1>5, <1>6

\* The scheduler that has not been started.
LEMMA SchedulerInvInit == Init => SchedulerInv
<1> SUFFICES ASSUME Init PROVE SchedulerInv
  OBVIOUS
<1>1. new_state \in States
  BY DEF new_state, States
<1>2. state = new_state /\ saved = new_state /\ pc = "down" /\ Running = {}
      /\ running \in [Campaigns -> Pids \cup {NoPid}]
  BY DEF Init, Running
<1>3. TypeOK
  BY <1>1, <1>2 DEF Init, TypeOK, Labels
<1>4. HandlesHold /\ LoopHolds
  BY <1>2 DEF Init, HandlesHold, AliveProcs, LoopHolds
<1>5. SlotsHold
  <2>1. \A p \in Projects : RunningOf(p) = {}
    BY <1>2 DEF RunningOf
  <2> QED BY <1>2, <2>1, FS_EmptySet, Manifest DEF SlotsHold
<1>6. RecordsHold
  BY <1>2 DEF RecordsHold, new_state
<1>7. ChargesHold(new_state)
  <2> SUFFICES ASSUME NEW p \in Projects
               PROVE  /\ new_state.reserved[p] =
                           SumOf(new_state.attempts, {d \in Campaigns : ProjectOf[d] = p})
                      /\ Budget[p] = -1 \/ new_state.reserved[p] <= Budget[p]
    BY DEF ChargesHold
  <2> DEFINE S == {d \in Campaigns : ProjectOf[d] = p}
  <2>1. S \in SUBSET Campaigns /\ IsFiniteSet(S)
    BY Manifest, FS_Subset
  <2>2. new_state.reserved[p] = 0 /\ \A c \in Campaigns : new_state.attempts[c] = 0
    BY DEF new_state
  <2>3. new_state.attempts \in [Campaigns -> Nat]
    BY <1>1, StateForm
  <2> HIDE DEF S
  <2>4. SumOf(new_state.attempts, S) = 0
    BY <2>1, <2>2, <2>3, SumOfNothing
  <2> QED BY <2>2, <2>4, Manifest DEF S
<1>8. FairShare
  <2> SUFFICES ASSUME NEW p \in Projects, NEW q \in Projects
               PROVE  (state.dispatched[p] - 1) * Weight[q] <= state.dispatched[q] * Weight[p]
    BY DEF FairShare
  <2>1. state.dispatched[p] = 0 /\ state.dispatched[q] = 0
    BY <1>2 DEF new_state
  <2>2. Weight[p] \in Nat /\ Weight[q] \in Nat
    BY Manifest
  <2> QED BY <2>1, <2>2
<1> QED BY <1>2, <1>3, <1>4, <1>5, <1>6, <1>7, <1>8 DEF SchedulerInv

\* Every step keeps the invariant.
LEMMA SchedulerInvInductive ==
  ASSUME SchedulerInv, [Next]_vars
  PROVE  SchedulerInv'
<1>1. CASE UNCHANGED vars
  <2>1. TypeOK' /\ LoopHolds'
    BY <1>1, Parts DEF vars, TypeOK, LoopHolds, SomePending, Pending, Running
  <2> QED BY <1>1, <2>1, Parts, QuietStep DEF vars, HandlesHold
<1>2. CASE Launch
  <2>1. PICK c \in choose_next :
          IF c \in cancel \/ ~quota_allows(c)
            THEN /\ SaveAs([state EXCEPT !.status[c] =
                              IF c \in cancel THEN "cancelled" ELSE "quota-blocked"])
                 /\ UNCHANGED <<pc, proc, running>>
            ELSE /\ \E q \in Pids :
                      /\ Fresh(q)
                      /\ proc' = [proc EXCEPT ![q] = [camp |-> c, st |-> "alive"]]
                      /\ running' = [running EXCEPT ![c] = q]
                 /\ state' = Started(state, c) /\ pc' = "popen" /\ UNCHANGED saved
    BY <1>2 DEF Launch, Started, Goto
  <2>2. /\ pc = "launch" /\ ~drained /\ Cardinality(Running) < GlobalMax
        /\ UNCHANGED <<unpolled, drained, launched, summary, markers, cancel, used>>
    BY <1>2 DEF Launch
  <2>3. CASE c \in cancel \/ ~quota_allows(c)
    <3>1. PICK v : v = IF c \in cancel THEN "cancelled" ELSE "quota-blocked"
      OBVIOUS
    <3>2. v \in Terminal
      BY <3>1 DEF Terminal
    <3> QED BY <2>1, <2>2, <2>3, <3>1, <3>2, RefusalKeeps
  <2>4. CASE ~(c \in cancel \/ ~quota_allows(c))
    BY <2>1, <2>2, <2>4, LaunchKeeps
  <2> QED BY <2>3, <2>4
<1>3. CASE Start \/ Crash
  BY <1>3, RestartKeeps
<1>4. CASE Mark \/ \E q \in Pids : CampaignExit(q)
  BY <1>4, EnvironmentKeeps
<1>5. CASE Top
  BY <1>5, LoopKeeps, CancelKeeps
<1>6. CASE Polled \/ Launched \/ Check \/ \E c \in Campaigns : PollAlive(c)
  BY <1>6, LoopKeeps
<1>7. CASE Record \/ Stopping
  BY <1>7, WriteKeeps
<1>8. ASSUME NEW c \in Campaigns, PollCancelled(c) \/ PollFinished(c) PROVE SchedulerInv'
  BY <1>8, PollKeeps
<1> QED BY <1>1, <1>2, <1>3, <1>4, <1>5, <1>6, <1>7, <1>8 DEF Next, SchedulerStep

\* No more processes are counted than handles.
LEMMA NoMoreThanHandles ==
  ASSUME NEW R \in SUBSET Running, NEW A, \A q \in A : \E c \in R : running[c] = q
  PROVE  Cardinality(A) <= Cardinality(R) /\ Cardinality(A) \in Nat /\ Cardinality(R) \in Nat
<1> DEFINE f == [c \in R |-> running[c]]
           I == {f[c] : c \in R}
<1>1. IsFiniteSet(R)
  BY Manifest, FS_Subset DEF Running
<1>2. IsFiniteSet(I) /\ Cardinality(I) <= Cardinality(R) /\ Cardinality(I) \in Nat
      /\ Cardinality(R) \in Nat
  <2>1. f \in [R -> I] /\ \A i \in I : \E c \in R : f[c] = i
    OBVIOUS
  <2>2. f \in Surjection(R, I)
    BY <2>1 DEF Surjection
  <2> HIDE DEF f, I
  <2>3. IsFiniteSet(I) /\ Cardinality(I) <= Cardinality(R)
    BY <1>1, <2>2, FS_Surjection
  <2> QED BY <1>1, <2>3, FS_CardinalityType
<1>3. A \in SUBSET I
  <2>1. \A q \in A : \E c \in R : f[c] = q
    OBVIOUS
  <2> QED BY <2>1
<1> HIDE DEF I
<1>4. Cardinality(A) <= Cardinality(I) /\ IsFiniteSet(A)
  BY <1>2, <1>3, FS_Subset
<1> QED BY <1>2, <1>4, FS_CardinalityType

\* For any manifest and any number of kills, resumes, cancellations and drains, if no
\* campaign outlives its scheduler: the live campaign processes stay within the global
\* and the project caps, no campaign has two, and state.json charges each project what its
\* starts reserved, within its budget (choose_next, quota_allows, load_state).
THEOREM LimitsRespected ==
  ASSUME ~Survive
  PROVE  Spec => []LimitsKept
<1>1. SchedulerInv => LimitsKept
  <2> SUFFICES ASSUME SchedulerInv PROVE LimitsKept
    OBVIOUS
  <2>1. TypeOK /\ HandlesHold /\ SlotsHold /\ ChargesHold(saved) /\ Owned
    BY Parts DEF Owned
  <2>2. \A q \in AliveProcs : proc[q].camp \in Running /\ running[proc[q].camp] = q
    BY <2>1 DEF HandlesHold
  <2>3. GlobalCap
    <3>1. \A q \in AliveProcs : \E c \in Running : running[c] = q
      BY <2>2
    <3>2. Cardinality(AliveProcs) <= Cardinality(Running)
          /\ Cardinality(AliveProcs) \in Nat /\ Cardinality(Running) \in Nat
      BY <3>1, NoMoreThanHandles
    <3> QED BY <2>1, <3>2, Manifest DEF GlobalCap, SlotsHold
  <2>4. ASSUME NEW p \in Projects
        PROVE  Cardinality({q \in AliveProcs : ProjectOf[proc[q].camp] = p}) <= ProjectMax[p]
    <3> DEFINE A == {q \in AliveProcs : ProjectOf[proc[q].camp] = p}
    <3>1. \A q \in A : \E c \in RunningOf(p) : running[c] = q
      BY <2>2 DEF RunningOf
    <3>2. RunningOf(p) \in SUBSET Running
      BY DEF RunningOf
    <3> HIDE DEF A
    <3>3. Cardinality(A) <= Cardinality(RunningOf(p))
          /\ Cardinality(A) \in Nat /\ Cardinality(RunningOf(p)) \in Nat
      BY <3>1, <3>2, NoMoreThanHandles
    <3>4. Cardinality(A) <= ProjectMax[p]
      BY <2>1, <3>3, Manifest DEF SlotsHold
    <3> QED BY <3>4 DEF A
  <2>5. \A q, r \in AliveProcs : proc[q].camp = proc[r].camp => q = r
    BY <2>2
  <2> QED BY <2>1, <2>3, <2>4, <2>5 DEF LimitsKept, WithinCaps, ProjectCap, QuotaSound
<1> QED BY <1>1, SchedulerInvInit, SchedulerInvInductive, PTL DEF Spec

\* For any manifest: a scheduler that was never killed leaves no campaign of its own
\* running when it exits, and the "scheduler deadlock" error cannot be reached: choose_next
\* returns a campaign whenever one is pending and nothing runs.
THEOREM EndsCleanly == Spec => []CleanExit
<1>1. SchedulerInv => CleanExit
  <2> SUFFICES ASSUME SchedulerInv PROVE CleanExit
    OBVIOUS
  <2>1. HandlesHold /\ LoopHolds
    BY Parts
  <2>2. QuietExit
    <3> SUFFICES ASSUME pc = "down", used["crash"] = 0, NEW q \in AliveProcs PROVE FALSE
      BY DEF QuietExit
    <3> QED BY <2>1 DEF HandlesHold, Owned
  <2> QED BY <2>1, <2>2 DEF CleanExit, NoSchedulerDeadlock, LoopHolds
<1> QED BY <1>1, SchedulerInvInit, SchedulerInvInductive, PTL DEF Spec

\* For any weights and caps: no project gets more than one start ahead of its weighted
\* share while another one has work and a cap that is not the limit (choose_next).
THEOREM SharesAreFair == Spec => []FairShare
<1>1. SchedulerInv => FairShare
  BY Parts
<1> QED BY <1>1, SchedulerInvInit, SchedulerInvInductive, PTL DEF Spec

\* A decision in state.json is final, for any manifest and across any restarts, with or
\* without campaigns that outlive a scheduler (load_state, the poll loop).
THEOREM DecisionsAreFinal == Spec => TerminalImmutable
<1>1. ASSUME SchedulerInv, SchedulerInv', [Next]_vars, NEW c \in Campaigns,
             saved.status[c] \in Terminal, saved' # saved
      PROVE  saved'.status[c] = saved.status[c]
  <2>1. RecordsHold /\ RecordsHold' /\ saved \in States /\ state \in States /\ HandlesHold
    BY <1>1, Parts DEF SchedulerInv
  <2>2. state.status[c] = saved.status[c] /\ state.status[c] \notin {"pending", "running"}
    BY <1>1, <2>1 DEF RecordsHold, Terminal
  <2>3. CASE Start
    BY <2>1, <2>2, <2>3, ResumedIs DEF Start, SaveAs
  <2>4. CASE Record \/ Stopping
    BY <2>2, <2>4 DEF Record, Stopping, SaveAs
  <2>5. ASSUME NEW d \in Campaigns, PollCancelled(d) \/ PollFinished(d)
        PROVE  saved'.status[c] = saved.status[c]
    <3>1. c # d
      BY <2>1, <2>2, <2>5 DEF PollCancelled, PollFinished, HandlesHold, RecordsHold
    <3>2. PICK v \in Terminal : \E s \in Charged([state EXCEPT !.status[d] = v], d) : SaveAs(s)
      BY <2>5 DEF PollCancelled, PollFinished, Terminal
    <3> DEFINE u == [state EXCEPT !.status[d] = v]
    <3>3. u \in States /\ u.status = [state.status EXCEPT ![d] = v]
      BY <2>1, OneStatusSet
    <3>4. PICK s \in Charged(u, d) : saved' = s
      BY <3>2 DEF SaveAs
    <3> HIDE DEF u
    <3>5. saved'.status = [state.status EXCEPT ![d] = v]
      BY <3>3, <3>4, ChargedIs
    <3> QED BY <2>1, <2>2, <3>1, <3>5, StateForm
  <2>6. CASE Launch
    <3>1. PICK d \in choose_next, v \in Terminal : saved' = [state EXCEPT !.status[d] = v]
      BY <1>1, <2>6 DEF Launch, SaveAs, Terminal
    <3>2. d \in Campaigns /\ c # d
      BY <2>2, Chosen
    <3>3. saved'.status = [state.status EXCEPT ![d] = v]
      BY <2>1, <3>1, <3>2, OneStatusSet
    <3> QED BY <2>1, <2>2, <3>2, <3>3, StateForm
  <2> QED BY <1>1, <2>3, <2>4, <2>5, <2>6
          DEF Next, SchedulerStep, vars, Top, Polled, Launched, Check, PollAlive, Crash, Mark, CampaignExit
<1>2. SchedulerInv /\ SchedulerInv' /\ [Next]_vars =>
        [\A c \in Campaigns : saved.status[c] \in Terminal => saved'.status[c] = saved.status[c]]_saved
  BY <1>1
<1> QED BY <1>2, SchedulerInvInit, SchedulerInvInductive, PTL DEF Spec, TerminalImmutable
==============================================================================

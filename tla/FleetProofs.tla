---------------------------- MODULE FleetProofs ----------------------------
(***************************************************************************)
(* The fleet controller for any number of hosts, jobs, retries, runs and   *)
(* faults.  One section shows that the rotation of _eligible_hosts is      *)
(* well defined and reaches every position; the rest is inductive:         *)
(* HonestInv for the refinement of ResultCache, Rotates for failover,      *)
(* RowsInv for the summary.                                                *)
(***************************************************************************)
EXTENDS Fleet, TLAPS, FiniteSetTheorems

-----------------------------------------------------------------------------
(* The inductive strengthenings. *)

\* The inputs are hashed first; then some host has answered the probe, or the run
\* ends.
Probed == \E h \in Hosts : run.caps[h] # None
ProbeHolds ==
  /\ run.pc # "idle" => run.print \in [Inputs -> Contents]
  /\ run.pc \in {"idle", "probe"} => ~Probed
  /\ run.pc \in {"plan", "run", "done"} => Probed

\* A thread has a host to go to, works on an object that is what it was hashed as,
\* and counts what it has written.
ThreadHolds(j) ==
  /\ th[j].pc # "none" => Probed /\ Eligible(j) # {}
  /\ th[j].pc \notin {"none", "queued", "done", "broken"} => run.pc = "run"
  /\ th[j].pc = "done" => run.pc \in {"run", "done", "exit3"}
  /\ th[j].pc = "broken" => run.pc \in {"run", "exit3"}
  /\ run.pc = "done" => th[j].pc # "queued"
  /\ th[j].pc = "run" => LET want == run.print[Input[j]] IN store[HostFor(j)][want] = want
  /\ th[j].pc \in {"none", "queued", "slot", "stage", "run"} => th[j].res = None
  /\ th[j].pc \in {"cache", "count", "done"} => out[j] = RecordOf(j)
  /\ th[j].pc = "cache" => Ok(RecordOf(j))

FleetInv == TypeOK /\ ProbeHolds /\ \A j \in Jobs : ThreadHolds(j)

\* A record of what its key yields, or that there was no answer.
HonestRecords == {r \in Records : r.res \in {Yields[r.key], None}}

\* The versions that were probed are the installed ones, what a worker has answered
\* is what the key yields, wherever it lies, and only successes are shared.
HonestInv ==
  /\ run.pc \in {"plan", "run"} => \A h \in Hosts : run.caps[h] \in {version[h], None}
  /\ \A j \in Jobs : th[j].res # None => th[j].res = Yields[Key(j)]
  /\ \A j \in Jobs : out[j] \in HonestRecords \cup {None}
  /\ cache \subseteq {r \in HonestRecords : Ok(r)}

\* The attempts go round the eligible hosts, and end with an answer or after
\* 1 + Retries of them.
Rotates(j) ==
  LET el == Eligible(j)  tried == th[j].tried IN
  /\ \A k \in 1..Len(tried) : tried[k].host = HostList[Nth(el, (j + k - 1) % Cardinality(el))]
  /\ \A k \in 1..Len(tried) : tried[k].answered =>
       k = Len(tried) /\ th[j].res # None /\ th[j].pc \notin {"slot", "stage", "run"}
  /\ th[j].pc \in {"none", "queued"} => tried = <<>>
  /\ th[j].pc \in {"slot", "stage", "run"} => Len(tried) <= Retries
  /\ th[j].pc \in {"record", "cache", "count", "done", "broken"} /\ th[j].res = None
       => Len(tried) = 1 + Retries

\* Each job is either still to be planned, or in the pool, or has its row, which
\* tells what lies in the result directory ...
RowHolds(j) ==
  /\ ~Probed => rows[j].status = "none"
  /\ run.pc = "plan" /\ j >= run.job => th[j].pc = "none" /\ rows[j].status = "none"
  /\ run.pc \in {"run", "done"} \/ (run.pc = "plan" /\ j < run.job)
       => rows[j].status # "none" \/ th[j].pc \notin {"none", "done"}
  /\ rows[j].status # "none" =>
       /\ th[j].pc = IF rows[j].status = "executed" THEN "done" ELSE "none"
       /\ out[j].key = Key(j) /\ rows[j].ok = Ok(out[j])

\* ... and the counters count the rows.
With(st) == {j \in Jobs : rows[j].status = st}
Failed == {j \in Jobs : rows[j].status # "none" /\ ~rows[j].ok}
CountsHold ==
  /\ count.executed = Cardinality(With("executed"))
  /\ count.resumed = Cardinality(With("resumed"))
  /\ count.cache_hits = Cardinality(With("cache-hit"))
  /\ count.failed = Cardinality(Failed)

RowsInv == /\ run.pc = "probe" => run.job = 0
           /\ (\A j \in Jobs : RowHolds(j)) /\ CountsHold


-----------------------------------------------------------------------------
(* Positions in a manifest *)

\* Every set of naturals has a least element.
LEMMA LeastNat ==
  ASSUME NEW T \in SUBSET Nat, T # {}
  PROVE  \E n \in T : \A m \in T : n <= m
<1> DEFINE R == OpToRel(<, Nat)
<1>1. IsWellFoundedOn(R, Nat)
  BY NatLessThanWellFounded
<1>2. \A x, y \in Nat : y < x => <<y, x>> \in R
  BY DEF OpToRel
<1> HIDE DEF R
<1>3. PICK x \in T : \A y \in T : ~ (<<y, x>> \in R)
  BY <1>1, WFMin
<1>4. x \in Nat /\ \A y \in T : y \in Nat /\ ~(y < x)
  BY <1>2, <1>3
<1> QED BY <1>3, <1>4

\* A set of naturals below a bound has a greatest element.
LEMMA GreatestNat ==
  ASSUME NEW T \in SUBSET Nat, T # {}, NEW b \in Nat, \A n \in T : n <= b
  PROVE  \E n \in T : \A m \in T : m <= n
<1> DEFINE U == {u \in Nat : \A n \in T : n <= u}
<1>1. U \in SUBSET Nat /\ b \in U
  OBVIOUS
<1>2. PICK u \in U : \A v \in U : u <= v
  <2> HIDE DEF U
  <2> QED BY <1>1, LeastNat
<1>3. u \in T
  <2>1. SUFFICES ASSUME u \notin T PROVE FALSE
    OBVIOUS
  <2>2. u \in Nat /\ \A n \in T : n \in Nat /\ n <= u /\ n # u
    BY <2>1
  <2>3. u # 0
    <3>1. PICK n \in T : TRUE
      OBVIOUS
    <3> QED BY <2>2, <3>1
  <2>4. u - 1 \in Nat /\ \A n \in T : n <= u - 1
    BY <2>2, <2>3
  <2>5. u - 1 \in U
    BY <2>4
  <2>6. u <= u - 1
    BY <1>2, <2>5
  <2> QED BY <2>2, <2>6
<1> QED BY <1>3

\* Sets of positions are finite.
LEMMA PositionsFinite ==
  ASSUME NEW N \in Nat, NEW P \in SUBSET (1..N)
  PROVE  IsFiniteSet(P) /\ Cardinality(P) \in Nat
<1>1. IsFiniteSet(1..N)
  BY FS_Interval
<1> QED BY <1>1, FS_Subset, FS_CardinalityType

\* The positions before k, and what is known of how many they are.
Before(P, k) == {m \in P : m < k}

\* There are finitely many positions, fewer before one of them than in all.
LEMMA BeforeFinite ==
  ASSUME NEW N \in Nat, NEW P \in SUBSET (1..N), NEW k \in P
  PROVE  /\ IsFiniteSet(P) /\ Cardinality(P) \in Nat
         /\ IsFiniteSet(Before(P, k)) /\ Cardinality(Before(P, k)) \in Nat
         /\ Cardinality(Before(P, k)) < Cardinality(P)
<1>1. IsFiniteSet(P) /\ Cardinality(P) \in Nat
  BY PositionsFinite
<1>2. Before(P, k) \in SUBSET P /\ k \notin Before(P, k)
  BY DEF Before
<1>3. Before(P, k) # P
  BY <1>2
<1>4. Cardinality(Before(P, k)) \in Nat /\ IsFiniteSet(Before(P, k))
  BY <1>1, <1>2, FS_Subset, FS_CardinalityType
<1>5. Cardinality(Before(P, k)) <= Cardinality(P) /\ Cardinality(Before(P, k)) # Cardinality(P)
  BY <1>1, <1>2, <1>3, FS_Subset
<1> QED BY <1>1, <1>4, <1>5

\* Later positions have more positions before them.
LEMMA BeforeMonotone ==
  ASSUME NEW N \in Nat, NEW P \in SUBSET (1..N), NEW k \in P, NEW m \in P, k < m
  PROVE  Cardinality(Before(P, k)) < Cardinality(Before(P, m))
<1>1. Before(P, k) \in SUBSET Before(P, m) /\ Before(P, k) # Before(P, m)
  <2>1. k \in Before(P, m) /\ k \notin Before(P, k)
    BY DEF Before
  <2>2. \A i \in P : i \in Nat
    OBVIOUS
  <2>3. \A i \in P : i < k => i < m
    BY <2>2
  <2> QED BY <2>1, <2>3 DEF Before
<1>2. IsFiniteSet(Before(P, m)) /\ Cardinality(Before(P, m)) \in Nat
  BY BeforeFinite
<1>3. Cardinality(Before(P, k)) \in Nat
  BY BeforeFinite
<1>4. /\ Cardinality(Before(P, k)) <= Cardinality(Before(P, m))
      /\ Cardinality(Before(P, k)) # Cardinality(Before(P, m))
  BY <1>1, <1>2, FS_Subset
<1> QED BY <1>2, <1>3, <1>4

\* Every rank is taken: n positions before it, for each n below the number of them.
LEMMA RankExists ==
  ASSUME NEW N \in Nat, NEW P \in SUBSET (1..N), NEW n \in Nat, n < Cardinality(P)
  PROVE  \E k \in P : Cardinality(Before(P, k)) = n
<1> DEFINE rank(k) == Cardinality(Before(P, k))
           T == {k \in P : rank(k) >= n}
<1>1. \A k \in P : rank(k) \in Nat /\ rank(k) < Cardinality(P) /\ IsFiniteSet(Before(P, k))
  BY BeforeFinite
<1>2. IsFiniteSet(P) /\ P # {} /\ Cardinality(P) \in Nat /\ P \in SUBSET Nat
  <2>1. IsFiniteSet(P) /\ Cardinality(P) \in Nat
    BY PositionsFinite
  <2>2. Cardinality(P) # 0
    BY <2>1
  <2> QED BY <2>1, <2>2, FS_EmptySet
<1>3. ASSUME NEW S \in SUBSET P, S # {}
      PROVE  \E k \in S : \A m \in S : m <= k
  <2>1. S \in SUBSET Nat /\ \A m \in S : m <= N
    OBVIOUS
  <2> QED BY <1>3, <2>1, GreatestNat
<1>4. T # {}
  <2>1. PICK k \in P : \A m \in P : m <= k
    BY <1>2, <1>3
  <2>2. P = Before(P, k) \cup {k} /\ k \notin Before(P, k)
    <3>1. \A m \in P : m \in Nat /\ (m < k \/ m = k)
      BY <1>2, <2>1
    <3>2. k \notin Before(P, k)
      BY <3>1 DEF Before
    <3>3. \A m : m \in P <=> m \in Before(P, k) \/ m = k
      BY <3>1 DEF Before
    <3> QED BY <3>2, <3>3
  <2>3. Cardinality(P) = rank(k) + 1
    BY <1>1, <2>2, FS_AddElement
  <2>4. k \in T
    BY <1>1, <1>2, <2>3
  <2> QED BY <2>4
<1>5. PICK k \in T : \A m \in T : k <= m
  BY <1>2, <1>4, LeastNat
<1>6. rank(k) = n
  <2>1. SUFFICES ASSUME rank(k) > n PROVE FALSE
    BY <1>1, <1>5
  <2>2. Before(P, k) \in SUBSET P /\ Before(P, k) # {} /\ k \in P /\ k \in Nat
    BY <1>1, <1>2, <2>1, FS_EmptySet DEF Before
  <2>3. PICK m \in Before(P, k) : \A i \in Before(P, k) : i <= m
    BY <1>3, <2>2
  <2>4. m \in P /\ m < k /\ Before(P, k) = Before(P, m) \cup {m} /\ m \notin Before(P, m)
    <3>1. m \in P /\ m < k /\ m \in Nat
      BY <1>2, <2>2, <2>3 DEF Before
    <3>2. \A i \in P : i \in Nat /\ (i < k <=> (i < m \/ i = m))
      BY <1>2, <2>2, <2>3, <3>1 DEF Before
    <3>3. m \notin Before(P, m)
      BY <3>1 DEF Before
    <3>4. \A i : i \in Before(P, k) <=> i \in Before(P, m) \/ i = m
      BY <3>1, <3>2 DEF Before
    <3> QED BY <3>1, <3>3, <3>4
  <2>5. rank(k) = rank(m) + 1
    BY <1>1, <2>4, FS_AddElement
  <2>6. m \in T
    BY <1>1, <2>1, <2>4, <2>5
  <2> QED BY <1>2, <1>5, <2>2, <2>4, <2>6
<1> QED BY <1>5, <1>6

\* So Nth is what its name says ...
LEMMA NthIs ==
  ASSUME NEW N \in Nat, NEW P \in SUBSET (1..N), NEW n \in Nat, n < Cardinality(P)
  PROVE  Nth(P, n) \in P
<1>1. \E k \in P : Cardinality({m \in P : m < k}) = n
  BY RankExists DEF Before
<1> QED BY <1>1 DEF Nth

\* ... and every position is the n-th for some n.
LEMMA NthOnto ==
  ASSUME NEW N \in Nat, NEW P \in SUBSET (1..N), NEW k \in P
  PROVE  \E n \in Nat : n < Cardinality(P) /\ Nth(P, n) = k
<1> DEFINE n == Cardinality(Before(P, k))
<1>1. n \in Nat /\ n < Cardinality(P)
  BY BeforeFinite
<1>2. \A m \in P : Cardinality(Before(P, m)) = n => m = k
  <2>1. ASSUME NEW m \in P, m # k PROVE Cardinality(Before(P, m)) # n
    <3>1. Cardinality(Before(P, m)) \in Nat
      BY BeforeFinite
    <3>2. CASE m < k
      <4>1. Cardinality(Before(P, m)) < Cardinality(Before(P, k))
        BY <3>2, BeforeMonotone
      <4> QED BY <1>1, <3>1, <4>1
    <3>3. CASE k < m
      <4>1. Cardinality(Before(P, k)) < Cardinality(Before(P, m))
        BY <3>3, BeforeMonotone
      <4> QED BY <1>1, <3>1, <4>1
    <3> QED BY <2>1, <3>1, <3>2, <3>3
  <2> QED BY <2>1
<1>3. Nth(P, n) = k
  BY <1>2 DEF Nth, Before
<1> QED BY <1>1, <1>3

\* Counting on from any j, the remainders modulo c go through all of them.
LEMMA ModCover ==
  ASSUME NEW c \in Nat \ {0}, NEW j \in Nat, NEW r \in Nat, r < c
  PROVE  \E x \in Nat : x < c /\ (j + x) % c = r
<1> DEFINE q == j % c
           d == j \div c
           x == IF q <= r THEN r - q ELSE r - q + c
<1>1. q \in Nat /\ q < c /\ d \in Int /\ j = c * d + q
  OBVIOUS
<1> HIDE DEF q, d
<1>2. x \in Nat /\ x < c /\ (q + x = r \/ q + x = c + r)
  BY <1>1
<1>3. PICK e \in Int : j + x = c * e + r
  <2>1. CASE q + x = r
    BY <1>1, <1>2, <2>1
  <2>2. CASE q + x = c + r
    <3>1. j + x = c * (d + 1) + r
      BY <1>1, <1>2, <2>2
    <3>2. d + 1 \in Int
      BY <1>1
    <3> HIDE DEF x
    <3> QED BY <3>1, <3>2
  <2> QED BY <1>2, <2>1, <2>2
<1>4. (c * e + r) % c = r
  OBVIOUS
<1> QED BY <1>2, <1>3, <1>4

-----------------------------------------------------------------------------
(* The plan of a run *)

\* What the manifest and the jobs are.
LEMMA Manifest ==
  /\ Len(HostList) \in Nat /\ DOMAIN HostList = 1..Len(HostList)
  /\ \A k \in DOMAIN HostList : HostList[k] \in Hosts
  /\ \A h \in Hosts : \E k \in DOMAIN HostList : HostList[k] = h
  /\ NJobs \in Nat \ {0} /\ Retries \in Nat /\ \A j \in Jobs : j \in Nat
  /\ \A j \in Jobs : /\ Input[j] \in Inputs /\ Doc[j] \in Docs
  /\ None \notin Contents /\ None \notin Versions /\ None \notin Results /\ None \notin Records
  /\ Succeeds \subseteq Results
<1>1. HostList \in Seq(Hosts) /\ NJobs \in Nat \ {0} /\ Retries \in Nat
  BY FleetAssumption DEF ValidManifest
<1>2. /\ \A k \in DOMAIN HostList : HostList[k] \in Hosts
      /\ \A h \in Hosts : \E k \in DOMAIN HostList : HostList[k] = h
  BY DEF Hosts, ToSet
<1>3. \A j \in Jobs : j \in Nat /\ Input[j] \in Inputs /\ Doc[j] \in Docs
  BY <1>1 DEF Jobs, Inputs, Docs
<1>4. Len(HostList) \in Nat /\ DOMAIN HostList = 1..Len(HostList)
  BY <1>1
<1>5. /\ None \notin Contents /\ None \notin Versions /\ None \notin Results /\ None \notin Records
      /\ Succeeds \subseteq Results
  BY FleetAssumption
<1> QED BY <1>1, <1>2, <1>3, <1>4, <1>5

\* Once a host has answered there is an engine version.
LEMMA EngineIs ==
  ASSUME TypeOK, Probed
  PROVE  EngineVersion \in Versions
<1> DEFINE I == {i \in 1..Len(HostList) : run.caps[HostList[i]] # None}
<1>1. EngineVersion = run.caps[HostList[IF I # {} THEN Min(I) ELSE 0]]
  BY DEF EngineVersion, SelectInSeq
<1>2. I \in SUBSET Nat /\ I # {}
  BY Manifest DEF Probed
<1> HIDE DEF I
<1>3. \E n \in I : \A m \in I : n <= m
  BY <1>2, LeastNat
<1>4. Min(I) \in I
  BY <1>3 DEF Min
<1>5. EngineVersion = run.caps[HostList[Min(I)]]
  BY <1>1, <1>2
<1>6. HostList[Min(I)] \in Hosts /\ run.caps[HostList[Min(I)]] # None
  BY <1>4, Manifest DEF I
<1>7. run.caps \in [Hosts -> Versions \cup {None}]
  BY DEF TypeOK
<1> QED BY <1>5, <1>6, <1>7

\* The eligible positions.
LEMMA EligibleIs ==
  ASSUME NEW j \in Jobs, Eligible(j) # {}
  PROVE  /\ Eligible(j) \in SUBSET (1..Len(HostList))
         /\ IsFiniteSet(Eligible(j)) /\ Cardinality(Eligible(j)) \in Nat \ {0}
         /\ \A n \in Nat : LET h == HostList[Nth(Eligible(j), n % Cardinality(Eligible(j)))]
                           IN  h \in Hosts /\ run.caps[h] = EngineVersion
<1> DEFINE el == Eligible(j)
<1>1. el \in SUBSET (1..Len(HostList))
  BY Manifest DEF Eligible
<1>2. IsFiniteSet(el) /\ Cardinality(el) \in Nat
  BY <1>1, Manifest, PositionsFinite
<1>3. Cardinality(el) # 0
  BY <1>2, FS_EmptySet
<1>4. \A n \in Nat : n % Cardinality(el) \in Nat /\ n % Cardinality(el) < Cardinality(el)
  <2> HIDE DEF el
  <2> QED BY <1>2, <1>3
<1>5. \A n \in Nat : Nth(el, n % Cardinality(el)) \in el
  BY <1>1, <1>4, Manifest, NthIs
<1>6. \A k \in el : HostList[k] \in Hosts /\ run.caps[HostList[k]] = EngineVersion
  BY Manifest DEF Eligible
<1> QED BY <1>1, <1>2, <1>3, <1>5, <1>6

\* The host of the next attempt is one that answered with the version of the run.
LEMMA HostIs ==
  ASSUME TypeOK, NEW j \in Jobs, Eligible(j) # {}
  PROVE  HostFor(j) \in Hosts /\ run.caps[HostFor(j)] = EngineVersion
<1>1. j + Len(th[j].tried) \in Nat
  <2>1. th[j].tried \in Attempts /\ j \in Nat
    BY Manifest DEF TypeOK
  <2> QED BY <2>1 DEF Attempts
<1> QED BY <1>1, EligibleIs DEF HostFor

\* The cache key of a job.
LEMMA KeyIs ==
  ASSUME TypeOK, Probed, run.print \in [Inputs -> Contents], NEW j \in Jobs
  PROVE  Key(j) \in Triples
  BY EngineIs, Manifest DEF Key, Triples

\* The plan depends on what was hashed and probed only.
LEMMA SamePlan ==
  ASSUME run'.caps = run.caps, run'.print = run.print
  PROVE  /\ EngineVersion' = EngineVersion /\ Probed' = Probed
         /\ \A j \in Jobs : Eligible(j)' = Eligible(j) /\ Key(j)' = Key(j)
         /\ \A j \in Jobs : th'[j].tried = th[j].tried => HostFor(j)' = HostFor(j)
         /\ \A j \in Jobs : th'[j].res = th[j].res => RecordOf(j)' = RecordOf(j)
<1>1. EngineVersion' = EngineVersion /\ Probed' = Probed
  BY DEF EngineVersion, Probed, SelectInSeq
<1>2. \A j \in Jobs : Eligible(j)' = Eligible(j) /\ Key(j)' = Key(j)
  BY <1>1 DEF Eligible, Key
<1>3. \A j \in Jobs : th'[j].tried = th[j].tried => HostFor(j)' = HostFor(j)
  BY <1>2 DEF HostFor
<1>4. \A j \in Jobs : th'[j].res = th[j].res => RecordOf(j)' = RecordOf(j)
  BY <1>2 DEF RecordOf
<1> QED BY <1>1, <1>2, <1>3, <1>4

-----------------------------------------------------------------------------
(* FleetInv *)

\* A thread that did not move still holds what it held, if the run went on under it
\* and its result file and the good objects are still there.
LEMMA ThreadFrame ==
  ASSUME NEW j \in Jobs, ThreadHolds(j), th'[j] = th[j], out'[j] = out[j],
         run'.caps = run.caps, run'.print = run.print,
         \/ run'.pc = run.pc
         \/ run'.pc # "done" /\ th[j].pc \in {"none", "queued"}
         \/ run'.pc = "done" /\ th[j].pc \in {"none", "done"}
         \/ run'.pc = "exit3" /\ th[j].pc \in {"none", "done", "broken"},
         \A h \in Hosts, c \in Contents : store[h][c] = c => store'[h][c] = c,
         TypeOK, th[j].pc = "run" => run.print \in [Inputs -> Contents]
  PROVE  ThreadHolds(j)'
<1>1. /\ Probed' = Probed /\ Eligible(j)' = Eligible(j) /\ HostFor(j)' = HostFor(j)
      /\ RecordOf(j)' = RecordOf(j)
  BY SamePlan
<1>2. ASSUME th[j].pc = "run"
      PROVE  store'[HostFor(j)][run.print[Input[j]]] = run.print[Input[j]]
  <2>1. HostFor(j) \in Hosts /\ run.print[Input[j]] \in Contents
    BY <1>2, HostIs, Manifest DEF ThreadHolds
  <2> QED BY <1>2, <2>1 DEF ThreadHolds
<1>3. Ok(RecordOf(j))' = Ok(RecordOf(j))
  BY <1>1 DEF Ok
<1> QED BY <1>1, <1>2, <1>3 DEF ThreadHolds

\* The same for all threads but one.
LEMMA OthersFrame ==
  ASSUME FleetInv, NEW i \in Jobs, ThreadHolds(i)',
         \A j \in Jobs \ {i} : th'[j] = th[j] /\ out'[j] = out[j],
         run' = run,
         \A h \in Hosts, c \in Contents : store[h][c] = c => store'[h][c] = c
  PROVE  (ProbeHolds /\ \A j \in Jobs : ThreadHolds(j))'
<1>1. ProbeHolds'
  BY SamePlan DEF FleetInv, ProbeHolds
<1>2. ASSUME NEW j \in Jobs \ {i} PROVE ThreadHolds(j)'
  <2>1. th[j].pc = "run" => run.print \in [Inputs -> Contents]
    BY DEF FleetInv, ThreadHolds, ProbeHolds
  <2> QED BY <2>1, ThreadFrame DEF FleetInv
<1> QED BY <1>1, <1>2

\* A step of a thread, from the state it is in: its plan does not change.
LEMMA ThreadState ==
  ASSUME FleetInv, NEW j \in Jobs, th[j].pc \notin {"none", "queued", "done", "broken"}
  PROVE  /\ run.pc = "run" /\ run.print \in [Inputs -> Contents] /\ Probed /\ Eligible(j) # {}
         /\ HostFor(j) \in Hosts /\ run.caps[HostFor(j)] = EngineVersion /\ EngineVersion \in Versions
         /\ Key(j) \in Triples /\ run.print[Input[j]] \in Contents
         /\ RecordOf(j) \in Records
<1>1. run.pc = "run" /\ Eligible(j) # {} /\ Probed /\ TypeOK
  BY DEF FleetInv, ThreadHolds
<1>2. run.print \in [Inputs -> Contents]
  BY <1>1 DEF FleetInv, ProbeHolds
<1>3. HostFor(j) \in Hosts /\ run.caps[HostFor(j)] = EngineVersion /\ EngineVersion \in Versions
  BY <1>1, HostIs, EngineIs
<1>4. Key(j) \in Triples /\ run.print[Input[j]] \in Contents
  BY <1>1, <1>2, KeyIs, Manifest
<1>5. RecordOf(j) \in Records
  BY <1>1, <1>4 DEF RecordOf, Records, TypeOK
<1> QED BY <1>1, <1>2, <1>3, <1>4, <1>5

\* What a thread does to its own record.
Threads == [pc : ThreadPcs, tried : Attempts, res : Results \cup {None}]

\* Goto moves one thread and changes nothing else of it.
LEMMA GotoIs ==
  ASSUME TypeOK, NEW j \in Jobs, NEW l \in ThreadPcs, Goto(j, l)
  PROVE  /\ th' \in [Jobs -> Threads]
         /\ th'[j].pc = l /\ th'[j].tried = th[j].tried /\ th'[j].res = th[j].res
         /\ \A i \in Jobs \ {j} : th'[i] = th[i]
<1>1. th \in [Jobs -> Threads]
  BY DEF TypeOK, Threads
<1> QED BY <1>1 DEF Goto, Threads

\* An attempt ends with an answer or without one.
LEMMA AttemptedIs ==
  ASSUME TypeOK, NEW j \in Jobs, HostFor(j) \in Hosts, NEW res \in Results \cup {None},
         Attempted(j, res)
  PROVE  /\ th' \in [Jobs -> Threads]
         /\ th'[j].tried = Append(th[j].tried, Attempt(j, res)) /\ th'[j].res = res
         /\ th'[j].pc = IF res = None /\ Len(th[j].tried) < Retries THEN "slot" ELSE "record"
         /\ \A i \in Jobs \ {j} : th'[i] = th[i]
<1>1. th \in [Jobs -> Threads]
  BY DEF TypeOK, Threads
<1>2. th[j].tried \in Attempts
  BY <1>1 DEF Threads
<1>3. Append(th[j].tried, Attempt(j, res)) \in Attempts
  BY <1>2 DEF Attempts, Attempt
<1>4. PICK l \in ThreadPcs : l = IF res = None /\ Len(th[j].tried) < Retries THEN "slot" ELSE "record"
  BY DEF ThreadPcs
<1>5. th' = [th EXCEPT ![j] = [pc |-> l, tried |-> Append(th[j].tried, Attempt(j, res)), res |-> res]]
  BY <1>4 DEF Attempted
<1> QED BY <1>1, <1>3, <1>4, <1>5 DEF Threads

\* The types that a thread's step leaves alone.
LEMMA TypesFrame ==
  ASSUME TypeOK, th' \in [Jobs -> Threads], UNCHANGED <<env, run>>,
         store' \in [Hosts -> [Contents -> Contents \cup {None}]],
         out' \in [Jobs -> Records \cup {None}], cache' \subseteq Records,
         rows' \in [Jobs -> [status : {"none", "executed", "resumed", "cache-hit"}, ok : BOOLEAN]],
         count' \in [executed : Nat, resumed : Nat, cache_hits : Nat, failed : Nat]
  PROVE  TypeOK'
  BY DEF TypeOK, Threads, env

\* Moving between the steps of an attempt, with nothing written yet.
LEMMA ThreadMoves ==
  ASSUME FleetInv, NEW j \in Jobs, Take(j) \/ Acquire(j) \/ Stage(j)
  PROVE  FleetInv'
<1> DEFINE want == run.print[Input[j]]
<1>1. TypeOK /\ ThreadHolds(j)
  BY DEF FleetInv
<1>2. /\ UNCHANGED <<env, out, cache, run, rows, count>>
      /\ \E l \in {"slot", "stage", "run"} : Goto(j, l)
  BY DEF Take, Acquire, Stage
<1>3. PICK l \in {"slot", "stage", "run"} : Goto(j, l)
  BY <1>2
<1>4. /\ th' \in [Jobs -> Threads]
      /\ th'[j].pc = l /\ th'[j].tried = th[j].tried /\ th'[j].res = th[j].res
      /\ \A i \in Jobs \ {j} : th'[i] = th[i]
  BY <1>1, <1>3, GotoIs DEF ThreadPcs
<1>5. th[j].pc \in {"queued", "slot", "stage"} /\ run.pc = "run"
  <2>1. CASE Take(j)
    BY <2>1 DEF Take
  <2>2. CASE Acquire(j)
    BY <1>1, <2>2 DEF Acquire, ThreadHolds
  <2>3. CASE Stage(j)
    BY <1>1, <2>3 DEF Stage, ThreadHolds
  <2> QED BY <2>1, <2>2, <2>3
<1>6. Eligible(j) # {} /\ Probed /\ HostFor(j) \in Hosts /\ want \in Contents
  <2>1. Eligible(j) # {} /\ Probed
    BY <1>1, <1>5 DEF ThreadHolds
  <2>2. run.print \in [Inputs -> Contents]
    BY <1>5 DEF FleetInv, ProbeHolds
  <2> QED BY <1>1, <2>1, <2>2, HostIs, Manifest
<1>7. /\ store' \in [Hosts -> [Contents -> Contents \cup {None}]]
      /\ \A h \in Hosts, c \in Contents : store[h][c] = c => store'[h][c] = c
      /\ l = "run" => store'[HostFor(j)][want] = want
  <2>1. CASE Stage(j)
    <3>1. store \in [Hosts -> [Contents -> Contents \cup {None}]]
      BY <1>1 DEF TypeOK
    <3>2. \/ store[HostFor(j)][want] = want /\ store' = store
          \/ store' = [store EXCEPT ![HostFor(j)][want] = want]
      BY <2>1 DEF Stage
    <3> HIDE DEF want
    <3> QED BY <1>6, <3>1, <3>2
  <2>2. CASE Take(j) \/ Acquire(j)
    <3>1. store' = store /\ (Goto(j, "slot") \/ Goto(j, "stage"))
      BY <2>2 DEF Take, Acquire
    <3>2. l # "run"
      BY <1>1, <1>4, <3>1, GotoIs DEF ThreadPcs
    <3> QED BY <1>1, <3>1, <3>2 DEF TypeOK
  <2> QED BY <2>1, <2>2
<1>8. ThreadHolds(j)'
  <2>1. /\ Probed' = Probed /\ Eligible(j)' = Eligible(j) /\ HostFor(j)' = HostFor(j)
    BY <1>2, <1>4, SamePlan
  <2>2. th[j].res = None /\ th'[j].pc \in {"slot", "stage", "run"} /\ run' = run
    BY <1>1, <1>2, <1>4, <1>5 DEF ThreadHolds
  <2> QED BY <1>4, <1>5, <1>6, <1>7, <2>1, <2>2 DEF ThreadHolds
<1>9. TypeOK'
  BY <1>1, <1>2, <1>4, <1>7, TypesFrame DEF TypeOK
<1> QED BY <1>2, <1>4, <1>7, <1>8, <1>9, OthersFrame DEF FleetInv

\* What a worker answers when the staged object is the one that was hashed.
Answer(j) == <<Doc[j], run.print[Input[j]], version[HostFor(j)], makeBackend(Doc[j], HostFor(j))>>

\* The end of an attempt.
LEMMA ThreadAttempts ==
  ASSUME FleetInv, NEW j \in Jobs, StageFails(j) \/ WorkerAnswers(j) \/ WorkerLost(j)
  PROVE  /\ FleetInv' /\ UNCHANGED <<env, store, out, cache, run, rows, count>>
         /\ th[j].pc \in {"stage", "run"}
         /\ \E res \in {run_job(j, HostFor(j)), None} :
              /\ res # None => th[j].pc = "run" /\ res = Answer(j)
              /\ th'[j].tried = Append(th[j].tried, Attempt(j, res)) /\ th'[j].res = res
              /\ th'[j].pc = IF res = None /\ Len(th[j].tried) < Retries THEN "slot" ELSE "record"
         /\ \A i \in Jobs \ {j} : th'[i] = th[i]
<1>1. TypeOK /\ ThreadHolds(j)
  BY DEF FleetInv
<1>2. /\ UNCHANGED <<env, store, out, cache, run, rows, count>> /\ th[j].pc \in {"stage", "run"}
      /\ \E res \in {run_job(j, HostFor(j)), None} :
            (res # None => th[j].pc = "run") /\ Attempted(j, res)
  BY DEF StageFails, WorkerAnswers, WorkerLost
<1>3. PICK res \in {run_job(j, HostFor(j)), None} :
        (res # None => th[j].pc = "run") /\ Attempted(j, res)
  BY <1>2
<1>4. /\ run.pc = "run" /\ Probed /\ Eligible(j) # {} /\ HostFor(j) \in Hosts
      /\ run.print[Input[j]] \in Contents
  BY <1>2, ThreadState
<1>5. res # None => res = Answer(j)
  BY <1>1, <1>3 DEF run_job, Answer, ThreadHolds
<1>6. res \in Results \cup {None}
  <2>1. makeBackend(Doc[j], HostFor(j)) \in Backends
    BY Manifest, FleetAssumption DEF makeBackend, Backends
  <2>2. Doc[j] \in Docs /\ version[HostFor(j)] \in Versions
    BY <1>1, <1>4, Manifest DEF TypeOK
  <2> QED BY <1>3, <1>4, <1>5, <2>1, <2>2 DEF Results, Answer
<1>7. /\ th' \in [Jobs -> Threads]
      /\ th'[j].tried = Append(th[j].tried, Attempt(j, res)) /\ th'[j].res = res
      /\ th'[j].pc = IF res = None /\ Len(th[j].tried) < Retries THEN "slot" ELSE "record"
      /\ \A i \in Jobs \ {j} : th'[i] = th[i]
  BY <1>1, <1>3, <1>4, <1>6, AttemptedIs
<1>8. ThreadHolds(j)'
  <2>1. Probed' = Probed /\ Eligible(j)' = Eligible(j) /\ run' = run
    BY <1>2, SamePlan
  <2>2. th'[j].pc \in {"slot", "record"} /\ (th'[j].pc = "slot" => th'[j].res = None)
    BY <1>7
  <2> QED BY <1>4, <2>1, <2>2 DEF ThreadHolds
<1>9. TypeOK'
  BY <1>1, <1>2, <1>7, TypesFrame DEF TypeOK
<1>10. FleetInv'
  BY <1>2, <1>7, <1>8, <1>9, OthersFrame DEF FleetInv
<1> QED BY <1>2, <1>3, <1>5, <1>7, <1>10

\* Writing the result, sharing it and counting it.
LEMMA ThreadRecords ==
  ASSUME FleetInv, NEW j \in Jobs, Record(j) \/ Cache(j) \/ Count(j)
  PROVE  FleetInv'
<1>1. TypeOK /\ ThreadHolds(j)
  BY DEF FleetInv
<1>2. UNCHANGED <<env, run, store>> /\ th[j].pc \in {"record", "cache", "count"}
  BY DEF Record, Cache, Count
<1>3. /\ run.pc = "run" /\ Probed /\ Eligible(j) # {} /\ RecordOf(j) \in Records
  BY <1>2, ThreadState
<1>4. PICK l \in {"cache", "count", "done"} : Goto(j, l)
  BY DEF Record, Cache, Count
<1>5. /\ th' \in [Jobs -> Threads]
      /\ th'[j].pc = l /\ th'[j].tried = th[j].tried /\ th'[j].res = th[j].res
      /\ \A i \in Jobs \ {j} : th'[i] = th[i]
  BY <1>1, <1>4, GotoIs DEF ThreadPcs
<1>6. /\ out' \in [Jobs -> Records \cup {None}] /\ out'[j] = RecordOf(j)
      /\ \A i \in Jobs \ {j} : out'[i] = out[i]
      /\ l = "cache" => Ok(RecordOf(j))
  <2>1. out \in [Jobs -> Records \cup {None}]
    BY <1>1 DEF TypeOK
  <2>2. CASE Record(j)
    <3>1. /\ out' = [out EXCEPT ![j] = RecordOf(j)]
          /\ Goto(j, IF Ok(RecordOf(j)) THEN "cache" ELSE "count")
      BY <2>2 DEF Record
    <3>2. l = IF Ok(RecordOf(j)) THEN "cache" ELSE "count"
      BY <1>1, <1>5, <3>1, GotoIs DEF ThreadPcs
    <3> QED BY <1>3, <2>1, <3>1, <3>2
  <2>3. CASE Cache(j) \/ Count(j)
    <3>1. /\ out' = out /\ th[j].pc \in {"cache", "count"}
          /\ Goto(j, "count") \/ Goto(j, "done")
      BY <2>3 DEF Cache, Count
    <3>2. l # "cache"
      BY <1>1, <1>5, <3>1, GotoIs DEF ThreadPcs
    <3> QED BY <1>1, <2>1, <3>1, <3>2 DEF ThreadHolds
  <2> QED BY <2>2, <2>3
<1>7. cache' \subseteq Records
  BY <1>1, <1>3 DEF TypeOK, Record, Cache, Count
<1>8. /\ rows' \in [Jobs -> [status : {"none", "executed", "resumed", "cache-hit"}, ok : BOOLEAN]]
      /\ count' \in [executed : Nat, resumed : Nat, cache_hits : Nat, failed : Nat]
  <2>1. CASE Count(j)
    <3>1. PICK b \in BOOLEAN : b <=> th[j].res \in Succeeds
      OBVIOUS
    <3>2. rows' = [rows EXCEPT ![j] = [status |-> "executed", ok |-> b]]
      BY <2>1, <3>1 DEF Count, Ok, RecordOf
    <3>3. PICK f \in {count.failed, count.failed + 1} :
            count' = [count EXCEPT !.executed = @ + 1, !.failed = f]
      BY <2>1 DEF Count
    <3>4. rows' \in [Jobs -> [status : {"none", "executed", "resumed", "cache-hit"}, ok : BOOLEAN]]
      BY <1>1, <3>2 DEF TypeOK
    <3>5. count' \in [executed : Nat, resumed : Nat, cache_hits : Nat, failed : Nat]
      <4>1. count \in [executed : Nat, resumed : Nat, cache_hits : Nat, failed : Nat]
        BY <1>1 DEF TypeOK
      <4>2. f \in Nat /\ count.executed + 1 \in Nat
        BY <3>3, <4>1
      <4>3. count' = [count EXCEPT !.executed = count.executed + 1, !.failed = f]
        BY <3>3, Zenon
      <4> QED BY <4>1, <4>2, <4>3
    <3> QED BY <3>4, <3>5
  <2>2. CASE Record(j) \/ Cache(j)
    BY <1>1, <2>2 DEF Record, Cache, TypeOK
  <2> QED BY <2>1, <2>2
<1>9. ThreadHolds(j)'
  <2>1. Probed' = Probed /\ Eligible(j)' = Eligible(j) /\ run' = run /\ RecordOf(j)' = RecordOf(j)
    BY <1>2, <1>5, SamePlan
  <2>2. Ok(RecordOf(j))' = Ok(RecordOf(j))
    BY <2>1 DEF Ok
  <2> QED BY <1>3, <1>5, <1>6, <2>1, <2>2 DEF ThreadHolds
<1>10. TypeOK'
  BY <1>1, <1>2, <1>5, <1>6, <1>7, <1>8, TypesFrame DEF TypeOK
<1> QED BY <1>2, <1>5, <1>6, <1>9, <1>10, OthersFrame DEF FleetInv

\* The state of a controller, and the ones that there is no run in.
RunTypes == [pc : {"idle", "probe", "plan", "run", "done", "exit2", "exit3"}, job : 0..NJobs,
             caps : [Hosts -> Versions \cup {None}],
             print : [Inputs -> Contents \cup {None}], noResume : BOOLEAN]

\* A thread, a row, the counts and a probe at rest are well typed.
LEMMA Blank ==
  /\ NoThread \in Threads
  /\ NoRow \in [status : {"none", "executed", "resumed", "cache-hit"}, ok : BOOLEAN]
  /\ NoCount \in [executed : Nat, resumed : Nat, cache_hits : Nat, failed : Nat]
  /\ [h \in Hosts |-> None] \in [Hosts -> Versions \cup {None}] /\ 0 \in 0..NJobs
<1>1. NoThread \in Threads
  BY DEF NoThread, Threads, ThreadPcs, Attempts
<1>2. /\ NoRow \in [status : {"none", "executed", "resumed", "cache-hit"}, ok : BOOLEAN]
      /\ NoCount \in [executed : Nat, resumed : Nat, cache_hits : Nat, failed : Nat]
  BY DEF NoRow, NoCount
<1>3. [h \in Hosts |-> None] \in [Hosts -> Versions \cup {None}]
  OBVIOUS
<1>4. 0 \in 0..NJobs
  BY Manifest
<1> QED BY <1>1, <1>2, <1>3, <1>4

\* A run begins, or is cut off: there is no plan and there are no threads.
LEMMA NoThreads ==
  ASSUME FleetInv, th' = [j \in Jobs |-> NoThread], rows' = [j \in Jobs |-> NoRow], count' = NoCount,
         UNCHANGED <<src, version, store, out, cache>>,
         used' \in [run : Nat, fault : Nat],
         \/ run' = NoRun
         \/ \E b \in BOOLEAN :
              run' = [NoRun EXCEPT !.pc = "probe", !.print = src, !.noResume = b]
  PROVE  FleetInv'
<1>1. TypeOK /\ src \in [Inputs -> Contents]
  BY DEF FleetInv, TypeOK
<1>2. /\ run' \in [pc : {"idle", "probe"}, job : {0}, caps : {[h \in Hosts |-> None]},
                   print : [Inputs -> Contents \cup {None}], noResume : BOOLEAN]
      /\ run'.pc = "probe" => run'.print = src
  <2>1. CASE run' = NoRun
    BY <2>1 DEF NoRun
  <2>2. CASE run' # NoRun
    <3>1. PICK b \in BOOLEAN : run' = [NoRun EXCEPT !.pc = "probe", !.print = src, !.noResume = b]
      BY <2>2
    <3>2. run' = [pc |-> "probe", job |-> 0, caps |-> [h \in Hosts |-> None], print |-> src, noResume |-> b]
      BY <3>1 DEF NoRun
    <3> QED BY <1>1, <3>2
  <2> QED BY <2>1, <2>2
<1>3. ProbeHolds'
  BY <1>1, <1>2 DEF ProbeHolds, Probed
<1>4. \A j \in Jobs : ThreadHolds(j)'
  BY <1>2 DEF ThreadHolds, NoThread
<1>5. TypeOK'
  <2>1. th' \in [Jobs -> [pc : ThreadPcs, tried : Attempts, res : Results \cup {None}]]
    BY Blank DEF Threads
  <2>2. /\ rows' \in [Jobs -> [status : {"none", "executed", "resumed", "cache-hit"}, ok : BOOLEAN]]
        /\ count' \in [executed : Nat, resumed : Nat, cache_hits : Nat, failed : Nat]
    BY DEF NoRow, NoCount
  <2>3. run' \in [pc : {"idle", "probe", "plan", "run", "done", "exit2", "exit3"}, job : 0..NJobs,
                   caps : [Hosts -> Versions \cup {None}],
                   print : [Inputs -> Contents \cup {None}], noResume : BOOLEAN]
    BY <1>2, Blank
  <2> QED BY <1>1, <2>1, <2>2, <2>3 DEF TypeOK
<1> QED BY <1>3, <1>4, <1>5 DEF FleetInv

\* The hosts are probed while nothing has been planned.
LEMMA ProbeKeeps ==
  ASSUME FleetInv, NEW a \in SUBSET Hosts, Probe(a)
  PROVE  FleetInv'
<1> DEFINE caps == [h \in Hosts |-> IF h \in a THEN version[h] ELSE None]
<1>1. TypeOK /\ run.pc = "probe" /\ ~Probed /\ \A j \in Jobs : th[j].pc = "none" /\ th[j].res = None
  BY DEF FleetInv, Probe, ProbeHolds, ThreadHolds
<1>2. PICK l \in {"exit2", "plan"} : /\ l = IF a = {} THEN "exit2" ELSE "plan"
                                     /\ run' = [run EXCEPT !.pc = l, !.caps = caps]
  BY DEF Probe
<1>3. /\ run'.pc = l /\ run'.caps = caps /\ run'.print = run.print
      /\ run' \in [pc : {"idle", "probe", "plan", "run", "done", "exit2", "exit3"}, job : 0..NJobs,
                   caps : [Hosts -> Versions \cup {None}],
                   print : [Inputs -> Contents \cup {None}], noResume : BOOLEAN]
  <2>1. caps \in [Hosts -> Versions \cup {None}]
    BY <1>1 DEF TypeOK
  <2> HIDE DEF caps
  <2> QED BY <1>1, <1>2, <2>1 DEF TypeOK
<1>4. l = "plan" => Probed'
  <2>1. \A h \in a : h \in Hosts /\ version[h] \in Versions
    BY <1>1 DEF TypeOK
  <2>2. ASSUME NEW h \in a PROVE Probed'
    <3>1. run'.caps[h] = version[h] /\ h \in Hosts
      BY <1>3
    <3> QED BY <2>1, <3>1, Manifest DEF Probed
  <2> QED BY <1>2, <2>2
<1>5. ProbeHolds'
  BY <1>1, <1>3, <1>4 DEF FleetInv, ProbeHolds
<1>6. UNCHANGED <<env, store, out, cache, th, rows, count>>
  BY DEF Probe
<1>7. TypeOK'
  BY <1>1, <1>3, <1>6 DEF TypeOK, env
<1>8. \A j \in Jobs : ThreadHolds(j)'
  BY <1>1, <1>3, <1>6 DEF ThreadHolds
<1> QED BY <1>5, <1>7, <1>8 DEF FleetInv

\* The controller goes on with its plan: nobody has a result yet while it plans.
PlanGoesOn ==
  /\ UNCHANGED <<env, store, cache>> /\ run' \in RunTypes
  /\ run'.caps = run.caps /\ run'.print = run.print
  /\ run'.pc \in {"plan", "run", "done", "exit2", "exit3"}
  /\ \/ run.pc = "plan" /\ run'.pc # "done"
     \/ run'.pc = "done" /\ \A j \in Jobs : th[j].pc \in {"none", "done"}
     \/ run'.pc = "exit3" /\ \A j \in Jobs : th[j].pc \in {"none", "done", "broken"}

\* The planning steps of the controller are such steps.
LEMMA ControllerRun ==
  ASSUME TypeOK,
         \/ Planned \/ Finish
         \/ \E j \in Jobs : PlanNobody(j) \/ PlanResume(j) \/ PlanCached(j) \/ PlanExecute(j)
  PROVE  PlanGoesOn
<1>1. run \in RunTypes
  BY DEF TypeOK, RunTypes
<1>2. CASE Planned
  BY <1>1, <1>2 DEF Planned, PlanGoesOn, RunTypes
<1>3. CASE Finish
  BY <1>1, <1>3 DEF Finish, PlanGoesOn, RunTypes
<1>4. ASSUME NEW j \in Jobs, PlanNobody(j) PROVE PlanGoesOn
  BY <1>1, <1>4 DEF PlanNobody, Planning, PlanGoesOn, RunTypes
<1>5. ASSUME NEW j \in Jobs, PlanResume(j) \/ PlanCached(j) \/ PlanExecute(j) PROVE PlanGoesOn
  <2>1. run' = [run EXCEPT !.job = @ + 1] /\ run.pc = "plan" /\ run.job = j /\ UNCHANGED <<env, store, cache>>
    BY <1>5 DEF PlanResume, PlanCached, PlanExecute, Planning, PlanNext
  <2>2. run.job + 1 \in 0..NJobs
    BY <2>1, Manifest DEF Jobs
  <2> QED BY <1>1, <2>1, <2>2 DEF PlanGoesOn, RunTypes
<1> QED BY <1>2, <1>3, <1>4, <1>5

\* They keep FleetInv.
LEMMA ControllerKeeps ==
  ASSUME FleetInv,
         \/ Planned \/ Finish
         \/ \E j \in Jobs : PlanNobody(j) \/ PlanResume(j) \/ PlanCached(j) \/ PlanExecute(j)
  PROVE  FleetInv'
<1>1. TypeOK
  BY DEF FleetInv
<1>2. run.pc \in {"plan", "run"} /\ run.print \in [Inputs -> Contents] /\ Probed
  BY DEF FleetInv, ProbeHolds, Planned, Finish, PlanNobody, PlanResume, PlanCached, PlanExecute, Planning
<1>3. PlanGoesOn
  BY <1>1, ControllerRun
<1>4. ProbeHolds' /\ Probed'
  <2>1. Probed' = Probed
    BY <1>3, SamePlan DEF PlanGoesOn
  <2> QED BY <1>2, <1>3, <2>1 DEF PlanGoesOn, ProbeHolds
<1>5. CASE UNCHANGED <<th, out, rows, count>>
  <2>1. TypeOK'
    BY <1>1, <1>3, <1>5 DEF TypeOK, PlanGoesOn, RunTypes, env
  <2>2. ASSUME NEW j \in Jobs PROVE ThreadHolds(j)'
    <3>1. ThreadHolds(j)
      BY DEF FleetInv
    <3>2. run.pc = "plan" => th[j].pc \in {"none", "queued"}
      BY <3>1 DEF ThreadHolds
    <3> QED BY <1>1, <1>2, <1>3, <1>5, <3>1, <3>2, ThreadFrame DEF PlanGoesOn
  <2> QED BY <1>4, <2>1, <2>2 DEF FleetInv
<1>6. ASSUME NEW j \in Jobs, PlanResume(j) \/ PlanCached(j) \/ PlanExecute(j)
      PROVE  FleetInv'
  <2>1. run.pc = "plan" /\ run'.pc = "plan" /\ Eligible(j) # {}
    BY <1>1, <1>6 DEF PlanResume, PlanCached, PlanExecute, Planning, PlanNext, TypeOK
  <2>2. /\ th' \in [Jobs -> Threads] /\ th'[j].pc \in {th[j].pc, "queued"} /\ th'[j].res = th[j].res
        /\ \A i \in Jobs \ {j} : th'[i] = th[i]
    BY <1>1, <1>6, GotoIs DEF PlanResume, PlanCached, PlanExecute, TypeOK, Threads, Goto, ThreadPcs
  <2>3. /\ out' \in [Jobs -> Records \cup {None}]
        /\ \A i \in Jobs \ {j} : out'[i] = out[i]
    <3>1. out \in [Jobs -> Records \cup {None}] /\ cache \subseteq Records
      BY <1>1 DEF TypeOK
    <3>2. out' = out \/ \E r \in cache : out' = [out EXCEPT ![j] = r]
      BY <1>6 DEF PlanResume, PlanCached, PlanExecute, CacheHits
    <3> QED BY <3>1, <3>2
  <2>4. /\ rows' \in [Jobs -> [status : {"none", "executed", "resumed", "cache-hit"}, ok : BOOLEAN]]
        /\ count' \in [executed : Nat, resumed : Nat, cache_hits : Nat, failed : Nat]
    <3>1. PICK b \in BOOLEAN : b <=> out[j].res \in Succeeds
      OBVIOUS
    <3>2. CASE PlanResume(j)
      <4>1. rows' = [rows EXCEPT ![j] = [status |-> "resumed", ok |-> b]]
        BY <3>1, <3>2 DEF PlanResume, Ok
      <4>2. PICK f \in {count.failed, count.failed + 1} :
              count' = [count EXCEPT !.resumed = @ + 1, !.failed = f]
        BY <3>2 DEF PlanResume
      <4>3. count \in [executed : Nat, resumed : Nat, cache_hits : Nat, failed : Nat]
        BY <1>1 DEF TypeOK
      <4>4. f \in Nat /\ count.resumed + 1 \in Nat
        BY <4>2, <4>3
      <4>5. count' = [count EXCEPT !.resumed = count.resumed + 1, !.failed = f]
        BY <4>2, Zenon
      <4>6. count' \in [executed : Nat, resumed : Nat, cache_hits : Nat, failed : Nat]
        BY <4>3, <4>4, <4>5
      <4> QED BY <1>1, <4>1, <4>6 DEF TypeOK
    <3>3. CASE PlanCached(j)
      <4>1. /\ rows' = [rows EXCEPT ![j] = [status |-> "cache-hit", ok |-> TRUE]]
            /\ count' = [count EXCEPT !.cache_hits = @ + 1]
        BY <3>3 DEF PlanCached
      <4>2. /\ rows \in [Jobs -> [status : {"none", "executed", "resumed", "cache-hit"}, ok : BOOLEAN]]
            /\ count \in [executed : Nat, resumed : Nat, cache_hits : Nat, failed : Nat]
        BY <1>1 DEF TypeOK
      <4>3. count' \in [executed : Nat, resumed : Nat, cache_hits : Nat, failed : Nat]
        BY <4>1, <4>2
      <4>4. rows' \in [Jobs -> [status : {"none", "executed", "resumed", "cache-hit"}, ok : BOOLEAN]]
        BY <4>1, <4>2
      <4> QED BY <4>3, <4>4
    <3>4. CASE PlanExecute(j)
      BY <1>1, <3>4 DEF PlanExecute, TypeOK
    <3> QED BY <1>6, <3>2, <3>3, <3>4
  <2>5. TypeOK'
    BY <1>1, <1>3, <2>2, <2>3, <2>4 DEF TypeOK, PlanGoesOn, RunTypes, Threads, env
  <2>6. ASSUME NEW i \in Jobs \ {j} PROVE ThreadHolds(i)'
    <3>1. ThreadHolds(i)
      BY DEF FleetInv
    <3> QED BY <1>1, <1>2, <1>3, <2>1, <2>2, <2>3, <3>1, ThreadFrame DEF PlanGoesOn
  <2>7. ThreadHolds(j)'
    <3>1. Eligible(j)' = Eligible(j)
      BY <1>3, SamePlan DEF PlanGoesOn
    <3>2. th[j].pc \in {"none", "queued"} /\ th[j].res = None
      BY <2>1 DEF FleetInv, ThreadHolds
    <3> QED BY <1>4, <2>1, <2>2, <3>1, <3>2 DEF ThreadHolds
  <2> QED BY <1>4, <2>5, <2>6, <2>7 DEF FleetInv
<1>7. CASE Planned \/ Finish \/ \E j \in Jobs : PlanNobody(j)
  BY <1>5, <1>7 DEF Planned, Finish, PlanNobody
<1> QED BY <1>6, <1>7

\* What the environment does to the inputs, the hosts and their stores.
LEMMA EnvironmentKeeps ==
  ASSUME FleetInv, Environment
  PROVE  FleetInv'
<1>1. TypeOK /\ used \in [run : Nat, fault : Nat]
  BY DEF FleetInv, TypeOK
<1>2. [used EXCEPT !.fault = @ + 1] \in [run : Nat, fault : Nat]
  BY <1>1
<1>3. CASE Killed
  BY <1>2, <1>3, NoThreads DEF Killed
<1>4. ASSUME NEW j \in Jobs, WriteFails(j) PROVE FleetInv'
  <2>1. /\ UNCHANGED <<src, version, store, out, cache, run, rows, count>>
        /\ used' = [used EXCEPT !.fault = @ + 1] /\ Goto(j, "broken")
        /\ th[j].pc \in {"record", "cache"}
    BY <1>4 DEF WriteFails
  <2>2. /\ th' \in [Jobs -> Threads] /\ th'[j].pc = "broken"
        /\ \A i \in Jobs \ {j} : th'[i] = th[i]
    BY <1>1, <2>1, GotoIs DEF ThreadPcs
  <2>3. run.pc = "run" /\ Probed /\ Eligible(j) # {}
    BY <2>1, ThreadState
  <2>4. Probed' = Probed /\ Eligible(j)' = Eligible(j)
    BY <2>1, SamePlan
  <2>5. ThreadHolds(j)'
    BY <2>1, <2>2, <2>3, <2>4 DEF ThreadHolds
  <2>6. TypeOK'
    BY <1>1, <1>2, <2>1, <2>2 DEF TypeOK, Threads
  <2> QED BY <2>1, <2>2, <2>5, <2>6, OthersFrame DEF FleetInv
<1>5. CASE ~Killed /\ ~\E j \in Jobs : WriteFails(j)
  <2>1. /\ UNCHANGED <<out, cache, run, th, rows, count>>
        /\ used' = [used EXCEPT !.fault = @ + 1]
    BY <1>5 DEF Environment, Edit, Upgrade, Damage
  <2>2. /\ src' \in [Inputs -> Contents] /\ version' \in [Hosts -> Versions]
        /\ store' \in [Hosts -> [Contents -> Contents \cup {None}]]
    <3>1. CASE \E i \in Inputs, c \in Contents : Edit(i, c)
      BY <1>1, <3>1 DEF Edit, TypeOK
    <3>2. CASE \E h \in Hosts, v \in Versions : Upgrade(h, v)
      BY <1>1, <3>2 DEF Upgrade, TypeOK
    <3>3. CASE \E h \in Hosts, c \in Contents, x \in Contents \cup {None} : Damage(h, c, x)
      BY <1>1, <3>3 DEF Damage, TypeOK
    <3> QED BY <1>5, <3>1, <3>2, <3>3 DEF Environment
  <2>3. store' = store \/ ~Running
    BY <1>5 DEF Environment, Edit, Upgrade, Damage
  <2>4. TypeOK'
    BY <1>1, <1>2, <2>1, <2>2 DEF TypeOK
  <2>5. ProbeHolds'
    BY <2>1, SamePlan DEF FleetInv, ProbeHolds
  <2>6. ASSUME NEW j \in Jobs PROVE ThreadHolds(j)'
    <3>1. ThreadHolds(j) /\ ProbeHolds
      BY DEF FleetInv
    <3>2. /\ Probed' = Probed /\ Eligible(j)' = Eligible(j) /\ HostFor(j)' = HostFor(j)
          /\ RecordOf(j)' = RecordOf(j)
      BY <2>1, SamePlan
    <3>3. Ok(RecordOf(j))' = Ok(RecordOf(j))
      BY <3>2 DEF Ok
    <3> QED BY <2>1, <2>3, <3>1, <3>2, <3>3 DEF ThreadHolds, Running
  <2> QED BY <2>4, <2>5, <2>6 DEF FleetInv
<1> QED BY <1>3, <1>4, <1>5

\* Together: FleetInv is inductive.
LEMMA FleetInvInductive ==
  ASSUME FleetInv, [Next]_vars
  PROVE  FleetInv'
<1>1. CASE UNCHANGED vars
  <2>1. /\ Probed' = Probed
        /\ \A j \in Jobs : Eligible(j)' = Eligible(j) /\ HostFor(j)' = HostFor(j)
                           /\ RecordOf(j)' = RecordOf(j)
    BY <1>1, SamePlan DEF vars
  <2>2. \A j \in Jobs : Ok(RecordOf(j))' = Ok(RecordOf(j))
    BY <2>1 DEF Ok
  <2>3. TypeOK'
    BY <1>1 DEF vars, FleetInv, TypeOK
  <2>4. ProbeHolds'
    BY <1>1, <2>1 DEF vars, FleetInv, ProbeHolds
  <2>5. \A j \in Jobs : ThreadHolds(j)'
    BY <1>1, <2>1, <2>2 DEF vars, FleetInv, ThreadHolds
  <2> QED BY <2>3, <2>4, <2>5 DEF FleetInv
<1>2. ASSUME NEW b \in BOOLEAN, Start(b) PROVE FleetInv'
  <2>1. used' \in [run : Nat, fault : Nat]
    <3>1. used \in [run : Nat, fault : Nat] /\ used' = [used EXCEPT !.run = @ + 1]
      BY <1>2 DEF FleetInv, TypeOK, Start
    <3> QED BY <3>1
  <2> QED BY <1>2, <2>1, NoThreads DEF Start
<1>3. CASE Controller
  BY <1>3, ProbeKeeps, ControllerKeeps DEF Controller
<1>4. ASSUME NEW j \in Jobs, Thread(j) PROVE FleetInv'
  BY <1>4, ThreadMoves, ThreadAttempts, ThreadRecords DEF Thread
<1> QED BY <1>1, <1>2, <1>3, <1>4, EnvironmentKeeps DEF Next

\* A fleet before its first run.
LEMMA FleetInvInit == Init => FleetInv
<1> SUFFICES ASSUME Init PROVE FleetInv
  OBVIOUS
<1>1. /\ run \in [pc : {"idle"}, job : {0}, caps : {[h \in Hosts |-> None]},
                 print : [Inputs -> {None}], noResume : {FALSE}]
      /\ th = [j \in Jobs |-> NoThread]
  BY DEF Init, NoRun
<1>2. TypeOK
  <2>1. version \in [Hosts -> Versions]
    BY FleetAssumption DEF Init
  <2>2. th \in [Jobs -> [pc : ThreadPcs, tried : Attempts, res : Results \cup {None}]]
    BY <1>1, Blank DEF Threads
  <2>3. /\ rows \in [Jobs -> [status : {"none", "executed", "resumed", "cache-hit"}, ok : BOOLEAN]]
        /\ count \in [executed : Nat, resumed : Nat, cache_hits : Nat, failed : Nat]
        /\ used \in [run : Nat, fault : Nat]
    BY DEF Init, NoRow, NoCount
  <2>4. run \in [pc : {"idle", "probe", "plan", "run", "done", "exit2", "exit3"}, job : 0..NJobs,
                caps : [Hosts -> Versions \cup {None}],
                print : [Inputs -> Contents \cup {None}], noResume : BOOLEAN]
    BY <1>1, Blank
  <2>5. /\ store \in [Hosts -> [Contents -> Contents \cup {None}]]
        /\ out \in [Jobs -> Records \cup {None}] /\ cache \subseteq Records
        /\ src \in [Inputs -> Contents]
    BY DEF Init
  <2> QED BY <2>1, <2>2, <2>3, <2>4, <2>5 DEF TypeOK
<1>3. ProbeHolds
  BY <1>1 DEF ProbeHolds, Probed
<1>4. \A j \in Jobs : ThreadHolds(j)
  BY <1>1 DEF ThreadHolds, NoThread
<1> QED BY <1>2, <1>3, <1>4 DEF FleetInv

\* Types, for the record: no step of the controller, its threads or the environment
\* leaves them, with live upgrades too.
THEOREM FleetTypes == Spec => []TypeOK
<1>1. FleetInv => TypeOK
  BY DEF FleetInv
<1>2. FleetInv /\ [Next]_vars => FleetInv'
  BY FleetInvInductive
<1> QED BY <1>1, <1>2, FleetInvInit, PTL DEF Spec

-----------------------------------------------------------------------------
(* Honest results *)

\* Where the hosts agree on "auto", an answer is what the key yields.
LEMMA AnswerIs ==
  ASSUME OneAuto, NEW j \in Jobs, HostFor(j) \in Hosts, Key(j) \in Triples,
         EngineVersion = version[HostFor(j)]
  PROVE  Answer(j) = Yields[Key(j)]
<1> DEFINE k == Key(j)  h == HostFor(j)  d == Doc[j]
<1>1. k[1] = d /\ k[2] = run.print[Input[j]] /\ k[3] = version[h]
  BY DEF Key
<1>2. d \in Docs /\ h \in Hosts
  BY Manifest
<1>3. makeBackend(d, h) = IF Asks[d] # "auto" THEN Asks[d]
                          ELSE IF Unicorn = Hosts THEN "unicorn" ELSE "builtin"
  BY <1>2 DEF OneAuto, makeBackend
<1>4. Yields[k] = <<k[1], k[2], k[3],
                    IF Asks[k[1]] # "auto" THEN Asks[k[1]]
                    ELSE IF Unicorn = Hosts THEN "unicorn" ELSE "builtin">>
  BY DEF Yields
<1> HIDE DEF k
<1>5. Answer(j) = Yields[k]
  BY <1>1, <1>3, <1>4 DEF Answer
<1> QED BY <1>5 DEF k

\* What a thread will write is honest.
LEMMA HonestThread ==
  ASSUME FleetInv, HonestInv, NEW j \in Jobs, th[j].pc \in {"record", "cache", "count"}
  PROVE  RecordOf(j) \in HonestRecords /\ RecordOf(j).key = Key(j) /\ Key(j) \in Triples
<1>1. Key(j) \in Triples /\ RecordOf(j) \in Records
  BY ThreadState
<1>2. th[j].res \in {Yields[Key(j)], None}
  BY DEF HonestInv
<1> QED BY <1>1, <1>2 DEF RecordOf, HonestRecords

\* Every step keeps HonestInv, if no host is upgraded during a run and the hosts
\* agree on "auto".
LEMMA HonestInvInductive ==
  ASSUME ~LiveUpgrade, OneAuto, FleetInv, HonestInv, [Next]_vars
  PROVE  HonestInv'
<1>1. TypeOK
  BY DEF FleetInv
<1>2. ASSUME run'.caps = run.caps, run'.print = run.print, UNCHANGED <<version, cache>>,
             run'.pc \in {"plan", "run"} => run.pc \in {"plan", "run"},
             \A j \in Jobs : th'[j].res \in {th[j].res, None, Yields[Key(j)]},
             \A j \in Jobs : out'[j] \in HonestRecords \cup {None}
      PROVE  HonestInv'
  <2>1. \A j \in Jobs : Key(j)' = Key(j)
    BY <1>2, SamePlan
  <2> QED BY <1>2, <2>1 DEF HonestInv
<1>3. ASSUME th' = [j \in Jobs |-> NoThread], run'.pc \in {"idle", "probe"}, UNCHANGED <<out, cache>>
      PROVE  HonestInv'
  BY <1>3 DEF HonestInv, NoThread
<1>4. \A j \in Jobs : out[j] \in HonestRecords \cup {None}
  BY DEF HonestInv
<1>5. CASE UNCHANGED vars
  BY <1>2, <1>4, <1>5 DEF vars
<1>6. ASSUME NEW b \in BOOLEAN, Start(b) PROVE HonestInv'
  BY <1>3, <1>6 DEF Start, NoRun
<1>7. ASSUME NEW a \in SUBSET Hosts, Probe(a) PROVE HonestInv'
  <2>1. /\ UNCHANGED <<version, out, cache, th>>
        /\ run'.caps = [h \in Hosts |-> IF h \in a THEN version[h] ELSE None]
    BY <1>1, <1>7 DEF Probe, TypeOK, env
  <2>2. \A j \in Jobs : th[j].res = None
    BY <1>7 DEF FleetInv, Probe, ProbeHolds, ThreadHolds
  <2> QED BY <2>1, <2>2 DEF HonestInv
<1>8. CASE \/ Planned \/ Finish
           \/ \E j \in Jobs : PlanNobody(j) \/ PlanResume(j) \/ PlanCached(j) \/ PlanExecute(j)
  <2>1. PlanGoesOn
    BY <1>1, <1>8, ControllerRun
  <2>2. \A j \in Jobs : out'[j] \in HonestRecords \cup {None}
    <3>1. CASE out' = out
      BY <1>4, <3>1
    <3>2. CASE \E j \in Jobs : PlanCached(j)
      <4>1. out \in [Jobs -> Records \cup {None}]
        BY <1>1 DEF TypeOK
      <4>2. PICK j \in Jobs, r \in HonestRecords : out' = [out EXCEPT ![j] = r]
        BY <3>2 DEF PlanCached, CacheHits, HonestInv
      <4> QED BY <1>4, <4>1, <4>2
    <3> QED BY <1>8, <3>1, <3>2 DEF Planned, Finish, PlanNobody, PlanResume, PlanExecute
  <2>3. \A j \in Jobs : th'[j].res = th[j].res
    <3>1. CASE th' = th
      BY <3>1
    <3>2. CASE \E j \in Jobs : PlanExecute(j)
      BY <1>1, <3>2 DEF PlanExecute, TypeOK
    <3> QED BY <1>8, <3>1, <3>2 DEF Planned, Finish, PlanNobody, PlanResume, PlanCached
  <2> QED BY <1>2, <2>1, <2>2, <2>3 DEF PlanGoesOn, env
<1>9. ASSUME NEW j \in Jobs, Take(j) \/ Acquire(j) \/ Stage(j) PROVE HonestInv'
  <2>1. UNCHANGED <<version, run, out, cache>> /\ \E l \in ThreadPcs : Goto(j, l)
    BY <1>9 DEF Take, Acquire, Stage, ThreadPcs, env
  <2>2. \A i \in Jobs : th'[i].res = th[i].res
    BY <1>1, <2>1, GotoIs
  <2> QED BY <1>2, <1>4, <2>1, <2>2
<1>10. ASSUME NEW j \in Jobs, StageFails(j) \/ WorkerAnswers(j) \/ WorkerLost(j) PROVE HonestInv'
  <2>1. /\ UNCHANGED <<env, store, out, cache, run, rows, count>> /\ th[j].pc \in {"stage", "run"}
        /\ th'[j].res # None => th'[j].res = Answer(j)
        /\ \A i \in Jobs \ {j} : th'[i] = th[i]
    BY <1>10, ThreadAttempts
  <2>2. /\ run.pc = "run" /\ HostFor(j) \in Hosts /\ run.caps[HostFor(j)] = EngineVersion
        /\ EngineVersion \in Versions /\ Key(j) \in Triples
    BY <2>1, ThreadState
  <2>3. EngineVersion = version[HostFor(j)]
    BY <2>2, Manifest DEF HonestInv
  <2>4. th'[j].res \in {None, Yields[Key(j)]}
    BY <2>1, <2>2, <2>3, AnswerIs
  <2> QED BY <1>2, <1>4, <2>1, <2>4 DEF env
<1>11. ASSUME NEW j \in Jobs, Record(j) \/ Cache(j) \/ Count(j) PROVE HonestInv'
  <2>1. /\ UNCHANGED <<version, run>> /\ \E l \in ThreadPcs : Goto(j, l)
        /\ th[j].pc \in {"record", "cache", "count"}
    BY <1>11 DEF Record, Cache, Count, ThreadPcs, env
  <2>2. \A i \in Jobs : th'[i].res = th[i].res
    BY <1>1, <2>1, GotoIs
  <2>3. RecordOf(j) \in HonestRecords
    BY <2>1, HonestThread
  <2>4. \A i \in Jobs : out'[i] \in HonestRecords \cup {None}
    <3>1. CASE Record(j)
      BY <1>1, <1>4, <2>3, <3>1 DEF Record, TypeOK
    <3>2. CASE ~Record(j)
      BY <1>4, <1>11, <3>2 DEF Cache, Count
    <3> QED BY <3>1, <3>2
  <2>5. cache' \subseteq {r \in HonestRecords : Ok(r)}
    <3>1. CASE Cache(j)
      <4>1. Ok(RecordOf(j))
        BY <3>1 DEF Cache, FleetInv, ThreadHolds
      <4> QED BY <2>3, <3>1, <4>1 DEF Cache, HonestInv
    <3>2. CASE ~Cache(j)
      BY <1>11, <3>2 DEF Record, Count, HonestInv
    <3> QED BY <3>1, <3>2
  <2>6. \A i \in Jobs : Key(i)' = Key(i)
    BY <2>1, SamePlan
  <2> QED BY <2>1, <2>2, <2>4, <2>5, <2>6 DEF HonestInv
<1>12. CASE Environment
  <2>1. CASE Killed
    BY <1>3, <2>1 DEF Killed, NoRun
  <2>2. ASSUME NEW j \in Jobs, WriteFails(j) PROVE HonestInv'
    <3>1. UNCHANGED <<version, run, out, cache>> /\ Goto(j, "broken")
      BY <2>2 DEF WriteFails
    <3>2. \A i \in Jobs : th'[i].res = th[i].res
      BY <1>1, <3>1, GotoIs DEF ThreadPcs
    <3> QED BY <1>2, <1>4, <3>1, <3>2
  <2>3. CASE ~Killed /\ ~\E j \in Jobs : WriteFails(j)
    <3>1. UNCHANGED <<out, cache, run, th>> /\ (version' = version \/ ~Running)
      BY <1>12, <2>3 DEF Environment, Edit, Upgrade, Damage
    <3>2. \A j \in Jobs : Key(j)' = Key(j)
      BY <3>1, SamePlan
    <3> QED BY <3>1, <3>2 DEF HonestInv, Running
  <2> QED BY <2>1, <2>2, <2>3
<1>13. CASE \E j \in Jobs : Thread(j)
  BY <1>9, <1>10, <1>11, <1>13 DEF Thread
<1>14. CASE Controller
  BY <1>7, <1>8, <1>14 DEF Controller
<1> QED BY <1>5, <1>6, <1>12, <1>13, <1>14 DEF Next

\* Nothing has been recorded before the first run.
LEMMA HonestInvInit == Init => HonestInv
  BY DEF Init, HonestInv, NoRun, NoThread

-----------------------------------------------------------------------------
(* The steps of the fleet as steps of ResultCache *)

\* An honest record put into the result directory is a filed result.
LEMMA FleetFiles ==
  ASSUME NEW j \in Jobs, NEW r \in HonestRecords, out' = [out EXCEPT ![j] = r], cache' = cache
  PROVE  Promise!Next
<1>1. r = [key |-> r.key, res |-> r.res] /\ r.key \in Triples /\ r.res \in {Yields[r.key], None}
  BY DEF HonestRecords, Records
<1>2. out' = [out EXCEPT ![j] = [key |-> r.key, res |-> r.res]]
  BY <1>1
<1>3. Promise!File(j, r.key)
  BY <1>1, <1>2 DEF Promise!File
<1> QED
  BY <1>1, <1>3 DEF Promise!Next

\* The cache entry of a success publishes what is filed.
LEMMA FleetPublishes ==
  ASSUME FleetInv, HonestInv, NEW j \in Jobs, Cache(j)
  PROVE  Promise!Next
<1> DEFINE k == Key(j)
           e == [key |-> k, res |-> Yields[k]]
<1>1. /\ th[j].pc = "cache" /\ out[j] = RecordOf(j) /\ Ok(RecordOf(j))
  BY DEF Cache, FleetInv, ThreadHolds
<1>2. k \in Triples
  BY <1>1, HonestThread
<1>3. th[j].res = Yields[k] /\ Yields[k] \in Succeeds
  <2>1. th[j].res \in Succeeds
    BY <1>1 DEF Ok, RecordOf
  <2>2. th[j].res # None
    BY <2>1, Manifest
  <2> QED BY <2>1, <2>2 DEF HonestInv
<1>4. RecordOf(j) = e
  BY <1>3 DEF RecordOf
<1>5. \A r \in cache : r.key = k => r = e
  <2>1. ASSUME NEW r \in cache, r.key = k PROVE r = e
    <3>1. r \in Records /\ r.res \in {Yields[r.key], None} /\ r.res \in Succeeds
      BY <2>1 DEF HonestInv, HonestRecords, Ok
    <3>2. r.res = Yields[r.key]
      BY <3>1, Manifest
    <3> QED BY <2>1, <3>1, <3>2 DEF Records
  <2> QED BY <2>1
<1>6. cache' = {r \in cache : r.key # k} \cup {e} /\ out' = out
  BY <1>4 DEF Cache
<1> HIDE DEF k
<1>7. cache' = cache \cup {e}
  <2> HIDE DEF e
  <2> QED BY <1>5, <1>6
<1>8. Promise!Publish(k)
  BY <1>1, <1>3, <1>4, <1>6, <1>7 DEF Promise!Publish
<1> QED
  BY <1>2, <1>8 DEF Promise!Next

\* Every step of the fleet is a step of ResultCache or invisible to it.
LEMMA FleetSimulates ==
  ASSUME FleetInv, HonestInv, [Next]_vars
  PROVE  [Promise!Next]_<<out, cache>>
<1>1. CASE UNCHANGED <<out, cache>>
  BY <1>1
<1>2. ASSUME NEW j \in Jobs, PlanCached(j) PROVE Promise!Next
  <2>1. PICK r \in HonestRecords : out' = [out EXCEPT ![j] = r]
    BY <1>2 DEF PlanCached, CacheHits, HonestInv
  <2> QED BY <1>2, <2>1, FleetFiles DEF PlanCached
<1>3. ASSUME NEW j \in Jobs, Record(j) PROVE Promise!Next
  <2>1. RecordOf(j) \in HonestRecords
    BY <1>3, HonestThread DEF Record
  <2> QED BY <1>3, <2>1, FleetFiles DEF Record
<1>4. CASE Controller
  BY <1>1, <1>2, <1>4 DEF Controller, Probe, PlanNobody, PlanResume, PlanExecute, Planned, Finish
<1>5. ASSUME NEW j \in Jobs, Thread(j) PROVE [Promise!Next]_<<out, cache>>
  BY <1>1, <1>3, <1>5, FleetPublishes
     DEF Thread, Take, Acquire, Stage, StageFails, WorkerAnswers, WorkerLost, Count
<1>6. CASE Environment \/ UNCHANGED vars \/ \E b \in BOOLEAN : Start(b)
  BY <1>1, <1>6 DEF Environment, Edit, Upgrade, Damage, WriteFails, Killed, Start, vars
<1> QED
  BY <1>4, <1>5, <1>6 DEF Next

\* ppc-lab-fleet implements ResultCache for any manifest: whatever is found under a key,
\* in the result directory or the shared cache, was computed from the job, the content
\* and the engine that the key names, by the one backend the job stands for, through
\* edits between hashing and staging, damaged stores, failover, failed writes, kills,
\* restarts and upgrades between runs; the shared cache only gains successes that are
\* filed.  No host may be upgraded during a run, and jobs that leave the backend to the
\* engine need hosts that agree on it: otherwise OneSemantics fails.
THEOREM FleetKeepsPromise ==
  ASSUME ~LiveUpgrade, OneAuto
  PROVE  Spec => ImplementsCache
<1>1. Init => Promise!Init
  BY DEF Init, Promise!Init
<1>2. FleetInv /\ HonestInv /\ [Next]_vars => FleetInv' /\ HonestInv'
  BY FleetInvInductive, HonestInvInductive
<1>3. FleetInv /\ HonestInv /\ [Next]_vars => [Promise!Next]_<<out, cache>>
  BY FleetSimulates
<1> QED
  BY <1>1, <1>2, <1>3, FleetInvInit, HonestInvInit, PTL DEF Spec, ImplementsCache, Promise!Spec

-----------------------------------------------------------------------------
(* Failover *)

\* A thread that did not move, or moved within an attempt or after the last one.
LEMMA RotatesFrame ==
  ASSUME NEW j \in Jobs, TypeOK, Rotates(j), Eligible(j)' = Eligible(j),
         th'[j].tried = th[j].tried, th'[j].res = th[j].res,
         \/ th'[j].pc = th[j].pc
         \/ th[j].pc = "none" /\ th'[j].pc = "queued"
         \/ th[j].pc \in {"queued", "slot", "stage"} /\ th'[j].pc \in {"slot", "stage", "run"}
         \/ /\ th[j].pc \in {"record", "cache", "count"}
            /\ th'[j].pc \in {"cache", "count", "done", "broken"}
  PROVE  Rotates(j)'
<1>1. th[j].tried = <<>> => Len(th[j].tried) <= Retries
  BY Manifest
<1> QED BY <1>1 DEF Rotates

\* Every step keeps the attempts of every thread in their order.
LEMMA RotatesInductive ==
  ASSUME FleetInv, \A j \in Jobs : Rotates(j), [Next]_vars
  PROVE  \A j \in Jobs : Rotates(j)'
<1>1. TypeOK
  BY DEF FleetInv
<1>2. ASSUME \A j \in Jobs : th'[j].tried = <<>> /\ th'[j].pc = "none"
      PROVE  \A j \in Jobs : Rotates(j)'
  BY <1>2 DEF Rotates
<1>3. ASSUME run'.caps = run.caps, run'.print = run.print, th' = th
      PROVE  \A j \in Jobs : Rotates(j)'
  <2>1. \A j \in Jobs : Eligible(j)' = Eligible(j)
    BY <1>3, SamePlan
  <2> QED BY <1>1, <1>3, <2>1, RotatesFrame
<1>4. ASSUME NEW j \in Jobs, NEW l \in ThreadPcs, Goto(j, l),
             run'.caps = run.caps, run'.print = run.print,
             \/ th[j].pc \in {"none", "queued"} /\ l = "queued"
             \/ th[j].pc \in {"queued", "slot", "stage"} /\ l \in {"slot", "stage", "run"}
             \/ th[j].pc \in {"record", "cache", "count"} /\ l \in {"cache", "count", "done", "broken"}
      PROVE  \A i \in Jobs : Rotates(i)'
  <2>1. \A i \in Jobs : Eligible(i)' = Eligible(i)
    BY <1>4, SamePlan
  <2>2. /\ th'[j].pc = l /\ th'[j].tried = th[j].tried /\ th'[j].res = th[j].res
        /\ \A i \in Jobs \ {j} : th'[i] = th[i]
    BY <1>1, <1>4, GotoIs
  <2>3. Rotates(j)'
    BY <1>1, <1>4, <2>1, <2>2, RotatesFrame
  <2>4. ASSUME NEW i \in Jobs \ {j} PROVE Rotates(i)'
    BY <1>1, <2>1, <2>2, RotatesFrame
  <2> QED BY <2>3, <2>4
<1>5. CASE UNCHANGED vars
  BY <1>3, <1>5 DEF vars
<1>6. CASE (\E b \in BOOLEAN : Start(b)) \/ Killed
  <2>1. th' = [j \in Jobs |-> NoThread]
    BY <1>6 DEF Start, Killed
  <2>2. \A j \in Jobs : th'[j].tried = <<>> /\ th'[j].pc = "none"
    BY <2>1 DEF NoThread
  <2> QED BY <1>2, <2>2
<1>7. CASE \E a \in SUBSET Hosts : Probe(a)
  <2>1. th' = th /\ \A j \in Jobs : th[j].pc = "none"
    BY <1>7 DEF FleetInv, Probe, ProbeHolds, ThreadHolds
  <2> QED BY <1>2, <2>1 DEF Rotates
<1>8. CASE \/ Planned \/ Finish
           \/ \E j \in Jobs : PlanNobody(j) \/ PlanResume(j) \/ PlanCached(j) \/ PlanExecute(j)
  <2>1. run'.caps = run.caps /\ run'.print = run.print
    BY <1>1, <1>8, ControllerRun DEF PlanGoesOn
  <2>2. ASSUME NEW j \in Jobs, PlanExecute(j) PROVE \A i \in Jobs : Rotates(i)'
    <3>1. th[j].pc \in {"none", "queued"} /\ Goto(j, "queued")
      BY <2>2 DEF PlanExecute, Planning, FleetInv, ThreadHolds, Goto
    <3> QED BY <1>4, <2>1, <3>1 DEF ThreadPcs
  <2> QED
    BY <1>3, <1>8, <2>1, <2>2 DEF Planned, Finish, PlanNobody, PlanResume, PlanCached
<1>9. ASSUME NEW j \in Jobs, Take(j) \/ Acquire(j) \/ Stage(j) PROVE \A i \in Jobs : Rotates(i)'
  <2>1. run' = run /\ \E l \in {"slot", "stage", "run"} : Goto(j, l)
    BY <1>9 DEF Take, Acquire, Stage
  <2>2. th[j].pc \in {"queued", "slot", "stage"}
    BY <1>9 DEF Take, Acquire, Stage
  <2> QED BY <1>4, <2>1, <2>2 DEF ThreadPcs
<1>10. ASSUME NEW j \in Jobs, Record(j) \/ Cache(j) \/ Count(j) PROVE \A i \in Jobs : Rotates(i)'
  <2>1. run' = run /\ \E l \in {"cache", "count", "done"} : Goto(j, l)
    BY <1>10 DEF Record, Cache, Count
  <2>2. th[j].pc \in {"record", "cache", "count"}
    BY <1>10 DEF Record, Cache, Count
  <2> QED BY <1>4, <2>1, <2>2 DEF ThreadPcs
<1>11. ASSUME NEW j \in Jobs, StageFails(j) \/ WorkerAnswers(j) \/ WorkerLost(j)
       PROVE  \A i \in Jobs : Rotates(i)'
  <2>1. /\ run' = run /\ th[j].pc \in {"stage", "run"}
        /\ th'[j].tried = Append(th[j].tried, Attempt(j, th'[j].res))
        /\ th'[j].pc = IF th'[j].res = None /\ Len(th[j].tried) < Retries THEN "slot" ELSE "record"
        /\ \A i \in Jobs \ {j} : th'[i] = th[i]
    BY <1>11, ThreadAttempts
  <2>2. \A i \in Jobs : Eligible(i)' = Eligible(i)
    BY <2>1, SamePlan
  <2>3. ASSUME NEW i \in Jobs \ {j} PROVE Rotates(i)'
    BY <1>1, <2>1, <2>2, RotatesFrame
  <2>4. Rotates(j)'
    <3> DEFINE tried == th[j].tried
               el == Eligible(j)
               n == Len(tried)
    <3>1. /\ tried \in Attempts /\ n \in Nat /\ n <= Retries /\ j \in Nat
          /\ \A k \in 1..n : ~tried[k].answered
      <4>1. tried \in Attempts /\ j \in Nat
        BY <1>1, Manifest DEF TypeOK
      <4>2. n <= Retries /\ \A k \in 1..n : ~tried[k].answered
        BY <2>1 DEF Rotates
      <4>3. n \in Nat
        BY <4>1 DEF Attempts
      <4> QED BY <4>1, <4>2, <4>3
    <3>2. HostFor(j) = HostList[Nth(el, (j + n) % Cardinality(el))] /\ HostFor(j) \in Hosts
      BY <2>1, ThreadState DEF HostFor
    <3>3. /\ Len(th'[j].tried) = n + 1
          /\ th'[j].tried[n + 1] = [host |-> HostFor(j), answered |-> th'[j].res # None]
          /\ \A k \in 1..n : th'[j].tried[k] = tried[k]
      BY <2>1, <3>1 DEF Attempts, Attempt
    <3>4. ASSUME NEW k \in 1..(n + 1)
          PROVE  /\ th'[j].tried[k].host = HostList[Nth(el, (j + k - 1) % Cardinality(el))]
                 /\ th'[j].tried[k].answered => k = n + 1 /\ th'[j].res # None
      <4>1. CASE k = n + 1
        <5>1. j + k - 1 = j + n
          BY <3>1, <4>1
        <5>2. th'[j].tried[k].host = HostFor(j) /\ th'[j].tried[k].answered = (th'[j].res # None)
          <6>1. th'[j].tried[k] = [host |-> HostFor(j), answered |-> th'[j].res # None]
            BY <3>3, <4>1
          <6>2. PICK b \in BOOLEAN : b = (th'[j].res # None)
            OBVIOUS
          <6>3. th'[j].tried[k] = [host |-> HostFor(j), answered |-> b]
            BY <6>1, <6>2, Zenon
          <6>4. th'[j].tried[k].host = HostFor(j) /\ th'[j].tried[k].answered = b
            BY <6>3
          <6> QED BY <6>2, <6>4
        <5> QED BY <3>2, <4>1, <5>1, <5>2
      <4>2. CASE k # n + 1
        <5>1. k \in 1..n
          BY <3>1, <4>2
        <5> QED BY <3>1, <3>3, <5>1 DEF Rotates
      <4> QED BY <4>1, <4>2
    <3>5. /\ th'[j].pc = "slot" => n + 1 <= Retries
          /\ th'[j].pc = "record" /\ th'[j].res = None => n + 1 = 1 + Retries
          /\ th'[j].pc \in {"slot", "record"} /\ (th'[j].res # None => th'[j].pc = "record")
      BY <2>1, <3>1, Manifest
    <3> HIDE DEF tried, el, n
    <3>6. Eligible(j)' = el
      BY <2>2 DEF el
    <3> QED BY <3>3, <3>4, <3>5, <3>6 DEF Rotates
  <2> QED BY <2>3, <2>4
<1>12. CASE Environment
  <2>1. Killed \/ UNCHANGED <<run, th>> \/ \E j \in Jobs : WriteFails(j)
    BY <1>12 DEF Environment, Edit, Upgrade, Damage
  <2>2. ASSUME NEW j \in Jobs, WriteFails(j) PROVE \A i \in Jobs : Rotates(i)'
    BY <1>4, <2>2 DEF WriteFails, ThreadPcs
  <2> QED BY <1>3, <1>6, <2>1, <2>2
<1>13. CASE \E j \in Jobs : Thread(j)
  BY <1>9, <1>10, <1>11, <1>13 DEF Thread
<1>14. CASE Controller
  BY <1>7, <1>8, <1>14 DEF Controller
<1> QED BY <1>5, <1>6, <1>12, <1>13, <1>14 DEF Next

\* As many attempts as there are eligible hosts have been to all of them.
LEMMA AttemptsCover ==
  ASSUME NEW j \in Jobs, TypeOK, Rotates(j), Eligible(j) # {},
         Cardinality(Eligible(j)) <= Len(th[j].tried)
  PROVE  {th[j].tried[k].host : k \in 1..Len(th[j].tried)} = {HostList[k] : k \in Eligible(j)}
<1> DEFINE tried == th[j].tried
           el == Eligible(j)
           c == Cardinality(el)
<1>1. Len(tried) \in Nat /\ j \in Nat
  BY Manifest DEF TypeOK, Attempts
<1>2. el \in SUBSET (1..Len(HostList)) /\ c \in Nat \ {0} /\ Len(HostList) \in Nat
  BY EligibleIs, Manifest
<1>3. \A k \in 1..Len(tried) : tried[k].host = HostList[Nth(el, (j + k - 1) % c)]
  BY DEF Rotates
<1>4. c <= Len(tried)
  OBVIOUS
<1> HIDE DEF tried, el, c
<1>5. ASSUME NEW k \in 1..Len(tried) PROVE tried[k].host \in {HostList[m] : m \in el}
  <2>1. (j + k - 1) % c \in Nat /\ (j + k - 1) % c < c
    BY <1>1, <1>2
  <2>2. Nth(el, (j + k - 1) % c) \in el
    BY <1>2, <2>1, NthIs DEF c
  <2> QED BY <1>3, <2>2
<1>6. ASSUME NEW m \in el PROVE \E k \in 1..Len(tried) : tried[k].host = HostList[m]
  <2>1. PICK r \in Nat : r < c /\ Nth(el, r) = m
    BY <1>2, NthOnto DEF c
  <2>2. PICK x \in Nat : x < c /\ (j + x) % c = r
    BY <1>1, <1>2, <2>1, ModCover
  <2>3. x + 1 \in 1..Len(tried) /\ j + (x + 1) - 1 = j + x
    BY <1>1, <1>2, <1>4, <2>2
  <2>4. tried[x + 1].host = HostList[Nth(el, (j + (x + 1) - 1) % c)]
    BY <1>3, <2>3
  <2>5. tried[x + 1].host = HostList[m]
    BY <2>1, <2>2, <2>3, <2>4
  <2> QED BY <2>3, <2>5
<1>7. {tried[k].host : k \in 1..Len(tried)} = {HostList[m] : m \in el}
  BY <1>5, <1>6
<1> QED BY <1>7 DEF tried, el

\* A job is given up only after 1 + Retries attempts, and these have reached every
\* eligible host when there are at most that many; an answer is never retried: for every
\* manifest, every number of retries and every interleaving of the threads.
THEOREM FailoverReachesAll == Spec => []FailoverCovers
<1> DEFINE Inv == FleetInv /\ \A j \in Jobs : Rotates(j)
<1>1. Init => Inv
  <2>1. Init => \A j \in Jobs : Rotates(j)
    BY DEF Init, NoThread, Rotates
  <2> QED BY <2>1, FleetInvInit
<1>2. Inv /\ [Next]_vars => Inv'
  BY FleetInvInductive, RotatesInductive
<1>3. Inv => FailoverCovers
  <2> SUFFICES ASSUME Inv PROVE FailoverCovers
    OBVIOUS
  <2>1. ASSUME NEW j \in Jobs,
               th[j].pc \in {"record", "cache", "count", "done", "broken"}, th[j].res = None
        PROVE  /\ Len(th[j].tried) = 1 + Retries
               /\ Cardinality(Eligible(j)) <= 1 + Retries
                    => {th[j].tried[k].host : k \in 1..Len(th[j].tried)}
                         = {HostList[k] : k \in Eligible(j)}
    <3>1. Len(th[j].tried) = 1 + Retries
      BY <2>1 DEF Rotates
    <3>2. TypeOK /\ Eligible(j) # {} /\ Rotates(j)
      BY <2>1 DEF FleetInv, ThreadHolds
    <3> QED BY <3>1, <3>2, AttemptsCover
  <2>2. \A j \in Jobs : \A k \in 1..Len(th[j].tried) : th[j].tried[k].answered =>
          k = Len(th[j].tried) /\ th[j].res # None /\ th[j].pc \notin {"slot", "stage", "run"}
    BY DEF Rotates
  <2> QED BY <2>1, <2>2 DEF FailoverCovers
<1> QED BY <1>1, <1>2, <1>3, PTL DEF Spec

-----------------------------------------------------------------------------
(* The summary *)

RowTypes == [status : {"none", "executed", "resumed", "cache-hit"}, ok : BOOLEAN]

\* Sets of jobs are finite.
LEMMA JobsFinite ==
  /\ IsFiniteSet(Jobs) /\ Cardinality(Jobs) = NJobs
  /\ \A S \in SUBSET Jobs : IsFiniteSet(S) /\ Cardinality(S) \in Nat
<1>1. IsFiniteSet(Jobs) /\ Cardinality(Jobs) = NJobs
  <2>1. 0 \in Int /\ NJobs - 1 \in Int /\ NJobs - 1 - 0 + 1 = NJobs /\ ~(0 > NJobs - 1)
    BY Manifest
  <2>2. IsFiniteSet(0..(NJobs - 1)) /\ Cardinality(0..(NJobs - 1)) = NJobs - 1 - 0 + 1
    BY <2>1, FS_Interval
  <2> QED BY <2>1, <2>2 DEF Jobs
<1> QED BY <1>1, FS_Subset, FS_CardinalityType

\* A row that was missing is added and counted.
LEMMA RowCounted ==
  ASSUME TypeOK, CountsHold, NEW j \in Jobs, rows[j].status = "none",
         NEW st \in {"executed", "resumed", "cache-hit"}, NEW ok \in BOOLEAN,
         rows' = [rows EXCEPT ![j] = [status |-> st, ok |-> ok]],
         count'.executed = IF st = "executed" THEN count.executed + 1 ELSE count.executed,
         count'.resumed = IF st = "resumed" THEN count.resumed + 1 ELSE count.resumed,
         count'.cache_hits = IF st = "cache-hit" THEN count.cache_hits + 1 ELSE count.cache_hits,
         count'.failed = IF ok THEN count.failed ELSE count.failed + 1
  PROVE  CountsHold'
<1>1. rows \in [Jobs -> RowTypes]
  BY DEF TypeOK, RowTypes
<1>2. /\ rows'[j].status = st /\ rows'[j].ok = ok
      /\ \A i \in Jobs \ {j} : rows'[i] = rows[i]
  BY <1>1
<1>3. ASSUME NEW s \in {"executed", "resumed", "cache-hit"}
      PROVE  Cardinality(With(s)') = IF s = st THEN Cardinality(With(s)) + 1 ELSE Cardinality(With(s))
  <2>1. With(s) \in SUBSET Jobs /\ j \notin With(s)
    BY DEF With
  <2>2. With(s)' = IF s = st THEN With(s) \cup {j} ELSE With(s)
    BY <1>2 DEF With
  <2>3. IsFiniteSet(With(s))
    BY <2>1, JobsFinite
  <2>4. Cardinality(With(s) \cup {j}) = Cardinality(With(s)) + 1
    BY <2>1, <2>3, FS_AddElement
  <2> QED BY <2>2, <2>4
<1>4. Cardinality(Failed') = IF ok THEN Cardinality(Failed) ELSE Cardinality(Failed) + 1
  <2>1. Failed \in SUBSET Jobs /\ j \notin Failed
    BY DEF Failed
  <2>2. Failed' = IF ok THEN Failed ELSE Failed \cup {j}
    <3>1. CASE ok
      BY <1>2, <3>1 DEF Failed
    <3>2. CASE ~ok
      BY <1>2, <3>2 DEF Failed
    <3> QED BY <3>1, <3>2
  <2>3. IsFiniteSet(Failed)
    BY <2>1, JobsFinite
  <2> QED BY <2>1, <2>2, <2>3, FS_AddElement
<1>5. /\ Cardinality(With("executed")') = IF "executed" = st THEN Cardinality(With("executed")) + 1
                                           ELSE Cardinality(With("executed"))
      /\ Cardinality(With("resumed")') = IF "resumed" = st THEN Cardinality(With("resumed")) + 1
                                          ELSE Cardinality(With("resumed"))
      /\ Cardinality(With("cache-hit")') = IF "cache-hit" = st THEN Cardinality(With("cache-hit")) + 1
                                            ELSE Cardinality(With("cache-hit"))
  BY <1>3
<1> QED BY <1>4, <1>5 DEF CountsHold

\* No row, no count.
LEMMA NothingCounted ==
  ASSUME rows' = [j \in Jobs |-> NoRow], count' = NoCount
  PROVE  CountsHold'
<1>1. \A s \in {"executed", "resumed", "cache-hit"} : With(s)' = {}
  BY DEF With, NoRow
<1>2. Failed' = {}
  BY DEF Failed, NoRow
<1>3. With("executed")' = {} /\ With("resumed")' = {} /\ With("cache-hit")' = {}
  BY <1>1
<1> QED BY <1>2, <1>3, FS_EmptySet DEF CountsHold, NoCount

\* A job whose row, thread and file stay, in a plan that stays.
LEMMA RowFrame ==
  ASSUME NEW j \in Jobs, RowHolds(j), rows'[j] = rows[j], th'[j].pc = th[j].pc, out'[j] = out[j],
         run'.caps = run.caps, run'.print = run.print, run'.pc = run.pc,
         \/ run'.job = run.job
         \/ j # run.job /\ run'.job = run.job + 1 /\ j \in Nat /\ run.job \in Nat
  PROVE  RowHolds(j)'
<1>1. Probed' = Probed /\ Key(j)' = Key(j)
  BY SamePlan
<1>2. Ok(out[j])' = Ok(out[j])
  BY DEF Ok
<1>3. /\ (run.pc = "plan" /\ j >= run.job)' => run.pc = "plan" /\ j >= run.job
      /\ (run.pc = "plan" /\ j < run.job)' => run.pc = "plan" /\ j < run.job
  OBVIOUS
<1> QED BY <1>1, <1>2, <1>3 DEF RowHolds

\* A thread that is at work on its job: the job has no row.
LEMMA RowFollows ==
  ASSUME NEW j \in Jobs, RowHolds(j), FleetInv, run' = run, rows'[j] = rows[j],
         th[j].pc \notin {"none", "done"}, th'[j].pc \notin {"none", "done"}, run.pc = "run"
  PROVE  RowHolds(j)'
<1>1. Probed' = Probed
  BY SamePlan
<1>2. rows[j].status = "none"
  BY DEF RowHolds
<1> QED BY <1>1, <1>2 DEF RowHolds

\* Planning a job by what is found.
LEMMA PlanRows ==
  ASSUME FleetInv, RowsInv, NEW j \in Jobs, PlanResume(j) \/ PlanCached(j) \/ PlanExecute(j)
  PROVE  RowsInv'
<1>1. TypeOK /\ RowHolds(j) /\ j \in Nat
  BY Manifest DEF FleetInv, RowsInv
<1>2. /\ run.pc = "plan" /\ run.job = j /\ run'.pc = "plan" /\ run'.job = j + 1
      /\ run'.caps = run.caps /\ run'.print = run.print
  BY <1>1, <1>1 DEF PlanResume, PlanCached, PlanExecute, Planning, PlanNext, TypeOK
<1>3. /\ Probed' = Probed /\ Key(j)' = Key(j) /\ Probed
      /\ th[j].pc = "none" /\ rows[j].status = "none"
  BY <1>1, <1>2, SamePlan DEF RowHolds, FleetInv, ProbeHolds
<1>4. /\ rows \in [Jobs -> RowTypes] /\ th \in [Jobs -> Threads] /\ out \in [Jobs -> Records \cup {None}]
      /\ count \in [executed : Nat, resumed : Nat, cache_hits : Nat, failed : Nat]
  BY <1>1 DEF TypeOK, RowTypes, Threads
<1>5. /\ \A i \in Jobs \ {j} : rows'[i] = rows[i] /\ th'[i].pc = th[i].pc /\ out'[i] = out[i]
      /\ RowHolds(j)' /\ CountsHold'
  <2>1. CASE PlanResume(j)
    <3>1. PICK ok \in BOOLEAN : ok <=> out[j].res \in Succeeds
      OBVIOUS
    <3>2. rows' = [rows EXCEPT ![j] = [status |-> "resumed", ok |-> ok]]
      BY <2>1, <3>1 DEF PlanResume, Ok
    <3>3. /\ th' = th /\ out' = out /\ out[j].key = Key(j)
          /\ count' = [count EXCEPT !.resumed = @ + 1,
                                   !.failed = IF out[j].res \in Succeeds THEN @ ELSE @ + 1]
      BY <2>1 DEF PlanResume, Resumable, Ok
    <3>4. /\ count'.executed = count.executed /\ count'.resumed = count.resumed + 1
          /\ count'.cache_hits = count.cache_hits
          /\ count'.failed = IF ok THEN count.failed ELSE count.failed + 1
      BY <1>4, <3>1, <3>3
    <3>5. CountsHold'
      BY <1>1, <1>3, <3>2, <3>4, RowCounted DEF RowsInv
    <3>6. rows'[j].status = "resumed" /\ rows'[j].ok = ok
      BY <1>4, <3>2
    <3>7. rows'[j].ok = (out'[j].res \in Succeeds)
      BY <3>1, <3>3, <3>6
    <3>8. RowHolds(j)'
      BY <1>1, <1>2, <1>3, <3>3, <3>6, <3>7 DEF RowHolds, Ok
    <3> QED BY <1>4, <3>2, <3>3, <3>5, <3>8
  <2>2. CASE PlanCached(j)
    <3>1. PICK r \in CacheHits(j) : out' = [out EXCEPT ![j] = r]
      BY <2>2 DEF PlanCached
    <3>2. r.key = Key(j) /\ Ok(r) /\ r \in Records
      BY <1>1, <3>1 DEF CacheHits, TypeOK
    <3>3. /\ th' = th /\ rows' = [rows EXCEPT ![j] = [status |-> "cache-hit", ok |-> TRUE]]
          /\ count' = [count EXCEPT !.cache_hits = @ + 1]
      BY <2>2 DEF PlanCached
    <3>4. /\ count'.executed = count.executed /\ count'.resumed = count.resumed
          /\ count'.cache_hits = count.cache_hits + 1 /\ count'.failed = count.failed
      BY <1>4, <3>3
    <3>5. CountsHold'
      BY <1>1, <1>3, <3>3, <3>4, RowCounted DEF RowsInv
    <3>6. /\ rows'[j].status = "cache-hit" /\ rows'[j].ok = TRUE /\ out'[j] = r
          /\ \A i \in Jobs \ {j} : out'[i] = out[i] /\ rows'[i] = rows[i]
      BY <1>4, <3>1, <3>2, <3>3
    <3>7. rows'[j].ok = (out'[j].res \in Succeeds)
      BY <3>2, <3>6 DEF Ok
    <3>8. out'[j].key = Key(j)' /\ th'[j].pc = "none" /\ ~(j >= j + 1)
      BY <1>1, <1>3, <3>2, <3>3, <3>6
    <3>9. RowHolds(j)'
      BY <1>2, <1>3, <3>6, <3>7, <3>8 DEF RowHolds, Ok
    <3> QED BY <3>3, <3>5, <3>6, <3>9
  <2>3. CASE PlanExecute(j)
    <3>1. UNCHANGED <<out, rows, count>> /\ Goto(j, "queued")
      BY <2>3 DEF PlanExecute, Goto
    <3>2. th'[j].pc = "queued" /\ \A i \in Jobs \ {j} : th'[i] = th[i]
      BY <1>1, <3>1, GotoIs DEF ThreadPcs
    <3>3. CountsHold'
      BY <3>1 DEF RowsInv, CountsHold, With, Failed
    <3>4. RowHolds(j)'
      BY <1>1, <1>2, <1>3, <3>1, <3>2 DEF RowHolds
    <3> QED BY <3>1, <3>2, <3>3, <3>4
  <2> QED BY <2>1, <2>2, <2>3
<1>6. ASSUME NEW i \in Jobs \ {j} PROVE RowHolds(i)'
  <2>1. RowHolds(i) /\ i \in Nat
    BY Manifest DEF RowsInv
  <2> QED BY <1>1, <1>2, <1>5, <2>1, RowFrame
<1> QED BY <1>2, <1>5, <1>6 DEF RowsInv

\* A thread takes its job through the pool and adds the row at the end.
LEMMA ThreadRows ==
  ASSUME FleetInv, RowsInv, NEW j \in Jobs, Thread(j)
  PROVE  RowsInv'
<1>1. TypeOK /\ RowHolds(j) /\ ThreadHolds(j) /\ CountsHold /\ run' = run
  BY DEF FleetInv, RowsInv, Thread, Take, Acquire, Stage, StageFails, WorkerAnswers, WorkerLost,
         Record, Cache, Count
<1>2. th[j].pc \notin {"none", "done"} /\ run.pc = "run"
  BY <1>1 DEF ThreadHolds, Thread, Take, Acquire, Stage, StageFails, WorkerAnswers, WorkerLost,
              Record, Cache, Count
<1>3. /\ rows \in [Jobs -> RowTypes] /\ out \in [Jobs -> Records \cup {None}]
      /\ count \in [executed : Nat, resumed : Nat, cache_hits : Nat, failed : Nat]
  BY <1>1 DEF TypeOK, RowTypes
<1>4. ASSUME \A i \in Jobs \ {j} : th'[i] = th[i] /\ rows'[i] = rows[i] /\ out'[i] = out[i],
             RowHolds(j)', CountsHold'
      PROVE  RowsInv'
  <2>1. ASSUME NEW i \in Jobs \ {j} PROVE RowHolds(i)'
    <3>1. RowHolds(i)
      BY DEF RowsInv
    <3> QED BY <1>1, <1>4, <2>1, <3>1, RowFrame
  <2> QED BY <1>1, <1>4, <2>1 DEF RowsInv
<1>5. ASSUME UNCHANGED <<rows, count>>, th'[j].pc \notin {"none", "done"},
             \A i \in Jobs \ {j} : th'[i] = th[i] /\ out'[i] = out[i]
      PROVE  RowsInv'
  <2>1. RowHolds(j)'
    BY <1>1, <1>2, <1>5, RowFollows
  <2>2. CountsHold'
    BY <1>1, <1>5 DEF CountsHold, With, Failed
  <2> QED BY <1>4, <1>5, <2>1, <2>2
<1>6. CASE Take(j) \/ Acquire(j) \/ Stage(j) \/ Cache(j)
  <2>1. UNCHANGED <<out, rows, count>> /\ \E l \in {"slot", "stage", "run", "count"} : Goto(j, l)
    BY <1>6 DEF Take, Acquire, Stage, Cache
  <2>2. th'[j].pc \notin {"none", "done"} /\ \A i \in Jobs \ {j} : th'[i] = th[i]
    BY <1>1, <2>1, GotoIs DEF ThreadPcs
  <2> QED BY <1>5, <2>1, <2>2
<1>7. CASE StageFails(j) \/ WorkerAnswers(j) \/ WorkerLost(j)
  <2>1. /\ UNCHANGED <<out, rows, count>> /\ th'[j].pc \in {"slot", "record"}
        /\ \A i \in Jobs \ {j} : th'[i] = th[i]
    BY <1>7, ThreadAttempts
  <2> QED BY <1>5, <2>1
<1>8. CASE Record(j)
  <2>1. /\ UNCHANGED <<rows, count>> /\ out' = [out EXCEPT ![j] = RecordOf(j)]
        /\ \E l \in {"cache", "count"} : Goto(j, l)
    BY <1>8 DEF Record
  <2>2. th'[j].pc \notin {"none", "done"} /\ \A i \in Jobs \ {j} : th'[i] = th[i]
    BY <1>1, <2>1, GotoIs DEF ThreadPcs
  <2> QED BY <1>3, <1>5, <2>1, <2>2
<1>9. CASE Count(j)
  <2>1. PICK ok \in BOOLEAN : ok <=> th[j].res \in Succeeds
    OBVIOUS
  <2>2. rows' = [rows EXCEPT ![j] = [status |-> "executed", ok |-> ok]]
    BY <1>9, <2>1 DEF Count, Ok, RecordOf
  <2>3. /\ th[j].pc = "count" /\ Goto(j, "done") /\ out' = out
        /\ count' = [count EXCEPT !.executed = @ + 1,
                                 !.failed = IF th[j].res \in Succeeds THEN @ ELSE @ + 1]
    BY <1>9 DEF Count, Ok, RecordOf
  <2>4. out[j] = RecordOf(j) /\ rows[j].status = "none"
    BY <1>1, <1>2, <2>3 DEF ThreadHolds, RowHolds
  <2>5. /\ count'.executed = count.executed + 1 /\ count'.resumed = count.resumed
        /\ count'.cache_hits = count.cache_hits
        /\ count'.failed = IF ok THEN count.failed ELSE count.failed + 1
    BY <1>3, <2>1, <2>3
  <2>6. CountsHold'
    BY <1>1, <2>2, <2>4, <2>5, RowCounted
  <2>7. th'[j].pc = "done" /\ \A i \in Jobs \ {j} : th'[i] = th[i]
    BY <1>1, <2>3, GotoIs DEF ThreadPcs
  <2>8. /\ rows'[j].status = "executed" /\ rows'[j].ok = ok
        /\ \A i \in Jobs \ {j} : rows'[i] = rows[i]
    BY <1>3, <2>2
  <2>9. out'[j].key = Key(j)' /\ rows'[j].ok = (out'[j].res \in Succeeds) /\ Probed' /\ run' = run
    <3>1. Key(j)' = Key(j) /\ Probed' = Probed
      BY <1>1, SamePlan
    <3>2. out'[j].key = Key(j) /\ out'[j].res = th[j].res
      BY <2>3, <2>4 DEF RecordOf
    <3>3. Probed
      BY <1>1, <1>2 DEF ThreadHolds
    <3>4. rows'[j].ok = (out'[j].res \in Succeeds)
      BY <2>1, <2>8, <3>2
    <3> QED BY <1>1, <3>1, <3>2, <3>3, <3>4
  <2>10. RowHolds(j)'
    BY <1>2, <2>7, <2>8, <2>9 DEF RowHolds, Ok
  <2> QED BY <1>4, <2>3, <2>6, <2>7, <2>8, <2>10
<1> QED BY <1>6, <1>7, <1>8, <1>9 DEF Thread

\* RowsInv is inductive.
LEMMA RowsInvInductive ==
  ASSUME FleetInv, RowsInv, [Next]_vars
  PROVE  RowsInv'
<1>1. TypeOK
  BY DEF FleetInv
<1>2. ASSUME rows' = [j \in Jobs |-> NoRow], count' = NoCount, run'.pc \in {"idle", "probe"}, run'.job = 0
      PROVE  RowsInv'
  <2>1. CountsHold'
    BY <1>2, NothingCounted
  <2>2. \A j \in Jobs : RowHolds(j)'
    BY <1>2 DEF RowHolds, NoRow
  <2> QED BY <1>2, <2>1, <2>2 DEF RowsInv
<1>3. ASSUME UNCHANGED <<rows, count>> PROVE CountsHold'
  BY <1>3 DEF RowsInv, CountsHold, With, Failed
<1>4. ASSUME UNCHANGED <<run, th, out, rows, count>> PROVE RowsInv'
  <2>1. \A j \in Jobs : RowHolds(j)'
    BY <1>4, RowFrame DEF RowsInv
  <2> QED BY <1>3, <1>4, <2>1 DEF RowsInv
<1>5. CASE UNCHANGED vars
  BY <1>4, <1>5 DEF vars
<1>6. ASSUME NEW b \in BOOLEAN, Start(b) PROVE RowsInv'
  BY <1>2, <1>6 DEF Start, NoRun
<1>7. ASSUME NEW a \in SUBSET Hosts, Probe(a) PROVE RowsInv'
  <2>1. /\ UNCHANGED <<out, th, rows, count>> /\ run.pc = "probe" /\ run'.pc \in {"exit2", "plan"}
        /\ run'.job = run.job
    BY <1>1, <1>7 DEF Probe, TypeOK
  <2>2. run.job = 0 /\ \A j \in Jobs : rows[j].status = "none" /\ th[j].pc = "none" /\ j \in Nat
    BY <2>1, Manifest DEF FleetInv, ProbeHolds, ThreadHolds, RowsInv, RowHolds
  <2>3. \A j \in Jobs : RowHolds(j)'
    BY <2>1, <2>2 DEF RowHolds
  <2> QED BY <1>3, <2>1, <2>3 DEF RowsInv
<1>8. CASE Planned \/ Finish \/ \E j \in Jobs : PlanNobody(j)
  <2>1. /\ UNCHANGED <<out, th, rows, count>>
        /\ run'.caps = run.caps /\ run'.print = run.print
        /\ \/ run.pc = "plan" /\ run.job = NJobs /\ run'.pc = "run"
           \/ run.pc = "run" /\ run'.pc = "done"
           \/ run'.pc \in {"exit2", "exit3"}
    BY <1>1, <1>8 DEF Planned, Finish, PlanNobody, TypeOK
  <2>2. ASSUME NEW j \in Jobs PROVE RowHolds(j)'
    <3>1. RowHolds(j) /\ j \in Nat /\ j < NJobs
      BY Manifest DEF RowsInv, Jobs
    <3>2. Probed' = Probed /\ Key(j)' = Key(j) /\ Ok(out[j])' = Ok(out[j])
      BY <2>1, SamePlan DEF Ok
    <3> QED BY <2>1, <3>1, <3>2 DEF RowHolds
  <2> QED BY <1>3, <2>1, <2>2 DEF RowsInv
<1>9. CASE Environment
  <2>1. CASE Killed
    BY <1>2, <2>1 DEF Killed, NoRun
  <2>2. ASSUME NEW j \in Jobs, WriteFails(j) PROVE RowsInv'
    <3>1. /\ UNCHANGED <<run, out, rows, count>> /\ th[j].pc \in {"record", "cache"}
          /\ Goto(j, "broken")
      BY <2>2 DEF WriteFails
    <3>2. th'[j].pc = "broken" /\ (\A i \in Jobs \ {j} : th'[i] = th[i]) /\ run.pc = "run"
      BY <1>1, <3>1, GotoIs, ThreadState DEF ThreadPcs
    <3>3. RowHolds(j)'
      BY <3>1, <3>2, RowFollows DEF RowsInv
    <3>4. ASSUME NEW i \in Jobs \ {j} PROVE RowHolds(i)'
      BY <3>1, <3>2, RowFrame DEF RowsInv
    <3> QED BY <1>3, <3>1, <3>3, <3>4 DEF RowsInv
  <2>3. CASE UNCHANGED <<run, th, out, rows, count>>
    BY <1>4, <2>3
  <2> QED BY <1>9, <2>1, <2>2, <2>3 DEF Environment, Edit, Upgrade, Damage
<1>10. CASE Controller
  BY <1>7, <1>8, <1>10, PlanRows DEF Controller
<1> QED BY <1>5, <1>6, <1>9, <1>10, ThreadRows DEF Next

\* A finished run accounts for every job exactly once, counts its failures, and every
\* row tells what the result file holds under the key of this run.  It holds with live
\* upgrades too.
THEOREM SummaryIsRight == Spec => []SummaryAgrees
<1> DEFINE Inv == FleetInv /\ RowsInv
<1>1. Init => Inv
  <2> SUFFICES ASSUME Init PROVE RowsInv
    BY FleetInvInit
  <2>1. rows = [j \in Jobs |-> NoRow] /\ count = NoCount /\ run.pc = "idle"
    BY DEF Init, NoRun
  <2>2. With("executed") = {} /\ With("resumed") = {} /\ With("cache-hit") = {} /\ Failed = {}
    BY <2>1 DEF With, Failed, NoRow
  <2>3. CountsHold
    BY <2>1, <2>2, FS_EmptySet DEF CountsHold, NoCount
  <2>4. \A j \in Jobs : RowHolds(j)
    BY <2>1 DEF RowHolds, NoRow
  <2> QED BY <2>1, <2>3, <2>4 DEF RowsInv
<1>2. Inv /\ [Next]_vars => Inv'
  BY FleetInvInductive, RowsInvInductive
<1>3. Inv => SummaryAgrees
  <2> SUFFICES ASSUME Inv, run.pc = "done"
               PROVE  /\ \A j \in Jobs : /\ rows[j].status # "none"
                                         /\ out[j].key = Key(j) /\ rows[j].ok = Ok(out[j])
                      /\ count.executed + count.resumed + count.cache_hits = NJobs
                      /\ count.failed = Cardinality({j \in Jobs : ~rows[j].ok})
    BY DEF SummaryAgrees
  <2>1. \A j \in Jobs : rows[j].status # "none"
    <3>1. ASSUME NEW j \in Jobs PROVE rows[j].status # "none"
      <4>1. ThreadHolds(j) /\ RowHolds(j)
        BY DEF FleetInv, RowsInv
      <4>2. th[j].pc \in {"none", "done"}
        BY <4>1 DEF ThreadHolds
      <4> QED BY <4>1, <4>2 DEF RowHolds
    <3> QED BY <3>1
  <2>2. \A j \in Jobs : out[j].key = Key(j) /\ rows[j].ok = Ok(out[j])
    BY <2>1 DEF RowsInv, RowHolds
  <2>3. Failed = {j \in Jobs : ~rows[j].ok}
    BY <2>1 DEF Failed
  <2>4. Cardinality(With("executed")) + Cardinality(With("resumed")) + Cardinality(With("cache-hit")) = NJobs
    <3> DEFINE E == With("executed")
               R == With("resumed")
               C == With("cache-hit")
    <3>1. E \in SUBSET Jobs /\ R \in SUBSET Jobs /\ C \in SUBSET Jobs
      BY DEF With
    <3>2. (E \cup R) \cup C = Jobs /\ E \cap R = {} /\ (E \cup R) \cap C = {}
      <4>1. \A j \in Jobs : rows[j].status \in {"none", "executed", "resumed", "cache-hit"}
        BY DEF FleetInv, TypeOK
      <4> QED BY <2>1, <4>1 DEF With
    <3> HIDE DEF E, R, C
    <3>3. /\ IsFiniteSet(E) /\ IsFiniteSet(R) /\ IsFiniteSet(C) /\ IsFiniteSet(E \cup R)
          /\ Cardinality(E) \in Nat /\ Cardinality(R) \in Nat /\ Cardinality(C) \in Nat
          /\ Cardinality(E \cup R) \in Nat
      BY <3>1, JobsFinite
    <3>4. Cardinality(E \cup R) = Cardinality(E) + Cardinality(R) - Cardinality(E \cap R)
      BY <3>3, FS_Union
    <3>5. Cardinality((E \cup R) \cup C)
            = Cardinality(E \cup R) + Cardinality(C) - Cardinality((E \cup R) \cap C)
      BY <3>3, FS_Union
    <3>6. Cardinality(E) + Cardinality(R) + Cardinality(C) = NJobs
      <4>1. Cardinality(E \cap R) = 0 /\ Cardinality((E \cup R) \cap C) = 0
        BY <3>2, FS_EmptySet
      <4>2. Cardinality((E \cup R) \cup C) = NJobs
        BY <3>2, JobsFinite
      <4> QED BY <3>3, <3>4, <3>5, <4>1, <4>2
    <3> QED BY <3>6 DEF E, R, C
  <2> QED BY <2>1, <2>2, <2>3, <2>4 DEF RowsInv, CountsHold
<1> QED BY <1>1, <1>2, <1>3, PTL DEF Spec
=============================================================================

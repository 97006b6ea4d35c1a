---------------------------- MODULE Exploration ----------------------------
(***************************************************************************)
(* ppc-lab-explore: which assignments of values to the axes of a base job  *)
(* are executed, in which order, which of them count as novel, and when    *)
(* the search stops.  This module holds the search itself, as operators on *)
(* its two pieces of memory, the evaluated rows and the frontier of        *)
(* candidates; Campaign runs it, with its files, against crashes.          *)
(*                                                                         *)
(* A response is what ppc-lab-worker returns: whether the guest ended      *)
(* well, its stop reason, the final value of the register of every axis,   *)
(* and its trace of <<pc, instruction>> pairs.                             *)
(***************************************************************************)
EXTENDS Integers, Sequences, FiniteSets, SequencesExt

CONSTANTS
  Axes,       \* a sequence of sequences: the values of every axis
  Base,       \* what base_job already holds on each axis, or NoValue
  NoValue,
  MaxCases,   \* max_cases
  Window,     \* plateau_window
  RateNum, RateDen,  \* plateau_novelty_rate, a fraction
  MinCases    \* min_cases

\* What main accepts of a manifest.
ValidExploration ==
  /\ Axes \in Seq(Seq(UNION {ToSet(Axes[i]) : i \in DOMAIN Axes}))
  /\ Len(Axes) > 0 /\ \A i \in DOMAIN Axes : Len(Axes[i]) > 0
  /\ Base \in Seq(ToSet(Base)) /\ Len(Base) = Len(Axes)
  /\ MaxCases \in Nat \ {0} /\ Window \in Nat \ {0} /\ MinCases \in Nat \ {0}
  /\ RateDen \in Nat \ {0} /\ RateNum \in 0..RateDen

ASSUME ExplorationAssumption == ValidExploration

\* The values an axis may be given, and all that may be assigned.
Values == (UNION {ToSet(Axes[i]) : i \in DOMAIN Axes}) \cup (ToSet(Base) \ {NoValue})
Points == [DOMAIN Axes -> Values]

\* run_worker: the answer of a worker that ended; a timed-out one reports the trace up
\* to then, nothing else.
Answered(resp) ==
  [ok |-> resp.ok, timedout |-> FALSE, stop |-> resp.stop, regs |-> resp.regs,
   trace |-> resp.trace]
TimedOut(resp, n) ==
  [ok |-> FALSE, timedout |-> TRUE, stop |-> "none", regs |-> <<>>,
   trace |-> SubSeq(resp.trace, 1, n)]

TracePcs(resp) == {resp.trace[i][1] : i \in DOMAIN resp.trace}

\* The sentinel <input>: no register value.
InputMark == -1

\* The outcome of an execution as it is.
Outcome(resp) ==
  [ok |-> resp.ok, timedout |-> resp.timedout, stop |-> resp.stop,
   count |-> IF resp.timedout THEN 0 ELSE Len(resp.trace), regs |-> resp.regs]

\* What makes up a behaviour: the outcome, with the registers the guest left
\* as they were set masked.
StableArchitecture(resp, a) ==
  [Outcome(resp) EXCEPT !.regs = [i \in DOMAIN resp.regs |->
                                    IF resp.regs[i] = a[i] THEN InputMark ELSE resp.regs[i]]]

Baseline == [i \in DOMAIN Axes |-> IF Base[i] = NoValue THEN Axes[i][1] ELSE Base[i]]

-----------------------------------------------------------------------------
Indices(rows, P(_)) == {i \in DOMAIN rows : P(rows[i])}

Evaluated(rows) == {rows[i].a : i \in DOMAIN rows}
NovelRows(rows) == Indices(rows, LAMBDA r : r.novel)
SeenPcs(rows) == UNION {TracePcs(rows[i].resp) : i \in NovelRows(rows)}
SeenBehaviors(rows) == {rows[i].behavior : i \in NovelRows(rows)}

\* evaluate: the row of candidate c, whose execution returned resp.
NewRow(rows, c, resp) ==
  LET newpcs == TracePcs(resp) \ SeenPcs(rows)
      behavior == StableArchitecture(resp, c.a)
      bnovel == behavior \notin SeenBehaviors(rows)
  IN [a |-> c.a, parent |-> c.parent, axis |-> c.axis, resp |-> resp,
      newpcs |-> newpcs, behavior |-> behavior, bnovel |-> bnovel,
      novel |-> newpcs # {} \/ bnovel \/ rows = <<>>, promoted |-> FALSE]

-----------------------------------------------------------------------------
\* A candidate: an assignment, the row it was derived from and the axis that
\* was changed (0 for none).
Candidate(a, parent, axis) == [a |-> a, parent |-> parent, axis |-> axis]

\* The members of a set of tuples of numbers, in lexicographic order.
Precedes(u, v) == \E i \in DOMAIN u : u[i] < v[i] /\ \A j \in 1..(i - 1) : u[j] = v[j]
InOrder(S) ==
  [n \in 1..Cardinality(S) |-> CHOOSE v \in S : Cardinality({u \in S : Precedes(u, v)}) = n - 1]

\* The places of the values on the axes: of one, and of one on each axis.
Numbers == UNION {DOMAIN Axes[i] : i \in DOMAIN Axes}
Places == {p \in (DOMAIN Axes) \X Numbers : p[2] \in DOMAIN Axes[p[1]]}
Vectors == {v \in [DOMAIN Axes -> Numbers] : \A i \in DOMAIN Axes : v[i] \in DOMAIN Axes[i]}

\* itertools.product(*values), the last axis varying fastest.
Product ==
  LET picks == InOrder(Vectors)
  IN [n \in DOMAIN picks |-> [i \in DOMAIN Axes |-> Axes[i][picks[n][i]]]]

InitialFrontier(strategy) ==
  IF strategy = "cartesian"
  THEN [i \in DOMAIN Product |-> Candidate(Product[i], 0, 0)]
  ELSE <<Candidate(Baseline, 0, 0)>>

\* The assignment with the value at place p of its axis.
Child(a, p) == [a EXCEPT ![p[1]] = Axes[p[1]][p[2]]]

\* The places that give a new candidate: another value of an axis, at its first place,
\* not evaluated or queued yet.  (What was ever queued is evaluated or still in the
\* frontier.)
Fresh(rows, frontier, a) ==
  {p \in Places :
     /\ Axes[p[1]][p[2]] # a[p[1]]
     /\ \A w \in 1..(p[2] - 1) : Axes[p[1]][w] # Axes[p[1]][p[2]]
     /\ Child(a, p) \notin Evaluated(rows)
     /\ \A k \in DOMAIN frontier : frontier[k].a # Child(a, p)}

\* (mutant) Only the last axis is varied.
LastAxisChildren(rows, frontier, idx) ==
  LET a == rows[idx].a
      places == InOrder({p \in Fresh(rows, frontier, a) : p[1] = Len(Axes)})
  IN [n \in DOMAIN places |-> Candidate(Child(a, places[n]), idx, places[n][1])]

\* The candidates a novel row adds: axis by axis, value by value.
Children(rows, frontier, idx) ==
  LET a == rows[idx].a
      places == InOrder(Fresh(rows, frontier, a))
  IN [n \in DOMAIN places |-> Candidate(Child(a, places[n]), idx, places[n][1])]

\* axis_priority(x) = (novel + 1) / (attempts + 2)
\*                    + 0.01 min(new_pcs / (attempts + 1), 1000)
\* as a fraction <<numerator, denominator>>.
AxisPriority(rows, x) ==
  LET tried == Indices(rows, LAMBDA r : r.axis = x)
      attempts == Cardinality(tried)
      novel == Cardinality(tried \cap NovelRows(rows))
      newpcs == Cardinality(UNION {{i} \X rows[i].newpcs : i \in tried})
      most == 1000 * (attempts + 1)
  IN <<100 * (novel + 1) * (attempts + 1) + (IF newpcs < most THEN newpcs ELSE most) * (attempts + 2),
       100 * (attempts + 2) * (attempts + 1)>>

\* A candidate without an axis has priority 1e9.
HigherPriority(rows, x, y) ==
  \/ x = 0 /\ y # 0
  \/ /\ x # 0 /\ y # 0
     /\ LET p == AxisPriority(rows, x)
            q == AxisPriority(rows, y)
        IN p[1] * q[2] > q[1] * p[2]

\* Which candidate is popped: the first, or the first of highest priority (the
\* frontier is in the order of the serial numbers).
PopIndex(strategy, rows, frontier) ==
  IF strategy # "adaptive" THEN 1
  ELSE CHOOSE k \in DOMAIN frontier :
         /\ \A l \in DOMAIN frontier : ~HigherPriority(rows, frontier[l].axis, frontier[k].axis)
         /\ \A l \in 1..(k - 1) : HigherPriority(rows, frontier[k].axis, frontier[l].axis)

TailNovel(rows, n) == Cardinality({i \in NovelRows(rows) : i > Len(rows) - n})

\* The novelty plateau that stops an adaptive search.
Plateau(rows) ==
  /\ Len(rows) >= MinCases /\ Len(rows) >= Window
  /\ TailNovel(rows, Window) * RateDen <= RateNum * Window

StopsEarly(strategy, rows) == strategy = "adaptive" /\ Plateau(rows)

\* The frontier after candidate k was evaluated (as the last of rows): a
\* cartesian search adds nothing, a plateau ends the search before expansion.
NextFrontier(strategy, rows, frontier, k) ==
  LET rest == RemoveAt(frontier, k)
      idx == Len(rows)
  IN IF strategy = "cartesian" \/ ~rows[idx].novel \/ StopsEarly(strategy, rows)
     THEN rest ELSE rest \o Children(rows, rest, idx)

SearchOver(strategy, rows, frontier) ==
  frontier = <<>> \/ Len(rows) >= MaxCases \/ StopsEarly(strategy, rows)
-----------------------------------------------------------------------------
\* Every axis at one of its values.
Assignments ==
  {a \in [DOMAIN Axes -> UNION {ToSet(Axes[i]) : i \in DOMAIN Axes}] :
     \A i \in DOMAIN Axes : a[i] \in ToSet(Axes[i])}

\* What a finished search has covered.
SearchComplete(strategy, rows) ==
  \/ Len(rows) = MaxCases \/ StopsEarly(strategy, rows)
  \/ strategy = "cartesian" /\ Assignments \subseteq Evaluated(rows)
  \/ /\ strategy # "cartesian"
     /\ Baseline \in Evaluated(rows)
     /\ \A n \in NovelRows(rows), i \in DOMAIN Axes : \A v \in ToSet(Axes[i]) :
          [rows[n].a EXCEPT ![i] = v] \in Evaluated(rows)
=============================================================================

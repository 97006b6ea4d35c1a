---------------------------- MODULE CampaignProofs ----------------------------
(***************************************************************************)
(* A campaign for any guests, manifests, budgets and numbers of kills,     *)
(* timeouts and changes.  CampaignInv says, in terms of how many stages    *)
(* the checkpoint has, what lies in the files of the stages before it and  *)
(* under which manifest and engine it was made.  ExplorationInv says what  *)
(* the rows, the frontier and the case files of a search have in common at *)
(* each of its steps; that every axis and every candidate is well defined  *)
(* rests on least elements of finite orders, not on induction.             *)
(***************************************************************************)
EXTENDS Campaign, TLAPS, FiniteSetTheorems, SequenceTheorems, NaturalsInduction

-----------------------------------------------------------------------------
(* The inductive strengthening *)

\* How many stages are complete, and whether the files of the n-th are final: it is
\* complete, or about to be.
Done == IF st = None THEN 0 ELSE Len(st.completed)
Made(n) == Done >= n \/ (Done = n - 1 /\ pc = "commit")

\* A campaign that runs works on its own checkpoint, at the stage it says.
CheckpointHolds ==
  /\ pc \in {"down", "stage", "evaluate", "promote", "rewrite", "triage", "commit"}
  /\ {image, manifest, engine} \subseteq Nat /\ st \in Checkpoints \cup {None}
  /\ pc # "down" => st # None /\ (steady => st.manifest = manifest /\ st.engine = engine)
  /\ steady \in BOOLEAN
  /\ pc \in {"evaluate", "promote", "rewrite"} => Done = 0
  /\ pc = "triage" => Done = 3
  /\ pc = "commit" => Done < 5

\* The corpus is not newer than the image, nor, if nothing changed under a running
\* campaign, than the exploration, which was done under the checkpoint.
CorpusHolds ==
  /\ \A id \in DOMAIN corpus : corpus[id] # Torn =>
       corpus[id].img \in Nat /\ corpus[id].img <= image
  /\ steady /\ pc \in {"evaluate", "promote", "rewrite"} => hashed = image
  /\ steady /\ Made(1) =>
       /\ exsum.img \in Nat /\ exsum.img <= image /\ exsum.by = <<st.manifest, st.engine>>
       /\ \A id \in DOMAIN corpus : corpus[id] # Torn => corpus[id].img <= exsum.img

\* A replay is one of the corpus as it is, on the image that was explored, and there is
\* one where it is asked for and there is a corpus.
Regressed == {id \in DOMAIN corpus : ReplayDiffs(id, exsum.img) # {}}
ReplayHolds ==
  /\ replay # Missing =>
       /\ opt.replay /\ Done >= 2
       /\ steady => replay.failed = Regressed /\ replay.by = <<st.manifest, st.engine>>
  /\ Made(3) /\ opt.replay => replay # Missing \/ DOMAIN corpus = {}

\* The verdict of a comparison is that of the two answers.
Judged(t) == t.equal <=> t.left = t.right
TriageHolds ==
  /\ trows \in Seq(ToSet(trows))
  /\ \A t \in ToSet(trows) : Judged(t)
  /\ Made(4) => /\ steady => triaged.by = <<st.manifest, st.engine>>
                /\ \A t \in ToSet(triaged.rows) : Judged(t)

\* What is published is what there is, and so is what the verdict says.
VerdictHolds ==
  /\ Made(5) /\ opt.publish => Artifacts \subseteq evid
  /\ final # None => Done = 5 /\ final = Status

CampaignInv == CheckpointHolds /\ CorpusHolds /\ ReplayHolds /\ TriageHolds /\ VerdictHolds

-----------------------------------------------------------------------------
(* The search *)

\* Candidates, and the assignments that are queued, or evaluated or queued.
Candidates == [a : Points, parent : Nat, axis : Nat]
Queued(f) == {f[k].a : k \in DOMAIN f}
Reached(rs, f) == Evaluated(rs) \cup Queued(f)

\* Rows whose novelty can be counted.
Countable(rs) ==
  /\ \E n \in Nat : DOMAIN rs = 1..n
  /\ \A i \in DOMAIN rs : IsFiniteSet(rs[i].newpcs)

\* What is known of the evaluated rows: none twice, and every behaviour has a novel row.
RowHolds(r) == r.a \in Points /\ IsFiniteSet(r.newpcs) /\ r.behavior.ok = r.resp.ok
RowsHold(rs) ==
  /\ rs \in Seq(ToSet(rs)) /\ Len(rs) <= MaxCases
  /\ \A i \in DOMAIN rs : RowHolds(rs[i])
  /\ \A i, j \in DOMAIN rs : rs[i].a = rs[j].a => i = j
  /\ \A i \in DOMAIN rs : \E n \in NovelRows(rs) : rs[n].behavior = rs[i].behavior

\* What is still to be evaluated is in the frontier, unless the plateau was reached.
Around(rs, fs) ==
  \A n \in NovelRows(rs) : \A i \in DOMAIN Axes : \A v \in ToSet(Axes[i]) :
    [rs[n].a EXCEPT ![i] = v] \in Reached(rs, fs)
Covers(strategy, rs, fs) ==
  \/ StopsEarly(strategy, rs)
  \/ strategy = "cartesian" /\ Assignments \subseteq Reached(rs, fs)
  \/ strategy # "cartesian" /\ Baseline \in Reached(rs, fs) /\ Around(rs, fs)

\* The faults are counted, and every change of the image is one of them.
FaultsHold ==
  faults \in 0..MaxFaults /\ image \in Nat /\ image <= faults

\* A running explorer: its files are those of its rows, every promoted row's case is intact.
InCorpus(id) == id \in DOMAIN corpus /\ corpus[id] # Torn
PromotedHolds ==
  opt.promote => \A i \in NovelRows(rows) :
    rows[i].resp.ok /\ ~(pc = "promote" /\ i = Len(rows)) => InCorpus(<<i, rows[i].behavior>>)
SearchHolds ==
  /\ DOMAIN cases = 1..MaxCases
  /\ pc \in {"evaluate", "promote", "rewrite"} =>
       /\ RowsHold(rows) /\ frontier \in Seq(Candidates) /\ Covers(opt.strategy, rows, frontier)
       /\ pc # "evaluate" => rows # <<>>
       /\ \A i \in DOMAIN rows : cases[i] = rows[i]
       /\ PromotedHolds

\* Where the files of the exploration are final, it was whole.
ExplorationInv ==
  CheckpointHolds /\ FaultsHold /\ SearchHolds /\ (Made(1) => Explored)

-----------------------------------------------------------------------------
(* Checkpoints *)

StageNames == {"exploration", "intelligence", "corpus", "triage", "evidence"}

LEMMA StagesAre ==
  /\ Len(Stages) = 5
  /\ Stages[1] = "exploration" /\ Stages[2] = "intelligence" /\ Stages[3] = "corpus"
  /\ Stages[4] = "triage" /\ Stages[5] = "evidence"
  /\ \A k \in 1..5 : Stages[k] \in StageNames
<1>1. Len(Stages) = 5
  BY DEF Stages
<1>3. /\ Stages[1] = "exploration" /\ Stages[2] = "intelligence" /\ Stages[3] = "corpus"
      /\ Stages[4] = "triage" /\ Stages[5] = "evidence"
  BY DEF Stages
<1>4. \A k \in 1..5 : Stages[k] \in StageNames
  BY <1>3 DEF StageNames
<1> QED BY <1>1, <1>3, <1>4

LEMMA PrefixOfStages ==
  ASSUME NEW n \in 0..5
  PROVE  /\ SubSeq(Stages, 1, n) \in Seq(StageNames) /\ Len(SubSeq(Stages, 1, n)) = n
         /\ \A k \in 1..n : SubSeq(Stages, 1, n)[k] = Stages[k]
         /\ ToSet(SubSeq(Stages, 1, n)) = {Stages[k] : k \in 1..n}
         /\ n < 5 => Append(SubSeq(Stages, 1, n), Stages[n + 1]) = SubSeq(Stages, 1, n + 1)
<1>1. /\ SubSeq(Stages, 1, n) \in Seq(StageNames) /\ Len(SubSeq(Stages, 1, n)) = n
      /\ \A k \in 1..n : SubSeq(Stages, 1, n)[k] = Stages[k]
  BY StagesAre, SubSeqProperties
<1>2. ToSet(SubSeq(Stages, 1, n)) = {Stages[k] : k \in 1..n}
  <2>1. DOMAIN SubSeq(Stages, 1, n) = 1..n
    BY <1>1, LenProperties
  <2> QED BY <1>1, <2>1 DEF ToSet
<1>3. ASSUME n < 5 PROVE Append(SubSeq(Stages, 1, n), Stages[n + 1]) = SubSeq(Stages, 1, n + 1)
  <2> DEFINE s == Append(SubSeq(Stages, 1, n), Stages[n + 1])  u == SubSeq(Stages, 1, n + 1)
  <2>1. /\ u \in Seq(StageNames) /\ Len(u) = n + 1 /\ \A k \in 1..(n + 1) : u[k] = Stages[k]
    BY <1>3, StagesAre, SubSeqProperties
  <2>2. /\ s \in Seq(StageNames) /\ Len(s) = n + 1 /\ \A k \in 1..(n + 1) : s[k] = Stages[k]
    BY <1>1, <1>3, StagesAre, AppendProperties
  <2> HIDE DEF s, u
  <2>3. s = u
    BY <2>1, <2>2, SeqEqual
  <2> QED BY <2>3 DEF s, u
<1> QED BY <1>1, <1>2, <1>3

\* What a checkpoint says is how many stages it has.
LEMMA CheckpointFacts ==
  ASSUME NEW c \in Checkpoints
  PROVE  /\ c.manifest \in Nat /\ c.engine \in Nat /\ Len(c.completed) \in 0..5
         /\ \E n \in 0..5 : n = Len(c.completed) /\ c.completed = SubSeq(Stages, 1, n)
         /\ ToSet(c.completed) = {Stages[k] : k \in 1..Len(c.completed)}
         /\ c # None
<1>1. PICK n \in 0..5 : c.completed = SubSeq(Stages, 1, n)
  BY StagesAre DEF Checkpoints
<1> QED BY <1>1, PrefixOfStages, CampaignAssumption DEF Checkpoints

LEMMA FreshCheckpoint ==
  ASSUME manifest \in Nat, engine \in Nat
  PROVE  NewState \in Checkpoints /\ Len(NewState.completed) = 0
<1>1. SubSeq(Stages, 1, 0) = <<>>
  BY SubSeqEmpty
<1> QED BY <1>1, StagesAre DEF NewState, Checkpoints

\* complete_stage adds the next stage.
LEMMA NextCheckpoint ==
  ASSUME st \in Checkpoints, Len(st.completed) < 5
  PROVE  LET c == [st EXCEPT !.completed = Append(@, Stage)] IN
         /\ c \in Checkpoints /\ Len(c.completed) = Len(st.completed) + 1
         /\ c.manifest = st.manifest /\ c.engine = st.engine
<1>0. PICK n \in 0..5 : n = Len(st.completed) /\ st.completed = SubSeq(Stages, 1, n)
  BY CheckpointFacts
<1>1. n \in 0..4
  BY <1>0
<1>2. Append(st.completed, Stage) = SubSeq(Stages, 1, n + 1) /\ Len(SubSeq(Stages, 1, n + 1)) = n + 1
  BY <1>0, <1>1, PrefixOfStages DEF Stage
<1>3. PICK m \in Nat, e \in Nat :
        st = [manifest |-> m, engine |-> e, completed |-> SubSeq(Stages, 1, n)]
  <2>1. st.manifest \in Nat /\ st.engine \in Nat
    BY CheckpointFacts
  <2>2. st = [manifest |-> st.manifest, engine |-> st.engine, completed |-> SubSeq(Stages, 1, n)]
    BY <1>0 DEF Checkpoints
  <2> QED BY <2>1, <2>2
<1>4. [st EXCEPT !.completed = Append(@, Stage)] =
        [manifest |-> m, engine |-> e, completed |-> SubSeq(Stages, 1, n + 1)]
  <2>1. PICK d : d = Append(st.completed, Stage)
    OBVIOUS
  <2>2. [st EXCEPT !.completed = d] = [manifest |-> m, engine |-> e, completed |-> d]
    BY <1>3
  <2>3. [st EXCEPT !.completed = Append(@, Stage)] = [st EXCEPT !.completed = d]
    BY <2>1, Zenon
  <2> QED BY <1>2, <2>1, <2>2, <2>3
<1>6. n + 1 \in 0..Len(Stages)
  BY <1>1, StagesAre
<1>7. [manifest |-> m, engine |-> e, completed |-> SubSeq(Stages, 1, n + 1)] \in Checkpoints
  BY <1>6 DEF Checkpoints
<1> QED BY <1>0, <1>2, <1>3, <1>4, <1>7

\* Where a running campaign is.
LEMMA WhereItIs ==
  ASSUME CheckpointHolds
  PROVE  /\ Done \in 0..5 /\ (st = None => Done = 0)
         /\ st # None => st \in Checkpoints /\ Done = Len(st.completed) /\ (Finished <=> Done = 5)
         /\ \A s : At(s) => pc = "stage" /\ st # None /\ Done < 5 /\ s = Stages[Done + 1]
         /\ At("exploration") => Done = 0
         /\ At("intelligence") => Done = 1
         /\ At("corpus") => Done = 2
         /\ At("triage") => Done = 3
         /\ At("evidence") => Done = 4
<1>1. /\ Done \in 0..5 /\ (st = None => Done = 0)
      /\ st # None => st \in Checkpoints /\ Done = Len(st.completed) /\ (Finished <=> Done = 5)
  BY CheckpointFacts, StagesAre DEF CheckpointHolds, Done, Finished
<1>2. ASSUME NEW s, At(s) PROVE pc = "stage" /\ st # None /\ Done < 5 /\ s = Stages[Done + 1]
  BY <1>1, <1>2 DEF At, CheckpointHolds, Stage
<1>3. ASSUME NEW s \in StageNames, At(s), NEW m \in 0..4, s = Stages[m + 1] PROVE Done = m
  <2>1. Done \in 0..4 /\ Stages[Done + 1] = Stages[m + 1]
    BY <1>1, <1>2, <1>3
  <2> QED BY <2>1, StagesAre
<1>4. /\ At("exploration") => Done = 0
      /\ At("intelligence") => Done = 1
      /\ At("corpus") => Done = 2
      /\ At("triage") => Done = 3
      /\ At("evidence") => Done = 4
  BY <1>3, StagesAre DEF StageNames
<1> QED BY <1>1, <1>2, <1>4

-----------------------------------------------------------------------------
(* What a step does to the checkpoint and to the files *)

\* The files of the n-th stage stay, and become final by its own last step only.
StepHolds ==
  /\ st # None => /\ st' # None /\ Done <= Done'
                  /\ st'.manifest = st.manifest /\ st'.engine = st.engine
  /\ opt' = opt /\ image <= image'
  /\ steady' => steady /\ (pc # "down" => UNCHANGED <<image, manifest, engine>>)
  /\ Made(1) => UNCHANGED <<cases, exsum, corpus>>
  /\ Made(2) => UNCHANGED report
  /\ Made(3) => UNCHANGED replay
  /\ Made(4) => UNCHANGED triaged
  /\ Made(5) => UNCHANGED evid
  /\ Made(1)' => Made(1) \/ ExploreSummary
  /\ Made(3)' => Made(3) \/ Corpus
  /\ Made(4)' => Made(4) \/ TriageSummary
  /\ Made(5)' => Made(5) \/ Evidence

LEMMA CampaignSteps ==
  ASSUME CheckpointHolds, [Next]_vars
  PROVE  CheckpointHolds' /\ StepHolds
<1>0. /\ Done \in 0..5 /\ (st = None => Done = 0) /\ {image, manifest, engine} \subseteq Nat
      /\ st # None => st \in Checkpoints /\ Done = Len(st.completed) /\ (Finished <=> Done = 5)
      /\ pc # "down" => st # None
  BY WhereItIs DEF CheckpointHolds
<1>1. CASE Launch
  <2>1. /\ pc = "down" /\ pc' = "stage" /\ st' = (IF st = None THEN NewState ELSE st)
        /\ UNCHANGED <<world, cases, exsum, corpus, report, replay, triaged, evid>>
        /\ st # None => st.manifest = manifest /\ st.engine = engine
    BY <1>1 DEF Launch, Resumable
  <2>2. NewState \in Checkpoints /\ Len(NewState.completed) = 0 /\ NewState # None
    BY <1>0, FreshCheckpoint, CheckpointFacts
  <2>3. NewState.manifest = manifest /\ NewState.engine = engine
    BY DEF NewState
  <2>4. /\ st' \in Checkpoints /\ st' # None /\ Done' = Done
        /\ st'.manifest = manifest /\ st'.engine = engine
    BY <1>0, <2>1, <2>2, <2>3, CheckpointFacts DEF Done
  <2> QED BY <1>0, <2>1, <2>4 DEF CheckpointHolds, StepHolds, Made, world
<1>2. CASE CompleteStage
  <2>1. /\ pc = "commit" /\ pc' = "stage" /\ Done < 5 /\ st # None
        /\ st' = [st EXCEPT !.completed = Append(@, Stage)]
        /\ UNCHANGED <<world, cases, exsum, corpus, report, replay, triaged, evid>>
    BY <1>0, <1>2 DEF CompleteStage, CheckpointHolds
  <2>2. /\ st' \in Checkpoints /\ Len(st'.completed) = Len(st.completed) + 1
        /\ st'.manifest = st.manifest /\ st'.engine = st.engine
    BY <1>0, <2>1, NextCheckpoint
  <2>3. st' # None /\ Done' = Done + 1
    BY <1>0, <2>1, <2>2, CheckpointFacts DEF Done
  <2> QED BY <1>0, <2>1, <2>2, <2>3 DEF CheckpointHolds, StepHolds, Made, world
<1>3. CASE ExploreStart \/ ExploreEvaluate \/ ExplorePromote \/ ExploreRewrite
  <2>1. /\ st # None /\ Done = 0 /\ pc \notin {"down", "commit"}
        /\ UNCHANGED <<world, st, exsum, report, replay, triaged, evid>>
        /\ pc' \in {"down", "evaluate", "promote", "rewrite"}
    BY <1>0, <1>3, WhereItIs DEF ExploreStart, ExploreEvaluate, ExplorePromote, ExploreRewrite,
       CheckpointHolds, GoDown
  <2>9. Done' = Done
    BY <2>1 DEF Done
  <2> QED BY <1>0, <2>1, <2>9 DEF CheckpointHolds, StepHolds, Made, world
<1>4. CASE ExploreSummary
  <2>1. /\ st # None /\ Done = 0 /\ pc \notin {"down", "commit"} /\ pc' = "commit"
        /\ UNCHANGED <<world, st, cases, corpus, report, replay, triaged, evid>>
    BY <1>0, <1>4 DEF ExploreSummary, CheckpointHolds
  <2>9. Done' = Done
    BY <2>1 DEF Done
  <2> QED BY <1>0, <1>4, <2>1, <2>9 DEF CheckpointHolds, StepHolds, Made, world
<1>5. CASE Intelligence
  <2>1. /\ st # None /\ Done = 1 /\ pc = "stage" /\ pc' \in {"down", "commit"}
        /\ UNCHANGED <<world, st, cases, exsum, corpus, replay, triaged, evid>>
    BY <1>0, <1>5, WhereItIs DEF Intelligence, GoDown
  <2>9. Done' = Done
    BY <2>1 DEF Done
  <2> QED BY <1>0, <2>1, <2>9 DEF CheckpointHolds, StepHolds, Made, world
<1>6. CASE Corpus
  <2>1. /\ st # None /\ Done = 2 /\ pc = "stage" /\ pc' \in {"down", "commit"}
        /\ UNCHANGED <<world, st, cases, exsum, corpus, report, triaged, evid>>
    BY <1>0, <1>6, WhereItIs DEF Corpus, GoDown
  <2>9. Done' = Done
    BY <2>1 DEF Done
  <2> QED BY <1>0, <1>6, <2>1, <2>9 DEF CheckpointHolds, StepHolds, Made, world
<1>7. CASE TriageStart \/ TriageCase
  <2>1. /\ st # None /\ Done = 3 /\ pc \notin {"down", "commit"} /\ pc' \in {"down", "triage"}
        /\ UNCHANGED <<world, st, cases, exsum, corpus, report, replay, triaged, evid>>
    BY <1>0, <1>7, WhereItIs DEF TriageStart, TriageCase, GoDown, CheckpointHolds
  <2>9. Done' = Done
    BY <2>1 DEF Done
  <2> QED BY <1>0, <2>1, <2>9 DEF CheckpointHolds, StepHolds, Made, world
<1>8. CASE TriageSummary
  <2>1. /\ st # None /\ Done = 3 /\ pc = "triage" /\ pc' = "commit"
        /\ UNCHANGED <<world, st, cases, exsum, corpus, report, replay, evid>>
    BY <1>0, <1>8 DEF TriageSummary, CheckpointHolds
  <2>9. Done' = Done
    BY <2>1 DEF Done
  <2> QED BY <1>0, <1>8, <2>1, <2>9 DEF CheckpointHolds, StepHolds, Made, world
<1>9. CASE Evidence
  <2>1. /\ st # None /\ Done = 4 /\ pc = "stage" /\ pc' = "commit"
        /\ UNCHANGED <<world, st, cases, exsum, corpus, report, replay, triaged>>
    BY <1>0, <1>9, WhereItIs DEF Evidence
  <2>9. Done' = Done
    BY <2>1 DEF Done
  <2> QED BY <1>0, <1>9, <2>1, <2>9 DEF CheckpointHolds, StepHolds, Made, world
<1>10. CASE Conclude
  <2>1. /\ pc' = "down" /\ UNCHANGED <<world, st, cases, exsum, corpus, report, replay, triaged, evid>>
    BY <1>10 DEF Conclude, GoDown
  <2>9. Done' = Done
    BY <2>1 DEF Done
  <2> QED BY <1>0, <2>1, <2>9 DEF CheckpointHolds, StepHolds, Made, world
<1>11. CASE Kill
  <2>1. /\ pc' = "down" /\ UNCHANGED <<world, st, replay, triaged, evid>>
        /\ Tear \/ UNCHANGED <<cases, corpus, exsum, report>>
    BY <1>11 DEF Kill, GoDown
  <2>2. ASSUME Tear PROVE /\ pc # "commit" /\ Done < 2
                          /\ Done = 1 => UNCHANGED <<cases, corpus, exsum>>
    BY <1>0, <2>2, WhereItIs DEF Tear, CheckpointHolds
  <2>3. /\ Made(1) => UNCHANGED <<cases, exsum, corpus>>
        /\ Made(2) => UNCHANGED report
    BY <1>0, <2>1, <2>2 DEF Made
  <2>9. Done' = Done
    BY <2>1 DEF Done
  <2> QED BY <1>0, <2>1, <2>3, <2>9 DEF CheckpointHolds, StepHolds, Made, world
<1>12. CASE Change
  <2>1. UNCHANGED <<opt, pc, st, cases, exsum, corpus, report, replay, triaged, evid>>
    BY <1>12 DEF Change
  <2>2. image' \in Nat /\ manifest' \in Nat /\ engine' \in Nat /\ image <= image'
    BY <1>0, <1>12 DEF Change
  <2>3. steady' \in BOOLEAN /\ (steady' => steady /\ pc = "down")
    BY <1>12, Zenon DEF Change
  <2>9. Done' = Done
    BY <2>1 DEF Done
  <2> QED BY <1>0, <2>1, <2>2, <2>3, <2>9 DEF CheckpointHolds, StepHolds, Made
<1>13. CASE UNCHANGED vars
  <2>1. Done' = Done
    BY <1>13 DEF Done, vars
  <2> QED BY <1>0, <1>13, <2>1 DEF CheckpointHolds, StepHolds, Made, vars, world
<1> QED
  BY <1>1, <1>2, <1>3, <1>4, <1>5, <1>6, <1>7, <1>8, <1>9, <1>10, <1>11, <1>12, <1>13
  DEF Next, CampaignStep

\* The stages in the checkpoint are the first ones.
LEMMA CompletedAre ==
  ASSUME CheckpointHolds, NEW s
  PROVE  Completed(s) <=> \E k \in 1..Done : Stages[k] = s
<1>1. CASE st = None
  BY <1>1, WhereItIs DEF Completed
<1>2. CASE st # None
  <2>1. ToSet(st.completed) = {Stages[k] : k \in 1..Done}
    BY <1>2, WhereItIs, CheckpointFacts
  <2> QED BY <1>2, <2>1 DEF Completed
<1> QED BY <1>1, <1>2

\* CompletedAre in the state after a step.
LEMMA CompletedAreNext ==
  ASSUME CheckpointHolds', NEW s
  PROVE  Completed(s)' <=> \E k \in 1..Done' : Stages[k] = s
<1>1. CASE st' = None
  <2>1. Done' = 0
    BY <1>1 DEF Done
  <2> QED BY <1>1, <2>1 DEF Completed
<1>2. CASE st' # None
  <2>1. st' \in Checkpoints /\ Done' = Len(st'.completed)
    BY <1>2 DEF CheckpointHolds, Done
  <2>2. ToSet(st'.completed) = {Stages[k] : k \in 1..Done'}
    BY <2>1, CheckpointFacts
  <2> QED BY <1>2, <2>2 DEF Completed
<1> QED BY <1>1, <1>2

LEMMA CheckpointInit == Init => CheckpointHolds
BY CampaignAssumption DEF Init, CheckpointHolds

\* No step, of a later stage or of a resumed campaign, changes what a completed stage
\* left, and no stage is taken back, whatever is killed, timed out or changed.
THEOREM StagesAreFinal == Spec => StageFinal
<1>1. ASSUME CheckpointHolds, [Next]_vars, NEW s \in ToSet(Stages), Completed(s)
      PROVE  Completed(s)' /\ Kept(s)' = Kept(s)
  <2>1. CheckpointHolds' /\ StepHolds
    BY <1>1, CampaignSteps
  <2>2. PICK k \in 1..Done : Stages[k] = s
    BY <1>1, CompletedAre
  <2>3. Done \in 0..5 /\ st # None /\ Done' \in 0..5 /\ Done <= Done'
    <3>1. Done \in 0..5 /\ st # None
      BY <1>1, <2>2, WhereItIs
    <3>2. st' # None /\ Done <= Done'
      BY <3>1, <2>1 DEF StepHolds
    <3>3. Done' \in 0..5
      BY <2>1, <3>2, CheckpointFacts DEF CheckpointHolds, Done
    <3> QED BY <3>1, <3>2, <3>3
  <2>4. Completed(s)'
    BY <2>1, <2>2, <2>3, CompletedAreNext
  <2>5. Made(k)
    BY <2>2, <2>3 DEF Made
  <2>6. k \in 1..5
    BY <2>2, <2>3
  <2>7. Kept(s)' = Kept(s)
    <3>1. CASE k = 1
      <4>1. UNCHANGED <<cases, exsum, corpus>> /\ s = "exploration"
        BY <2>1, <2>2, <2>5, <3>1, StagesAre DEF StepHolds
      <4> QED BY <4>1 DEF Kept
    <3>2. CASE k = 2
      <4>1. UNCHANGED report /\ s = "intelligence"
        BY <2>1, <2>2, <2>5, <3>2, StagesAre DEF StepHolds
      <4> QED BY <4>1 DEF Kept
    <3>3. CASE k = 3
      <4>1. UNCHANGED replay /\ s = "corpus"
        BY <2>1, <2>2, <2>5, <3>3, StagesAre DEF StepHolds
      <4> QED BY <4>1 DEF Kept
    <3>4. CASE k = 4
      <4>1. UNCHANGED triaged /\ s = "triage"
        BY <2>1, <2>2, <2>5, <3>4, StagesAre DEF StepHolds
      <4> QED BY <4>1 DEF Kept
    <3>5. CASE k = 5
      <4>1. UNCHANGED evid /\ s = "evidence"
        BY <2>1, <2>2, <2>5, <3>5, StagesAre DEF StepHolds
      <4> QED BY <4>1 DEF Kept
    <3> QED BY <2>6, <3>1, <3>2, <3>3, <3>4, <3>5
  <2> QED BY <2>4, <2>7
<1>2. CheckpointHolds /\ [Next]_vars => CheckpointHolds'
  BY CampaignSteps
<1>3. CheckpointHolds /\ [Next]_vars =>
        [\A s \in ToSet(Stages) : Completed(s) => Completed(s)' /\ (Kept(s)' = Kept(s))]_vars
  BY <1>1
<1> QED BY <1>2, <1>3, CheckpointInit, PTL DEF Spec, StageFinal

-----------------------------------------------------------------------------
(* The verdict *)

\* What a worker answers: a run that timed out says nothing but its trace.
LEMMA OutcomesAre ==
  ASSUME NEW guest, NEW x \in Outcomes(guest)
  PROVE  /\ x = [ok |-> x.ok, timedout |-> x.timedout, stop |-> x.stop, regs |-> x.regs,
                 trace |-> x.trace]
         /\ x.timedout \in BOOLEAN
         /\ x.timedout => x.stop = "none" /\ x.regs = <<>>
<1>1. CASE x = Answered(guest)
  BY <1>1 DEF Answered
<1>2. CASE \E n \in 0..Len(guest.trace) : x = TimedOut(guest, n)
  BY <1>2 DEF TimedOut
<1> QED BY <1>1, <1>2 DEF Outcomes, Lates

\* command_run calls two answers equal if and only if they are.
LEMMA VerdictOfTwo ==
  ASSUME NEW a, NEW b, NEW x \in Outcomes(a), NEW y \in Outcomes(b)
  PROVE  TriageResult(x, y) <=> x = y
<1>1. x.timedout \in BOOLEAN /\ y.timedout \in BOOLEAN
  BY OutcomesAre
<1>3. TriageResult(x, y) <=>
        /\ x.ok = y.ok /\ x.timedout = y.timedout /\ x.trace = y.trace /\ ~StatesDiffer(x, y)
  BY DEF TriageResult, CompareTraces
<1>4. x = y => /\ x.ok = y.ok /\ x.timedout = y.timedout /\ x.trace = y.trace
               /\ ~StatesDiffer(x, y)
  BY DEF StatesDiffer
<1>5. ASSUME x.ok = y.ok, x.timedout = y.timedout, x.trace = y.trace, ~StatesDiffer(x, y)
      PROVE  x = y
  <2>1. x.stop = y.stop /\ x.regs = y.regs
    BY <1>1, <1>5, OutcomesAre DEF StatesDiffer
  <2> QED BY <1>5, <2>1, OutcomesAre
<1> QED BY <1>3, <1>4, <1>5

\* The corpus changes by the file of the case that is promoted.
LEMMA CorpusGrows ==
  ASSUME [Next]_vars
  PROVE  UNCHANGED corpus \/ \E r : /\ corpus' = CorpusWith(r)
                                    /\ (r # Torn => r.img = image) /\ image' = image
<1>1. CASE ExplorePromote
  BY <1>1 DEF ExplorePromote, CorpusPromote, world
<1>2. CASE Kill
  BY <1>2 DEF Kill, Tear, world
<1>3. CASE ~ExplorePromote /\ ~Kill
  BY <1>3 DEF Next, CampaignStep, Launch, CompleteStage, ExploreStart, ExploreEvaluate,
     ExploreRewrite, ExploreSummary, Intelligence, Corpus, TriageStart, TriageCase,
     TriageSummary, Evidence, Conclude, Change, vars
<1> QED BY <1>1, <1>2, <1>3

\* Which image the explorer has hashed.
LEMMA HashedStep ==
  ASSUME CheckpointHolds, CorpusHolds, [Next]_vars, steady', pc' \in {"evaluate", "promote", "rewrite"}
  PROVE  hashed' = image'
<1>0. StepHolds
  BY CampaignSteps
<1>1. CASE ExploreStart
  BY <1>1 DEF ExploreStart, world
<1>2. CASE ~ExploreStart
  <2>1. pc \in {"evaluate", "promote", "rewrite"} /\ hashed' = hashed
    BY <1>2 DEF Next, CampaignStep, Launch, CompleteStage, ExploreEvaluate, ExplorePromote,
       ExploreRewrite, ExploreSummary, Intelligence, Corpus, TriageStart, TriageCase,
       TriageSummary, Evidence, Conclude, Kill, Change, GoDown, memory, vars
  <2>2. steady /\ image' = image
    BY <1>0, <2>1 DEF StepHolds
  <2> QED BY <2>1, <2>2 DEF CorpusHolds
<1> QED BY <1>1, <1>2

LEMMA CorpusStep ==
  ASSUME CheckpointHolds, CorpusHolds, [Next]_vars
  PROVE  CorpusHolds'
<1>0. /\ CheckpointHolds' /\ StepHolds /\ image \in Nat /\ image' \in Nat /\ image <= image'
      /\ Done \in 0..5
  BY CampaignSteps, WhereItIs DEF CheckpointHolds, StepHolds
<1>1. ASSUME NEW id \in DOMAIN corpus', corpus'[id] # Torn
      PROVE  corpus'[id].img \in Nat /\ corpus'[id].img <= image'
  <2>1. CASE UNCHANGED corpus
    BY <1>0, <1>1, <2>1 DEF CorpusHolds
  <2>2. CASE \E r : corpus' = CorpusWith(r) /\ (r # Torn => r.img = image) /\ image' = image
    <3>1. PICK r : corpus' = CorpusWith(r) /\ (r # Torn => r.img = image) /\ image' = image
      BY <2>2
    <3>2. PICK d : corpus' = [x \in DOMAIN corpus \cup {d} |-> IF x = d THEN r ELSE corpus[x]]
      BY <3>1 DEF CorpusWith
    <3> QED BY <1>0, <1>1, <3>1, <3>2 DEF CorpusHolds
  <2> QED BY <2>1, <2>2, CorpusGrows
<1>2. ASSUME steady', Made(1)'
      PROVE  /\ exsum'.img \in Nat /\ exsum'.img <= image'
             /\ exsum'.by = <<st'.manifest, st'.engine>>
             /\ \A id \in DOMAIN corpus' : corpus'[id] # Torn => corpus'[id].img <= exsum'.img
  <2>0. steady
    BY <1>0, <1>2 DEF StepHolds
  <2>1. CASE Made(1)
    <3>1. /\ UNCHANGED <<exsum, corpus>> /\ st # None
          /\ st'.manifest = st.manifest /\ st'.engine = st.engine
      BY <1>0, <2>1, WhereItIs DEF StepHolds, Made, CheckpointHolds
    <3> QED BY <1>0, <2>0, <2>1, <3>1 DEF CorpusHolds
  <2>2. CASE ExploreSummary
    <3>1. /\ exsum' = [rows |-> rows, img |-> hashed, by |-> Producer] /\ image' = image
          /\ UNCHANGED <<corpus, st, manifest, engine>> /\ pc = "evaluate"
      BY <2>2 DEF ExploreSummary, world
    <3>2. hashed = image /\ st.manifest = manifest /\ st.engine = engine
      BY <2>0, <3>1 DEF CorpusHolds, CheckpointHolds
    <3>3. exsum'.img = image /\ exsum'.by = <<st.manifest, st.engine>>
      BY <3>1, <3>2 DEF Producer
    <3> QED BY <1>0, <3>1, <3>3 DEF CorpusHolds
  <2> QED BY <1>0, <1>2, <2>1, <2>2 DEF StepHolds
<1> QED BY <1>1, <1>2, HashedStep DEF CorpusHolds

LEMMA ReplayStep ==
  ASSUME CheckpointHolds, CorpusHolds, ReplayHolds, [Next]_vars
  PROVE  ReplayHolds'
<1>0. /\ CheckpointHolds' /\ StepHolds /\ Done \in 0..5 /\ (st = None => Done = 0) /\ opt' = opt
      /\ st # None => Done <= Done' /\ st'.manifest = st.manifest /\ st'.engine = st.engine
  BY CampaignSteps, WhereItIs DEF StepHolds
<1>1. CASE Corpus
  <2>1. /\ UNCHANGED <<exsum, corpus, st, image, manifest, engine, steady>> /\ At("corpus")
        /\ Done = 2 /\ pc = "stage" /\ Made(1)
    BY <1>1, WhereItIs DEF Corpus, world, Made
  <2>2. Done' = 2
    BY <2>1 DEF Done
  <2>3. Regressed' = Regressed
    BY <2>1 DEF Regressed, ReplayDiffs, Answered
  <2>4. CASE UNCHANGED replay /\ ~Made(3)'
    BY <1>0, <2>1, <2>2, <2>3, <2>4 DEF ReplayHolds
  <2>5. CASE ~CorpusRefuses /\ replay' = IF opt.replay /\ corpus # <<>> THEN Replayed ELSE replay
    <3>1. CASE opt.replay /\ corpus # <<>>
      <4>1. replay' = Replayed /\ ~TornCorpus /\ InputsFound
        BY <2>5, <3>1 DEF CorpusRefuses
      <4>2. /\ replay'.by = <<manifest, engine>>
            /\ replay'.failed = {id \in DOMAIN corpus : ReplayDiffs(id, image) # {}}
        BY <4>1 DEF Replayed, Producer
      <4>3. replay' # Missing
        <5>1. "img" \in DOMAIN Replayed /\ "img" \notin DOMAIN Missing
          BY DEF Replayed, Missing
        <5> QED BY <4>1, <5>1
      <4>4. ASSUME steady PROVE /\ st.manifest = manifest /\ st.engine = engine
                                /\ replay'.failed = Regressed
        <5>1. st.manifest = manifest /\ st.engine = engine
          BY <2>1, <4>4 DEF CheckpointHolds
        <5>2. \A id \in DOMAIN corpus : exsum.img = image
          BY <2>1, <4>1, <4>4 DEF CorpusHolds, CheckpointHolds, TornCorpus, InputsFound
        <5>3. \A id \in DOMAIN corpus : ReplayDiffs(id, image) = ReplayDiffs(id, exsum.img)
          BY <5>2
        <5> QED BY <4>2, <5>1, <5>3 DEF Regressed
      <4> QED BY <1>0, <2>1, <2>2, <2>3, <3>1, <4>2, <4>3, <4>4 DEF ReplayHolds
    <3>2. CASE opt.replay /\ corpus = <<>>
      <4>1. DOMAIN corpus = {} /\ replay' = replay
        BY <2>5, <3>2
      <4> QED BY <1>0, <2>1, <2>2, <2>3, <4>1 DEF ReplayHolds
    <3>3. CASE ~opt.replay
      BY <1>0, <2>1, <2>2, <2>3, <2>5, <3>3 DEF ReplayHolds
    <3> QED BY <3>1, <3>2, <3>3
  <2>6. pc' = "down" => ~Made(3)'
    BY <2>2 DEF Made
  <2> QED BY <1>1, <2>4, <2>5, <2>6 DEF Corpus, GoDown
<1>2. CASE ~Corpus
  <2>0. replay' = replay
    BY <1>2 DEF Next, CampaignStep, Launch, CompleteStage, ExploreStart, ExploreEvaluate, ExplorePromote,
       ExploreRewrite, ExploreSummary, Intelligence, TriageStart, TriageCase,
       TriageSummary, Evidence, Conclude, Change, Kill, vars
  <2>1. ASSUME replay # Missing
        PROVE  /\ Done' >= 2
               /\ steady' => replay.failed = Regressed' /\ replay.by = <<st'.manifest, st'.engine>>
    <3>1. Done >= 2 /\ st # None
      BY <1>0, <2>1 DEF ReplayHolds
    <3>2. UNCHANGED <<exsum, corpus>>
      BY <1>0, <3>1 DEF StepHolds, Made
    <3>3. Done' \in 0..5
      BY <1>0, <3>1, CheckpointFacts DEF StepHolds, CheckpointHolds, Done
    <3>4. Regressed' = Regressed
      BY <3>2 DEF Regressed, ReplayDiffs, Answered
    <3>5. steady' => steady
      BY <1>0 DEF StepHolds
    <3> QED BY <1>0, <2>1, <3>1, <3>3, <3>4, <3>5 DEF ReplayHolds
  <2>2. ASSUME Made(3)', opt.replay PROVE replay # Missing \/ DOMAIN corpus' = {}
    <3>1. Made(3) /\ Made(1)
      BY <1>0, <1>2, <2>2 DEF StepHolds, Made
    <3>2. corpus' = corpus
      BY <1>0, <3>1 DEF StepHolds
    <3> QED BY <2>2, <3>1, <3>2 DEF ReplayHolds
  <2> QED BY <1>0, <2>0, <2>1, <2>2 DEF ReplayHolds
<1> QED BY <1>1, <1>2

LEMMA TriageStep ==
  ASSUME CheckpointHolds, TriageHolds, [Next]_vars
  PROVE  TriageHolds'
<1>0. /\ CheckpointHolds' /\ StepHolds /\ Done \in 0..5 /\ (st = None => Done = 0)
      /\ st # None => Done <= Done' /\ st'.manifest = st.manifest /\ st'.engine = st.engine
  BY CampaignSteps, WhereItIs DEF StepHolds
<1>1. trows' \in Seq(ToSet(trows')) /\ \A t \in ToSet(trows') : Judged(t)
  <2>1. CASE TriageCase /\ pc' # "down"
    <3>0. PICK i : \E x \in Outcomes(Guest(image, cases[i].a)), y \in Outcomes(RightGuest(image, cases[i].a)) :
            trows' = Append(trows, [index |-> i, left |-> x, right |-> y,
                                    equal |-> TriageResult(x, y)])
      BY <2>1 DEF TriageCase, GoDown
    <3>1. PICK x \in Outcomes(Guest(image, cases[i].a)), y \in Outcomes(RightGuest(image, cases[i].a)) :
            trows' = Append(trows, [index |-> i, left |-> x, right |-> y,
                                    equal |-> TriageResult(x, y)])
      BY <3>0
    <3>2. PICK t : t = [index |-> i, left |-> x, right |-> y, equal |-> TriageResult(x, y)]
      OBVIOUS
    <3>3. Judged(t)
      <4>1. t.left = x /\ t.right = y /\ t.equal = TriageResult(x, y)
        BY <3>2
      <4> QED BY <4>1, VerdictOfTwo DEF Judged
    <3> DEFINE S == ToSet(trows) \cup {t}
    <3>4. trows \in Seq(S) /\ t \in S /\ trows' = Append(trows, t)
      BY <3>1, <3>2, SeqMonotonic DEF TriageHolds
    <3>5. \A u \in S : Judged(u)
      BY <3>3 DEF TriageHolds
    <3> HIDE DEF S
    <3>6. /\ trows' \in Seq(S) /\ Len(trows') = Len(trows) + 1 /\ Len(trows) \in Nat
          /\ \A k \in 1..Len(trows') : trows'[k] \in S
      BY <3>4, AppendProperties, LenProperties
    <3>7. DOMAIN trows' = 1..Len(trows') /\ Len(trows') \in Nat
      BY <3>6, LenProperties
    <3>8. trows' \in Seq(ToSet(trows'))
      <4>1. trows' \in [1..Len(trows') -> ToSet(trows')]
        BY <3>6, <3>7, LenProperties DEF ToSet
      <4> QED BY <3>7, <4>1
    <3>9. ToSet(trows') \subseteq S
      BY <3>6, <3>7 DEF ToSet
    <3> QED BY <3>5, <3>8, <3>9
  <2>2. CASE trows' = <<>>
    <3>1. ToSet(trows') = {}
      BY <2>2 DEF ToSet
    <3> QED BY <2>2, <3>1
  <2>3. CASE trows' = trows
    BY <2>3 DEF TriageHolds
  <2>4. (TriageCase /\ pc' # "down") \/ trows' = <<>> \/ trows' = trows
    BY DEF TriageCase, Next, CampaignStep, Launch, CompleteStage, ExploreStart, ExploreEvaluate, ExplorePromote,
       ExploreRewrite, ExploreSummary, Intelligence, Corpus, TriageStart,
       TriageSummary, Evidence, Conclude, Change, Kill, GoDown, memory, vars
  <2> QED BY <2>1, <2>2, <2>3, <2>4
<1>2. ASSUME Made(4)'
      PROVE  /\ steady' => triaged'.by = <<st'.manifest, st'.engine>>
             /\ \A t \in ToSet(triaged'.rows) : Judged(t)
  <2>1. CASE Made(4)
    <3>1. UNCHANGED triaged /\ st # None /\ (steady' => steady)
      BY <1>0, <2>1 DEF StepHolds, Made, CheckpointHolds
    <3> QED BY <1>0, <2>1, <3>1 DEF TriageHolds
  <2>2. CASE TriageSummary
    <3>1. /\ triaged' = [rows |-> trows, by |-> <<manifest, engine>>] /\ UNCHANGED <<st, steady>>
          /\ pc = "triage"
      BY <2>2 DEF TriageSummary, Producer, world
    <3>2. steady => st.manifest = manifest /\ st.engine = engine
      BY <3>1 DEF CheckpointHolds
    <3> QED BY <3>1, <3>2 DEF TriageHolds
  <2> QED BY <1>0, <1>2, <2>1, <2>2 DEF StepHolds
<1> QED BY <1>1, <1>2 DEF TriageHolds

LEMMA VerdictStep ==
  ASSUME CheckpointHolds, VerdictHolds, [Next]_vars
  PROVE  VerdictHolds'
<1>0. /\ CheckpointHolds' /\ StepHolds /\ Done \in 0..5 /\ (st = None => Done = 0)
      /\ Made(5) => Made(1) /\ Made(2) /\ Made(3) /\ Made(4)
      /\ opt' = opt
  BY CampaignSteps, WhereItIs DEF Made, StepHolds
<1>1. ASSUME Made(5)', opt.publish PROVE (Artifacts \subseteq evid)'
  <2>1. CASE Made(5)
    <3>1. UNCHANGED <<cases, exsum, corpus, report, replay, triaged, evid>>
      BY <1>0, <2>1 DEF StepHolds
    <3>2. Artifacts' = Artifacts
      BY <3>1 DEF Artifacts, CaseFiles
    <3> QED BY <1>1, <2>1, <3>1, <3>2 DEF VerdictHolds
  <2>2. CASE Evidence
    <3>1. /\ evid' = evid \cup Artifacts
          /\ UNCHANGED <<cases, exsum, corpus, report, replay, triaged>>
      BY <1>1, <2>2 DEF Evidence
    <3>2. Artifacts' = Artifacts
      BY <3>1 DEF Artifacts, CaseFiles
    <3> QED BY <3>1, <3>2
  <2> QED BY <1>0, <1>1, <2>1, <2>2 DEF StepHolds
<1>2. ASSUME final' # None PROVE Done' = 5 /\ final' = Status'
  <2>1. Done = 5 /\ st # None /\ final' = Status
    <3>1. CASE Conclude
      BY <3>1, WhereItIs DEF Conclude, CheckpointHolds
    <3>2. CASE ~Conclude
      <4>1. final' = final
        BY <3>2 DEF Next, CampaignStep, Launch, CompleteStage, ExploreStart, ExploreEvaluate,
           ExplorePromote, ExploreRewrite, ExploreSummary, Intelligence, Corpus, TriageStart,
           TriageCase, TriageSummary, Evidence, Change, Kill, vars
      <4> QED BY <1>0, <1>2, <4>1 DEF VerdictHolds
    <3> QED BY <3>1, <3>2
  <2>2. Made(5) /\ Done <= Done' /\ st' # None
    BY <1>0, <2>1 DEF Made, StepHolds
  <2>3. UNCHANGED <<exsum, report, replay, triaged>>
    BY <1>0, <2>2 DEF StepHolds
  <2>4. Status' = Status
    BY <2>3 DEF Status, Findings
  <2>5. Done' \in 0..5
    BY <1>0, <2>2, CheckpointFacts DEF CheckpointHolds, Done
  <2> QED BY <2>1, <2>2, <2>4, <2>5
<1> QED BY <1>0, <1>1, <1>2 DEF VerdictHolds

LEMMA CampaignInvInit == Init => CampaignInv
<1> SUFFICES ASSUME Init PROVE CampaignInv
  OBVIOUS
<1>1. CheckpointHolds
  BY CheckpointInit
<1>2. /\ st = None /\ pc = "down" /\ replay = Missing /\ final = None /\ trows = <<>>
      /\ corpus \in Inherited /\ image = 0
  BY DEF Init
<1>3. ~Made(1) /\ ~Made(3) /\ ~Made(4) /\ ~Made(5)
  BY <1>2 DEF Made, Done
<1>4. ToSet(trows) = {}
  BY <1>2 DEF ToSet
<1>5. CorpusHolds
  BY <1>2, <1>3, CampaignAssumption DEF CorpusHolds
<1>6. TriageHolds
  BY <1>2, <1>3, <1>4 DEF TriageHolds
<1> QED BY <1>1, <1>2, <1>3, <1>5, <1>6 DEF CampaignInv, ReplayHolds, VerdictHolds

LEMMA CampaignInvInductive == CampaignInv /\ [Next]_vars => CampaignInv'
BY CampaignSteps, CorpusStep, ReplayStep, TriageStep, VerdictStep DEF CampaignInv

\* The verdict says no more than what was executed, replayed and compared, and reports a
\* regression exactly where a pinned case behaves otherwise, by one engine under one
\* manifest and on the image that was explored unless they changed under a running
\* campaign; and what it cites is in the evidence store if it is published: for any
\* guests and any switches of the manifest, however often the campaign was killed and
\* resumed.
THEOREM VerdictsAreSound == Spec => []VerdictSound
<1>1. CampaignInv => VerdictSound
  <2> SUFFICES ASSUME CampaignInv, final # None PROVE VerdictSound
    BY DEF VerdictSound
  <2>1. Done = 5 /\ final = Status /\ Made(5) /\ Made(4) /\ Made(3) /\ Made(1)
    BY DEF CampaignInv, VerdictHolds, Made
  <2>2. /\ opt.publish => Artifacts \subseteq evid
        /\ \A t \in ToSet(triaged.rows) : Judged(t)
    BY <2>1 DEF CampaignInv, TriageHolds, VerdictHolds
  <2>3. ASSUME final = "complete"
        PROVE  /\ \A i \in DOMAIN exsum.rows : exsum.rows[i].resp.ok
               /\ \A t \in ToSet(triaged.rows) : t.left = t.right
    <3>1. Findings = {}
      BY <2>1, <2>3 DEF Status
    <3>2. ~ \E i \in DOMAIN exsum.rows : ~exsum.rows[i].resp.ok
      BY <3>1 DEF Findings
    <3>3. ~ \E t \in ToSet(triaged.rows) : ~t.equal
      BY <3>1 DEF Findings
    <3> QED BY <2>2, <3>2, <3>3 DEF Judged
  <2>4. (final = "complete-with-regressions") <=> (replay # Missing /\ replay.failed # {})
    <3>1. "corpus-regression" \in Findings <=> (replay # Missing /\ replay.failed # {})
      BY DEF Findings
    <3> QED BY <2>1, <3>1 DEF Status
  <2>5. ASSUME steady
        PROVE  /\ (final = "complete-with-regressions") <=>
                    (opt.replay /\ \E id \in DOMAIN corpus : ReplayDiffs(id, exsum.img) # {})
               /\ replay # Missing => replay.by = exsum.by
               /\ triaged.by = exsum.by
    <3>1. /\ exsum.by = <<st.manifest, st.engine>> /\ triaged.by = <<st.manifest, st.engine>>
          /\ replay # Missing => /\ replay.by = <<st.manifest, st.engine>> /\ opt.replay
                                 /\ replay.failed = Regressed
          /\ opt.replay => replay # Missing \/ DOMAIN corpus = {}
      BY <2>1, <2>5 DEF CampaignInv, CorpusHolds, TriageHolds, ReplayHolds
    <3>2. Regressed # {} <=> \E id \in DOMAIN corpus : ReplayDiffs(id, exsum.img) # {}
      BY DEF Regressed
    <3>3. (replay # Missing /\ replay.failed # {}) <=> (opt.replay /\ Regressed # {})
      <4>1. DOMAIN corpus = {} => Regressed = {}
        BY DEF Regressed
      <4> QED BY <3>1, <4>1
    <3> QED BY <2>4, <3>1, <3>2, <3>3
  <2> QED BY <2>2, <2>3, <2>5 DEF VerdictSound, Judged
<1> QED BY <1>1, CampaignInvInit, CampaignInvInductive, PTL DEF Spec

-----------------------------------------------------------------------------
(* Orders *)

\* Every set of naturals has a least element.
LEMMA LeastNat ==
  ASSUME NEW T \in SUBSET Nat, T # {}
  PROVE  \E n \in T : \A m \in T : n <= m
<1> DEFINE R == OpToRel(<, Nat)
<1>1. IsWellFoundedOn(R, Nat)
  BY NatLessThanWellFounded
<1>2. \A x, y \in Nat : y < x => <<y, x>> \in R
  BY DEF OpToRel
<1> HIDE DEF R
<1>3. PICK x \in T : \A y \in T : ~ (<<y, x>> \in R)
  BY <1>1, WFMin
<1>4. x \in Nat /\ \A y \in T : y \in Nat /\ ~(y < x)
  BY <1>2, <1>3
<1> QED BY <1>3, <1>4

\* The smallest member of a family of finite sets.
LEMMA SmallestSet ==
  ASSUME NEW F, F # {}, \A T \in F : IsFiniteSet(T)
  PROVE  \E T \in F : \A U \in F : Cardinality(T) <= Cardinality(U)
<1> DEFINE N == {Cardinality(T) : T \in F}
<1>1. N \in SUBSET Nat /\ N # {}
  BY FS_CardinalityType
<1>2. PICK n \in N : \A m \in N : n <= m
  <2> HIDE DEF N
  <2> QED BY <1>1, LeastNat
<1> QED BY <1>2

\* A finite set has a first element in every total, transitive order.
LEMMA FirstOfFinite ==
  ASSUME NEW S, IsFiniteSet(S), S # {}, NEW R,
         \A x, y \in S : <<x, y>> \in R \/ <<y, x>> \in R,
         \A x, y, z \in S : <<x, y>> \in R /\ <<y, z>> \in R => <<x, z>> \in R
  PROVE  \E x \in S : \A y \in S : <<x, y>> \in R
<1> DEFINE First(T) == \E x \in T : \A y \in T : <<x, y>> \in R
           F == {T \in SUBSET S : T # {} /\ ~First(T)}
<1>1. SUFFICES ASSUME ~First(S) PROVE FALSE
  OBVIOUS
<1>2. S \in F /\ \A T \in F : IsFiniteSet(T)
  BY <1>1, FS_Subset
<1>3. PICK T \in F : \A U \in F : Cardinality(T) <= Cardinality(U)
  <2> HIDE DEF F
  <2> QED BY <1>2, SmallestSet
<1>4. PICK x \in T : TRUE
  BY <1>3
<1>5. Cardinality(T \ {x}) = Cardinality(T) - 1 /\ Cardinality(T) \in Nat
  <2>1. IsFiniteSet(T)
    BY <1>2, <1>3
  <2> QED BY <1>4, <2>1, FS_RemoveElement, FS_CardinalityType
<1>6. T \ {x} \notin F
  <2> HIDE DEF F
  <2> QED BY <1>3, <1>5
<1>7. CASE T \ {x} = {}
  BY <1>3, <1>4, <1>7
<1>8. CASE T \ {x} # {}
  <2>1. PICK z \in T \ {x} : \A y \in T \ {x} : <<z, y>> \in R
    BY <1>3, <1>6, <1>8
  <2>2. CASE <<z, x>> \in R
    BY <1>3, <2>1, <2>2
  <2>3. CASE <<x, z>> \in R
    <3>1. x \in S /\ z \in S /\ \A y \in T : y \in S
      BY <1>3, <1>4, <2>1
    <3>2. \A y \in T : <<x, y>> \in R
      BY <2>1, <2>3, <3>1
    <3> QED BY <1>3, <1>4, <3>2
  <2> QED BY <1>3, <1>4, <2>1, <2>2, <2>3
<1> QED BY <1>7, <1>8

\* Tuples of m numbers.
Tuples(S, m) ==
  /\ \A u \in S : DOMAIN u = 1..m /\ \A i \in 1..m : u[i] \in Nat
  /\ \A u, v \in S : (\A i \in 1..m : u[i] = v[i]) => u = v

\* Tuples are totally ordered.
LEMMA PrecedesIsOrder ==
  ASSUME NEW m \in Nat, NEW S, Tuples(S, m)
  PROVE  /\ \A u \in S : ~Precedes(u, u)
         /\ \A u, v \in S : u # v => Precedes(u, v) \/ Precedes(v, u)
         /\ \A u, v, w \in S : Precedes(u, v) /\ Precedes(v, w) => Precedes(u, w)
<1>1. \A u \in S : DOMAIN u = 1..m /\ \A i \in 1..m : u[i] \in Nat
  BY DEF Tuples
<1>2. \A u \in S : ~Precedes(u, u)
  BY <1>1 DEF Precedes
<1>3. ASSUME NEW u \in S, NEW v \in S, u # v PROVE Precedes(u, v) \/ Precedes(v, u)
  <2> DEFINE D == {i \in 1..m : u[i] # v[i]}
  <2>1. D \in SUBSET Nat /\ D # {}
    <3>1. ~ \A i \in 1..m : u[i] = v[i] BY <1>3 DEF Tuples
    <3>2. D # {} BY <3>1
    <3> QED BY <3>2
  <2>2. PICK i \in D : \A j \in D : i <= j
    <3> HIDE DEF D
    <3> QED BY <2>1, LeastNat
  <2>3. i \in 1..m /\ u[i] # v[i] /\ \A j \in 1..(i - 1) : u[j] = v[j] /\ v[j] = u[j]
    BY <2>2
  <2>4. u[i] < v[i] \/ v[i] < u[i]
    BY <1>1, <2>3
  <2> QED BY <1>1, <2>3, <2>4 DEF Precedes
<1>4. ASSUME NEW u \in S, NEW v \in S, NEW w \in S, Precedes(u, v), Precedes(v, w)
      PROVE  Precedes(u, w)
  <2>1. PICK i \in 1..m : u[i] < v[i] /\ \A j \in 1..(i - 1) : u[j] = v[j]
    BY <1>1, <1>4 DEF Precedes
  <2>2. PICK k \in 1..m : v[k] < w[k] /\ \A j \in 1..(k - 1) : v[j] = w[j]
    BY <1>1, <1>4 DEF Precedes
  <2>3. CASE i <= k
    <3>1. u[i] < w[i]
      <4>1. u[i] \in Nat /\ v[i] \in Nat /\ w[i] \in Nat BY <1>1
      <4>2. i = k \/ i \in 1..(k - 1) BY <2>3
      <4> QED BY <2>1, <2>2, <4>1, <4>2
    <3>2. \A j \in 1..(i - 1) : j \in 1..(k - 1) BY <2>3
    <3>3. \A j \in 1..(i - 1) : u[j] = w[j] BY <2>1, <2>2, <3>2
    <3> QED BY <1>1, <3>1, <3>3 DEF Precedes
  <2>4. CASE k < i
    <3>1. k \in 1..(i - 1) BY <2>4
    <3>2. u[k] < w[k] BY <2>1, <2>2, <3>1
    <3>3. \A j \in 1..(k - 1) : j \in 1..(i - 1) BY <2>4
    <3>4. \A j \in 1..(k - 1) : u[j] = w[j] BY <2>1, <2>2, <3>3
    <3> QED BY <1>1, <3>2, <3>4 DEF Precedes
  <2> QED BY <2>3, <2>4
<1> QED BY <1>2, <1>3, <1>4

\* InOrder lists the members of a set, each of them.
LEMMA InOrderIs ==
  ASSUME NEW m \in Nat, NEW S, IsFiniteSet(S), Tuples(S, m)
  PROVE  /\ Cardinality(S) \in Nat /\ DOMAIN InOrder(S) = 1..Cardinality(S)
         /\ \A n \in 1..Cardinality(S) : InOrder(S)[n] \in S
         /\ \A v \in S : \E n \in 1..Cardinality(S) : InOrder(S)[n] = v
<1> DEFINE Below(v) == {u \in S : Precedes(u, v)}
           N == Cardinality(S)
           rank == [v \in S |-> Cardinality(Below(v)) + 1]
<1>1. N \in Nat BY FS_CardinalityType
<1>2. /\ \A u \in S : ~Precedes(u, u)
      /\ \A u, v \in S : u # v => Precedes(u, v) \/ Precedes(v, u)
      /\ \A u, v, w \in S : Precedes(u, v) /\ Precedes(v, w) => Precedes(u, w)
  BY PrecedesIsOrder
<1>3. \A v \in S : Below(v) \in SUBSET S /\ v \notin Below(v) BY <1>2
<1>4. \A v \in S : IsFiniteSet(Below(v)) /\ Cardinality(Below(v)) \in Nat
  <2> HIDE DEF Below
  <2> QED BY <1>3, FS_Subset, FS_CardinalityType
<1>5. ASSUME NEW u \in S, NEW v \in S, Precedes(u, v)
      PROVE  Cardinality(Below(u)) < Cardinality(Below(v))
  <2>1. Below(u) \cup {u} \in SUBSET Below(v) BY <1>2, <1>5
  <2>2. u \notin Below(u) BY <1>3
  <2> HIDE DEF Below
  <2>3. Cardinality(Below(u) \cup {u}) = Cardinality(Below(u)) + 1
    BY <1>4, <2>2, FS_AddElement
  <2>4. Cardinality(Below(u) \cup {u}) <= Cardinality(Below(v))
    BY <1>4, <2>1, FS_Subset
  <2> QED BY <1>4, <2>3, <2>4
<1>6. \A v \in S : Cardinality(Below(v)) < N
  <2> SUFFICES ASSUME NEW v \in S PROVE Cardinality(Below(v)) < N OBVIOUS
  <2>1. Below(v) \in SUBSET S /\ Below(v) # S BY <1>3
  <2> HIDE DEF Below
  <2>2. Cardinality(Below(v)) <= N /\ Cardinality(Below(v)) # N BY <2>1, FS_Subset
  <2> QED BY <1>1, <1>4, <2>2
<1>7. rank \in Injection(S, 1..N)
  <2>1. rank \in [S -> 1..N]
    <3> HIDE DEF Below
    <3> QED BY <1>1, <1>4, <1>6
  <2>2. ASSUME NEW u \in S, NEW v \in S, rank[u] = rank[v] PROVE u = v
    <3>1. Cardinality(Below(u)) = Cardinality(Below(v))
      <4> HIDE DEF Below
      <4> QED BY <1>4, <2>2
    <3> HIDE DEF Below
    <3> QED BY <1>2, <1>4, <1>5, <3>1
  <2> QED BY <2>1, <2>2 DEF Injection, IsInjective
<1>8. IsFiniteSet(1..N) /\ Cardinality(1..N) = N BY <1>1, FS_Interval
<1>9. rank \in Surjection(S, 1..N)
  <2> HIDE DEF rank
  <2> QED BY <1>7, <1>8, FS_Injection
<1>10. \A n \in 1..N : \E v \in S : Cardinality(Below(v)) = n - 1
  <2>1. \A n \in 1..N : \E v \in S : rank[v] = n
    <3> HIDE DEF rank
    <3> QED BY <1>9 DEF Surjection
  <2> HIDE DEF Below
  <2> QED BY <1>1, <1>4, <2>1
<1>11. \A n \in 1..N : InOrder(S)[n] = CHOOSE v \in S : Cardinality(Below(v)) = n - 1
  BY Zenon DEF InOrder
<1>12. \A n \in 1..N : InOrder(S)[n] \in S /\ Cardinality(Below(InOrder(S)[n])) = n - 1
  <2> HIDE DEF Below
  <2> QED BY <1>10, <1>11, Zenon
<1>13. ASSUME NEW v \in S PROVE \E n \in 1..N : InOrder(S)[n] = v
  <2>1. PICK n : n = Cardinality(Below(v)) + 1 OBVIOUS
  <2> HIDE DEF Below
  <2>2. n \in 1..N /\ Cardinality(Below(v)) = n - 1 BY <1>1, <1>4, <1>6, <2>1
  <2>3. InOrder(S)[n] \in S /\ Cardinality(Below(InOrder(S)[n])) = Cardinality(Below(v)) BY <1>12, <2>2
  <2>4. InOrder(S)[n] = v BY <1>2, <1>4, <1>5, <2>3
  <2> QED BY <2>2, <2>4
<1>14. DOMAIN InOrder(S) = 1..N BY DEF InOrder
<1> QED BY <1>1, <1>12, <1>13, <1>14

-----------------------------------------------------------------------------
(* Axes and candidates *)

LEMMA AxesAre ==
  /\ Len(Axes) \in Nat /\ Len(Axes) # 0 /\ DOMAIN Axes = 1..Len(Axes)
  /\ \A i \in DOMAIN Axes : /\ Len(Axes[i]) \in Nat /\ Len(Axes[i]) # 0
                            /\ DOMAIN Axes[i] = 1..Len(Axes[i])
                            /\ \A v \in DOMAIN Axes[i] : Axes[i][v] \in Values
<1> DEFINE V == UNION {ToSet(Axes[i]) : i \in DOMAIN Axes}
<1>1. Axes \in Seq(Seq(V)) /\ Len(Axes) > 0 /\ \A i \in DOMAIN Axes : Len(Axes[i]) > 0
  BY ExplorationAssumption DEF ValidExploration
<1> HIDE DEF V
<1>2. Len(Axes) \in Nat /\ DOMAIN Axes = 1..Len(Axes) /\ \A i \in DOMAIN Axes : Axes[i] \in Seq(V)
  BY <1>1, LenProperties
<1>3. \A i \in DOMAIN Axes : Len(Axes[i]) \in Nat /\ DOMAIN Axes[i] = 1..Len(Axes[i])
  BY <1>2, LenProperties
<1>4. ASSUME NEW i \in DOMAIN Axes, NEW v \in DOMAIN Axes[i] PROVE Axes[i][v] \in Values
  <2>1. Axes[i][v] \in ToSet(Axes[i]) BY DEF ToSet
  <2> QED BY <2>1 DEF Values
<1> QED BY <1>1, <1>2, <1>3, <1>4

LEMMA NumbersFinite == Numbers \in SUBSET Nat /\ IsFiniteSet(Numbers)
<1> DEFINE F == [i \in DOMAIN Axes |-> DOMAIN Axes[i]]
           R == {DOMAIN Axes[i] : i \in DOMAIN Axes}
<1>1. IsFiniteSet(DOMAIN Axes) BY AxesAre, FS_Interval
<1>2. F \in Surjection(DOMAIN Axes, R)
  BY DEF Surjection
<1>3. IsFiniteSet(R)
  <2> HIDE DEF F, R
  <2> QED BY <1>1, <1>2, FS_Surjection
<1>4. \A T \in R : IsFiniteSet(T) /\ T \in SUBSET Nat
  <2> SUFFICES ASSUME NEW i \in DOMAIN Axes
               PROVE  IsFiniteSet(DOMAIN Axes[i]) /\ DOMAIN Axes[i] \in SUBSET Nat
    OBVIOUS
  <2>1. PICK n \in Nat : DOMAIN Axes[i] = 1..n BY AxesAre
  <2> QED BY <2>1, FS_Interval
<1> QED BY <1>3, <1>4, FS_UNION DEF Numbers

LEMMA PlacesAre == IsFiniteSet(Places) /\ Tuples(Places, 2)
<1>1. IsFiniteSet((DOMAIN Axes) \X Numbers)
  <2>1. IsFiniteSet(DOMAIN Axes) BY AxesAre, FS_Interval
  <2> QED BY <2>1, NumbersFinite, FS_Product
<1>2. IsFiniteSet(Places)
  <2>1. Places \in SUBSET ((DOMAIN Axes) \X Numbers) BY DEF Places
  <2> QED BY <1>1, <2>1, FS_Subset
<1>3. \A p \in Places : p[1] \in Nat /\ p[2] \in Nat /\ p = <<p[1], p[2]>>
  BY AxesAre, NumbersFinite DEF Places
<1>4. \A p \in Places : DOMAIN p = 1..2 /\ \A i \in 1..2 : p[i] \in Nat
  <2> SUFFICES ASSUME NEW p \in Places PROVE DOMAIN p = 1..2 /\ \A i \in 1..2 : p[i] \in Nat OBVIOUS
  <2>1. PICK x \in Nat, y \in Nat : p = <<x, y>> BY <1>3
  <2> QED BY <2>1
<1>5. \A p, q \in Places : (\A i \in 1..2 : p[i] = q[i]) => p = q
  BY <1>3
<1> QED BY <1>2, <1>4, <1>5 DEF Tuples

LEMMA VectorsAre == IsFiniteSet(Vectors) /\ Tuples(Vectors, Len(Axes))
<1> DEFINE D == DOMAIN Axes
           G == [v \in Vectors |-> {<<i, v[i]>> : i \in D}]
<1>0. \A v \in Vectors : v \in [D -> Numbers] BY DEF Vectors
<1>1. IsFiniteSet(SUBSET (D \X Numbers))
  <2>1. IsFiniteSet(DOMAIN Axes) BY AxesAre, FS_Interval
  <2>2. IsFiniteSet(D \X Numbers) BY <2>1, NumbersFinite, FS_Product
  <2> QED BY <2>2, FS_SUBSET
<1>2. G \in [Vectors -> SUBSET (D \X Numbers)]
  BY <1>0
<1>3. ASSUME NEW u \in Vectors, NEW v \in Vectors, G[u] = G[v] PROVE u = v
  <2>1. \A i \in D : <<i, u[i]>> \in G[v] BY <1>3
  <2>2. \A i \in D : u[i] = v[i] BY <2>1
  <2> QED BY <1>0, <2>2
<1>4. G \in Injection(Vectors, SUBSET (D \X Numbers))
  BY <1>2, <1>3 DEF Injection, IsInjective
<1>5. IsFiniteSet(Vectors)
  <2> HIDE DEF G
  <2> QED BY <1>1, <1>4, FS_Injection
<1>6. \A v \in Vectors : DOMAIN v = 1..Len(Axes) /\ \A i \in 1..Len(Axes) : v[i] \in Nat
  BY <1>0, AxesAre, NumbersFinite
<1>7. \A u, v \in Vectors : (\A i \in 1..Len(Axes) : u[i] = v[i]) => u = v
  BY <1>0, AxesAre
<1> QED BY <1>5, <1>6, <1>7 DEF Tuples

LEMMA CandidateIs ==
  ASSUME NEW a \in Points, NEW p \in Nat, NEW x \in Nat
  PROVE  Candidate(a, p, x) \in Candidates /\ Candidate(a, p, x).a = a
BY DEF Candidate, Candidates

\* Every combination of the axes' values is in the product.
LEMMA ProductIs ==
  /\ \E n \in Nat : DOMAIN Product = 1..n
  /\ \A k \in DOMAIN Product : Product[k] \in Points
  /\ \A a \in Assignments : \E k \in DOMAIN Product : Product[k] = a
<1> DEFINE picks == InOrder(Vectors)
           N == Cardinality(Vectors)
           Point(v) == [i \in DOMAIN Axes |-> Axes[i][v[i]]]
<1>1. /\ N \in Nat /\ DOMAIN picks = 1..N
      /\ \A n \in 1..N : picks[n] \in Vectors
      /\ \A v \in Vectors : \E n \in 1..N : picks[n] = v
  BY VectorsAre, AxesAre, InOrderIs
<1>2. /\ DOMAIN Product = DOMAIN picks
      /\ \A n \in DOMAIN picks : Product[n] = Point(picks[n])
  BY DEF Product
<1>3. \A v \in Vectors : Point(v) \in Points
  BY AxesAre DEF Vectors, Points
<1>4. ASSUME NEW a \in Assignments PROVE \E v \in Vectors : Point(v) = a
  <2>1. /\ \A i \in DOMAIN Axes : \E w \in DOMAIN Axes[i] : Axes[i][w] = a[i]
        /\ a = [i \in DOMAIN Axes |-> a[i]]
    BY DEF Assignments, ToSet
  <2>2. PICK v : v = [i \in DOMAIN Axes |-> CHOOSE w \in DOMAIN Axes[i] : Axes[i][w] = a[i]]
    OBVIOUS
  <2>3. \A i \in DOMAIN Axes : v[i] \in DOMAIN Axes[i] /\ Axes[i][v[i]] = a[i]
    BY <2>1, <2>2
  <2>4. \A i \in DOMAIN Axes : DOMAIN Axes[i] \subseteq Numbers BY DEF Numbers
  <2>5. v \in Vectors
    <3>1. v \in [DOMAIN Axes -> Numbers] BY <2>2, <2>3, <2>4
    <3> QED BY <2>3, <3>1 DEF Vectors
  <2>6. Point(v) = a BY <2>1, <2>3
  <2> QED BY <2>5, <2>6
<1> HIDE DEF picks, N, Point
<1>5. \A a \in Assignments : \E k \in DOMAIN Product : Product[k] = a
  BY <1>1, <1>2, <1>4
<1>6. \E n \in Nat : DOMAIN Product = 1..n BY <1>1, <1>2
<1>7. \A k \in DOMAIN Product : Product[k] \in Points BY <1>1, <1>2, <1>3
<1> QED BY <1>5, <1>6, <1>7

\* The search starts from the baseline or with all combinations.
LEMMA InitialFrontierIs ==
  ASSUME NEW strategy
  PROVE  /\ InitialFrontier(strategy) \in Seq(Candidates)
         /\ strategy = "cartesian" => Assignments \subseteq Queued(InitialFrontier(strategy))
         /\ strategy # "cartesian" => Baseline \in Queued(InitialFrontier(strategy))
<1>1. CASE strategy = "cartesian"
  <2>1. PICK f : f = [i \in DOMAIN Product |-> Candidate(Product[i], 0, 0)] OBVIOUS
  <2>2. InitialFrontier(strategy) = f BY <1>1, <2>1 DEF InitialFrontier
  <2>3. \A k \in DOMAIN Product : f[k] \in Candidates /\ f[k].a = Product[k]
    BY <2>1, ProductIs, CandidateIs
  <2>4. PICK n \in Nat : DOMAIN Product = 1..n BY ProductIs
  <2>5. f \in [1..n -> Candidates] /\ DOMAIN f = 1..n BY <2>1, <2>3, <2>4
  <2>6. f \in Seq(Candidates) BY <2>5
  <2>7. \A a \in Assignments : \E k \in DOMAIN f : f[k].a = a
    BY <2>3, <2>4, <2>5, ProductIs
  <2>8. Assignments \subseteq Queued(f) BY <2>7 DEF Queued
  <2> QED BY <1>1, <2>2, <2>6, <2>8
<1>2. CASE strategy # "cartesian"
  <2>1. Baseline \in Points
    <3>1. DOMAIN Base = DOMAIN Axes
      BY ExplorationAssumption, AxesAre, LenProperties DEF ValidExploration
    <3>2. ASSUME NEW i \in DOMAIN Axes
          PROVE (IF Base[i] = NoValue THEN Axes[i][1] ELSE Base[i]) \in Values
      <4>1. Axes[i][1] \in Values
        <5>1. 1 \in DOMAIN Axes[i] BY AxesAre
        <5> QED BY <5>1, AxesAre
      <4>2. Base[i] \in ToSet(Base) BY <3>1 DEF ToSet
      <4>3. Base[i] # NoValue => Base[i] \in Values BY <4>2 DEF Values
      <4> QED BY <4>1, <4>3
    <3> QED BY <3>2 DEF Baseline, Points
  <2>2. PICK c \in Candidates : c = Candidate(Baseline, 0, 0) /\ c.a = Baseline
    BY <2>1, CandidateIs
  <2>3. InitialFrontier(strategy) = <<c>> BY <1>2, <2>2 DEF InitialFrontier
  <2>4. <<c>> \in Seq(Candidates) OBVIOUS
  <2>5. Baseline \in Queued(<<c>>) BY <2>2 DEF Queued
  <2> QED BY <1>2, <2>3, <2>4, <2>5
<1> QED BY <1>1, <1>2

\* Every value of every axis of a new row is evaluated, queued or among its children.
LEMMA ChildrenAre ==
  ASSUME NEW rs, NEW fs, NEW idx \in Nat, rs[idx].a \in Points
  PROVE  /\ Children(rs, fs, idx) \in Seq(Candidates)
         /\ \A i \in DOMAIN Axes : \A v \in ToSet(Axes[i]) :
              [rs[idx].a EXCEPT ![i] = v] \in
                {rs[idx].a} \cup Reached(rs, fs) \cup Queued(Children(rs, fs, idx))
<1>1. PICK a \in Points : a = rs[idx].a OBVIOUS
<1> DEFINE F == Fresh(rs, fs, a)
           places == InOrder(F)
           N == Cardinality(F)
           C == Children(rs, fs, idx)
<1>2. F \in SUBSET Places BY DEF Fresh
<1>3. IsFiniteSet(F) /\ Tuples(F, 2)
  <2> HIDE DEF F
  <2> QED BY <1>2, PlacesAre, FS_Subset DEF Tuples
<1>4. /\ N \in Nat /\ DOMAIN places = 1..N
      /\ \A n \in 1..N : places[n] \in F
      /\ \A p \in F : \E n \in 1..N : places[n] = p
  <2> HIDE DEF F
  <2> QED BY <1>3, InOrderIs
<1>5. C = [n \in DOMAIN places |-> Candidate(Child(a, places[n]), idx, places[n][1])]
  BY <1>1, Zenon DEF Children
<1>6. ASSUME NEW p \in Places PROVE Child(a, p) \in Points /\ p[1] \in Nat
  <2>1. p[1] \in DOMAIN Axes /\ p[2] \in DOMAIN Axes[p[1]] BY DEF Places
  <2>2. Axes[p[1]][p[2]] \in Values BY <2>1, AxesAre
  <2>3. p[1] \in Nat BY <2>1, AxesAre
  <2> QED BY <2>2, <2>3 DEF Points, Child
<1> HIDE DEF places, N, F, C
<1>7. \A n \in 1..N : C[n] \in Candidates /\ C[n].a = Child(a, places[n])
  <2> SUFFICES ASSUME NEW n \in 1..N PROVE C[n] \in Candidates /\ C[n].a = Child(a, places[n]) OBVIOUS
  <2>1. Child(a, places[n]) \in Points /\ places[n][1] \in Nat BY <1>2, <1>4, <1>6
  <2>2. C[n] = Candidate(Child(a, places[n]), idx, places[n][1]) BY <1>4, <1>5
  <2> QED BY <2>1, <2>2, CandidateIs
<1>8. C \in Seq(Candidates)
  <2>1. DOMAIN C = 1..N BY <1>4, <1>5
  <2>2. C \in [1..N -> Candidates] BY <1>4, <1>5, <1>7
  <2> QED BY <1>4, <2>2
<1>9. ASSUME NEW i \in DOMAIN Axes, NEW v \in ToSet(Axes[i])
      PROVE  [a EXCEPT ![i] = v] \in {a} \cup Reached(rs, fs) \cup Queued(C)
  <2>1. CASE v = a[i]
    <3>1. [a EXCEPT ![i] = v] = a BY <2>1 DEF Points
    <3> QED BY <3>1
  <2>2. CASE v # a[i]
    <3> DEFINE W == {w \in DOMAIN Axes[i] : Axes[i][w] = v}
    <3>1. W # {} /\ W \in SUBSET Nat BY AxesAre DEF ToSet
    <3>2. PICK w \in W : \A x \in W : w <= x
      <4> HIDE DEF W
      <4> QED BY <3>1, LeastNat
    <3>3. w \in DOMAIN Axes[i] /\ Axes[i][w] = v /\ w \in Nat BY <3>1, <3>2
    <3>4. \A x \in 1..(w - 1) : Axes[i][x] # v
      <4> SUFFICES ASSUME NEW x \in 1..(w - 1), Axes[i][x] = v PROVE FALSE OBVIOUS
      <4>1. x \in DOMAIN Axes[i]
        <5>1. PICK n \in Nat : DOMAIN Axes[i] = 1..n BY AxesAre
        <5> QED BY <3>3, <5>1
      <4>2. x \in W BY <4>1
      <4> HIDE DEF W
      <4> QED BY <3>2, <3>3, <4>2
    <3>5. PICK p : p = <<i, w>> OBVIOUS
    <3>6. p[1] = i /\ p[2] = w BY <3>5
    <3>7. p \in Places
      <4>1. w \in Numbers BY <3>3 DEF Numbers
      <4>2. p \in (DOMAIN Axes) \X Numbers BY <3>5, <4>1
      <4> QED BY <3>3, <3>6, <4>2 DEF Places
    <3>8. Child(a, p) = [a EXCEPT ![i] = v] BY <3>3, <3>6 DEF Child
    <3>9. CASE Child(a, p) \in Reached(rs, fs) BY <3>8, <3>9
    <3>10. CASE Child(a, p) \notin Reached(rs, fs)
      <4>1. /\ Child(a, p) \notin Evaluated(rs)
            /\ \A k \in DOMAIN fs : fs[k].a # Child(a, p)
        BY <3>10 DEF Reached, Queued
      <4>2. /\ Axes[p[1]][p[2]] # a[p[1]]
            /\ \A x \in 1..(p[2] - 1) : Axes[p[1]][x] # Axes[p[1]][p[2]]
        BY <2>2, <3>3, <3>4, <3>6
      <4>3. p \in F BY <3>7, <4>1, <4>2, Zenon DEF F, Fresh
      <4>4. PICK n \in 1..N : places[n] = p BY <1>4, <4>3
      <4>5. C[n].a = Child(a, p) /\ n \in DOMAIN C BY <1>4, <1>5, <1>7, <4>4
      <4>6. Child(a, p) \in Queued(C) BY <4>5 DEF Queued
      <4> QED BY <3>8, <4>6
    <3> QED BY <3>9, <3>10
  <2> QED BY <2>1, <2>2
<1> QED BY <1>1, <1>8, <1>9 DEF C

-----------------------------------------------------------------------------
(* The next candidate *)

\* A priority is a fraction.
LEMMA PriorityIs ==
  ASSUME NEW rs, Countable(rs), NEW x
  PROVE  \E p \in Nat, q \in Nat : q > 0 /\ AxisPriority(rs, x) = <<p, q>>
<1> DEFINE T == Indices(rs, LAMBDA r : r.axis = x)
           M == T \cap NovelRows(rs)
           P == {{i} \X rs[i].newpcs : i \in T}
<1>1. IsFiniteSet(DOMAIN rs) BY FS_Interval DEF Countable
<1>2. T \in SUBSET DOMAIN rs BY DEF Indices
<1>3. IsFiniteSet(T)
  <2> HIDE DEF T
  <2> QED BY <1>1, <1>2, FS_Subset
<1>4. IsFiniteSet(M)
  <2> HIDE DEF T
  <2>1. M \in SUBSET T OBVIOUS
  <2> QED BY <1>3, <2>1, FS_Subset
<1>5. IsFiniteSet(UNION P)
  <2>1. PICK f : f = [i \in T |-> {i} \X rs[i].newpcs] OBVIOUS
  <2>2. f \in Surjection(T, P)
    <3> HIDE DEF T
    <3> QED BY <2>1 DEF Surjection
  <2>3. IsFiniteSet(P)
    <3> HIDE DEF P, T
    <3> QED BY <1>3, <2>2, FS_Surjection
  <2>4. ASSUME NEW i \in T PROVE IsFiniteSet({i} \X rs[i].newpcs)
    <3> HIDE DEF T
    <3>1. IsFiniteSet({i}) BY FS_Singleton
    <3>2. IsFiniteSet(rs[i].newpcs) BY <1>2 DEF Countable
    <3> QED BY <3>1, <3>2, FS_Product
  <2>5. \A S \in P : IsFiniteSet(S)
    <3> HIDE DEF T
    <3> QED BY <2>4
  <2> HIDE DEF P
  <2> QED BY <2>3, <2>5, FS_UNION
<1>6. PICK t \in Nat, m \in Nat, u \in Nat :
         t = Cardinality(T) /\ m = Cardinality(M) /\ u = Cardinality(UNION P)
  <2> HIDE DEF T, M, P
  <2> QED BY <1>3, <1>4, <1>5, FS_CardinalityType
<1>7. PICK c \in Nat : c = IF u < 1000 * (t + 1) THEN u ELSE 1000 * (t + 1)
  <2> HIDE DEF T, M, P
  <2>1. 1000 * (t + 1) \in Nat OBVIOUS
  <2>2. CASE u < 1000 * (t + 1) BY <2>2
  <2>3. CASE ~(u < 1000 * (t + 1)) BY <2>1, <2>3
  <2> QED BY <2>2, <2>3
<1>8. AxisPriority(rs, x) = <<100 * (m + 1) * (t + 1) + c * (t + 2), 100 * (t + 2) * (t + 1)>>
  <2>1. AxisPriority(rs, x) =
          LET most == 1000 * (Cardinality(T) + 1) IN
          <<100 * (Cardinality(M) + 1) * (Cardinality(T) + 1)
              + (IF Cardinality(UNION P) < most THEN Cardinality(UNION P) ELSE most) * (Cardinality(T) + 2),
            100 * (Cardinality(T) + 2) * (Cardinality(T) + 1)>>
    BY Zenon DEF AxisPriority
  <2> HIDE DEF T, M, P
  <2>2. AxisPriority(rs, x) =
          <<100 * (m + 1) * (t + 1) + (IF u < 1000 * (t + 1) THEN u ELSE 1000 * (t + 1)) * (t + 2),
            100 * (t + 2) * (t + 1)>>
    BY <1>6, <2>1
  <2> QED BY <1>7, <2>2, Zenon
<1>9. 100 * (m + 1) * (t + 1) + c * (t + 2) \in Nat
  <2>1. \A i, j \in Nat : i * j \in Nat OBVIOUS
  <2>2. 100 * (m + 1) * (t + 1) \in Nat /\ c * (t + 2) \in Nat BY <2>1
  <2> QED BY <2>2
<1>10. 100 * (t + 2) * (t + 1) \in Nat /\ 100 * (t + 2) * (t + 1) > 0
  <2>1. \A i, j \in Nat : i > 0 /\ j > 0 => i * j \in Nat /\ i * j > 0 OBVIOUS
  <2>2. 100 * (t + 2) \in Nat /\ 100 * (t + 2) > 0 /\ t + 1 \in Nat /\ t + 1 > 0 OBVIOUS
  <2> QED BY <2>1, <2>2
<1> QED BY <1>8, <1>9, <1>10

\* Fractions compare like numbers.
LEMMA Fractions ==
  ASSUME NEW a \in Nat, NEW b \in Nat, NEW c \in Nat, NEW d \in Nat, NEW e \in Nat, NEW f \in Nat,
         b > 0, d > 0, f > 0, a * d > c * b
  PROVE  a * f > e * b \/ e * d > c * f
<1> SUFFICES ASSUME a * f <= e * b, e * d <= c * f PROVE FALSE OBVIOUS
<1>0. \A i, j \in Nat : i * j \in Nat OBVIOUS
<1>1. \A i, j, k \in Nat : i <= j => i * k <= j * k OBVIOUS
<1>2. \A i, j, k \in Nat : i < j /\ k > 0 => i * k < j * k OBVIOUS
<1>3. (a * f) * d <= (e * b) * d BY <1>0, <1>1
<1>4. (e * d) * b <= (c * f) * b BY <1>0, <1>1
<1>5. (c * b) * f < (a * d) * f BY <1>0, <1>2
<1>6. /\ (a * f) * d = (a * d) * f /\ (e * b) * d = (e * d) * b /\ (c * f) * b = (c * b) * f
      /\ (a * f) * d \in Nat /\ (e * d) * b \in Nat /\ (c * b) * f \in Nat
  BY <1>0
<1> QED BY <1>3, <1>4, <1>5, <1>6

\* Priorities order the axes weakly.
LEMMA PriorityOrders ==
  ASSUME NEW rs, Countable(rs), NEW x, NEW y, NEW z
  PROVE  /\ ~(HigherPriority(rs, x, y) /\ HigherPriority(rs, y, x))
         /\ HigherPriority(rs, x, y) => HigherPriority(rs, x, z) \/ HigherPriority(rs, z, y)
<1>1. PICK a \in Nat, b \in Nat : b > 0 /\ AxisPriority(rs, x) = <<a, b>> BY PriorityIs
<1>2. PICK c \in Nat, d \in Nat : d > 0 /\ AxisPriority(rs, y) = <<c, d>> BY PriorityIs
<1>3. PICK e \in Nat, f \in Nat : f > 0 /\ AxisPriority(rs, z) = <<e, f>> BY PriorityIs
<1>4. /\ HigherPriority(rs, x, y) <=> (x = 0 /\ y # 0) \/ (x # 0 /\ y # 0 /\ a * d > c * b)
      /\ HigherPriority(rs, y, x) <=> (y = 0 /\ x # 0) \/ (y # 0 /\ x # 0 /\ c * b > a * d)
      /\ HigherPriority(rs, x, z) <=> (x = 0 /\ z # 0) \/ (x # 0 /\ z # 0 /\ a * f > e * b)
      /\ HigherPriority(rs, z, y) <=> (z = 0 /\ y # 0) \/ (z # 0 /\ y # 0 /\ e * d > c * f)
  BY <1>1, <1>2, <1>3 DEF HigherPriority
<1>5. a * d > c * b => a * f > e * b \/ e * d > c * f BY <1>1, <1>2, <1>3, Fractions
<1>6. ~(a * d > c * b /\ c * b > a * d) OBVIOUS
<1> QED BY <1>4, <1>5, <1>6

\* There is a candidate to pop, in every strategy.
LEMMA PopIndexIs ==
  ASSUME NEW strategy, NEW rs, Countable(rs), NEW fs \in Seq(Candidates), fs # <<>>
  PROVE  PopIndex(strategy, rs, fs) \in DOMAIN fs
<1>1. Len(fs) \in Nat /\ DOMAIN fs = 1..Len(fs) /\ Len(fs) # 0
  BY LenProperties, EmptySeq
<1>2. CASE strategy # "adaptive" BY <1>1, <1>2 DEF PopIndex
<1>3. CASE strategy = "adaptive"
  <2> DEFINE D == DOMAIN fs
             H(k, l) == HigherPriority(rs, fs[k].axis, fs[l].axis)
             R == {q \in D \X D : H(q[1], q[2]) \/ (~H(q[2], q[1]) /\ q[1] <= q[2])}
  <2>1. /\ \A k, l \in D : ~(H(k, l) /\ H(l, k))
        /\ \A k, l, m \in D : H(k, l) => H(k, m) \/ H(m, l)
    BY PriorityOrders
  <2> HIDE DEF H
  <2>2. \A k, l \in D : <<k, l>> \in R <=> H(k, l) \/ (~H(l, k) /\ k <= l) OBVIOUS
  <2>3. \A k \in D : k \in Nat BY <1>1
  <2> HIDE DEF R
  <2>4. ASSUME NEW k \in D, NEW l \in D PROVE <<k, l>> \in R \/ <<l, k>> \in R
    <3>1. k <= l \/ l <= k BY <2>3
    <3> QED BY <2>2, <3>1, Zenon
  <2>5. ASSUME NEW k \in D, NEW l \in D, NEW m \in D, <<k, l>> \in R, <<l, m>> \in R
        PROVE  <<k, m>> \in R
    <3>1. k <= l /\ l <= m => k <= m BY <2>3
    <3> QED BY <2>1, <2>2, <2>5, <3>1, Zenon
  <2>6. IsFiniteSet(D) /\ D # {}
    <3>1. 1 \in D BY <1>1
    <3>2. PICK n \in Nat : D = 1..n BY <1>1
    <3> HIDE DEF D
    <3>3. IsFiniteSet(1..n) BY FS_Interval
    <3> QED BY <3>1, <3>2, <3>3
  <2> HIDE DEF D
  <2>7. PICK k \in D : \A l \in D : <<k, l>> \in R BY <2>4, <2>5, <2>6, FirstOfFinite
  <2>8. \A l \in D : ~H(l, k) BY <2>1, <2>2, <2>7
  <2>9. \A l \in 1..(k - 1) : H(k, l)
    <3> SUFFICES ASSUME NEW l \in 1..(k - 1) PROVE H(k, l) OBVIOUS
    <3>1. l \in D /\ ~(k <= l) BY <1>1, <2>3 DEF D
    <3> QED BY <2>2, <2>7, <3>1
  <2>10. \E n \in D : (\A l \in D : ~H(l, n)) /\ \A l \in 1..(n - 1) : H(n, l)
    BY <2>8, <2>9
  <2>11. PopIndex(strategy, rs, fs) =
           CHOOSE n \in D : (\A l \in D : ~H(l, n)) /\ \A l \in 1..(n - 1) : H(n, l)
    BY <1>3, Zenon DEF PopIndex, D, H
  <2>12. PopIndex(strategy, rs, fs) \in D BY <2>10, <2>11, Zenon
  <2> QED BY <2>12 DEF D
<1> QED BY <1>2, <1>3

\* What is left when a candidate is popped.
LEMMA RemoveAtIs ==
  ASSUME NEW S, NEW s \in Seq(S), NEW k \in DOMAIN s
  PROVE  /\ RemoveAt(s, k) \in Seq(S)
         /\ \A i \in DOMAIN s : i # k => \E j \in DOMAIN RemoveAt(s, k) : RemoveAt(s, k)[j] = s[i]
<1>1. PICK n \in Nat : n = Len(s) /\ DOMAIN s = 1..n BY LenProperties
<1>2. k \in 1..n BY <1>1
<1> DEFINE u == SubSeq(s, 1, k - 1)
           v == SubSeq(s, k + 1, n)
<1>3. /\ u \in Seq(S) /\ Len(u) = k - 1 /\ \A i \in 1..(k - 1) : u[i] = s[i]
  <2>1. \A i \in 1..(k - 1) : s[i] \in S BY <1>1, <1>2, ElementOfSeq
  <2> QED BY <1>1, <1>2, <2>1, SubSeqProperties
<1>4. /\ v \in Seq(S) /\ Len(v) = n - k /\ \A i \in 1..(n - k) : v[i] = s[k + i]
  <2>1. \A i \in (k + 1)..n : s[i] \in S BY <1>1, <1>2, ElementOfSeq
  <2> QED BY <1>1, <1>2, <2>1, SubSeqProperties
<1>5. RemoveAt(s, k) = u \o v BY <1>1, Zenon DEF RemoveAt
<1> HIDE DEF u, v
<1>6. /\ u \o v \in Seq(S) /\ Len(u \o v) = n - 1 /\ DOMAIN (u \o v) = 1..(n - 1)
      /\ \A i \in 1..(n - 1) : (u \o v)[i] = IF i <= k - 1 THEN u[i] ELSE v[i - (k - 1)]
  <2>1. PICK w : w = u \o v OBVIOUS
  <2>2. /\ w \in Seq(S) /\ Len(w) = (k - 1) + (n - k)
        /\ \A i \in 1..((k - 1) + (n - k)) : w[i] = IF i <= k - 1 THEN u[i] ELSE v[i - (k - 1)]
    BY <1>3, <1>4, <2>1, ConcatProperties
  <2>3. (k - 1) + (n - k) = n - 1 BY <1>1, <1>2
  <2>4. DOMAIN w = 1..(n - 1) BY <2>2, <2>3, LenProperties
  <2> QED BY <2>1, <2>2, <2>3, <2>4
<1>7. ASSUME NEW i \in DOMAIN s, i # k
      PROVE  \E j \in DOMAIN (u \o v) : (u \o v)[j] = s[i]
  <2>1. CASE i < k
    <3>1. i \in 1..(n - 1) /\ i \in 1..(k - 1) BY <1>1, <1>2, <2>1
    <3> QED BY <1>3, <1>6, <3>1
  <2>2. CASE i > k
    <3>1. i - 1 \in 1..(n - 1) /\ ~(i - 1 <= k - 1) /\ i - k \in 1..(n - k) BY <1>1, <1>2, <2>2
    <3>2. (u \o v)[i - 1] = v[i - k]
      <4>1. (i - 1) - (k - 1) = i - k BY <1>1, <1>2
      <4> QED BY <1>6, <3>1, <4>1
    <3>3. v[i - k] = s[i]
      <4>1. k + (i - k) = i BY <1>1, <1>2
      <4> QED BY <1>4, <3>1, <4>1
    <3> QED BY <1>6, <3>1, <3>2, <3>3
  <2> QED BY <1>1, <1>2, <1>7, <2>1, <2>2
<1> QED BY <1>5, <1>6, <1>7

LEMMA PopLeaves ==
  ASSUME NEW fs \in Seq(Candidates), NEW k \in DOMAIN fs
  PROVE  /\ RemoveAt(fs, k) \in Seq(Candidates)
         /\ Queued(fs) \subseteq Queued(RemoveAt(fs, k)) \cup {fs[k].a}
<1>1. RemoveAt(fs, k) \in Seq(Candidates) BY RemoveAtIs
<1>2. ASSUME NEW i \in DOMAIN fs, i # k
      PROVE  fs[i].a \in Queued(RemoveAt(fs, k))
  <2>1. PICK j \in DOMAIN RemoveAt(fs, k) : RemoveAt(fs, k)[j] = fs[i]
    BY <1>2, RemoveAtIs
  <2> QED BY <2>1 DEF Queued
<1> QED BY <1>1, <1>2 DEF Queued

-----------------------------------------------------------------------------
(* Rows, and what evaluating one does *)

LEMMA NovelRowsAre ==
  ASSUME NEW rs
  PROVE  NovelRows(rs) = {i \in DOMAIN rs : rs[i].novel}
BY DEF NovelRows, Indices

LEMMA RowsAre ==
  ASSUME NEW rs, RowsHold(rs)
  PROVE  /\ Countable(rs)
         /\ \E n \in Nat : n = Len(rs) /\ DOMAIN rs = 1..n /\ n <= MaxCases
<1>1. \E n \in Nat : n = Len(rs) /\ DOMAIN rs = 1..n /\ n <= MaxCases BY LenProperties DEF RowsHold
<1>2. \A i \in DOMAIN rs : IsFiniteSet(rs[i].newpcs) BY DEF RowsHold, RowHolds
<1> QED BY <1>1, <1>2 DEF Countable

\* A sequence with one more row.
LEMMA AppendIs ==
  ASSUME NEW rs, rs \in Seq(ToSet(rs)), NEW row
  PROVE  /\ Append(rs, row) \in Seq(ToSet(Append(rs, row)))
         /\ Len(Append(rs, row)) = Len(rs) + 1
         /\ DOMAIN Append(rs, row) = 1..(Len(rs) + 1)
         /\ \A i \in DOMAIN rs : Append(rs, row)[i] = rs[i]
         /\ Append(rs, row)[Len(rs) + 1] = row
<1> DEFINE S == ToSet(rs) \cup {row}
           r2 == Append(rs, row)
<1>0. PICK n \in Nat : n = Len(rs) /\ DOMAIN rs = 1..n BY LenProperties
<1>1. rs \in Seq(S) /\ row \in S BY SeqMonotonic
<1> HIDE DEF S
<1>2. /\ r2 \in Seq(S) /\ Len(r2) = n + 1 /\ \A i \in 1..n : r2[i] = rs[i]
      /\ r2[n + 1] = row
  BY <1>0, <1>1, AppendProperties
<1> HIDE DEF r2
<1>3. DOMAIN r2 = 1..(n + 1) BY <1>2, LenProperties
<1>4. r2 \in [1..(n + 1) -> ToSet(r2)]
  <2>1. \A i \in 1..(n + 1) : r2[i] \in ToSet(r2) BY <1>3 DEF ToSet
  <2>2. r2 = [i \in 1..(n + 1) |-> r2[i]] BY <1>2, <1>3
  <2> QED BY <2>1, <2>2
<1>5. r2 \in Seq(ToSet(r2)) BY <1>4
<1> QED BY <1>0, <1>2, <1>3, <1>5 DEF r2

LEMMA EmptyRows == RowsHold(<<>>)
<1>1. DOMAIN <<>> = {} /\ Len(<<>>) = 0 /\ \A S : <<>> \in Seq(S) OBVIOUS
<1> QED BY <1>1, ExplorationAssumption DEF RowsHold, ValidExploration

LEMMA StartCovers ==
  ASSUME NEW strategy
  PROVE  /\ InitialFrontier(strategy) \in Seq(Candidates)
         /\ Covers(strategy, <<>>, InitialFrontier(strategy))
<1>1. NovelRows(<<>>) = {} BY NovelRowsAre
<1>2. Around(<<>>, InitialFrontier(strategy)) BY <1>1 DEF Around
<1> QED BY <1>2, InitialFrontierIs DEF Covers, Reached

\* A search that covers still does when more is reached, by the same rows.
LEMMA CoversMore ==
  ASSUME NEW strategy, NEW rs, NEW fs, NEW gs, Covers(strategy, rs, fs),
         Reached(rs, fs) \subseteq Reached(rs, gs)
  PROVE  Covers(strategy, rs, gs)
<1>1. Around(rs, fs) => Around(rs, gs) BY DEF Around
<1> QED BY <1>1 DEF Covers

\* A candidate that was evaluated before is dropped.
LEMMA SkipCovers ==
  ASSUME NEW strategy, NEW rs, NEW fs \in Seq(Candidates), NEW k \in DOMAIN fs,
         fs[k].a \in Evaluated(rs), Covers(strategy, rs, fs)
  PROVE  RemoveAt(fs, k) \in Seq(Candidates) /\ Covers(strategy, rs, RemoveAt(fs, k))
<1>1. RemoveAt(fs, k) \in Seq(Candidates) BY PopLeaves
<1>2. Reached(rs, fs) \subseteq Reached(rs, RemoveAt(fs, k)) BY PopLeaves DEF Reached
<1> QED BY <1>1, <1>2, CoversMore

\* A row says what was executed, and is novel or of a known behaviour.
LEMMA NewRowIs ==
  ASSUME NEW rs, NEW c \in Candidates, NEW resp, IsFiniteSet(DOMAIN resp.trace),
         NEW row, row = NewRow(rs, c, resp)
  PROVE  /\ RowHolds(row) /\ row.a = c.a
         /\ row.novel \/ row.behavior \in SeenBehaviors(rs)
<1> DEFINE T == TracePcs(resp)
<1>1. IsFiniteSet(T)
  <2>1. PICK f : f = [i \in DOMAIN resp.trace |-> resp.trace[i][1]] OBVIOUS
  <2>2. f \in Surjection(DOMAIN resp.trace, T) BY <2>1 DEF TracePcs, Surjection
  <2> HIDE DEF T
  <2> QED BY <2>2, FS_Surjection
<1>2. row.newpcs \in SUBSET T BY DEF NewRow
<1>3. IsFiniteSet(row.newpcs)
  <2> HIDE DEF T
  <2> QED BY <1>1, <1>2, FS_Subset
<1>4. row.a = c.a /\ row.resp = resp /\ row.behavior = StableArchitecture(resp, c.a) BY DEF NewRow
<1>5. StableArchitecture(resp, c.a).ok = resp.ok BY DEF StableArchitecture, Outcome
<1>6. c.a \in Points BY DEF Candidates
<1>7. ASSUME ~row.novel PROVE row.behavior \in SeenBehaviors(rs) BY <1>4, <1>7, Zenon DEF NewRow
<1>8. RowHolds(row) BY <1>3, <1>4, <1>5, <1>6 DEF RowHolds
<1> QED BY <1>4, <1>7, <1>8

LEMMA RowAdded ==
  ASSUME NEW rs, RowsHold(rs), Len(rs) < MaxCases, NEW row, RowHolds(row), row.a \notin Evaluated(rs),
         row.novel \/ row.behavior \in SeenBehaviors(rs)
  PROVE  RowsHold(Append(rs, row))
<1>1. PICK n \in Nat : n = Len(rs) /\ DOMAIN rs = 1..n BY RowsAre
<1>2. PICK r2 : r2 = Append(rs, row) OBVIOUS
<1>3. /\ r2 \in Seq(ToSet(r2)) /\ Len(r2) = n + 1 /\ DOMAIN r2 = 1..(n + 1)
      /\ \A i \in 1..n : r2[i] = rs[i]
      /\ r2[n + 1] = row
  BY <1>1, <1>2, AppendIs DEF RowsHold
<1>4. \A i \in 1..(n + 1) : i \in 1..n \/ i = n + 1 OBVIOUS
<1>5. \A i \in DOMAIN r2 : RowHolds(r2[i]) BY <1>1, <1>3, <1>4 DEF RowsHold
<1>6. \A i \in 1..n : r2[i].a # row.a BY <1>1, <1>3 DEF Evaluated
<1>7. \A i, j \in DOMAIN r2 : r2[i].a = r2[j].a => i = j
  BY <1>1, <1>3, <1>4, <1>6 DEF RowsHold
<1>8. \A i \in NovelRows(rs) : i \in NovelRows(r2) /\ r2[i].behavior = rs[i].behavior
  BY <1>1, <1>3, NovelRowsAre
<1>9. \A i \in DOMAIN r2 : \E m \in NovelRows(r2) : r2[m].behavior = r2[i].behavior
  <2> SUFFICES ASSUME NEW i \in DOMAIN r2 PROVE \E m \in NovelRows(r2) : r2[m].behavior = r2[i].behavior
    OBVIOUS
  <2>1. CASE i \in 1..n
    <3>1. PICK m \in NovelRows(rs) : rs[m].behavior = rs[i].behavior BY <1>1, <2>1 DEF RowsHold
    <3> QED BY <1>3, <1>8, <2>1, <3>1
  <2>2. CASE i = n + 1 /\ row.novel
    <3>1. n + 1 \in NovelRows(r2) BY <1>3, <2>2, NovelRowsAre
    <3> QED BY <2>2, <3>1
  <2>3. CASE i = n + 1 /\ ~row.novel
    <3>1. PICK m \in NovelRows(rs) : rs[m].behavior = row.behavior BY <2>3 DEF SeenBehaviors
    <3> QED BY <1>3, <1>8, <2>3, <3>1
  <2> QED BY <1>3, <1>4, <2>1, <2>2, <2>3
<1>10. Len(r2) <= MaxCases BY <1>1, <1>3, ExplorationAssumption DEF ValidExploration
<1> QED BY <1>2, <1>3, <1>5, <1>7, <1>9, <1>10 DEF RowsHold

LEMMA ConcatQueued ==
  ASSUME NEW fs \in Seq(Candidates), NEW gs \in Seq(Candidates)
  PROVE  fs \o gs \in Seq(Candidates) /\ Queued(fs) \cup Queued(gs) \subseteq Queued(fs \o gs)
<1>1. PICK n \in Nat : n = Len(fs) /\ DOMAIN fs = 1..n BY LenProperties
<1>2. PICK m \in Nat : m = Len(gs) /\ DOMAIN gs = 1..m BY LenProperties
<1>3. PICK hs : hs = fs \o gs OBVIOUS
<1>4. /\ hs \in Seq(Candidates) /\ Len(hs) = n + m
      /\ \A i \in 1..(n + m) : hs[i] = IF i <= n THEN fs[i] ELSE gs[i - n]
  BY <1>1, <1>2, <1>3, ConcatProperties
<1>5. DOMAIN hs = 1..(n + m) BY <1>4, LenProperties
<1>6. ASSUME NEW i \in 1..n PROVE fs[i].a \in Queued(hs)
  <2>1. i \in 1..(n + m) /\ i <= n OBVIOUS
  <2>2. hs[i] = fs[i] BY <1>4, <2>1
  <2> QED BY <1>5, <2>1, <2>2 DEF Queued
<1>7. ASSUME NEW i \in 1..m PROVE gs[i].a \in Queued(hs)
  <2>1. n + i \in 1..(n + m) /\ ~(n + i <= n) /\ (n + i) - n = i OBVIOUS
  <2>2. hs[n + i] = gs[i] BY <1>4, <2>1
  <2> QED BY <1>5, <2>1, <2>2 DEF Queued
<1>8. Queued(fs) \subseteq Queued(hs) /\ Queued(gs) \subseteq Queued(hs)
  <2>1. \A x \in Queued(fs) : \E i \in 1..n : x = fs[i].a BY <1>1 DEF Queued
  <2>2. \A x \in Queued(gs) : \E i \in 1..m : x = gs[i].a BY <1>2 DEF Queued
  <2> QED BY <1>6, <1>7, <2>1, <2>2
<1> QED BY <1>3, <1>4, <1>8

\* A row is added and its neighbours, if it is novel, are queued.
LEMMA RowCovers ==
  ASSUME NEW strategy, NEW rs, RowsHold(rs), NEW row, RowHolds(row), NEW fs \in Seq(Candidates),
         NEW k \in DOMAIN fs, row.a = fs[k].a, ~StopsEarly(strategy, rs), Covers(strategy, rs, fs)
  PROVE  LET r2 == Append(rs, row)
             gs == NextFrontier(strategy, r2, fs, k)
         IN gs \in Seq(Candidates) /\ Covers(strategy, r2, gs)
<1>1. PICK n \in Nat : n = Len(rs) /\ DOMAIN rs = 1..n BY RowsAre
<1>2. PICK r2 : r2 = Append(rs, row) OBVIOUS
<1>3. /\ Len(r2) = n + 1 /\ DOMAIN r2 = 1..(n + 1)
      /\ \A i \in 1..n : r2[i] = rs[i]
      /\ r2[n + 1] = row
  BY <1>1, <1>2, AppendIs DEF RowsHold
<1>4. PICK rest : rest = RemoveAt(fs, k) OBVIOUS
<1>5. PICK gs : gs = NextFrontier(strategy, r2, fs, k) OBVIOUS
<1>6. rest \in Seq(Candidates) /\ Queued(fs) \subseteq Queued(rest) \cup {row.a} BY <1>4, PopLeaves
<1>7. Evaluated(rs) \subseteq Evaluated(r2) /\ row.a \in Evaluated(r2)
  BY <1>1, <1>3 DEF Evaluated
<1>8. Reached(rs, fs) \subseteq Reached(r2, rest) BY <1>6, <1>7 DEF Reached
<1>9. \A i \in NovelRows(r2) : i \in NovelRows(rs) \/ (i = n + 1 /\ row.novel)
  <2>1. \A i \in 1..(n + 1) : i \in 1..n \/ i = n + 1 OBVIOUS
  <2> QED BY <1>1, <1>3, <2>1, NovelRowsAre
<1>10. CASE strategy = "cartesian" \/ ~row.novel \/ StopsEarly(strategy, r2)
  <2>1. gs = rest BY <1>3, <1>4, <1>5, <1>10 DEF NextFrontier
  <2>2. CASE StopsEarly(strategy, r2) BY <1>2, <1>5, <1>6, <2>1, <2>2 DEF Covers
  <2>3. CASE strategy = "cartesian"
    <3>1. Assignments \subseteq Reached(r2, rest) BY <1>8, <2>3 DEF Covers
    <3> QED BY <1>2, <1>5, <1>6, <2>1, <2>3, <3>1 DEF Covers
  <2>4. CASE strategy # "cartesian" /\ ~row.novel
    <3>1. Baseline \in Reached(r2, rest) /\ Around(rs, fs) BY <1>8, <2>4 DEF Covers
    <3>2. Around(r2, rest)
      <4> SUFFICES ASSUME NEW m \in NovelRows(r2), NEW i \in DOMAIN Axes, NEW v \in ToSet(Axes[i])
                   PROVE  [r2[m].a EXCEPT ![i] = v] \in Reached(r2, rest)
        BY DEF Around
      <4>1. m \in NovelRows(rs) /\ r2[m] = rs[m] BY <1>1, <1>3, <1>9, <2>4, NovelRowsAre
      <4>2. [rs[m].a EXCEPT ![i] = v] \in Reached(rs, fs) BY <3>1, <4>1 DEF Around
      <4> QED BY <1>8, <4>1, <4>2
    <3> QED BY <1>2, <1>5, <1>6, <2>1, <2>4, <3>1, <3>2 DEF Covers
  <2> QED BY <1>10, <2>2, <2>3, <2>4
<1>11. CASE strategy # "cartesian" /\ row.novel /\ ~StopsEarly(strategy, r2)
  <2>1. PICK C : C = Children(r2, rest, n + 1) OBVIOUS
  <2>2. gs = rest \o C BY <1>3, <1>4, <1>5, <1>11, <2>1 DEF NextFrontier
  <2>3. /\ C \in Seq(Candidates)
        /\ \A i \in DOMAIN Axes : \A v \in ToSet(Axes[i]) :
             [row.a EXCEPT ![i] = v] \in {row.a} \cup Reached(r2, rest) \cup Queued(C)
    <3>1. n + 1 \in Nat /\ r2[n + 1].a \in Points BY <1>3 DEF RowHolds
    <3>2. r2[n + 1].a = row.a BY <1>3
    <3> QED BY <2>1, <3>1, <3>2, ChildrenAre
  <2>4. gs \in Seq(Candidates) /\ Queued(rest) \cup Queued(C) \subseteq Queued(gs)
    BY <1>6, <2>2, <2>3, ConcatQueued
  <2>5. Reached(r2, rest) \subseteq Reached(r2, gs) /\ Queued(C) \subseteq Reached(r2, gs)
    BY <2>4 DEF Reached
  <2>6. Baseline \in Reached(r2, gs) /\ Around(rs, fs) BY <1>8, <1>11, <2>5 DEF Covers
  <2>7. Around(r2, gs)
    <3> SUFFICES ASSUME NEW m \in NovelRows(r2), NEW i \in DOMAIN Axes, NEW v \in ToSet(Axes[i])
                 PROVE  [r2[m].a EXCEPT ![i] = v] \in Reached(r2, gs)
      BY DEF Around
    <3>1. CASE m \in NovelRows(rs)
      <4>1. r2[m] = rs[m] BY <1>1, <1>3, <3>1, NovelRowsAre
      <4>2. [rs[m].a EXCEPT ![i] = v] \in Reached(rs, fs) BY <2>6, <3>1 DEF Around
      <4> QED BY <1>8, <2>5, <4>1, <4>2
    <3>2. CASE m = n + 1
      <4>1. row.a \in Reached(r2, gs) BY <1>7 DEF Reached
      <4>2. [row.a EXCEPT ![i] = v] \in {row.a} \cup Reached(r2, rest) \cup Queued(C) BY <2>3
      <4>3. r2[m].a = row.a BY <1>3, <3>2
      <4> QED BY <2>5, <4>1, <4>2, <4>3
    <3> QED BY <1>9, <3>1, <3>2
  <2> QED BY <1>2, <1>5, <1>11, <2>4, <2>6, <2>7 DEF Covers
<1> QED BY <1>10, <1>11

\* Whether a row was promoted is not part of the search.
LEMMA PromotedCovers ==
  ASSUME NEW strategy, NEW rs, NEW r2, NEW fs, RowsHold(rs), Covers(strategy, rs, fs),
         r2 \in Seq(ToSet(r2)), Len(r2) = Len(rs), DOMAIN r2 = DOMAIN rs,
         \A i \in DOMAIN rs : /\ r2[i].a = rs[i].a /\ r2[i].novel = rs[i].novel
                              /\ r2[i].newpcs = rs[i].newpcs /\ r2[i].resp = rs[i].resp
                              /\ r2[i].behavior = rs[i].behavior
  PROVE  RowsHold(r2) /\ Covers(strategy, r2, fs) /\ NovelRows(r2) = NovelRows(rs)
<1>1. NovelRows(r2) = NovelRows(rs) /\ NovelRows(rs) \in SUBSET DOMAIN rs BY NovelRowsAre
<1>2. Evaluated(r2) = Evaluated(rs) BY DEF Evaluated
<1>3. Reached(r2, fs) = Reached(rs, fs) BY <1>2 DEF Reached
<1>4. StopsEarly(strategy, r2) <=> StopsEarly(strategy, rs)
  BY <1>1 DEF StopsEarly, Plateau, TailNovel
<1>5. Around(rs, fs) => Around(r2, fs) BY <1>1, <1>3 DEF Around
<1>6. RowsHold(r2)
  <2>1. \A i \in DOMAIN r2 : RowHolds(r2[i]) BY DEF RowsHold, RowHolds
  <2>2. \A i, j \in DOMAIN r2 : r2[i].a = r2[j].a => i = j BY DEF RowsHold
  <2>3. \A i \in DOMAIN r2 : \E n \in NovelRows(r2) : r2[n].behavior = r2[i].behavior
    BY <1>1 DEF RowsHold
  <2> QED BY <2>1, <2>2, <2>3 DEF RowsHold
<1> QED BY <1>1, <1>3, <1>4, <1>5, <1>6 DEF Covers

\* A search that is over is whole.
LEMMA SearchEnds ==
  ASSUME NEW strategy, NEW rs, NEW fs, RowsHold(rs), Covers(strategy, rs, fs), SearchOver(strategy, rs, fs)
  PROVE  SearchComplete(strategy, rs) /\ Cardinality(Evaluated(rs)) = Len(rs) /\ Len(rs) <= MaxCases
<1>1. PICK n \in Nat : n = Len(rs) /\ DOMAIN rs = 1..n /\ n <= MaxCases BY RowsAre
<1>2. Cardinality(Evaluated(rs)) = n
  <2>1. PICK f : f = [i \in 1..n |-> rs[i].a] OBVIOUS
  <2>2. f \in Bijection(1..n, Evaluated(rs))
    BY <1>1, <2>1 DEF RowsHold, Evaluated, Bijection, Injection, IsInjective, Surjection
  <2>3. ExistsBijection(1..n, Evaluated(rs)) BY <2>2 DEF ExistsBijection
  <2>4. IsFiniteSet(1..n) /\ Cardinality(1..n) = n BY FS_Interval
  <2> QED BY <2>3, <2>4, FS_Bijection
<1>3. CASE fs = <<>>
  <2>1. Queued(fs) = {} BY <1>3 DEF Queued
  <2>2. Reached(rs, fs) = Evaluated(rs) BY <2>1 DEF Reached
  <2> QED BY <1>1, <1>2, <2>2 DEF Covers, SearchComplete, Around
<1>4. CASE Len(rs) >= MaxCases
  <2>1. Len(rs) = MaxCases BY <1>1, <1>4, ExplorationAssumption DEF ValidExploration
  <2> QED BY <1>1, <1>2, <2>1 DEF SearchComplete
<1>5. CASE StopsEarly(strategy, rs) BY <1>1, <1>2, <1>5 DEF SearchComplete
<1> QED BY <1>3, <1>4, <1>5 DEF SearchOver

-----------------------------------------------------------------------------
(* The exploration stage *)

\* A timeout of a guest that is not a late one is a fault, and there is one only while
\* there may be.
LEMMA CostIs ==
  ASSUME faults \in 0..MaxFaults, NEW guest, NEW x \in Outcomes(guest)
  PROVE  Cost(guest, x) \in {0, 1} /\ faults + Cost(guest, x) \in 0..MaxFaults
<1>0. MaxFaults \in Nat BY CampaignAssumption
<1>1. CASE x.timedout /\ ~guest.late
  <2>1. x # Answered(guest) BY <1>1 DEF Answered
  <2>2. faults < MaxFaults BY <1>1, <2>1 DEF Outcomes
  <2> QED BY <1>0, <1>1, <2>2 DEF Cost
<1>2. CASE ~(x.timedout /\ ~guest.late)
  <2>1. Cost(guest, x) = 0 BY <1>2 DEF Cost
  <2> QED BY <1>0, <2>1
<1> QED BY <1>1, <1>2

LEMMA FaultsStep ==
  ASSUME FaultsHold, [Next]_vars
  PROVE  FaultsHold'
<1>0. MaxFaults \in Nat /\ faults \in 0..MaxFaults /\ image \in Nat /\ image <= faults
  BY CampaignAssumption DEF FaultsHold
<1>1. faults' \in 0..MaxFaults /\ faults <= faults' /\ (Change => faults' = faults + 1)
  <2>1. CASE (ExploreEvaluate \/ ExplorePromote) /\ ~Change
    <3>1. UNCHANGED faults \/ \E c : \E resp \in Outcomes(Guest(image, c.a)) :
            faults' = faults + Cost(Guest(image, c.a), resp)
      BY <2>1 DEF ExploreEvaluate, ExplorePromote
    <3> QED BY <1>0, <2>1, <3>1, CostIs
  <2>3. CASE Corpus /\ ~Change BY <1>0, <2>3 DEF Corpus
  <2>4. CASE TriageCase /\ ~Change
    <3>1. PICK a : \E x \in Outcomes(Guest(image, a)), y \in Outcomes(RightGuest(image, a)) :
            /\ faults + Cost(Guest(image, a), x) + Cost(RightGuest(image, a), y) <= MaxFaults
            /\ faults' = faults + Cost(Guest(image, a), x) + Cost(RightGuest(image, a), y)
      BY <2>4 DEF TriageCase
    <3>2. PICK m \in {0, 1}, n \in {0, 1} : faults + m + n <= MaxFaults /\ faults' = faults + m + n
      BY <1>0, <3>1, CostIs
    <3> QED BY <1>0, <2>4, <3>2
  <2>5. CASE Kill /\ ~Change BY <1>0, <2>5 DEF Kill
  <2>6. CASE Change BY <1>0, <2>6 DEF Change
  <2>7. CASE ~(ExploreEvaluate \/ ExplorePromote \/ Corpus \/ TriageCase \/ Kill \/ Change)
    <3>1. UNCHANGED faults
      BY <2>7 DEF Next, CampaignStep, Launch, CompleteStage, ExploreStart,
         ExploreRewrite, ExploreSummary, Intelligence, TriageStart,
         TriageSummary, Evidence, Conclude, vars
    <3> QED BY <1>0, <2>7, <3>1
  <2> QED BY <2>1, <2>3, <2>4, <2>5, <2>6, <2>7
<1>2. image' \in Nat /\ image' <= faults'
  <2>1. CASE Change
    <3>1. image' = image \/ image' = image + 1 BY <2>1 DEF Change
    <3> QED BY <1>0, <1>1, <2>1, <3>1
  <2>2. CASE ~Change
    <3>1. image' = image
      BY <2>2 DEF Next, CampaignStep, Launch, CompleteStage, ExploreStart, ExploreEvaluate,
         ExplorePromote, ExploreRewrite, ExploreSummary, Intelligence, Corpus, TriageStart,
         TriageCase, TriageSummary, Evidence, Conclude, Kill, vars, world
    <3> QED BY <1>0, <1>1, <3>1
  <2> QED BY <2>1, <2>2
<1> QED BY <1>1, <1>2 DEF FaultsHold

\* What a worker answers has a finite trace.
LEMMA OutcomeTrace ==
  ASSUME FaultsHold, NEW a \in Points, NEW x \in Outcomes(Guest(image, a))
  PROVE  IsFiniteSet(DOMAIN x.trace)
<1>1. image \in 0..MaxFaults BY CampaignAssumption DEF FaultsHold
<1>2. PICK t : t = Guest(image, a).trace /\ t \in Seq(ToSet(t)) BY <1>1, CampaignAssumption
<1>3. PICK n \in Nat : n = Len(t) /\ DOMAIN t = 1..n BY <1>2, LenProperties
<1>4. \E m \in 0..n : DOMAIN x.trace = 1..m
  <2>1. CASE x = Answered(Guest(image, a)) BY <1>2, <1>3, <2>1 DEF Answered
  <2>2. CASE \E m \in 0..n : x = TimedOut(Guest(image, a), m)
    <3>1. PICK m \in 0..n : x = TimedOut(Guest(image, a), m) BY <2>2
    <3>2. x.trace = SubSeq(t, 1, m) BY <1>2, <3>1 DEF TimedOut
    <3>3. DOMAIN SubSeq(t, 1, m) = 1..m
      <4>1. \A i \in 1..m : t[i] \in ToSet(t) BY <1>3 DEF ToSet
      <4>2. SubSeq(t, 1, m) \in Seq(ToSet(t)) /\ Len(SubSeq(t, 1, m)) = m
        BY <1>2, <1>3, <4>1, SubSeqProperties
      <4> QED BY <4>2, LenProperties
    <3> QED BY <3>2, <3>3
  <2>3. x = Answered(Guest(image, a)) \/ \E m \in 0..n : x = TimedOut(Guest(image, a), m)
    BY <1>2, <1>3 DEF Outcomes, Lates
  <2> QED BY <2>1, <2>2, <2>3
<1>5. PICK m \in 0..n : DOMAIN x.trace = 1..m BY <1>4
<1>6. IsFiniteSet(1..m) BY FS_Interval
<1> QED BY <1>5, <1>6

\* A candidate is popped and evaluated, or dropped.
LEMMA EvaluateStep ==
  ASSUME FaultsHold, SearchHolds, ExploreEvaluate
  PROVE  SearchHolds'
<1>0. /\ pc = "evaluate" /\ ~SearchOver(opt.strategy, rows, frontier) /\ opt' = opt /\ corpus' = corpus
      /\ RowsHold(rows) /\ frontier \in Seq(Candidates) /\ Covers(opt.strategy, rows, frontier)
      /\ \A i \in DOMAIN rows : cases[i] = rows[i]
      /\ PromotedHolds /\ DOMAIN cases = 1..MaxCases
  BY DEF ExploreEvaluate, SearchHolds, world
<1>1. PICK n \in Nat : n = Len(rows) /\ DOMAIN rows = 1..n /\ n <= MaxCases BY <1>0, RowsAre
<1>2. frontier # <<>> /\ ~(n >= MaxCases) /\ ~StopsEarly(opt.strategy, rows)
  BY <1>0, <1>1 DEF SearchOver
<1>3. PICK k \in DOMAIN frontier : k = PopIndex(opt.strategy, rows, frontier)
  BY <1>0, <1>2, RowsAre, PopIndexIs
<1>4. PICK c \in Candidates : c = frontier[k] BY <1>0, <1>3, ElementOfSeq, LenProperties
<1>5. CASE c.a \in Evaluated(rows)
  <2>1. frontier' = RemoveAt(frontier, k) /\ UNCHANGED <<rows, cases, pc>>
    BY <1>3, <1>4, <1>5 DEF ExploreEvaluate
  <2>2. RemoveAt(frontier, k) \in Seq(Candidates) /\ Covers(opt.strategy, rows, RemoveAt(frontier, k))
    BY <1>0, <1>4, <1>5, SkipCovers
  <2>3. PromotedHolds' BY <1>0, <2>1 DEF PromotedHolds, InCorpus
  <2> QED BY <1>0, <2>1, <2>2, <2>3 DEF SearchHolds
<1>6. CASE c.a \notin Evaluated(rows)
  <2>0. PICK resp \in Outcomes(Guest(image, c.a)) :
          \E r : /\ r = NewRow(rows, c, resp) /\ rows' = Append(rows, r)
                 /\ cases' = [cases EXCEPT ![Len(rows) + 1] = r]
                 /\ frontier' = NextFrontier(opt.strategy, rows', frontier, k)
                 /\ pc' = IF Promotes(r) THEN "promote" ELSE "evaluate"
    BY <1>3, <1>4, <1>6 DEF ExploreEvaluate
  <2>1. PICK row :
          /\ row = NewRow(rows, c, resp) /\ rows' = Append(rows, row)
          /\ cases' = [cases EXCEPT ![Len(rows) + 1] = row]
          /\ frontier' = NextFrontier(opt.strategy, rows', frontier, k)
          /\ pc' = IF Promotes(row) THEN "promote" ELSE "evaluate"
    BY <2>0
  <2>2. IsFiniteSet(DOMAIN resp.trace)
    <3>1. c.a \in Points BY DEF Candidates
    <3> QED BY <3>1, OutcomeTrace
  <2>3. /\ RowHolds(row) /\ row.a = c.a
        /\ row.novel \/ row.behavior \in SeenBehaviors(rows)
    <3>1. row = NewRow(rows, c, resp) BY <2>1
    <3> QED BY <2>2, <3>1, NewRowIs
  <2>4. /\ rows' = Append(rows, row) /\ cases' = [cases EXCEPT ![n + 1] = row]
        /\ frontier' = NextFrontier(opt.strategy, Append(rows, row), frontier, k)
        /\ pc' = IF Promotes(row) THEN "promote" ELSE "evaluate"
    BY <1>1, <2>1
  <2>5. RowsHold(rows')
    <3>1. Len(rows) < MaxCases BY <1>1, <1>2, ExplorationAssumption DEF ValidExploration
    <3>2. row.a \notin Evaluated(rows) BY <1>6, <2>3
    <3>3. RowsHold(Append(rows, row)) BY <1>0, <2>3, <3>1, <3>2, RowAdded
    <3> QED BY <2>4, <3>3
  <2>6. frontier' \in Seq(Candidates) /\ Covers(opt.strategy, rows', frontier')
    BY <1>0, <1>2, <1>4, <2>3, <2>4, RowCovers
  <2>7. /\ Len(rows') = n + 1 /\ DOMAIN rows' = 1..(n + 1)
        /\ \A i \in 1..n : rows'[i] = rows[i]
        /\ rows'[n + 1] = row
    BY <1>0, <1>1, <2>4, AppendIs DEF RowsHold
  <2>8. \A i \in 1..(n + 1) : i \in 1..n \/ i = n + 1 OBVIOUS
  <2>9. /\ DOMAIN cases' = 1..MaxCases /\ \A i \in DOMAIN rows' : cases'[i] = rows'[i]
    <3>1. n + 1 \in 1..MaxCases /\ \A i \in 1..n : i \in 1..MaxCases /\ i # n + 1
      BY <1>1, <1>2, ExplorationAssumption DEF ValidExploration
    <3>2. DOMAIN cases' = 1..MaxCases /\ cases'[n + 1] = row /\ \A i \in 1..n : cases'[i] = cases[i]
      BY <1>0, <2>4, <3>1
    <3> QED BY <1>0, <1>1, <2>7, <2>8, <3>2
  <2>10. rows' # <<>> BY <2>7
  <2>11. PromotedHolds'
    <3>0. PICK r2 : r2 = rows' OBVIOUS
    <3> SUFFICES ASSUME opt.promote, NEW i \in NovelRows(r2), r2[i].resp.ok,
                        ~(pc' = "promote" /\ i = Len(r2))
                 PROVE  InCorpus(<<i, r2[i].behavior>>)'
      BY <1>0, <3>0 DEF PromotedHolds
    <3>1. i \in 1..(n + 1) /\ r2[i].novel BY <2>7, <3>0, NovelRowsAre
    <3>2. CASE i = n + 1
      <4>1. Promotes(row) BY <2>7, <3>0, <3>1, <3>2 DEF Promotes
      <4> QED BY <2>4, <2>7, <3>0, <3>2, <4>1
    <3>3. CASE i \in 1..n
      <4>1. r2[i] = rows[i] BY <2>7, <3>0, <3>3
      <4>2. i \in NovelRows(rows) /\ rows[i].resp.ok BY <1>1, <3>1, <3>3, <4>1, NovelRowsAre
      <4>3. InCorpus(<<i, r2[i].behavior>>) BY <1>0, <4>1, <4>2 DEF PromotedHolds
      <4> QED BY <1>0, <4>3 DEF InCorpus
    <3> QED BY <2>8, <3>1, <3>2, <3>3
  <2> QED BY <1>0, <2>5, <2>6, <2>9, <2>10, <2>11 DEF SearchHolds
<1> QED BY <1>5, <1>6

\* The case of the last row is written, and intact.
LEMMA PromoteStep ==
  ASSUME SearchHolds, ExplorePromote
  PROVE  SearchHolds'
<1>0. /\ pc = "promote" /\ opt' = opt /\ cases' = cases /\ DOMAIN cases = 1..MaxCases
      /\ RowsHold(rows) /\ frontier \in Seq(Candidates) /\ Covers(opt.strategy, rows, frontier)
      /\ rows # <<>> /\ \A i \in DOMAIN rows : cases[i] = rows[i]
      /\ PromotedHolds
  BY DEF ExplorePromote, SearchHolds, world
<1>1. CASE pc' = "down" BY <1>0, <1>1 DEF SearchHolds
<1>2. CASE \E resp : CorpusPromote(rows[Len(rows)], resp) /\ pc' = "rewrite" /\ UNCHANGED memory
  <2>1. PICK resp : CorpusPromote(rows[Len(rows)], resp) BY <1>2
  <2>2. PICK r : r = [img |-> image, a |-> rows[Len(rows)].a, exp |-> StableExpectation(resp)] OBVIOUS
  <2>3. r # Torn
    <3>1. "img" \in DOMAIN r /\ "img" \notin DOMAIN Torn BY <2>2 DEF Torn
    <3> QED BY <3>1
  <2>4. corpus' = [id \in DOMAIN corpus \cup {CaseId} |-> IF id = CaseId THEN r ELSE corpus[id]]
    BY <2>1, <2>2 DEF CorpusPromote, CorpusWith
  <2>5. UNCHANGED <<rows, frontier>> /\ pc' = "rewrite" BY <1>2 DEF memory
  <2>6. \A id : InCorpus(id) \/ id = CaseId => id \in DOMAIN corpus' /\ corpus'[id] # Torn
    BY <2>3, <2>4 DEF InCorpus
  <2>7. PromotedHolds'
    <3> SUFFICES ASSUME opt.promote, NEW i \in NovelRows(rows), rows[i].resp.ok
                 PROVE  InCorpus(<<i, rows[i].behavior>>)'
      BY <1>0, <2>5 DEF PromotedHolds
    <3>1. PICK id : id = <<i, rows[i].behavior>> OBVIOUS
    <3>2. i = Len(rows) => id = CaseId BY <3>1 DEF CaseId
    <3>3. i # Len(rows) => InCorpus(id) BY <1>0, <3>1 DEF PromotedHolds
    <3>4. InCorpus(id) \/ id = CaseId BY <3>2, <3>3
    <3> QED BY <2>5, <2>6, <3>1, <3>4 DEF InCorpus
  <2> QED BY <1>0, <2>5, <2>7 DEF SearchHolds
<1> QED BY <1>1, <1>2 DEF ExplorePromote, GoDown

\* The last row says that it was promoted.
LEMMA RewriteStep ==
  ASSUME SearchHolds, ExploreRewrite
  PROVE  SearchHolds'
<1>0. /\ pc = "rewrite" /\ pc' = "evaluate" /\ UNCHANGED <<opt, corpus, frontier>>
      /\ RowsHold(rows) /\ frontier \in Seq(Candidates) /\ Covers(opt.strategy, rows, frontier)
      /\ rows # <<>> /\ \A i \in DOMAIN rows : cases[i] = rows[i]
      /\ PromotedHolds /\ DOMAIN cases = 1..MaxCases
      /\ rows' = [rows EXCEPT ![Len(rows)].promoted = TRUE]
      /\ cases' = [cases EXCEPT ![Len(rows)] = rows'[Len(rows)]]
  BY DEF ExploreRewrite, SearchHolds, world
<1>1. PICK n \in Nat : n = Len(rows) /\ DOMAIN rows = 1..n /\ n <= MaxCases BY <1>0, RowsAre
<1>2. PICK row : row = [rows[n] EXCEPT !.promoted = TRUE] OBVIOUS
<1>3. row.a = rows[n].a /\ row.novel = rows[n].novel /\ row.newpcs = rows[n].newpcs
      /\ row.resp = rows[n].resp /\ row.behavior = rows[n].behavior
  BY <1>2
<1>4. PICK r2 : r2 = rows' OBVIOUS
<1>5. r2 = [rows EXCEPT ![n] = row] BY <1>0, <1>1, <1>2, <1>4
<1>6. DOMAIN r2 = 1..n /\ \A i \in 1..n : r2[i] = IF i = n THEN row ELSE rows[i] BY <1>1, <1>5
<1>7. r2 \in Seq(ToSet(r2)) /\ Len(r2) = n
  <2>1. \A i \in 1..n : r2[i] \in ToSet(r2) BY <1>6 DEF ToSet
  <2>2. r2 \in [1..n -> ToSet(r2)]
    <3>1. r2 = [i \in 1..n |-> IF i = n THEN row ELSE rows[i]] BY <1>1, <1>5
    <3> QED BY <1>6, <2>1, <3>1
  <2> QED BY <2>2
<1>8. \A i \in DOMAIN rows : /\ r2[i].a = rows[i].a /\ r2[i].novel = rows[i].novel
                             /\ r2[i].newpcs = rows[i].newpcs /\ r2[i].resp = rows[i].resp
                             /\ r2[i].behavior = rows[i].behavior
  BY <1>1, <1>3, <1>6
<1>9. RowsHold(r2) /\ Covers(opt.strategy, r2, frontier) /\ NovelRows(r2) = NovelRows(rows)
  BY <1>0, <1>1, <1>6, <1>7, <1>8, PromotedCovers
<1>10. DOMAIN cases' = 1..MaxCases /\ \A i \in DOMAIN r2 : cases'[i] = r2[i]
  <2>1. cases' = [cases EXCEPT ![n] = r2[n]] BY <1>0, <1>1, <1>4
  <2>2. \A i \in 1..n : i \in 1..MaxCases BY <1>1, ExplorationAssumption DEF ValidExploration
  <2> QED BY <1>0, <1>1, <1>6, <2>1, <2>2
<1>11. PromotedHolds'
  <2> SUFFICES ASSUME opt.promote, NEW i \in NovelRows(r2), r2[i].resp.ok
               PROVE  InCorpus(<<i, r2[i].behavior>>)'
    BY <1>0, <1>4 DEF PromotedHolds
  <2>1. i \in NovelRows(rows) /\ i \in DOMAIN rows BY <1>9, NovelRowsAre
  <2>2. InCorpus(<<i, rows[i].behavior>>) BY <1>0, <1>8, <2>1 DEF PromotedHolds
  <2> QED BY <1>0, <1>8, <2>1, <2>2 DEF InCorpus
<1> QED BY <1>0, <1>4, <1>9, <1>10, <1>11 DEF SearchHolds

LEMMA SearchStep ==
  ASSUME FaultsHold, SearchHolds, [Next]_vars
  PROVE  SearchHolds'
<1>1. CASE ExploreStart
  <2>1. /\ rows' = <<>> /\ frontier' = InitialFrontier(opt.strategy) /\ pc' = "evaluate"
        /\ UNCHANGED <<opt, cases>> /\ DOMAIN cases = 1..MaxCases
    BY <1>1 DEF ExploreStart, world, SearchHolds
  <2>2. DOMAIN rows' = {} /\ NovelRows(rows') = {} BY <2>1, NovelRowsAre
  <2>3. PromotedHolds' BY <2>2 DEF PromotedHolds
  <2> QED BY <2>1, <2>2, <2>3, EmptyRows, StartCovers DEF SearchHolds
<1>2. CASE Kill
  <2>1. pc' = "down" BY <1>2 DEF Kill, GoDown
  <2>2. DOMAIN cases' = DOMAIN cases BY <1>2 DEF Kill, Tear
  <2> QED BY <2>1, <2>2 DEF SearchHolds
<1>3. CASE Change \/ UNCHANGED vars
  <2>1. UNCHANGED <<opt, pc, rows, frontier, cases, corpus>> BY <1>3 DEF Change, vars, world, memory
  <2>2. PromotedHolds => PromotedHolds' BY <2>1 DEF PromotedHolds, InCorpus
  <2> QED BY <2>1, <2>2 DEF SearchHolds
<1>4. CASE \/ Launch \/ CompleteStage \/ ExploreSummary \/ Intelligence \/ Corpus \/ TriageStart
           \/ TriageCase \/ TriageSummary \/ Evidence \/ Conclude
  <2>1. cases' = cases /\ pc' \notin {"evaluate", "promote", "rewrite"}
    BY <1>4 DEF Launch, CompleteStage, ExploreSummary, Intelligence, Corpus, TriageStart, TriageCase,
       TriageSummary, Evidence, Conclude, GoDown
  <2> QED BY <2>1 DEF SearchHolds
<1> QED BY <1>1, <1>2, <1>3, <1>4, EvaluateStep, PromoteStep, RewriteStep DEF Next, CampaignStep

\* The summary is written when the search is over, and what it leaves stays.
LEMMA ExploredStep ==
  ASSUME ExplorationInv, [Next]_vars, Made(1)'
  PROVE  Explored'
<1>0. StepHolds BY CampaignSteps DEF ExplorationInv
<1>1. opt' = opt BY <1>0 DEF StepHolds
<1>2. CASE Made(1)
  <2>1. UNCHANGED <<cases, exsum, corpus>> BY <1>0, <1>2 DEF StepHolds
  <2>2. Explored BY <1>2 DEF ExplorationInv
  <2> QED BY <1>1, <2>1, <2>2 DEF Explored
<1>3. CASE ExploreSummary
  <2>1. /\ pc = "evaluate" /\ SearchOver(opt.strategy, rows, frontier)
        /\ exsum' = [rows |-> rows, img |-> hashed, by |-> Producer]
        /\ UNCHANGED <<cases, corpus>>
    BY <1>3 DEF ExploreSummary
  <2>2. /\ RowsHold(rows) /\ Covers(opt.strategy, rows, frontier) /\ PromotedHolds
        /\ \A i \in DOMAIN rows : cases[i] = rows[i]
    BY <2>1 DEF ExplorationInv, SearchHolds
  <2>3. /\ SearchComplete(opt.strategy, rows) /\ Cardinality(Evaluated(rows)) = Len(rows)
        /\ Len(rows) <= MaxCases
    BY <2>1, <2>2, SearchEnds
  <2>4. ASSUME opt.promote, NEW i \in DOMAIN rows, rows[i].resp.ok
        PROVE  \E id \in DOMAIN corpus : id[2] = rows[i].behavior /\ corpus[id] # Torn
    <3>1. PICK n \in NovelRows(rows) : rows[n].behavior = rows[i].behavior BY <2>2, <2>4 DEF RowsHold
    <3>2. n \in DOMAIN rows BY NovelRowsAre
    <3>3. rows[n].resp.ok BY <2>2, <2>4, <3>1, <3>2 DEF RowsHold, RowHolds
    <3>4. InCorpus(<<n, rows[n].behavior>>) BY <2>1, <2>2, <2>4, <3>1, <3>3 DEF PromotedHolds
    <3> QED BY <3>1, <3>4 DEF InCorpus
  <2>5. exsum'.rows = rows BY <2>1
  <2> QED BY <1>1, <2>1, <2>2, <2>3, <2>4, <2>5 DEF Explored
<1> QED BY <1>0, <1>2, <1>3 DEF StepHolds

\* An exploration stage in the checkpoint was a whole search, whose case files are those of
\* its rows and whose promotions are intact: for any axes, budget, plateau, strategy and
\* guests, however many attempts were killed in the middle of a file.
THEOREM ExplorationsAreWhole == Spec => []ExplorationSound
<1>1. Init => ExplorationInv
  <2> SUFFICES ASSUME Init PROVE ExplorationInv OBVIOUS
  <2>1. CheckpointHolds BY CheckpointInit
  <2>2. /\ st = None /\ pc = "down" /\ faults = 0 /\ image = 0
        /\ DOMAIN cases = 1..MaxCases
    BY DEF Init
  <2>3. ~Made(1) BY <2>2 DEF Made, Done
  <2>4. FaultsHold BY <2>2, CampaignAssumption DEF FaultsHold
  <2> QED BY <2>1, <2>2, <2>3, <2>4 DEF ExplorationInv, SearchHolds
<1>2. ExplorationInv /\ [Next]_vars => ExplorationInv'
  BY CampaignSteps, FaultsStep, SearchStep, ExploredStep DEF ExplorationInv
<1>3. ExplorationInv => ExplorationSound
  <2> SUFFICES ASSUME ExplorationInv, Completed("exploration") PROVE Explored BY DEF ExplorationSound
  <2>1. PICK k \in 1..Done : Stages[k] = "exploration" BY CompletedAre DEF ExplorationInv
  <2>2. Done \in 0..5 BY WhereItIs DEF ExplorationInv
  <2>3. Made(1) BY <2>1, <2>2 DEF Made
  <2> QED BY <2>3 DEF ExplorationInv
<1> QED BY <1>1, <1>2, <1>3, PTL DEF Spec
=============================================================================

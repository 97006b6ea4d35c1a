------------------------------ MODULE Campaign ------------------------------
(***************************************************************************)
(* ppc-lab-campaign with the tools it runs: exploration, prioritisation,   *)
(* corpus verification and replay, differential triage and evidence        *)
(* publication, one stage after the other, each checkpointed in state.json *)
(* when it is complete.  The campaign or a tool may be killed at any step; *)
(* it is then resumed, possibly after the target image, the manifest or    *)
(* the engine was changed.  state.json and the campaign's own reports are  *)
(* replaced atomically, while explore, prioritize and corpus write their   *)
(* files in place: killed there, they leave a torn file.  A guest may be   *)
(* late, one that never ends within case_timeout, and any other run may    *)
(* be late once in a while.                                                *)
(*                                                                         *)
(* An image, a manifest and an engine stand for their hashes, and are      *)
(* numbered in the order of their changes: a change brings a new content.  *)
(***************************************************************************)
EXTENDS Exploration

CONSTANTS
  Guest(_, _),       \* image, assignment -> response of the engine
  RightGuest(_, _),  \* ... of the engine triage compares with
  Options,           \* the manifests: their switches, see ValidCampaign
  Inherited,         \* what corpus.path may hold before: cases of other campaigns
  MaxTriage,         \* max_triage_cases
  Scale,             \* a common multiple of 1 .. MaxCases
  None,
  MaxFaults          \* bound: kills, timeouts, changes of image/manifest/engine

\* What main accepts of a manifest before it produces anything.  A brief
\* case_timeout is one that fits twice into case_timeout + 10 seconds.
ValidCampaign ==
  /\ \A o \in Options :
       /\ o.strategy \in {"guided", "cartesian", "adaptive"}
       /\ {o.promote, o.intel, o.verify, o.replay} \subseteq BOOLEAN
       /\ {o.triage, o.publish, o.brief} \subseteq BOOLEAN
       /\ o.select \in {"novel", "failed", "novel-or-failed", "all"}
  /\ MaxTriage \in Nat

\* A file that was cut short, which no tool can parse, and one that is not there.
Torn == [torn |-> TRUE]
Missing == [missing |-> TRUE]

Stages == <<"exploration", "intelligence", "corpus", "triage", "evidence">>

\* What state.json may say.
Checkpoints == [manifest : Nat, engine : Nat,
                completed : {SubSeq(Stages, 1, n) : n \in 0..Len(Stages)}]

ASSUME CampaignAssumption ==
  /\ ValidCampaign /\ MaxFaults \in Nat
  /\ \A n \in 1..MaxCases : Scale % n = 0
  /\ None \notin Checkpoints
  /\ \A img \in 0..MaxFaults, a \in Points :
       Guest(img, a).trace \in Seq(ToSet(Guest(img, a).trace))
  /\ \A c \in Inherited : \A id \in DOMAIN c : c[id] = Torn \/ c[id].img = 0

VARIABLES
  opt,       \* the manifest's options
  image, manifest, engine,   \* the current contents
  steady,    \* they have changed only while the campaign was down
  faults,    \* how many faults have happened
  pc,        \* where the campaign is, "down" when it does not run
  rows, frontier,            \* the explorer's memory
  hashed,    \* inputs: the image the explorer hashed when it started
  trows,     \* triage_rows
  st,        \* state.json: manifest, engine and completed stages; or None
  cases,     \* exploration/cases: a row, Torn or None under each index
  exsum,     \* exploration/summary.json: rows and input provenance
  corpus,    \* corpus/cases: a function of the case ids
  report,    \* intelligence.json
  replay,    \* corpus-replay.json, or Missing
  triaged,   \* triage/summary.json
  evid,      \* the evidence store: the artifacts ingested
  final      \* summary.json

world == <<opt, image, manifest, engine, steady>>
memory == <<rows, frontier, hashed, trows>>
vars == <<world, faults, pc, memory, st, cases, exsum, corpus, report, replay,
          triaged, evid, final>>

Stage == Stages[Len(st.completed) + 1]
Finished == Len(st.completed) = Len(Stages)
At(stage) == pc = "stage" /\ ~Finished /\ Stage = stage

TypeOK ==
  /\ opt \in Options /\ {image, manifest, engine} \subseteq Nat /\ faults \in 0..MaxFaults
  /\ steady \in BOOLEAN
  /\ pc \in {"down", "stage", "evaluate", "promote", "rewrite", "triage", "commit"}
  /\ Len(rows) <= MaxCases /\ Len(trows) <= MaxTriage
  /\ st \in Checkpoints \cup {None}
  /\ DOMAIN cases = 1..MaxCases
  /\ (pc # "down") => st # None

Init ==
  /\ opt \in Options /\ image = 0 /\ manifest = 0 /\ engine = 0 /\ steady = TRUE
  /\ faults = 0 /\ pc = "down"
  /\ rows = <<>> /\ frontier = <<>> /\ hashed = 0 /\ trows = <<>>
  /\ st = None /\ cases = [i \in 1..MaxCases |-> None] /\ exsum = None
  /\ corpus \in Inherited /\ report = None /\ replay = Missing /\ triaged = None
  /\ evid = {} /\ final = None

\* The campaign ends here, with an error or killed; what it had in memory is gone.
GoDown == pc' = "down" /\ rows' = <<>> /\ frontier' = <<>> /\ hashed' = 0 /\ trows' = <<>>

\* Under which manifest and engine something is computed; kept with the results
\* so that the verdict can be judged.
Producer == <<manifest, engine>>

\* What a run of the worker may return: the guest's response, or a timeout, which
\* is a fault of the machine where the guest is not a late one.
Lates(guest) == {TimedOut(guest, n) : n \in 0..Len(guest.trace)}
Outcomes(guest) ==
  IF guest.late THEN Lates(guest)
  ELSE {Answered(guest)} \cup (IF faults < MaxFaults THEN Lates(guest) ELSE {})
Cost(guest, resp) == IF resp.timedout /\ ~guest.late THEN 1 ELSE 0

-----------------------------------------------------------------------------
\* (mutant) A campaign that has a state is never let in again.
ResumableFresh == st = None

\* load_or_create_state: with a state, the manifest and the engine must be the
\* checkpoint's (and --resume given; without a state, not given).
Resumable == st # None => st.manifest = manifest /\ st.engine = engine

NewState == [manifest |-> manifest, engine |-> engine, completed |-> <<>>]

\* (mutant) Resuming starts a new checkpoint.
LaunchAnew ==
  /\ pc = "down" /\ Resumable /\ st' = NewState /\ pc' = "stage"
  /\ UNCHANGED <<world, faults, memory, cases, exsum, corpus, report, replay, triaged, evid, final>>

Launch ==
  /\ pc = "down" /\ Resumable
  /\ st' = IF st = None THEN NewState ELSE st
  /\ pc' = "stage"
  /\ UNCHANGED <<world, faults, memory, cases, exsum, corpus, report, replay, triaged, evid, final>>

\* complete_stage: the checkpoint, in one atomic replace.
CompleteStage ==
  /\ pc = "commit" /\ pc' = "stage"
  /\ st' = [st EXCEPT !.completed = Append(@, Stage)]
  /\ rows' = <<>> /\ frontier' = <<>> /\ hashed' = 0 /\ trows' = <<>>
  /\ UNCHANGED <<world, faults, cases, exsum, corpus, report, replay, triaged, evid, final>>

-----------------------------------------------------------------------------
\* Stage 1: ppc-lab-explore, from the beginning each time it is run.
ExploreStart ==
  /\ At("exploration")
  /\ rows' = <<>> /\ frontier' = InitialFrontier(opt.strategy) /\ hashed' = image
  /\ pc' = "evaluate"
  /\ UNCHANGED <<world, faults, trows, st, cases, exsum, corpus, report, replay, triaged, evid, final>>

Promotes(row) == row.novel /\ opt.promote /\ row.resp.ok

\* One pass of the loop: pop a candidate and evaluate it, unless its assignment
\* was evaluated before.  The case file is written before the promotion.
ExploreEvaluate ==
  /\ pc = "evaluate" /\ ~SearchOver(opt.strategy, rows, frontier)
  /\ LET k == PopIndex(opt.strategy, rows, frontier)
         c == frontier[k]
     IN IF c.a \in Evaluated(rows)
        THEN frontier' = RemoveAt(frontier, k) /\ UNCHANGED <<faults, rows, cases, pc>>
        ELSE \E resp \in Outcomes(Guest(image, c.a)) :
               LET row == NewRow(rows, c, resp) IN
               /\ faults' = faults + Cost(Guest(image, c.a), resp)
               /\ rows' = Append(rows, row)
               /\ cases' = [cases EXCEPT ![Len(rows) + 1] = row]
               /\ frontier' = NextFrontier(opt.strategy, rows', frontier, k)
               /\ pc' = IF Promotes(row) THEN "promote" ELSE "evaluate"
  /\ UNCHANGED <<world, hashed, trows, st, exsum, corpus, report, replay, triaged, evid, final>>

\* stable_expectation: what a corpus case pins, nothing masked.
StableExpectation(resp) == Outcome(resp)

\* The id of the case the last row is promoted under.
CaseId == <<Len(rows), rows[Len(rows)].behavior>>

\* The corpus with this in the case's file.
CorpusWith(case) ==
  [id \in DOMAIN corpus \cup {CaseId} |-> IF id = CaseId THEN case ELSE corpus[id]]

\* ppc-lab-corpus promote: the job is executed again and pinned, with the hash
\* of its input.
CorpusPromote(row, resp) ==
  corpus' = CorpusWith([img |-> image, a |-> row.a, exp |-> StableExpectation(resp)])

\* A run that does not end well is refused, and the explorer gives up.
ExplorePromote ==
  /\ pc = "promote"
  /\ LET row == rows[Len(rows)] IN
     \E resp \in Outcomes(Guest(image, row.a)) :
       /\ faults' = faults + Cost(Guest(image, row.a), resp)
       /\ IF resp.ok
          THEN CorpusPromote(row, resp) /\ pc' = "rewrite" /\ UNCHANGED memory
          ELSE GoDown /\ UNCHANGED corpus
  /\ UNCHANGED <<world, st, cases, exsum, report, replay, triaged, evid, final>>

\* The case file again, with the id of the promoted case.
ExploreRewrite ==
  /\ pc = "rewrite"
  /\ rows' = [rows EXCEPT ![Len(rows)].promoted = TRUE]
  /\ cases' = [cases EXCEPT ![Len(rows)] = rows'[Len(rows)]]
  /\ pc' = "evaluate"
  /\ UNCHANGED <<world, faults, frontier, hashed, trows, st, exsum, corpus, report, replay, triaged, evid, final>>

ExploreSummary ==
  /\ pc = "evaluate" /\ SearchOver(opt.strategy, rows, frontier)
  /\ exsum' = [rows |-> rows, img |-> hashed, by |-> Producer]
  /\ pc' = "commit"
  /\ UNCHANGED <<world, faults, memory, st, cases, corpus, report, replay, triaged, evid, final>>

-----------------------------------------------------------------------------
\* glob("*.json"): every case file there is, leftovers of an interrupted
\* exploration included.
CaseFiles == {i \in DOMAIN cases : cases[i] # None}
TornCase == \E i \in CaseFiles : cases[i] = Torn

\* pc_frequency and the score: new code, a new behaviour, a failure and rare
\* code, with the default weights 10, 25, 40 and 3, times Scale.
PcFrequency(x) == Cardinality({i \in CaseFiles : x \in TracePcs(cases[i].resp)})
Score(row) ==
  LET One(b) == IF b THEN 1 ELSE 0
      rarity == FoldSet(LAMBDA x, n : n + Scale \div PcFrequency(x), 0, TracePcs(row.resp))
  IN Scale * (10 * Cardinality(row.newpcs) + 25 * One(row.bnovel) + 40 * One(~row.resp.ok)) + 3 * rarity

\* The plateau of the report: over the last files, all of them if fewer.
Saturated ==
  LET n == Cardinality(CaseFiles)
      tail == {i \in CaseFiles : Cardinality({k \in CaseFiles : k >= i}) <= Window}
  IN /\ n >= Window
     /\ Cardinality({i \in tail : cases[i].novel}) * RateDen <= RateNum * Cardinality(tail)

EmptyReport == [score |-> <<>>, saturated |-> FALSE]

\* Stage 1b: ppc-lab-prioritize fails on a file it cannot parse.
Intelligence ==
  /\ At("intelligence")
  /\ IF opt.intel /\ TornCase
     THEN GoDown /\ UNCHANGED report
     ELSE /\ report' = IF opt.intel
                       THEN [score |-> [i \in CaseFiles |-> Score(cases[i])],
                             saturated |-> Saturated]
                       ELSE EmptyReport
          /\ pc' = "commit" /\ UNCHANGED memory
  /\ UNCHANGED <<world, faults, st, cases, exsum, corpus, replay, triaged, evid, final>>

-----------------------------------------------------------------------------
\* diffs: the fields of the expectation the run disagrees with.
Diffs(exp, resp) == {f \in DOMAIN exp : exp[f] # StableExpectation(resp)[f]}

TornCorpus == \E id \in DOMAIN corpus : corpus[id] = Torn

\* find_inputs: an input with the case's hash is somewhere under the root.
InputsFound == \A id \in DOMAIN corpus : corpus[id] # Torn => corpus[id].img = image

\* A case that runs into the time limit ends the replay with an error.
LateCase == \E id \in DOMAIN corpus : corpus[id] # Torn /\ Guest(image, corpus[id].a).late

\* What verify or replay, where they are asked for, end with an error on.
CorpusRefuses ==
  \/ (opt.verify \/ opt.replay) /\ TornCorpus
  \/ opt.replay /\ (~InputsFound \/ LateCase)

\* do_replay: what case id disagrees in, run on this image.
ReplayDiffs(id, img) == Diffs(corpus[id].exp, Answered(Guest(img, corpus[id].a)))

\* The replay summary: a case that disagrees is counted.
Replayed ==
  [img |-> image, by |-> Producer,
   failed |-> {id \in DOMAIN corpus : ReplayDiffs(id, image) # {}}]

\* Stage 2: verify, then replay every case there is, each if it is asked for.  In
\* the last disjunct a run of the replay is late for once.
Corpus ==
  /\ At("corpus")
  /\ \/ /\ ~CorpusRefuses
        /\ replay' = IF opt.replay /\ corpus # <<>> THEN Replayed ELSE replay
        /\ pc' = "commit" /\ UNCHANGED <<faults, memory>>
     \/ CorpusRefuses /\ GoDown /\ UNCHANGED <<faults, replay>>
     \/ /\ opt.replay /\ corpus # <<>> /\ faults < MaxFaults
        /\ faults' = faults + 1 /\ GoDown /\ UNCHANGED replay
  /\ UNCHANGED <<world, st, cases, exsum, corpus, report, triaged, evid, final>>

-----------------------------------------------------------------------------
Takes(row) ==
  CASE opt.select = "all" -> TRUE
    [] opt.select = "novel" -> row.novel
    [] opt.select = "failed" -> ~row.resp.ok
    [] OTHER -> row.novel \/ ~row.resp.ok

TriageOn == opt.triage /\ MaxTriage > 0

\* The cases triage selects: by score where there is a ranking, else by index.
Selected ==
  LET score(i) == IF i \in DOMAIN report.score THEN report.score[i] ELSE 0
      Before(i, k) == score(i) > score(k) \/ (score(i) = score(k) /\ i < k)
      order == SetToSortSeq({i \in CaseFiles : Takes(cases[i])}, Before)
  IN IF TriageOn THEN SubSeq(order, 1, IF MaxTriage < Len(order) THEN MaxTriage ELSE Len(order))
     ELSE <<>>

\* stable_snapshot_diff: both final states, when both runs have one.
StatesDiffer(left, right) ==
  /\ ~left.timedout /\ ~right.timedout
  /\ left.stop # right.stop \/ left.regs # right.regs

\* compare_traces: the traces, and then the final states.
CompareTraces(left, right) == left.trace = right.trace /\ ~StatesDiffer(left, right)

\* (mutant) The outcomes of the workers are not compared.
TraceOnlyResult(left, right) == CompareTraces(left, right)

\* command_run: the comparison, and whether the workers ended alike.
TriageResult(left, right) ==
  /\ CompareTraces(left, right)
  /\ left.ok = right.ok /\ left.timedout = right.timedout

\* Stage 3: read every case file, then run the selected ones on both engines.
TriageStart ==
  /\ At("triage")
  /\ trows' = <<>>
  /\ IF TriageOn /\ TornCase THEN GoDown
     ELSE pc' = "triage" /\ UNCHANGED <<rows, frontier, hashed>>
  /\ UNCHANGED <<world, faults, st, cases, exsum, corpus, report, replay, triaged, evid, final>>

\* One selected case.  ppc-lab-triage runs the two workers one after the other,
\* and has case_timeout + 10 seconds for both.
TriageCase ==
  /\ pc = "triage" /\ Len(trows) < Len(Selected)
  /\ LET i == Selected[Len(trows) + 1]
         lguest == Guest(image, cases[i].a)
         rguest == RightGuest(image, cases[i].a)
     IN \E left \in Outcomes(lguest), right \in Outcomes(rguest) :
          /\ faults + Cost(lguest, left) + Cost(rguest, right) <= MaxFaults
          /\ faults' = faults + Cost(lguest, left) + Cost(rguest, right)
          /\ IF left.timedout /\ right.timedout /\ ~opt.brief THEN GoDown
             ELSE /\ trows' = Append(trows, [index |-> i, left |-> left, right |-> right,
                                             equal |-> TriageResult(left, right)])
                  /\ UNCHANGED <<pc, rows, frontier, hashed>>
  /\ UNCHANGED <<world, st, cases, exsum, corpus, report, replay, triaged, evid, final>>

TriageSummary ==
  /\ pc = "triage" /\ Len(trows) = Len(Selected)
  /\ triaged' = [rows |-> trows, by |-> Producer]
  /\ pc' = "commit"
  /\ UNCHANGED <<world, faults, memory, st, cases, exsum, corpus, report, replay, evid, final>>

-----------------------------------------------------------------------------
\* What the campaign hands to the evidence store; torn files are skipped.
Artifacts ==
  {<<"case", cases[i]>> : i \in {k \in CaseFiles : cases[k] # Torn}}
  \cup {<<"exploration", exsum>>, <<"triage", triaged>>, <<"intelligence", report>>}
  \cup (IF replay = Missing THEN {} ELSE {<<"replay", replay>>})
  \cup {<<"corpus", corpus[id]>> : id \in {k \in DOMAIN corpus : corpus[k] # Torn}}

\* Stage 4: after all prior artifacts are final.  A store that fails its
\* verification ends the stage as a kill before the checkpoint does.
Evidence ==
  /\ At("evidence")
  /\ evid' = IF opt.publish THEN evid \cup Artifacts ELSE evid
  /\ pc' = "commit"
  /\ UNCHANGED <<world, faults, memory, st, cases, exsum, corpus, report, replay, triaged, final>>

Findings ==
  {f \in {"differential-divergence", "exploration-saturated", "guest-failures",
          "corpus-regression"} :
     CASE f = "differential-divergence" -> \E t \in ToSet(triaged.rows) : ~t.equal
       [] f = "exploration-saturated" -> report.saturated
       [] f = "guest-failures" -> \E i \in DOMAIN exsum.rows : ~exsum.rows[i].resp.ok
       [] OTHER -> replay # Missing /\ replay.failed # {}}

Status ==
  IF "corpus-regression" \in Findings THEN "complete-with-regressions"
  ELSE IF Findings # {} THEN "complete-with-findings" ELSE "complete"

Conclude ==
  /\ pc = "stage" /\ Finished
  /\ final' = Status
  /\ GoDown
  /\ UNCHANGED <<world, faults, st, cases, exsum, corpus, report, replay, triaged, evid>>

-----------------------------------------------------------------------------
\* The file that a tool is writing in place at this step.
Tear ==
  \/ /\ pc = "evaluate" /\ ~SearchOver(opt.strategy, rows, frontier)
     /\ cases' = [cases EXCEPT ![Len(rows) + 1] = Torn] /\ UNCHANGED <<corpus, exsum, report>>
  \/ /\ pc = "rewrite"
     /\ cases' = [cases EXCEPT ![Len(rows)] = Torn] /\ UNCHANGED <<corpus, exsum, report>>
  \/ /\ pc = "promote"
     /\ corpus' = CorpusWith(Torn) /\ UNCHANGED <<cases, exsum, report>>
  \/ /\ pc = "evaluate" /\ SearchOver(opt.strategy, rows, frontier)
     /\ exsum' = Torn /\ UNCHANGED <<cases, corpus, report>>
  \/ /\ At("intelligence") /\ opt.intel
     /\ report' = Torn /\ UNCHANGED <<cases, corpus, exsum>>

\* The campaign and the tool it runs are killed (or the wall budget is used up).
Kill ==
  /\ pc # "down" /\ faults < MaxFaults
  /\ faults' = faults + 1 /\ GoDown
  /\ Tear \/ UNCHANGED <<cases, corpus, exsum, report>>
  /\ UNCHANGED <<world, st, replay, triaged, evid, final>>

\* The image is edited or the engine upgraded, between two runs or during one; the
\* manifest is read once, so that a change during a run counts from the next one on.
Change ==
  /\ steady' = (steady /\ pc = "down")
  /\ faults < MaxFaults /\ faults' = faults + 1
  /\ \/ image' = image + 1 /\ UNCHANGED <<manifest, engine>>
     \/ pc = "down" /\ manifest' = manifest + 1 /\ UNCHANGED <<image, engine>>
     \/ engine' = engine + 1 /\ UNCHANGED <<image, manifest>>
  /\ UNCHANGED <<opt, pc, memory, st, cases, exsum, corpus, report, replay, triaged, evid, final>>

CampaignStep ==
  \/ Launch \/ CompleteStage
  \/ ExploreStart \/ ExploreEvaluate \/ ExplorePromote \/ ExploreRewrite \/ ExploreSummary
  \/ Intelligence \/ Corpus
  \/ TriageStart \/ TriageCase \/ TriageSummary
  \/ Evidence \/ Conclude

Next == CampaignStep \/ Kill \/ Change

Spec == Init /\ [][Next]_vars

\* Whoever owns the campaign resumes it after it went down.
FairSpec == Spec /\ WF_vars(CampaignStep)

-----------------------------------------------------------------------------
Completed(stage) == st # None /\ stage \in ToSet(st.completed)

\* What an exploration leaves: a summary of a whole search (nothing evaluated twice,
\* every neighbour of a novel case evaluated unless the budget or the plateau ended the
\* search), the file of every row, and, where cases are promoted, an intact corpus case
\* for every behaviour of a successful one.
Explored ==
  LET rs == exsum.rows IN
  /\ Cardinality(Evaluated(rs)) = Len(rs) /\ Len(rs) <= MaxCases
  /\ SearchComplete(opt.strategy, rs)
  /\ \A i \in DOMAIN rs : cases[i] = rs[i]
  /\ opt.promote =>
       \A i \in DOMAIN rs : rs[i].resp.ok =>
         \E id \in DOMAIN corpus : id[2] = rs[i].behavior /\ corpus[id] # Torn

\* A completed exploration stage has left all of that, however many attempts were
\* killed before, explore.py main and promote.
ExplorationSound == Completed("exploration") => Explored

\* "A completed stage is not rerun during resume" (CAMPAIGNS.md): no step, of a
\* later stage or of a resumed campaign, changes what a completed stage left, and
\* no stage is ever taken back.
Kept(stage) ==
  CASE stage = "exploration" -> <<cases, exsum, corpus>>
    [] stage = "intelligence" -> report
    [] stage = "corpus" -> replay
    [] stage = "triage" -> triaged
    [] OTHER -> evid

StageFinal ==
  [][\A s \in ToSet(Stages) : Completed(s) => Completed(s)' /\ (Kept(s)' = Kept(s))]_vars

\* The final verdict: "complete" is said only when every explored case ended
\* well and both engines agreed on every triaged case in everything they report;
\* regressions are reported exactly when replay is asked for and a corpus case does
\* not behave on the explored image as it is pinned; triage and replay were done
\* by the engine and under the manifest of the exploration (these two only while
\* nothing changes under a running campaign: it asks for the engine's version once);
\* and with evidence.publish all artifacts the summary cites are in the store.
VerdictSound ==
  final # None =>
    /\ final = "complete" =>
         /\ \A i \in DOMAIN exsum.rows : exsum.rows[i].resp.ok
         /\ \A t \in ToSet(triaged.rows) : t.left = t.right
    /\ \A t \in ToSet(triaged.rows) : t.equal <=> t.left = t.right
    /\ steady =>
         /\ (final = "complete-with-regressions") <=>
              (opt.replay /\ \E id \in DOMAIN corpus : ReplayDiffs(id, exsum.img) # {})
         /\ replay # Missing => replay.by = exsum.by
         /\ triaged.by = exsum.by
    /\ opt.publish => Artifacts \subseteq evid

\* A selected case on which neither engine ends within a case_timeout that is not brief.
LateTriage ==
  ~opt.brief /\ \E i \in ToSet(Selected) :
    Guest(image, cases[i].a).late /\ RightGuest(image, cases[i].a).late

\* What a resumed campaign cannot get past: another manifest or engine than the
\* checkpoint's, a torn case file the finished exploration did not overwrite where
\* the cases are read again, a corpus case that is torn, late or whose input is gone
\* where that matters, and a case that is late on both engines.
Blocked ==
  /\ st # None
  /\ \/ st.manifest # manifest \/ st.engine # engine
     \/ /\ Completed("exploration") /\ ~Completed("triage") /\ TornCase
        /\ TriageOn \/ (opt.intel /\ ~Completed("intelligence"))
     \/ Completed("exploration") /\ ~Completed("corpus") /\ CorpusRefuses
     \/ Completed("intelligence") /\ ~Completed("triage") /\ LateTriage

\* A campaign whose owner keeps resuming it reaches its verdict or is blocked for
\* one of the named reasons: no other crash leaves it stuck.
CampaignCompletes == <>(final # None \/ Blocked)
=============================================================================

--------------------------- MODULE MCInstallation ---------------------------
(* The parts of one installation that share nothing at run time but its    *)
(* owner: the engine, the files of the control root, backups, the HTTP     *)
(* service, the orchestrator, upgrades and the knowledge graph.  A         *)
(* behaviour is about one of them (topic); the others stand still.         *)
EXTENDS MCInterpreter, MCControlRoot, Backup, Service, Orchestrate, Upgrade, Knowledge

CONSTANTS t1, jd, jf, jc1, jc2, je1, je2

partVars == <<rootVars, backupVars, serviceVars, orchVars, upVars, knowledgeVars>>

FirstTokensDef == t1 :> "researcher"

JobDocDef == [j \in 0..1 |-> jd]
JobInputDef == [j \in 0..1 |-> jf]
JobSucceedsDef == JobKeys \ {<<jd, jc1, je1>>}

\* r1 and r2 are releases, r3 says it is version 3 and is not, r4 drops a tool, r5
\* is a prerelease, r6 is damaged.
ReleaseOf(v, cmake, files, surface) ==
  [version |-> v, cmake |-> cmake, files |-> files, major |-> 3, prerelease |-> FALSE,
   surface |-> surface, format |-> 1, intact |-> TRUE]
HoldsDef ==
  [r1 |-> ReleaseOf(1, 1, {1, 2, 3}, {"lab"}),
   r2 |-> ReleaseOf(2, 2, {1, 2, 4}, {"lab", "fleet"}),
   r3 |-> ReleaseOf(3, 2, {1, 2, 3, 4}, {"lab", "fleet"}),
   r4 |-> ReleaseOf(4, 4, {1, 2}, {"fleet"}),
   r5 |-> [ReleaseOf(5, 5, {1, 2}, {"lab", "fleet"}) EXCEPT !.prerelease = TRUE],
   r6 |-> [ReleaseOf(6, 6, {1, 2}, {"lab", "fleet"}) EXCEPT !.intact = FALSE]]
ChannelDef == [major |-> 3, prerelease |-> FALSE, downgrade |-> FALSE, pin |-> NoPin]

Blank == [schema |-> "ppc-lab-evidence-v1", targets |-> {}, symbols |-> {}, functions |-> {},
          hot |-> {}, calls |-> {}, behaviors |-> {}, id |-> "x", manifest |-> "m",
          classification |-> "triage", left |-> {}, right |-> {}, hypotheses |-> {}, annotated |-> {}]
About(schema, targets) == [Blank EXCEPT !.schema = schema, !.targets = targets]
Clean(x) == [is |-> x, as |-> "clean"]
Odd(x) == [is |-> x, as |-> "odd"]
Hypothesis(b) == [subject |-> {"state"}, role |-> {"counter"}, claim |-> IF b THEN {"counts"} ELSE {},
                  supported |-> b, at |-> {"pc"}, supporting |-> {IF b THEN Odd("b") ELSE Clean("b")}]
\* Two traces that spell one function differently, the first without a target; a
\* result and a corpus case with one behaviour; two hypotheses about one subject.
DocDef ==
  [trace1 |-> [About("ppc-lab-trace-analysis-v1", {}) EXCEPT !.functions = {Odd("f")},
                 !.hot = {[pc |-> Clean("pc"), function |-> {Odd("f")}]},
                 !.calls = {<<Clean("f"), Clean("g")>>}],
   trace2 |-> [About("ppc-lab-trace-analysis-v1", {"ta"}) EXCEPT !.functions = {Clean("f"), Odd("g")},
                 !.hot = {[pc |-> Odd("pc"), function |-> {}]}],
   result |-> [About("ppc-lab-result-v1", {"ta"}) EXCEPT !.behaviors = {Clean("b")}],
   evidence |-> [About("ppc-lab-evidence-v1", {"tb"}) EXCEPT !.annotated = {"pc"},
                   !.symbols = {[address |-> {"pc"}, name |-> {"f"}], [address |-> {}, name |-> {"g"}],
                                [address |-> {"pc"}, name |-> {}], [address |-> {}, name |-> {}]}],
   case |-> [About("ppc-lab-corpus-case-v1", {"ta", "tb"}) EXCEPT !.behaviors = {Odd("b")}],
   campaign |-> About("ppc-lab-campaign-summary-v1", {"tb"}),
   triage |-> [About("ppc-lab-differential-triage-v1", {"ta"}) EXCEPT !.classification = "memory",
                 !.left = {"pc"}, !.right = {"pc2"}],
   claim1 |-> [About("ppc-lab-hypothesis-v1", {"tb"}) EXCEPT !.hypotheses = {Hypothesis(TRUE)}],
   claim2 |-> [About("ppc-lab-hypothesis-v1", {"tb"}) EXCEPT !.hypotheses = {Hypothesis(FALSE)}]]

\* Each part is free where a behaviour is about it, and in one fixed state elsewhere.
LabInit ==
  /\ topic \in {"call", "serve", "submit", "backup", "service", "orchestrate", "upgrade", "knowledge"}
  /\ IF topic = "call" THEN Init
     ELSE /\ call = (CHOOSE k \in TrapCalls : TRUE)
          /\ cpu = ZeroCpu /\ mem = {} /\ count = 0 /\ result = Going("prepare")
  /\ RootInit /\ BackupInit /\ ServiceInit /\ OrchInit /\ UpInit /\ KnowledgeInit
  /\ installed = je1 /\ (topic = "orchestrate" \/ inputs = [i \in JobInputs |-> jc1])

LabNext ==
  /\ UNCHANGED topic
  /\ \/ topic = "call" /\ Next /\ UNCHANGED partVars
     \/ /\ topic # "call" /\ UNCHANGED vars
        /\ \/ /\ RootNext
              /\ UNCHANGED <<backupVars, serviceVars, orchVars, upVars, knowledgeVars>>
           \/ /\ topic = "backup" /\ BackupNext
              /\ UNCHANGED <<rootVars, serviceVars, orchVars, upVars, knowledgeVars>>
           \/ /\ topic = "service" /\ ServiceNext
              /\ UNCHANGED <<rootVars, backupVars, orchVars, upVars, knowledgeVars>>
           \/ /\ topic = "orchestrate" /\ OrchNext
              /\ UNCHANGED <<rootVars, backupVars, serviceVars, upVars, knowledgeVars>>
           \/ /\ topic = "upgrade" /\ UpNext
              /\ UNCHANGED <<rootVars, backupVars, serviceVars, orchVars, knowledgeVars>>
           \/ /\ topic = "knowledge" /\ KnowledgeNext
              /\ UNCHANGED <<rootVars, backupVars, serviceVars, orchVars, upVars>>
           \/ UNCHANGED partVars   \* a part may rest; a call must go on until it stops

\* A started supervisor runs on: acquire_lock contains no wait.
LabSpec ==
  /\ LabInit /\ [][LabNext]_<<topic, vars, partVars>>
  /\ \A p \in Procs : WF_lockVars(AcquireStep(p))
=============================================================================

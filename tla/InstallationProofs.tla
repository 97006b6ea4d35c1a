------------------------- MODULE InstallationProofs -------------------------
(***************************************************************************)
(* Parts of one installation, for any number of processes, jobs, releases, *)
(* archives, commands, failures and kills.                                 *)
(*                                                                         *)
(* acquire_lock admits one supervisor at a time, provided no two processes *)
(* execute it at once (SerialStart): LockInv adds to MutualExclusion what  *)
(* the file says about whoever serves, and what each step may rely on.     *)
(* Sequence numbers are unique as long as submissions are made one after   *)
(* the other (SerialSubmit).                                               *)
(*                                                                         *)
(* ppc-lab-orchestrate files no result under a key it does not follow from *)
(* unless it can say of the run that an input or the engine changed under  *)
(* it: as long as neither did, what the process hashed is what is there    *)
(* (ReuseInv).  ppc-lab-upgrade leaves a way back: from the first file it  *)
(* removes until the tree is whole again, a readable record leads to an    *)
(* archive of a whole release (UpInv).  ppc-lab-backup loses nothing: at   *)
(* each stage of a restore and of its undo it is known where every         *)
(* component is (BackupInv).  ppc-lab-knowledge makes one graph of the     *)
(* same documents, whatever their order: keys prescribe labels, and the    *)
(* rows ever ingested determine the rest (GraphInv).                       *)
(***************************************************************************)
EXTENDS ServerLock, Submission, Orchestrate, Upgrade, Backup, Knowledge, TLAPS, FiniteSetTheorems

-----------------------------------------------------------------------------
(* SERVER.lock *)

\* The inductive strengthening of MutualExclusion, under SerialStart.
Serving == {p \in Procs : at[p] = "serving"}

\* acquire_lock runs in one process at a time.
OneAcquirer ==
  \A p, q \in Procs : at[p] \in Acquiring /\ at[q] \in Acquiring => p = q

\* A running supervisor's pid is in the file at the path.
OwnerOnDisk ==
  \A p \in Serving : lock = [creator |-> p, written |-> TRUE]

\* Past the liveness check there is no supervisor left to displace.
NobodyServes ==
  \A p \in Procs : at[p] \in {"unlink", "create", "write"} => Serving = {}

\* The pid read is still that of whoever is serving.
ReadIsCurrent ==
  \A p \in Procs : at[p] = "judge" => \A q \in Serving : seen[p] = q

\* Between O_EXCL and the write the file is the creator's own.
WriterOwnsFile ==
  \A p \in Procs : at[p] = "write" => lock = [creator |-> p, written |-> FALSE]

LockInv ==
  OneAcquirer /\ OwnerOnDisk /\ NobodyServes /\ ReadIsCurrent /\ WriterOwnsFile

\* Every step of acquire_lock and serve keeps the lock file and the program
\* counters well formed.
THEOREM LockTypes == LockSpec => []LockTypeOK
<1>1. LockInit => LockTypeOK
  BY DEF LockInit, LockTypeOK, LockFile, Absent, Acquiring, Gone
<1>2. LockTypeOK /\ [LockNext]_lockVars => LockTypeOK'
  <2> SUFFICES ASSUME LockTypeOK, [LockNext]_lockVars PROVE LockTypeOK'
    OBVIOUS
  <2> USE DEF LockTypeOK, Acquiring, Gone, LockGoto
  <2>1. ASSUME NEW p \in Procs, Start(p) PROVE LockTypeOK'
    BY <2>1 DEF Start
  <2>2. ASSUME NEW p \in Procs, CheckExists(p) PROVE LockTypeOK'
    BY <2>2 DEF CheckExists
  <2>3. ASSUME NEW p \in Procs, ReadLock(p) PROVE LockTypeOK'
    BY <2>3 DEF ReadLock, LockFile, Absent
  <2>4. ASSUME NEW p \in Procs, JudgeOwner(p) PROVE LockTypeOK'
    BY <2>4 DEF JudgeOwner
  <2>5. ASSUME NEW p \in Procs, UnlinkStale(p) PROVE LockTypeOK'
    BY <2>5 DEF UnlinkStale, LockFile
  <2>6. ASSUME NEW p \in Procs, CreateLock(p) PROVE LockTypeOK'
    <3>1. CASE lock = Absent
      <4>1. lock' = [creator |-> p, written |-> FALSE]
        BY <2>6, <3>1 DEF CreateLock
      <4>2. lock' \in LockFile
        BY <4>1 DEF LockFile
      <4>3. at' = [at EXCEPT ![p] = "write"] /\ seen' = seen
        BY <2>6, <3>1 DEF CreateLock
      <4> QED BY <4>2, <4>3
    <3>2. CASE lock # Absent
      BY <2>6, <3>2 DEF CreateLock, LockFile
    <3> QED BY <3>1, <3>2
  <2>7. ASSUME NEW p \in Procs, WriteLock(p) PROVE LockTypeOK'
    BY <2>7 DEF WriteLock, LockFile, Absent
  <2>8. ASSUME NEW p \in Procs, Release(p) PROVE LockTypeOK'
    BY <2>8 DEF Release, LockFile
  <2>9. ASSUME NEW p \in Procs, Crash(p) PROVE LockTypeOK'
    BY <2>9 DEF Crash
  <2>10. CASE UNCHANGED lockVars
    BY <2>10 DEF lockVars
  <2> QED
    BY <2>1, <2>2, <2>3, <2>4, <2>5, <2>6, <2>7, <2>8, <2>9, <2>10
       DEF LockNext, AcquireStep
<1> QED
  BY <1>1, <1>2, PTL DEF LockSpec

-----------------------------------------------------------------------------
\* LockInv is inductive when acquire_lock never runs in two processes at once.
LEMMA LockInvInductive ==
  ASSUME SerialStart PROVE LockTypeOK /\ LockInv /\ [LockNext]_lockVars => LockInv'
<1> SUFFICES ASSUME LockTypeOK, LockInv, [LockNext]_lockVars PROVE LockInv'
  OBVIOUS
<1> USE DEF LockTypeOK, LockInv, OneAcquirer, OwnerOnDisk, NobodyServes,
            ReadIsCurrent, WriterOwnsFile, Serving, Acquiring, Gone, LockGoto
<1>1. ASSUME NEW p \in Procs, Start(p) PROVE LockInv'
  BY <1>1, SerialStart DEF Start
<1>2. ASSUME NEW p \in Procs, CheckExists(p) PROVE LockInv'
  BY <1>2 DEF CheckExists, Absent
<1>3. ASSUME NEW p \in Procs, ReadLock(p) PROVE LockInv'
  BY <1>3 DEF ReadLock
<1>4. ASSUME NEW p \in Procs, JudgeOwner(p) PROVE LockInv'
  BY <1>4 DEF JudgeOwner, proc_alive
<1>5. ASSUME NEW p \in Procs, UnlinkStale(p) PROVE LockInv'
  BY <1>5 DEF UnlinkStale
<1>6. ASSUME NEW p \in Procs, CreateLock(p) PROVE LockInv'
  <2>1. CASE lock = Absent
    BY <1>6, <2>1 DEF CreateLock
  <2>2. CASE lock # Absent
    BY <1>6, <2>2 DEF CreateLock
  <2> QED BY <2>1, <2>2
<1>7. ASSUME NEW p \in Procs, WriteLock(p) PROVE LockInv'
  <2>1. lock = [creator |-> p, written |-> FALSE]
    BY <1>7 DEF WriteLock
  <2>2. lock' = [creator |-> p, written |-> TRUE]
    BY <1>7, <2>1 DEF WriteLock
  <2>3. at' = [at EXCEPT ![p] = "serving"] /\ seen' = seen
    BY <1>7 DEF WriteLock
  <2>4. \A q \in Procs \ {p} : at[q] \notin Acquiring /\ at[q] # "serving"
    BY <1>7 DEF WriteLock
  <2> QED BY <2>2, <2>3, <2>4
<1>8. ASSUME NEW p \in Procs, Release(p) PROVE LockInv'
  BY <1>8 DEF Release
<1>9. ASSUME NEW p \in Procs, Crash(p) PROVE LockInv'
  BY <1>9 DEF Crash
<1>10. CASE UNCHANGED lockVars
  BY <1>10 DEF lockVars
<1> QED
  BY <1>1, <1>2, <1>3, <1>4, <1>5, <1>6, <1>7, <1>8, <1>9, <1>10
     DEF LockNext, AcquireStep

\* At most one supervisor runs the serve loop of a control root, for every set of
\* processes, if acquire_lock is never executed by two of them at once.
THEOREM OneSupervisor ==
  ASSUME SerialStart PROVE LockSpec => []MutualExclusion
<1>1. LockInit => LockInv
  BY DEF LockInit, LockInv, OneAcquirer, OwnerOnDisk, NobodyServes, ReadIsCurrent,
         WriterOwnsFile, Serving, Acquiring
<1>2. LockTypeOK /\ LockInv /\ [LockNext]_lockVars => LockInv'
  BY LockInvInductive, SerialStart
<1>3. LockTypeOK /\ LockInv => MutualExclusion
  <2> SUFFICES ASSUME LockTypeOK, LockInv, NEW p \in Procs, NEW q \in Procs,
                      at[p] = "serving", at[q] = "serving"
               PROVE p = q
    BY DEF MutualExclusion
  <2>1. /\ lock = [creator |-> p, written |-> TRUE]
        /\ lock = [creator |-> q, written |-> TRUE]
    BY DEF LockInv, OwnerOnDisk, Serving
  <2> QED
    BY <2>1
<1> QED
  BY <1>1, <1>2, <1>3, LockTypes, PTL DEF LockSpec

-----------------------------------------------------------------------------
(* control.json *)

\* What makes UniqueSeq inductive under SerialSubmit.  One submission at a time, and a
\* running one holds next_seq itself.
OneBusy == \A s, t \in Subs : sub[s] \in Busy /\ sub[t] \in Busy => s = t
HoldsNext == \A s \in Subs : sub[s] \in Busy => seq[s] = nextSeq
SubmitInv == OneBusy /\ HoldsNext

\* The steps of command_submit keep ids, numbers and files well formed.
THEOREM SubmissionTypes == SubmitSpec => []SubmitTypeOK
<1>1. SubmitInit => SubmitTypeOK
  BY DEF SubmitInit, SubmitTypeOK, ItemIds, Busy, Over
<1>2. SubmitTypeOK /\ [SubmitNext]_submitVars => SubmitTypeOK'
  <2> SUFFICES ASSUME SubmitTypeOK, [SubmitNext]_submitVars PROVE SubmitTypeOK'
    OBVIOUS
  <2> USE DEF SubmitTypeOK, ItemIds, Busy, Over, SubmitGoto
  <2>1. ASSUME NEW s \in Subs, ReadState(s) PROVE SubmitTypeOK'
    BY <2>1 DEF ReadState
  <2>2. ASSUME NEW s \in Subs, CheckPath(s) PROVE SubmitTypeOK'
    BY <2>2 DEF CheckPath
  <2>3. ASSUME NEW s \in Subs, SaveItem(s) PROVE SubmitTypeOK'
    BY <2>3 DEF SaveItem
  <2>4. ASSUME NEW s \in Subs, SaveState(s) PROVE SubmitTypeOK'
    BY <2>4 DEF SaveState
  <2>5. ASSUME NEW s \in Subs, SubmitKilled(s) PROVE SubmitTypeOK'
    BY <2>5 DEF SubmitKilled
  <2>6. CASE UNCHANGED submitVars
    BY <2>6 DEF submitVars
  <2> QED
    BY <2>1, <2>2, <2>3, <2>4, <2>5, <2>6 DEF SubmitNext
<1> QED
  BY <1>1, <1>2, PTL DEF SubmitSpec

\* What a running submission read is still next_seq when it writes.
LEMMA SubmitInvInductive ==
  ASSUME SerialSubmit
  PROVE  SubmitTypeOK /\ SubmitInv /\ UniqueSeq /\ [SubmitNext]_submitVars => SubmitInv' /\ UniqueSeq'
<1> SUFFICES ASSUME SubmitTypeOK, SubmitInv, UniqueSeq, [SubmitNext]_submitVars
             PROVE SubmitInv' /\ UniqueSeq'
  OBVIOUS
<1> USE DEF SubmitTypeOK, SubmitInv, OneBusy, HoldsNext, UniqueSeq, Busy, Over, SubmitGoto
<1>1. ASSUME NEW s \in Subs, ReadState(s) PROVE SubmitInv' /\ UniqueSeq'
  BY <1>1, SerialSubmit DEF ReadState, MayStart
<1>2. ASSUME NEW s \in Subs, CheckPath(s) PROVE SubmitInv' /\ UniqueSeq'
  BY <1>2 DEF CheckPath
<1>3. ASSUME NEW s \in Subs, SaveItem(s) PROVE SubmitInv' /\ UniqueSeq'
  BY <1>3 DEF SaveItem
<1>4. ASSUME NEW s \in Subs, SaveState(s) PROVE SubmitInv' /\ UniqueSeq'
  BY <1>4 DEF SaveState
<1>5. ASSUME NEW s \in Subs, SubmitKilled(s) PROVE SubmitInv' /\ UniqueSeq'
  BY <1>5, SerialSubmit DEF SubmitKilled
<1>6. CASE UNCHANGED submitVars
  BY <1>6 DEF submitVars
<1> QED
  BY <1>1, <1>2, <1>3, <1>4, <1>5, <1>6 DEF SubmitNext

\* Accepted submissions have increasing sequence numbers, if submissions do not
\* overlap, for any number of submissions killed at any of their steps
\* (command_submit).
THEOREM SequenceNumbersUnique ==
  ASSUME SerialSubmit PROVE SubmitSpec => []UniqueSeq
<1>1. SubmitInit => SubmitInv /\ UniqueSeq
  BY DEF SubmitInit, SubmitInv, OneBusy, HoldsNext, UniqueSeq, Busy
<1>2. SubmitTypeOK /\ (SubmitInv /\ UniqueSeq) /\ [SubmitNext]_submitVars => (SubmitInv /\ UniqueSeq)'
  BY SubmitInvInductive, SerialSubmit
<1> QED
  BY <1>1, <1>2, SubmissionTypes, PTL DEF SubmitSpec

-----------------------------------------------------------------------------
(* The local orchestrator *)

HonestRecords == {r \in JobRecords : Follows(r)}

\* What OrchTypeOK says of the process.
OrchStates ==
  [pc : {"idle", "plan", "done"}, job : Nat, print : [JobInputs -> JobContents \cup {NoRecord}],
   engine : JobEngines \cup {NoRecord}, flags : OrchFlags, changed : BOOLEAN]

\* Until something changes, the hashes of the running process are those of the inputs
\* and the engine it finds.
PrintsHold ==
  orch.pc = "plan" =>
    /\ orch.print \in [JobInputs -> JobContents] /\ orch.engine \in JobEngines
    /\ orch.changed \/ (orch.print = inputs /\ orch.engine = installed)

\* A job is settled after it was planned; a pool thread runs after the planning is over,
\* and what it has written is the record it computed.
TaskHolds(j) ==
  /\ task[j].pc # "none" => orch.pc # "idle" /\ j < orch.job
  /\ task[j].pc \in {"run", "write", "cache"} => orch.pc = "plan" /\ orch.job = JobCount
  /\ task[j].pc \in {"write", "cache", "resumed", "cached", "executed"} =>
       task[j].rec \in HonestRecords /\ task[j].rec.key = JobKey(j)
  /\ task[j].pc \in {"cache", "resumed", "cached", "executed"} => outDir[j] = task[j].rec
  /\ task[j].pc = "cache" => RecordOk(task[j].rec)
TasksHold == \A j \in OrchJobs : TaskHolds(j)

\* Results follow from their keys wherever they lie, and only successes are shared.
ReuseInv ==
  /\ OrchTypeOK /\ PrintsHold /\ TasksHold
  /\ \A j \in OrchJobs : outDir[j] \in HonestRecords \cup {NoRecord}
  /\ jobCache \subseteq {r \in HonestRecords : RecordOk(r)}

\* The types of the process and its pool, and what distinguishes a record.
LEMMA OrchFacts ==
  ASSUME ReuseInv
  PROVE  /\ OrchTypeOK /\ PrintsHold /\ TasksHold
         /\ \A j \in OrchJobs : outDir[j] \in HonestRecords \cup {NoRecord}
         /\ jobCache \subseteq {r \in HonestRecords : RecordOk(r)}
         /\ HonestRecords \subseteq JobRecords /\ NoRecord \notin JobRecords
         /\ JobSucceeds \subseteq JobKeys /\ NoRecord \notin JobKeys
         /\ \A j \in OrchJobs : JobDoc[j] \in {JobDoc[i] : i \in OrchJobs} /\ JobInput[j] \in JobInputs
  BY OrchestrateAssumption DEF ReuseInv, HonestRecords, JobInputs

\* While a run is planned and executed, the key of a job is a key, and unless something
\* has changed, executing the job yields what the key says.
LEMMA KeyOfRun ==
  ASSUME ReuseInv, orch.pc = "plan", NEW j \in OrchJobs
  PROVE  /\ JobKey(j) \in JobKeys
         /\ <<JobDoc[j], inputs[JobInput[j]], installed>> \in JobKeys
         /\ orch.changed \/ JobKey(j) = <<JobDoc[j], inputs[JobInput[j]], installed>>
<1>1. /\ JobDoc[j] \in {JobDoc[i] : i \in OrchJobs} /\ JobInput[j] \in JobInputs
  BY OrchFacts
<1>2. /\ orch.print[JobInput[j]] \in JobContents /\ orch.engine \in JobEngines
      /\ inputs[JobInput[j]] \in JobContents /\ installed \in JobEngines
  BY <1>1, OrchFacts DEF PrintsHold, OrchTypeOK
<1>3. orch.changed \/ (orch.print = inputs /\ orch.engine = installed)
  BY OrchFacts DEF PrintsHold
<1> QED
  BY <1>1, <1>2, <1>3 DEF JobKey, JobKeys

\* Every step of the orchestrator, and every change under it, keeps ReuseInv.
LEMMA ReuseInvInductive ==
  ASSUME ReuseInv, [OrchNext]_orchVars
  PROVE  ReuseInv'
<1> USE DEF OrchTypeOK
<1>1. CASE UNCHANGED orchVars
  BY <1>1 DEF orchVars, ReuseInv, PrintsHold, TasksHold, TaskHolds, JobKey
<1>2. ASSUME NEW f \in OrchFlags, OrchStart(f) PROVE ReuseInv'
  <2>1. /\ orch' = [pc |-> "plan", job |-> 0, print |-> inputs, engine |-> installed, flags |-> f,
                    changed |-> FALSE]
        /\ task' = [j \in OrchJobs |-> NoTask]
        /\ UNCHANGED <<inputs, installed, outDir, jobCache>>
        /\ orchUsed' \in [run : Nat, fault : Nat]
    BY <1>2, OrchFacts DEF OrchStart
  <2>2. PrintsHold' /\ TasksHold'
    BY <2>1, OrchFacts DEF PrintsHold, TasksHold, TaskHolds, NoTask
  <2>3. OrchTypeOK'
    BY <2>1, OrchFacts DEF NoTask
  <2> QED
    BY <2>1, <2>2, <2>3, OrchFacts DEF ReuseInv
<1>3. CASE OrchPlan
  <2>1. PICK j \in OrchJobs : j = orch.job /\ orch.pc = "plan" /\ j < JobCount /\ j \in Nat
    BY <1>3, OrchFacts, OrchestrateAssumption DEF OrchPlan, OrchJobs, ValidJobs
  <2>2. /\ orch' = [orch EXCEPT !.job = j + 1] /\ UNCHANGED <<inputs, installed, jobCache, orchUsed>>
        /\ \/ /\ outDir' = outDir /\ outDir[j] # NoRecord /\ outDir[j].key = JobKey(j)
              /\ task' = [task EXCEPT ![j] = [pc |-> "resumed", rec |-> outDir[j]]]
           \/ \E r \in jobCache :
                /\ r.key = JobKey(j) /\ outDir' = [outDir EXCEPT ![j] = r]
                /\ task' = [task EXCEPT ![j] = [pc |-> "cached", rec |-> r]]
           \/ outDir' = outDir /\ task' = [task EXCEPT ![j].pc = "queued"]
    BY <1>3, <2>1 DEF OrchPlan, Hits, Reusable
  <2>3. /\ outDir' \in [OrchJobs -> JobRecords \cup {NoRecord}]
        /\ \A i \in OrchJobs : outDir'[i] \in HonestRecords \cup {NoRecord}
        /\ \A i \in OrchJobs \ {j} : outDir'[i] = outDir[i]
    <3>1. outDir' = outDir \/ \E r \in HonestRecords : outDir' = [outDir EXCEPT ![j] = r]
      BY <2>2, OrchFacts
    <3> QED BY <2>1, <3>1, OrchFacts
  <2>4. /\ task' \in [OrchJobs -> [pc : {"none", "queued", "run", "write", "cache", "resumed",
                                        "cached", "executed"},
                                   rec : JobRecords \cup {NoRecord}]]
        /\ \A i \in OrchJobs \ {j} : task'[i] = task[i]
        /\ \/ task'[j].pc = "queued"
           \/ /\ task'[j].pc \in {"resumed", "cached"} /\ task'[j].rec = outDir'[j]
              /\ task'[j].rec \in HonestRecords /\ task'[j].rec.key = JobKey(j)
    <3>1. CASE /\ outDir' = outDir /\ outDir[j] # NoRecord /\ outDir[j].key = JobKey(j)
               /\ task' = [task EXCEPT ![j] = [pc |-> "resumed", rec |-> outDir[j]]]
      BY <2>1, <3>1, OrchFacts
    <3>2. ASSUME NEW r \in jobCache, r.key = JobKey(j), outDir' = [outDir EXCEPT ![j] = r],
                 task' = [task EXCEPT ![j] = [pc |-> "cached", rec |-> r]]
          PROVE  /\ task' \in [OrchJobs -> [pc : {"none", "queued", "run", "write", "cache", "resumed",
                                                 "cached", "executed"},
                                            rec : JobRecords \cup {NoRecord}]]
                 /\ \A i \in OrchJobs \ {j} : task'[i] = task[i]
                 /\ task'[j].pc = "cached" /\ task'[j].rec = outDir'[j]
                 /\ task'[j].rec \in HonestRecords /\ task'[j].rec.key = JobKey(j)
      BY <2>1, <3>2, OrchFacts
    <3>3. CASE outDir' = outDir /\ task' = [task EXCEPT ![j].pc = "queued"]
      BY <2>1, <3>3, OrchFacts
    <3> QED BY <2>2, <3>1, <3>2, <3>3
  <2>5. /\ orch'.pc = "plan" /\ orch'.job = j + 1 /\ orch' \in OrchStates
        /\ orch'.print = orch.print /\ orch'.engine = orch.engine /\ orch'.changed = orch.changed
    <3>1. orch \in OrchStates
      BY OrchFacts DEF OrchStates
    <3>2. orch' = [orch EXCEPT !.job = j + 1] /\ j + 1 \in Nat
      BY <2>1, <2>2
    <3> QED BY <2>1, <3>1, <3>2 DEF OrchStates
  <2>6. PrintsHold'
    BY <2>1, <2>2, <2>5, OrchFacts DEF PrintsHold
  <2>7. \A i \in OrchJobs : JobKey(i)' = JobKey(i)
    BY <2>5 DEF JobKey
  <2>8. \A i \in OrchJobs : /\ i \in Nat /\ (task[i].pc # "none" => i < j)
                            /\ task[i].pc \notin {"run", "write", "cache"}
    BY <2>1, OrchFacts DEF TasksHold, TaskHolds, OrchJobs
  <2>9. TasksHold'
    <3>1. TaskHolds(j)'
      BY <2>1, <2>4, <2>5, <2>7 DEF TaskHolds
    <3>2. ASSUME NEW i \in OrchJobs \ {j} PROVE TaskHolds(i)'
      <4>1. TaskHolds(i) /\ i \in Nat /\ (task[i].pc # "none" => i < j) /\ task'[i] = task[i]
            /\ outDir'[i] = outDir[i] /\ JobKey(i)' = JobKey(i)
            /\ task[i].pc \notin {"run", "write", "cache"}
        BY <2>3, <2>4, <2>7, <2>8, OrchFacts DEF TasksHold
      <4> QED BY <2>1, <2>5, <4>1 DEF TaskHolds
    <3> QED BY <3>1, <3>2 DEF TasksHold
  <2> QED
    BY <2>2, <2>3, <2>4, <2>5, <2>6, <2>9, OrchFacts DEF ReuseInv, OrchStates
<1>4. CASE OrchFinish
  <2>1. /\ orch' = [orch EXCEPT !.pc = "done"] /\ orch' \in OrchStates
        /\ orch'.pc = "done" /\ orch'.job = orch.job
        /\ orch'.print = orch.print /\ orch'.engine = orch.engine
        /\ UNCHANGED <<inputs, installed, outDir, jobCache, task, orchUsed>>
        /\ \A j \in OrchJobs : task[j].pc \in {"resumed", "cached", "executed"}
    BY <1>4, OrchFacts DEF OrchFinish, OrchStates
  <2>2. PrintsHold'
    BY <2>1 DEF PrintsHold
  <2>3. TasksHold'
    BY <2>1, OrchFacts DEF TasksHold, TaskHolds, JobKey
  <2> QED
    BY <2>1, <2>2, <2>3, OrchFacts DEF ReuseInv, OrchStates
<1>5. CASE OrchFault
  <2>1. UNCHANGED <<outDir, jobCache>> /\ orchUsed' \in [run : Nat, fault : Nat]
    BY <1>5, OrchFacts DEF OrchFault
  <2>2. CASE orch' = NoOrch /\ task' = [j \in OrchJobs |-> NoTask] /\ UNCHANGED <<inputs, installed>>
    BY <2>1, <2>2, OrchFacts
       DEF ReuseInv, NoOrch, NoTask, NoFlags, OrchFlags, PrintsHold, TasksHold, TaskHolds
  <2>3. CASE /\ orch' = [orch EXCEPT !.changed = @ \/ orch.pc = "plan"] /\ UNCHANGED task
             /\ inputs' \in [JobInputs -> JobContents] /\ installed' \in JobEngines
    <3>1. /\ orch' \in OrchStates /\ orch'.pc = orch.pc /\ orch'.job = orch.job
          /\ orch'.print = orch.print /\ orch'.engine = orch.engine
          /\ orch.pc = "plan" => orch'.changed
      BY <2>3, OrchFacts DEF OrchStates
    <3>2. PrintsHold'
      BY <3>1, OrchFacts DEF PrintsHold
    <3>3. TasksHold'
      BY <2>1, <2>3, <3>1, OrchFacts DEF TasksHold, TaskHolds, JobKey
    <3> QED
      BY <2>1, <2>3, <3>1, <3>2, <3>3, OrchFacts DEF ReuseInv, OrchStates
  <2> QED
    BY <1>5, <2>2, <2>3, OrchFacts DEF OrchFault
<1>6. ASSUME NEW j \in OrchJobs, OrchTake(j) PROVE ReuseInv'
  <2>1. /\ UNCHANGED <<inputs, installed, outDir, jobCache, orch, orchUsed>>
        /\ orch.pc = "plan" /\ orch.job = JobCount /\ task[j].pc = "queued"
        /\ task'[j].pc = "run" /\ \A i \in OrchJobs \ {j} : task'[i] = task[i]
    BY <1>6, OrchFacts DEF OrchTake
  <2>2. TasksHold' /\ PrintsHold'
    BY <2>1, OrchFacts DEF TasksHold, TaskHolds, PrintsHold, JobKey
  <2> QED
    BY <1>6, <2>2, OrchFacts DEF OrchTake, ReuseInv
<1>7. ASSUME NEW j \in OrchJobs, OrchExecute(j) PROVE ReuseInv'
  <2>1. orch.pc = "plan" /\ orch.job = JobCount /\ task[j].pc = "run"
    BY <1>7, OrchFacts DEF OrchExecute, TasksHold, TaskHolds
  <2>2. PICK res \in {<<JobDoc[j], inputs[JobInput[j]], installed>>, NoRecord} :
          task' = [task EXCEPT ![j] = [pc |-> "write", rec |-> JobRecord(j, JobKey(j), res)]]
    BY <1>7 DEF OrchExecute
  <2>3. /\ JobRecord(j, JobKey(j), res) \in HonestRecords
        /\ JobRecord(j, JobKey(j), res).key = JobKey(j)
    BY <2>1, <2>2, KeyOfRun, OrchFacts DEF JobRecord, HonestRecords, JobRecords, Follows
  <2>4. /\ UNCHANGED <<inputs, installed, outDir, jobCache, orch, orchUsed>>
        /\ task'[j] = [pc |-> "write", rec |-> JobRecord(j, JobKey(j), res)]
        /\ \A i \in OrchJobs \ {j} : task'[i] = task[i]
    BY <1>7, <2>2, OrchFacts DEF OrchExecute
  <2>5. TasksHold' /\ PrintsHold'
    <3>1. TaskHolds(j)'
      <4>1. JobKey(j)' = JobKey(j)
        BY <2>4 DEF JobKey
      <4>2. j < orch.job
        BY <2>1, OrchFacts DEF TasksHold, TaskHolds
      <4> QED BY <2>1, <2>3, <2>4, <4>1, <4>2 DEF TaskHolds
    <3>2. ASSUME NEW i \in OrchJobs \ {j} PROVE TaskHolds(i)'
      BY <2>4, OrchFacts DEF TasksHold, TaskHolds, JobKey
    <3> QED BY <2>4, <3>1, <3>2, OrchFacts DEF TasksHold, PrintsHold
  <2> QED
    BY <2>2, <2>3, <2>4, <2>5, OrchFacts DEF ReuseInv
<1>8. ASSUME NEW j \in OrchJobs, OrchWrite(j) PROVE ReuseInv'
  <2>1. /\ task[j].pc = "write" /\ task[j].rec \in HonestRecords
        /\ orch.pc = "plan" /\ orch.job = JobCount
    BY <1>8, OrchFacts DEF OrchWrite, TasksHold, TaskHolds
  <2>2. /\ UNCHANGED <<inputs, installed, jobCache, orch, orchUsed>>
        /\ outDir'[j] = task[j].rec /\ \A i \in OrchJobs \ {j} : outDir'[i] = outDir[i]
        /\ outDir' \in [OrchJobs -> JobRecords \cup {NoRecord}]
    BY <1>8, <2>1, OrchFacts DEF OrchWrite
  <2>3. /\ task'[j].rec = task[j].rec
        /\ \/ task'[j].pc = "cache" /\ RecordOk(task[j].rec)
           \/ task'[j].pc = "executed"
        /\ \A i \in OrchJobs \ {j} : task'[i] = task[i]
        /\ task' \in [OrchJobs -> [pc : {"none", "queued", "run", "write", "cache", "resumed",
                                        "cached", "executed"},
                                   rec : JobRecords \cup {NoRecord}]]
    BY <1>8, OrchFacts DEF OrchWrite
  <2>4. TasksHold' /\ PrintsHold'
    <3>1. TaskHolds(j)'
      BY <2>1, <2>2, <2>3, OrchFacts DEF TasksHold, TaskHolds, JobKey
    <3>2. ASSUME NEW i \in OrchJobs \ {j} PROVE TaskHolds(i)'
      BY <2>2, <2>3, OrchFacts DEF TasksHold, TaskHolds, JobKey
    <3> QED BY <2>2, <3>1, <3>2, OrchFacts DEF TasksHold, PrintsHold
  <2> QED
    BY <2>1, <2>2, <2>3, <2>4, OrchFacts DEF ReuseInv
<1>9. ASSUME NEW j \in OrchJobs, OrchCache(j) PROVE ReuseInv'
  <2>1. /\ task[j].rec \in HonestRecords /\ RecordOk(task[j].rec) /\ task[j].pc = "cache"
    BY <1>9, OrchFacts DEF OrchCache, TasksHold, TaskHolds
  <2>2. /\ jobCache' \subseteq {r \in HonestRecords : RecordOk(r)}
        /\ UNCHANGED <<inputs, installed, outDir, orch, orchUsed>>
    BY <1>9, <2>1, OrchFacts DEF OrchCache
  <2>3. /\ task'[j].pc = "executed" /\ task'[j].rec = task[j].rec
        /\ \A i \in OrchJobs \ {j} : task'[i] = task[i]
        /\ task' \in [OrchJobs -> [pc : {"none", "queued", "run", "write", "cache", "resumed",
                                        "cached", "executed"},
                                   rec : JobRecords \cup {NoRecord}]]
    BY <1>9, OrchFacts DEF OrchCache
  <2>4. TasksHold' /\ PrintsHold'
    BY <2>1, <2>2, <2>3, OrchFacts DEF TasksHold, TaskHolds, PrintsHold, JobKey
  <2> QED
    BY <2>2, <2>3, <2>4, OrchFacts DEF ReuseInv
<1> QED
  BY <1>1, <1>2, <1>3, <1>4, <1>5, <1>6, <1>7, <1>8, <1>9 DEF OrchNext

\* A new result directory satisfies ReuseInv.
LEMMA ReuseInvInit == OrchInit => ReuseInv
  BY DEF OrchInit, ReuseInv, OrchTypeOK, PrintsHold, TasksHold, TaskHolds, NoOrch, NoTask, NoFlags, OrchFlags

\* ppc-lab-orchestrate, whatever runs, is killed, resumed, copied from the cache, edited
\* or upgraded at any moment: a result lies under a key it does not follow from only if
\* the run that computed it saw an input or the engine change after it had hashed them;
\* only successes are shared, and what a run settled for a job is filed under its key.
THEOREM OrchestratorReuseSound == OrchSpec => []ReuseSound
<1>1. ReuseInv /\ [OrchNext]_orchVars => ReuseInv'
  BY ReuseInvInductive
<1>2. ReuseInv => ReuseSound
  BY OrchFacts DEF ReuseSound, TasksHold, TaskHolds, HonestRecords
<1> QED
  BY <1>1, <1>2, ReuseInvInit, PTL DEF OrchSpec

-----------------------------------------------------------------------------
(* Upgrade and rollback *)

\* Files hold what some release had, and a record says what it was made from.
UpTypeOK ==
  /\ tree \in [DOMAIN tree -> Archives]
  /\ up.pc \in {"idle", "ok", "snapshot", "record", "recorded", "remove", "copy"}
  /\ up = [pc |-> up.pc, op |-> up.op, tx |-> up.tx, src |-> up.src, status |-> up.status,
           todo |-> up.todo]
  /\ up.pc \notin {"idle", "ok"} => up.tx \in DOMAIN zips /\ up.status \in UpStatuses /\ Whole(up.src)
  /\ \A tid \in DOMAIN txs :
       /\ tid \in DOMAIN zips
       /\ txs[tid] # TornTx =>
            /\ txs[tid] \in UpRecords /\ txs[tid].from = tid[1]
            /\ Installed(txs[tid].hash).cmake = tid[1]

\* A transaction that can be rolled back.
CanRollBack(tid) == tid \in DOMAIN txs /\ txs[tid] # TornTx /\ zips[tid] = txs[tid].hash

\* Until the record is written the tree is what it was ...
BeforeChange ==
  /\ Whole(tree) /\ Installed(tree).cmake = up.tx[1]
  /\ up.pc # "snapshot" => zips[up.tx] = tree
  /\ up.pc = "recorded" => up.tx \in DOMAIN txs

\* ... from then on there is a way back ...
Copying ==
  /\ up.todo \subseteq DOMAIN up.src
  /\ DOMAIN tree \subseteq DOMAIN up.src \cup {-f : f \in up.todo}
  /\ \A f \in DOMAIN up.src \ up.todo : f \in DOMAIN tree /\ tree[f] = up.src[f]

\* ... until the tree is the one that was wanted.
AfterChange ==
  /\ tree = up.src /\ up.tx \in DOMAIN txs
  /\ Whole(zips[up.tx]) /\ Installed(zips[up.tx]).cmake = up.tx[1]

UpPhases ==
  /\ up.pc = "idle" => Whole(tree) \/ \E tid \in DOMAIN txs : CanRollBack(tid)
  /\ up.pc = "ok" => Whole(tree) /\ tree = up.src
  /\ up.pc = "snapshot" => up.status = "prepared"
  /\ up.pc \in {"snapshot", "record", "recorded"} =>
       IF up.status = "prepared" THEN BeforeChange ELSE AfterChange
  /\ up.pc \in {"remove", "copy"} => CanRollBack(up.tx) /\ up.status # "prepared"
  /\ up.pc = "copy" => Copying

UpInv == UpTypeOK /\ UpPhases


\* Every set of naturals has a least element.
LEMMA LeastNat ==
  ASSUME NEW T \in SUBSET Nat, T # {}
  PROVE  \E n \in T : \A m \in T : n <= m
<1> DEFINE R == OpToRel(<, Nat)
<1>1. IsWellFoundedOn(R, Nat)
  BY NatLessThanWellFounded
<1>2. \A x, y \in Nat : y < x => <<y, x>> \in R
  BY DEF OpToRel
<1> HIDE DEF R
<1>3. PICK x \in T : \A y \in T : ~ (<<y, x>> \in R)
  BY <1>1, WFMin
<1>4. x \in Nat /\ \A y \in T : y \in Nat /\ ~(y < x)
  BY <1>2, <1>3
<1> QED BY <1>3, <1>4

\* A whole release: positive file names, the version file among them.
LEMMA WholeTree ==
  ASSUME NEW t, Whole(t)
  PROVE  /\ t \in [DOMAIN t -> Archives] /\ DOMAIN t \subseteq Nat \ {0} /\ t # TornZip
         /\ t \in {UpTree(r) : r \in Archives}
         /\ Installed(t).cmake \in {Holds[r].cmake : r \in Archives}
<1>1. PICK r \in Archives : t = UpTree(r)
  BY DEF Whole
<1>2. t = [f \in Holds[r].files |-> r]
  BY <1>1 DEF UpTree
<1>3. DOMAIN t = Holds[r].files /\ t \in [DOMAIN t -> Archives] /\ VersionFile \in DOMAIN t
  BY <1>2, UpgradeAssumption
<1>4. t[VersionFile] \in Archives
  BY <1>3
<1> QED BY <1>1, <1>3, <1>4, UpgradeAssumption DEF Installed

\* A transaction that can be rolled back leads back to a whole release, the one its
\* record says.
LEMMA RollBackIsWhole ==
  ASSUME UpTypeOK, NEW tid, CanRollBack(tid)
  PROVE  /\ Whole(zips[tid]) /\ zips[tid] # TornZip /\ txs[tid] # TornTx /\ zips[tid] = txs[tid].hash
         /\ Installed(zips[tid]).cmake = txs[tid].from /\ txs[tid].from = tid[1]
         /\ tid \in DOMAIN zips
<1>1. /\ tid \in DOMAIN txs /\ txs[tid] # TornTx /\ zips[tid] = txs[tid].hash
  BY DEF CanRollBack
<1>2. txs[tid] \in UpRecords /\ txs[tid].from = tid[1] /\ Installed(txs[tid].hash).cmake = tid[1]
      /\ tid \in DOMAIN zips
  BY <1>1 DEF UpTypeOK
<1>3. \E r \in Archives : zips[tid] = UpTree(r)
  BY <1>1, <1>2 DEF UpRecords
<1>4. Whole(zips[tid])
  BY <1>3 DEF Whole
<1> QED BY <1>1, <1>2, <1>4, WholeTree

\* The command ends, or never began.
LEMMA CommandEnds ==
  ASSUME UpTypeOK, up' = NoUp, UNCHANGED <<tree, zips, txs>>,
         Whole(tree) \/ \E tid \in DOMAIN txs : CanRollBack(tid)
  PROVE  UpInv'
<1>1. up'.pc = "idle" /\ up'.src = <<>> /\ up' = [pc |-> up'.pc, op |-> up'.op, tx |-> up'.tx,
         src |-> up'.src, status |-> up'.status, todo |-> up'.todo]
  BY DEF NoUp
<1>2. UpTypeOK'
  BY <1>1 DEF UpTypeOK, Installed
<1>3. UpPhases'
  BY <1>1 DEF UpPhases, Whole, CanRollBack
<1> QED BY <1>2, <1>3 DEF UpInv

\* replace_from_dir begins: apply's, rollback's, or that of the except clause.
LEMMA ReplaceBegins ==
  ASSUME UpTypeOK, UNCHANGED <<tree, zips, txs>>, CanRollBack(up'.tx), Whole(up'.src),
         up'.pc = "remove", up'.status \in UpStatuses \ {"prepared"},
         up' = [pc |-> up'.pc, op |-> up'.op, tx |-> up'.tx, src |-> up'.src,
                status |-> up'.status, todo |-> up'.todo]
  PROVE  UpInv'
<1>1. up'.tx \in DOMAIN zips
  BY RollBackIsWhole
<1>2. UpTypeOK'
  BY <1>1 DEF UpTypeOK, Installed, Whole
<1>3. UpPhases'
  BY <1>1 DEF UpPhases, CanRollBack
<1> QED BY <1>2, <1>3 DEF UpInv

\* Every step keeps UpInv, if apply is not run on a torn tree.
LEMMA UpInvInductive ==
  ASSUME ~ReapplyTorn, UpInv, [UpNext]_upVars
  PROVE  UpInv'
<1>1. UpTypeOK /\ UpPhases
  BY DEF UpInv
<1>2. CASE UNCHANGED upVars
  BY <1>1, <1>2 DEF upVars, UpInv, UpTypeOK, UpPhases, BeforeChange, Copying, AfterChange, CanRollBack,
                    Whole, Installed
<1>3. ASSUME NEW r \in Archives, UpApply(r) PROVE UpInv'
  <2> DEFINE tid == <<Installed(tree).cmake, r>>
  <2>1. /\ Whole(tree) /\ UNCHANGED <<tree, txs>> /\ zips' = Put(zips, tid, TornZip)
        /\ up' = [pc |-> "snapshot", op |-> "apply", tx |-> tid, src |-> UpTree(r),
                  status |-> "prepared", todo |-> {}]
    BY <1>3 DEF UpApply
  <2>2. tid \in DOMAIN zips' /\ DOMAIN zips \subseteq DOMAIN zips' /\ tid[1] = Installed(tree).cmake
    BY <2>1 DEF Put
  <2>3. Whole(UpTree(r))
    BY DEF Whole
  <2> HIDE DEF tid
  <2>4. UpTypeOK'
    BY <1>1, <2>1, <2>2, <2>3 DEF UpTypeOK, UpStatuses, Whole, Installed
  <2>5. UpPhases'
    BY <2>1, <2>2 DEF UpPhases, BeforeChange, Whole, Installed
  <2> QED BY <2>4, <2>5 DEF UpInv
<1>4. ASSUME NEW tid \in DOMAIN txs, UpRollback(tid) PROVE UpInv'
  <2>1. /\ CanRollBack(tid) /\ UNCHANGED <<tree, zips, txs>>
        /\ up' = [pc |-> "remove", op |-> "rollback", tx |-> tid, src |-> zips[tid],
                  status |-> "rolled-back", todo |-> {}]
    BY <1>4 DEF UpRollback, CanRollBack
  <2> QED BY <1>1, <2>1, RollBackIsWhole, ReplaceBegins DEF UpStatuses
<1>5. CASE UpSnapshot
  <2>1. up.pc = "snapshot" /\ BeforeChange /\ up.status = "prepared" /\ up.tx \in DOMAIN zips
    BY <1>1, <1>5 DEF UpSnapshot, UpPhases, UpTypeOK
  <2>2. /\ UNCHANGED <<tree, txs>> /\ DOMAIN zips' = DOMAIN zips /\ zips'[up.tx] = tree
        /\ up' = [pc |-> "record", op |-> up.op, tx |-> up.tx, src |-> up.src,
                  status |-> up.status, todo |-> up.todo]
    BY <1>1, <1>5, <2>1 DEF UpSnapshot, UpTypeOK
  <2>3. UpTypeOK'
    BY <1>1, <2>1, <2>2 DEF UpTypeOK, Whole, Installed
  <2>4. UpPhases'
    BY <2>1, <2>2 DEF UpPhases, BeforeChange, Whole, Installed
  <2> QED BY <2>3, <2>4 DEF UpInv
<1>6. CASE UpRecord /\ up.pc = "record"
  <2>1. /\ up.tx \in DOMAIN zips /\ up.status \in UpStatuses /\ Whole(up.src)
        /\ IF up.status = "prepared" THEN BeforeChange ELSE AfterChange
    BY <1>1, <1>6 DEF UpPhases, UpTypeOK
  <2>2. /\ UNCHANGED <<tree, zips>> /\ txs' = Put(txs, up.tx, TornTx)
        /\ up' = [pc |-> "recorded", op |-> up.op, tx |-> up.tx, src |-> up.src,
                  status |-> up.status, todo |-> up.todo]
    BY <1>1, <1>6 DEF UpRecord, UpTypeOK
  <2>3. /\ DOMAIN txs' = DOMAIN txs \cup {up.tx} /\ txs'[up.tx] = TornTx
        /\ \A tid \in DOMAIN txs \ {up.tx} : txs'[tid] = txs[tid]
    BY <2>2 DEF Put
  <2>4. UpTypeOK'
    <3>1. \A tid \in DOMAIN txs' :
            /\ tid \in DOMAIN zips'
            /\ txs'[tid] # TornTx =>
                 /\ txs'[tid] \in UpRecords /\ txs'[tid].from = tid[1]
                 /\ Installed(txs'[tid].hash).cmake = tid[1]
      BY <1>1, <2>1, <2>2, <2>3 DEF UpTypeOK
    <3> QED BY <1>1, <2>1, <2>2, <3>1 DEF UpTypeOK, Whole, Installed
  <2>5. UpPhases'
    BY <1>6, <2>1, <2>2, <2>3 DEF UpPhases, BeforeChange, AfterChange, Whole, Installed
  <2> QED BY <2>4, <2>5 DEF UpInv
<1>7. CASE UpRecord /\ up.pc = "recorded"
  <2> DEFINE rec == [status |-> up.status, from |-> up.tx[1], hash |-> zips[up.tx]]
  <2>1. /\ up.tx \in DOMAIN zips /\ up.status \in UpStatuses /\ Whole(up.src)
        /\ IF up.status = "prepared" THEN BeforeChange ELSE AfterChange
    BY <1>1, <1>7 DEF UpPhases, UpTypeOK
  <2>2. /\ up.tx \in DOMAIN txs /\ Whole(tree) /\ Whole(zips[up.tx])
        /\ Installed(zips[up.tx]).cmake = up.tx[1]
        /\ up.status # "prepared" => tree = up.src
    BY <1>7, <2>1 DEF BeforeChange, AfterChange
  <2>3. rec \in UpRecords /\ rec # TornTx
    BY <2>1, <2>2, WholeTree, UpgradeAssumption DEF UpRecords
  <2>4. UNCHANGED <<tree, zips>> /\ txs' = [txs EXCEPT ![up.tx] = rec]
    BY <1>7 DEF UpRecord
  <2>5. /\ DOMAIN txs' = DOMAIN txs /\ txs'[up.tx] = rec
        /\ \A tid \in DOMAIN txs \ {up.tx} : txs'[tid] = txs[tid]
    BY <2>2, <2>4
  <2>6. \A tid \in DOMAIN txs' :
          /\ tid \in DOMAIN zips'
          /\ txs'[tid] # TornTx =>
               /\ txs'[tid] \in UpRecords /\ txs'[tid].from = tid[1]
               /\ Installed(txs'[tid].hash).cmake = tid[1]
    <3>1. ASSUME NEW tid \in DOMAIN txs \ {up.tx}
          PROVE  /\ tid \in DOMAIN zips'
                 /\ txs'[tid] # TornTx =>
                      /\ txs'[tid] \in UpRecords /\ txs'[tid].from = tid[1]
                      /\ Installed(txs'[tid].hash).cmake = tid[1]
      BY <1>1, <2>4, <2>5 DEF UpTypeOK
    <3>2. /\ up.tx \in DOMAIN zips' /\ txs'[up.tx] \in UpRecords
          /\ txs'[up.tx].from = up.tx[1] /\ Installed(txs'[up.tx].hash).cmake = up.tx[1]
      BY <2>1, <2>2, <2>3, <2>4, <2>5
    <3> QED BY <2>5, <3>1, <3>2
  <2>7. CASE up.status = "prepared"
    <3>1. up' = [pc |-> "remove", op |-> up.op, tx |-> up.tx, src |-> up.src,
                 status |-> "applied", todo |-> up.todo]
      BY <1>1, <1>7, <2>7 DEF UpRecord, UpTypeOK
    <3>2. UpTypeOK'
      BY <1>1, <2>1, <2>4, <2>6, <3>1 DEF UpTypeOK, Whole, Installed, UpStatuses
    <3>3. CanRollBack(up.tx)'
      BY <2>2, <2>3, <2>4, <2>5, <3>1 DEF CanRollBack
    <3>4. UpPhases'
      BY <3>1, <3>3 DEF UpPhases
    <3> QED BY <3>2, <3>4 DEF UpInv
  <2>8. CASE up.status # "prepared"
    <3>1. \/ up' = NoUp
          \/ up' = [pc |-> "ok", op |-> up.op, tx |-> up.tx, src |-> up.src,
                    status |-> up.status, todo |-> up.todo]
      BY <1>1, <1>7, <2>1, <2>8 DEF UpRecord, UpTypeOK, UpStatuses
    <3>2. UpTypeOK'
      BY <1>1, <2>4, <2>6, <3>1 DEF UpTypeOK, Installed, NoUp
    <3>3. UpPhases'
      BY <2>2, <2>4, <2>8, <3>1 DEF UpPhases, Whole, NoUp
    <3> QED BY <3>2, <3>3 DEF UpInv
  <2> QED BY <2>7, <2>8
<1>8. CASE UpRemove
  <2>1. /\ up.pc = "remove" /\ CanRollBack(up.tx) /\ up.status # "prepared"
        /\ UNCHANGED <<zips, txs>>
    BY <1>1, <1>8 DEF UpRemove, UpPhases
  <2>2. CASE DOMAIN tree \ DOMAIN up.src # {}
    <3>1. PICK f \in DOMAIN tree : tree' = Drop(tree, f) /\ up' = up
      BY <1>8, <2>2 DEF UpRemove
    <3>2. tree' \in [DOMAIN tree' -> Archives]
      BY <1>1, <3>1 DEF UpTypeOK, Drop
    <3>3. UpTypeOK'
      BY <1>1, <2>1, <3>1, <3>2 DEF UpTypeOK, Whole, Installed
    <3>4. UpPhases'
      BY <2>1, <3>1 DEF UpPhases, CanRollBack
    <3> QED BY <3>3, <3>4 DEF UpInv
  <2>3. CASE DOMAIN tree \ DOMAIN up.src = {}
    <3>1. /\ tree' = tree
          /\ up' = [pc |-> "copy", op |-> up.op, tx |-> up.tx, src |-> up.src,
                    status |-> up.status, todo |-> DOMAIN up.src]
      BY <1>1, <1>8, <2>3 DEF UpRemove, UpTypeOK
    <3>2. UpTypeOK'
      BY <1>1, <2>1, <3>1 DEF UpTypeOK, Whole, Installed
    <3>3. UpPhases'
      BY <2>1, <2>3, <3>1 DEF UpPhases, CanRollBack, Copying
    <3> QED BY <3>2, <3>3 DEF UpInv
  <2> QED BY <2>2, <2>3
<1>9. CASE UpCopy
  <2> DEFINE f == CHOOSE x \in up.todo : \A y \in up.todo : x <= y
  <2>1. /\ up.pc = "copy" /\ CanRollBack(up.tx) /\ up.status # "prepared" /\ Copying
        /\ up.todo # {} /\ UNCHANGED <<zips, txs>> /\ Whole(up.src)
    BY <1>1, <1>9 DEF UpCopy, UpPhases, UpTypeOK
  <2>2. DOMAIN up.src \subseteq Nat \ {0} /\ up.src \in [DOMAIN up.src -> Archives]
    BY <2>1, WholeTree
  <2>3. up.todo \in SUBSET Nat /\ up.todo \subseteq DOMAIN up.src
    BY <2>1, <2>2 DEF Copying
  <2>4. f \in up.todo
    BY <2>1, <2>3, LeastNat
  <2>5. /\ \/ tree' = Put(tree, -f, up.src[f]) /\ up' = up
           \/ /\ tree' = Put(Drop(tree, -f), f, up.src[f])
              /\ up' = [pc |-> "copy", op |-> up.op, tx |-> up.tx, src |-> up.src,
                        status |-> up.status, todo |-> up.todo \ {f}]
    BY <1>1, <1>9, <2>1 DEF UpCopy, UpTypeOK
  <2> HIDE DEF f
  <2>6. f \in DOMAIN up.src /\ f \in Nat /\ f # 0 /\ up.src[f] \in Archives
    BY <2>2, <2>3, <2>4
  <2>7. \A g \in DOMAIN up.src : g # -f
    BY <2>2, <2>6
  <2>8. tree \in [DOMAIN tree -> Archives]
    BY <1>1 DEF UpTypeOK
  <2>9. CASE tree' = Put(tree, -f, up.src[f]) /\ up' = up
    <3>1. /\ DOMAIN tree' = DOMAIN tree \cup {-f}
          /\ \A g \in DOMAIN tree \ {-f} : tree'[g] = tree[g]
      BY <2>9 DEF Put
    <3>2. tree' \in [DOMAIN tree' -> Archives]
      BY <2>6, <2>8, <2>9 DEF Put
    <3>3. Copying'
      BY <2>1, <2>4, <2>7, <2>9, <3>1 DEF Copying
    <3>4. UpTypeOK'
      BY <1>1, <2>1, <2>9, <3>2 DEF UpTypeOK, Whole, Installed
    <3>5. UpPhases'
      BY <2>1, <2>9, <3>3 DEF UpPhases, CanRollBack
    <3> QED BY <3>4, <3>5 DEF UpInv
  <2>10. CASE /\ tree' = Put(Drop(tree, -f), f, up.src[f])
              /\ up' = [pc |-> "copy", op |-> up.op, tx |-> up.tx, src |-> up.src,
                        status |-> up.status, todo |-> up.todo \ {f}]
    <3>1. /\ DOMAIN tree' = (DOMAIN tree \ {-f}) \cup {f} /\ tree'[f] = up.src[f]
          /\ \A g \in DOMAIN tree \ {f, -f} : tree'[g] = tree[g]
      BY <2>10 DEF Put, Drop
    <3>2. tree' \in [DOMAIN tree' -> Archives]
      BY <2>6, <2>8, <2>10 DEF Put, Drop
    <3>3. Copying'
      <4>1. \A g \in DOMAIN up.src \ (up.todo \ {f}) : g \in DOMAIN tree' /\ tree'[g] = up.src[g]
        BY <2>1, <2>7, <3>1 DEF Copying
      <4>2. DOMAIN tree' \subseteq DOMAIN up.src \cup {-g : g \in up.todo \ {f}}
        BY <2>1, <2>6, <3>1 DEF Copying
      <4> QED BY <2>3, <2>10, <4>1, <4>2 DEF Copying
    <3>4. UpTypeOK'
      BY <1>1, <2>1, <2>10, <3>2 DEF UpTypeOK, Whole, Installed
    <3>5. UpPhases'
      BY <2>1, <2>10, <3>3 DEF UpPhases, CanRollBack
    <3> QED BY <3>4, <3>5 DEF UpInv
  <2> QED BY <2>5, <2>9, <2>10
<1>10. CASE UpCheck
  <2>1. /\ up.pc = "copy" /\ CanRollBack(up.tx) /\ up.status # "prepared" /\ Copying
        /\ up.todo = {} /\ UNCHANGED <<tree, zips, txs>> /\ Whole(up.src)
    BY <1>1, <1>10 DEF UpCheck, UpPhases, UpTypeOK
  <2>2. tree = up.src
    <3>1. DOMAIN tree = DOMAIN up.src /\ \A f \in DOMAIN up.src : tree[f] = up.src[f]
      BY <2>1 DEF Copying
    <3>2. tree \in [DOMAIN tree -> Archives] /\ up.src \in [DOMAIN up.src -> Archives]
      BY <1>1, <2>1, WholeTree DEF UpTypeOK
    <3> QED BY <3>1, <3>2
  <2>3. CASE up' = UpGiveUp
    <3>1. up' = [pc |-> "remove", op |-> up.op, tx |-> up.tx, src |-> zips[up.tx],
                 status |-> "rolled-back-after-failure", todo |-> {}]
      BY <1>1, <2>3 DEF UpGiveUp, UpTypeOK
    <3> QED BY <1>1, <2>1, <3>1, RollBackIsWhole, ReplaceBegins DEF UpStatuses
  <2>4. CASE up' = NoUp
    BY <1>1, <2>1, <2>2, <2>4, CommandEnds
  <2>5. CASE up' = [up EXCEPT !.pc = "record"]
    <3>1. up' = [pc |-> "record", op |-> up.op, tx |-> up.tx, src |-> up.src,
                 status |-> up.status, todo |-> up.todo]
      BY <1>1, <2>5 DEF UpTypeOK
    <3>2. up.tx \in DOMAIN txs /\ Whole(zips[up.tx]) /\ Installed(zips[up.tx]).cmake = up.tx[1]
      BY <1>1, <2>1, RollBackIsWhole DEF CanRollBack
    <3>3. UpTypeOK'
      BY <1>1, <2>1, <3>1 DEF UpTypeOK, Whole, Installed
    <3>4. AfterChange'
      BY <2>1, <2>2, <3>1, <3>2 DEF AfterChange, Whole, Installed
    <3>5. UpPhases'
      BY <2>1, <3>1, <3>4 DEF UpPhases
    <3> QED BY <3>3, <3>5 DEF UpInv
  <2> QED BY <1>10, <2>3, <2>4, <2>5 DEF UpCheck
<1>11. CASE UpFail \/ UpKill
  <2>1. UNCHANGED <<tree, zips, txs>> /\ up.pc \notin {"idle", "ok"}
    BY <1>11 DEF UpFail, UpKill
  <2>2. CASE up' = UpGiveUp /\ up.pc \in {"remove", "copy"}
    <3>1. up' = [pc |-> "remove", op |-> up.op, tx |-> up.tx, src |-> zips[up.tx],
                 status |-> "rolled-back-after-failure", todo |-> {}]
      BY <1>1, <2>2 DEF UpGiveUp, UpTypeOK
    <3>2. CanRollBack(up.tx)
      BY <1>1, <2>2 DEF UpPhases
    <3> QED BY <1>1, <2>1, <3>1, <3>2, RollBackIsWhole, ReplaceBegins DEF UpStatuses
  <2>3. CASE up' = NoUp
    <3>1. Whole(tree) \/ \E tid \in DOMAIN txs : CanRollBack(tid)
      <4>1. CASE up.pc \in {"remove", "copy"}
        BY <1>1, <4>1 DEF UpPhases, CanRollBack
      <4>2. CASE up.pc \in {"snapshot", "record", "recorded"}
        BY <1>1, <4>2 DEF UpPhases, UpTypeOK, BeforeChange, AfterChange
      <4> QED BY <1>1, <2>1, <4>1, <4>2 DEF UpTypeOK
    <3> QED BY <1>1, <2>1, <2>3, <3>1, CommandEnds
  <2> QED BY <1>11, <2>2, <2>3 DEF UpFail, UpKill
<1>12. CASE UpRecord
  BY <1>6, <1>7, <1>12 DEF UpRecord
<1> QED
  BY <1>2, <1>3, <1>4, <1>5, <1>8, <1>9, <1>10, <1>11, <1>12 DEF UpNext

\* For any releases, channel and number of commands, failures and kills: a torn tree has a
\* readable transaction that leads back to one whole release, and a command that reports
\* success leaves exactly the release it was for.  apply must not be run on a torn tree,
\* which it does not check itself.
THEOREM UpgradeLeavesAWayBack ==
  ASSUME ~ReapplyTorn
  PROVE  UpSpec => []UpgradeRecoverable
<1>1. UpInit => UpInv
  <2> SUFFICES ASSUME UpInit PROVE UpInv
    OBVIOUS
  <2>1. Whole(tree) /\ DOMAIN txs = {} /\ up = NoUp
    BY UpgradeAssumption DEF UpInit, Whole
  <2>2. UpTypeOK
    BY <2>1, WholeTree DEF UpTypeOK, NoUp
  <2>3. UpPhases
    BY <2>1 DEF UpPhases, NoUp
  <2> QED BY <2>2, <2>3 DEF UpInv
<1>2. UpInv /\ [UpNext]_upVars => UpInv'
  BY UpInvInductive
<1>3. UpInv => UpgradeRecoverable
  <2> SUFFICES ASSUME UpInv PROVE UpgradeRecoverable
    OBVIOUS
  <2>1. UpTypeOK /\ UpPhases
    BY DEF UpInv
  <2>2. ASSUME up.pc = "idle", ~Whole(tree)
        PROVE  \E tid \in DOMAIN txs :
                 /\ txs[tid] # TornTx /\ zips[tid] = txs[tid].hash
                 /\ zips[tid] # TornZip /\ Whole(zips[tid]) /\ Installed(zips[tid]).cmake = txs[tid].from
    <3>1. PICK tid \in DOMAIN txs : CanRollBack(tid)
      BY <2>1, <2>2 DEF UpPhases
    <3> QED BY <2>1, <3>1, RollBackIsWhole
  <2>3. up.pc = "ok" => tree = up.src /\ Whole(tree)
    BY <2>1 DEF UpPhases
  <2> QED BY <2>2, <2>3 DEF UpgradeRecoverable
<1> QED BY <1>1, <1>2, <1>3, PTL DEF UpSpec

-----------------------------------------------------------------------------
(* Backup and restore *)

BackupLabels ==
  {"idle", "evidence", "objects", "knowledge", "lock", "state", "items", "write",
   "move", "install", "undo", "failed"}

\* Content that a component may hold, or none; on disk it may also be cut short.
MayHold(s) ==
  s = [c \in Components |-> s[c]] /\ \A c \in Components : s[c] \in Contents[c] \cup {NotThere}
MayLie(s) ==
  /\ s = [c \in Components |-> s[c]]
  /\ \A c \in Components : s[c] \in Contents[c] \cup {NotThere, PartCopied}

BackupTypeOK ==
  /\ MayLie(disk) /\ kept = [c \in Components |-> kept[c]]
  /\ putting \in Objects \cup {NotThere} /\ submitting \in BOOLEAN
  /\ bk = [pc |-> bk.pc, live |-> bk.live, stage |-> bk.stage, before |-> bk.before,
           moved |-> bk.moved, installed |-> bk.installed, inway |-> bk.inway]
  /\ bk.pc \in BackupLabels /\ MayHold(bk.stage) /\ MayLie(bk.before)
  /\ bk.moved \subseteq Components /\ bk.installed \subseteq Components
  /\ bk.inway \subseteq Components
  /\ \A a \in archives :
       /\ a = [state |-> a.state, live |-> a.live] /\ a.state = [c \in Components |-> a.state[c]]
       /\ \A c \in Components : a.state[c] \in Contents[c] \cup {NotThere, Garbled}

\* No item of a control root carries a number that is still to be given away ...
Numbered(s) ==
  s["control"] \notin {NotThere, PartCopied} =>
    \A i \in s["control"].items : i < s["control"].next
\* ... and no object that the index names is missing.
Indexed(s) == s["evidence"] # NotThere => s["evidence"].db \subseteq s["evidence"].objects

\* Between the two writes of a submission there is one such item.
ControlHolds ==
  Readable("control") =>
    \A i \in disk["control"].items :
      i < disk["control"].next \/ (submitting /\ i = disk["control"].next)

\* create: nothing is being submitted, nothing is cut short, and what is staged so far
\* is complete.
CreateHolds ==
  Creating =>
    /\ MayHold(disk) /\ ~submitting /\ Numbered(bk.stage)
    /\ bk.pc = "objects" => bk.stage["evidence"] # NotThere
    /\ bk.pc # "objects" => Indexed(bk.stage)
    /\ bk.pc \in {"lock", "state", "items"} => disk["control"] # NotThere
    /\ bk.pc = "items" => bk.stage["control"] # NotThere

\* restore: where every component is, at each stage of the two moves and of the undo.
\* What was moved aside, or would be where a failed move stands in the way, is kept.
RestoreAt(l, moved, put, inway, there, safe) ==
  /\ put \subseteq Staged /\ moved \subseteq Staged
  /\ inway \subseteq Staged \ put
  /\ l = "move" => put = {}
  /\ l = "install" => \A c \in Staged \ moved : bk.before[c] = NotThere
  /\ l # "undo" => inway = {}
  /\ l = "undo" => \A c \in put \ moved : bk.before[c] = NotThere
  /\ \A c \in Components \ inway :
       there[c] = IF c \in put THEN bk.stage[c]
                  ELSE IF c \in moved THEN NotThere ELSE bk.before[c]
  /\ \A c \in inway : there[c] \in {bk.stage[c], PartCopied}
  /\ \A c \in moved \cup inway : bk.before[c] \in safe[c] \cup {NotThere}

RestoreHolds ==
  Restoring =>
    /\ ~submitting /\ Numbered(bk.stage) /\ Numbered(bk.before)
    /\ RestoreAt(bk.pc, bk.moved, bk.installed, bk.inway, disk, kept)

BackupInv ==
  BackupTypeOK /\ ArchiveComplete /\ ControlHolds /\ CreateHolds /\ RestoreHolds


\* What a component may hold, by name.
LEMMA ContentsAre ==
  /\ Contents["evidence"] = [db : SUBSET Objects, objects : SUBSET Objects]
  /\ Contents["knowledge"] = {"graph"} /\ Contents["control"] = [next : Nat, items : SUBSET Nat]
  /\ \A c \in Components : NotThere \notin Contents[c] /\ Garbled \notin Contents[c]
                           /\ PartCopied \notin Contents[c]
  /\ Garbled # NotThere /\ PartCopied # NotThere /\ Garbled # PartCopied
  /\ "evidence" \in Components /\ "knowledge" \in Components /\ "control" \in Components
  BY BackupAssumption DEF Contents, Components

\* What may be held is not damaged.
LEMMA HeldIsWhole ==
  ASSUME NEW s, \A c \in Components : s[c] \in Contents[c] \cup {NotThere, PartCopied}
  PROVE  \A c \in Components : s[c] # Garbled
  BY ContentsAre

\* The process ends: nothing it has staged matters any more.
LEMMA BackupEnds ==
  ASSUME BackupInv, bk' = NoBackup, UNCHANGED <<disk, kept, putting, submitting>>,
         ArchiveComplete', BackupTypeOK => BackupTypeOK'
  PROVE  BackupInv'
<1>1. bk'.pc = "idle"
  BY DEF NoBackup
<1>2. ControlHolds'
  BY DEF BackupInv, ControlHolds, Readable
<1>3. CreateHolds' /\ RestoreHolds'
  BY <1>1 DEF CreateHolds, RestoreHolds, Creating, Restoring
<1> QED BY <1>2, <1>3 DEF BackupInv

\* The process at rest holds nothing.
LEMMA NothingStaged ==
  /\ NoBackup.pc = "idle" /\ NoBackup.stage = Nothing /\ NoBackup.before = Nothing
  /\ NoBackup.moved = {} /\ NoBackup.installed = {} /\ NoBackup.live = FALSE
  /\ NoBackup.inway = {}
  /\ MayHold(Nothing) /\ MayLie(Nothing) /\ Numbered(Nothing) /\ Indexed(Nothing)
  BY ContentsAre DEF NoBackup, Nothing, MayHold, MayLie, Numbered, Indexed

\* The types of the idle process.
LEMMA IdleTyped ==
  ASSUME BackupTypeOK, bk' = NoBackup, UNCHANGED <<disk, kept, archives, putting, submitting>>
  PROVE  BackupTypeOK'
<1>1. MayLie(disk)' /\ MayHold(bk.stage)' /\ MayLie(bk.before)'
  BY NothingStaged DEF BackupTypeOK, MayHold, MayLie
<1> QED BY <1>1 DEF BackupTypeOK, NoBackup, BackupLabels

\* A step of the process that touches no file keeps the invariant, if it keeps what is
\* said of the process.
LEMMA ProcessMoves ==
  ASSUME BackupInv, UNCHANGED <<disk, kept, archives, putting, submitting>>,
         bk' = [pc |-> bk'.pc, live |-> bk'.live, stage |-> bk'.stage, before |-> bk'.before,
                moved |-> bk'.moved, installed |-> bk'.installed, inway |-> bk'.inway],
         bk'.pc \in BackupLabels, MayHold(bk.stage)', MayLie(bk.before)',
         bk'.moved \subseteq Components, bk'.installed \subseteq Components,
         bk'.inway \subseteq Components,
         CreateHolds', RestoreHolds'
  PROVE  BackupInv'
<1>1. BackupTypeOK'
  <2>1. MayLie(disk)'
    BY DEF BackupInv, BackupTypeOK, MayHold, MayLie
  <2> QED BY <2>1 DEF BackupInv, BackupTypeOK
<1>2. ArchiveComplete' /\ ControlHolds'
  BY DEF BackupInv, ArchiveComplete, ControlHolds, Verified, Readable
<1> QED BY <1>1, <1>2 DEF BackupInv

\* The other programs write; no restore runs.
LEMMA WritersKeep ==
  ASSUME QuietControl, BackupInv, Writers
  PROVE  BackupInv' /\ NothingLost
<1> DEFINE ev == disk["evidence"]
           ct == disk["control"]
<1>1. /\ BackupTypeOK /\ ArchiveComplete /\ ControlHolds /\ CreateHolds /\ RestoreHolds
      /\ ~Restoring /\ UNCHANGED <<kept, archives, bk, bkUsed>>
  BY DEF BackupInv, Writers
<1>2. /\ disk = [c \in Components |-> disk[c]]
      /\ \A c \in Components : disk[c] \in Contents[c] \cup {NotThere, PartCopied}
  BY <1>1 DEF BackupTypeOK, MayHold, MayLie
<1>3. /\ ev \in [db : SUBSET Objects, objects : SUBSET Objects] \cup {NotThere, PartCopied}
      /\ ct \in [next : Nat, items : SUBSET Nat] \cup {NotThere, PartCopied}
      /\ Readable("evidence") <=> ev \notin {NotThere, PartCopied}
      /\ Readable("control") <=> ct \notin {NotThere, PartCopied}
  BY <1>2, ContentsAre DEF Readable
<1>4. ASSUME NEW e \in [db : SUBSET Objects, objects : SUBSET Objects], Readable("evidence"),
             disk' = [disk EXCEPT !["evidence"] = e],
             putting' \in Objects \cup {NotThere}, UNCHANGED submitting
      PROVE  BackupInv' /\ NothingLost
  <2>1. /\ disk' = [c \in Components |-> disk'[c]] /\ disk'["evidence"] = e
        /\ \A c \in Components \ {"evidence"} : disk'[c] = disk[c]
    BY <1>2, <1>4, ContentsAre
  <2>2. \A c \in Components : disk'[c] \in Contents[c] \cup {NotThere, PartCopied}
    BY <1>2, <1>4, <2>1, ContentsAre
  <2>3. disk'["control"] = disk["control"]
    BY <2>1, ContentsAre
  <2>4. BackupTypeOK'
    <3>1. MayLie(disk)' /\ MayHold(bk.stage)' /\ MayLie(bk.before)'
      BY <1>1, <2>1, <2>2 DEF BackupTypeOK, MayHold, MayLie
    <3> QED BY <1>1, <1>4, <3>1 DEF BackupTypeOK
  <2>w. MayHold(disk) => MayHold(disk)'
    BY <1>4, <2>1, ContentsAre DEF MayHold
  <2>5. ArchiveComplete' /\ ControlHolds' /\ CreateHolds' /\ RestoreHolds'
    BY <1>1, <1>4, <2>3, <2>w DEF ArchiveComplete, Verified, ControlHolds, Readable, CreateHolds, RestoreHolds,
                            Creating, Restoring, Numbered, Indexed
  <2>6. NothingLost
    <3>1. disk'["evidence"] # NotThere
      BY <1>4, <2>1, ContentsAre
    <3>2. \A c \in Components : disk'[c] # Garbled
      BY <2>2, ContentsAre
    <3> QED BY <1>1, <2>1, <3>1, <3>2 DEF NothingLost
  <2> QED BY <2>4, <2>5, <2>6 DEF BackupInv
<1>5. ASSUME NEW k \in [next : Nat, items : SUBSET Nat], Readable("control"),
             disk' = [disk EXCEPT !["control"] = k], UNCHANGED putting,
             submitting' \in BOOLEAN, Creating => ~submitting',
             \A i \in k.items : i < k.next \/ (submitting' /\ i = k.next)
      PROVE  BackupInv' /\ NothingLost
  <2>1. /\ disk' = [c \in Components |-> disk'[c]] /\ disk'["control"] = k
        /\ \A c \in Components \ {"control"} : disk'[c] = disk[c]
    BY <1>2, <1>5, ContentsAre
  <2>2. \A c \in Components : disk'[c] \in Contents[c] \cup {NotThere, PartCopied}
    BY <1>2, <1>5, <2>1, ContentsAre
  <2>3. disk'["control"] # NotThere
    BY <1>5, <2>1, ContentsAre
  <2>4. BackupTypeOK'
    <3>1. MayLie(disk)' /\ MayHold(bk.stage)' /\ MayLie(bk.before)'
      BY <1>1, <2>1, <2>2 DEF BackupTypeOK, MayHold, MayLie
    <3> QED BY <1>1, <1>5, <3>1 DEF BackupTypeOK
  <2>w. MayHold(disk) => MayHold(disk)'
    BY <1>5, <2>1, ContentsAre DEF MayHold
  <2>5. ArchiveComplete' /\ ControlHolds' /\ CreateHolds' /\ RestoreHolds'
    BY <1>1, <1>5, <2>1, <2>3, <2>w DEF ArchiveComplete, Verified, ControlHolds, Readable, CreateHolds, RestoreHolds,
                            Creating, Restoring, Numbered, Indexed
  <2>6. NothingLost
    <3>1. \A c \in Components : disk'[c] # Garbled
      BY <2>2, ContentsAre
    <3> QED BY <1>1, <2>1, <2>3, <3>1 DEF NothingLost
  <2> QED BY <2>4, <2>5, <2>6 DEF BackupInv
<1>6. ASSUME UNCHANGED <<disk, submitting>>, putting' \in Objects \cup {NotThere}
      PROVE  BackupInv' /\ NothingLost
  <2>1. BackupTypeOK'
    <3>1. MayLie(disk)' /\ MayHold(bk.stage)' /\ MayLie(bk.before)'
      BY <1>1, <1>6 DEF BackupTypeOK, MayHold, MayLie
    <3> QED BY <1>1, <1>6, <3>1 DEF BackupTypeOK
  <2>2. ArchiveComplete' /\ ControlHolds' /\ CreateHolds' /\ RestoreHolds'
    BY <1>1, <1>6 DEF ArchiveComplete, Verified, ControlHolds, Readable, CreateHolds, RestoreHolds,
                            Creating, Restoring, Numbered, Indexed
  <2>3. NothingLost
    <3>1. \A c \in Components : disk'[c] # Garbled
      BY <1>2, <1>6, ContentsAre
    <3> QED BY <1>1, <1>6, <3>1 DEF NothingLost
  <2> QED BY <2>1, <2>2, <2>3 DEF BackupInv
<1>7. CASE /\ putting = NotThere /\ Readable("evidence")
           /\ \E o \in Objects \ disk["evidence"].objects :
                /\ disk' = [disk EXCEPT !["evidence"].objects = @ \cup {o}]
                /\ putting' = o
           /\ UNCHANGED <<alive, submitting>>
  <2>1. PICK o \in Objects : /\ disk' = [disk EXCEPT !["evidence"].objects = @ \cup {o}]
                             /\ putting' = o
    BY <1>7
  <2>2. disk' = [disk EXCEPT !["evidence"] = [ev EXCEPT !.objects = ev.objects \cup {o}]]
    BY <2>1
  <2>3. [ev EXCEPT !.objects = ev.objects \cup {o}] \in [db : SUBSET Objects, objects : SUBSET Objects]
    BY <1>3, <1>7
  <2> QED BY <1>3, <1>4, <1>7, <2>1, <2>2, <2>3
<1>8. CASE /\ putting # NotThere /\ putting' = NotThere
           /\ disk' = IF Readable("evidence") /\ putting \in disk["evidence"].objects
                        THEN [disk EXCEPT !["evidence"].db = @ \cup {putting}] ELSE disk
           /\ UNCHANGED <<alive, submitting>>
  <2>1. CASE Readable("evidence") /\ putting \in disk["evidence"].objects
    <3>1. disk' = [disk EXCEPT !["evidence"] = [ev EXCEPT !.db = ev.db \cup {putting}]]
      BY <1>8, <2>1
    <3>2. [ev EXCEPT !.db = ev.db \cup {putting}] \in [db : SUBSET Objects, objects : SUBSET Objects]
      BY <1>1, <1>3, <1>8, <2>1 DEF BackupTypeOK
    <3> QED BY <1>3, <1>4, <1>8, <2>1, <3>1, <3>2
  <2>2. CASE ~(Readable("evidence") /\ putting \in disk["evidence"].objects)
    BY <1>6, <1>8, <2>2
  <2> QED BY <2>1, <2>2
<1>9. CASE /\ Readable("control") /\ ~submitting /\ ~(QuietControl /\ Creating)
           /\ disk["control"].next <= MaxItems
           /\ disk' = [disk EXCEPT !["control"].items = @ \cup {disk["control"].next}]
           /\ submitting' = TRUE /\ UNCHANGED <<alive, putting>>
  <2> DEFINE k == [ct EXCEPT !.items = ct.items \cup {ct.next}]
  <2>1. disk' = [disk EXCEPT !["control"] = k]
    BY <1>9
  <2>2. k \in [next : Nat, items : SUBSET Nat] /\ k.items = ct.items \cup {ct.next} /\ k.next = ct.next
    BY <1>3, <1>9
  <2>3. \A i \in k.items : i < k.next \/ (submitting' /\ i = k.next)
    BY <1>1, <1>3, <1>9, <2>2 DEF ControlHolds, Readable
  <2> QED BY <1>3, <1>5, <1>9, <2>1, <2>2, <2>3
<1>10. CASE /\ Readable("control") /\ submitting
            /\ disk' = [disk EXCEPT !["control"].next = @ + 1]
            /\ submitting' = FALSE /\ UNCHANGED <<alive, putting>>
  <2> DEFINE k == [ct EXCEPT !.next = ct.next + 1]
  <2>1. disk' = [disk EXCEPT !["control"] = k]
    BY <1>10
  <2>2. k \in [next : Nat, items : SUBSET Nat] /\ k.items = ct.items /\ k.next = ct.next + 1
        /\ ct.next \in Nat /\ ct.items \subseteq Nat
    BY <1>3, <1>10
  <2>3. \A i \in k.items : i < k.next \/ (submitting' /\ i = k.next)
    BY <1>1, <1>3, <1>10, <2>2 DEF ControlHolds, Readable
  <2> QED BY <1>3, <1>5, <1>10, <2>1, <2>2, <2>3
<1>11. CASE alive' = ~alive /\ UNCHANGED <<disk, putting, submitting>>
  BY <1>1, <1>6, <1>11 DEF BackupTypeOK
<1> QED BY <1>7, <1>8, <1>9, <1>10, <1>11 DEF Writers

\* A step that neither touches a component nor ends an undo loses nothing.
LEMMA FilesStay ==
  ASSUME BackupInv, UNCHANGED <<disk, kept>>, bk'.pc # "failed"
  PROVE  NothingLost
<1>1. \A c \in Components : disk[c] \in Contents[c] \cup {NotThere, PartCopied}
  BY DEF BackupInv, BackupTypeOK, MayHold, MayLie
<1>2. \A c \in Components : disk[c] # Garbled
  BY <1>1, ContentsAre
<1> QED BY <1>2 DEF NothingLost

\* create.
LEMMA CreateKeeps ==
  ASSUME QuietControl, BackupInv,
         \/ \E b \in BOOLEAN : CreateBackup(b)
         \/ SnapshotEvidence \/ SnapshotKnowledge \/ CheckLive \/ CopyControl
  PROVE  BackupInv' /\ NothingLost
<1>1. /\ BackupTypeOK /\ ArchiveComplete /\ ControlHolds /\ CreateHolds /\ RestoreHolds
      /\ UNCHANGED <<disk, kept, archives, putting, submitting>>
  BY DEF BackupInv, CreateBackup, SnapshotEvidence, SnapshotKnowledge, CheckLive, CopyControl
<1>2. /\ bk = [pc |-> bk.pc, live |-> bk.live, stage |-> bk.stage, before |-> bk.before,
              moved |-> bk.moved, installed |-> bk.installed, inway |-> bk.inway]
      /\ MayHold(bk.stage) /\ MayLie(bk.before) /\ MayLie(disk)
      /\ bk.moved \subseteq Components /\ bk.installed \subseteq Components
      /\ bk.inway \subseteq Components
  BY <1>1 DEF BackupTypeOK
<1>w. MayHold(disk)
  <2>1. CASE Creating
    BY <1>1, <2>1 DEF CreateHolds
  <2>2. CASE \A c \in Components : disk[c] # PartCopied
    BY <1>2, <2>2 DEF MayHold, MayLie
  <2> QED
    BY <2>1, <2>2 DEF Creating, CreateBackup, SnapshotEvidence, SnapshotKnowledge, CheckLive,
                      CopyControl
<1>3. /\ disk["evidence"] \in [db : SUBSET Objects, objects : SUBSET Objects] \cup {NotThere}
      /\ disk["control"] \in [next : Nat, items : SUBSET Nat] \cup {NotThere}
      /\ bk.stage["evidence"] \in [db : SUBSET Objects, objects : SUBSET Objects] \cup {NotThere}
      /\ bk.stage["control"] \in [next : Nat, items : SUBSET Nat] \cup {NotThere}
      /\ disk["knowledge"] \in Contents["knowledge"] \cup {NotThere}
  BY <1>2, <1>w, ContentsAre DEF MayHold
<1>4. ASSUME bk' = NoBackup PROVE BackupInv' /\ NothingLost
  <2>1. bk'.pc = "idle"
    BY <1>4 DEF NoBackup
  <2>2. ArchiveComplete'
    BY <1>1 DEF ArchiveComplete, Verified
  <2> QED BY <1>1, <1>4, <2>1, <2>2, BackupEnds, IdleTyped, FilesStay
\* The next label, with a stage that may be held and is as complete as it has to be.
<1>5. ASSUME NEW l \in {"evidence", "objects", "knowledge", "lock", "state", "items", "write"},
             NEW s, MayHold(s), NEW v,
             bk' = [pc |-> l, live |-> v, stage |-> s, before |-> bk'.before,
                    moved |-> bk'.moved, installed |-> bk'.installed, inway |-> bk'.inway],
             MayLie(bk.before)', bk'.moved \subseteq Components, bk'.installed \subseteq Components,
         bk'.inway \subseteq Components,
             ~submitting, Numbered(s),
             l = "objects" => s["evidence"] # NotThere,
             l # "objects" => Indexed(s),
             l \in {"lock", "state", "items"} => disk["control"] # NotThere,
             l = "items" => s["control"] # NotThere
      PROVE  BackupInv' /\ NothingLost
  <2>1. bk'.pc = l /\ bk'.stage = s /\ bk'.live = v
    BY <1>5
  <2>2. MayHold(bk.stage)' /\ bk'.pc \in BackupLabels
    BY <1>5, <2>1 DEF MayHold, BackupLabels
  <2>3. CreateHolds' /\ RestoreHolds' /\ bk'.pc # "failed"
    BY <1>1, <1>5, <1>w, <2>1 DEF CreateHolds, RestoreHolds, Restoring, Numbered, Indexed, MayHold
  <2>4. bk' = [pc |-> bk'.pc, live |-> bk'.live, stage |-> bk'.stage, before |-> bk'.before,
                moved |-> bk'.moved, installed |-> bk'.installed, inway |-> bk'.inway]
    BY <1>5, <2>1
  <2> QED BY <1>1, <1>5, <2>2, <2>3, <2>4, ProcessMoves, FilesStay
<1>6. ASSUME NEW l \in {"evidence", "objects", "knowledge", "lock", "state", "items", "write"},
             NEW s, MayHold(s),
             bk' = [pc |-> l, live |-> bk.live, stage |-> s, before |-> bk.before,
                    moved |-> bk.moved, installed |-> bk.installed, inway |-> bk.inway],
             ~submitting, Numbered(s),
             l = "objects" => s["evidence"] # NotThere,
             l # "objects" => Indexed(s),
             l \in {"lock", "state", "items"} => disk["control"] # NotThere,
             l = "items" => s["control"] # NotThere
      PROVE  BackupInv' /\ NothingLost
  <2>1. bk'.before = bk.before /\ bk'.moved = bk.moved /\ bk'.installed = bk.installed
        /\ bk'.inway = bk.inway
    BY <1>6
  <2>2. MayLie(bk.before)'
    BY <1>2, <2>1 DEF MayLie
  <2>3. bk' = [pc |-> l, live |-> bk.live, stage |-> s, before |-> bk'.before,
                    moved |-> bk'.moved, installed |-> bk'.installed, inway |-> bk'.inway]
    BY <1>6, <2>1
  <2> QED BY <1>2, <1>5, <1>6, <2>1, <2>2, <2>3
<1>7. CASE \E b \in BOOLEAN : CreateBackup(b)
  <2>1. PICK b \in BOOLEAN : bk' = [NoBackup EXCEPT !.pc = "evidence", !.live = b] /\ ~submitting
    BY <1>7 DEF CreateBackup
  <2>2. bk' = [pc |-> "evidence", live |-> b, stage |-> Nothing, before |-> Nothing,
               moved |-> {}, installed |-> {}, inway |-> {}]
    BY <2>1 DEF NoBackup
  <2>3. bk'.before = Nothing /\ bk'.moved = {} /\ bk'.installed = {} /\ bk'.inway = {}
    BY <2>2
  <2>4. MayLie(bk.before)'
    BY <2>3, NothingStaged DEF MayLie
  <2>5. bk' = [pc |-> "evidence", live |-> b, stage |-> Nothing, before |-> bk'.before,
               moved |-> bk'.moved, installed |-> bk'.installed, inway |-> bk'.inway]
    BY <2>2, <2>3
  <2> QED BY <1>5, <2>1, <2>3, <2>4, <2>5, NothingStaged
<1>8. CASE SnapshotEvidence
  <2>1. CASE bk.pc = "evidence"
    <3>1. ~submitting /\ Numbered(bk.stage) /\ Indexed(bk.stage)
      BY <1>1, <2>1 DEF CreateHolds, Creating
    <3>2. CASE Present("evidence")
      <4> DEFINE e == [db |-> disk["evidence"].db, objects |-> {}]
                 s == [bk.stage EXCEPT !["evidence"] = e]
      <4>1. bk' = [bk EXCEPT !.stage["evidence"] = e, !.pc = "objects"]
        BY <1>8, <2>1, <3>2 DEF SnapshotEvidence, Stage
      <4>2. bk' = [pc |-> "objects", live |-> bk.live, stage |-> s, before |-> bk.before,
                   moved |-> bk.moved, installed |-> bk.installed, inway |-> bk.inway]
        BY <1>2, <4>1
      <4>3. e \in Contents["evidence"]
        BY <1>3, <3>2, ContentsAre DEF Present
      <4>4. s["evidence"] = e /\ s["control"] = bk.stage["control"] /\ MayHold(s)
        BY <1>2, <4>3, ContentsAre DEF MayHold
      <4>5. s["evidence"] # NotThere /\ Numbered(s)
        BY <3>1, <4>3, <4>4, ContentsAre DEF Numbered
      <4> HIDE DEF s, e
      <4> QED BY <1>6, <3>1, <4>2, <4>4, <4>5
    <3>3. CASE ~Present("evidence")
      <4>1. bk' = [bk EXCEPT !.pc = "knowledge"]
        BY <1>8, <2>1, <3>3 DEF SnapshotEvidence, BackupGoto
      <4>2. bk' = [pc |-> "knowledge", live |-> bk.live, stage |-> bk.stage, before |-> bk.before,
                   moved |-> bk.moved, installed |-> bk.installed, inway |-> bk.inway]
        BY <1>2, <4>1
      <4> QED BY <1>2, <1>6, <3>1, <4>2
    <3> QED BY <3>2, <3>3
  <2>2. CASE bk.pc = "objects"
    <3>1. ~submitting /\ Numbered(bk.stage) /\ bk.stage["evidence"] # NotThere
      BY <1>1, <2>2 DEF CreateHolds, Creating
    <3>2. CASE bk.stage["evidence"].db \subseteq disk["evidence"].objects
      <4> DEFINE e == [bk.stage["evidence"] EXCEPT !.objects = bk.stage["evidence"].db]
                 s == [bk.stage EXCEPT !["evidence"] = e]
      <4>1. bk' = [bk EXCEPT !.stage["evidence"].objects = bk.stage["evidence"].db,
                             !.pc = "knowledge"]
        BY <1>8, <2>2, <3>2 DEF SnapshotEvidence
      <4>2. bk' = [pc |-> "knowledge", live |-> bk.live, stage |-> s, before |-> bk.before,
                   moved |-> bk.moved, installed |-> bk.installed, inway |-> bk.inway]
        BY <1>2, <4>1
      <4>3. e \in [db : SUBSET Objects, objects : SUBSET Objects] /\ e.db = e.objects
        BY <1>3, <3>1
      <4>4. s["evidence"] = e /\ s["control"] = bk.stage["control"] /\ MayHold(s)
        BY <1>2, <4>3, ContentsAre DEF MayHold
      <4>5. Indexed(s) /\ Numbered(s)
        BY <3>1, <4>3, <4>4 DEF Numbered, Indexed
      <4> HIDE DEF s, e
      <4> QED BY <1>6, <3>1, <4>2, <4>4, <4>5
    <3>3. CASE ~(bk.stage["evidence"].db \subseteq disk["evidence"].objects)
      BY <1>4, <1>8, <2>2, <3>3 DEF SnapshotEvidence
    <3> QED BY <3>2, <3>3
  <2> QED BY <1>8, <2>1, <2>2 DEF SnapshotEvidence
<1>9. CASE SnapshotKnowledge
  <2> DEFINE s == [bk.stage EXCEPT !["knowledge"] = disk["knowledge"]]
             l == IF Present("control") THEN "lock" ELSE "write"
  <2>1. /\ bk.pc = "knowledge" /\ ~submitting /\ Numbered(bk.stage) /\ Indexed(bk.stage)
        /\ bk' = [bk EXCEPT !.stage["knowledge"] = disk["knowledge"], !.pc = l]
    BY <1>1, <1>9 DEF SnapshotKnowledge, CreateHolds, Creating, Stage
  <2>2. bk' = [pc |-> l, live |-> bk.live, stage |-> s, before |-> bk.before,
               moved |-> bk.moved, installed |-> bk.installed, inway |-> bk.inway]
    BY <1>2, <2>1
  <2>3. s["evidence"] = bk.stage["evidence"] /\ s["control"] = bk.stage["control"] /\ MayHold(s)
    BY <1>2, <1>3, ContentsAre DEF MayHold
  <2>4. Numbered(s) /\ Indexed(s)
    BY <2>1, <2>3 DEF Numbered, Indexed
  <2>5. l \in {"lock", "write"} /\ (l = "lock" => disk["control"] # NotThere)
    BY DEF Present
  <2> HIDE DEF s, l
  <2> QED BY <1>6, <2>1, <2>2, <2>3, <2>4, <2>5
<1>10. CASE CheckLive
  <2>1. bk.pc = "lock" /\ ~submitting /\ Numbered(bk.stage) /\ Indexed(bk.stage)
        /\ disk["control"] # NotThere
    BY <1>1, <1>10 DEF CheckLive, CreateHolds, Creating
  <2>2. CASE bk' = [bk EXCEPT !.pc = "state"]
    <3>1. bk' = [pc |-> "state", live |-> bk.live, stage |-> bk.stage, before |-> bk.before,
                 moved |-> bk.moved, installed |-> bk.installed, inway |-> bk.inway]
      BY <1>2, <2>2
    <3> QED BY <1>2, <1>6, <2>1, <3>1
  <2> QED BY <1>4, <1>10, <2>2 DEF CheckLive
<1>11. CASE CopyControl
  <2>1. CASE bk.pc = "state"
    <3> DEFINE s == [bk.stage EXCEPT !["control"] = disk["control"]]
    <3>1. /\ ~submitting /\ Indexed(bk.stage) /\ disk["control"] # NotThere
          /\ bk' = [bk EXCEPT !.stage["control"] = disk["control"], !.pc = "items"]
      BY <1>1, <1>11, <2>1 DEF CopyControl, CreateHolds, Creating, Stage
    <3>2. bk' = [pc |-> "items", live |-> bk.live, stage |-> s, before |-> bk.before,
                 moved |-> bk.moved, installed |-> bk.installed, inway |-> bk.inway]
      BY <1>2, <3>1
    <3>3. s["evidence"] = bk.stage["evidence"] /\ s["control"] = disk["control"] /\ MayHold(s)
      BY <1>2, <1>w, ContentsAre DEF MayHold
    <3>4. Numbered(s) /\ Indexed(s)
      BY <1>1, <3>1, <3>3 DEF Numbered, Indexed, ControlHolds, Readable
    <3> HIDE DEF s
    <3> QED BY <1>6, <3>1, <3>2, <3>3, <3>4
  <2>2. CASE bk.pc = "items"
    <3> DEFINE k == [bk.stage["control"] EXCEPT !.items = bk.stage["control"].items
                                                            \cap disk["control"].items]
               s == [bk.stage EXCEPT !["control"] = k]
    <3>1. /\ ~submitting /\ Indexed(bk.stage) /\ Numbered(bk.stage)
          /\ bk.stage["control"] # NotThere
          /\ bk' = [bk EXCEPT !.stage["control"] =
                      [bk.stage["control"] EXCEPT !.items = @ \cap disk["control"].items],
                    !.pc = "write"]
      BY <1>1, <1>11, <2>2 DEF CopyControl, CreateHolds, Creating, Stage
    <3>2. bk' = [pc |-> "write", live |-> bk.live, stage |-> s, before |-> bk.before,
                 moved |-> bk.moved, installed |-> bk.installed, inway |-> bk.inway]
      BY <1>2, <3>1
    <3>3. /\ k \in [next : Nat, items : SUBSET Nat] /\ k.next = bk.stage["control"].next
          /\ k.items \subseteq bk.stage["control"].items
      BY <1>3, <3>1
    <3>4. s["evidence"] = bk.stage["evidence"] /\ s["control"] = k /\ MayHold(s)
      BY <1>2, <3>3, ContentsAre DEF MayHold
    <3>5. Numbered(s) /\ Indexed(s)
      BY <1>3, <3>1, <3>3, <3>4, ContentsAre DEF Numbered, Indexed
    <3> HIDE DEF s, k
    <3> QED BY <1>6, <3>1, <3>2, <3>4, <3>5
  <2> QED BY <1>11, <2>1, <2>2 DEF CopyControl
<1> QED BY <1>7, <1>8, <1>9, <1>10, <1>11

\* The archive is written, or one is damaged, or the process is killed.
LEMMA ArchiveKeeps ==
  ASSUME BackupInv, WriteArchive \/ BackupFault \/ RestoreRaises
  PROVE  BackupInv' /\ NothingLost
<1>1. /\ BackupTypeOK /\ ArchiveComplete /\ ControlHolds /\ CreateHolds /\ RestoreHolds
      /\ UNCHANGED <<disk, kept, putting, submitting>>
  BY DEF BackupInv, WriteArchive, BackupFault, BackupFails, RestoreRaises
<1>2. /\ bk' = NoBackup \/ bk' = bk
      /\ bk'.pc = "failed" => bk.pc = "failed"
  BY DEF WriteArchive, BackupFault, RestoreRaises, NoBackup
<1>3. NothingLost
  <2>1. \A c \in Components : disk[c] \in Contents[c] \cup {NotThere, PartCopied}
    BY <1>1 DEF BackupTypeOK, MayHold, MayLie
  <2>2. \A c \in Components : disk[c] # Garbled
    BY <2>1, ContentsAre
  <2> QED BY <1>1, <1>2, <2>2 DEF NothingLost
\* Archives that are well typed, and complete if they verify.
<1>4. ASSUME \A a \in archives' :
               /\ a = [state |-> a.state, live |-> a.live]
               /\ a.state = [c \in Components |-> a.state[c]]
               /\ \A c \in Components : a.state[c] \in Contents[c] \cup {NotThere, Garbled}
               /\ Verified(a) => Indexed(a.state) /\ Numbered(a.state)
      PROVE  BackupInv'
  <2>1. ArchiveComplete'
    <3>1. ASSUME NEW a \in archives', Verified(a)
          PROVE  a.state["control"] # PartCopied
      BY <1>4, <3>1, ContentsAre
    <3> QED BY <1>4, <3>1 DEF ArchiveComplete, Verified, Indexed, Numbered
  <2>2. MayLie(disk)' /\ kept' = [c \in Components |-> kept'[c]]
        /\ putting' \in Objects \cup {NotThere} /\ submitting' \in BOOLEAN
    BY <1>1 DEF BackupTypeOK, MayHold, MayLie
  <2>3. CASE bk' = NoBackup
    <3>1. bk' = [pc |-> bk'.pc, live |-> bk'.live, stage |-> bk'.stage, before |-> bk'.before,
                 moved |-> bk'.moved, installed |-> bk'.installed, inway |-> bk'.inway]
      BY <2>3 DEF NoBackup
    <3>2. bk'.pc = "idle" /\ bk'.stage = Nothing /\ bk'.before = Nothing
          /\ bk'.moved = {} /\ bk'.installed = {} /\ bk'.inway = {}
      BY <2>3 DEF NoBackup
    <3>3. MayHold(bk.stage)' /\ MayLie(bk.before)'
      BY <3>2, NothingStaged DEF MayHold, MayLie
    <3>4. BackupTypeOK'
      BY <1>4, <2>2, <3>1, <3>2, <3>3 DEF BackupTypeOK, BackupLabels
    <3> QED BY <1>1, <2>1, <2>3, <3>4, BackupEnds DEF BackupInv
  <2>4. CASE bk' = bk
    <3>1. MayHold(bk.stage)' /\ MayLie(bk.before)'
      BY <1>1, <2>4 DEF BackupTypeOK, MayHold, MayLie
    <3>2. BackupTypeOK'
      BY <1>1, <1>4, <2>2, <2>4, <3>1 DEF BackupTypeOK
    <3>3. ControlHolds' /\ CreateHolds' /\ RestoreHolds'
      BY <1>1, <2>4 DEF ControlHolds, CreateHolds, RestoreHolds, Creating, Restoring, Numbered,
                        Indexed, Staged, RestoreAt, Readable, MayHold
    <3> QED BY <2>1, <3>2, <3>3 DEF BackupInv
  <2> QED BY <1>2, <2>3, <2>4
<1>5. ASSUME NEW a \in archives
      PROVE  /\ a = [state |-> a.state, live |-> a.live]
             /\ a.state = [c \in Components |-> a.state[c]]
             /\ \A c \in Components : a.state[c] \in Contents[c] \cup {NotThere, Garbled}
             /\ Verified(a) => Indexed(a.state) /\ Numbered(a.state)
  <2>1. Verified(a) => Indexed(a.state) /\ Numbered(a.state)
    BY <1>1 DEF ArchiveComplete, Indexed, Numbered
  <2> QED BY <1>1, <2>1 DEF BackupTypeOK
<1>6. CASE WriteArchive
  <2>1. /\ bk.pc = "write" /\ MayHold(bk.stage) /\ Indexed(bk.stage) /\ Numbered(bk.stage)
        /\ archives' = archives \cup {[state |-> bk.stage, live |-> bk.live /\ alive]}
    BY <1>1, <1>6 DEF WriteArchive, CreateHolds, Creating, BackupTypeOK
  <2>2. ASSUME NEW a \in archives' \ archives
        PROVE  /\ a = [state |-> a.state, live |-> a.live] /\ a.state = bk.stage
    BY <2>1
  <2>3. /\ bk.stage = [c \in Components |-> bk.stage[c]]
        /\ \A c \in Components : bk.stage[c] \in Contents[c] \cup {NotThere}
    BY <2>1 DEF MayHold
  <2>4. ASSUME NEW a \in archives' \ archives
        PROVE  /\ a = [state |-> a.state, live |-> a.live]
               /\ a.state = [c \in Components |-> a.state[c]]
               /\ \A c \in Components : a.state[c] \in Contents[c] \cup {NotThere, Garbled}
               /\ Verified(a) => Indexed(a.state) /\ Numbered(a.state)
    BY <2>1, <2>2, <2>3
  <2> QED BY <1>3, <1>4, <1>5, <2>4
<1>7. CASE archives' = archives
  BY <1>3, <1>4, <1>5, <1>7
<1>8. ASSUME NEW b \in archives, NEW d \in Components,
             archives' = (archives \ {b}) \cup {[b EXCEPT !.state[d] = Garbled]}
      PROVE  BackupInv' /\ NothingLost
  <2> DEFINE s == [b.state EXCEPT ![d] = Garbled]
  <2>1. /\ b = [state |-> b.state, live |-> b.live] /\ b.state = [c \in Components |-> b.state[c]]
        /\ \A c \in Components : b.state[c] \in Contents[c] \cup {NotThere, Garbled}
    BY <1>5
  <2>2. [b EXCEPT !.state[d] = Garbled] = [state |-> s, live |-> b.live]
    BY <2>1
  <2>3. /\ s = [c \in Components |-> s[c]] /\ s[d] = Garbled
        /\ \A c \in Components : s[c] \in Contents[c] \cup {NotThere, Garbled}
    BY <2>1
  <2> HIDE DEF s
  <2>4. ASSUME NEW a \in archives' \ archives
        PROVE  a = [state |-> a.state, live |-> a.live] /\ a.state = s
    BY <1>8, <2>2
  <2>5. ASSUME NEW a \in archives' \ archives
        PROVE  /\ a = [state |-> a.state, live |-> a.live]
               /\ a.state = [c \in Components |-> a.state[c]]
               /\ \A c \in Components : a.state[c] \in Contents[c] \cup {NotThere, Garbled}
               /\ ~Verified(a)
    BY <2>3, <2>4 DEF Verified
  <2> QED BY <1>3, <1>4, <1>5, <2>5
<1> QED BY <1>6, <1>7, <1>8 DEF BackupFault, RestoreRaises

\* A step of restore keeps the invariant, if it keeps what is said of a restore.
LEMMA RestoreMoves ==
  ASSUME BackupInv, UNCHANGED <<archives, putting, submitting>>,
         disk' = [c \in Components |-> disk'[c]], kept' = [c \in Components |-> kept'[c]],
         bk' = [pc |-> bk'.pc, live |-> bk'.live, stage |-> bk'.stage, before |-> bk'.before,
                moved |-> bk'.moved, installed |-> bk'.installed, inway |-> bk'.inway],
         bk'.pc \in {"move", "install", "undo"}, MayHold(bk.stage)', MayLie(bk.before)',
         bk'.moved \subseteq Components, bk'.installed \subseteq Components,
         bk'.inway \subseteq Components, RestoreHolds'
  PROVE  BackupInv' /\ \A c \in Components : disk'[c] # Garbled
<1>1. /\ Numbered(bk.stage)' /\ Numbered(bk.before)'
      /\ \A c \in Components : disk'[c] \in {bk'.stage[c], NotThere, bk'.before[c], PartCopied}
  <2>1. Restoring'
    BY DEF Restoring
  <2>2. Numbered(bk.stage)' /\ Numbered(bk.before)'
    BY <2>1 DEF RestoreHolds
  <2>3. \A c \in Components \ bk'.inway : disk'[c] \in {bk'.stage[c], NotThere, bk'.before[c]}
    BY <2>1 DEF RestoreHolds, RestoreAt
  <2>4. \A c \in bk'.inway : disk'[c] \in {bk'.stage[c], PartCopied}
    BY <2>1 DEF RestoreHolds, RestoreAt
  <2> QED BY <2>2, <2>3, <2>4
<1>2. \A c \in Components : disk'[c] \in Contents[c] \cup {NotThere, PartCopied}
  BY <1>1 DEF MayHold, MayLie
<1>3. \A c \in Components : disk'[c] # Garbled
  BY <1>2, HeldIsWhole
<1>4. BackupTypeOK'
  <2>1. MayLie(disk)'
    BY <1>2 DEF MayLie
  <2> QED BY <2>1 DEF BackupInv, BackupTypeOK, BackupLabels
<1>5. ArchiveComplete'
  BY DEF BackupInv, ArchiveComplete, Verified
<1>6. ControlHolds'
  <2>1. disk'["control"] \in {bk'.stage["control"], NotThere, bk'.before["control"], PartCopied}
    BY <1>1, ContentsAre
  <2> QED BY <1>1, <2>1 DEF ControlHolds, Numbered, Readable
<1>7. CreateHolds'
  BY DEF CreateHolds, Creating
<1> QED BY <1>3, <1>4, <1>5, <1>6, <1>7 DEF BackupInv

\* A restore that gives up may have cut components short, and changed no other.
LEMMA RestoreGivesUp ==
  ASSUME BackupInv, Restoring, UNCHANGED <<archives, putting, submitting>>,
         disk' = [c \in Components |-> disk'[c]], kept' = [c \in Components |-> kept'[c]],
         \A c \in Components : disk'[c] \in {disk[c], PartCopied},
         bk' = [bk EXCEPT !.pc = "failed"]
  PROVE  BackupInv' /\ \A c \in Components : disk'[c] # Garbled
<1>1. /\ BackupTypeOK /\ ArchiveComplete /\ ControlHolds
      /\ bk = [pc |-> bk.pc, live |-> bk.live, stage |-> bk.stage, before |-> bk.before,
               moved |-> bk.moved, installed |-> bk.installed, inway |-> bk.inway]
  BY DEF BackupInv, BackupTypeOK
<1>2. bk' = [pc |-> "failed", live |-> bk.live, stage |-> bk.stage, before |-> bk.before,
             moved |-> bk.moved, installed |-> bk.installed, inway |-> bk.inway]
  BY <1>1
<1>3. /\ bk'.pc = "failed" /\ bk'.stage = bk.stage /\ bk'.before = bk.before
      /\ bk'.moved = bk.moved /\ bk'.installed = bk.installed /\ bk'.inway = bk.inway
      /\ bk'.live = bk.live
  BY <1>2
<1>4. \A c \in Components : disk'[c] \in Contents[c] \cup {NotThere, PartCopied}
  BY <1>1 DEF BackupTypeOK, MayLie
<1>5. BackupTypeOK'
  <2>1. MayLie(disk)' /\ MayHold(bk.stage)' /\ MayLie(bk.before)'
    BY <1>1, <1>3, <1>4 DEF BackupTypeOK, MayHold, MayLie
  <2> QED BY <1>1, <1>2, <1>3, <2>1 DEF BackupTypeOK, BackupLabels
<1>6. ArchiveComplete'
  BY <1>1 DEF ArchiveComplete, Verified
<1>7. ControlHolds'
  <2>1. disk'["control"] \in {disk["control"], PartCopied}
    BY ContentsAre
  <2> QED BY <1>1, <2>1 DEF ControlHolds, Readable
<1>8. CreateHolds' /\ RestoreHolds'
  BY <1>3 DEF CreateHolds, RestoreHolds, Creating, Restoring
<1> QED BY <1>4, <1>5, <1>6, <1>7, <1>8, HeldIsWhole DEF BackupInv

\* restore begins.
LEMMA RestoreBegins ==
  ASSUME BackupInv, NEW a \in archives, NEW b \in BOOLEAN, RestoreBackup(a, b)
  PROVE  BackupInv' /\ NothingLost
<1>1. /\ BackupTypeOK /\ ArchiveComplete /\ ControlHolds
      /\ UNCHANGED <<archives, putting, submitting>>
      /\ disk = [c \in Components |-> disk[c]] /\ kept = [c \in Components |-> kept[c]]
  BY DEF BackupInv, RestoreBackup, BackupTypeOK, MayLie
<1>2. /\ Verified(a) /\ ~submitting /\ UNCHANGED <<disk, kept>>
      /\ bk' = [pc |-> "move", live |-> FALSE, stage |-> a.state, before |-> disk,
                moved |-> {}, installed |-> {}, inway |-> {}]
  BY DEF RestoreBackup, NoBackup
<1>3. /\ a.state = [c \in Components |-> a.state[c]]
      /\ \A c \in Components : a.state[c] \in Contents[c] \cup {NotThere, Garbled}
      /\ \A c \in Components : a.state[c] # Garbled
  BY <1>1, <1>2 DEF BackupTypeOK, Verified
<1>4. /\ bk'.pc = "move" /\ bk'.stage = a.state /\ bk'.before = disk /\ bk'.moved = {}
      /\ bk'.installed = {} /\ bk'.live = FALSE /\ bk'.inway = {}
  BY <1>2
<1>5. MayHold(bk.stage)' /\ MayLie(bk.before)'
  BY <1>1, <1>3, <1>4 DEF MayHold, MayLie, BackupTypeOK
<1>6. Numbered(a.state) /\ Numbered(disk)
  BY <1>1, <1>2 DEF ArchiveComplete, ControlHolds, Numbered, Readable
<1>7. RestoreHolds'
  <2>1. Numbered(bk.stage)' /\ Numbered(bk.before)'
    BY <1>4, <1>6 DEF Numbered
  <2> QED BY <1>1, <1>2, <1>4, <2>1 DEF RestoreHolds, RestoreAt, Staged
<1>8. bk' = [pc |-> bk'.pc, live |-> bk'.live, stage |-> bk'.stage, before |-> bk'.before,
             moved |-> bk'.moved, installed |-> bk'.installed, inway |-> bk'.inway]
  BY <1>2, <1>4
<1>9. BackupInv'
  BY <1>1, <1>2, <1>4, <1>5, <1>7, <1>8, RestoreMoves
<1> QED BY <1>2, <1>4, <1>9, FilesStay

\* What is known while a restore runs.
LEMMA RestoreKnown ==
  ASSUME BackupInv, Restoring
  PROVE  /\ ~submitting /\ Numbered(bk.stage) /\ Numbered(bk.before)
         /\ RestoreAt(bk.pc, bk.moved, bk.installed, bk.inway, disk, kept)
         /\ MayHold(bk.stage) /\ MayLie(bk.before) /\ MayLie(disk)
         /\ bk.moved \subseteq Components /\ bk.installed \subseteq Components
         /\ bk.inway \subseteq Components /\ Staged \subseteq Components
         /\ bk = [pc |-> bk.pc, live |-> bk.live, stage |-> bk.stage, before |-> bk.before,
                  moved |-> bk.moved, installed |-> bk.installed, inway |-> bk.inway]
         /\ disk = [c \in Components |-> disk[c]] /\ kept = [c \in Components |-> kept[c]]
  BY DEF BackupInv, RestoreHolds, BackupTypeOK, MayLie, Staged

\* The process goes on with the stage it has.
LEMMA RestoreGoesOn ==
  ASSUME BackupInv, Restoring, UNCHANGED <<archives, putting, submitting>>,
         NEW l \in {"move", "install", "undo"}, NEW m \in SUBSET Components,
         NEW n \in SUBSET Components, NEW w \in SUBSET Components,
         bk' = [pc |-> l, live |-> bk.live, stage |-> bk.stage, before |-> bk.before,
                moved |-> m, installed |-> n, inway |-> w],
         disk' = [c \in Components |-> disk'[c]], kept' = [c \in Components |-> kept'[c]],
         RestoreAt(l, m, n, w, disk', kept')
  PROVE  BackupInv' /\ bk'.pc = l /\ \A c \in Components : disk'[c] # Garbled
<1>1. /\ bk'.pc = l /\ bk'.stage = bk.stage /\ bk'.before = bk.before
      /\ bk'.moved = m /\ bk'.installed = n /\ bk'.live = bk.live /\ bk'.inway = w
  OBVIOUS
<1>2. MayHold(bk.stage)' /\ MayLie(bk.before)'
  BY <1>1, RestoreKnown DEF MayHold, MayLie
<1>3. Numbered(bk.stage)' /\ Numbered(bk.before)' /\ ~submitting'
  BY <1>1, RestoreKnown DEF Numbered
<1>4. RestoreHolds'
  BY <1>1, <1>3 DEF RestoreHolds, RestoreAt, Staged
<1>5. bk' = [pc |-> bk'.pc, live |-> bk'.live, stage |-> bk'.stage, before |-> bk'.before,
             moved |-> bk'.moved, installed |-> bk'.installed, inway |-> bk'.inway]
  BY <1>1
<1> QED BY <1>1, <1>2, <1>4, <1>5, RestoreMoves

\* The moves aside, done or failed.
LEMMA MoveKeeps ==
  ASSUME BackupInv, MoveAside \/ MoveFails
  PROVE  BackupInv' /\ NothingLost
<1>0. bk.pc = "move" /\ Restoring /\ UNCHANGED <<archives, putting, submitting>>
  BY DEF MoveAside, MoveFails, Restoring
<1>1. /\ RestoreAt("move", bk.moved, bk.installed, bk.inway, disk, kept)
      /\ bk.installed = {} /\ bk.inway = {} /\ bk.moved \subseteq Staged
      /\ \A c \in Components : disk[c] = IF c \in bk.moved THEN NotThere ELSE bk.before[c]
      /\ \A c \in bk.moved : bk.before[c] \in kept[c] \cup {NotThere}
      /\ \A c \in ToMove : c \in Components /\ c \in Staged /\ disk[c] = bk.before[c]
  BY <1>0, RestoreKnown DEF RestoreAt, ToMove
<1>2. /\ bk = [pc |-> bk.pc, live |-> bk.live, stage |-> bk.stage, before |-> bk.before,
               moved |-> bk.moved, installed |-> bk.installed, inway |-> bk.inway]
      /\ disk = [c \in Components |-> disk[c]] /\ kept = [c \in Components |-> kept[c]]
      /\ bk.moved \subseteq Components /\ bk.installed \subseteq Components
      /\ bk.inway \subseteq Components
  BY <1>0, RestoreKnown
<1>3. CASE MoveAside /\ ToMove = {}
  <2>1. bk' = [bk EXCEPT !.pc = "install"] /\ UNCHANGED <<disk, kept>>
    BY <1>3 DEF MoveAside, BackupGoto
  <2>2. bk' = [pc |-> "install", live |-> bk.live, stage |-> bk.stage, before |-> bk.before,
               moved |-> bk.moved, installed |-> bk.installed, inway |-> bk.inway]
    BY <1>2, <2>1
  <2>3. RestoreAt("install", bk.moved, bk.installed, bk.inway, disk', kept')
    BY <1>1, <1>3, <2>1 DEF RestoreAt, ToMove
  <2>4. BackupInv' /\ bk'.pc = "install"
    BY <1>0, <1>2, <2>1, <2>2, <2>3, RestoreGoesOn
  <2> QED BY <2>1, <2>4, FilesStay
<1>4. CASE MoveAside /\ ToMove # {}
  <2>1. PICK d \in ToMove : /\ disk' = [disk EXCEPT ![d] = NotThere]
                            /\ kept' = [kept EXCEPT ![d] = @ \cup {disk[d]}]
                            /\ bk' = [bk EXCEPT !.moved = @ \cup {d}]
    BY <1>4 DEF MoveAside
  <2>2. bk' = [pc |-> "move", live |-> bk.live, stage |-> bk.stage, before |-> bk.before,
               moved |-> bk.moved \cup {d}, installed |-> bk.installed, inway |-> bk.inway]
    BY <1>0, <1>2, <2>1
  <2>3. /\ disk' = [c \in Components |-> disk'[c]] /\ disk'[d] = NotThere
        /\ \A c \in Components \ {d} : disk'[c] = disk[c]
        /\ kept' = [c \in Components |-> kept'[c]] /\ disk[d] \in kept'[d]
        /\ \A c \in Components : kept[c] \subseteq kept'[c]
    BY <1>1, <1>2, <2>1
  <2>4. RestoreAt("move", bk.moved \cup {d}, bk.installed, bk.inway, disk', kept')
    <3>1. /\ bk.moved \cup {d} \subseteq Staged /\ d \in Components
          /\ \A c \in bk.moved \cup {d} : bk.before[c] \in kept'[c] \cup {NotThere}
      BY <1>1, <1>2, <2>1, <2>3
    <3>2. \A c \in Components :
            disk'[c] = IF c \in bk.moved \cup {d} THEN NotThere ELSE bk.before[c]
      BY <1>1, <2>3
    <3> QED BY <1>1, <3>1, <3>2 DEF RestoreAt
  <2>5. BackupInv' /\ bk'.pc = "move" /\ \A c \in Components : disk'[c] # Garbled
    <3>1. bk.moved \cup {d} \in SUBSET Components
      BY <1>1, <1>2
    <3> QED BY <1>0, <1>2, <2>2, <2>3, <2>4, <3>1, RestoreGoesOn
  <2> QED BY <2>3, <2>5 DEF NothingLost
<1>5. CASE MoveFails
  <2>1. bk' = [bk EXCEPT !.pc = "failed"]
    BY <1>5 DEF MoveFails, BackupGoto
  <2>2. /\ disk' = [c \in Components |-> disk'[c]] /\ kept' = [c \in Components |-> kept'[c]]
        /\ \A c \in Components :
             /\ kept[c] \subseteq kept'[c]
             /\ disk'[c] = disk[c] \/ (disk'[c] = PartCopied /\ disk[c] = bk.before[c]
                                        /\ disk[c] \in kept'[c])
    <3>1. CASE UNCHANGED <<disk, kept>>
      BY <1>2, <3>1
    <3>2. ASSUME NEW d \in ToMove, kept' = [kept EXCEPT ![d] = @ \cup {PartCopied}], disk' = disk
          PROVE  <2>2
      BY <1>1, <1>2, <3>2
    <3>3. ASSUME NEW d \in ToMove, kept' = [kept EXCEPT ![d] = @ \cup {disk[d]}],
                 disk' = [disk EXCEPT ![d] = PartCopied]
          PROVE  <2>2
      BY <1>1, <1>2, <3>3
    <3> QED BY <1>5, <3>1, <3>2, <3>3 DEF MoveFails
  <2>3. BackupInv' /\ \A c \in Components : disk'[c] # Garbled
    BY <1>0, <2>1, <2>2, RestoreGivesUp
  <2>4. \A c \in Components :
          disk'[c] = bk.before[c] \/ bk.before[c] \in kept'[c] \cup {NotThere, PartCopied}
    BY <1>1, <2>2
  <2> QED BY <1>0, <2>2, <2>3, <2>4 DEF NothingLost
<1> QED BY <1>3, <1>4, <1>5

\* The moves into place, done or failed.
LEMMA InstallKeeps ==
  ASSUME BackupInv, Install \/ InstallFails
  PROVE  BackupInv' /\ NothingLost
<1>0. /\ bk.pc = "install" /\ Restoring /\ UNCHANGED <<archives, putting, submitting>>
      /\ kept' = kept
  BY DEF Install, InstallFails, Restoring
<1>1. /\ RestoreAt("install", bk.moved, bk.installed, bk.inway, disk, kept)
      /\ bk.inway = {} /\ bk.moved \subseteq Staged /\ bk.installed \subseteq Staged
      /\ \A c \in Staged \ bk.moved : bk.before[c] = NotThere
      /\ \A c \in Components :
           disk[c] = IF c \in bk.installed THEN bk.stage[c]
                     ELSE IF c \in bk.moved THEN NotThere ELSE bk.before[c]
      /\ \A c \in bk.moved : bk.before[c] \in kept[c] \cup {NotThere}
      /\ \A c \in Staged \ bk.installed : c \in Components /\ disk[c] = NotThere
  BY <1>0, RestoreKnown DEF RestoreAt
<1>2. /\ bk = [pc |-> bk.pc, live |-> bk.live, stage |-> bk.stage, before |-> bk.before,
               moved |-> bk.moved, installed |-> bk.installed, inway |-> bk.inway]
      /\ disk = [c \in Components |-> disk[c]] /\ kept = [c \in Components |-> kept[c]]
      /\ bk.moved \subseteq Components /\ bk.installed \subseteq Components
      /\ bk.inway \subseteq Components
  BY <1>0, RestoreKnown
<1>3. CASE Install /\ Staged = bk.installed
  <2>1. bk' = NoBackup /\ disk' = disk
    BY <1>3 DEF Install
  <2>2. ArchiveComplete'
    BY <1>0 DEF ArchiveComplete, Verified, BackupInv
  <2>3. bk'.pc = "idle"
    BY <2>1 DEF NoBackup
  <2> QED BY <1>0, <2>1, <2>2, <2>3, BackupEnds, IdleTyped, FilesStay
<1>4. CASE Install /\ Staged # bk.installed
  <2>1. PICK d \in Staged \ bk.installed : /\ disk' = [disk EXCEPT ![d] = bk.stage[d]]
                                           /\ bk' = [bk EXCEPT !.installed = @ \cup {d}]
    BY <1>4 DEF Install
  <2>2. bk' = [pc |-> "install", live |-> bk.live, stage |-> bk.stage, before |-> bk.before,
               moved |-> bk.moved, installed |-> bk.installed \cup {d}, inway |-> bk.inway]
    BY <1>0, <1>2, <2>1
  <2>3. /\ disk' = [c \in Components |-> disk'[c]] /\ disk'[d] = bk.stage[d]
        /\ \A c \in Components \ {d} : disk'[c] = disk[c]
    BY <1>1, <1>2, <2>1
  <2>4. RestoreAt("install", bk.moved, bk.installed \cup {d}, bk.inway, disk', kept')
    BY <1>0, <1>1, <2>3 DEF RestoreAt
  <2>5. BackupInv' /\ bk'.pc = "install" /\ \A c \in Components : disk'[c] # Garbled
    BY <1>0, <1>1, <1>2, <2>2, <2>3, <2>4, RestoreGoesOn
  <2> QED BY <1>0, <1>1, <2>3, <2>5 DEF NothingLost
<1>5. CASE InstallFails /\ bk' = [bk EXCEPT !.pc = "undo"] /\ disk' = disk
  <2>1. bk' = [pc |-> "undo", live |-> bk.live, stage |-> bk.stage, before |-> bk.before,
               moved |-> bk.moved, installed |-> bk.installed, inway |-> bk.inway]
    BY <1>2, <1>5
  <2>2. RestoreAt("undo", bk.moved, bk.installed, bk.inway, disk', kept')
    BY <1>0, <1>1, <1>5 DEF RestoreAt
  <2>3. BackupInv' /\ bk'.pc = "undo"
    BY <1>0, <1>2, <1>5, <2>1, <2>2, RestoreGoesOn
  <2> QED BY <1>0, <1>5, <2>3, FilesStay
<1>6. CASE InstallFails /\ ~(bk' = [bk EXCEPT !.pc = "undo"] /\ disk' = disk)
  <2>1. PICK d \in Staged \ bk.installed :
          /\ \E left \in {bk.stage[d], PartCopied} : disk' = [disk EXCEPT ![d] = left]
          /\ bk' = [bk EXCEPT !.pc = "undo", !.inway = {d}]
    BY <1>6 DEF InstallFails, BackupGoto
  <2>2. bk' = [pc |-> "undo", live |-> bk.live, stage |-> bk.stage, before |-> bk.before,
               moved |-> bk.moved, installed |-> bk.installed, inway |-> {d}]
    BY <1>2, <2>1
  <2>3. /\ disk' = [c \in Components |-> disk'[c]] /\ disk'[d] \in {bk.stage[d], PartCopied}
        /\ \A c \in Components \ {d} : disk'[c] = disk[c]
    BY <1>1, <1>2, <2>1
  <2>4. RestoreAt("undo", bk.moved, bk.installed, {d}, disk', kept')
    BY <1>0, <1>1, <2>1, <2>3 DEF RestoreAt
  <2>5. BackupInv' /\ bk'.pc = "undo" /\ \A c \in Components : disk'[c] # Garbled
    <3>1. {d} \in SUBSET Components /\ bk.moved \in SUBSET Components
          /\ bk.installed \in SUBSET Components
      BY <1>1, <1>2
    <3> QED BY <1>0, <1>2, <2>2, <2>3, <2>4, <3>1, RestoreGoesOn
  <2> QED BY <1>0, <1>1, <2>3, <2>5 DEF NothingLost
<1> QED BY <1>3, <1>4, <1>5, <1>6

\* The undo, done or failed.
LEMMA UndoKeeps ==
  ASSUME BackupInv, Undo \/ UndoFails
  PROVE  BackupInv' /\ NothingLost
<1>0. bk.pc = "undo" /\ Restoring /\ UNCHANGED <<archives, putting, submitting>>
  BY DEF Undo, UndoFails, Restoring
<1>1. /\ RestoreAt("undo", bk.moved, bk.installed, bk.inway, disk, kept)
      /\ bk.moved \subseteq Staged /\ bk.installed \subseteq Staged
      /\ bk.inway \subseteq Staged \ bk.installed
      /\ \A c \in bk.installed \ bk.moved : bk.before[c] = NotThere
      /\ \A c \in Components \ bk.inway :
           disk[c] = IF c \in bk.installed THEN bk.stage[c]
                     ELSE IF c \in bk.moved THEN NotThere ELSE bk.before[c]
      /\ \A c \in bk.inway : disk[c] \in {bk.stage[c], PartCopied} /\ disk[c] # NotThere
      /\ \A c \in bk.moved \cup bk.inway : bk.before[c] \in kept[c] \cup {NotThere}
  BY <1>0, RestoreKnown, ContentsAre DEF RestoreAt, Staged
<1>2. /\ bk = [pc |-> bk.pc, live |-> bk.live, stage |-> bk.stage, before |-> bk.before,
               moved |-> bk.moved, installed |-> bk.installed, inway |-> bk.inway]
      /\ disk = [c \in Components |-> disk[c]] /\ kept = [c \in Components |-> kept[c]]
      /\ bk.moved \subseteq Components /\ bk.installed \subseteq Components
      /\ bk.inway \subseteq Components
  BY <1>0, RestoreKnown
<1>3. CASE Undo /\ bk.installed # {}
  <2>1. PICK d \in bk.installed : /\ disk' = [disk EXCEPT ![d] = NotThere] /\ kept' = kept
                                  /\ bk' = [bk EXCEPT !.installed = @ \ {d}]
    BY <1>3 DEF Undo
  <2>2. bk' = [pc |-> "undo", live |-> bk.live, stage |-> bk.stage, before |-> bk.before,
               moved |-> bk.moved, installed |-> bk.installed \ {d}, inway |-> bk.inway]
    BY <1>0, <1>2, <2>1
  <2>3. /\ disk' = [c \in Components |-> disk'[c]] /\ disk'[d] = NotThere
        /\ \A c \in Components \ {d} : disk'[c] = disk[c]
    BY <1>2, <2>1
  <2>4. RestoreAt("undo", bk.moved, bk.installed \ {d}, bk.inway, disk', kept')
    BY <1>1, <1>2, <2>1, <2>3 DEF RestoreAt
  <2>5. BackupInv' /\ bk'.pc = "undo" /\ \A c \in Components : disk'[c] # Garbled
    <3>1. bk.installed \ {d} \in SUBSET Components /\ bk.moved \in SUBSET Components
          /\ bk.inway \in SUBSET Components
      BY <1>2
    <3>2. kept' = [c \in Components |-> kept'[c]]
      BY <1>2, <2>1
    <3> QED BY <1>0, <2>2, <2>3, <2>4, <3>1, <3>2, RestoreGoesOn
  <2> QED BY <2>1, <2>3, <2>5 DEF NothingLost
<1>4. CASE Undo /\ bk.installed = {} /\ bk.moved # {}
  <2>1. PICK d \in bk.moved :
          /\ IF Present(d) THEN UNCHANGED <<disk, kept>>
             ELSE /\ disk' = [disk EXCEPT ![d] = bk.before[d]]
                  /\ kept' = [kept EXCEPT ![d] = @ \ {bk.before[d]}]
          /\ bk' = [bk EXCEPT !.moved = @ \ {d}]
    BY <1>4 DEF Undo
  <2>2. bk' = [pc |-> "undo", live |-> bk.live, stage |-> bk.stage, before |-> bk.before,
               moved |-> bk.moved \ {d}, installed |-> bk.installed, inway |-> bk.inway]
    BY <1>0, <1>2, <2>1
  <2>3. d \in Components /\ (Present(d) <=> d \in bk.inway)
    BY <1>1, <1>2, <1>4 DEF Present
  <2>4. CASE Present(d)
    <3>1. RestoreAt("undo", bk.moved \ {d}, bk.installed, bk.inway, disk', kept')
      BY <1>1, <2>1, <2>3, <2>4 DEF RestoreAt
    <3>2. BackupInv' /\ bk'.pc = "undo"
      BY <1>0, <1>2, <2>1, <2>2, <2>4, <3>1, RestoreGoesOn
    <3> QED BY <2>1, <2>4, <3>2, FilesStay
  <2>5. CASE ~Present(d)
    <3>1. /\ disk' = [c \in Components |-> disk'[c]] /\ disk'[d] = bk.before[d]
          /\ \A c \in Components \ {d} : disk'[c] = disk[c] /\ kept'[c] = kept[c]
          /\ kept' = [c \in Components |-> kept'[c]] /\ kept'[d] = kept[d] \ {bk.before[d]}
          /\ disk[d] = NotThere
      BY <1>2, <2>1, <2>3, <2>5 DEF Present
    <3>2. RestoreAt("undo", bk.moved \ {d}, bk.installed, bk.inway, disk', kept')
      BY <1>1, <1>2, <1>4, <2>3, <2>5, <3>1 DEF RestoreAt
    <3>3. BackupInv' /\ bk'.pc = "undo" /\ \A c \in Components : disk'[c] # Garbled
      BY <1>0, <1>2, <2>2, <3>1, <3>2, RestoreGoesOn
    <3> QED BY <3>1, <3>3 DEF NothingLost
  <2> QED BY <2>4, <2>5
<1>5. CASE Undo /\ bk.installed = {} /\ bk.moved = {}
  <2>1. bk' = [bk EXCEPT !.pc = "failed"] /\ UNCHANGED <<disk, kept>>
    BY <1>5 DEF Undo, BackupGoto
  <2>2. BackupInv' /\ \A c \in Components : disk'[c] # Garbled
    BY <1>0, <1>2, <2>1, RestoreGivesUp
  <2>3. \A c \in Components :
          \/ disk'[c] = bk.before[c]
          \/ bk.before[c] \in kept'[c] \cup {NotThere, PartCopied} /\ c \in bk.inway
    BY <1>1, <1>5, <2>1
  <2> QED BY <2>1, <2>2, <2>3 DEF NothingLost
<1>6. CASE UndoFails
  <2>1. /\ bk' = [bk EXCEPT !.pc = "failed"] /\ kept' = kept
        /\ bk.installed \cup bk.moved # {}
    BY <1>6 DEF UndoFails, BackupGoto
  <2>2. /\ disk' = [c \in Components |-> disk'[c]]
        /\ \A c \in Components :
             \/ disk'[c] = disk[c]
             \/ disk'[c] = PartCopied /\ c \in bk.installed
             \/ disk'[c] = PartCopied /\ c \in bk.moved /\ disk[c] = NotThere
    <3>1. CASE disk' = disk
      BY <1>2, <3>1
    <3>2. ASSUME NEW d \in IF bk.installed # {} THEN bk.installed ELSE {e \in bk.moved : ~Present(e)},
                 disk' = [disk EXCEPT ![d] = PartCopied]
          PROVE  <2>2
      BY <1>2, <3>2 DEF Present
    <3> QED BY <1>6, <3>1, <3>2 DEF UndoFails
  <2>3. BackupInv' /\ \A c \in Components : disk'[c] # Garbled
    BY <1>0, <1>2, <2>1, <2>2, RestoreGivesUp
  <2>4. \A c \in Components :
          disk'[c] = bk.before[c] \/ bk.before[c] \in kept'[c] \cup {NotThere, PartCopied}
    BY <1>1, <1>2, <2>1, <2>2
  <2> QED BY <2>1, <2>2, <2>3, <2>4 DEF NothingLost
<1> QED BY <1>3, <1>4, <1>5, <1>6

\* For any components, writers, faults and kills: an archive that verifies is complete, a
\* restore loses nothing, whichever of its moves fails, and one that reports an error
\* after a finished undo has put back all but what a failed move stands in the way of.
\* Submissions and supervisors are quiet while create runs, as BACKUP_RESTORE.md advises.
THEOREM BackupKeepsItsWord ==
  ASSUME QuietControl
  PROVE  BackupSpec => BackupSafe
<1>1. BackupInit => BackupInv
  <2> SUFFICES ASSUME BackupInit PROVE BackupInv
    OBVIOUS
  <2>1. /\ disk = [evidence |-> [db |-> {}, objects |-> {}], knowledge |-> "graph",
                   control |-> [next |-> 1, items |-> {}]]
        /\ kept = [c \in Components |-> {}] /\ archives = {} /\ putting = NotThere
        /\ submitting = FALSE /\ bk = NoBackup
    BY DEF BackupInit
  <2>2. MayLie(disk)
    <3>1. disk["evidence"] \in Contents["evidence"] /\ disk["knowledge"] \in Contents["knowledge"]
          /\ disk["control"] \in Contents["control"]
      BY <2>1, ContentsAre
    <3>2. disk = [c \in Components |-> disk[c]]
      BY <2>1 DEF Components
    <3> QED BY <3>1, <3>2 DEF MayLie, Components
  <2>3. BackupTypeOK
    BY <2>1, <2>2, NothingStaged DEF BackupTypeOK, NoBackup, BackupLabels
  <2>4. ArchiveComplete /\ ControlHolds
    BY <2>1 DEF ArchiveComplete, ControlHolds
  <2>5. CreateHolds /\ RestoreHolds
    BY <2>1, NothingStaged DEF CreateHolds, RestoreHolds, Creating, Restoring
  <2> QED BY <2>3, <2>4, <2>5 DEF BackupInv
<1>2. ASSUME BackupInv, BackupNext PROVE BackupInv' /\ NothingLost
  BY <1>2, WritersKeep, CreateKeeps, ArchiveKeeps, RestoreBegins, MoveKeeps,
     InstallKeeps, UndoKeeps DEF BackupNext
<1>3. ASSUME BackupInv, UNCHANGED backupVars PROVE BackupInv'
  <2>1. UNCHANGED <<disk, kept, archives, putting, submitting, bk>>
    BY <1>3 DEF backupVars
  <2>2. BackupTypeOK /\ CreateHolds /\ RestoreHolds
    BY <1>3 DEF BackupInv
  <2>3. MayHold(bk.stage)' /\ MayLie(bk.before)'
    BY <2>1, <2>2 DEF BackupTypeOK, MayHold, MayLie
  <2>4. CreateHolds'
    BY <2>1, <2>2 DEF CreateHolds, Creating, Numbered, Indexed, MayHold
  <2>5. RestoreHolds'
    BY <2>1, <2>2 DEF RestoreHolds, Restoring, Numbered, Staged, RestoreAt
  <2> QED BY <1>3, <2>1, <2>2, <2>3, <2>4, <2>5, ProcessMoves DEF BackupTypeOK
<1>4. BackupInv /\ [BackupNext]_backupVars => BackupInv'
  BY <1>2, <1>3
<1>5. BackupInv /\ BackupInv' /\ [BackupNext]_backupVars
        => [ArchiveComplete' /\ NothingLost]_backupVars
  BY <1>2 DEF BackupInv
<1> QED BY <1>1, <1>4, <1>5, PTL DEF BackupSpec, BackupSafe

-----------------------------------------------------------------------------
(* The knowledge graph *)

\* The label a key prescribes, for the kinds that are not labelled as written.
LabelOf(k) ==
  CASE k[1] = "symbol" -> k[4]
    [] k[1] \in {"address", "campaign"} -> k[3]
    [] k[1] = "hypothesis" -> IF k[5] # {} THEN k[5] ELSE k[3]
    [] k[1] = "coverage" -> "digest"
    [] k[1] = "triage" -> Doc[k[2]].classification
    [] OTHER -> k[2]

\* The target a key names is one of these.
NamesOnly(k, targets) == TargetOf(k) \in targets \cup {Global}

RowFits(r, targets) ==
  NamesOnly(r.key, targets) /\ (r.key[1] \notin SpelledKinds => r.label = LabelOf(r.key))

\* What the graph is at any time; that GraphConverges follows needs no more history.
GraphInv ==
  /\ ingested \subseteq Documents \X Forced \X Sources
  /\ DOMAIN nodes = UNION {Keys(RowsOf(i)) : i \in ingested}
  /\ edges = UNION {EdgesOf(i) : i \in ingested}
  /\ \A k \in DOMAIN nodes :
       /\ \E i \in ingested : k \in Keys(RowsOf(i)) /\ nodes[k].label = Spellings(RowsOf(i), k)
       /\ \E i \in ingested : \E r \in RowsOf(i) : r.key = k /\ r.meta = nodes[k].meta
       /\ nodes[k].meta = NoMeta =>
            \A i \in ingested : \A r \in RowsOf(i) : r.key = k => r.meta = NoMeta

\* The scope of a document's keys is its only target or global.
LEMMA ScopeIs ==
  ASSUME NEW d \in Documents, NEW t \in Forced
  PROVE  Scope(d, t) \in Targets(d, t) \cup {Global}
<1>1. IsFiniteSet(Doc[d].targets) BY KnowledgeAssumption
<1>2. IsFiniteSet({t} \ {NoTarget}) BY FS_Singleton, FS_Subset
<1>3. IsFiniteSet(Targets(d, t)) BY <1>1, <1>2, FS_Union DEF Targets
<1>4. CASE Cardinality(Targets(d, t)) = 1
  <2>1. PICK x : Targets(d, t) = {x} BY <1>3, <1>4, FS_Singleton
  <2>2. (CHOOSE y \in Targets(d, t) : TRUE) \in Targets(d, t) BY <2>1
  <2> QED BY <1>4, <2>2 DEF Scope
<1>5. CASE Cardinality(Targets(d, t)) # 1 BY <1>5 DEF Scope
<1> QED BY <1>4, <1>5

\* document_relations, statement by statement: a key names no target but the
\* document's own, and fixes the label of every node that is not labelled as written.
LEMMA RowsFit ==
  ASSUME NEW d \in Documents, NEW t \in Forced, NEW src
  PROVE  \A r \in Rows(d, t, src) : RowFits(r, Targets(d, t))
<1> DEFINE T == Targets(d, t)
           Fits(s) == RowFits(s[1], T) /\ RowFits(s[3], T)
<1>1. PICK sc : sc = Scope(d, t) OBVIOUS
<1>2. sc \in T \cup {Global} BY <1>1, ScopeIs
<1>s. \A p, q, w : RowFits(p, T) /\ RowFits(q, T) => Fits(<<p, w, q>>) OBVIOUS
<1>d. RowFits(DocumentRow(d, src), T)
  BY DEF RowFits, NamesOnly, Row, DocumentRow, TargetOf, SpelledKinds
<1>t. \A x \in T : RowFits(TargetRow(x), T)
  BY DEF RowFits, NamesOnly, Row, TargetRow, LabelOf, TargetOf, SpelledKinds
<1>a. \A a, m : RowFits(AddressRow(d, t, a, m), T)
  BY <1>1, <1>2 DEF RowFits, NamesOnly, Row, AddressRow, LabelOf, TargetOf, SpelledKinds
<1>f. \A w, m : RowFits(FunctionRow(d, t, w, m), T)
  BY <1>1, <1>2 DEF RowFits, NamesOnly, Row, FunctionRow, TargetOf, SpelledKinds
<1>b. \A w : RowFits(BehaviorRow(w), T)
  BY DEF RowFits, NamesOnly, Row, BehaviorRow, TargetOf, SpelledKinds
<1>y. \A s : RowFits(SymbolRow(d, t, s), T)
  BY <1>1, <1>2 DEF RowFits, NamesOnly, Row, SymbolRow, LabelOf, TargetOf, SpelledKinds
<1>h. \A h : RowFits(HypothesisRow(d, t, h), T)
  BY <1>1, <1>2 DEF RowFits, NamesOnly, Row, HypothesisRow, LabelOf, TargetOf, SpelledKinds
<1>r. RowFits(TriageRow(d), T)
  BY DEF RowFits, NamesOnly, Row, TriageRow, LabelOf, TargetOf, SpelledKinds
<1> HIDE DEF Fits
<1>3. \A s \in BasicSays(d, t, src) : Fits(s)
  <2>1. RowFits(Row(<<"schema", Doc[d].schema>>, Doc[d].schema, NoMeta), T)
    BY DEF RowFits, NamesOnly, Row, LabelOf, TargetOf, SpelledKinds
  <2> QED BY <2>1, <1>s, <1>d, <1>t, Zenon DEF BasicSays
<1>4. \A s \in SymbolsSay(d, t, src) : Fits(s)
  <2>1. \A y : Fits(<<DocumentRow(d, src), "defines-symbol", SymbolRow(d, t, y)>>)
    BY <1>s, <1>d, <1>y, Zenon
  <2>2. \A y, a : Fits(<<SymbolRow(d, t, y), "located-at", AddressRow(d, t, a, NoMeta)>>)
    BY <1>s, <1>y, <1>a, Zenon
  <2> QED BY <2>1, <2>2 DEF SymbolsSay
<1>5. \A s \in TraceSays(d, t, src) : Fits(s)
  <2> DEFINE observed == {<<DocumentRow(d, src), "observed-function", FunctionRow(d, t, f, d)>>
                            : f \in Doc[d].functions}
             hot == UNION {{<<DocumentRow(d, src), "executed", AddressRow(d, t, h.pc.is, d)>>}
                             \cup {<<AddressRow(d, t, h.pc.is, d), "belongs-to-function",
                                     FunctionRow(d, t, Cleaned(f), NoMeta)>> : f \in h.function}
                             : h \in Doc[d].hot}
             calls == {<<FunctionRow(d, t, c[1], NoMeta), "observed-call",
                         FunctionRow(d, t, c[2], NoMeta)>> : c \in Doc[d].calls}
  <2>1. \A s \in observed : Fits(s)
    BY <1>s, <1>d, <1>f, Zenon
  <2>2. \A a : Fits(<<DocumentRow(d, src), "executed", AddressRow(d, t, a, d)>>)
    BY <1>s, <1>d, <1>a, Zenon
  <2>3. \A a, f : Fits(<<AddressRow(d, t, a, d), "belongs-to-function", FunctionRow(d, t, f, NoMeta)>>)
    BY <1>s, <1>a, <1>f, Zenon
  <2>4. \A s \in hot : Fits(s)
    BY <2>2, <2>3
  <2>5. \A s \in calls : Fits(s)
    BY <1>s, <1>f, Zenon
  <2>6. TraceSays(d, t, src) = observed \cup calls \cup hot
    BY Zenon DEF TraceSays
  <2> HIDE DEF observed, hot, calls
  <2> QED BY <2>1, <2>4, <2>5, <2>6
<1>6. \A s \in CoverageSays(d, src) : Fits(s)
  <2>1. \A pcs : RowFits(Row(<<"coverage", pcs>>, "digest", "count"), T)
    BY DEF RowFits, NamesOnly, Row, LabelOf, TargetOf, SpelledKinds
  <2> QED BY <2>1, <1>s, <1>d, Zenon DEF CoverageSays
<1>7. \A s \in BehaviorsSay(d, src) : Fits(s) BY <1>s, <1>d, <1>b, Zenon DEF BehaviorsSay
<1>8. \A s \in SubjectSays(d, t, src) : Fits(s)
  <2>1. \A x, y : /\ RowFits(Row(<<"corpus-case", x>>, x, d), T)
                  /\ RowFits(Row(<<"campaign", y, x>>, x, d), T)
    BY DEF RowFits, NamesOnly, Row, LabelOf, TargetOf, SpelledKinds
  <2>2. \A v, w, r : RowFits(r, T) => \A s \in AboutTargets(d, t, src, v, r, w) : Fits(s)
    BY <1>s, <1>d, <1>t, Zenon DEF AboutTargets
  <2> QED BY <2>1, <2>2 DEF SubjectSays
<1>9. \A s \in TriageSays(d, t, src) : Fits(s) BY <1>s, <1>d, <1>r, <1>a, Zenon DEF TriageSays
<1>10. \A s \in HypothesesSay(d, t, src) : Fits(s)
  <2>1. \A w, h : Fits(<<DocumentRow(d, src), w, HypothesisRow(d, t, h)>>)
    BY <1>s, <1>d, <1>h, Zenon
  <2>2. \A w, h : \A x \in T : Fits(<<HypothesisRow(d, t, h), w, TargetRow(x)>>)
    BY <1>s, <1>h, <1>t, Zenon
  <2>3. \A w, h, b : Fits(<<HypothesisRow(d, t, h), w, BehaviorRow(b)>>)
    BY <1>s, <1>h, <1>b, Zenon
  <2>4. \A w, h, a : Fits(<<HypothesisRow(d, t, h), w, AddressRow(d, t, a, NoMeta)>>)
    BY <1>s, <1>h, <1>a, Zenon
  <2> QED BY <2>1, <2>2, <2>3, <2>4 DEF HypothesesSay
<1>11. \A s \in AnnotationsSay(d, t, src) : Fits(s) BY <1>s, <1>d, <1>a, Zenon DEF AnnotationsSay
<1>12. \A s \in Says(d, t, src) : Fits(s)
  BY <1>3, <1>4, <1>5, <1>6, <1>7, <1>8, <1>9, <1>10, <1>11, Zenon DEF Says
<1> QED BY <1>12 DEF Rows, Fits

\* An edge between nodes of its document.
EdgeFits(e, d, keys) == e[1] \in keys /\ e[2] \in keys /\ e[4] = d

LEMMA EdgesFit ==
  ASSUME NEW d, NEW t, NEW src
  PROVE  \A e \in Edges(d, t, src) : EdgeFits(e, d, Keys(Rows(d, t, src)))
BY DEF Edges, EdgeFits, Keys, Rows

\* MetaIn picks what one of the rows says, and nothing only if none says anything.
LEMMA MetaFromRows ==
  ASSUME NEW rows, NEW k \in Keys(rows)
  PROVE  /\ \E r \in rows : r.key = k /\ r.meta = MetaIn(rows, k)
         /\ MetaIn(rows, k) = NoMeta => \A r \in rows : r.key = k => r.meta = NoMeta
<1> DEFINE some == {r.meta : r \in {x \in rows : x.key = k /\ x.meta # NoMeta}}
<1>1. PICK r \in rows : r.key = k BY DEF Keys
<1>2. CASE some = {}
  <2>1. MetaIn(rows, k) = NoMeta BY <1>2 DEF MetaIn
  <2>2. \A x \in rows : x.key = k => x.meta = NoMeta BY <1>2
  <2> QED BY <1>1, <2>1, <2>2
<1>3. CASE some # {}
  <2>1. MetaIn(rows, k) = CHOOSE m \in some : TRUE BY <1>3 DEF MetaIn
  <2>2. MetaIn(rows, k) \in some BY <1>3, <2>1
  <2> QED BY <2>2
<1> QED BY <1>2, <1>3

\* One ingest: add_node merges the document's rows, add_edge adds its edges.
LEMMA IngestKeepsGraph ==
  ASSUME GraphInv, NEW d \in Documents, NEW t \in Forced, NEW src \in Sources, Ingest(d, t, src)
  PROVE  GraphInv'
<1> DEFINE new == Rows(d, t, src)
<1>1. PICK i : i = <<d, t, src>> OBVIOUS
<1>2. /\ i \in Documents \X Forced \X Sources
      /\ i[1] = d /\ i[2] = t /\ i[3] = src
  BY <1>1
<1>3. /\ ingested' = ingested \cup {i}
      /\ nodes' = Merged(new)
      /\ edges' = edges \cup Edges(d, t, src)
  BY <1>1 DEF Ingest
<1>4. RowsOf(i) = new /\ EdgesOf(i) = Edges(d, t, src) BY <1>2 DEF RowsOf, EdgesOf
<1>5. \A j : RowsOf(j)' = RowsOf(j) /\ EdgesOf(j)' = EdgesOf(j)
  BY DEF RowsOf, EdgesOf
<1>6. PICK rows : rows = new OBVIOUS
<1>7. /\ DOMAIN nodes' = DOMAIN nodes \cup Keys(rows)
      /\ \A k \in DOMAIN nodes : k \notin Keys(rows) => nodes'[k] = nodes[k]
      /\ \A k \in Keys(rows) :
           /\ nodes'[k].label = Spellings(rows, k)
           /\ nodes'[k].meta = IF k \in DOMAIN nodes /\ nodes[k].meta # NoMeta
                               THEN nodes[k].meta ELSE MetaIn(rows, k)
  BY <1>3, <1>6 DEF Merged
<1> HIDE DEF new
<1>8. ingested' \subseteq Documents \X Forced \X Sources BY <1>2, <1>3 DEF GraphInv
<1>9. DOMAIN nodes' = UNION {Keys(RowsOf(j)) : j \in ingested'}
  BY <1>3, <1>4, <1>6, <1>7 DEF GraphInv
<1>10. edges' = UNION {EdgesOf(j) : j \in ingested'}
  BY <1>3, <1>4 DEF GraphInv
<1>11. ASSUME NEW k \in DOMAIN nodes'
       PROVE  /\ \E j \in ingested' :
                   k \in Keys(RowsOf(j)) /\ nodes'[k].label = Spellings(RowsOf(j), k)
              /\ \E j \in ingested' : \E r \in RowsOf(j) : r.key = k /\ r.meta = nodes'[k].meta
              /\ nodes'[k].meta = NoMeta =>
                   \A j \in ingested' : \A r \in RowsOf(j) : r.key = k => r.meta = NoMeta
  <2>1. CASE k \notin Keys(rows)
    <3>1. k \in DOMAIN nodes /\ nodes'[k] = nodes[k] BY <1>7, <2>1
    <3>2. \A r \in RowsOf(i) : r.key # k BY <1>4, <1>6, <2>1 DEF Keys
    <3> QED BY <1>3, <3>1, <3>2 DEF GraphInv
  <2>2. CASE k \in Keys(rows)
    <3>1. nodes'[k].label = Spellings(RowsOf(i), k) /\ k \in Keys(RowsOf(i))
      BY <1>4, <1>6, <1>7, <2>2
    <3>2. CASE k \in DOMAIN nodes /\ nodes[k].meta # NoMeta
      <4>1. nodes'[k].meta = nodes[k].meta BY <1>7, <2>2, <3>2
      <4>2. \E j \in ingested : \E r \in RowsOf(j) : r.key = k /\ r.meta = nodes[k].meta
        BY <3>2 DEF GraphInv
      <4> QED BY <4>1, <4>2, <3>1, <3>2, <1>3, <1>4, <1>6
    <3>3. CASE ~(k \in DOMAIN nodes /\ nodes[k].meta # NoMeta)
      <4>1. nodes'[k].meta = MetaIn(rows, k) BY <1>7, <2>2, <3>3
      <4>2. \A j \in ingested : \A r \in RowsOf(j) : r.key = k => r.meta = NoMeta
        <5>1. CASE k \in DOMAIN nodes BY <5>1, <3>3 DEF GraphInv
        <5>2. CASE k \notin DOMAIN nodes BY <5>2 DEF GraphInv, Keys
        <5> QED BY <5>1, <5>2
      <4>3. /\ \E r \in rows : r.key = k /\ r.meta = MetaIn(rows, k)
            /\ MetaIn(rows, k) = NoMeta => \A r \in rows : r.key = k => r.meta = NoMeta
        BY <2>2, MetaFromRows
      <4> QED BY <4>1, <4>2, <4>3, <3>1, <1>3, <1>4, <1>6
    <3> QED BY <3>2, <3>3
  <2> QED BY <2>1, <2>2
<1> QED BY <1>5, <1>8, <1>9, <1>10, <1>11 DEF GraphInv, Keys, Spellings

\* The edges that tie a document to its targets and its behaviours.
LEMMA StatesTarget ==
  ASSUME NEW i, NEW x \in Targets(i[1], i[2])
  PROVE  <<<<"document", i[1]>>, <<"target", x>>, "targets", i[1]>> \in EdgesOf(i)
<1>1. PICK s : s = <<DocumentRow(i[1], i[3]), "targets", TargetRow(x)>> OBVIOUS
<1>2. s \in Says(i[1], i[2], i[3]) BY <1>1, Zenon DEF Says, BasicSays
<1>3. s[1].key = <<"document", i[1]>> /\ s[3].key = <<"target", x>> /\ s[2] = "targets"
  BY <1>1 DEF DocumentRow, TargetRow, Row
<1> QED BY <1>2, <1>3 DEF EdgesOf, Edges

LEMMA StatesBehavior ==
  ASSUME NEW i, NEW b \in Doc[i[1]].behaviors
  PROVE  <<<<"document", i[1]>>, <<"behavior", b.is>>, "has-behavior", i[1]>> \in EdgesOf(i)
<1>1. PICK s : s = <<DocumentRow(i[1], i[3]), "has-behavior", BehaviorRow(Cleaned(b))>> OBVIOUS
<1>2. s \in Says(i[1], i[2], i[3]) BY <1>1, Zenon DEF Says, BehaviorsSay
<1>3. /\ s[1].key = <<"document", i[1]>> /\ s[3].key = <<"behavior", b.is>>
      /\ s[2] = "has-behavior"
  BY <1>1 DEF DocumentRow, BehaviorRow, Row, Cleaned
<1> QED BY <1>2, <1>3 DEF EdgesOf, Edges

\* Two hops of related_graph.
LEMMA TwoHops ==
  ASSUME NEW k, NEW l \in Neighbours(k), NEW m \in Neighbours(l)
  PROVE  m \in Related(k, 2)
<1> DEFINE F(w) == [n \in 0..2 |-> IF n = 0 THEN {k} ELSE w[n - 1] \cup UNION {Neighbours(j) : j \in w[n - 1]}]
           W == CHOOSE w : w = F(w)
           A == {k} \cup UNION {Neighbours(j) : j \in {k}}
           B == A \cup UNION {Neighbours(j) : j \in A}
           f == [n \in 0..2 |-> IF n = 0 THEN {k} ELSE IF n = 1 THEN A ELSE B]
<1>1. Related(k, 2) = W[2] BY Zenon DEF Related
<1>2. f = F(f)
  <2>1. f[0] = {k} /\ f[1] = A /\ f[2] = B OBVIOUS
  <2> HIDE DEF A, B, f
  <2>2. F(f)[0] = {k} /\ F(f)[1] = A /\ F(f)[2] = B BY <2>1 DEF A, B
  <2>4. PICK g : g = F(f) OBVIOUS
  <2>5. \A n \in 0..2 : n = 0 \/ n = 1 \/ n = 2 OBVIOUS
  <2>6. g[0] = f[0] /\ g[1] = f[1] /\ g[2] = f[2] BY <2>1, <2>2, <2>4
  <2>7. \A n \in 0..2 : g[n] = f[n] BY <2>5, <2>6, Zenon
  <2> QED BY <2>4, <2>7 DEF f
<1>3. W = F(W) BY <1>2
<1> HIDE DEF W, f
<1>4. W[0] = {k} BY <1>3
<1>5. W[1] = W[0] \cup UNION {Neighbours(j) : j \in W[0]} BY <1>3
<1>6. W[2] = W[1] \cup UNION {Neighbours(j) : j \in W[1]} BY <1>3
<1>7. l \in W[1] BY <1>4, <1>5
<1> QED BY <1>1, <1>6, <1>7

\* The export of a target: from the documents that name it, all of them and no others.
LEMMA ExportsNamed ==
  ASSUME GraphInv, NEW x \in AllTargets
  PROVE  DocsForTarget(x) = {i[1] : i \in {j \in ingested : x \in Targets(j[1], j[2])}}
<1>1. x # Global BY KnowledgeAssumption DEF AllTargets
<1>2. ASSUME NEW i \in ingested, NEW e \in EdgesOf(i)
      PROVE  /\ NamesOnly(e[1], Targets(i[1], i[2])) /\ NamesOnly(e[2], Targets(i[1], i[2]))
             /\ e[4] = i[1]
  <2>1. i[1] \in Documents /\ i[2] \in Forced BY DEF GraphInv
  <2>2. EdgeFits(e, i[1], Keys(Rows(i[1], i[2], i[3]))) BY EdgesFit DEF EdgesOf
  <2>3. \A r \in Rows(i[1], i[2], i[3]) : RowFits(r, Targets(i[1], i[2])) BY <2>1, RowsFit
  <2> QED BY <2>2, <2>3 DEF EdgeFits, Keys, RowFits
<1>3. ASSUME NEW i \in ingested, x \in Targets(i[1], i[2])
      PROVE  i[1] \in DocsForTarget(x)
  <2>1. PICK e : e = <<<<"document", i[1]>>, <<"target", x>>, "targets", i[1]>> OBVIOUS
  <2>2. e \in EdgesOf(i) BY <1>3, <2>1, StatesTarget
  <2>3. e \in edges BY <2>2 DEF GraphInv
  <2>4. e[4] = i[1] /\ TargetOf(e[2]) = x BY <2>1 DEF TargetOf
  <2> QED BY <2>3, <2>4 DEF DocsForTarget
<1>4. ASSUME NEW d \in DocsForTarget(x)
      PROVE  \E i \in ingested : i[1] = d /\ x \in Targets(i[1], i[2])
  <2>1. PICK e \in edges : e[4] = d /\ (TargetOf(e[1]) = x \/ TargetOf(e[2]) = x)
    BY DEF DocsForTarget
  <2>2. PICK i \in ingested : e \in EdgesOf(i) BY DEF GraphInv
  <2> QED BY <1>1, <1>2, <2>1, <2>2 DEF NamesOnly
<1> QED BY <1>3, <1>4

LEMMA GraphFollows == GraphInv => GraphConverges
<1> SUFFICES ASSUME GraphInv PROVE GraphConverges OBVIOUS
<1>1. ASSUME NEW k \in DOMAIN nodes
      PROVE  LET said == UNION {{r \in RowsOf(i) : r.key = k} : i \in ingested} IN
             /\ nodes[k].label # {} /\ nodes[k].label \subseteq {r.label : r \in said}
             /\ k[1] \notin SpelledKinds => \A r \in said : nodes[k].label = {r.label}
             /\ nodes[k].meta \in {r.meta : r \in said}
             /\ nodes[k].meta = NoMeta => \A r \in said : r.meta = NoMeta
  <2> DEFINE said == UNION {{r \in RowsOf(i) : r.key = k} : i \in ingested}
  <2>1. \A r : r \in said <=> \E i \in ingested : r \in RowsOf(i) /\ r.key = k OBVIOUS
  <2> HIDE DEF said
  <2>2. nodes[k].label # {} /\ nodes[k].label \subseteq {r.label : r \in said}
    <3>1. PICK i \in ingested : k \in Keys(RowsOf(i)) /\ nodes[k].label = Spellings(RowsOf(i), k)
      BY DEF GraphInv
    <3> QED BY <2>1, <3>1 DEF Keys, Spellings
  <2>3. nodes[k].meta \in {r.meta : r \in said} BY <2>1 DEF GraphInv
  <2>4. nodes[k].meta = NoMeta => \A r \in said : r.meta = NoMeta BY <2>1 DEF GraphInv
  <2>5. ASSUME k[1] \notin SpelledKinds
        PROVE  \E l : \A r \in said : r.label = l
    <3>1. ASSUME NEW r \in said
          PROVE  r.label = LabelOf(k)
      <4>1. PICK i \in ingested : r \in RowsOf(i) /\ r.key = k BY <2>1
      <4>2. i[1] \in Documents /\ i[2] \in Forced BY DEF GraphInv
      <4>3. RowFits(r, Targets(i[1], i[2])) BY <4>1, <4>2, RowsFit DEF RowsOf
      <4> QED BY <2>5, <4>1, <4>3 DEF RowFits
    <3> QED BY <3>1
  <2>6. k[1] \notin SpelledKinds => \A r \in said : nodes[k].label = {r.label} BY <2>2, <2>5
  <2> QED BY <2>2, <2>3, <2>4, <2>6 DEF said
<1>2. ASSUME NEW i \in ingested, NEW b \in Doc[i[1]].behaviors, NEW x \in Targets(i[1], i[2])
      PROVE  <<"target", x>> \in Related(<<"behavior", b.is>>, 2)
  <2>1. PICK dk, bk0, tk : dk = <<"document", i[1]>> /\ bk0 = <<"behavior", b.is>> /\ tk = <<"target", x>>
    OBVIOUS
  <2>2. PICK e, g : e = <<dk, bk0, "has-behavior", i[1]>> /\ g = <<dk, tk, "targets", i[1]>> OBVIOUS
  <2>3. e \in EdgesOf(i) /\ g \in EdgesOf(i) BY <2>1, <2>2, StatesTarget, StatesBehavior
  <2>4. e \in edges /\ g \in edges BY <2>3 DEF GraphInv
  <2>5. e[1] = dk /\ e[2] = bk0 /\ g[1] = dk /\ g[2] = tk BY <2>2
  <2>6. dk \in Neighbours(bk0) /\ tk \in Neighbours(dk) BY <2>4, <2>5 DEF Neighbours
  <2> QED BY <2>1, <2>6, TwoHops
<1>3. /\ DOMAIN nodes = UNION {Keys(RowsOf(i)) : i \in ingested}
      /\ edges = UNION {EdgesOf(i) : i \in ingested}
  BY DEF GraphInv
<1> QED BY <1>1, <1>2, <1>3, ExportsNamed DEF GraphConverges

\* For any documents, targets, names and number of ingests, in any order: the graph's
\* keys, edges and exports depend only on what was ingested, and so do the labels of
\* the nodes that are not labelled as a document writes them; metadata that some
\* document brought is never missing (add_node, add_edge, document_relations and
\* docs_for_target of ppc-lab-knowledge).
THEOREM GraphIsDeterministic == KnowledgeSpec => []GraphConverges
<1>1. KnowledgeInit => GraphInv BY DEF KnowledgeInit, GraphInv
<1>2. GraphInv /\ [KnowledgeNext]_knowledgeVars => GraphInv'
  <2> SUFFICES ASSUME GraphInv, [KnowledgeNext]_knowledgeVars PROVE GraphInv' OBVIOUS
  <2>1. CASE KnowledgeNext BY <2>1, IngestKeepsGraph DEF KnowledgeNext
  <2>2. CASE UNCHANGED knowledgeVars
    <3>1. nodes' = nodes /\ edges' = edges /\ ingested' = ingested BY <2>2 DEF knowledgeVars
    <3> QED BY <3>1 DEF GraphInv, RowsOf, EdgesOf, Keys, Spellings
  <2> QED BY <2>1, <2>2
<1> QED BY <1>1, <1>2, GraphFollows, PTL DEF KnowledgeSpec
=============================================================================

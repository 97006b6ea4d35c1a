---------------------------- MODULE Orchestrate ----------------------------
(***************************************************************************)
(* ppc-lab-orchestrate: hash the inputs, resume what the result directory  *)
(* has, copy what the shared cache has, run the rest on a pool of threads, *)
(* and write a summary.  Runs share the cache and, with --resume, the      *)
(* result directory; a run may be killed between any two writes.           *)
(*                                                                         *)
(* A worker opens the input itself, after it was hashed: what it computes  *)
(* is the triple of the job document, the content at that time and the     *)
(* installed engine, while the key is made of what was hashed.  Both may   *)
(* change at any time, also between the hash and the execution.            *)
(***************************************************************************)
EXTENDS Naturals, FiniteSets

CONSTANTS
  JobCount,    \* the jobs are 0 .. JobCount - 1
  JobDoc,      \* [jobs -> job document]
  JobInput,    \* [jobs -> input file]
  JobContents, JobEngines,
  JobSucceeds, \* the executions that end well: a set of triples
  Parallel,    \* max_workers
  NoRecord,
  MaxOrchRuns, MaxOrchFaults  \* bounds: runs; edits, upgrades and kills

OrchJobs == 0..(JobCount - 1)
JobInputs == {JobInput[j] : j \in OrchJobs}
JobKeys == {JobDoc[j] : j \in OrchJobs} \X JobContents \X JobEngines

\* _load_manifest: there is a job, and parallelism is positive.
ValidJobs == JobCount \in Nat \ {0} /\ Parallel \in Nat \ {0}

\* A result file or cache entry: the job that wrote it, the key, and what the
\* result was computed from, NoRecord when there was no answer.  changed is not in
\* the file: an input or the engine had changed since that run hashed them.
JobRecords == [key : JobKeys, res : JobKeys \cup {NoRecord}, job : OrchJobs, changed : BOOLEAN]

ASSUME OrchestrateAssumption ==
  /\ ValidJobs /\ JobSucceeds \subseteq JobKeys
  /\ DOMAIN JobDoc = OrchJobs /\ DOMAIN JobInput = OrchJobs
  /\ NoRecord \notin JobKeys \cup JobRecords

VARIABLES
  inputs,     \* [JobInputs -> JobContents]
  installed,  \* the engine
  outDir,     \* [OrchJobs -> record or NoRecord]: the result directory
  jobCache,   \* a set of records: the shared cache
  orch,       \* the process: [pc, job, print, engine, flags], and changed as above
  task,       \* [OrchJobs -> [pc, rec]]: planning and the pool
  orchUsed    \* [run, fault]

orchVars == <<inputs, installed, outDir, jobCache, orch, task, orchUsed>>

\* A record names the job that wrote it; ok is response["ok"].
JobRecord(j, key, res) == [key |-> key, res |-> res, job |-> j, changed |-> orch.changed]
RecordOk(r) == r.res \in JobSucceeds

NoFlags == [resume |-> FALSE, read |-> FALSE, write |-> FALSE]
NoOrch == [pc |-> "idle", job |-> 0, print |-> [i \in JobInputs |-> NoRecord],
           engine |-> NoRecord, flags |-> NoFlags, changed |-> FALSE]
NoTask == [pc |-> "none", rec |-> NoRecord]

OrchFlags == [resume : BOOLEAN, read : BOOLEAN, write : BOOLEAN]
OrchTypeOK ==
  /\ inputs \in [JobInputs -> JobContents] /\ installed \in JobEngines
  /\ outDir \in [OrchJobs -> JobRecords \cup {NoRecord}] /\ jobCache \subseteq JobRecords
  /\ orch \in [pc : {"idle", "plan", "done"}, job : Nat,
               print : [JobInputs -> JobContents \cup {NoRecord}],
               engine : JobEngines \cup {NoRecord}, flags : OrchFlags, changed : BOOLEAN]
  /\ task \in [OrchJobs -> [pc : {"none", "queued", "run", "write", "cache", "resumed", "cached",
                                  "executed"},
                            rec : JobRecords \cup {NoRecord}]]
  /\ orchUsed \in [run : Nat, fault : Nat]

OrchInit ==
  /\ inputs \in [JobInputs -> JobContents] /\ installed \in JobEngines
  /\ outDir = [j \in OrchJobs |-> NoRecord] /\ jobCache = {}
  /\ orch = NoOrch /\ task = [j \in OrchJobs |-> NoTask]
  /\ orchUsed = [run |-> 0, fault |-> 0]

\* _input_fingerprints, _engine_identity: hashed once, before anything runs.
OrchStart(flags) ==
  /\ orch.pc \in {"idle", "done"} /\ orchUsed.run < MaxOrchRuns
  /\ orch' = [pc |-> "plan", job |-> 0, print |-> inputs, engine |-> installed, flags |-> flags,
              changed |-> FALSE]
  /\ task' = [j \in OrchJobs |-> NoTask]
  /\ orchUsed' = [orchUsed EXCEPT !.run = @ + 1]
  /\ UNCHANGED <<inputs, installed, outDir, jobCache>>

\* (mutant) The key leaves the input's content out.
JobKey_unhashed(j) ==
  <<JobDoc[j], CHOOSE c \in JobContents : TRUE, orch.engine>>

\* _cache_key: the job document, the engine and the hashes of the inputs.
JobKey(j) == <<JobDoc[j], orch.print[JobInput[j]], orch.engine>>

\* _valid_record, for the file of the result directory and the cache entry.
Reusable(j) == orch.flags.resume /\ outDir[j] # NoRecord /\ outDir[j].key = JobKey(j)
Hits(j) == IF orch.flags.read THEN {r \in jobCache : r.key = JobKey(j)} ELSE {}

\* The loop over the prepared jobs: resume, copy or queue.
OrchPlan ==
  LET j == orch.job IN
  /\ orch.pc = "plan" /\ j < JobCount
  /\ \/ /\ Reusable(j)
        /\ task' = [task EXCEPT ![j] = [pc |-> "resumed", rec |-> outDir[j]]]
        /\ UNCHANGED outDir
     \/ /\ ~Reusable(j)
        /\ \E r \in Hits(j) : /\ outDir' = [outDir EXCEPT ![j] = r]
                              /\ task' = [task EXCEPT ![j] = [pc |-> "cached", rec |-> r]]
     \/ /\ ~Reusable(j) /\ Hits(j) = {}
        /\ task' = [task EXCEPT ![j].pc = "queued"] /\ UNCHANGED outDir
  /\ orch' = [orch EXCEPT !.job = @ + 1]
  /\ UNCHANGED <<inputs, installed, jobCache, orchUsed>>

Pooled == {j \in OrchJobs : task[j].pc \in {"run", "write", "cache"}}

\* A thread of the pool takes the job ...
OrchTake(j) ==
  /\ orch.pc = "plan" /\ orch.job = JobCount
  /\ task[j].pc = "queued" /\ Cardinality(Pooled) < Parallel
  /\ task' = [task EXCEPT ![j].pc = "run"]
  /\ UNCHANGED <<inputs, installed, outDir, jobCache, orch, orchUsed>>

\* ... _run_worker: the input as it is now; an answer that does not parse becomes
\* a failed response.
OrchExecute(j) ==
  /\ task[j].pc = "run"
  /\ \E res \in {<<JobDoc[j], inputs[JobInput[j]], installed>>, NoRecord} :
       task' = [task EXCEPT ![j] = [pc |-> "write", rec |-> JobRecord(j, JobKey(j), res)]]
  /\ UNCHANGED <<inputs, installed, outDir, jobCache, orch, orchUsed>>

\* The result file, replaced atomically ...
OrchWrite(j) ==
  /\ task[j].pc = "write"
  /\ outDir' = [outDir EXCEPT ![j] = task[j].rec]
  /\ task' = [task EXCEPT ![j].pc =
       IF orch.flags.write /\ RecordOk(task[j].rec) THEN "cache" ELSE "executed"]
  /\ UNCHANGED <<inputs, installed, jobCache, orch, orchUsed>>

\* ... and the cache entry of a success, which replaces an earlier one.
OrchCache(j) ==
  /\ task[j].pc = "cache"
  /\ jobCache' = {r \in jobCache : r.key # task[j].rec.key} \cup {task[j].rec}
  /\ task' = [task EXCEPT ![j].pc = "executed"]
  /\ UNCHANGED <<inputs, installed, outDir, orch, orchUsed>>

\* Every record is there: the summary is written and the process exits.
OrchFinish ==
  /\ orch.pc = "plan" /\ orch.job = JobCount
  /\ \A j \in OrchJobs : task[j].pc \in {"resumed", "cached", "executed"}
  /\ orch' = [orch EXCEPT !.pc = "done"]
  /\ UNCHANGED <<inputs, installed, outDir, jobCache, task, orchUsed>>

\* The environment: edits, upgrades, and a kill that loses the pool.
OrchFault ==
  /\ orchUsed.fault < MaxOrchFaults
  /\ orchUsed' = [orchUsed EXCEPT !.fault = @ + 1]
  /\ \/ /\ \E i \in JobInputs, c \in JobContents : c # inputs[i] /\ inputs' = [inputs EXCEPT ![i] = c]
        /\ orch' = [orch EXCEPT !.changed = @ \/ orch.pc = "plan"] /\ UNCHANGED <<installed, task>>
     \/ /\ \E v \in JobEngines : v # installed /\ installed' = v
        /\ orch' = [orch EXCEPT !.changed = @ \/ orch.pc = "plan"] /\ UNCHANGED <<inputs, task>>
     \/ /\ orch.pc = "plan"
        /\ orch' = NoOrch /\ task' = [j \in OrchJobs |-> NoTask]
        /\ UNCHANGED <<inputs, installed>>
  /\ UNCHANGED <<outDir, jobCache>>

OrchNext ==
  \/ \E f \in OrchFlags : OrchStart(f)
  \/ OrchPlan \/ OrchFinish \/ OrchFault
  \/ \E j \in OrchJobs : OrchTake(j) \/ OrchExecute(j) \/ OrchWrite(j) \/ OrchCache(j)

OrchSpec == OrchInit /\ [][OrchNext]_orchVars
-----------------------------------------------------------------------------
\* The record says what executing its key yields, or that there was no answer; the
\* other possibility is a change between the hash and the execution.
Follows(r) == r.res \in {r.key, NoRecord} \/ r.changed

\* Whatever run files, kills, resumes and cache copies went before: a result under a key
\* is the result of that key, unless the run that computed it saw an input or the engine
\* change after it had hashed them; the shared cache holds successes only; and what a run
\* has settled for a job is filed, under the key of the content the run hashed.
ReuseSound ==
  /\ \A j \in OrchJobs : outDir[j] # NoRecord => Follows(outDir[j])
  /\ \A r \in jobCache : Follows(r) /\ RecordOk(r)
  /\ orch.pc # "idle" => \A j \in OrchJobs : task[j].pc \in {"resumed", "cached", "executed"} =>
       task[j].rec = outDir[j] /\ outDir[j].key = JobKey(j)
=============================================================================

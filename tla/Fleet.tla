-------------------------------- MODULE Fleet --------------------------------
(***************************************************************************)
(* ppc-lab-fleet: one controller process that fingerprints the inputs of   *)
(* its jobs, probes the hosts, takes what it can from the result directory *)
(* and the shared cache, and runs the rest on a pool of threads.  A thread *)
(* takes a slot of a host, stages the input into the host's                *)
(* content-addressed store, runs ppc-lab-worker there and, when an attempt *)
(* fails for a reason that may be the host's, tries the next host.         *)
(* Meanwhile somebody edits an input, and the controller may be killed and *)
(* started again, on hosts that were upgraded or whose stores were damaged *)
(* in between.                                                             *)
(*                                                                         *)
(* A content stands for its sha256.  What a worker computes is a function  *)
(* of the job document, the image content, the engine version and the      *)
(* backend, and is represented by those four; a cache key hashes the first *)
(* three, as the controller believes them to be.  The backend is what the  *)
(* document asks for, or the host's choice.                                *)
(***************************************************************************)
EXTENDS Naturals, Sequences, FiniteSets, SequencesExt

CONSTANTS
  HostList,     \* the hosts, in manifest order
  Slots,        \* [Hosts -> Nat]: slots of a host
  NJobs,        \* the jobs are 0 .. NJobs - 1
  Doc,          \* [Jobs -> job document]: jobs may share one
  Input,        \* [Jobs -> the input file of a job]
  Tagged,       \* [Jobs -> SUBSET Hosts]: the hosts with the tags of a job
  Asks,         \* [documents -> the backend they ask for, or "auto"]
  Unicorn,      \* the hosts whose engine has Unicorn compiled in
  Retries,
  Contents, Versions,
  Installed,    \* the versions the hosts may have at first
  Succeeds,     \* the executions that end well: a set of results
  LiveUpgrade,  \* TRUE: a host may be upgraded while the controller runs
  None,
  MaxRuns,      \* bound: starts of the controller
  MaxFaults     \* bound: edits, upgrades, damaged objects, failed writes and kills

Hosts == ToSet(HostList)
Jobs == 0..(NJobs - 1)
Inputs == {Input[j] : j \in Jobs}
Docs == {Doc[j] : j \in Jobs}
Backends == {"builtin", "unicorn"}
Triples == Docs \X Contents \X Versions
Results == Docs \X Contents \X Versions \X Backends

\* _load_manifest: names are unique, slots are positive, and so on.
ValidManifest ==
  /\ HostList \in Seq(Hosts) /\ HostList # <<>> /\ IsInjective(HostList)
  /\ NJobs \in Nat \ {0} /\ Retries \in Nat
  /\ Slots \in [Hosts -> Nat \ {0}]

\* res: None when the last attempt brought no answer.
Records == [key : Triples, res : Results \cup {None}]

ASSUME FleetAssumption ==
  /\ ValidManifest
  /\ DOMAIN Doc = Jobs /\ DOMAIN Input = Jobs /\ Tagged \in [Jobs -> SUBSET Hosts]
  /\ Asks \in [Docs -> Backends \cup {"auto"}] /\ Unicorn \subseteq Hosts
  /\ Installed \subseteq [Hosts -> Versions]
  /\ Succeeds \subseteq Results /\ LiveUpgrade \in BOOLEAN
  /\ None \notin Contents \cup Versions \cup Results \cup Records

VARIABLES
  src,      \* [Inputs -> Contents]: the input files
  version,  \* [Hosts -> Versions]: the installed engine
  store,    \* [Hosts -> [Contents -> Contents or None]]: the object under each
            \* digest of <root>/.ppc-lab/store
  out,      \* [Jobs -> record or None]: the result directory
  cache,    \* a set of records, one per key: the shared cache
  run,      \* the controller: [pc, job, caps, print, noResume]
  th,       \* [Jobs -> the thread of a planned job]
  rows,     \* [Jobs -> [status, ok]]: the summary's rows
  count,    \* the summary's counters
  used      \* how often the environment acted

vars == <<src, version, store, out, cache, run, th, rows, count, used>>
env == <<src, version, used>>

Ok(r) == r.res \in Succeeds

NoRun == [pc |-> "idle", job |-> 0, caps |-> [h \in Hosts |-> None],
          print |-> [i \in Inputs |-> None], noResume |-> FALSE]
NoThread == [pc |-> "none", tried |-> <<>>, res |-> None]
NoRow == [status |-> "none", ok |-> FALSE]
NoCount == [executed |-> 0, resumed |-> 0, cache_hits |-> 0, failed |-> 0]

ThreadPcs == {"none", "queued", "slot", "stage", "run", "record", "cache",
              "count", "done", "broken"}
Attempts == Seq([host : Hosts, answered : BOOLEAN])

TypeOK ==
  /\ src \in [Inputs -> Contents] /\ version \in [Hosts -> Versions]
  /\ store \in [Hosts -> [Contents -> Contents \cup {None}]]
  /\ out \in [Jobs -> Records \cup {None}] /\ cache \subseteq Records
  /\ run \in [pc : {"idle", "probe", "plan", "run", "done", "exit2", "exit3"},
             job : 0..NJobs, caps : [Hosts -> Versions \cup {None}],
             print : [Inputs -> Contents \cup {None}], noResume : BOOLEAN]
  /\ th \in [Jobs -> [pc : ThreadPcs, tried : Attempts, res : Results \cup {None}]]
  /\ rows \in [Jobs -> [status : {"none", "executed", "resumed", "cache-hit"}, ok : BOOLEAN]]
  /\ count \in [executed : Nat, resumed : Nat, cache_hits : Nat, failed : Nat]
  /\ used \in [run : Nat, fault : Nat]

Init ==
  /\ src \in [Inputs -> Contents] /\ version \in Installed
  /\ store = [h \in Hosts |-> [c \in Contents |-> None]]
  /\ out = [j \in Jobs |-> None] /\ cache = {}
  /\ run = NoRun /\ th = [j \in Jobs |-> NoThread]
  /\ rows = [j \in Jobs |-> NoRow] /\ count = NoCount
  /\ used = [run |-> 0, fault |-> 0]

------------------------------------------------------------------------------
(* Planning.                                                               *)

\* The version of the first healthy host decides; the others are excluded.
EngineVersion ==
  run.caps[HostList[SelectInSeq(HostList, LAMBDA h : run.caps[h] # None)]]

\* Tags and backend: "auto" and "builtin" run anywhere.
Fits(j) == {h \in Tagged[j] : Asks[Doc[j]] = "unicorn" => h \in Unicorn}

\* _eligible_hosts: their positions in the manifest.
Eligible(j) ==
  LET v == EngineVersion
  IN  {k \in DOMAIN HostList : run.caps[HostList[k]] = v /\ HostList[k] \in Fits(j)}

\* The one of some positions that has n others before it.
Nth(P, n) == CHOOSE k \in P : Cardinality({m \in P : m < k}) = n

\* _cache_key: neither the name nor the index of the job takes part, nor the backend.
Key(j) == <<Doc[j], run.print[Input[j]], EngineVersion>>

\* Load the manifest and hash every input.
Start(noResume) ==
  /\ run.pc \in {"idle", "done", "exit2", "exit3"} /\ used.run < MaxRuns
  /\ run' = [NoRun EXCEPT !.pc = "probe", !.print = src, !.noResume = noResume]
  /\ th' = [j \in Jobs |-> NoThread] /\ rows' = [j \in Jobs |-> NoRow]
  /\ count' = NoCount
  /\ used' = [used EXCEPT !.run = @ + 1]
  /\ UNCHANGED <<src, version, store, out, cache>>

\* _probe_host on every host; with none healthy the run ends.
Probe(answering) ==
  /\ run.pc = "probe"
  /\ run' = [run EXCEPT !.pc = IF answering = {} THEN "exit2" ELSE "plan",
       !.caps = [h \in Hosts |-> IF h \in answering THEN version[h] ELSE None]]
  /\ UNCHANGED <<env, store, out, cache, th, rows, count>>

Planning(j) == run.pc = "plan" /\ run.job = j

\* _valid_record on the file of the result directory: whatever its outcome was.
Resumable(j) == ~run.noResume /\ out[j] # None /\ out[j].key = Key(j)

\* _valid_record on the cache, and only if it reports success.
CacheHits(j) == {r \in cache : r.key = Key(j) /\ Ok(r)}

\* A job nobody can run ends the whole run, after the jobs before it were
\* resumed or copied from the cache.
PlanNobody(j) ==
  /\ Planning(j) /\ Eligible(j) = {}
  /\ run' = [run EXCEPT !.pc = "exit2"]
  /\ UNCHANGED <<env, store, out, cache, th, rows, count>>

PlanNext == run' = [run EXCEPT !.job = @ + 1]

\* (mutant) A resumed failure is not counted.
PlanResume_uncounted(j) ==
  /\ Planning(j) /\ Eligible(j) # {} /\ Resumable(j) /\ PlanNext
  /\ rows' = [rows EXCEPT ![j] = [status |-> "resumed", ok |-> Ok(out[j])]]
  /\ count' = [count EXCEPT !.resumed = @ + 1]
  /\ UNCHANGED <<env, store, out, cache, th>>

PlanResume(j) ==
  /\ Planning(j) /\ Eligible(j) # {} /\ Resumable(j) /\ PlanNext
  /\ rows' = [rows EXCEPT ![j] = [status |-> "resumed", ok |-> Ok(out[j])]]
  /\ count' = [count EXCEPT !.resumed = @ + 1,
                            !.failed = IF Ok(out[j]) THEN @ ELSE @ + 1]
  /\ UNCHANGED <<env, store, out, cache, th>>

PlanCached(j) ==
  /\ Planning(j) /\ Eligible(j) # {} /\ ~Resumable(j) /\ PlanNext
  /\ \E r \in CacheHits(j) : out' = [out EXCEPT ![j] = r]
  /\ rows' = [rows EXCEPT ![j] = [status |-> "cache-hit", ok |-> TRUE]]
  /\ count' = [count EXCEPT !.cache_hits = @ + 1]
  /\ UNCHANGED <<env, store, cache, th>>

PlanExecute(j) ==
  /\ Planning(j) /\ Eligible(j) # {} /\ ~Resumable(j) /\ CacheHits(j) = {}
  /\ PlanNext /\ th' = [th EXCEPT ![j].pc = "queued"]
  /\ UNCHANGED <<env, store, out, cache, rows, count>>

Planned ==
  /\ run.pc = "plan" /\ run.job = NJobs
  /\ run' = [run EXCEPT !.pc = "run"]
  /\ UNCHANGED <<env, store, out, cache, th, rows, count>>

------------------------------------------------------------------------------
(* execute, on a thread of the pool.                                       *)

Working == {j \in Jobs : th[j].pc \in {"slot", "stage", "run", "record",
                                       "cache", "count"}}
PoolSize == LET compatible == {h \in Hosts : run.caps[h] = EngineVersion}
            IN  MapThenSumSet(LAMBDA h : Slots[h], compatible)

Goto(j, l) == th' = [th EXCEPT ![j].pc = l]

\* The first host rotates with the job's index, the next ones follow in order.
HostFor(j) ==
  LET el == Eligible(j) IN HostList[Nth(el, (j + Len(th[j].tried)) % Cardinality(el))]

\* The threads that hold a slot of a host.
Holding(h) == {j \in Jobs : th[j].pc \in {"stage", "run"} /\ HostFor(j) = h}

Take(j) ==
  /\ run.pc = "run" /\ th[j].pc = "queued" /\ Cardinality(Working) < PoolSize
  /\ Goto(j, "slot")
  /\ UNCHANGED <<env, store, out, cache, run, rows, count>>

\* (mutant) A thread waits until the host is idle and one slot stays free.
Acquire_strict(j) ==
  /\ th[j].pc = "slot" /\ Cardinality(Holding(HostFor(j))) + 1 < Slots[HostFor(j)]
  /\ Goto(j, "stage")
  /\ UNCHANGED <<env, store, out, cache, run, rows, count>>

\* with host.semaphore
Acquire(j) ==
  /\ th[j].pc = "slot" /\ Cardinality(Holding(HostFor(j))) < Slots[HostFor(j)]
  /\ Goto(j, "stage")
  /\ UNCHANGED <<env, store, out, cache, run, rows, count>>

Attempt(j, res) == [host |-> HostFor(j), answered |-> res # None]

\* (mutant) A guest's failure is tried again on another host, like a lost attempt.
Attempted_any(j, res) ==
  th' = [th EXCEPT ![j] =
    [pc |-> IF res \notin Succeeds /\ Len(@.tried) < Retries THEN "slot" ELSE "record",
     tried |-> Append(@.tried, Attempt(j, res)), res |-> res]]

\* An attempt is over and the slot is given back; a lost one is tried again
\* while attempts are left.
Attempted(j, res) ==
  th' = [th EXCEPT ![j] =
    [pc |-> IF res = None /\ Len(@.tried) < Retries THEN "slot" ELSE "record",
     tried |-> Append(@.tried, Attempt(j, res)), res |-> res]]

\* (mutant) The copy in the store is not compared with its digest.
Stage_unverified(j) ==
  LET h == HostFor(j)  want == run.print[Input[j]]  IN
  /\ th[j].pc = "stage" /\ Goto(j, "run")
  /\ store' = [store EXCEPT ![h][want] = IF @ = None THEN src[Input[j]] ELSE @]
  /\ UNCHANGED <<env, out, cache, run, rows, count>>

\* _stage_local, _stage_ssh: a good object is used as it is; otherwise the
\* source, as it is now, is copied, verified and renamed into the store.
Stage(j) ==
  LET h == HostFor(j)  want == run.print[Input[j]]  IN
  /\ th[j].pc = "stage" /\ Goto(j, "run")
  /\ \/ store[h][want] = want /\ UNCHANGED store
     \/ /\ store[h][want] # want /\ src[Input[j]] = want
        /\ store' = [store EXCEPT ![h][want] = want]
  /\ UNCHANGED <<env, out, cache, run, rows, count>>

\* The source has changed since it was hashed, or the transport fails.
StageFails(j) ==
  /\ th[j].pc = "stage" /\ Attempted(j, None)
  /\ UNCHANGED <<env, store, out, cache, run, rows, count>>

\* makeBackend of the engine: "auto" is Unicorn where it is compiled in.
makeBackend(d, h) == IF Asks[d] # "auto" THEN Asks[d]
                     ELSE IF h \in Unicorn THEN "unicorn" ELSE "builtin"

\* run_job of ppc-lab-worker: the installed engine runs the staged object.
run_job(j, h) == <<Doc[j], store[h][run.print[Input[j]]], version[h], makeBackend(Doc[j], h)>>

\* The worker answers, with the guest's success or failure.
WorkerAnswers(j) ==
  /\ th[j].pc = "run" /\ Attempted(j, run_job(j, HostFor(j)))
  /\ UNCHANGED <<env, store, out, cache, run, rows, count>>

\* It times out, or its answer does not arrive or does not parse.
WorkerLost(j) ==
  /\ th[j].pc = "run" /\ Attempted(j, None)
  /\ UNCHANGED <<env, store, out, cache, run, rows, count>>

RecordOf(j) == [key |-> Key(j), res |-> th[j].res]

\* Write the result file ...
Record(j) ==
  /\ th[j].pc = "record"
  /\ out' = [out EXCEPT ![j] = RecordOf(j)]
  /\ Goto(j, IF Ok(RecordOf(j)) THEN "cache" ELSE "count")
  /\ UNCHANGED <<env, store, cache, run, rows, count>>

\* ... the cache entry of a success ...
Cache(j) ==
  /\ th[j].pc = "cache" /\ Goto(j, "count")
  /\ cache' = {r \in cache : r.key # Key(j)} \cup {RecordOf(j)}
  /\ UNCHANGED <<env, store, out, run, rows, count>>

\* ... and count, under the lock.
Count(j) ==
  /\ th[j].pc = "count" /\ Goto(j, "done")
  /\ rows' = [rows EXCEPT ![j] =
       [status |-> "executed", ok |-> Ok(RecordOf(j))]]
  /\ count' = [count EXCEPT !.executed = @ + 1,
                            !.failed = IF Ok(RecordOf(j)) THEN @ ELSE @ + 1]
  /\ UNCHANGED <<env, store, out, cache, run>>

\* The pool is empty: summary.json is written and the controller exits.  If a thread
\* has ended in an exception there is no summary; the others have finished first, as
\* leaving the pool waits for them.
Finish ==
  /\ run.pc = "run" /\ \A j \in Jobs : th[j].pc \in {"none", "done", "broken"}
  /\ run' = [run EXCEPT !.pc = IF \E j \in Jobs : th[j].pc = "broken" THEN "exit3" ELSE "done"]
  /\ UNCHANGED <<env, store, out, cache, th, rows, count>>

------------------------------------------------------------------------------
(* The environment.                                                        *)

Running == run.pc \in {"probe", "plan", "run"}

Edit(i, c) ==
  /\ used.fault < MaxFaults /\ used' = [used EXCEPT !.fault = @ + 1]
  /\ c # src[i] /\ src' = [src EXCEPT ![i] = c]
  /\ UNCHANGED <<version, store, out, cache, run, th, rows, count>>

Upgrade(h, v) ==
  /\ Running => LiveUpgrade
  /\ used.fault < MaxFaults /\ used' = [used EXCEPT !.fault = @ + 1]
  /\ v # version[h] /\ version' = [version EXCEPT ![h] = v]
  /\ UNCHANGED <<src, store, out, cache, run, th, rows, count>>

\* An object is pruned or spoiled while no job is running.
Damage(h, c, x) ==
  /\ ~Running /\ used.fault < MaxFaults
  /\ used' = [used EXCEPT !.fault = @ + 1]
  /\ store[h][c] # None /\ x # c /\ store' = [store EXCEPT ![h][c] = x]
  /\ UNCHANGED <<src, version, out, cache, run, th, rows, count>>

\* A thread cannot write its result file or its cache entry: the exception ends it.
WriteFails(j) ==
  /\ th[j].pc \in {"record", "cache"} /\ Goto(j, "broken")
  /\ used.fault < MaxFaults /\ used' = [used EXCEPT !.fault = @ + 1]
  /\ UNCHANGED <<src, version, store, out, cache, run, rows, count>>

\* The controller is killed: the threads and the summary are gone.
Killed ==
  /\ Running /\ used.fault < MaxFaults /\ used' = [used EXCEPT !.fault = @ + 1]
  /\ run' = NoRun /\ th' = [j \in Jobs |-> NoThread]
  /\ rows' = [j \in Jobs |-> NoRow] /\ count' = NoCount
  /\ UNCHANGED <<src, version, store, out, cache>>

------------------------------------------------------------------------------
Controller ==
  \/ \E a \in SUBSET Hosts : Probe(a)
  \/ \E j \in Jobs : PlanNobody(j) \/ PlanResume(j) \/ PlanCached(j)
                      \/ PlanExecute(j)
  \/ Planned \/ Finish

Thread(j) ==
  \/ Take(j) \/ Acquire(j) \/ Stage(j) \/ StageFails(j) \/ WorkerAnswers(j)
  \/ WorkerLost(j) \/ Record(j) \/ Cache(j) \/ Count(j)

Environment ==
  \/ \E i \in Inputs, c \in Contents : Edit(i, c)
  \/ \E h \in Hosts, v \in Versions : Upgrade(h, v)
  \/ \E h \in Hosts, c \in Contents, x \in Contents \cup {None} : Damage(h, c, x)
  \/ \E j \in Jobs : WriteFails(j)
  \/ Killed

Next ==
  \/ \E b \in BOOLEAN : Start(b)
  \/ Controller
  \/ \E j \in Jobs : Thread(j)
  \/ Environment

Spec == Init /\ [][Next]_vars

\* The controller or some thread goes on while one can: every subprocess they
\* wait for has a time limit.
FairSpec == Spec /\ WF_vars(Controller \/ \E j \in Jobs : Thread(j))

------------------------------------------------------------------------------
\* The hosts agree on what "auto" means, or no job leaves it to them.
OneAuto == Unicorn \in {{}, Hosts} \/ \A d \in Docs : Asks[d] # "auto"

\* What executing a key yields, the same on every host then.
Yields == [k \in Triples |->
             <<k[1], k[2], k[3],
               IF Asks[k[1]] # "auto" THEN Asks[k[1]]
               ELSE IF Unicorn = Hosts THEN "unicorn" ELSE "builtin">>]

Promise == INSTANCE ResultCache WITH
  Files <- Jobs, Keys <- Triples, Yield <- Yields, files <- out, shared <- cache

\* The controller keeps the promise of ResultCache: what is filed under a key, in
\* the result directory or in the shared cache, was computed from the job, the
\* content and the engine the key names, by the one backend that the job stands
\* for, through edits of the input between hashing and staging, damaged stores,
\* failover, failed writes, restarts and upgrades between runs; and the shared cache
\* only gains successes.
ImplementsCache == Promise!Spec

\* "Hosts with a different version are excluded rather than mixing execution
\* semantics inside one result set" (FLEET.md): what two jobs have under one key is
\* the same result.
OneSemantics ==
  \A i, j \in Jobs :
    LET answered(k) == out[k] # None /\ out[k].res # None IN
    answered(i) /\ answered(j) /\ out[i].key = out[j].key => out[i].res = out[j].res

\* A finished run accounts for every job once, its failures are counted, and
\* each row of the summary tells what the file in the result directory holds,
\* under the key of this run.
SummaryAgrees ==
  run.pc = "done" =>
    /\ \A j \in Jobs : /\ rows[j].status # "none"
                       /\ out[j].key = Key(j) /\ rows[j].ok = Ok(out[j])
    /\ count.executed + count.resumed + count.cache_hits = NJobs
    /\ count.failed = Cardinality({j \in Jobs : ~rows[j].ok})

\* A job is given up only after 1 + Retries attempts, which reach every eligible
\* host when there are not more hosts than attempts; a worker's answer, the guest's
\* failure included, is never retried: it is the last attempt and what is filed.
FailoverCovers ==
  \A j \in Jobs : LET tried == th[j].tried IN
    /\ \A k \in 1..Len(tried) : tried[k].answered =>
         k = Len(tried) /\ th[j].res # None /\ th[j].pc \notin {"slot", "stage", "run"}
    /\ th[j].pc \in {"record", "cache", "count", "done", "broken"} /\ th[j].res = None =>
         /\ Len(tried) = 1 + Retries
         /\ Cardinality(Eligible(j)) <= 1 + Retries
              => {tried[k].host : k \in 1..Len(tried)} = {HostList[k] : k \in Eligible(j)}

\* A run ends: no thread waits for a slot for ever although threads hold their
\* place in the pool while they wait for the slot of one particular host.
RunEnds == Running ~> ~Running
==============================================================================

----------------------------- MODULE Replication -----------------------------
(***************************************************************************)
(* ppc-lab-replicate between sites, each with an evidence store, a         *)
(* knowledge graph and a control history.  export reads the generation of  *)
(* replication.json, collects a snapshot of the stores asked for, writes   *)
(* the ZIP and only then advances the generation.  import verifies a       *)
(* bundle, looks for a receipt of its site and generation, merges the      *)
(* evidence (a call of EvidenceStore's ingest, which overlaps with local   *)
(* publishers), then the knowledge, archives the history and writes the    *)
(* receipt.  Each is a process of its own that may be killed at any step.  *)
(* Bundles are files: they can be imported late, in any order, many times. *)
(*                                                                         *)
(* A bundle stands for its manifest, whose hash is the bundle_id; one that *)
(* was only partly written fails verify_bundle and is no bundle here.  The *)
(* knowledge graph is reduced to its set of documents.                     *)
(***************************************************************************)
EXTENDS EvidenceStore, FiniteSets

CONSTANTS
  Publishers,   \* processes that run ppc-lab-evidence ingest
  Exporters, Importers,
  PublishArgs,  \* [site, files, strict]: the command lines of local ingests,
  ExportArgs,   \* [site, parts]: of exports,
  ImportArgs,   \* [site, dst]: and of imports
  History,      \* [Sites -> Nat]: records in the control plane's history file,
                \* which does not grow while the model runs
  Syncing,      \* the sites that sync their knowledge graph
  MaxPublish,   \* bound: local ingests
  MaxGen,       \* bound: generations of a site
  MaxBundles,   \* bound: bundles written
  MaxKill       \* bound: killed processes

Parts == {"evidence", "knowledge", "control"}

ASSUME ReplicationAssumption ==
  /\ Publishers \cap Importers = {} /\ Syncing \subseteq Sites
  /\ History \in [Sites -> Nat]
  /\ Publishers \cup Importers = Ingesters
  /\ PublishArgs \subseteq [site : Sites, files : Seq(Files), strict : BOOLEAN]
  /\ ExportArgs \subseteq [site : Sites, parts : SUBSET Parts \ {{}}]
  /\ ImportArgs \subseteq [site : Sites, dst : SUBSET {"evidence", "knowledge"}]
  /\ {MaxPublish, MaxBundles, MaxKill} \subseteq Nat /\ MaxGen \in Nat \ {0}

VARIABLES
  know,      \* [Sites -> SUBSET Docs]: the documents of the knowledge graph
  nextGen,   \* [Sites -> Nat]: next_generation of replication.json
  bundles,   \* the bundles written so far
  receipts,  \* [Sites -> a set of bundles]: receipts/<site>/<generation>.json
  archive,   \* [Sites -> what control-history/<site>/<generation>.ndjson holds]
  exp,       \* [Exporters -> the export each is in]
  imp,       \* [Importers -> the import each is in]
  cut,       \* [Sites -> BOOLEAN]: an export died between its ZIP and its state
  used       \* how often publishers ran and processes were killed

repVars == <<know, nextGen, bundles, receipts, archive, exp, imp,
             cut, used>>

vars == <<storeVars, repVars>>

\* at: created_at, different for every bundle.
Bundles ==
  [site : Sites, gen : 1..MaxGen, ev : SUBSET Docs, kn : SUBSET Docs,
   hist : Nat, at : Nat]

Exports ==
  [pc : {"idle", "rows", "objects", "collect", "zip", "save", "missing"},
   site : Sites, parts : SUBSET Parts, gen : 1..MaxGen,
   ev : SUBSET Docs, kn : SUBSET Docs, hist : Nat]

NoExport == [pc |-> "idle", site |-> NoCall.site, parts |-> {}, gen |-> 1,
             ev |-> {}, kn |-> {}, hist |-> 0]

\* dst: the destinations named on the command line.
NoImport == [pc |-> "idle", site |-> NoCall.site, bundle |-> {}, dst |-> {}]

\* bundle: {} or a singleton.
Imports ==
  [pc : {"idle", "evidence", "merging", "knowledge", "archive", "write",
         "receipt"},
   site : Sites, bundle : SUBSET Bundles, dst : SUBSET Parts]

TypeOK ==
  /\ StoreTypeOK
  /\ know \in [Sites -> SUBSET Docs]
  /\ nextGen \in [Sites -> 1..(MaxGen + 1)]
  /\ bundles \subseteq Bundles
  /\ receipts \in [Sites -> SUBSET Bundles]
  /\ archive \in [Sites -> SUBSET [site : Sites, gen : 1..MaxGen, hist : Nat]]
  /\ exp \in [Exporters -> Exports] /\ imp \in [Importers -> Imports]
  /\ cut \in [Sites -> BOOLEAN]
  /\ used \in [publish : 0..MaxPublish, kill : 0..MaxKill]

Init ==
  /\ StoreInit
  /\ know = [s \in Sites |-> {}]
  /\ nextGen = [s \in Sites |-> 1] /\ bundles = {}
  /\ receipts = [s \in Sites |-> {}] /\ archive = [s \in Sites |-> {}]
  /\ exp = [x \in Exporters |-> NoExport] /\ imp = [m \in Importers |-> NoImport]
  /\ cut = [s \in Sites |-> FALSE]
  /\ used = [publish |-> 0, kill |-> 0]

------------------------------------------------------------------------------
(* The sites' own work.                                                    *)

Publish(p, a) ==
  /\ used.publish < MaxPublish
  /\ used' = [used EXCEPT !.publish = @ + 1]
  /\ IngestCall(p, a.site, a.files, a.strict)
  /\ UNCHANGED <<know, nextGen, bundles, receipts, archive, exp, imp, cut>>

Published(p) == IngestReturn(p) /\ UNCHANGED repVars

PublisherKilled(p) ==
  /\ used.kill < MaxKill /\ used' = [used EXCEPT !.kill = @ + 1]
  /\ IngestKilled(p)
  /\ UNCHANGED <<know, nextGen, bundles, receipts, archive, exp, imp, cut>>

\* ppc-lab-knowledge sync-evidence: the indexed documents whose objects can be
\* read, in one transaction.
SyncEvidence(s) ==
  /\ know' = [know EXCEPT ![s] = @ \cup (rows[s] \cap objects[s])]
  /\ UNCHANGED <<storeVars, nextGen, bundles, receipts, archive, exp,
                 imp, cut, used>>

------------------------------------------------------------------------------
(* build_bundle.                                                           *)

ExGoto(x, l) == exp' = [exp EXCEPT ![x].pc = l]
ExOnly == UNCHANGED <<storeVars, know, receipts, archive, imp>>

\* Read the state and begin with the components the command line names.
ExStart(x, a) ==
  /\ exp[x].pc = "idle"
  /\ nextGen[a.site] <= MaxGen /\ Cardinality(bundles) < MaxBundles
  /\ exp' = [exp EXCEPT ![x] = [NoExport EXCEPT
       !.pc = "rows", !.site = a.site, !.parts = a.parts,
       !.gen = nextGen[a.site]]]
  /\ ExOnly /\ UNCHANGED <<nextGen, bundles, cut, used>>

\* collect_evidence: first the digests of the index ...
ExRows(x) ==
  /\ exp[x].pc = "rows"
  /\ exp' = [exp EXCEPT ![x].pc = "objects", ![x].ev =
       IF "evidence" \in exp[x].parts THEN rows[exp[x].site] ELSE {}]
  /\ ExOnly /\ UNCHANGED <<nextGen, bundles, cut, used>>

\* ... then their objects; one that is not there ends the export with an error.
ExObjects(x) ==
  /\ exp[x].pc = "objects"
  /\ ExGoto(x, IF exp[x].ev \subseteq objects[exp[x].site]
                 THEN "collect" ELSE "missing")
  /\ ExOnly /\ UNCHANGED <<nextGen, bundles, cut, used>>

\* collect_knowledge and collect_control_history.
ExCollect(x) ==
  /\ exp[x].pc = "collect"
  /\ exp' = [exp EXCEPT ![x].pc = "zip",
       ![x].kn = IF "knowledge" \in exp[x].parts THEN know[exp[x].site] ELSE {},
       ![x].hist = IF "control" \in exp[x].parts THEN History[exp[x].site] ELSE 0]
  /\ ExOnly /\ UNCHANGED <<nextGen, bundles, cut, used>>

\* Hash the manifest and write the ZIP.
ExZip(x) ==
  /\ exp[x].pc = "zip" /\ ExGoto(x, "save")
  /\ bundles' = bundles \cup
       {[site |-> exp[x].site, gen |-> exp[x].gen, ev |-> exp[x].ev,
         kn |-> exp[x].kn, hist |-> exp[x].hist, at |-> Cardinality(bundles)]}
  /\ ExOnly /\ UNCHANGED <<nextGen, cut, used>>

\* (mutant) The generation is not consumed.
ExSave_same(x) ==
  /\ exp[x].pc = "save" /\ exp' = [exp EXCEPT ![x] = NoExport]
  /\ ExOnly /\ UNCHANGED <<nextGen, bundles, cut, used>>

\* Save next_generation.
ExSave(x) ==
  /\ exp[x].pc = "save" /\ exp' = [exp EXCEPT ![x] = NoExport]
  /\ nextGen' = [nextGen EXCEPT ![exp[x].site] = exp[x].gen + 1]
  /\ ExOnly /\ UNCHANGED <<bundles, cut, used>>

ExKilled(x) ==
  /\ exp[x].pc # "idle" /\ exp' = [exp EXCEPT ![x] = NoExport]
  /\ used.kill < MaxKill /\ used' = [used EXCEPT !.kill = @ + 1]
  /\ cut' = [cut EXCEPT ![exp[x].site] = @ \/ exp[x].pc = "save"]
  /\ ExOnly /\ UNCHANGED <<nextGen, bundles>>

ExStep(x) == ExRows(x) \/ ExObjects(x) \/ ExCollect(x) \/ ExZip(x) \/ ExSave(x)

------------------------------------------------------------------------------
(* import_bundle.                                                          *)

ImGoto(m, l) == imp' = [imp EXCEPT ![m].pc = l]
ImEnd(m) == imp' = [imp EXCEPT ![m] = NoImport]
BundleOf(m) == CHOOSE b \in imp[m].bundle : TRUE
ImOnly == UNCHANGED <<nextGen, bundles, exp, cut>>

\* The receipts a site has of a bundle's source and generation.
ReceiptsOf(s, b) ==
  {r \in receipts[s] : r.site = b.site /\ r.gen = b.gen}

\* (mutant) Only the very same bundle is refused.
ImStart_noconflict(m, a, b) ==
  /\ imp[m].pc = "idle" /\ b \notin receipts[a.site]
  /\ imp' = [imp EXCEPT ![m] =
       [pc |-> "evidence", site |-> a.site, bundle |-> {b}, dst |-> a.dst]]
  /\ ImOnly /\ UNCHANGED <<storeVars, know, receipts, archive, used>>

\* verify_bundle and the look at the receipt: with one, the import ends here,
\* as already imported or as a conflict, and nothing changes.
ImStart(m, a, b) ==
  /\ imp[m].pc = "idle" /\ ReceiptsOf(a.site, b) = {}
  /\ imp' = [imp EXCEPT ![m] =
       [pc |-> "evidence", site |-> a.site, bundle |-> {b}, dst |-> a.dst]]
  /\ ImOnly /\ UNCHANGED <<storeVars, know, receipts, archive, used>>

\* Evidence in the bundle needs a destination and is ingested strictly.
ImEvidence(m) ==
  /\ imp[m].pc = "evidence"
  /\ \/ /\ BundleOf(m).ev = {}
        /\ ImGoto(m, "knowledge") /\ UNCHANGED storeVars
     \/ /\ BundleOf(m).ev # {} /\ "evidence" \notin imp[m].dst
        /\ ImEnd(m) /\ UNCHANGED storeVars
     \/ /\ BundleOf(m).ev # {} /\ "evidence" \in imp[m].dst
        /\ ImGoto(m, "merging")
        /\ IngestCall(m, imp[m].site, SetToSeq(BundleOf(m).ev), TRUE)
  /\ ImOnly /\ UNCHANGED <<know, receipts, archive, used>>

\* (mutant) The result of the ingest is not looked at.
ImMerged_any(m) ==
  /\ imp[m].pc = "merging" /\ IngestReturn(m) /\ ImGoto(m, "knowledge")
  /\ ImOnly /\ UNCHANGED <<know, receipts, archive, used>>

\* An ingest that raised ends the import.
ImMerged(m) ==
  /\ imp[m].pc = "merging" /\ IngestReturn(m)
  /\ IF ing[m].pc = "done" THEN ImGoto(m, "knowledge") ELSE ImEnd(m)
  /\ ImOnly /\ UNCHANGED <<know, receipts, archive, used>>

\* Knowledge needs a destination too, and is asked for after the evidence has
\* been committed.  ingest_paths is one transaction ...
ImKnowledgeDone(m) ==
  /\ imp[m].pc = "knowledge"
  /\ BundleOf(m).kn = {} \/ "knowledge" \in imp[m].dst
  /\ know' = [know EXCEPT ![imp[m].site] = @ \cup BundleOf(m).kn]
  /\ ImGoto(m, "archive")
  /\ ImOnly /\ UNCHANGED <<storeVars, receipts, archive, used>>

\* ... that raises when the database stays locked.
ImKnowledgeFails(m) ==
  /\ imp[m].pc = "knowledge" /\ BundleOf(m).kn # {} /\ ImEnd(m)
  /\ ImOnly /\ UNCHANGED <<storeVars, know, receipts, archive, used>>

Slot(b) == [site |-> b.site, gen |-> b.gen, hist |-> b.hist]

\* archive.write_text truncates the file and then fills it.
ImArchive(m) ==
  /\ imp[m].pc = "archive"
  /\ IF BundleOf(m).hist = 0
       THEN ImGoto(m, "receipt") /\ UNCHANGED archive
       ELSE /\ ImGoto(m, "write")
            /\ archive' = [archive EXCEPT ![imp[m].site] =
                 {a \in @ : a.site # BundleOf(m).site \/ a.gen # BundleOf(m).gen}]
  /\ ImOnly /\ UNCHANGED <<storeVars, know, receipts, used>>

ImWrite(m) ==
  /\ imp[m].pc = "write" /\ ImGoto(m, "receipt")
  /\ archive' = [archive EXCEPT ![imp[m].site] = @ \cup {Slot(BundleOf(m))}]
  /\ ImOnly /\ UNCHANGED <<storeVars, know, receipts, used>>

\* write_json of the receipt replaces whatever has its name.
ImReceipt(m) ==
  /\ imp[m].pc = "receipt" /\ ImEnd(m)
  /\ receipts' = [receipts EXCEPT ![imp[m].site] =
       (@ \ ReceiptsOf(imp[m].site, BundleOf(m))) \cup imp[m].bundle]
  /\ ImOnly /\ UNCHANGED <<storeVars, know, archive, used>>

ImKilled(m) ==
  /\ imp[m].pc # "idle" /\ ImEnd(m)
  /\ used.kill < MaxKill /\ used' = [used EXCEPT !.kill = @ + 1]
  /\ IF ing[m].pc = "idle" THEN UNCHANGED storeVars ELSE IngestKilled(m)
  /\ ImOnly /\ UNCHANGED <<know, receipts, archive>>

ImStep(m) == ImEvidence(m) \/ ImMerged(m) \/ ImKnowledgeDone(m)
             \/ ImKnowledgeFails(m) \/ ImArchive(m) \/ ImWrite(m) \/ ImReceipt(m)

------------------------------------------------------------------------------
Next ==
  \/ \E p \in Publishers, a \in PublishArgs : Publish(p, a)
  \/ \E p \in Publishers : Published(p) \/ PublisherKilled(p)
  \/ \E p \in Ingesters : IngestStep(p) /\ UNCHANGED repVars
  \/ \E s \in Syncing : SyncEvidence(s)
  \/ \E x \in Exporters, a \in ExportArgs : ExStart(x, a)
  \/ \E x \in Exporters : ExStep(x) \/ ExKilled(x)
  \/ \E m \in Importers, a \in ImportArgs, b \in bundles : ImStart(m, a, b)
  \/ \E m \in Importers : ImStep(m) \/ ImKilled(m)

Spec == Init /\ [][Next]_vars

BundlesOf(t, g) == {b \in bundles : b.site = t /\ b.gen = g}

\* Processes that run are scheduled.  An operator who has a bundle keeps trying
\* to import it, with both destinations, as long as there is no receipt: strong
\* fairness, for the importer is often busy with another bundle.  The knowledge
\* database is not locked every time.
FairSpec ==
  /\ Spec
  /\ \A p \in Ingesters : WF_vars(IngestStep(p) /\ UNCHANGED repVars)
  /\ \A p \in Publishers : WF_vars(Published(p))
  /\ \A m \in Importers : WF_vars(ImStep(m))
  /\ \A m \in Importers : SF_vars(ImKnowledgeDone(m))
  /\ \A s \in {a.site : a \in ImportArgs}, t \in {a.site : a \in ExportArgs},
        g \in 1..MaxGen : SF_vars(
       \E m \in Importers, b \in BundlesOf(t, g) :
         ImStart(m, [site |-> s, dst |-> {"evidence", "knowledge"}], b))

------------------------------------------------------------------------------
\* A receipt is a promise: all the evidence, the knowledge and the history of
\* its bundle are at the site, although the import merged them in separate
\* transactions, may have been killed between any two, failed on a missing
\* destination or lost a race with a local publisher, and was repeated.
ReceiptMeansMerged ==
  \A s \in Sites : \A r \in receipts[s] :
    /\ r.ev \subseteq rows[s] /\ r.kn \subseteq know[s]
    /\ r.hist > 0 => Slot(r) \in archive[s]

\* Two bundles claim the same site and generation only if an export was killed
\* after it wrote its ZIP and before it saved the generation.
GenerationConsumed ==
  \A b, c \in bundles :
    b.site = c.site /\ b.gen = c.gen /\ b # c => cut[b.site]

\* No index entry is ever seen without its object: export never gives up with
\* "evidence object missing", however ingests overlap with it.
ExportFindsObjects == \A x \in Exporters : exp[x].pc # "missing"

\* A receipt is immutable: once written it is neither replaced by that of
\* another bundle of the same generation nor removed.
ReceiptsImmutable == [][\A s \in Sites : receipts[s] \subseteq receipts'[s]]_vars

\* Every generation that was exported is merged at the importing sites in the
\* end, through failed and killed imports.
GenerationsArrive ==
  \A s \in {a.site : a \in ImportArgs}, t \in {a.site : a \in ExportArgs},
     g \in 1..MaxGen :
    (BundlesOf(t, g) # {})
      ~> (\E r \in receipts[s] : r.site = t /\ r.gen = g)
==============================================================================

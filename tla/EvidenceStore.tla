---------------------------- MODULE EvidenceStore ----------------------------
(***************************************************************************)
(* The evidence store of ppc-lab-evidence: an SQLite index (evidence.      *)
(* sqlite3, table artifacts) beside a directory of content-addressed       *)
(* objects.  ingest walks a batch of files in one connection.  Python's    *)
(* sqlite3 begins a transaction at the first write, so the SELECT that     *)
(* looks for a first document is not covered by it, and the objects, plain *)
(* files, are not covered at all.  Several ingests may run on one store    *)
(* and each may be killed at any step.                                     *)
(*                                                                         *)
(* A document stands for its canonical JSON and so for its sha256.  The    *)
(* sources and inputs rows travel with the artifact row and are left out.  *)
(***************************************************************************)
EXTENDS Naturals, Sequences, SequencesExt

CONSTANTS
  Sites,        \* the evidence stores
  Docs,         \* evidence documents
  Foreign,      \* a file that is not a PPC Lab evidence document
  Ingesters,    \* processes that run ingest
  Nobody

ASSUME EvidenceAssumption ==
  /\ IsFiniteSet(Docs) /\ Sites # {}
  /\ Foreign \notin Docs /\ Nobody \notin Ingesters

VARIABLES
  rows,      \* [Sites -> SUBSET Docs]: the committed artifacts
  objects,   \* [Sites -> SUBSET Docs]: the object files
  writer,    \* [Sites -> process]: who holds SQLite's write lock
  ing        \* [Ingesters -> the call of ingest each is in]

storeVars == <<rows, objects, writer, ing>>

Files == Docs \cup {Foreign}
IngestPcs == {"idle", "init", "next", "insert", "object", "source",
              "done", "failed"}

\* added: the rows inserted and not yet committed.
Calls ==
  [pc : IngestPcs, site : Sites, batch : Seq(Files), todo : Seq(Files),
   strict : BOOLEAN, added : SUBSET Docs]

NoCall == [pc |-> "idle", site |-> CHOOSE s \in Sites : TRUE, batch |-> <<>>,
           todo |-> <<>>, strict |-> FALSE, added |-> {}]

StoreTypeOK ==
  /\ rows \in [Sites -> SUBSET Docs] /\ objects \in [Sites -> SUBSET Docs]
  /\ writer \in [Sites -> Ingesters \cup {Nobody}]
  /\ ing \in [Ingesters -> Calls]

StoreInit ==
  /\ rows = [s \in Sites |-> {}] /\ objects = [s \in Sites |-> {}]
  /\ writer = [s \in Sites |-> Nobody]
  /\ ing = [p \in Ingesters |-> NoCall]

------------------------------------------------------------------------------
\* The write lock can be had by p: it is free or p's own transaction has it.
MayWrite(p) == writer[ing[p].site] \in {p, Nobody}

Head1(p) == Head(ing[p].todo)

IngestGoto(p, l) == ing' = [ing EXCEPT ![p].pc = l]

\* The connection is closed without a commit: SQLite rolls back.
Unlock(p) ==
  writer' = [s \in Sites |-> IF writer[s] = p THEN Nobody ELSE writer[s]]

\* A call of ingest(store, paths, strict).
IngestCall(p, s, files, strict) ==
  /\ ing[p].pc = "idle"
  /\ ing' = [ing EXCEPT ![p] =
       [NoCall EXCEPT !.pc = "init", !.site = s, !.batch = files,
                      !.todo = files, !.strict = strict]]
  /\ UNCHANGED <<rows, objects, writer>>

\* init_store: create the tables and commit, which needs the lock for a moment.
IngestInit(p) ==
  /\ ing[p].pc = "init" /\ MayWrite(p)
  /\ IngestGoto(p, "next")
  /\ UNCHANGED <<rows, objects, writer>>

\* A file that does not parse, or has no ppc-lab- schema, ends a strict ingest
\* and is passed over by the others.
IngestForeign(p) ==
  /\ ing[p].pc = "next" /\ ing[p].todo # <<>> /\ Head1(p) = Foreign
  /\ IF ing[p].strict
       THEN IngestGoto(p, "failed") /\ Unlock(p)
       ELSE /\ ing' = [ing EXCEPT ![p].todo = Tail(@)]
            /\ UNCHANGED writer
  /\ UNCHANGED <<rows, objects>>

\* (mutant) Every document is inserted, indexed or not.
IngestSelect_none(p) ==
  /\ ing[p].pc = "next" /\ ing[p].todo # <<>> /\ Head1(p) # Foreign
  /\ IngestGoto(p, "insert")
  /\ UNCHANGED <<rows, objects, writer>>

\* SELECT id FROM artifacts WHERE sha256: sees the committed rows and its own.
IngestSelect(p) ==
  /\ ing[p].pc = "next" /\ ing[p].todo # <<>> /\ Head1(p) # Foreign
  /\ IngestGoto(p, IF Head1(p) \in rows[ing[p].site] \cup ing[p].added
                     THEN "source" ELSE "insert")
  /\ UNCHANGED <<rows, objects, writer>>

\* (mutant) The row is committed at once.
IngestInsert_autocommit(p) ==
  /\ ing[p].pc = "insert" /\ MayWrite(p) /\ IngestGoto(p, "object")
  /\ rows' = [rows EXCEPT ![ing[p].site] = @ \cup {Head1(p)}]
  /\ UNCHANGED <<objects, writer>>

\* INSERT INTO artifacts begins the transaction.  sha256 is UNIQUE: a row that
\* was committed since the SELECT is an IntegrityError, and the batch is lost.
IngestInsert(p) ==
  /\ ing[p].pc = "insert" /\ MayWrite(p)
  /\ IF Head1(p) \in rows[ing[p].site]
       THEN IngestGoto(p, "failed") /\ Unlock(p)
       ELSE /\ ing' = [ing EXCEPT ![p].pc = "object",
                                  ![p].added = @ \cup {Head1(p)}]
            /\ writer' = [writer EXCEPT ![ing[p].site] = p]
  /\ UNCHANGED <<rows, objects>>

\* (mutant) The object is only written when no row announced it.
IngestObject_late(p) ==
  /\ ing[p].pc = "object" /\ IngestGoto(p, "source")
  /\ objects' = [objects EXCEPT ![ing[p].site] =
                   @ \cup (ing[p].added \ {Head1(p)})]
  /\ UNCHANGED <<rows, writer>>

\* _atomic_bytes: a temporary file renamed over the object's path.
IngestObject(p) ==
  /\ ing[p].pc = "object" /\ IngestGoto(p, "source")
  /\ objects' = [objects EXCEPT ![ing[p].site] = @ \cup {Head1(p)}]
  /\ UNCHANGED <<rows, writer>>

\* INSERT OR IGNORE INTO sources: the first write of a batch whose first
\* document was indexed already.
IngestSource(p) ==
  /\ ing[p].pc = "source" /\ MayWrite(p)
  /\ ing' = [ing EXCEPT ![p].pc = "next", ![p].todo = Tail(@)]
  /\ writer' = [writer EXCEPT ![ing[p].site] = p]
  /\ UNCHANGED <<rows, objects>>

\* conn.commit() after the last file.
IngestCommit(p) ==
  /\ ing[p].pc = "next" /\ ing[p].todo = <<>>
  /\ rows' = [rows EXCEPT ![ing[p].site] = @ \cup ing[p].added]
  /\ IngestGoto(p, "done") /\ Unlock(p)
  /\ UNCHANGED objects

\* "database is locked": a write waits five seconds for another's transaction.
IngestTimeout(p) ==
  /\ ing[p].pc \in {"init", "insert", "source"} /\ ~MayWrite(p)
  /\ IngestGoto(p, "failed")
  /\ UNCHANGED <<rows, objects, writer>>

\* The caller takes the result.
IngestReturn(p) ==
  /\ ing[p].pc \in {"done", "failed"}
  /\ ing' = [ing EXCEPT ![p] = NoCall]
  /\ UNCHANGED <<rows, objects, writer>>

IngestStep(p) ==
  \/ IngestInit(p) \/ IngestForeign(p) \/ IngestSelect(p) \/ IngestInsert(p)
  \/ IngestObject(p) \/ IngestSource(p) \/ IngestCommit(p) \/ IngestTimeout(p)

\* The process is killed: the transaction is gone, the objects stay.
IngestKilled(p) ==
  /\ ing[p].pc # "idle"
  /\ ing' = [ing EXCEPT ![p] = NoCall] /\ Unlock(p)
  /\ UNCHANGED <<rows, objects>>

------------------------------------------------------------------------------
\* Every artifact in the index has its object file, whatever ingests overlap
\* and wherever they are killed: the condition verify and export insist on.
IndexedHasObject == \A s \in Sites : rows[s] \subseteq objects[s]

\* An ingest that reports success has every PPC Lab document of its batch in
\* the index, those included that other ingests added at the same time.
SuccessMeansIndexed ==
  \A p \in Ingesters : ing[p].pc = "done" =>
    ToSet(ing[p].batch) \cap Docs \subseteq rows[ing[p].site]

\* The store is sound for a reader and for a writer: what the index names can be
\* opened, and what ingest reported as stored is in the index.
StoreSound == IndexedHasObject /\ SuccessMeansIndexed
==============================================================================

-------------------------- MODULE ReplicationProofs --------------------------
(***************************************************************************)
(* ingest keeps index and objects consistent, whatever ingests overlap and *)
(* wherever they are killed: StoreInv is preserved by every step an ingest *)
(* can take, and replication builds on that.  RepInv is inductive when no  *)
(* two imports run at once, and with it a receipt means that its bundle    *)
(* has been merged; GenInv is inductive when no two exports do.            *)
(***************************************************************************)
EXTENDS Replication, TLAPS, FiniteSetTheorems, SequenceTheorems

-----------------------------------------------------------------------------
(* ingest *)

\* What makes StoreSound inductive, for every call.  The object of a row that is
\* not committed yet is there, but for the one about to be written ...
ObjectsFirst(p) ==
  ing[p].added \ (IF ing[p].pc = "object" THEN {Head1(p)} ELSE {})
    \subseteq objects[ing[p].site]

\* ... the document at hand is a document ...
AtDocument(p) ==
  ing[p].pc \in {"insert", "object", "source"} =>
    ing[p].todo # <<>> /\ Head1(p) \in Docs

\* ... and what was passed is in the index or in the transaction.
Passed(p) ==
  /\ ing[p].pc \notin {"idle", "failed"} =>
       ToSet(ing[p].batch) \cap Docs
         \subseteq rows[ing[p].site] \cup ing[p].added \cup ToSet(ing[p].todo)
  /\ ing[p].pc \in {"object", "source"} =>
       Head1(p) \in rows[ing[p].site] \cup ing[p].added
  /\ ing[p].pc = "done" =>
       ing[p].todo = <<>> /\ ing[p].added \subseteq rows[ing[p].site]

CallInv(p) == ObjectsFirst(p) /\ AtDocument(p) /\ Passed(p)

StoreInv ==
  StoreTypeOK /\ IndexedHasObject /\ \A p \in Ingesters : CallInv(p)


\* SetToSeq lists a finite set: the order in which import passes the files of a
\* bundle to ingest, each once.
LEMMA SetToSeqLists ==
  ASSUME NEW S, IsFiniteSet(S)
  PROVE  SetToSeq(S) \in Seq(S) /\ ToSet(SetToSeq(S)) = S
<1> DEFINE n == Cardinality(S)
<1>1. n \in Nat /\ ExistsBijection(1..n, S)
  BY FS_CardinalityType
<1>2. PICK g : g \in Bijection(1..n, S)
  BY <1>1 DEF ExistsBijection
<1>3. g \in [1..n -> S] /\ IsInjective(g)
  BY <1>2 DEF Bijection, Injection
<1>4. SetToSeq(S) \in [1..n -> S] /\ IsInjective(SetToSeq(S))
  BY <1>3 DEF SetToSeq
<1>5. SetToSeq(S) \in Seq(S)
  BY <1>1, <1>4
<1>6. SetToSeq(S) \in Injection(1..n, S)
  BY <1>4 DEF Injection
<1>7. Cardinality(1..n) = n
  BY <1>1, FS_Interval
<1>8. SetToSeq(S) \in Surjection(1..n, S)
  BY <1>6, <1>7, FS_Injection
<1>9. ToSet(SetToSeq(S)) = S
  BY <1>4, <1>8 DEF Surjection, ToSet
<1> QED BY <1>5, <1>9

\* A step to the next file forgets the first element only.
LEMMA TailForgetsHead ==
  ASSUME NEW T, NEW s \in Seq(T), s # <<>>
  PROVE  /\ Head(s) \in T /\ Tail(s) \in Seq(T)
         /\ ToSet(s) \subseteq {Head(s)} \cup ToSet(Tail(s))
<1>1. Head(s) \in T /\ Tail(s) \in Seq(T)
  OBVIOUS
<1>2. ASSUME NEW i \in DOMAIN s, i # 1 PROVE s[i] \in ToSet(Tail(s))
  <2>1. i \in 2..Len(s)
    BY <1>2
  <2>2. Len(Tail(s)) = Len(s) - 1 /\ i - 1 \in 1..Len(Tail(s))
    BY <2>1
  <2>3. Tail(s)[i - 1] = s[i]
    BY <2>1, <2>2
  <2> QED BY <1>1, <2>2, <2>3 DEF ToSet
<1>3. s[1] = Head(s)
  OBVIOUS
<1> QED BY <1>1, <1>2, <1>3 DEF ToSet

\* A process that is in no call of ingest is well typed.
LEMMA NoCallType == NoCall \in Calls
BY EvidenceAssumption DEF NoCall, Calls, IngestPcs, Files

\* An empty store satisfies the invariant.
LEMMA StoreInvInit == StoreInit => StoreInv
<1> SUFFICES ASSUME StoreInit PROVE StoreInv
  OBVIOUS
<1>1. StoreTypeOK
  BY NoCallType DEF StoreInit, StoreTypeOK
<1>2. \A p \in Ingesters : ing[p].pc = "idle" /\ ing[p].added = {}
  BY DEF StoreInit, NoCall
<1>3. IndexedHasObject
  BY DEF StoreInit, IndexedHasObject
<1>4. \A p \in Ingesters : CallInv(p)
  BY <1>2 DEF CallInv, ObjectsFirst, AtDocument, Passed
<1> QED BY <1>1, <1>3, <1>4 DEF StoreInv

\* A jump keeps the type of a call.
LEMMA GotoTyped ==
  ASSUME StoreTypeOK, NEW p \in Ingesters, NEW l \in IngestPcs, IngestGoto(p, l)
  PROVE  ing' \in [Ingesters -> Calls]
<1>1. ing[p] \in Calls
  BY DEF StoreTypeOK
<1>2. [ing[p] EXCEPT !.pc = l] \in Calls
  BY <1>1 DEF Calls
<1> QED BY <1>2 DEF IngestGoto, StoreTypeOK

\* Types survive every step of an ingest.
LEMMA StoreTypes ==
  ASSUME StoreInv, NEW p \in Ingesters,
         IngestStep(p) \/ IngestReturn(p) \/ IngestKilled(p)
  PROVE  StoreTypeOK'
<1> USE DEF StoreTypeOK
<1>1. StoreTypeOK /\ ing[p] \in Calls /\ ing[p].site \in Sites
  BY DEF StoreInv, Calls
<1>2. \A s \in Sites : (IF writer[s] = p THEN Nobody ELSE writer[s])
                         \in Ingesters \cup {Nobody}
  BY <1>1
<1>3. CASE IngestInit(p) \/ IngestSelect(p) \/ IngestTimeout(p)
  <2>1. PICK l \in IngestPcs : IngestGoto(p, l)
    BY <1>3 DEF IngestInit, IngestSelect, IngestTimeout, IngestPcs
  <2> QED
    BY <1>1, <1>3, <2>1, GotoTyped DEF IngestInit, IngestSelect, IngestTimeout
<1>4. CASE IngestForeign(p)
  <2>1. CASE ing[p].strict
    <3>1. ing' \in [Ingesters -> Calls]
      BY <1>1, <1>4, <2>1, GotoTyped DEF IngestForeign, IngestPcs
    <3> QED BY <1>1, <1>2, <1>4, <2>1, <3>1 DEF IngestForeign, Unlock
  <2>2. CASE ~ing[p].strict
    <3>1. Tail(ing[p].todo) \in Seq(Files)
      BY <1>1, <1>4, TailForgetsHead DEF IngestForeign, Calls
    <3>2. [ing[p] EXCEPT !.todo = Tail(@)] \in Calls
      BY <1>1, <3>1 DEF Calls
    <3> QED BY <1>1, <1>4, <2>2, <3>2 DEF IngestForeign
  <2> QED BY <2>1, <2>2
<1>5. CASE IngestInsert(p)
  <2>1. Head1(p) \in Docs
    BY <1>5 DEF StoreInv, CallInv, AtDocument, IngestInsert
  <2>2. CASE Head1(p) \in rows[ing[p].site]
    <3>1. ing' \in [Ingesters -> Calls]
      BY <1>1, <1>5, <2>2, GotoTyped DEF IngestInsert, IngestPcs
    <3> QED BY <1>1, <1>2, <1>5, <2>2, <3>1 DEF IngestInsert, Unlock
  <2>3. CASE Head1(p) \notin rows[ing[p].site]
    <3>1. [ing[p] EXCEPT !.pc = "object", !.added = @ \cup {Head1(p)}] \in Calls
      BY <1>1, <2>1 DEF Calls, IngestPcs
    <3>2. ing' = [ing EXCEPT ![p] =
                   [ing[p] EXCEPT !.pc = "object", !.added = @ \cup {Head1(p)}]]
      BY <1>1, <1>5, <2>3 DEF IngestInsert
    <3>3. ing' \in [Ingesters -> Calls]
      BY <1>1, <3>1, <3>2
    <3> QED BY <1>1, <1>5, <2>3, <3>3 DEF IngestInsert
  <2> QED BY <2>2, <2>3
<1>6. CASE IngestObject(p)
  <2>1. Head1(p) \in Docs
    BY <1>6 DEF StoreInv, CallInv, AtDocument, IngestObject
  <2> QED
    BY <1>1, <1>6, <2>1 DEF IngestObject, IngestGoto, Calls, IngestPcs
<1>7. CASE IngestSource(p)
  <2>1. ing[p].todo # <<>>
    BY <1>7 DEF StoreInv, CallInv, AtDocument, IngestSource
  <2> QED
    BY <1>1, <1>7, <2>1, TailForgetsHead DEF IngestSource, Calls, IngestPcs, Files
<1>8. CASE IngestCommit(p)
  BY <1>1, <1>2, <1>8 DEF IngestCommit, IngestGoto, Unlock, Calls, IngestPcs
<1>9. CASE IngestReturn(p)
  BY <1>1, <1>9, NoCallType DEF IngestReturn
<1>10. CASE IngestKilled(p)
  BY <1>1, <1>2, <1>10, NoCallType DEF IngestKilled, Unlock
<1> QED
  BY <1>3, <1>4, <1>5, <1>6, <1>7, <1>8, <1>9, <1>10 DEF IngestStep

\* What a step of p does to the store: it is p's own call that changes, objects
\* and rows only grow, and rows grow by what p had in its transaction.
LEMMA StoreGrows ==
  ASSUME StoreInv, NEW p \in Ingesters,
         IngestStep(p) \/ IngestReturn(p) \/ IngestKilled(p)
  PROVE  /\ \A q \in Ingesters \ {p} : ing'[q] = ing[q]
         /\ \A s \in Sites : /\ rows[s] \subseteq rows'[s]
                             /\ objects[s] \subseteq objects'[s]
<1>1. StoreTypeOK /\ ing[p].site \in Sites
  BY DEF StoreInv, StoreTypeOK, Calls
<1> USE <1>1 DEF StoreTypeOK
<1>2. CASE IngestInit(p) \/ IngestSelect(p) \/ IngestTimeout(p)
  BY <1>2 DEF IngestInit, IngestSelect, IngestTimeout, IngestGoto
<1>3. CASE IngestForeign(p) \/ IngestInsert(p) \/ IngestSource(p)
  BY <1>3 DEF IngestForeign, IngestInsert, IngestSource, IngestGoto
<1>4. CASE IngestObject(p)
  BY <1>4 DEF IngestObject, IngestGoto
<1>5. CASE IngestCommit(p)
  BY <1>5 DEF IngestCommit, IngestGoto
<1>6. CASE IngestReturn(p) \/ IngestKilled(p)
  BY <1>6 DEF IngestReturn, IngestKilled
<1> QED
  BY <1>2, <1>3, <1>4, <1>5, <1>6 DEF IngestStep

\* A step of p leaves what is known of every other call true.
LEMMA OthersKept ==
  ASSUME StoreInv, NEW p \in Ingesters,
         IngestStep(p) \/ IngestReturn(p) \/ IngestKilled(p),
         NEW q \in Ingesters \ {p}
  PROVE  CallInv(q)'
<1>1. ing[q].site \in Sites /\ ing'[q] = ing[q]
  BY StoreGrows DEF StoreInv, StoreTypeOK, Calls
<1>2. /\ rows[ing[q].site] \subseteq rows'[ing[q].site]
      /\ objects[ing[q].site] \subseteq objects'[ing[q].site]
  BY <1>1, StoreGrows
<1>3. CallInv(q)
  BY DEF StoreInv
<1> QED BY <1>1, <1>2, <1>3 DEF CallInv, ObjectsFirst, AtDocument, Passed, Head1

\* A step of p keeps what is known of p's own call.
LEMMA OwnKept ==
  ASSUME StoreInv, NEW p \in Ingesters,
         IngestStep(p) \/ IngestReturn(p) \/ IngestKilled(p)
  PROVE  CallInv(p)'
<1> DEFINE c == ing[p]  d == ing'[p]  s == c.site
<1>1. /\ StoreTypeOK /\ c \in Calls /\ s \in Sites /\ CallInv(p)
      /\ c.todo \in Seq(Files) /\ c.added \in SUBSET Docs
  BY DEF StoreInv, StoreTypeOK, Calls
<1>2. CASE IngestInit(p) \/ IngestTimeout(p)
  <2>1. /\ c.pc \in {"init", "insert", "source"}
        /\ d = [c EXCEPT !.pc = "next"] \/ d = [c EXCEPT !.pc = "failed"]
        /\ rows' = rows /\ objects' = objects
    BY <1>1, <1>2
       DEF IngestInit, IngestTimeout, IngestGoto, StoreTypeOK
  <2>2. /\ d.pc \in {"next", "failed"} /\ d.added = c.added /\ d.site = c.site
        /\ d.todo = c.todo /\ d.batch = c.batch
    BY <1>1, <2>1 DEF Calls
  <2> QED
    BY <1>1, <2>1, <2>2 DEF CallInv, ObjectsFirst, AtDocument, Passed, Head1
<1>3. CASE IngestForeign(p)
  <2>1. /\ c.pc = "next" /\ c.todo # <<>> /\ Head(c.todo) \notin Docs
        /\ d = IF c.strict THEN [c EXCEPT !.pc = "failed"]
               ELSE [c EXCEPT !.todo = Tail(@)]
        /\ rows' = rows /\ objects' = objects
    BY <1>1, <1>3, EvidenceAssumption
       DEF IngestForeign, IngestGoto, StoreTypeOK, Head1
  <2>2. /\ d.pc \in {"next", "failed"} /\ d.added = c.added /\ d.site = c.site
        /\ d.pc = "next" => d.todo = Tail(c.todo) /\ d.batch = c.batch
    BY <1>1, <2>1 DEF Calls
  <2>3. ToSet(c.todo) \cap Docs \subseteq ToSet(Tail(c.todo))
    BY <1>1, <2>1, TailForgetsHead
  <2> QED
    BY <1>1, <2>1, <2>2, <2>3
       DEF CallInv, ObjectsFirst, AtDocument, Passed, Head1
<1>4. CASE IngestSelect(p)
  <2>1. /\ c.pc = "next" /\ c.todo # <<>> /\ Head(c.todo) # Foreign
        /\ d = [c EXCEPT !.pc = IF Head(c.todo) \in rows[s] \cup c.added
                                 THEN "source" ELSE "insert"]
        /\ rows' = rows /\ objects' = objects
    BY <1>1, <1>4 DEF IngestSelect, IngestGoto, StoreTypeOK, Head1
  <2>2. /\ d.pc = IF Head(c.todo) \in rows[s] \cup c.added
                    THEN "source" ELSE "insert"
        /\ d.added = c.added /\ d.site = c.site
        /\ d.todo = c.todo /\ d.batch = c.batch
    BY <1>1, <2>1 DEF Calls
  <2>3. Head(c.todo) \in Docs
    BY <1>1, <2>1, TailForgetsHead DEF Files
  <2> QED
    BY <1>1, <2>1, <2>2, <2>3
       DEF CallInv, ObjectsFirst, AtDocument, Passed, Head1
<1>5. CASE IngestInsert(p)
  <2>1. /\ c.pc = "insert" /\ c.todo # <<>> /\ Head(c.todo) \in Docs
        /\ d = IF Head(c.todo) \in rows[s] THEN [c EXCEPT !.pc = "failed"]
               ELSE [c EXCEPT !.pc = "object", !.added = @ \cup {Head(c.todo)}]
        /\ rows' = rows /\ objects' = objects
    BY <1>1, <1>5
       DEF IngestInsert, IngestGoto, StoreTypeOK, Head1, CallInv, AtDocument
  <2>2. /\ d.site = c.site /\ d.todo = c.todo /\ d.batch = c.batch
        /\ \/ d.pc = "failed" /\ d.added = c.added
           \/ d.pc = "object" /\ d.added = c.added \cup {Head(c.todo)}
    BY <1>1, <2>1 DEF Calls
  <2> QED
    BY <1>1, <2>1, <2>2 DEF CallInv, ObjectsFirst, AtDocument, Passed, Head1
<1>6. CASE IngestObject(p)
  <2>1. /\ c.pc = "object" /\ d = [c EXCEPT !.pc = "source"]
        /\ rows' = rows /\ objects'[s] = objects[s] \cup {Head(c.todo)}
    BY <1>1, <1>6 DEF IngestObject, IngestGoto, StoreTypeOK, Head1
  <2>2. /\ d.pc = "source" /\ d.added = c.added /\ d.site = c.site
        /\ d.todo = c.todo /\ d.batch = c.batch
    BY <1>1, <2>1 DEF Calls
  <2> QED
    BY <1>1, <2>1, <2>2 DEF CallInv, ObjectsFirst, AtDocument, Passed, Head1
<1>7. CASE IngestSource(p)
  <2>1. /\ c.pc = "source" /\ c.todo # <<>> /\ Head(c.todo) \in rows[s] \cup c.added
        /\ d = [c EXCEPT !.pc = "next", !.todo = Tail(@)]
        /\ rows' = rows /\ objects' = objects
    BY <1>1, <1>7
       DEF IngestSource, StoreTypeOK, Head1, CallInv, AtDocument, Passed
  <2>2. /\ d.pc = "next" /\ d.added = c.added /\ d.site = c.site
        /\ d.todo = Tail(c.todo) /\ d.batch = c.batch
    BY <1>1, <2>1 DEF Calls
  <2>3. ToSet(c.todo) \subseteq {Head(c.todo)} \cup ToSet(Tail(c.todo))
    BY <1>1, <2>1, TailForgetsHead
  <2> QED
    BY <1>1, <2>1, <2>2, <2>3
       DEF CallInv, ObjectsFirst, AtDocument, Passed, Head1
<1>8. CASE IngestCommit(p)
  <2>1. /\ c.pc = "next" /\ c.todo = <<>> /\ d = [c EXCEPT !.pc = "done"]
        /\ rows'[s] = rows[s] \cup c.added /\ objects' = objects
    BY <1>1, <1>8 DEF IngestCommit, IngestGoto, StoreTypeOK
  <2>2. /\ d.pc = "done" /\ d.added = c.added /\ d.site = c.site
        /\ d.todo = <<>> /\ d.batch = c.batch
    BY <1>1, <2>1 DEF Calls
  <2> QED
    BY <1>1, <2>1, <2>2 DEF CallInv, ObjectsFirst, AtDocument, Passed, Head1
<1>9. CASE IngestReturn(p) \/ IngestKilled(p)
  <2>1. d.pc = "idle" /\ d.added = {}
    BY <1>1, <1>9 DEF IngestReturn, IngestKilled, StoreTypeOK, NoCall
  <2> QED
    BY <2>1 DEF CallInv, ObjectsFirst, AtDocument, Passed
<1> QED
  BY <1>2, <1>3, <1>4, <1>5, <1>6, <1>7, <1>8, <1>9 DEF IngestStep

\* Rows enter the index by a commit only, and by then their objects are there.
LEMMA IndexKept ==
  ASSUME StoreInv, NEW p \in Ingesters,
         IngestStep(p) \/ IngestReturn(p) \/ IngestKilled(p)
  PROVE  IndexedHasObject'
<1>1. StoreTypeOK /\ IndexedHasObject /\ ing[p].site \in Sites /\ CallInv(p)
  BY DEF StoreInv, StoreTypeOK, Calls
<1>2. CASE IngestCommit(p)
  <2>1. ing[p].added \subseteq objects[ing[p].site]
    BY <1>1, <1>2 DEF IngestCommit, CallInv, ObjectsFirst
  <2> QED
    BY <1>1, <1>2, <2>1 DEF IngestCommit, IndexedHasObject, StoreTypeOK
<1>3. CASE ~IngestCommit(p)
  <2>1. rows' = rows
    BY <1>3 DEF IngestStep, IngestInit, IngestForeign, IngestSelect, IngestInsert,
                IngestObject, IngestSource, IngestTimeout, IngestReturn, IngestKilled
  <2> QED
    BY <1>1, <2>1, StoreGrows DEF IndexedHasObject
<1> QED BY <1>2, <1>3

\* Every step of an ingest preserves the store's invariant.
THEOREM IngestKeepsStoreInv ==
  ASSUME StoreInv, NEW p \in Ingesters,
         IngestStep(p) \/ IngestReturn(p) \/ IngestKilled(p)
  PROVE  StoreInv'
<1>1. \A q \in Ingesters : CallInv(q)'
  BY OthersKept, OwnKept
<1> QED BY <1>1, StoreTypes, IndexKept DEF StoreInv

\* So does a new call.
THEOREM CallKeepsStoreInv ==
  ASSUME StoreInv, NEW p \in Ingesters, NEW s \in Sites,
         NEW files \in Seq(Files), NEW strict \in BOOLEAN,
         IngestCall(p, s, files, strict)
  PROVE  StoreInv'
<1> DEFINE d == [NoCall EXCEPT !.pc = "init", !.site = s, !.batch = files,
                              !.todo = files, !.strict = strict]
<1>1. /\ d \in Calls /\ d.pc = "init" /\ d.added = {}
      /\ d.batch = files /\ d.todo = files
  BY NoCallType DEF Calls, IngestPcs, NoCall
<1>2. /\ ing' = [ing EXCEPT ![p] = d] /\ UNCHANGED <<rows, objects, writer>>
      /\ StoreTypeOK
  BY DEF IngestCall, StoreInv
<1> HIDE DEF d
<1>3. StoreTypeOK' /\ ing'[p] = d /\ \A q \in Ingesters \ {p} : ing'[q] = ing[q]
  BY <1>1, <1>2 DEF StoreTypeOK
<1>4. CallInv(p)'
  BY <1>1, <1>2, <1>3 DEF CallInv, ObjectsFirst, AtDocument, Passed
<1>5. ASSUME NEW q \in Ingesters \ {p} PROVE CallInv(q)'
  <2>1. CallInv(q) /\ ing'[q] = ing[q]
    BY <1>3 DEF StoreInv
  <2> QED
    BY <1>2, <2>1 DEF CallInv, ObjectsFirst, AtDocument, Passed, Head1
<1>6. IndexedHasObject'
  BY <1>2 DEF StoreInv, IndexedHasObject
<1> QED BY <1>3, <1>4, <1>5, <1>6 DEF StoreInv

\* The invariant gives both properties of the store.
LEMMA StoreInvSuffices == StoreInv => IndexedHasObject /\ SuccessMeansIndexed
<1> SUFFICES ASSUME StoreInv PROVE IndexedHasObject /\ SuccessMeansIndexed
  OBVIOUS
<1>1. ASSUME NEW p \in Ingesters, ing[p].pc = "done"
      PROVE  ToSet(ing[p].batch) \cap Docs \subseteq rows[ing[p].site]
  <2>1. /\ ing[p].todo = <<>> /\ ing[p].added \subseteq rows[ing[p].site]
        /\ ToSet(ing[p].batch) \cap Docs
             \subseteq rows[ing[p].site] \cup ing[p].added \cup ToSet(ing[p].todo)
    BY <1>1 DEF StoreInv, CallInv, Passed
  <2>2. ToSet(<<>>) = {}
    BY DEF ToSet
  <2> QED BY <2>1, <2>2
<1> QED BY <1>1 DEF StoreInv, SuccessMeansIndexed

-----------------------------------------------------------------------------
(* Export and import *)

\* The invariant when each site has one importer: what an import has behind it at
\* every point, ...
ImportInv(m) ==
  /\ imp[m].pc # "idle" =>
       /\ \E b \in bundles : imp[m].bundle = {b}
       /\ ReceiptsOf(imp[m].site, BundleOf(m)) = {}
  /\ imp[m].pc = "merging" =>
       ing[m].site = imp[m].site /\ ing[m].batch = SetToSeq(BundleOf(m).ev)
  /\ imp[m].pc \in {"knowledge", "archive", "write", "receipt"} =>
       BundleOf(m).ev \subseteq rows[imp[m].site]
  /\ imp[m].pc \in {"archive", "write", "receipt"} =>
       BundleOf(m).kn \subseteq know[imp[m].site]
  /\ imp[m].pc = "receipt" /\ BundleOf(m).hist > 0 =>
       Slot(BundleOf(m)) \in archive[imp[m].site]

\* ... what an export has, ...
ExportInv(x) ==
  /\ exp[x].pc = "objects" => exp[x].ev \subseteq rows[exp[x].site]
  /\ exp[x].pc # "missing"

RepInv ==
  /\ TypeOK /\ IsFiniteSet(bundles) /\ StoreInv /\ ReceiptMeansMerged
  /\ \A x \in Exporters : ExportInv(x)
  /\ \A m \in Importers : ImportInv(m)

\* ... and, when a site has one exporter, how far the generations are.
GenInv ==
  /\ GenerationConsumed
  /\ \A x \in Exporters : exp[x].pc # "idle" =>
       exp[x].gen = nextGen[exp[x].site]
  /\ \A b \in bundles :
       \/ b.gen < nextGen[b.site]
       \/ b.gen = nextGen[b.site] /\
            (cut[b.site] \/ \E x \in Exporters : exp[x].pc = "save"
                                                 /\ exp[x].site = b.site)


OneImporter == \A m, n \in Importers : m = n
OneExporter == \A x, y \in Exporters : x = y

\* An exporter at rest is well typed.
LEMMA NoExportType == NoExport \in Exports
<1>1. NoCall.site \in Sites
  BY NoCallType DEF Calls
<1> QED BY <1>1, ReplicationAssumption DEF NoExport, Exports, Parts

\* An importer at rest is well typed.
LEMMA NoImportType == NoImport \in Imports
<1>1. NoCall.site \in Sites
  BY NoCallType DEF Calls
<1> QED BY <1>1 DEF NoImport, Imports

\* The bundle an import is about.
LEMMA BundleInHand ==
  ASSUME RepInv, NEW m \in Importers, imp[m].pc # "idle"
  PROVE  /\ BundleOf(m) \in bundles /\ imp[m].bundle = {BundleOf(m)}
         /\ BundleOf(m) \in Bundles /\ imp[m].site \in Sites
<1>1. PICK b \in bundles : imp[m].bundle = {b}
  BY DEF RepInv, ImportInv
<1>2. BundleOf(m) = b
  BY <1>1 DEF BundleOf
<1>3. bundles \subseteq Bundles /\ imp[m].site \in Sites
  BY DEF RepInv, TypeOK, Imports
<1> QED BY <1>1, <1>2, <1>3

\* Nothing of the store moves: its invariant stays.
LEMMA StoreStutter ==
  ASSUME StoreInv, UNCHANGED storeVars
  PROVE  StoreInv'
BY DEF StoreInv, storeVars, StoreTypeOK, IndexedHasObject, CallInv, ObjectsFirst,
       AtDocument, Passed, Head1

\* The calls that may change the store: ingests begin, go on and end.
StoreMove(p) ==
  \/ \E s \in Sites, files \in Seq(Files), strict \in BOOLEAN :
       IngestCall(p, s, files, strict)
  \/ IngestStep(p) \/ IngestReturn(p) \/ IngestKilled(p)

\* Each of them keeps the invariant, removes no row and is one process's own.
LEMMA StoreMoves ==
  ASSUME StoreInv, NEW p \in Ingesters, StoreMove(p)
  PROVE  /\ StoreInv'
         /\ \A s \in Sites : rows[s] \subseteq rows'[s]
         /\ \A q \in Ingesters \ {p} : ing'[q] = ing[q]
<1>1. CASE IngestStep(p) \/ IngestReturn(p) \/ IngestKilled(p)
  BY <1>1, IngestKeepsStoreInv, StoreGrows
<1>2. CASE \E s \in Sites, files \in Seq(Files), strict \in BOOLEAN :
             IngestCall(p, s, files, strict)
  <2>1. StoreInv'
    BY <1>2, CallKeepsStoreInv
  <2>2. rows' = rows /\ \A q \in Ingesters \ {p} : ing'[q] = ing[q]
    BY <1>2 DEF IngestCall, StoreInv, StoreTypeOK
  <2> QED BY <2>1, <2>2
<1> QED BY <1>1, <1>2 DEF StoreMove

\* An ingest on its way is about the same files at the same site.
LEMMA SameBatch ==
  ASSUME StoreInv, NEW p \in Ingesters, IngestStep(p)
  PROVE  ing'[p].site = ing[p].site /\ ing'[p].batch = ing[p].batch
<1>1. ing \in [Ingesters -> Calls] /\ ing[p] \in Calls
  BY DEF StoreInv, StoreTypeOK
<1>2. CASE IngestInit(p) \/ IngestSelect(p) \/ IngestTimeout(p)
           \/ IngestObject(p) \/ IngestCommit(p)
  BY <1>1, <1>2 DEF IngestInit, IngestSelect, IngestTimeout, IngestObject,
                    IngestCommit, IngestGoto, Calls
<1>3. CASE IngestForeign(p) \/ IngestInsert(p) \/ IngestSource(p)
  BY <1>1, <1>3 DEF IngestForeign, IngestInsert, IngestSource, IngestGoto, Calls
<1> QED BY <1>2, <1>3 DEF IngestStep

------------------------------------------------------------------------------
\* While the stores grow and nobody exports or imports, nothing is lost.
LEMMA SitesWork ==
  ASSUME RepInv, StoreInv',
         UNCHANGED <<nextGen, bundles, receipts, archive, exp, imp, cut>>,
         used' \in [publish : 0..MaxPublish, kill : 0..MaxKill],
         know' \in [Sites -> SUBSET Docs],
         \A s \in Sites : rows[s] \subseteq rows'[s] /\ know[s] \subseteq know'[s],
         \A m \in Importers : imp[m].pc = "merging" =>
           ing'[m].site = ing[m].site /\ ing'[m].batch = ing[m].batch
  PROVE  RepInv'
<1>1. TypeOK'
  BY DEF RepInv, TypeOK, StoreInv
<1>2. IsFiniteSet(bundles)'
  BY DEF RepInv
<1>3. ReceiptMeansMerged'
  BY DEF RepInv, ReceiptMeansMerged
<1>4. ASSUME NEW x \in Exporters PROVE ExportInv(x)'
  <2>1. ExportInv(x) /\ exp[x].site \in Sites
    BY DEF RepInv, TypeOK, Exports
  <2> QED BY <2>1 DEF ExportInv
<1>5. ASSUME NEW m \in Importers PROVE ImportInv(m)'
  <2>1. ImportInv(m) /\ imp[m].site \in Sites
    BY DEF RepInv, TypeOK, Imports
  <2>2. BundleOf(m)' = BundleOf(m)
    BY DEF BundleOf
  <2>3. ReceiptsOf(imp[m].site, BundleOf(m))' = ReceiptsOf(imp[m].site, BundleOf(m))
    BY <2>2 DEF ReceiptsOf
  <2> QED BY <2>1, <2>2, <2>3 DEF ImportInv
<1> QED BY <1>1, <1>2, <1>3, <1>4, <1>5 DEF RepInv

\* Local ingests and syncs keep the invariant: they only add to the stores.
LEMMA PublishersKeep ==
  ASSUME RepInv,
         \/ \E p \in Publishers, a \in PublishArgs : Publish(p, a)
         \/ \E p \in Publishers : Published(p) \/ PublisherKilled(p)
         \/ \E p \in Ingesters : IngestStep(p) /\ UNCHANGED repVars
         \/ \E s \in Syncing : SyncEvidence(s)
  PROVE  RepInv'
<1>1. /\ StoreInv /\ know \in [Sites -> SUBSET Docs]
      /\ used \in [publish : 0..MaxPublish, kill : 0..MaxKill]
      /\ rows \in [Sites -> SUBSET Docs]
  BY DEF RepInv, TypeOK, StoreTypeOK
<1>2. {MaxPublish, MaxKill} \subseteq Nat /\ Publishers \subseteq Ingesters
      /\ Importers \subseteq Ingesters
  BY ReplicationAssumption
<1>3. CASE \E s \in Syncing : SyncEvidence(s)
  <2>1. PICK s \in Syncing : SyncEvidence(s)
    BY <1>3
  <2>2. /\ know' \in [Sites -> SUBSET Docs]
        /\ \A t \in Sites : know[t] \subseteq know'[t]
    BY <1>1, <2>1, ReplicationAssumption DEF SyncEvidence
  <2>3. StoreInv' /\ UNCHANGED <<rows, ing, used>>
    BY <1>1, <2>1, StoreStutter DEF SyncEvidence, storeVars
  <2> QED BY <1>1, <2>1, <2>2, <2>3, SitesWork DEF SyncEvidence
<1>4. CASE \E p \in Ingesters : IngestStep(p) /\ UNCHANGED repVars
  <2>1. PICK p \in Ingesters : IngestStep(p) /\ UNCHANGED repVars
    BY <1>4
  <2>2. /\ StoreInv' /\ \A s \in Sites : rows[s] \subseteq rows'[s]
        /\ \A q \in Ingesters \ {p} : ing'[q] = ing[q]
    BY <1>1, <2>1, StoreMoves DEF StoreMove
  <2>3. ing'[p].site = ing[p].site /\ ing'[p].batch = ing[p].batch
    BY <1>1, <2>1, SameBatch
  <2> QED BY <1>1, <1>2, <2>1, <2>2, <2>3, SitesWork DEF repVars
<1>5. ASSUME NEW p \in Publishers, NEW a \in PublishArgs, Publish(p, a)
      PROVE  RepInv'
  <2>1. StoreMove(p)
    BY <1>5, ReplicationAssumption DEF Publish, StoreMove
  <2>2. /\ StoreInv' /\ \A s \in Sites : rows[s] \subseteq rows'[s]
        /\ \A q \in Ingesters \ {p} : ing'[q] = ing[q]
    BY <1>1, <1>2, <2>1, StoreMoves
  <2>3. \A m \in Importers : ing'[m] = ing[m]
    BY <1>2, <2>2, ReplicationAssumption
  <2>4. used' \in [publish : 0..MaxPublish, kill : 0..MaxKill]
    BY <1>1, <1>2, <1>5 DEF Publish
  <2> QED BY <1>1, <1>5, <2>2, <2>3, <2>4, SitesWork DEF Publish
<1>6. ASSUME NEW p \in Publishers, Published(p) \/ PublisherKilled(p)
      PROVE  RepInv'
  <2>1. StoreMove(p)
    BY <1>6 DEF Published, PublisherKilled, StoreMove
  <2>2. /\ StoreInv' /\ \A s \in Sites : rows[s] \subseteq rows'[s]
        /\ \A q \in Ingesters \ {p} : ing'[q] = ing[q]
    BY <1>1, <1>2, <2>1, StoreMoves
  <2>3. \A m \in Importers : ing'[m] = ing[m]
    BY <1>2, <2>2, ReplicationAssumption
  <2>4. used' \in [publish : 0..MaxPublish, kill : 0..MaxKill]
    BY <1>1, <1>2, <1>6 DEF Published, PublisherKilled, repVars
  <2> QED
    BY <1>1, <1>6, <2>2, <2>3, <2>4, SitesWork
       DEF Published, PublisherKilled, repVars
<1> QED BY <1>3, <1>4, <1>5, <1>6

------------------------------------------------------------------------------
\* An export touches neither stores nor imports; bundles are only added.
LEMMA ImportsUnaware ==
  ASSUME RepInv, ExOnly, bundles \subseteq bundles'
  PROVE  /\ ReceiptMeansMerged' /\ StoreInv'
         /\ \A m \in Importers : ImportInv(m)'
<1>1. StoreInv' /\ UNCHANGED <<rows, objects, ing, know, receipts, archive, imp>>
  BY StoreStutter DEF RepInv, ExOnly, storeVars
<1>2. ReceiptMeansMerged'
  BY <1>1 DEF RepInv, ReceiptMeansMerged
<1>3. ASSUME NEW m \in Importers PROVE ImportInv(m)'
  <2>1. BundleOf(m)' = BundleOf(m)
    BY <1>1 DEF BundleOf
  <2>2. ReceiptsOf(imp[m].site, BundleOf(m))' = ReceiptsOf(imp[m].site, BundleOf(m))
    BY <1>1, <2>1 DEF ReceiptsOf
  <2> QED BY <1>1, <2>1, <2>2 DEF RepInv, ImportInv
<1> QED BY <1>1, <1>2, <1>3

\* Exports keep the invariant: the rows they have listed stay, and each has its
\* object by the time it is read.
LEMMA ExportersKeep ==
  ASSUME RepInv,
         \/ \E x \in Exporters, a \in ExportArgs : ExStart(x, a)
         \/ \E x \in Exporters : ExStep(x) \/ ExKilled(x)
  PROVE  RepInv'
<1>1. /\ TypeOK /\ IsFiniteSet(bundles) /\ StoreInv
      /\ exp \in [Exporters -> Exports] /\ \A x \in Exporters : ExportInv(x)
      /\ used \in [publish : 0..MaxPublish, kill : 0..MaxKill]
      /\ nextGen \in [Sites -> 1..(MaxGen + 1)] /\ cut \in [Sites -> BOOLEAN]
      /\ rows \in [Sites -> SUBSET Docs] /\ know \in [Sites -> SUBSET Docs]
      /\ bundles \subseteq Bundles
  BY DEF RepInv, TypeOK, StoreTypeOK
<1>2. /\ MaxGen \in Nat \ {0} /\ MaxKill \in Nat /\ History \in [Sites -> Nat]
      /\ ExportArgs \subseteq [site : Sites, parts : SUBSET Parts \ {{}}]
  BY ReplicationAssumption
\* It is enough to look at what an export changes.
<1>3. ASSUME NEW x \in Exporters, NEW d \in Exports,
             ExOnly, exp' = [exp EXCEPT ![x] = d],
             d.pc = "objects" => d.ev \subseteq rows[d.site],
             d.pc # "missing",
             bundles \subseteq bundles', bundles' \subseteq Bundles,
             IsFiniteSet(bundles'),
             nextGen' \in [Sites -> 1..(MaxGen + 1)], cut' \in [Sites -> BOOLEAN],
             used' \in [publish : 0..MaxPublish, kill : 0..MaxKill]
      PROVE  RepInv'
  <2>1. /\ StoreInv' /\ ReceiptMeansMerged' /\ \A m \in Importers : ImportInv(m)'
    BY <1>3, ImportsUnaware
  <2>2. /\ exp' \in [Exporters -> Exports] /\ exp'[x] = d
        /\ \A y \in Exporters \ {x} : exp'[y] = exp[y]
    BY <1>1, <1>3
  <2>3. UNCHANGED <<rows, know, receipts, archive, imp>>
    BY <1>3 DEF ExOnly, storeVars
  <2>4. TypeOK'
    BY <1>1, <1>3, <2>1, <2>2, <2>3 DEF TypeOK, StoreInv
  <2>5. ASSUME NEW y \in Exporters PROVE ExportInv(y)'
    <3>1. CASE y = x
      BY <1>3, <2>2, <2>3, <3>1 DEF ExportInv
    <3>2. CASE y # x
      BY <1>1, <2>2, <2>3, <3>2 DEF ExportInv
    <3> QED BY <3>1, <3>2
  <2> QED BY <1>3, <2>1, <2>4, <2>5 DEF RepInv
<1>4. ASSUME NEW x \in Exporters, NEW a \in ExportArgs, ExStart(x, a)
      PROVE  RepInv'
  <2> DEFINE d == [NoExport EXCEPT !.pc = "rows", !.site = a.site,
                     !.parts = a.parts, !.gen = nextGen[a.site]]
  <2>1. a.site \in Sites /\ a.parts \subseteq Parts
    BY <1>2
  <2>2. nextGen[a.site] \in 1..MaxGen
    <3>1. nextGen[a.site] \in 1..(MaxGen + 1)
      BY <1>1, <2>1
    <3>2. nextGen[a.site] <= MaxGen
      BY <1>4 DEF ExStart
    <3> QED BY <1>2, <3>1, <3>2
  <2>3. d \in Exports /\ d.pc = "rows"
    BY <2>1, <2>2, NoExportType DEF Exports
  <2>4. exp' = [exp EXCEPT ![x] = d]
    BY <1>4 DEF ExStart
  <2> HIDE DEF d
  <2> QED BY <1>1, <1>3, <1>4, <2>3, <2>4 DEF ExStart
<1>5. ASSUME NEW x \in Exporters, ExStep(x) \/ ExKilled(x)
      PROVE  RepInv'
  <2>1. exp[x] \in Exports /\ exp[x].site \in Sites /\ ExportInv(x)
    BY <1>1 DEF Exports
  <2>2. CASE ExRows(x)
    <3> DEFINE d == [exp[x] EXCEPT !.pc = "objects", !.ev =
          IF "evidence" \in exp[x].parts THEN rows[exp[x].site] ELSE {}]
    <3>1. d \in Exports /\ d.pc = "objects" /\ d.ev \subseteq rows[d.site]
      BY <1>1, <2>1 DEF Exports
    <3>2. exp' = [exp EXCEPT ![x] = d]
      BY <1>1, <2>2 DEF ExRows
    <3> HIDE DEF d
    <3> QED BY <1>1, <1>3, <2>2, <3>1, <3>2 DEF ExRows
  <2>3. CASE ExObjects(x)
    <3> DEFINE d == [exp[x] EXCEPT !.pc = "collect"]
    <3>1. exp[x].ev \subseteq objects[exp[x].site]
      BY <1>1, <2>1, <2>3 DEF ExObjects, ExportInv, StoreInv, IndexedHasObject
    <3>2. d \in Exports /\ d.pc = "collect"
      BY <2>1 DEF Exports
    <3>3. exp' = [exp EXCEPT ![x] = d]
      BY <1>1, <2>3, <3>1 DEF ExObjects, ExGoto
    <3> HIDE DEF d
    <3> QED BY <1>1, <1>3, <2>3, <3>2, <3>3 DEF ExObjects
  <2>4. CASE ExCollect(x)
    <3> DEFINE d == [exp[x] EXCEPT !.pc = "zip",
          !.kn = IF "knowledge" \in exp[x].parts THEN know[exp[x].site] ELSE {},
          !.hist = IF "control" \in exp[x].parts
                     THEN History[exp[x].site] ELSE 0]
    <3>1. d \in Exports /\ d.pc = "zip"
      BY <1>1, <1>2, <2>1 DEF Exports
    <3>2. exp' = [exp EXCEPT ![x] = d]
      BY <1>1, <2>4 DEF ExCollect
    <3> HIDE DEF d
    <3> QED BY <1>1, <1>3, <2>4, <3>1, <3>2 DEF ExCollect
  <2>5. CASE ExZip(x)
    <3> DEFINE d == [exp[x] EXCEPT !.pc = "save"]
               b == [site |-> exp[x].site, gen |-> exp[x].gen, ev |-> exp[x].ev,
                     kn |-> exp[x].kn, hist |-> exp[x].hist,
                     at |-> Cardinality(bundles)]
    <3>1. d \in Exports /\ d.pc = "save"
      BY <2>1 DEF Exports
    <3>2. exp' = [exp EXCEPT ![x] = d]
      BY <1>1, <2>5 DEF ExZip, ExGoto
    <3>3. Cardinality(bundles) \in Nat
      BY <1>1, FS_CardinalityType
    <3>4. b \in Bundles
      BY <2>1, <3>3 DEF Exports, Bundles
    <3>5. bundles' = bundles \cup {b}
      BY <2>5 DEF ExZip
    <3> HIDE DEF b, d
    <3>6. IsFiniteSet(bundles') /\ bundles' \subseteq Bundles
      BY <1>1, <3>4, <3>5, FS_AddElement
    <3> QED BY <1>1, <1>3, <2>5, <3>1, <3>2, <3>5, <3>6 DEF ExZip
  <2>6. CASE ExSave(x)
    <3>1. nextGen' \in [Sites -> 1..(MaxGen + 1)]
      <4>1. exp[x].gen + 1 \in 1..(MaxGen + 1)
        BY <1>2, <2>1 DEF Exports
      <4> QED BY <1>1, <2>6, <4>1 DEF ExSave
    <3>2. NoExport.pc = "idle"
      BY DEF NoExport
    <3> QED BY <1>1, <1>3, <2>6, <3>1, <3>2, NoExportType DEF ExSave
  <2>7. CASE ExKilled(x)
    <3>1. cut' \in [Sites -> BOOLEAN]
      BY <1>1, <2>1, <2>7 DEF ExKilled
    <3>2. used' \in [publish : 0..MaxPublish, kill : 0..MaxKill]
      BY <1>1, <1>2, <2>7 DEF ExKilled
    <3>3. NoExport.pc = "idle"
      BY DEF NoExport
    <3> QED BY <1>1, <1>3, <2>7, <3>1, <3>2, <3>3, NoExportType DEF ExKilled
  <2> QED BY <1>5, <2>2, <2>3, <2>4, <2>5, <2>6, <2>7 DEF ExStep
<1> QED BY <1>4, <1>5

------------------------------------------------------------------------------
\* Imports keep the invariant: each step of an import has its part of the
\* bundle behind it, and a receipt is written when all parts are merged.
LEMMA ImportersKeep ==
  ASSUME RepInv, OneImporter,
         \/ \E m \in Importers, a \in ImportArgs, b \in bundles : ImStart(m, a, b)
         \/ \E m \in Importers : ImStep(m) \/ ImKilled(m)
  PROVE  RepInv'
<1>1. /\ TypeOK /\ IsFiniteSet(bundles) /\ StoreInv /\ ReceiptMeansMerged
      /\ imp \in [Importers -> Imports] /\ \A m \in Importers : ImportInv(m)
      /\ used \in [publish : 0..MaxPublish, kill : 0..MaxKill]
      /\ rows \in [Sites -> SUBSET Docs] /\ know \in [Sites -> SUBSET Docs]
      /\ receipts \in [Sites -> SUBSET Bundles] /\ bundles \subseteq Bundles
      /\ archive \in [Sites -> SUBSET [site : Sites, gen : 1..MaxGen, hist : Nat]]
  BY DEF RepInv, TypeOK, StoreTypeOK
<1>2. /\ MaxKill \in Nat /\ Importers \subseteq Ingesters
      /\ ImportArgs \subseteq [site : Sites, dst : SUBSET {"evidence", "knowledge"}]
  BY ReplicationAssumption
\* It is enough to look at the import that moves, and at the receipts.
<1>3. ASSUME NEW m \in Importers, ImOnly, StoreInv',
             imp' \in [Importers -> Imports],
             used' \in [publish : 0..MaxPublish, kill : 0..MaxKill],
             know' \in [Sites -> SUBSET Docs],
             receipts' \in [Sites -> SUBSET Bundles],
             archive' \in
               [Sites -> SUBSET [site : Sites, gen : 1..MaxGen, hist : Nat]],
             \A s \in Sites : rows[s] \subseteq rows'[s],
             ReceiptMeansMerged', ImportInv(m)'
      PROVE  RepInv'
  <2>1. TypeOK' /\ IsFiniteSet(bundles)'
    BY <1>1, <1>3 DEF TypeOK, StoreInv, ImOnly
  <2>2. ASSUME NEW x \in Exporters PROVE ExportInv(x)'
    <3>1. ExportInv(x) /\ exp[x].site \in Sites /\ exp' = exp
      BY <1>3 DEF RepInv, TypeOK, Exports, ImOnly
    <3> QED BY <1>3, <3>1 DEF ExportInv
  <2>3. \A n \in Importers : ImportInv(n)'
    BY <1>3 DEF OneImporter
  <2> QED BY <1>3, <2>1, <2>2, <2>3 DEF RepInv
<1>4. ASSUME NEW m \in Importers, imp' = [imp EXCEPT ![m] = NoImport]
      PROVE  imp' \in [Importers -> Imports] /\ ImportInv(m)'
  <2>1. imp' \in [Importers -> Imports] /\ imp'[m] = NoImport
    BY <1>1, <1>4, NoImportType
  <2>2. NoImport.pc = "idle"
    BY DEF NoImport
  <2> QED BY <2>1, <2>2 DEF ImportInv
<1>5. ASSUME NEW m \in Importers, imp[m].pc # "idle",
             NEW l \in {"merging", "knowledge", "archive", "write", "receipt"},
             ImGoto(m, l), UNCHANGED <<bundles, receipts>>
      PROVE  /\ imp' \in [Importers -> Imports] /\ imp'[m].pc = l
             /\ imp'[m].site = imp[m].site /\ BundleOf(m)' = BundleOf(m)
             /\ \E b \in bundles' : imp'[m].bundle = {b}
             /\ ReceiptsOf(imp[m].site, BundleOf(m))' = {}
  <2>1. imp[m] \in Imports
    BY <1>1
  <2> DEFINE d == [imp[m] EXCEPT !.pc = l]
  <2>2. /\ d \in Imports /\ d.pc = l /\ d.site = imp[m].site
        /\ d.bundle = imp[m].bundle
    BY <2>1 DEF Imports
  <2>3. imp' = [imp EXCEPT ![m] = d]
    BY <1>1, <1>5 DEF ImGoto
  <2> HIDE DEF d
  <2>4. imp' \in [Importers -> Imports] /\ imp'[m] = d
    BY <1>1, <2>2, <2>3
  <2>5. BundleOf(m)' = BundleOf(m)
    BY <2>2, <2>4 DEF BundleOf
  <2>6. /\ \E b \in bundles : imp[m].bundle = {b}
        /\ ReceiptsOf(imp[m].site, BundleOf(m)) = {}
    BY <1>1, <1>5 DEF ImportInv
  <2>7. ReceiptsOf(imp[m].site, BundleOf(m))' = {}
    BY <1>5, <2>2, <2>4, <2>5, <2>6 DEF ReceiptsOf
  <2> QED BY <1>5, <2>2, <2>4, <2>5, <2>6, <2>7
<1>6. ASSUME UNCHANGED <<receipts, archive>>,
             \A s \in Sites : rows[s] \subseteq rows'[s] /\ know[s] \subseteq know'[s]
      PROVE  ReceiptMeansMerged'
  BY <1>1, <1>6 DEF ReceiptMeansMerged
<1>7. ASSUME UNCHANGED storeVars
      PROVE  StoreInv' /\ UNCHANGED <<rows, objects, ing>>
  BY <1>1, <1>7, StoreStutter DEF storeVars
<1>8. ASSUME NEW m \in Importers, NEW a \in ImportArgs, NEW b \in bundles,
             ImStart(m, a, b)
      PROVE  RepInv'
  <2> DEFINE d == [pc |-> "evidence", site |-> a.site, bundle |-> {b}, dst |-> a.dst]
  <2>1. d \in Imports /\ d.pc = "evidence" /\ d.bundle = {b} /\ d.site = a.site
    BY <1>1, <1>2 DEF Imports, Parts
  <2>2. imp' = [imp EXCEPT ![m] = d]
    BY <1>8 DEF ImStart
  <2> HIDE DEF d
  <2>3. imp' \in [Importers -> Imports] /\ imp'[m] = d
    BY <1>1, <2>1, <2>2
  <2>4. BundleOf(m)' = b
    BY <2>1, <2>3 DEF BundleOf
  <2>5. ReceiptsOf(a.site, b)' = {} /\ UNCHANGED <<bundles, receipts, archive, know, used>>
    BY <1>8 DEF ImStart, ReceiptsOf, ImOnly
  <2>6. ReceiptsOf(imp[m].site, BundleOf(m))' = {}
    BY <2>1, <2>3, <2>4, <2>5 DEF ReceiptsOf
  <2>7. ImportInv(m)'
    BY <2>1, <2>3, <2>5, <2>6 DEF ImportInv
  <2>8. StoreInv' /\ UNCHANGED <<rows, objects, ing>>
    BY <1>7, <1>8 DEF ImStart
  <2>9. ReceiptMeansMerged'
    BY <1>6, <2>5, <2>8
  <2> QED BY <1>1, <1>3, <1>8, <2>3, <2>5, <2>7, <2>8, <2>9 DEF ImStart
<1>9. ASSUME NEW m \in Importers, ImEvidence(m)
      PROVE  RepInv'
  <2>1. /\ imp[m].pc = "evidence" /\ ImOnly
        /\ UNCHANGED <<know, receipts, archive, used, bundles>>
    BY <1>9 DEF ImEvidence, ImOnly
  <2>2. /\ BundleOf(m) \in bundles /\ BundleOf(m) \in Bundles
        /\ imp[m].site \in Sites
    BY <2>1, BundleInHand
  <2>3. BundleOf(m).ev \subseteq Docs
    BY <2>2 DEF Bundles
  <2>4. CASE BundleOf(m).ev = {} /\ ImGoto(m, "knowledge") /\ UNCHANGED storeVars
    <3>1. /\ imp' \in [Importers -> Imports] /\ imp'[m].pc = "knowledge"
          /\ imp'[m].site = imp[m].site /\ BundleOf(m)' = BundleOf(m)
          /\ \E b \in bundles' : imp'[m].bundle = {b}
          /\ ReceiptsOf(imp[m].site, BundleOf(m))' = {}
      BY <1>5, <2>1, <2>4
    <3>2. ImportInv(m)'
      BY <2>4, <3>1 DEF ImportInv
    <3>3. StoreInv' /\ UNCHANGED <<rows, objects, ing>>
      BY <1>7, <2>4
    <3>4. ReceiptMeansMerged'
      BY <1>6, <2>1, <3>3
    <3> QED BY <1>1, <1>3, <2>1, <3>1, <3>2, <3>3, <3>4
  <2>5. CASE ImEnd(m) /\ UNCHANGED storeVars
    <3>1. imp' \in [Importers -> Imports] /\ ImportInv(m)'
      BY <1>4, <2>5 DEF ImEnd
    <3>2. StoreInv' /\ UNCHANGED <<rows, objects, ing>>
      BY <1>7, <2>5
    <3>3. ReceiptMeansMerged'
      BY <1>6, <2>1, <3>2
    <3> QED BY <1>1, <1>3, <2>1, <3>1, <3>2, <3>3
  <2>6. CASE /\ ImGoto(m, "merging")
             /\ IngestCall(m, imp[m].site, SetToSeq(BundleOf(m).ev), TRUE)
    <3>1. /\ imp' \in [Importers -> Imports] /\ imp'[m].pc = "merging"
          /\ imp'[m].site = imp[m].site /\ BundleOf(m)' = BundleOf(m)
          /\ \E b \in bundles' : imp'[m].bundle = {b}
          /\ ReceiptsOf(imp[m].site, BundleOf(m))' = {}
      BY <1>5, <2>1, <2>6
    <3>2. SetToSeq(BundleOf(m).ev) \in Seq(Files)
      <4>1. IsFiniteSet(BundleOf(m).ev)
        BY <2>3, EvidenceAssumption, FS_Subset
      <4>2. SetToSeq(BundleOf(m).ev) \in Seq(BundleOf(m).ev)
        BY <4>1, SetToSeqLists
      <4> QED BY <2>3, <4>2 DEF Files
    <3>3. StoreMove(m)
      BY <2>2, <2>6, <3>2 DEF StoreMove
    <3>4. StoreInv' /\ \A s \in Sites : rows[s] \subseteq rows'[s]
      BY <1>1, <1>2, <3>3, StoreMoves
    <3>5. ing'[m].site = imp[m].site /\ ing'[m].batch = SetToSeq(BundleOf(m).ev)
      BY <1>1, <1>2, <2>6 DEF IngestCall, StoreInv, StoreTypeOK, NoCall
    <3>6. ImportInv(m)'
      BY <3>1, <3>5 DEF ImportInv
    <3>7. ReceiptMeansMerged'
      BY <1>6, <2>1, <3>4
    <3> QED BY <1>1, <1>3, <2>1, <3>1, <3>4, <3>6, <3>7
  <2> QED BY <1>9, <2>4, <2>5, <2>6 DEF ImEvidence
<1>10. ASSUME NEW m \in Importers, ImMerged(m)
       PROVE  RepInv'
  <2>1. /\ imp[m].pc = "merging" /\ ImOnly /\ IngestReturn(m)
        /\ UNCHANGED <<know, receipts, archive, used, bundles>>
    BY <1>10 DEF ImMerged, ImOnly
  <2>2. BundleOf(m) \in Bundles /\ imp[m].site \in Sites
    BY <2>1, BundleInHand
  <2>3. StoreInv' /\ rows' = rows
    BY <1>1, <1>2, <2>1, IngestKeepsStoreInv DEF IngestReturn
  <2>4. ReceiptMeansMerged'
    BY <1>6, <2>1, <2>3
  <2>5. CASE ing[m].pc = "done" /\ ImGoto(m, "knowledge")
    <3>1. /\ imp' \in [Importers -> Imports] /\ imp'[m].pc = "knowledge"
          /\ imp'[m].site = imp[m].site /\ BundleOf(m)' = BundleOf(m)
          /\ \E b \in bundles' : imp'[m].bundle = {b}
          /\ ReceiptsOf(imp[m].site, BundleOf(m))' = {}
      BY <1>5, <2>1, <2>5
    <3>2. /\ ing[m].site = imp[m].site
          /\ ing[m].batch = SetToSeq(BundleOf(m).ev)
      BY <1>1, <2>1 DEF ImportInv
    <3>3. ToSet(ing[m].batch) \cap Docs \subseteq rows[imp[m].site]
      BY <1>1, <1>2, <2>5, <3>2, StoreInvSuffices DEF SuccessMeansIndexed
    <3>4. BundleOf(m).ev \subseteq Docs /\ IsFiniteSet(BundleOf(m).ev)
      <4>1. BundleOf(m).ev \subseteq Docs
        BY <2>2 DEF Bundles
      <4> QED BY <4>1, EvidenceAssumption, FS_Subset
    <3>5. ToSet(SetToSeq(BundleOf(m).ev)) = BundleOf(m).ev
      BY <3>4, SetToSeqLists
    <3>6. BundleOf(m).ev \subseteq rows[imp[m].site]
      BY <3>2, <3>3, <3>4, <3>5
    <3>7. ImportInv(m)'
      BY <2>3, <3>1, <3>6 DEF ImportInv
    <3> QED BY <1>1, <1>3, <2>1, <2>3, <2>4, <3>1, <3>7
  <2>6. CASE ImEnd(m)
    <3>1. imp' \in [Importers -> Imports] /\ ImportInv(m)'
      BY <1>4, <2>6 DEF ImEnd
    <3> QED BY <1>1, <1>3, <2>1, <2>3, <2>4, <3>1
  <2> QED BY <1>10, <2>5, <2>6 DEF ImMerged
<1>11. ASSUME NEW m \in Importers, ImKnowledgeDone(m)
       PROVE  RepInv'
  <2>1. /\ imp[m].pc = "knowledge" /\ ImOnly /\ ImGoto(m, "archive")
        /\ UNCHANGED <<receipts, archive, used, bundles>>
        /\ know' = [know EXCEPT ![imp[m].site] = @ \cup BundleOf(m).kn]
    BY <1>11 DEF ImKnowledgeDone, ImOnly
  <2>2. BundleOf(m).kn \subseteq Docs /\ imp[m].site \in Sites
    BY <2>1, BundleInHand DEF Bundles
  <2>3. /\ know' \in [Sites -> SUBSET Docs]
        /\ \A s \in Sites : know[s] \subseteq know'[s]
        /\ BundleOf(m).kn \subseteq know'[imp[m].site]
    BY <1>1, <2>1, <2>2
  <2>4. StoreInv' /\ UNCHANGED <<rows, objects, ing>>
    BY <1>7, <1>11 DEF ImKnowledgeDone
  <2>5. ReceiptMeansMerged'
    BY <1>6, <2>1, <2>3, <2>4
  <2>6. /\ imp' \in [Importers -> Imports] /\ imp'[m].pc = "archive"
        /\ imp'[m].site = imp[m].site /\ BundleOf(m)' = BundleOf(m)
        /\ \E b \in bundles' : imp'[m].bundle = {b}
        /\ ReceiptsOf(imp[m].site, BundleOf(m))' = {}
    BY <1>5, <2>1
  <2>7. BundleOf(m).ev \subseteq rows[imp[m].site]
    BY <1>1, <2>1 DEF ImportInv
  <2>8. ImportInv(m)'
    BY <2>3, <2>4, <2>6, <2>7 DEF ImportInv
  <2> QED BY <1>1, <1>3, <2>1, <2>3, <2>4, <2>5, <2>6, <2>8
<1>12. ASSUME NEW m \in Importers, ImKnowledgeFails(m)
       PROVE  RepInv'
  <2>1. imp' \in [Importers -> Imports] /\ ImportInv(m)'
    BY <1>4, <1>12 DEF ImKnowledgeFails, ImEnd
  <2>2. StoreInv' /\ UNCHANGED <<rows, objects, ing>>
    BY <1>7, <1>12 DEF ImKnowledgeFails
  <2>3. ReceiptMeansMerged'
    BY <1>6, <1>12, <2>2 DEF ImKnowledgeFails
  <2> QED BY <1>1, <1>3, <1>12, <2>1, <2>2, <2>3 DEF ImKnowledgeFails
<1>13. ASSUME NEW m \in Importers, ImArchive(m) \/ ImWrite(m)
       PROVE  RepInv'
  <2> DEFINE b == BundleOf(m)  s == imp[m].site
  <2>1. /\ imp[m].pc \in {"archive", "write"} /\ ImOnly
        /\ UNCHANGED <<receipts, know, used, bundles>>
    BY <1>13 DEF ImArchive, ImWrite, ImOnly
  <2>2. b \in Bundles /\ s \in Sites
    BY <2>1, BundleInHand
  <2>3. StoreInv' /\ UNCHANGED <<rows, objects, ing>>
    BY <1>7, <1>13 DEF ImArchive, ImWrite
  <2>4. /\ b.ev \subseteq rows[s] /\ b.kn \subseteq know[s]
        /\ ReceiptsOf(s, b) = {}
    BY <1>1, <2>1 DEF ImportInv
  <2>5. PICK l \in {"write", "receipt"} : ImGoto(m, l)
    BY <1>13 DEF ImArchive, ImWrite
  <2>6. /\ imp' \in [Importers -> Imports] /\ imp'[m].pc = l
        /\ imp'[m].site = s /\ BundleOf(m)' = b
        /\ \E c \in bundles' : imp'[m].bundle = {c}
        /\ ReceiptsOf(imp[m].site, BundleOf(m))' = {}
    BY <1>5, <2>1, <2>5
  <2>7. Slot(b) \in [site : Sites, gen : 1..MaxGen, hist : Nat]
    BY <2>2 DEF Slot, Bundles
  <2>8. /\ archive' \in [Sites -> SUBSET [site : Sites, gen : 1..MaxGen, hist : Nat]]
        /\ \A t \in Sites : \A e \in archive[t] :
             e \in archive'[t] \/ (t = s /\ e.site = b.site /\ e.gen = b.gen)
    BY <1>1, <1>13, <2>2, <2>7 DEF ImArchive, ImWrite
  <2>9. l = "receipt" /\ b.hist > 0 => Slot(b) \in archive'[s]
    <3>1. CASE ImWrite(m)
      BY <1>1, <2>2, <3>1 DEF ImWrite
    <3>2. CASE ImArchive(m) /\ b.hist = 0
      BY <2>2, <3>2 DEF Bundles
    <3>3. CASE ImArchive(m) /\ b.hist # 0
      <4>1. imp'[m].pc = "write"
        BY <1>1, <3>3 DEF ImArchive, ImGoto, Imports
      <4> QED BY <2>6, <4>1
    <3> QED BY <1>13, <3>1, <3>2, <3>3
  <2>10. ImportInv(m)'
    BY <2>1, <2>3, <2>4, <2>6, <2>9 DEF ImportInv
  <2>11. ReceiptMeansMerged'
    <3>1. ASSUME NEW t \in Sites, NEW r \in receipts[t], r.hist > 0
          PROVE  Slot(r) \in archive'[t]
      <4>1. Slot(r) \in archive[t]
        BY <1>1, <3>1 DEF ReceiptMeansMerged
      <4>2. Slot(r).site = r.site /\ Slot(r).gen = r.gen
        BY DEF Slot
      <4>3. ~(t = s /\ r.site = b.site /\ r.gen = b.gen)
        BY <2>4 DEF ReceiptsOf
      <4> QED BY <2>8, <4>1, <4>2, <4>3
    <3> QED BY <1>1, <2>1, <2>3, <3>1 DEF ReceiptMeansMerged
  <2> QED BY <1>1, <1>3, <2>1, <2>3, <2>6, <2>8, <2>10, <2>11
<1>14. ASSUME NEW m \in Importers, ImReceipt(m)
       PROVE  RepInv'
  <2> DEFINE b == BundleOf(m)  s == imp[m].site
  <2>1. /\ imp[m].pc = "receipt" /\ ImOnly
        /\ UNCHANGED <<archive, know, used, bundles>>
    BY <1>14 DEF ImReceipt, ImOnly
  <2>2. b \in Bundles /\ s \in Sites /\ imp[m].bundle = {b}
    BY <2>1, BundleInHand
  <2>3. imp' \in [Importers -> Imports] /\ ImportInv(m)'
    BY <1>4, <1>14 DEF ImReceipt, ImEnd
  <2>4. StoreInv' /\ UNCHANGED <<rows, objects, ing>>
    BY <1>7, <1>14 DEF ImReceipt
  <2>5. /\ b.ev \subseteq rows[s] /\ b.kn \subseteq know[s]
        /\ b.hist > 0 => Slot(b) \in archive[s]
    BY <1>1, <2>1 DEF ImportInv
  <2>6. /\ receipts' \in [Sites -> SUBSET Bundles]
        /\ \A t \in Sites : \A r \in receipts'[t] : r \in receipts[t] \/ (t = s /\ r = b)
    BY <1>1, <1>14, <2>2 DEF ImReceipt, ReceiptsOf
  <2>7. ReceiptMeansMerged'
    BY <1>1, <2>1, <2>4, <2>5, <2>6 DEF ReceiptMeansMerged
  <2> QED BY <1>1, <1>3, <2>1, <2>3, <2>4, <2>6, <2>7
<1>15. ASSUME NEW m \in Importers, ImKilled(m)
       PROVE  RepInv'
  <2>1. /\ ImOnly /\ UNCHANGED <<know, receipts, archive>>
        /\ used' \in [publish : 0..MaxPublish, kill : 0..MaxKill]
    BY <1>1, <1>2, <1>15 DEF ImKilled
  <2>2. imp' \in [Importers -> Imports] /\ ImportInv(m)'
    BY <1>4, <1>15 DEF ImKilled, ImEnd
  <2>3. StoreInv' /\ \A s \in Sites : rows[s] \subseteq rows'[s]
    <3>1. CASE UNCHANGED storeVars
      BY <1>7, <3>1
    <3>2. CASE IngestKilled(m)
      BY <1>1, <1>2, <3>2, IngestKeepsStoreInv, StoreGrows
    <3> QED BY <1>15, <3>1, <3>2 DEF ImKilled
  <2>4. ReceiptMeansMerged'
    BY <1>6, <2>1, <2>3
  <2> QED BY <1>1, <1>3, <2>1, <2>2, <2>3, <2>4
<1> QED
  BY <1>8, <1>9, <1>10, <1>11, <1>12, <1>13, <1>14, <1>15 DEF ImStep

------------------------------------------------------------------------------
\* Sites that have exchanged nothing satisfy RepInv.
LEMMA RepInvInit == Init => RepInv
<1> SUFFICES ASSUME Init PROVE RepInv
  OBVIOUS
<1>1. StoreInv
  BY StoreInvInit DEF Init
<1>2. TypeOK
  <2>1. 1 \in 1..(MaxGen + 1) /\ {MaxPublish, MaxKill} \subseteq Nat
    BY ReplicationAssumption
  <2> QED
    BY <1>1, <2>1, NoExportType, NoImportType DEF Init, TypeOK, StoreInv
<1>3. IsFiniteSet(bundles)
  BY FS_EmptySet DEF Init
<1>4. ReceiptMeansMerged
  BY DEF Init, ReceiptMeansMerged
<1>5. \A x \in Exporters : ExportInv(x)
  BY DEF Init, ExportInv, NoExport
<1>6. \A m \in Importers : ImportInv(m)
  BY DEF Init, ImportInv, NoImport
<1> QED BY <1>1, <1>2, <1>3, <1>4, <1>5, <1>6 DEF RepInv

\* Every step of the system preserves RepInv.
LEMMA RepInvStep ==
  ASSUME OneImporter, RepInv, [Next]_vars
  PROVE  RepInv'
<1>1. CASE UNCHANGED vars
  <2>1. StoreInv' /\ UNCHANGED <<rows, ing>>
    BY <1>1, StoreStutter DEF RepInv, vars, storeVars
  <2> QED
    BY <1>1, <2>1, SitesWork DEF RepInv, TypeOK, vars, repVars
<1>2. CASE Next
  BY <1>2, PublishersKeep, ExportersKeep, ImportersKeep DEF Next
<1> QED BY <1>1, <1>2

\* The types of every variable, for any number of sites, documents and local
\* publishers, when imports are not run side by side.
THEOREM ReplicationTypes ==
  ASSUME OneImporter
  PROVE  Spec => []TypeOK
<1>1. RepInv => TypeOK
  BY DEF RepInv
<1> QED BY <1>1, RepInvInit, RepInvStep, PTL DEF Spec

\* The index never points at an object that is not there, and an ingest that
\* reported success has its batch indexed.
THEOREM IndexSound ==
  ASSUME OneImporter
  PROVE  Spec => []StoreSound
<1>1. RepInv => StoreSound
  BY StoreInvSuffices DEF RepInv, StoreSound
<1> QED BY <1>1, RepInvInit, RepInvStep, PTL DEF Spec

\* An export that overlaps with ingests finds every object it has listed.
THEOREM ExportsComplete ==
  ASSUME OneImporter
  PROVE  Spec => []ExportFindsObjects
<1>1. RepInv => ExportFindsObjects
  BY DEF RepInv, ExportInv, ExportFindsObjects
<1> QED BY <1>1, RepInvInit, RepInvStep, PTL DEF Spec

\* A receipt means that everything in its bundle has been merged.
THEOREM ReceiptsSound ==
  ASSUME OneImporter
  PROVE  Spec => []ReceiptMeansMerged
<1>1. RepInv => ReceiptMeansMerged
  BY DEF RepInv
<1> QED BY <1>1, RepInvInit, RepInvStep, PTL DEF Spec

\* A receipt, once written, stays: an import that had found none still finds
\* none when it writes its own.
THEOREM ReceiptsKept ==
  ASSUME OneImporter
  PROVE  Spec => ReceiptsImmutable
<1>1. ASSUME RepInv, [Next]_vars
      PROVE  [\A s \in Sites : receipts[s] \subseteq receipts'[s]]_vars
  <2>1. CASE \E m \in Importers : ImReceipt(m)
    <3>1. PICK m \in Importers : ImReceipt(m)
      BY <2>1
    <3>2. ReceiptsOf(imp[m].site, BundleOf(m)) = {}
      BY <1>1, <3>1 DEF RepInv, ImportInv, ImReceipt
    <3>3. receipts \in [Sites -> SUBSET Bundles]
      BY <1>1 DEF RepInv, TypeOK
    <3> QED BY <3>1, <3>2, <3>3 DEF ImReceipt
  <2>2. CASE ~\E m \in Importers : ImReceipt(m)
    <3>1. ASSUME NEW m \in Importers, NEW a \in ImportArgs, NEW b \in bundles,
                 ImStart(m, a, b)
          PROVE  receipts' = receipts
      BY <3>1 DEF ImStart
    <3>2. ASSUME NEW m \in Importers, ImStep(m) \/ ImKilled(m)
          PROVE  receipts' = receipts
      BY <2>2, <3>2 DEF ImStep, ImEvidence, ImMerged, ImKnowledgeDone,
                        ImKnowledgeFails, ImArchive, ImWrite, ImKilled
    <3>3. ASSUME NEW x \in Exporters, NEW a \in ExportArgs, ExStart(x, a)
          PROVE  receipts' = receipts
      BY <3>3 DEF ExStart, ExOnly
    <3>4. ASSUME NEW x \in Exporters, ExStep(x) \/ ExKilled(x)
          PROVE  receipts' = receipts
      BY <3>4 DEF ExStep, ExRows, ExObjects, ExCollect, ExZip, ExSave, ExKilled,
                  ExOnly
    <3>5. ASSUME NEW p \in Publishers, NEW a \in PublishArgs, Publish(p, a)
          PROVE  receipts' = receipts
      BY <3>5 DEF Publish
    <3>6. ASSUME NEW p \in Publishers, Published(p) \/ PublisherKilled(p)
          PROVE  receipts' = receipts
      BY <3>6 DEF Published, PublisherKilled, repVars
    <3>7. ASSUME \/ \E p \in Ingesters : IngestStep(p) /\ UNCHANGED repVars
                 \/ \E s \in Syncing : SyncEvidence(s)
          PROVE  receipts' = receipts
      BY <3>7 DEF SyncEvidence, repVars
    <3>8. CASE UNCHANGED vars
      BY <3>8 DEF vars, repVars
    <3>9. CASE Next
      BY <3>1, <3>2, <3>3, <3>4, <3>5, <3>6, <3>7, <3>9 DEF Next
    <3> QED BY <1>1, <3>8, <3>9
  <2> QED BY <2>1, <2>2
<1> QED BY <1>1, RepInvInit, RepInvStep, PTL DEF Spec, ReceiptsImmutable

------------------------------------------------------------------------------
\* Bundles and generations are the exporter's business only.
LEMMA GenFrame ==
  ASSUME GenInv, UNCHANGED <<nextGen, bundles, exp, cut>>
  PROVE  GenInv'
BY DEF GenInv, GenerationConsumed

\* No generation has been used yet.
LEMMA GenInvInit == Init => GenInv
BY DEF Init, GenInv, GenerationConsumed, NoExport

\* The generation of replication.json is ahead of every bundle but those of an
\* export that wrote its ZIP and has not saved it, or was killed before.
LEMMA GenExport ==
  ASSUME OneExporter, RepInv, GenInv, NEW x \in Exporters,
         (\E a \in ExportArgs : ExStart(x, a)) \/ ExStep(x) \/ ExKilled(x)
  PROVE  GenInv'
<1>1. /\ exp \in [Exporters -> Exports] /\ exp[x] \in Exports
      /\ nextGen \in [Sites -> 1..(MaxGen + 1)] /\ cut \in [Sites -> BOOLEAN]
      /\ bundles \subseteq Bundles /\ exp[x].site \in Sites /\ exp[x].gen \in Nat
  BY DEF RepInv, TypeOK, Exports
<1>2. /\ \A b \in bundles : b.site \in Sites /\ b.gen \in Nat
      /\ \A s \in Sites : nextGen[s] \in Nat
  BY <1>1 DEF Bundles
<1>3. Exporters = {x}
  BY DEF OneExporter
<1>4. CASE \E a \in ExportArgs : ExStart(x, a)
  <2>1. PICK a \in ExportArgs : ExStart(x, a)
    BY <1>4
  <2>2. /\ exp[x].pc = "idle" /\ UNCHANGED <<nextGen, bundles, cut>>
        /\ exp'[x] = [NoExport EXCEPT !.pc = "rows", !.site = a.site,
                         !.parts = a.parts, !.gen = nextGen[a.site]]
    BY <1>1, <2>1 DEF ExStart
  <2>3. exp'[x].gen = nextGen[exp'[x].site]
    BY <2>2 DEF NoExport
  <2> QED BY <1>3, <2>2, <2>3 DEF GenInv, GenerationConsumed
<1>5. CASE ExRows(x) \/ ExObjects(x) \/ ExCollect(x)
  <2>1. /\ UNCHANGED <<nextGen, bundles, cut>> /\ exp[x].pc \notin {"save", "idle"}
        /\ exp'[x].gen = exp[x].gen /\ exp'[x].site = exp[x].site
    BY <1>1, <1>5 DEF ExRows, ExObjects, ExCollect, ExGoto, Exports
  <2> QED BY <1>3, <2>1 DEF GenInv, GenerationConsumed
<1>6. CASE ExZip(x)
  <2> DEFINE b == [site |-> exp[x].site, gen |-> exp[x].gen, ev |-> exp[x].ev,
                   kn |-> exp[x].kn, hist |-> exp[x].hist,
                   at |-> Cardinality(bundles)]
  <2>1. b.site = exp[x].site /\ b.gen = exp[x].gen
    OBVIOUS
  <2>2. /\ bundles' = bundles \cup {b} /\ UNCHANGED <<nextGen, cut>>
        /\ exp[x].pc = "zip"
        /\ exp'[x].pc = "save" /\ exp'[x].site = exp[x].site
        /\ exp'[x].gen = exp[x].gen
    BY <1>1, <1>6 DEF ExZip, ExGoto, Exports
  <2> HIDE DEF b
  <2>3. b.gen = nextGen[b.site] /\ b.site \in Sites
    BY <1>1, <2>1, <2>2 DEF GenInv
  <2>4. \A c \in bundles : c.site = b.site /\ c.gen = b.gen => cut[c.site]
    BY <1>2, <1>3, <2>2, <2>3 DEF GenInv
  <2>5. GenerationConsumed'
    BY <2>2, <2>4 DEF GenInv, GenerationConsumed
  <2>6. \A y \in Exporters : exp'[y].pc # "idle" => exp'[y].gen = nextGen'[exp'[y].site]
    BY <1>3, <2>1, <2>2, <2>3
  <2>7. \A c \in bundles' :
          \/ c.gen < nextGen'[c.site]
          \/ c.gen = nextGen'[c.site] /\
               (cut'[c.site] \/ \E y \in Exporters : exp'[y].pc = "save"
                                                     /\ exp'[y].site = c.site)
    BY <1>3, <2>1, <2>2, <2>3 DEF GenInv
  <2> QED BY <2>5, <2>6, <2>7 DEF GenInv
<1>7. CASE ExSave(x)
  <2>1. /\ nextGen' = [nextGen EXCEPT ![exp[x].site] = exp[x].gen + 1]
        /\ UNCHANGED <<bundles, cut>> /\ exp'[x].pc = "idle"
        /\ exp[x].gen = nextGen[exp[x].site]
    BY <1>1, <1>7 DEF ExSave, NoExport, GenInv
  <2>2. \A b \in bundles : b.gen < nextGen'[b.site] \/
          (b.gen = nextGen'[b.site] /\ cut[b.site])
    BY <1>1, <1>2, <1>3, <2>1 DEF GenInv
  <2> QED BY <1>3, <2>1, <2>2 DEF GenInv, GenerationConsumed
<1>8. CASE ExKilled(x)
  <2>1. /\ UNCHANGED <<bundles, nextGen>> /\ exp'[x].pc = "idle"
        /\ \A s \in Sites : cut'[s] = (cut[s] \/ (s = exp[x].site /\ exp[x].pc = "save"))
    BY <1>1, <1>8 DEF ExKilled, NoExport
  <2>2. GenerationConsumed'
    BY <1>2, <2>1 DEF GenInv, GenerationConsumed
  <2>3. \A b \in bundles : b.gen < nextGen[b.site] \/
          (b.gen = nextGen[b.site] /\ cut'[b.site])
    BY <1>2, <1>3, <2>1 DEF GenInv
  <2> QED BY <1>3, <2>1, <2>2, <2>3 DEF GenInv
<1> QED BY <1>4, <1>5, <1>6, <1>7, <1>8 DEF ExStep

\* Every step of the system preserves GenInv.
LEMMA GenInvStep ==
  ASSUME OneExporter, RepInv, GenInv, [Next]_vars
  PROVE  GenInv'
<1>1. ASSUME NEW m \in Importers, NEW a \in ImportArgs, NEW b \in bundles,
             ImStart(m, a, b)
      PROVE  UNCHANGED <<nextGen, bundles, exp, cut>>
  BY <1>1 DEF ImStart, ImOnly
<1>2. ASSUME NEW m \in Importers, ImStep(m) \/ ImKilled(m)
      PROVE  UNCHANGED <<nextGen, bundles, exp, cut>>
  BY <1>2 DEF ImStep, ImEvidence, ImMerged, ImKnowledgeDone, ImKnowledgeFails,
              ImArchive, ImWrite, ImReceipt, ImKilled, ImOnly
<1>3. ASSUME NEW p \in Publishers, NEW a \in PublishArgs, Publish(p, a)
      PROVE  UNCHANGED <<nextGen, bundles, exp, cut>>
  BY <1>3 DEF Publish
<1>4. ASSUME NEW p \in Publishers, Published(p) \/ PublisherKilled(p)
      PROVE  UNCHANGED <<nextGen, bundles, exp, cut>>
  BY <1>4 DEF Published, PublisherKilled, repVars
<1>5. ASSUME \/ \E p \in Ingesters : IngestStep(p) /\ UNCHANGED repVars
             \/ \E s \in Syncing : SyncEvidence(s)
             \/ UNCHANGED vars
      PROVE  UNCHANGED <<nextGen, bundles, exp, cut>>
  BY <1>5 DEF SyncEvidence, vars, repVars
<1>6. ASSUME NEW x \in Exporters,
             (\E a \in ExportArgs : ExStart(x, a)) \/ ExStep(x) \/ ExKilled(x)
      PROVE  GenInv'
  BY <1>6, GenExport
<1> QED BY <1>1, <1>2, <1>3, <1>4, <1>5, <1>6, GenFrame DEF Next

\* No generation is handed out twice unless an export was killed between its
\* ZIP and its state.
THEOREM GenerationsUnique ==
  ASSUME OneImporter, OneExporter
  PROVE  Spec => []GenerationConsumed
<1>1. GenInv => GenerationConsumed
  BY DEF GenInv
<1> QED BY <1>1, RepInvInit, RepInvStep, GenInvInit, GenInvStep, PTL DEF Spec
==============================================================================

----------------------------- MODULE Knowledge -----------------------------
(***************************************************************************)
(* ppc-lab-knowledge: documents are ingested into a graph of nodes and     *)
(* edges, in whatever order and however often a site meets them, with or   *)
(* without a target given by hand.  A node that is there already takes the *)
(* new label and keeps its metadata; an edge belongs to the document that  *)
(* states it and is kept once.                                             *)
(*                                                                         *)
(* A node key is the tuple of the parts the code joins with colons.  A     *)
(* name that the code cleans before it makes a key of it (spaces around a  *)
(* function, the case of a digest, the notation of an address) is          *)
(* [is, as]: the clean name and how the document writes it.  A field that  *)
(* may be missing is a set of at most one value.                           *)
(***************************************************************************)
EXTENDS Naturals, FiniteSets

CONSTANTS
  Documents,   \* the documents, by content
  Doc,         \* [Documents -> the fields that document_relations reads; empty where
               \* the schema of the document keeps it from reading them]
  Sources,     \* the file names under which a document may be met
  Forced,      \* what --target-sha256 may say; NoTarget: not given
  NoTarget,
  MaxIngests   \* bound

Global == "global"
NoMeta == "{}"

\* A target is named by its hash (valid_sha), which "global" is not.
ASSUME KnowledgeAssumption ==
  /\ \A d \in Documents : IsFiniteSet(Doc[d].targets) /\ Global \notin Doc[d].targets
  /\ Global \notin Forced

VARIABLES
  nodes,     \* [keys -> [label, meta]]: the spellings in the last document that names
             \* the node, one of which is its label, and its metadata
  edges,     \* set of <<source key, target key, relation, document>>
  ingested   \* the ingests so far: set of <<document, forced target, source>>

knowledgeVars == <<nodes, edges, ingested>>

KnowledgeInit == nodes = <<>> /\ edges = {} /\ ingested = {}

-----------------------------------------------------------------------------
(* What a document has to say: statements <<node, relation, node>>, a node *)
(* being a row as add_node gets it.                                        *)
\* harvest_input_hashes, and the forced target.
Targets(d, t) == Doc[d].targets \cup ({t} \ {NoTarget})

\* scope_for
Scope(d, t) == IF Cardinality(Targets(d, t)) = 1
               THEN CHOOSE x \in Targets(d, t) : TRUE ELSE Global

Row(key, label, meta) == [key |-> key, label |-> label, meta |-> meta]
Cleaned(w) == [is |-> w.is, as |-> "clean"]

DocumentRow(d, src) == Row(<<"document", d>>, src, d)
TargetRow(x) == Row(<<"target", x>>, x, NoMeta)
AddressRow(d, t, a, meta) == Row(<<"address", Scope(d, t), a>>, a, meta)
FunctionRow(d, t, w, meta) == Row(<<"function", Scope(d, t), w.is>>, w, meta)
BehaviorRow(w) == Row(<<"behavior", w.is>>, w, w.is)
SymbolRow(d, t, s) ==
  LET label == IF s.name # {} THEN s.name ELSE s.address IN
  Row(<<"symbol", Scope(d, t), s.address, label>>, label, d)
HypothesisRow(d, t, h) ==
  Row(<<"hypothesis", Scope(d, t), h.subject, h.role, h.claim>>,
      IF h.claim # {} THEN h.claim ELSE h.subject, d)

\* The schema and the targets.
BasicSays(d, t, src) ==
  {<<DocumentRow(d, src), "has-schema", Row(<<"schema", Doc[d].schema>>, Doc[d].schema, NoMeta)>>}
    \cup {<<DocumentRow(d, src), "targets", TargetRow(x)>> : x \in Targets(d, t)}

\* "symbols": one without a name and an address is passed over.
SymbolsSay(d, t, src) ==
  UNION {{<<DocumentRow(d, src), "defines-symbol", SymbolRow(d, t, s)>>}
           \cup {<<SymbolRow(d, t, s), "located-at", AddressRow(d, t, a, NoMeta)>> : a \in s.address}
           : s \in {x \in Doc[d].symbols : x.name \cup x.address # {}}}

\* A trace analysis: functions, hot addresses with their function, which is the only
\* one to be cleaned for the label too, and calls.
TraceSays(d, t, src) ==
  {<<DocumentRow(d, src), "observed-function", FunctionRow(d, t, f, d)>> : f \in Doc[d].functions}
    \cup {<<FunctionRow(d, t, c[1], NoMeta), "observed-call", FunctionRow(d, t, c[2], NoMeta)>>
             : c \in Doc[d].calls}
    \cup UNION {{<<DocumentRow(d, src), "executed", AddressRow(d, t, h.pc.is, d)>>}
                  \cup {<<AddressRow(d, t, h.pc.is, d), "belongs-to-function",
                          FunctionRow(d, t, Cleaned(f), NoMeta)>> : f \in h.function}
                  : h \in Doc[d].hot}

\* The coverage that the hot addresses make, as they are written.
CoverageSays(d, src) ==
  {<<DocumentRow(d, src), "has-coverage", Row(<<"coverage", {h.pc : h \in hot}>>, "digest", "count")>>
     : hot \in {Doc[d].hot} \ {{}}}

\* harvest_behavior_hashes and behavior_payload: global, so that behaviours of
\* different targets meet.
BehaviorsSay(d, src) ==
  {<<DocumentRow(d, src), "has-behavior", BehaviorRow(Cleaned(b))>> : b \in Doc[d].behaviors}

\* What a corpus case and a campaign summary are about: one node, tied to every target.
AboutTargets(d, t, src, describes, subject, concerns) ==
  {<<DocumentRow(d, src), describes, subject>>}
    \cup {<<subject, concerns, TargetRow(x)>> : x \in Targets(d, t)}
SubjectSays(d, t, src) ==
  CASE Doc[d].schema = "ppc-lab-corpus-case-v1" ->
         AboutTargets(d, t, src, "describes-case",
                      Row(<<"corpus-case", Doc[d].id>>, Doc[d].id, d), "regresses-target")
    [] Doc[d].schema = "ppc-lab-campaign-summary-v1" ->
         AboutTargets(d, t, src, "describes-campaign",
                      Row(<<"campaign", Doc[d].manifest, Doc[d].id>>, Doc[d].id, d), "researched-target")
    [] OTHER -> {}

\* A triage, with the address of the first divergence on each side.
TriageRow(d) == Row(<<"triage", d>>, Doc[d].classification, d)
TriageSays(d, t, src) ==
  IF Doc[d].schema # "ppc-lab-differential-triage-v1" THEN {}
  ELSE {<<DocumentRow(d, src), "describes-triage", TriageRow(d)>>}
         \cup {<<TriageRow(d), "first-divergence-left", AddressRow(d, t, a, NoMeta)>> : a \in Doc[d].left}
         \cup {<<TriageRow(d), "first-divergence-right", AddressRow(d, t, a, NoMeta)>> : a \in Doc[d].right}

\* Hypotheses, with the behaviours that support them, whose label is as written, and
\* the address they are about.
HypothesesSay(d, t, src) ==
  UNION {{<<DocumentRow(d, src), IF h.supported THEN "supports-hypothesis" ELSE "proposes-hypothesis",
            HypothesisRow(d, t, h)>>}
           \cup {<<HypothesisRow(d, t, h), "hypothesizes-target", TargetRow(x)>> : x \in Targets(d, t)}
           \cup {<<HypothesisRow(d, t, h), "supported-by-behavior", BehaviorRow(b)>> : b \in h.supporting}
           \cup {<<HypothesisRow(d, t, h), "hypothesizes-state-at", AddressRow(d, t, a, NoMeta)>>
                    : a \in h.at}
           : h \in Doc[d].hypotheses}

\* Annotations of addresses.
AnnotationsSay(d, t, src) ==
  {<<DocumentRow(d, src), "annotates", AddressRow(d, t, a, NoMeta)>> : a \in Doc[d].annotated}

\* document_relations: an edge is stated only between nodes that the same call adds.
Says(d, t, src) ==
  BasicSays(d, t, src) \cup SymbolsSay(d, t, src) \cup TraceSays(d, t, src) \cup CoverageSays(d, src)
    \cup BehaviorsSay(d, src) \cup SubjectSays(d, t, src) \cup TriageSays(d, t, src)
    \cup HypothesesSay(d, t, src) \cup AnnotationsSay(d, t, src)
Rows(d, t, src) == UNION {{s[1], s[3]} : s \in Says(d, t, src)}
Edges(d, t, src) == {<<s[1].key, s[3].key, s[2], d>> : s \in Says(d, t, src)}

-----------------------------------------------------------------------------
(* ingest_paths and sync_evidence.                                         *)
Keys(rows) == {r.key : r \in rows}
Spellings(rows, k) == {r.label : r \in {x \in rows : x.key = k}}

\* The metadata a document has for a key.
MetaIn(rows, k) ==
  LET some == {r.meta : r \in {x \in rows : x.key = k /\ x.meta # NoMeta}} IN
  IF some = {} THEN NoMeta ELSE CHOOSE m \in some : TRUE

\* (mutant) The last document decides on the metadata, too.
Merged_last(rows) ==
  [k \in DOMAIN nodes \cup Keys(rows) |->
     IF k \notin Keys(rows) THEN nodes[k]
     ELSE [label |-> Spellings(rows, k), meta |-> MetaIn(rows, k)]]

\* add_node: the label is replaced, metadata stays unless it was empty.
Merged(rows) ==
  [k \in DOMAIN nodes \cup Keys(rows) |->
     IF k \notin Keys(rows) THEN nodes[k]
     ELSE [label |-> Spellings(rows, k),
           meta |-> IF k \in DOMAIN nodes /\ nodes[k].meta # NoMeta THEN nodes[k].meta
                    ELSE MetaIn(rows, k)]]

\* ingest_document, committed.
Ingest(d, t, src) ==
  /\ Cardinality(ingested \cup {<<d, t, src>>}) <= MaxIngests
  /\ nodes' = Merged(Rows(d, t, src))
  /\ edges' = edges \cup Edges(d, t, src)
  /\ ingested' = ingested \cup {<<d, t, src>>}

KnowledgeNext == \E d \in Documents, t \in Forced, src \in Sources : Ingest(d, t, src)

KnowledgeSpec == KnowledgeInit /\ [][KnowledgeNext]_knowledgeVars

-----------------------------------------------------------------------------
(* The questions that are put to the graph.                                *)
\* related_graph: what lies within a number of hops, in either direction.
Neighbours(k) == {e[2] : e \in {x \in edges : x[1] = k}} \cup {e[1] : e \in {x \in edges : x[2] = k}}

Related(k, depth) ==
  LET within[n \in 0..depth] ==
        IF n = 0 THEN {k} ELSE within[n - 1] \cup UNION {Neighbours(j) : j \in within[n - 1]}
  IN within[depth]

\* The target_sha256 column.
TargetOf(k) == IF k[1] \in {"target", "symbol", "address", "function", "hypothesis"}
               THEN k[2] ELSE Global

\* docs_for_target, on which export_decompiler works.
DocsForTarget(t) ==
  {e[4] : e \in {x \in edges : TargetOf(x[1]) = t \/ TargetOf(x[2]) = t}}

-----------------------------------------------------------------------------
AllTargets == (Forced \ {NoTarget}) \cup UNION {Doc[d].targets : d \in Documents}
RowsOf(i) == Rows(i[1], i[2], i[3])
EdgesOf(i) == Edges(i[1], i[2], i[3])

\* The kinds of node whose label is how a document writes a name, or the file's name.
SpelledKinds == {"document", "function", "behavior"}

\* "Ingestion is additive and deterministic" (KNOWLEDGE_GRAPH.md): in whatever order
\* and however often documents were ingested, the graph has the same keys and edges.
\* Order decides only which document's metadata a node carries, never whether it
\* carries any, and, for the kinds that are labelled as written, whose spelling; all
\* other labels are the same.  So what is exported for a target comes from the
\* documents that name it, all of them and no others, and every target with a
\* behaviour is two hops away from it.
GraphConverges ==
  /\ DOMAIN nodes = UNION {Keys(RowsOf(i)) : i \in ingested}
  /\ edges = UNION {EdgesOf(i) : i \in ingested}
  /\ \A k \in DOMAIN nodes :
       LET said == UNION {{r \in RowsOf(i) : r.key = k} : i \in ingested} IN
       /\ nodes[k].label # {} /\ nodes[k].label \subseteq {r.label : r \in said}
       /\ k[1] \notin SpelledKinds => \A r \in said : nodes[k].label = {r.label}
       /\ nodes[k].meta \in {r.meta : r \in said}
       /\ nodes[k].meta = NoMeta => \A r \in said : r.meta = NoMeta
  /\ \A t \in AllTargets : DocsForTarget(t) = {i[1] : i \in {x \in ingested : t \in Targets(x[1], x[2])}}
  /\ \A i \in ingested : \A b \in Doc[i[1]].behaviors, t \in Targets(i[1], i[2]) :
       <<"target", t>> \in Related(<<"behavior", b.is>>, 2)
=============================================================================

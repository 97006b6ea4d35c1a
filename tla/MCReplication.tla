---------------------------- MODULE MCReplication ----------------------------
(* Site A exports to site B while evidence is published at both, at B by a *)
(* publisher that one bad file makes give up.                              *)
EXTENDS Replication

CONSTANTS siteA, siteB, d1, d2, foreign, pub, xp, im, nobody

MCSites == {siteA, siteB}
MCDocs == {d1, d2}
MCIngesters == {pub, im}
MCHistory == [s \in MCSites |-> 1]
MCPublishArgs ==
  {[site |-> siteA, files |-> <<d1, foreign, d2>>, strict |-> FALSE],
   [site |-> siteB, files |-> <<d1, foreign>>, strict |-> TRUE]}
MCExportArgs == {[site |-> siteA, parts |-> Parts]}
MCImportArgs ==
  {[site |-> siteB, dst |-> {"evidence", "knowledge"}],
   [site |-> siteB, dst |-> {"knowledge"}]}
==============================================================================

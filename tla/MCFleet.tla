------------------------------- MODULE MCFleet -------------------------------
(* Two hosts and two jobs that share their document, input and cache key;  *)
(* the second has the tag of one host only.                                *)
EXTENDS Fleet

CONSTANTS hA, hB, doc, file, c1, c2, v1, v2

MCHostList == <<hA, hB>>
MCSlots == (hA :> 1) @@ (hB :> 1)
MCDoc == [j \in 0..1 |-> doc]
MCInput == [j \in 0..1 |-> file]
MCTagged == (0 :> {hA, hB}) @@ (1 :> {hB})
MCAsksBuiltin == doc :> "builtin"
MCAsksAuto == doc :> "auto"
MCInstalled == {(hA :> v1) @@ (hB :> v1), (hA :> v1) @@ (hB :> v2)}
MCSucceeds == Results \ {<<doc, c1, v1, "builtin">>}
==============================================================================

--------------------------- MODULE MCControlPlane ---------------------------
(* Two queue items, the later one more urgent. *)
EXTENDS ControlPlane

MCPrio == [i \in Ids |-> i]
=============================================================================

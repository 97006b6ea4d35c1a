----------------------------- MODULE MCScheduler -----------------------------
(***************************************************************************)
(* The first half of the campaigns is project 1 (weight 1, one process at  *)
(* a time, a budget that fits each campaign once), the rest project 2      *)
(* (weight 2, two processes, a budget for one campaign).                   *)
(***************************************************************************)
EXTENDS Scheduler

MCProjectOf == [c \in Campaigns |-> IF 2 * c <= Cardinality(Campaigns) + 1 THEN 1 ELSE 2]
MCPriority  == [c \in Campaigns |-> IF c = 2 THEN 5 ELSE 0]
MCReserve   == [c \in Campaigns |-> IF c = 2 THEN 2 ELSE 1]
MCWeight    == [p \in Projects |-> p]
MCProjectMax == [p \in Projects |-> p]
MCBudget    == [p \in Projects |-> IF p = 1 THEN 3 ELSE 1]
=============================================================================

---------------------------- MODULE MCHostPeers ----------------------------
(***************************************************************************)
(* HostPeers for TLC: the readers that hold a frame at one time are        *)
(* bounded.                                                                *)
(***************************************************************************)
EXTENDS HostPeers, FiniteSets

CONSTANT MaxBusy

Busy == {r \in Readers : reader[r] \in {"bind", "report", "answer"}}

MCNext == Next /\ Cardinality(Busy') <= MaxBusy

MCFairSpec == Init /\ [][MCNext]_vars /\ Fairness
============================================================================

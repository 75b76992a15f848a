-------------------------- MODULE MCResourceSync --------------------------
(***************************************************************************)
(* ResourceSync for TLC: the messages on a connection are bounded.  There  *)
(* are more than its queue holds, and the next one finds the queue full.   *)
(***************************************************************************)
EXTENDS ResourceSync

CONSTANT MaxLink

MCNext == Next /\ \A d \in Devices : Len(link'[d]) <= MaxLink

MCSpec == Init /\ [][MCNext]_vars
MCFairSpec == MCSpec /\ Fairness
============================================================================

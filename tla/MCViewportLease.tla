-------------------------- MODULE MCViewportLease --------------------------
(***************************************************************************)
(* ViewportLease for TLC: the generation counter is bounded.               *)
(***************************************************************************)
EXTENDS ViewportLease

CONSTANT MaxGeneration

MCNext == LeaseNext /\ generation' <= MaxGeneration

MCSpec == LeaseInit /\ [][MCNext]_leaseVars
============================================================================

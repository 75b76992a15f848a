-------------------------- MODULE MCSequenceGuard --------------------------
(***************************************************************************)
(* SequenceGuard for TLC: the numbers are bounded.                         *)
(***************************************************************************)
EXTENDS SequenceGuard

CONSTANT MaxNumber

MCNext == \E n \in 1..MaxNumber : Send(n) \/ Deliver(n)

MCSpec == GuardInit /\ [][MCNext]_envelopeVars
============================================================================

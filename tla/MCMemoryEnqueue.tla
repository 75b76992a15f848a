--------------------------- MODULE MCMemoryEnqueue -------------------------
(***************************************************************************)
(* MemoryEnqueue for TLC; its state is finite for finite constants.        *)
(***************************************************************************)
EXTENDS MemoryEnqueue
============================================================================

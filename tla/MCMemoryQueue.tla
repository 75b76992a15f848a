--------------------------- MODULE MCMemoryQueue ---------------------------
(***************************************************************************)
(* MemoryQueue for TLC; its state is finite for finite constants.          *)
(***************************************************************************)
EXTENDS MemoryQueue
============================================================================

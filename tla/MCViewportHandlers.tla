------------------------ MODULE MCViewportHandlers ------------------------
(***************************************************************************)
(* ViewportHandlers for TLC: every bound is a constant of the model, so    *)
(* the configurations only choose the devices, the tasks and the lease.    *)
(***************************************************************************)
EXTENDS ViewportHandlers
============================================================================

------------------------- MODULE AgentWorktreeLife -------------------------
(***************************************************************************)
(* What the agent worktree operations promise for one task: at most one    *)
(* of the requests for it has an operation at a time, its worktree is      *)
(* merged only once the agent has completed, and removed only once it was  *)
(* merged.  A restart of the runtime gives up what was under way and may   *)
(* forget what was not saved, never the order.                             *)
(***************************************************************************)
EXTENDS Naturals

CONSTANT Requests

VARIABLE phase

Phases == {"none", "working", "completed", "merged", "removed", "failed"}
Over == {"none", "removed", "failed"}

\* What a restart may find of each phase.
Fallback(p) ==
    IF p = "none" THEN {"none"}
    ELSE IF p \in {"working", "failed"} THEN {"failed"}
    ELSE IF p = "completed" THEN {"completed", "failed"}
    ELSE IF p = "merged" THEN {"merged", "completed", "failed"}
    ELSE {"removed", "merged", "completed", "failed"}

Move(r, from, to) == phase[r] \in from /\ phase' = [phase EXCEPT ![r] = to]

Begin(r) == (\A s \in Requests : phase[s] \in Over) /\ Move(r, Over, "working")
Complete(r) == Move(r, {"working"}, "completed")
Fail(r) == Move(r, {"working"}, "failed")
Merge(r) == Move(r, {"completed"}, "merged")
Remove(r) == Move(r, {"merged"}, "removed")

Restart ==
    /\ phase' \in [Requests -> Phases]
    /\ \A r \in Requests : phase'[r] \in Fallback(phase[r])

Init == phase = [r \in Requests |-> "none"]

Next ==
    \/ \E r \in Requests : Begin(r) \/ Complete(r) \/ Fail(r) \/ Merge(r) \/ Remove(r)
    \/ Restart

Spec == Init /\ [][Next]_phase
============================================================================

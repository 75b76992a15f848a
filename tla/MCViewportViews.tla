-------------------------- MODULE MCViewportViews --------------------------
(***************************************************************************)
(* ViewportViews for TLC: the generation and the number of messages that   *)
(* are on their way at one time are bounded.                               *)
(***************************************************************************)
EXTENDS ViewportViews, FiniteSets

CONSTANTS MaxGeneration, MaxSent

MCNext ==
    /\ Next
    /\ generation' <= MaxGeneration
    /\ Cardinality(sent') <= MaxSent

MCFairSpec == Init /\ [][MCNext]_vars /\ Fairness
============================================================================

----------------------------- MODULE MC_Tracking ------------------------------
(* Values for the constants of DomeTracking.                                 *)
EXTENDS DomeTracking
AnyGap == {0, 1, 2}

\* The theorems about the dome apply to the instance that is checked.
ASSUME TheoremsApply == Distinguishable
===============================================================================

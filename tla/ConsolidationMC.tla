--------------------------- MODULE ConsolidationMC ---------------------------
(***************************************************************************)
(* Consolidation for TLC: two jobs with a publisher each.                 *)
(***************************************************************************)
EXTENDS Consolidation, TLC

CONSTANTS j1, j2, f1, f2, d1, d2

TwoJobs == f1 :> j1 @@ f2 :> j2

TwoAndOne == f1 :> 2 @@ f2 :> 1

\* The seconds in which two calls are made play the same part.
DestsSymmetry == Permutations({d1, d2})
=============================================================================

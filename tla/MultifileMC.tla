----------------------------- MODULE MultifileMC -----------------------------
(***************************************************************************)
(* Multifile for TLC.  One process, with two applications and a message    *)
(* without any, in a tree where others make directories and files; and two *)
(* processes in one DIRECTORY with one application.                        *)
(***************************************************************************)
EXTENDS Multifile, TLC

CONSTANTS p1, p2, m0, m1, m2, a1, a2

TwoApps == m1 :> a1 @@ m2 :> a2 @@ m0 :> NoApp
OneApp == m1 :> a1
=============================================================================

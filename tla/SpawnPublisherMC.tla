-------------------------- MODULE SpawnPublisherMC --------------------------
(***************************************************************************)
(* SpawnPublisher for TLC.  The configurations choose the processes and    *)
(* the plugin of each.                                                     *)
(***************************************************************************)
EXTENDS SpawnPublisher, TLC

CONSTANTS p1, p2, m1, m2, n1, n2

\* A curl and a script publisher that share the scratch directory.  The shells of
\* curl are those of the ldms plugins where it does not debug.
CurlAndScript == p1 :> "curl" @@ p2 :> "script"

ScriptOnly == p1 :> "script"

\* No action reads the return code of the last call and no liveness property
\* mentions it: states that differ in it alone have the same future.
WithoutReturnCodes == <<object, call, scratch, left, accepted>>
=============================================================================

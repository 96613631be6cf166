--------------------------- MODULE MultiPublisherMC ---------------------------
(***************************************************************************)
(* MultiPublisher for TLC: two multi_publishers that can share publishers. *)
(***************************************************************************)
EXTENDS MultiPublisher, TLC

CONSTANTS o1, o2, o3, x1, x2

\* A publisher that may fail before another; a name that nobody knows before one.
MCNameLists == {<<"session", "syslog">>, <<"unknown", "session">>}

ObjectsAndMultis == Permutations({o1, o2, o3}) \cup Permutations({x1, x2})
===============================================================================

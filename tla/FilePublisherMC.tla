-------------------------- MODULE FilePublisherMC --------------------------
(***************************************************************************)
(* FilePublisher for TLC: two messages, one directory, one file name, so   *)
(* that the sessions of successive objects meet in the same file.         *)
(***************************************************************************)
EXTENDS FilePublisher, TLC

CONSTANTS m1, m2, d1, f1

MCMessages == {m1, m2}
MCDirs == {d1}
MCNames == {f1}
MCDefaultConf == [DIRECTORY |-> d1, FILE |-> f1, APPEND |-> FALSE]

\* Nothing set; append; the empty name.
MCOptionMaps == {<<>>, "APPEND" :> TRUE, "FILE" :> NoName}

\* Nothing set; append.
MCEnvironments == {<<>>, "APPEND" :> TRUE}

\* No definition tells messages apart; safety properties only.
MessageSymmetry == Permutations(MCMessages)
=============================================================================

--------------------------- MODULE RankSectionsMC ----------------------------
(***************************************************************************)
(* RankSections for TLC: three ranks on two hosts.  In their collective    *)
(* calls they ask for different lists, and for other things in the call    *)
(* between; one program leaves time for host sections, one is without MPI. *)
(***************************************************************************)
EXTENDS RankSections

CONSTANTS h1, h2

TwoHosts == [r \in 0..2 |-> IF r = 2 THEN h2 ELSE h1]

ThreeCalls ==
    [r \in 0..2 |->
       << IF r = 0 THEN {"mpi_rank", "mpi_hostlist"} ELSE {"mpi_rank_host"},
          IF r = 1 THEN {} ELSE {"mpi_rank"},
          IF r = 2 THEN {"mpi_hostlist"} ELSE {"mpi_rank_host", "mpi_size"} >>]

OneCall == [r \in 0..2 |-> << {"mpi_hostlist"} >>]

Programs == {ThreeCalls, OneCall, [r \in 0..2 |-> <<>>]}
=============================================================================

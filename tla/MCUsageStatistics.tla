-------------------------- MODULE MCUsageStatistics --------------------------
(***************************************************************************)
(* A small instance of UsageStatistics for TLC.                            *)
(***************************************************************************)
EXTENDS UsageStatistics

MCSymmetry == Permutations(Threads)

=============================================================================

-------------------------- MODULE MCDatabaseSchema --------------------------
(***************************************************************************)
(* A small instance of DatabaseSchema for TLC.                             *)
(***************************************************************************)
EXTENDS DatabaseSchema, TLC

MCNoLostCopy == FaultKinds \ {"copy"}
MCSymmetry == Permutations(Tables) \cup Permutations(Rows)

=============================================================================

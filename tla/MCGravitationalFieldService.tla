-------------------- MODULE MCGravitationalFieldService --------------------
(***************************************************************************)
(* Small instances of GravitationalFieldService for TLC.                   *)
(***************************************************************************)
EXTENDS ServiceInvariants, TLC

MCNoLostField == FaultKinds \ {"completed"}
MCNoDate == {NoDate}
MCDates == {NoDate, 0, 1}
MCInterchangeable == Permutations(Workers) \cup Permutations(FieldIds)

=============================================================================

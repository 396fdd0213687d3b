---------------------------- MODULE MCSyncEngine ----------------------------
(***************************************************************************)
(* SyncEngine for TLC: the symmetry of its model values.                   *)
(***************************************************************************)
EXTENDS SyncEngine, TLC

EngineSymmetry ==
    Permutations(Paths) \cup Permutations(UserContents) \cup Permutations(OtherContents)

=============================================================================

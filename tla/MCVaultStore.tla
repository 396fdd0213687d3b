---------------------------- MODULE MCVaultStore ----------------------------
(***************************************************************************)
(* VaultStore for TLC: the symmetry of its model values, and the versioned *)
(* map its table of files implements.                                      *)
(***************************************************************************)
EXTENDS VaultStore, TLC

StoreSymmetry ==
    Permutations(Paths) \cup Permutations(Contents) \cup Permutations(Devices)
        \cup Permutations(Writers) \cup Permutations(OpIds)

\* Bound: an operation is answered once, and once more when it is sent again;
\* a behaviour that restores a version has no such operation.
RetriesApart ==
    answers # {} => /\ Cardinality(answers) <= 2
                    /\ \A d \in Writers : restoring[d] = Idle

=============================================================================

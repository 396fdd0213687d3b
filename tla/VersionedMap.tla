---------------------------- MODULE VersionedMap ----------------------------
(***************************************************************************)
(* What the store promises about a vault's current state, whatever table   *)
(* it is kept in: one versioned row per path, every commit gives the paths *)
(* it writes revisions that were never given before, and only a tombstone  *)
(* is ever forgotten.                                                      *)
(***************************************************************************)
EXTENDS Integers, FiniteSets

CONSTANTS Paths, Contents, Deleted

VARIABLES
    head,   \* the current version of each path
    issued  \* the last revision given out

vars == <<head, issued>>

None == [rev |-> 0, content |-> Deleted]

Init ==
    /\ head = [p \in Paths |-> None]
    /\ issued = 0

\* The paths in written change together, and the others not at all.
Commit(written) ==
    /\ issued' \in Nat
    /\ issued' > issued
    /\ head' \in [Paths -> [rev : Nat, content : Contents \cup {Deleted}]]
    /\ \A p \in Paths \ written : head'[p] = head[p]
    /\ \A p \in written : issued < head'[p].rev /\ head'[p].rev <= issued'
    /\ \A p, q \in written : head'[p].rev = head'[q].rev => p = q

Forget(dropped) ==
    /\ \A p \in dropped : head[p].content = Deleted
    /\ head' = [p \in Paths |-> IF p \in dropped THEN None ELSE head[p]]
    /\ UNCHANGED issued

Next == \E ps \in SUBSET Paths : Commit(ps) \/ Forget(ps)

Spec == Init /\ [][Next]_vars

=============================================================================

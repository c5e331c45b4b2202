------------------------------- MODULE MCDelta -------------------------------
(* Small instances of DeltaSync for TLC. *)
EXTENDS DeltaSync, TLC

\* Ids and connections are interchangeable (safety runs only).
Symmetry == Permutations(Entity) \cup Permutations(Tx)

=============================================================================

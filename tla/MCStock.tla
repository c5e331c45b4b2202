------------------------------- MODULE MCStock -------------------------------
(* Small instances of Stock for TLC. *)
EXTENDS Stock, TLC

CONSTANTS s1, s2, p1, p2, l1, l2, l3

\* Everything is in s1 but one shelf, which is somebody else's.
Homes == [x \in Product \cup Location \cup Container |-> IF x = l3 THEN s2 ELSE s1]

Symmetry == Permutations({p1, p2}) \cup Permutations({l1, l2}) \cup Permutations(Container)
                \cup Permutations(Batch)

=============================================================================

------------------------------- MODULE MCJobs -------------------------------
(* Small instances of Jobs for TLC. *)
EXTENDS Jobs, TLC

\* Jobs and process lives are interchangeable (safety runs only).
Symmetry == Permutations(Job) \cup Permutations(Proc)

=============================================================================

----------------------------- MODULE MCLearning -----------------------------
(* Learning on a small instance for TLC. *)
EXTENDS Learning, TLC

\* The captured token lists are interchangeable.
MCSymmetry == Permutations(Texts)

=============================================================================

---------------------------- MODULE MCNewcomers ----------------------------
(* Newcomers on a small instance for TLC. *)
EXTENDS Newcomers, TLC

CONSTANTS u1, u2

MCUsers == {u1, u2}
\* Nothing distinguishes the users.
Symmetry == Permutations(MCUsers)

=============================================================================

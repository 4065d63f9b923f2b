------------------------------ MODULE MCTraffic ------------------------------
(* Traffic on a small instance for TLC. *)
EXTENDS Traffic

=============================================================================

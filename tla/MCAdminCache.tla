---------------------------- MODULE MCAdminCache ----------------------------
(* AdminCache on a small instance for TLC. *)
EXTENDS AdminCache

=============================================================================

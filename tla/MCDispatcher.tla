---------------------------- MODULE MCDispatcher ----------------------------
(* Dispatcher on a small instance for TLC: two calls of one priority and chat *)
(* (a ban and a deletion), and a card for the admin chat.                     *)
EXTENDS Dispatcher

CONSTANTS ban, del, card, group, admins

MCRequests == {ban, del, card}
MCPrio == [r \in MCRequests |-> IF r = card THEN 1 ELSE 0]
MCChat == [r \in MCRequests |-> IF r = card THEN admins ELSE group]

=============================================================================

------------------------------- MODULE MCLibra -------------------------------
(* The association and one account that preburns. *)
EXTENDS Libra

CONSTANTS assoc, alice
=============================================================================

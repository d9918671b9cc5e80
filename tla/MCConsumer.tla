------------------------------ MODULE MCConsumer ------------------------------
(***************************************************************************)
(* Two instances of a group on a partition of three messages.              *)
(***************************************************************************)
EXTENDS Consumer

CONSTANTS c1, c2

=============================================================================

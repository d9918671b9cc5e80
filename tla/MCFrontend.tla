----------------------------- MODULE MCFrontend -----------------------------
(***************************************************************************)
(* A small instance of Frontend: an admin and a customer, one order that   *)
(* has failed and one that is decided while it is looked at.               *)
(***************************************************************************)
EXTENDS Frontend

MCEmails == {"admin", "ann"}
MCAdmins == {"admin"}

\* Order 2 was placed last.
MCByAge == <<2, 1>>

\* The newest failure, and one order's life.
MCAsked == {[asks |-> {"failure"}, names |-> 0], [asks |-> {"lifecycle"}, names |-> 2]}

=============================================================================

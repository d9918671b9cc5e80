---------------------------- MODULE MCOrderSaga ----------------------------
(***************************************************************************)
(* Small instances of OrderSaga.  Two orders compete for the only unit of  *)
(* s2 while there is enough of s1 for both, so a reservation may update    *)
(* its first line and find no stock for its second.                        *)
(***************************************************************************)
EXTENDS OrderSagaRefinement

CONSTANTS o1, o2, s1, s2

MCQty    == [o \in {o1, o2} |->
               [s \in {s1, s2} |-> IF o = o2 /\ s = s1 THEN 2 ELSE 1]]
MCStock0 == [s \in {s1, s2} |-> IF s = s1 THEN 3 ELSE 1]

=============================================================================

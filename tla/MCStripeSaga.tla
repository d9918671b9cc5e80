---------------------------- MODULE MCStripeSaga ----------------------------
(***************************************************************************)
(* Small instances of StripeSaga: o1 is charged by payment-service, o2 is  *)
(* paid for in the browser, and both want the last unit of s1.             *)
(***************************************************************************)
EXTENDS StripeSaga

CONSTANTS o1, o2, s1

MCQty    == [o \in Orders |-> [s \in Skus |-> 1]]
MCStock0 == [s \in Skus |-> 1]

=============================================================================

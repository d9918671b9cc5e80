---------------------------- MODULE MCStorefront ----------------------------
(***************************************************************************)
(* Small instances of Storefront with one SKU: a checkout page and two API *)
(* clients that use the same Idempotency-Key for different customers.      *)
(***************************************************************************)
EXTENDS Storefront

CONSTANTS s1, page1, api1, api2, ann, bob, k1

MCCart     == [v \in Visits |-> [s \in Skus |-> 1]]
MCCustomer == [v \in Visits |-> IF v = api2 THEN bob ELSE ann]
MCKey      == [v \in Visits |-> IF v = page1 THEN NoKey ELSE k1]
MCTries    == [v \in Visits |-> IF v = api2 THEN 1 ELSE 2]
MCStock0   == [s \in Skus |-> 1]

=============================================================================

----------------------------- MODULE MCStockRows -----------------------------
(***************************************************************************)
(* A small instance of StockRows: two instances, and three carts that list *)
(* the same two products, one in the opposite order; the stock of one      *)
(* product is enough for two orders only.                                  *)
(***************************************************************************)
EXTENDS StockRows

MCCart == [o \in Orders |-> IF o = "o1" THEN <<"s1", "s2">> ELSE <<"s2", "s1">>]
MCQty == [o \in Orders |-> [s \in Skus |-> 1]]
MCStock0 == [s \in Skus |-> IF s = "s1" THEN 2 ELSE 3]

=============================================================================

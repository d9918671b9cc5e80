------------------------------ MODULE DemoData ------------------------------
(***************************************************************************)
(* The fixtures of the public demo and the context the copilot's engine    *)
(* gets from them.  Demo orders have ids of their own; money, times,       *)
(* uptimes and payloads are left out.                                      *)
(***************************************************************************)
EXTENDS Naturals, Sequences, Functions

\* One confirmed, one pending and one failed order, in that order.
demoOrders ==
  <<[order |-> 101, row |-> "CONFIRMED"],
    [order |-> 102, row |-> "PENDING"],
    [order |-> 103, row |-> "FAILED"]>>

\* Newest first: the whole life of the confirmed order, and of the failed one
\* the failure only.
demoEvents ==
  <<[order |-> 101, type |-> "OrderConfirmed"],
    [order |-> 101, type |-> "PaymentCompleted"],
    [order |-> 101, type |-> "InventoryReserved"],
    [order |-> 101, type |-> "OrderCreated"],
    [order |-> 103, type |-> "PaymentFailed"]>>

demoMetrics == [placed |-> 18, confirmed |-> 16, failed |-> 2]

\* svc: every service reports healthy.
demoSystemHealth == {}

buildDemoContext ==
  [metrics |-> demoMetrics, orders |-> demoOrders, events |-> demoEvents,
   down |-> demoSystemHealth]

\* The fixtures contradict each other nowhere: every event is of a listed order
\* whose status it fits.
ASSUME DemoAssumption ==
  \A e \in Range(demoEvents) :
    \E x \in Range(demoOrders) :
      /\ x.order = e.order
      /\ e.type \in {"OrderConfirmed", "PaymentCompleted"} => x.row = "CONFIRMED"
      /\ e.type = "PaymentFailed" => x.row = "FAILED"

=============================================================================

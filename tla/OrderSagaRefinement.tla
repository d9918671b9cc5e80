------------------------ MODULE OrderSagaRefinement ------------------------
(***************************************************************************)
(* The order saga implements OrderLifecycle: the row's status is the stage *)
(* and the events inventory-service has answered with say what became of   *)
(* the order's stock.                                                      *)
(***************************************************************************)
EXTENDS OrderSaga

HoldOf(o) ==
  IF Reserved(o) THEN IF Released(o) THEN "returned" ELSE "held"
  ELSE IF made["InventoryFailed"][o] > 0 THEN "refused" ELSE "none"

holdOf == [o \in Orders |-> HoldOf(o)]

Lifecycle == INSTANCE OrderLifecycle
               WITH stage <- status, hold <- holdOf, free <- available

\* Every step of the services and of the relay is one step of the order's life
\* or none: re-deliveries, contradictory payment events and late verdicts are
\* invisible in it.
ImplementsLifecycle == Lifecycle!Spec

=============================================================================

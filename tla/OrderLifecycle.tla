--------------------------- MODULE OrderLifecycle ---------------------------
(***************************************************************************)
(* What the order saga promises, without events, topics or services: an    *)
(* order is placed, its stock is held or refused, and it is confirmed with *)
(* its stock or fails; the stock of a failed order goes back.              *)
(***************************************************************************)
EXTENDS Integers

CONSTANTS Orders, Skus, Qty, Stock0

VARIABLES
  stage,   \* the customer's view of each order
  hold,    \* what has become of its stock
  free     \* units of each SKU that no order holds

lifecycle == <<stage, hold, free>>

Fits(o) == \A s \in Skus : Qty[o][s] <= free[s]

Init ==
  /\ stage = [o \in Orders |-> "none"]
  /\ hold = [o \in Orders |-> "none"]
  /\ free = Stock0

Place(o) ==
  /\ stage[o] = "none"
  /\ stage' = [stage EXCEPT ![o] = "PENDING"]
  /\ UNCHANGED <<hold, free>>

Hold(o) ==
  /\ stage[o] = "PENDING" /\ hold[o] = "none" /\ Fits(o)
  /\ hold' = [hold EXCEPT ![o] = "held"]
  /\ free' = [s \in Skus |-> free[s] - Qty[o][s]]
  /\ UNCHANGED stage

Refuse(o) ==
  /\ stage[o] = "PENDING" /\ hold[o] = "none" /\ ~Fits(o)
  /\ hold' = [hold EXCEPT ![o] = "refused"]
  /\ UNCHANGED <<stage, free>>

Confirm(o) ==
  /\ stage[o] = "PENDING" /\ hold[o] = "held"
  /\ stage' = [stage EXCEPT ![o] = "CONFIRMED"]
  /\ UNCHANGED <<hold, free>>

Fail(o) ==
  /\ stage[o] = "PENDING" /\ hold[o] \in {"held", "refused"}
  /\ stage' = [stage EXCEPT ![o] = "FAILED"]
  /\ UNCHANGED <<hold, free>>

Return(o) ==
  /\ stage[o] = "FAILED" /\ hold[o] = "held"
  /\ hold' = [hold EXCEPT ![o] = "returned"]
  /\ free' = [s \in Skus |-> free[s] + Qty[o][s]]
  /\ UNCHANGED stage

Step(o) == Place(o) \/ Hold(o) \/ Refuse(o) \/ Confirm(o) \/ Fail(o) \/ Return(o)

Next == \E o \in Orders : Step(o)

Spec == Init /\ [][Next]_lifecycle

=============================================================================

------------------------------ MODULE StockSteps ------------------------------
(***************************************************************************)
(* What inventory-service promises, as if there were one instance of it    *)
(* and each of its transactions were a single step: the stock of an order  *)
(* is taken in one piece, or refused because it fell short of a line, and  *)
(* goes back once at most.                                                 *)
(***************************************************************************)
EXTENDS Integers

CONSTANTS Orders, Skus, Qty, Stock0

VARIABLES
  available, reserved,
  stage         \* how far each order's stock is decided

steps == <<available, reserved, stage>>

Init ==
  /\ available = Stock0
  /\ reserved = [s \in Skus |-> 0]
  /\ stage = [o \in Orders |-> "new"]

Move(o, from, to) == stage[o] = from /\ stage' = [stage EXCEPT ![o] = to]

\* q[s] units of each product change columns.
Shift(q) ==
  /\ available' = [s \in Skus |-> available[s] - q[s]]
  /\ reserved'  = [s \in Skus |-> reserved[s] + q[s]]

Reserve(o) ==
  /\ Move(o, "new", "held")
  /\ \A s \in Skus : available[s] >= Qty[o][s]
  /\ Shift(Qty[o])

\* The stock is seen to fall short of a line; the refusal may come later, when
\* it no longer does, or not at all.
FallShort(o) ==
  /\ Move(o, "new", "short")
  /\ \E s \in Skus : available[s] < Qty[o][s]
  /\ UNCHANGED <<available, reserved>>

Refuse(o)   == Move(o, "short", "refused") /\ UNCHANGED <<available, reserved>>
StartOver(o) == Move(o, "short", "new") /\ UNCHANGED <<available, reserved>>

Release(o) ==
  /\ Move(o, "held", "returned")
  /\ Shift([s \in Skus |-> -Qty[o][s]])

Step(o) == Reserve(o) \/ FallShort(o) \/ Refuse(o) \/ StartOver(o) \/ Release(o)

Next == \E o \in Orders : Step(o)

Spec == Init /\ [][Next]_steps

=============================================================================

------------------------------ MODULE OrderLog ------------------------------
(***************************************************************************)
(* What the reads of order-service see of each order, without brokers or   *)
(* services: its row in orders and the types of its rows in outbox.  The   *)
(* sagas implement it; the pages of the frontend read it.                  *)
(*                                                                         *)
(* In simulated mode payment outcomes go straight to Kafka and never       *)
(* appear in the outbox.  In Stripe mode payment-service writes its        *)
(* outcome there, before or after the webhook's copy has decided the       *)
(* order.                                                                  *)
(***************************************************************************)
CONSTANTS
  Orders,
  Logged        \* orders whose payment goes through Stripe

ASSUME LoggedAssumption == Logged \subseteq Orders

VARIABLES
  row,          \* orders.status, "none" before the insert
  log           \* log[o]: types of the outbox rows of order o

orderLog == <<row, log>>

LogTypes == {"OrderCreated", "InventoryReserved", "InventoryFailed",
             "PaymentCompleted", "PaymentFailed", "ReleaseInventory",
             "OrderConfirmed", "OrderFailed"}

Verdicts == {"CONFIRMED", "FAILED"}

Record(o, T) == log' = [log EXCEPT ![o] = @ \cup T]
Decide(o, v) == row[o] = "PENDING" /\ row' = [row EXCEPT ![o] = v]

LogInit ==
  /\ row = [o \in Orders |-> "none"]
  /\ log = [o \in Orders |-> {}]

\* POST /orders: the row and its OrderCreated event commit together.
Insert(o) ==
  /\ row[o] = "none"
  /\ row' = [row EXCEPT ![o] = "PENDING"]
  /\ Record(o, {"OrderCreated"})

\* inventory-service answers OrderCreated once.
AnswerStock(o, t) ==
  /\ t \in {"InventoryReserved", "InventoryFailed"}
  /\ row[o] = "PENDING"
  /\ log[o] \cap {"InventoryReserved", "InventoryFailed"} = {}
  /\ Record(o, {t})
  /\ UNCHANGED row

\* payment-service records the outcome Stripe has given, which the order, if it
\* is decided already, has been decided by.
LogPayment(o, t) ==
  /\ o \in Logged
  /\ "InventoryReserved" \in log[o]
  /\ log[o] \cap {"PaymentCompleted", "PaymentFailed"} = {}
  /\ \/ t = "PaymentCompleted" /\ row[o] # "FAILED"
     \/ t = "PaymentFailed" /\ row[o] # "CONFIRMED"
  /\ Record(o, {t})
  /\ UNCHANGED row

Confirm(o) ==
  /\ "InventoryReserved" \in log[o] /\ "PaymentFailed" \notin log[o]
  /\ Decide(o, "CONFIRMED")
  /\ Record(o, {"OrderConfirmed"})

FailPayment(o) ==
  /\ "InventoryReserved" \in log[o] /\ "PaymentCompleted" \notin log[o]
  /\ Decide(o, "FAILED")
  /\ Record(o, {"ReleaseInventory", "OrderFailed"})

FailStock(o) ==
  /\ "InventoryFailed" \in log[o]
  /\ Decide(o, "FAILED")
  /\ Record(o, {"OrderFailed"})

\* What happens to an order once it is placed.
Progress(o) ==
  \/ \E t \in LogTypes : AnswerStock(o, t)
  \/ \E t \in LogTypes : LogPayment(o, t)
  \/ Confirm(o)
  \/ FailPayment(o)
  \/ FailStock(o)

LogNext == \E o \in Orders : Insert(o) \/ Progress(o)

LogSpec == LogInit /\ [][LogNext]_orderLog

-----------------------------------------------------------------------------
\* How the row and the recorded events of an order fit together.
LogInv(o) ==
  /\ row[o] = "none" => log[o] = {}
  /\ row[o] # "none" => "OrderCreated" \in log[o]
  /\ row[o] = "CONFIRMED" <=> "OrderConfirmed" \in log[o]
  /\ row[o] = "FAILED" <=> "OrderFailed" \in log[o]
  /\ row[o] = "CONFIRMED" =>
       "InventoryReserved" \in log[o] /\ "PaymentFailed" \notin log[o]
  /\ row[o] = "FAILED" =>
       /\ "PaymentCompleted" \notin log[o]
       /\ log[o] \cap {"InventoryReserved", "InventoryFailed"} # {}
  /\ "InventoryReserved" \in log[o] => "InventoryFailed" \notin log[o]
  /\ "PaymentCompleted" \in log[o] => "InventoryReserved" \in log[o]
  /\ "PaymentFailed" \in log[o] => "InventoryReserved" \in log[o]
  /\ ~({"PaymentCompleted", "PaymentFailed"} \subseteq log[o])

=============================================================================

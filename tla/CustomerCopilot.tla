--------------------------- MODULE CustomerCopilot ---------------------------
(***************************************************************************)
(* The rule engine behind the customer's order assistant.  A context is    *)
(* one answer of GET /orders/{id}/context: the order's row and the types   *)
(* of its events.  A question is the set of patterns it matches; an answer *)
(* is the set of statements about the order it makes.  Wording, times and  *)
(* ids are left out; labels of finished steps are the names of the events. *)
(***************************************************************************)
EXTENDS Naturals

NoContext == [order |-> 0, row |-> "none", log |-> {}]

Has(c, t) == t \in c.log

-----------------------------------------------------------------------------
(* buildOrderJourney: the steps, in the order they are listed *)

Step(key, status) == [key |-> key, status |-> status]

\* A step whose event has not been seen.
Waiting(c) == IF c.row = "PENDING" THEN "active" ELSE "pending"

InventoryStep(c) ==
  IF Has(c, "InventoryFailed") THEN Step("inventory-failed", "failed")
  ELSE Step("inventory-reserved", IF Has(c, "InventoryReserved") THEN "done" ELSE Waiting(c))

PaymentStep(c) ==
  IF Has(c, "PaymentFailed") THEN Step("payment-failed", "failed")
  ELSE Step("payment", IF Has(c, "PaymentCompleted") THEN "done" ELSE Waiting(c))

ReleaseStep(c) ==
  IF Has(c, "ReleaseInventory") THEN {Step("inventory-released", "warning")} ELSE {}

VerdictStep(c) ==
  IF c.row = "FAILED" \/ Has(c, "OrderFailed") THEN Step("failed", "failed")
  ELSE Step("confirmed", IF Has(c, "OrderConfirmed") \/ c.row = "CONFIRMED"
                         THEN "done" ELSE "pending")

Journey(c) ==
  {Step("created", "done"), InventoryStep(c), PaymentStep(c), VerdictStep(c)}
  \cup ReleaseStep(c)

Done(c) == {s.key : s \in {t \in Journey(c) : t.status = "done"}}

-----------------------------------------------------------------------------
(* The answers *)

ByRow(c, confirmed, failed, pending) ==
  CASE c.row = "CONFIRMED" -> confirmed
    [] c.row = "FAILED"    -> failed
    [] OTHER               -> pending

Failed(c) == c.row = "FAILED" \/ Has(c, "PaymentFailed") \/ Has(c, "InventoryFailed")

AnswerWhere(c) ==
  ByRow(c, {"confirmed", "confirmation-recorded"}, {"failed"}, {"processing"})
  \cup Done(c)

\* Real contexts have times and at least one event, so a duration is always
\* printed: "Failed after" or "Completed in", whatever the order's status.
AnswerTimeline(c) == c.log \cup {IF Failed(c) THEN "failed" ELSE "completed"}

AnswerPaymentFailure(c) ==
  IF Has(c, "PaymentFailed") \/ c.row = "FAILED"
  THEN {"payment-declined", "not-charged", "failed"}
       \cup (c.log \cap {"InventoryReserved", "ReleaseInventory"})
  ELSE {}

AnswerDelivery(c) == {}

\* Mutant of AnswerPaymentStatus: a reservation is taken for a payment.
ReservedMeansCharged(c) ==
  IF Has(c, "InventoryReserved") \/ c.row = "CONFIRMED"   THEN {"charged"}
  ELSE IF Has(c, "PaymentFailed") \/ c.row = "FAILED" THEN {"not-charged"}
  ELSE {"payment-pending"}

AnswerPaymentStatus(c) ==
  IF Has(c, "PaymentCompleted") \/ c.row = "CONFIRMED"    THEN {"charged"}
  ELSE IF Has(c, "PaymentFailed") \/ c.row = "FAILED" THEN {"not-charged"}
  ELSE {"payment-pending"}

AnswerInventory(c) ==
  c.log \cap {"InventoryReserved", "ReleaseInventory", "InventoryFailed"}

AnswerNotification(c) ==
  IF Has(c, "OrderConfirmed") THEN {"confirmation-recorded"} ELSE {}

AnswerDuration(c) == {}

AnswerNextStep(c) == ByRow(c, {"confirmed"}, {"failed"}, {"processing"})

-----------------------------------------------------------------------------
(* The router: the first pattern of the list that the question matches *)

Patterns == <<"where", "timeline", "payment-failure", "delivery", "payment-status",
              "inventory", "notification", "duration", "next-step">>

\* The patterns the floating assistant looks for first.
General == {"capabilities", "checkout"}

Matched(q) == {i \in DOMAIN Patterns : Patterns[i] \in q}

RunCustomerAssistant(q, c) ==
  IF Matched(q) = {} THEN {}
  ELSE LET p == Patterns[CHOOSE i \in Matched(q) : \A j \in Matched(q) : i <= j]
       IN  CASE p = "where"           -> AnswerWhere(c)
             [] p = "timeline"        -> AnswerTimeline(c)
             [] p = "payment-failure" -> AnswerPaymentFailure(c)
             [] p = "delivery"        -> AnswerDelivery(c)
             [] p = "payment-status"  -> AnswerPaymentStatus(c)
             [] p = "inventory"       -> AnswerInventory(c)
             [] p = "notification"    -> AnswerNotification(c)
             [] p = "duration"        -> AnswerDuration(c)
             [] OTHER                 -> AnswerNextStep(c)

\* What is said without looking at an order.
Guidance(q) ==
  IF "capabilities" \in q                  THEN {"capabilities"}
  ELSE IF "checkout" \in q                 THEN {"checkout-explained"}
  ELSE IF q \cap {"where", "timeline"} # {} THEN {"no-order-yet"}
  ELSE IF "payment-failure" \in q          THEN {"failures-release-stock"}
  ELSE IF "payment-status" \in q           THEN {"charges-follow-reservations"}
  ELSE {"capabilities"}

\* runFloatingAssistant: general questions first, general guidance without an
\* order, else the engine, with a note when the order is the customer's latest.
RunFloating(q, c, latest) ==
  IF q \cap General # {} \/ c = NoContext THEN Guidance(q)
  ELSE RunCustomerAssistant(q, c) \cup (IF latest THEN {"latest-order"} ELSE {})

\* The prompts and quick actions of the panel.
Prompts == {{"capabilities"}, {"where"}, {"checkout", "timeline"}, {"timeline"},
            {"payment-failure"}, {"payment-status"}}

=============================================================================

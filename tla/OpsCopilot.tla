----------------------------- MODULE OpsCopilot -----------------------------
(***************************************************************************)
(* The rule engine behind the operations copilot, in the browser           *)
(* (RunCopilot) and, as its fallback, in order-service (RuleAnswer).  A    *)
(* context holds the counts of the metrics, the recent orders and events,  *)
(* newest first, and the services that do not report healthy.  A question  *)
(* is the set of patterns it matches and the order whose id it quotes, 0   *)
(* if none; an answer is the set of statements it makes, each about one    *)
(* order or, of 0, about the system.  Wording, times, money, low stock and *)
(* slow orders are left out.                                               *)
(***************************************************************************)
EXTENDS Naturals, Sequences, Functions, FiniteSetsExt

Say(what, o) == [says |-> what, of |-> o]
SayAll(W, o) == {Say(w, o) : w \in W}

NotEnough == {Say("not-enough-information", 0)}
NoOrder   == [order |-> 0, row |-> "none"]

Status == [PENDING |-> "is-PENDING", CONFIRMED |-> "is-CONFIRMED", FAILED |-> "is-FAILED"]

-----------------------------------------------------------------------------
(* what an answer looks up *)

\* The order the question quotes, if it is listed; else the newest one with the
\* status the question hints at; else the newest one.
ResolveOrder(q, c, prefer) ==
  LET named == {i \in DOMAIN c.orders : c.orders[i].order = q.names}
      liked == {i \in DOMAIN c.orders : c.orders[i].row = prefer}
      found == IF named # {} THEN named ELSE IF liked # {} THEN liked ELSE DOMAIN c.orders
  IN  IF found = {} THEN NoOrder ELSE c.orders[Min(found)]

EventsFor(c, o) == {e.type : e \in {f \in Range(c.events) : f.order = o}}

Listed(c, r) == {x.order : x \in {y \in Range(c.orders) : y.row = r}}

Declined(c) == {e.order : e \in {f \in Range(c.events) : f.type = "PaymentFailed"}}

\* What every failure is said to have led to.
Compensated == {"reservation-released", "not-charged"}

-----------------------------------------------------------------------------
(* the answers *)

\* Mutant of AnswerOrderFailure: the status of the order is not looked at.
FailureUnchecked(q, c) ==
  LET x == ResolveOrder(q, c, "FAILED")
  IN  IF x = NoOrder THEN NotEnough
      ELSE SayAll({"is-FAILED", "payment-declined"} \cup Compensated, x.order)

\* A failed order is always said to have failed for its payment.
AnswerOrderFailure(q, c) ==
  LET x == ResolveOrder(q, c, "FAILED")
  IN  IF x = NoOrder THEN NotEnough
      ELSE IF x.row # "FAILED" THEN SayAll({"did-not-fail", Status[x.row]}, x.order)
      ELSE SayAll({"is-FAILED", "payment-declined"} \cup Compensated
                  \cup (EventsFor(c, x.order) \cap {"InventoryReserved"}), x.order)

\* The steps of the lifecycle: of the events, or, without events, of the status.
StepText(t) ==
  CASE t = "PaymentCompleted" -> {"charged"}
    [] t = "PaymentFailed"    -> {"payment-declined"}
    [] t = "OrderConfirmed"   -> {"turned-CONFIRMED", "mail-sent"}
    [] t = "OrderFailed"      -> {"turned-FAILED", "reservation-released"}
    [] OTHER                  -> {t}

Steps(T) == UNION {StepText(t) : t \in T}

DefaultLifecycle(r) ==
  {"OrderCreated", "InventoryReserved"} \cup
  CASE r = "FAILED"    -> Steps({"PaymentFailed", "OrderFailed"})
    [] r = "CONFIRMED" -> Steps({"PaymentCompleted", "OrderConfirmed"})
    [] OTHER           -> {"awaiting-payment"}

AnswerOrderLifecycle(q, c) ==
  LET x == ResolveOrder(q, c, "CONFIRMED")
      T == EventsFor(c, x.order)
  IN  IF x = NoOrder THEN NotEnough
      ELSE SayAll({Status[x.row]} \cup (IF T = {} THEN DefaultLifecycle(x.row) ELSE Steps(T)),
                  x.order)

\* 100 without decided orders; warned of below 95.
SuccessRate(m) ==
  IF m.confirmed + m.failed = 0 THEN 100
  ELSE (100 * m.confirmed) \div (m.confirmed + m.failed)

AnswerMetricsSummary(c) ==
  {Say(IF c.metrics.failed > 0 THEN "some-orders-failed" ELSE "no-order-failed", 0),
   Say(IF SuccessRate(c.metrics) >= 95 THEN "success-rate-fine" ELSE "success-rate-low", 0)}
  \cup SayAll(c.down, 0)

AnswerServiceHealth(c) == IF c.down = {} THEN {Say("all-healthy", 0)} ELSE SayAll(c.down, 0)

\* The payments that failed, or for want of their events the orders that did.
AnswerFailedPayments(c) ==
  LET failures == IF Declined(c) # {} THEN Declined(c) ELSE Listed(c, "FAILED")
  IN  IF failures = {} THEN {Say("no-failed-payments", 0)}
      ELSE UNION {SayAll({"payment-declined"} \cup Compensated, o) : o \in failures}

AnswerIncidentReport(c) ==
  {Say("payments-declined", 0),
   Say(IF c.metrics.failed > 0 THEN "resolved" ELSE "no-incident", 0)}

\* The static explainers, which look at no order.
AnswerPaymentWorkflow == {Say("stock-is-reserved-before-payment", 0)}
AnswerSaga == AnswerPaymentWorkflow \cup {Say("failed-payments-are-compensated", 0)}

\* The first pattern of the router's list that the question matches.
OpsPatterns == <<"incident", "saga", "payment-workflow", "failure", "lifecycle", "summary",
                 "health", "failed-payments">>

Intent(q) ==
  LET M == SelectSeq(OpsPatterns, LAMBDA p : p \in q.asks)
  IN  IF M = <<>> THEN "summary" ELSE Head(M)

RunCopilot(q, c) ==
  LET p == Intent(q)
  IN  CASE p = "incident"        -> AnswerIncidentReport(c)
        [] p = "saga"            -> AnswerSaga
        [] p = "payment-workflow" -> AnswerPaymentWorkflow
        [] p = "failure"         -> AnswerOrderFailure(q, c)
        [] p = "lifecycle"       -> AnswerOrderLifecycle(q, c)
        [] p = "health"          -> AnswerServiceHealth(c)
        [] p = "failed-payments" -> AnswerFailedPayments(c)
        [] OTHER                 -> AnswerMetricsSummary(c)

-----------------------------------------------------------------------------
(* The engine of order-service differs in three answers *)

\* Every failed order is said to have been reserved before.
RuleFailure(q, c) ==
  LET x == ResolveOrder(q, c, "FAILED")
  IN  IF x.row # "FAILED" THEN AnswerOrderFailure(q, c)
      ELSE AnswerOrderFailure(q, c) \cup {Say("InventoryReserved", x.order)}

\* Without events an order is only said to have been created.
RuleLifecycle(q, c) ==
  LET x == ResolveOrder(q, c, "CONFIRMED")
  IN  IF x = NoOrder \/ EventsFor(c, x.order) # {} THEN AnswerOrderLifecycle(q, c)
      ELSE SayAll({Status[x.row], "OrderCreated"}, x.order)

\* Failures are counted, not listed, when their events are no longer recent.
RuleFailedPayments(c) ==
  IF Declined(c) # {}          THEN AnswerFailedPayments(c)
  ELSE IF c.metrics.failed = 0 THEN {Say("no-failed-payments", 0)}
  ELSE {Say("some-orders-failed", 0)}

RuleAnswer(q, c) ==
  LET p == Intent(q)
  IN  CASE p = "failure"         -> RuleFailure(q, c)
        [] p = "lifecycle"       -> RuleLifecycle(q, c)
        [] p = "failed-payments" -> RuleFailedPayments(c)
        [] OTHER                 -> RunCopilot(q, c)

\* The suggested prompts, without and with the id of an order.
Prompts(Ids) ==
  {[asks |-> {p}, names |-> o] : p \in {"failure", "lifecycle"}, o \in Ids \cup {0}}
  \cup {[asks |-> {p}, names |-> 0] :
          p \in {"summary", "health", "failed-payments", "payment-workflow", "saga", "incident"}}

=============================================================================

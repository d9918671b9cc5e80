------------------------------ MODULE StripeSaga ------------------------------
(***************************************************************************)
(* The order saga in Stripe mode: payment-service talks to Stripe before   *)
(* it claims its event, stripe-webhook-service feeds Stripe's own          *)
(* notifications into the saga, and the browser checkout charges the card  *)
(* before it posts the order.  Stripe itself is external: it keeps one     *)
(* PaymentIntent per idempotency key, answers a repeated request with the  *)
(* first result and rejects a repeated key with other parameters.          *)
(***************************************************************************)
EXTENDS OrderSaga

CONSTANTS
  Prepaid,      \* orders the browser pays for before posting them
  DeadTypes     \* topics whose consumer may run out of retries

ASSUME PrepaidAssumption == Prepaid \subseteq Orders

VARIABLES
  charges,      \* charges[o]: successful charges for order o
  intents,      \* PaymentIntents payment-service created, by idempotency key
  answers,      \* Stripe's answers payment-service holds in memory
  hooks         \* notifications Stripe has not got a 200 for

stripeVars == <<charges, intents, answers, hooks>>
allVars == <<vars, stripeVars>>

\* The test card drawn for the attempt decides what Stripe answers.
Cards  == {"visa", "chargeDeclined"}
Intent == [key : Event, card : Cards]
Answer == [event : Event, paid : BOOLEAN]

Outcome(paid) == IF paid THEN "PaymentCompleted" ELSE "PaymentFailed"

StripeInit ==
  /\ Init
  /\ charges = [o \in Orders |-> 0]
  /\ intents = {}
  /\ answers = {}
  /\ hooks = {}

-----------------------------------------------------------------------------
(* browser checkout *)

\* confirmCardPayment succeeds; a declined card leaves no order behind.
PayAtCheckout(o) ==
  /\ o \in Prepaid
  /\ status[o] = "none" /\ charges[o] = 0
  /\ charges' = [charges EXCEPT ![o] = @ + 1]
  /\ UNCHANGED <<vars, intents, answers, hooks>>

\* The form posts the order only once its PaymentIntent has succeeded.
PostOrder(o) ==
  /\ o \in Prepaid => charges[o] > 0
  /\ CheckStock(o)
  /\ UNCHANGED stripeVars

-----------------------------------------------------------------------------
(* payment-service, _handle_stripe *)

\* Stripe confirms a new PaymentIntent for key e.
Charge(e, card) ==
  /\ intents' = intents \cup {[key |-> e, card |-> card]}
  /\ hooks' = hooks \cup {[key |-> e, card |-> card]}
  /\ charges' = IF card = "visa" THEN [charges EXCEPT ![e.order] = @ + 1] ELSE charges

\* Mutant of CreateIntent: the request carries no idempotency key.
CreateIntentNoKey(e, card, heard) ==
  /\ e \in inbox
  /\ e.type = "InventoryReserved" /\ e.order \notin Prepaid
  /\ Charge(e, card)
  /\ answers' = IF heard THEN answers \cup {[event |-> e, paid |-> card = "visa"]} ELSE answers
  /\ UNCHANGED vars

\* Saga path.  A new card is drawn for every attempt: the first request of the
\* key charges, one with the same card repeats its answer, and one with the
\* other card raises, as does an answer that is not heard; the consumer retries.
CreateIntent(e, card, heard) ==
  /\ e \in inbox
  /\ e.type = "InventoryReserved" /\ e.order \notin Prepaid
  /\ \/ /\ \A i \in intents : i.key # e
        /\ Charge(e, card)
     \/ /\ [key |-> e, card |-> card] \in intents /\ heard
        /\ UNCHANGED <<charges, intents, hooks>>
  /\ answers' = IF heard THEN answers \cup {[event |-> e, paid |-> card = "visa"]} ELSE answers
  /\ UNCHANGED vars

\* Checkout path: only the status of the browser's PaymentIntent is read.
RetrieveIntent(e) ==
  /\ e \in inbox
  /\ e.type = "InventoryReserved" /\ e.order \in Prepaid
  /\ answers' = answers \cup {[event |-> e, paid |-> charges[e.order] > 0]}
  /\ UNCHANGED <<vars, charges, intents, hooks>>

\* The claim and the outcome's outbox row commit together.
RecordOutcome(a, acked) ==
  /\ a \in answers
  /\ answers' = answers \ {a}
  /\ ClaimEvent(a.event, acked)
  /\ WriteOutbox({Outcome(a.paid)}, a.event.order)
  /\ UNCHANGED <<status, stockVars, charges, intents, hooks>>

\* The event was claimed by an earlier delivery.
DropAnswer(a, acked) ==
  /\ a \in answers
  /\ answers' = answers \ {a}
  /\ a.event \in processed
  /\ inbox' = Remaining(a.event, acked)
  /\ Redelivery(acked)
  /\ UNCHANGED <<orderVars, stockVars, outbox, made, processed, emails, dlq,
                 charges, intents, hooks>>

\* The process stops, or the transaction fails, after Stripe has answered.
LoseAnswer(a) ==
  /\ a \in answers
  /\ answers' = answers \ {a}
  /\ UNCHANGED <<vars, charges, intents, hooks>>

-----------------------------------------------------------------------------
(* stripe-webhook-service *)

\* Mutant of Webhook: the PaymentIntent carries no order metadata.
WebhookSkips(i, acked) ==
  /\ i \in hooks
  /\ hooks' = hooks \ {i}
  /\ acked
  /\ UNCHANGED <<vars, charges, intents, answers>>

\* Mutant of Webhook: every notification is taken for a success.
WebhookConfirms(i, acked) ==
  /\ i \in hooks
  /\ hooks' = IF acked THEN hooks \ {i} ELSE hooks
  /\ inbox' = inbox \cup {NewEvent("PaymentCompleted", i.key.order)}
  /\ CountEvents({"PaymentCompleted"}, i.key.order)
  /\ Redelivery(acked)
  /\ UNCHANGED <<orderVars, stockVars, outbox, processed, emails, dlq,
                 charges, intents, answers>>

\* Stripe notifies of a PaymentIntent with order metadata, again until it gets
\* a 200; the outcome goes straight to Kafka.
Webhook(i, acked) ==
  LET t == Outcome(i.card = "visa")
  IN  /\ i \in hooks
      /\ hooks' = IF acked THEN hooks \ {i} ELSE hooks
      /\ inbox' = inbox \cup {NewEvent(t, i.key.order)}
      /\ CountEvents({t}, i.key.order)
      /\ Redelivery(acked)
      /\ UNCHANGED <<orderVars, stockVars, outbox, processed, emails, dlq,
                     charges, intents, answers>>

-----------------------------------------------------------------------------

StripeHandle(e, acked) ==
  HandleUnpaid(e, acked) /\ UNCHANGED stripeVars

StripeNext ==
  \/ \E o \in Orders : PayAtCheckout(o)
  \/ \E o \in Orders : PostOrder(o)
  \/ \E o \in Orders : PlaceOrder(o) /\ UNCHANGED stripeVars
  \/ \E e \in outbox, marked \in BOOLEAN : Relay(e, marked) /\ UNCHANGED stripeVars
  \/ \E e \in inbox, acked \in BOOLEAN : StripeHandle(e, acked)
  \/ \E e \in inbox, card \in Cards, heard \in BOOLEAN : CreateIntent(e, card, heard)
  \/ \E e \in inbox : RetrieveIntent(e)
  \/ \E a \in answers, acked \in BOOLEAN : RecordOutcome(a, acked)
  \/ \E a \in answers, acked \in BOOLEAN : DropAnswer(a, acked)
  \/ \E a \in answers : LoseAnswer(a)
  \/ \E i \in hooks, acked \in BOOLEAN : Webhook(i, acked)
  \/ \E e \in inbox : e.type \in DeadTypes /\ DeadLetter(e) /\ UNCHANGED stripeVars

StripeSpec == StripeInit /\ [][StripeNext]_allVars

\* The relay, the consumers of the other services and Stripe's notifications
\* make progress, order-service's among them as in OrderSaga; payment-service
\* may fail for ever.
StripeFairness ==
  /\ WF_allVars(\E e \in outbox : Relay(e, TRUE) /\ UNCHANGED stripeVars)
  /\ \A g \in {"order", "inventory", "notification"} :
       WF_allVars(\E e \in inbox : e.type \in Topics[g] /\ StripeHandle(e, TRUE))
  /\ WF_allVars(\E i \in hooks : Webhook(i, TRUE))

StripeFairSpec == StripeSpec /\ StripeFairness

-----------------------------------------------------------------------------
(* Correctness *)

StripeTypeOK ==
  /\ TypeOK
  /\ charges \in [Orders -> Nat]
  /\ intents \in SUBSET Intent
  /\ answers \in SUBSET Answer
  /\ hooks \in SUBSET Intent

\* What order-service's reads see of this saga: payment outcomes appear in the
\* outbox only when payment-service has recorded them, not by the webhook.
Recorded(o) ==
  IF \E e \in processed : e.type = "InventoryReserved" /\ e.order = o
    THEN {"PaymentCompleted", "PaymentFailed"} ELSE {}

logOf ==
  [o \in Orders |->
     {t \in EventTypes : made[t][o] > 0}
       \ ({"PaymentCompleted", "PaymentFailed"} \ Recorded(o))]

Log == INSTANCE OrderLog WITH Logged <- Orders, row <- status, log <- logOf

\* The statuses and outbox rows the pages read grow only as OrderLog says: no
\* verdict without the reservation or refusal it rests on, no recorded payment
\* that contradicts the verdict, whichever of webhook and payment-service is
\* first.
ImplementsOrderLog == Log!LogSpec

\* A card is charged at most once for an order, however often the reservation
\* is delivered and whenever payment-service stops: the key is the event's id.
ChargedOnce == \A o \in Orders : charges[o] <= 1

\* The payment outcomes announced for an order, by payment-service and by the
\* webhook in any order and any number, never contradict each other.
OutcomesAgree ==
  \A o \in Orders : made["PaymentCompleted"][o] = 0 \/ made["PaymentFailed"][o] = 0

\* Money, verdict and stock agree: a confirmed order has been paid for, and an
\* order that payment-service has charged does not fail and keeps its stock.
ChargeMatchesOrder ==
  \A o \in Orders :
    /\ status[o] = "CONFIRMED" => charges[o] = 1
    /\ o \notin Prepaid /\ charges[o] > 0 => status[o] # "FAILED" /\ Holds(o)

\* README: the webhook is the backstop.  A charged saga-path order is confirmed
\* although payment-service may stop for good between Stripe and its commit.
ChargeRecovered ==
  \A o \in Orders : (o \notin Prepaid /\ charges[o] > 0) ~> status[o] = "CONFIRMED"

\* notification_service: the mail about a failed order says that no charge has
\* been made.
NoChargeMade ==
  \A o \in Orders : emails[o]["failed"] > 0 => charges[o] = 0

-----------------------------------------------------------------------------
(* The inductive invariant behind the safety properties *)

\* The one InventoryReserved event of an order.
Reservation(o) == [type |-> "InventoryReserved", order |-> o, n |-> 0]

\* Stripe's one answer to payment-service about order o was drawn from card.
Settled(o, card) == [key |-> Reservation(o), card |-> card] \in intents

\* PaymentIntents carry the id of the reservation of a saga-path order.
IntentsInv ==
  /\ hooks \subseteq intents
  /\ \A i \in intents :
       /\ i.key = Reservation(i.key.order)
       /\ i.key.order \notin Prepaid
       /\ Reserved(i.key.order)

\* An answer held in memory repeats what Stripe has settled.
AnswersInv ==
  \A a \in answers :
    LET o == a.event.order
    IN  /\ a.event = Reservation(o)
        /\ Reserved(o)
        /\ IF o \in Prepaid THEN a.paid
             ELSE Settled(o, IF a.paid THEN "visa" ELSE "chargeDeclined")

\* What Stripe has settled, what was announced and what the row says.
PayInv(o) ==
  /\ ~(Settled(o, "visa") /\ Settled(o, "chargeDeclined"))
  /\ charges[o] <= 1
  /\ o \notin Prepaid => (charges[o] = 1 <=> Settled(o, "visa"))
  /\ o \in Prepaid /\ (o \in validated \/ status[o] # "none") => charges[o] = 1
  /\ made["PaymentCompleted"][o] > 0 => charges[o] = 1
  /\ made["PaymentFailed"][o] > 0 => o \notin Prepaid /\ Settled(o, "chargeDeclined")
  /\ Reservation(o) \in processed =>
       made["PaymentCompleted"][o] > 0 \/ made["PaymentFailed"][o] > 0
  /\ status[o] = "CONFIRMED" => made["PaymentCompleted"][o] > 0
  /\ status[o] = "FAILED" =>
       made["PaymentFailed"][o] > 0 \/ made["InventoryFailed"][o] > 0

StripeInv ==
  /\ SagaInv
  /\ StripeTypeOK
  /\ IntentsInv
  /\ AnswersInv
  /\ \A o \in Orders : PayInv(o)

=============================================================================

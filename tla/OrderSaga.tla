------------------------------ MODULE OrderSaga ------------------------------
(***************************************************************************)
(* The choreographed order saga of FlowCommerce: order-service,            *)
(* inventory-service, the simulated payment-service and                    *)
(* notification-service, exchanging events through one transactional       *)
(* outbox and Kafka.                                                       *)
(*                                                                         *)
(* A handler that runs in one database transaction is one action.  A crash *)
(* before the commit leaves no trace; a crash (or a lost offset commit)    *)
(* after it is a step with acked = FALSE, which leaves the message to be   *)
(* delivered again.  The outbox poller likewise sends a row and then marks *)
(* it, or sends it and loses the mark.  Both are counted by dups, bounded  *)
(* by MaxDups.  A handler that keeps raising is abandoned to the           *)
(* dead-letter topic; dlq holds at most MaxDead messages.                  *)
(*                                                                         *)
(* Every topic has exactly one consumer group, so the primary key          *)
(* (event_id, consumer) of processed_events is the event itself.  Topics   *)
(* are independent logs and several pollers drain the outbox, so messages  *)
(* of different topics are delivered in any order: inbox is a set.         *)
(***************************************************************************)
EXTENDS Integers, FiniteSets, Functions

CONSTANTS
  Orders,       \* order ids
  Skus,         \* stock keeping units
  Qty,          \* Qty[o][s]: quantity of s in order o (one line per SKU), 0 if none
  Stock0,       \* Stock0[s]: units seeded in the inventory table
  MaxDups,      \* bound on re-deliveries and re-sends
  MaxDead       \* bound on messages given up to the dead-letter topic

ASSUME QtyAssumption   == Qty \in [Orders -> [Skus -> Nat]]
ASSUME StockAssumption == Stock0 \in [Skus -> Nat]
ASSUME BoundAssumption == MaxDups \in Nat /\ MaxDead \in Nat

VARIABLES
  status,       \* orders.status, "none" while the row does not exist
  validated,    \* orders whose POST passed the stock check but is not inserted yet
  available,    \* inventory.available
  reserved,     \* inventory.reserved
  outbox,       \* events of the outbox rows with published_at IS NULL
  made,         \* made[t][o]: events of type t ever created for order o
  inbox,        \* messages in Kafka whose offset is not committed
  processed,    \* processed_events
  emails,       \* emails[o][k]: mails of kind k handed to the mail provider
  dlq,          \* messages in the dead-letter topic
  dups          \* re-deliveries and re-sends so far

orderVars == <<status, validated>>
stockVars == <<available, reserved>>
vars == <<status, validated, available, reserved, outbox, made, inbox,
          processed, emails, dlq, dups>>

Terminal   == {"CONFIRMED", "FAILED"}
Status     == {"none", "PENDING"} \cup Terminal
EmailKinds == {"confirmed", "failed"}

\* The event types, one per topic.
EventTypes == {"OrderCreated", "InventoryReserved", "InventoryFailed",
               "PaymentCompleted", "PaymentFailed", "ReleaseInventory",
               "OrderConfirmed", "OrderFailed"}

\* The n-th event of a type for an order: a fresh uuid4 for every Event().
Event == [type : EventTypes, order : Orders, n : Nat]

NewEvent(t, o) == [type |-> t, order |-> o, n |-> made[t][o]]

\* made after one new event of each type in T for order o.
CountEvents(T, o) ==
  made' = [t \in EventTypes |->
             IF t \in T THEN [made[t] EXCEPT ![o] = @ + 1] ELSE made[t]]

\* Insert one outbox row per type in T, inside the caller's transaction.
WriteOutbox(T, o) ==
  /\ outbox' = outbox \cup {NewEvent(t, o) : t \in T}
  /\ CountEvents(T, o)

\* Offset commit of message e, or its loss: e is then delivered again.
Remaining(e, acked) == IF acked THEN inbox \ {e} ELSE inbox

Redelivery(done) ==
  /\ done \/ dups < MaxDups
  /\ dups' = IF done THEN dups ELSE dups + 1

\* Mutant of ClaimEvent: the handler does not look at what it has claimed before.
ClaimUnchecked(e, acked) ==
  /\ e \in inbox
  /\ processed' = processed \cup {e}
  /\ inbox' = Remaining(e, acked)
  /\ Redelivery(acked)
  /\ UNCHANGED <<validated, emails, dlq>>

\* A claiming handler's frame: the claim is inserted, the offset (not) committed.
ClaimEvent(e, acked) ==
  /\ e \in inbox \ processed
  /\ processed' = processed \cup {e}
  /\ inbox' = Remaining(e, acked)
  /\ Redelivery(acked)
  /\ UNCHANGED <<validated, emails, dlq>>

Init ==
  /\ status = [o \in Orders |-> "none"]
  /\ validated = {}
  /\ available = Stock0
  /\ reserved = [s \in Skus |-> 0]
  /\ outbox = {}
  /\ made = [t \in EventTypes |-> [o \in Orders |-> 0]]
  /\ inbox = {}
  /\ processed = {}
  /\ emails = [o \in Orders |-> [k \in EmailKinds |-> 0]]
  /\ dlq = {}
  /\ dups = 0

-----------------------------------------------------------------------------
(* order-service: POST /orders *)

InStock(o) == \A s \in Skus : Qty[o][s] <= available[s]

\* The stock check runs outside the insert's transaction; a rejected request
\* (409) changes nothing and may be sent again.
CheckStock(o) ==
  /\ status[o] = "none"
  /\ o \notin validated
  /\ InStock(o)
  /\ validated' = validated \cup {o}
  /\ UNCHANGED <<status, stockVars, outbox, made, inbox, processed, emails, dlq, dups>>

\* Order row, its items and the OrderCreated row commit together.
PlaceOrder(o) ==
  /\ o \in validated
  /\ validated' = validated \ {o}
  /\ status' = [status EXCEPT ![o] = "PENDING"]
  /\ WriteOutbox({"OrderCreated"}, o)
  /\ UNCHANGED <<stockVars, inbox, processed, emails, dlq, dups>>

-----------------------------------------------------------------------------
(* outbox poller *)

\* Mutant of Relay: the mark commits although the send has not happened.
RelayMarksOnly(e, marked) ==
  /\ e \in outbox
  /\ inbox' = IF marked THEN inbox ELSE inbox \cup {e}
  /\ outbox' = IF marked THEN outbox \ {e} ELSE outbox
  /\ Redelivery(marked)
  /\ UNCHANGED <<orderVars, stockVars, made, processed, emails, dlq>>

\* Send one unpublished row; its mark commits, or the batch rolls back.
Relay(e, marked) ==
  /\ e \in outbox
  /\ inbox' = inbox \cup {e}
  /\ outbox' = IF marked THEN outbox \ {e} ELSE outbox
  /\ Redelivery(marked)
  /\ UNCHANGED <<orderVars, stockVars, made, processed, emails, dlq>>

-----------------------------------------------------------------------------
(* inventory-service *)

\* Mutant of ReserveStock: the UPDATE lost its "available >= quantity".
ReserveBlindly(e, acked) ==
  /\ e.type = "OrderCreated"
  /\ ClaimEvent(e, acked)
  /\ available' = [s \in Skus |-> available[s] - Qty[e.order][s]]
  /\ reserved'  = [s \in Skus |-> reserved[s] + Qty[e.order][s]]
  /\ WriteOutbox({"InventoryReserved"}, e.order)
  /\ UNCHANGED status

\* OrderCreated, every UPDATE finds stock: all lines move to reserved.
ReserveStock(e, acked) ==
  /\ e.type = "OrderCreated"
  /\ ClaimEvent(e, acked)
  /\ InStock(e.order)
  /\ available' = [s \in Skus |-> available[s] - Qty[e.order][s]]
  /\ reserved'  = [s \in Skus |-> reserved[s] + Qty[e.order][s]]
  /\ WriteOutbox({"InventoryReserved"}, e.order)
  /\ UNCHANGED status

\* Mutant of RefuseStock: no savepoint, the lines that found stock keep it.
RefusePartially(e, acked) ==
  LET fits(s) == IF Qty[e.order][s] <= available[s] THEN Qty[e.order][s] ELSE 0
  IN  /\ e.type = "OrderCreated"
      /\ ClaimEvent(e, acked)
      /\ ~InStock(e.order)
      /\ available' = [s \in Skus |-> available[s] - fits(s)]
      /\ reserved'  = [s \in Skus |-> reserved[s] + fits(s)]
      /\ WriteOutbox({"InventoryFailed"}, e.order)
      /\ UNCHANGED status

\* OrderCreated, one UPDATE affects no row: the savepoint undoes the others.
RefuseStock(e, acked) ==
  /\ e.type = "OrderCreated"
  /\ ClaimEvent(e, acked)
  /\ ~InStock(e.order)
  /\ WriteOutbox({"InventoryFailed"}, e.order)
  /\ UNCHANGED <<status, stockVars>>

ReleaseStock(e, acked) ==
  /\ e.type = "ReleaseInventory"
  /\ ClaimEvent(e, acked)
  /\ available' = [s \in Skus |-> available[s] + Qty[e.order][s]]
  /\ reserved'  = [s \in Skus |-> reserved[s] - Qty[e.order][s]]
  /\ UNCHANGED <<status, outbox, made>>

-----------------------------------------------------------------------------
(* payment-service, simulated *)

\* No claim and no outbox: a random outcome is sent straight to Kafka, again
\* on every delivery.
PayFake(e, outcome, acked) ==
  /\ e \in inbox
  /\ e.type = "InventoryReserved"
  /\ outcome \in {"PaymentCompleted", "PaymentFailed"}
  /\ inbox' = Remaining(e, acked) \cup {NewEvent(outcome, e.order)}
  /\ CountEvents({outcome}, e.order)
  /\ Redelivery(acked)
  /\ UNCHANGED <<orderVars, stockVars, outbox, processed, emails, dlq>>

-----------------------------------------------------------------------------
(* order-service: handle_event *)

\* Mutant of DecideOrder: the UPDATE lost its "status = 'PENDING'".
DecideUnguarded(e, acked, to, T) ==
  /\ ClaimEvent(e, acked)
  /\ status' = [status EXCEPT ![e.order] = to]
  /\ WriteOutbox(T, e.order)
  /\ UNCHANGED stockVars

\* UPDATE orders SET status = to WHERE order_id = e.order AND status = 'PENDING'
\* found its row; the rows of T are written with it.
DecideOrder(e, acked, to, T) ==
  /\ ClaimEvent(e, acked)
  /\ status[e.order] = "PENDING"
  /\ status' = [status EXCEPT ![e.order] = to]
  /\ WriteOutbox(T, e.order)
  /\ UNCHANGED stockVars

ConfirmOrder(e, acked) ==
  /\ e.type = "PaymentCompleted"
  /\ DecideOrder(e, acked, "CONFIRMED", {"OrderConfirmed"})

\* Mutant of FailPayment: the compensation is forgotten.
FailWithoutRelease(e, acked) ==
  /\ e.type = "PaymentFailed"
  /\ DecideOrder(e, acked, "FAILED", {"OrderFailed"})

FailPayment(e, acked) ==
  /\ e.type = "PaymentFailed"
  /\ DecideOrder(e, acked, "FAILED", {"ReleaseInventory", "OrderFailed"})

\* Mutant of FailInventory: it compensates a reservation that never happened.
FailWithRelease(e, acked) ==
  /\ e.type = "InventoryFailed"
  /\ DecideOrder(e, acked, "FAILED", {"ReleaseInventory", "OrderFailed"})

FailInventory(e, acked) ==
  /\ e.type = "InventoryFailed"
  /\ DecideOrder(e, acked, "FAILED", {"OrderFailed"})

\* The conditional UPDATE found no row: only the claim commits.
IgnoreLateOutcome(e, acked) ==
  /\ e.type \in {"PaymentCompleted", "PaymentFailed", "InventoryFailed"}
  /\ ClaimEvent(e, acked)
  /\ status[e.order] # "PENDING"
  /\ UNCHANGED <<status, stockVars, outbox, made>>

\* ON CONFLICT DO NOTHING returned no row: the handler returns at once.
DropDuplicate(e, acked) ==
  /\ e.type # "InventoryReserved"
  /\ e \in inbox \cap processed
  /\ inbox' = Remaining(e, acked)
  /\ Redelivery(acked)
  /\ UNCHANGED <<orderVars, stockVars, outbox, made, processed, emails, dlq>>

-----------------------------------------------------------------------------
(* notification-service *)

EmailKind(t) == IF t = "OrderConfirmed" THEN "confirmed" ELSE "failed"

\* No claim; a mail that cannot be sent is given up, the offset commits anyway.
Notify(e, sent, acked) ==
  /\ e \in inbox
  /\ e.type \in {"OrderConfirmed", "OrderFailed"}
  /\ inbox' = Remaining(e, acked)
  /\ Redelivery(acked)
  /\ emails' = IF sent THEN [emails EXCEPT ![e.order][EmailKind(e.type)] = @ + 1]
                       ELSE emails
  /\ UNCHANGED <<orderVars, stockVars, outbox, made, processed, dlq>>

-----------------------------------------------------------------------------
(* run_consumer: the handler raised on every attempt *)

DeadLetter(e) ==
  /\ e \in inbox
  /\ Cardinality(dlq) < MaxDead
  /\ inbox' = inbox \ {e}
  /\ dlq' = dlq \cup {e}
  /\ UNCHANGED <<orderVars, stockVars, outbox, made, processed, emails, dups>>

-----------------------------------------------------------------------------

\* One delivery of message e to a consumer other than payment-service.
HandleUnpaid(e, acked) ==
  \/ ReserveStock(e, acked)
  \/ RefuseStock(e, acked)
  \/ ReleaseStock(e, acked)
  \/ ConfirmOrder(e, acked)
  \/ FailPayment(e, acked)
  \/ FailInventory(e, acked)
  \/ IgnoreLateOutcome(e, acked)
  \/ DropDuplicate(e, acked)
  \/ \E sent \in BOOLEAN : Notify(e, sent, acked)

\* One delivery of message e to the consumer of its topic.
Handle(e, acked) ==
  \/ HandleUnpaid(e, acked)
  \/ \E outcome \in {"PaymentCompleted", "PaymentFailed"} : PayFake(e, outcome, acked)

Next ==
  \/ \E o \in Orders : CheckStock(o)
  \/ \E o \in Orders : PlaceOrder(o)
  \/ \E e \in outbox, marked \in BOOLEAN : Relay(e, marked)
  \/ \E e \in inbox, acked \in BOOLEAN : Handle(e, acked)
  \/ \E e \in inbox : DeadLetter(e)

Spec == Init /\ [][Next]_vars

\* The consumer group of each topic.
Topics ==
  [ order        |-> {"PaymentCompleted", "PaymentFailed", "InventoryFailed"},
    inventory    |-> {"OrderCreated", "ReleaseInventory"},
    payment      |-> {"InventoryReserved"},
    notification |-> {"OrderConfirmed", "OrderFailed"} ]

\* The pollers keep draining the outbox and every consumer loop keeps
\* delivering and committing: all four are endless loops of running services.
\* This presumes that order-service's loop runs: it is a task nobody awaits, and
\* an exception that leaves it ends it while the process stays up (Consumer).
Fairness ==
  /\ WF_vars(\E e \in outbox : Relay(e, TRUE))
  /\ \A g \in DOMAIN Topics :
       WF_vars(\E e \in inbox : e.type \in Topics[g] /\ Handle(e, TRUE))

FairSpec == Spec /\ Fairness

-----------------------------------------------------------------------------
(* Correctness *)

TypeOK ==
  /\ status \in [Orders -> Status]
  /\ validated \in SUBSET Orders
  /\ available \in [Skus -> Int]
  /\ reserved \in [Skus -> Int]
  /\ outbox \in SUBSET Event
  /\ made \in [EventTypes -> [Orders -> Nat]]
  /\ inbox \in SUBSET Event
  /\ processed \in SUBSET Event
  /\ emails \in [Orders -> [EmailKinds -> Nat]]
  /\ dlq \in SUBSET Event
  /\ dups \in Nat

\* inventory-service has committed the reservation (release) of order o.
Reserved(o) == made["InventoryReserved"][o] > 0
Released(o) == \E e \in processed : e.type = "ReleaseInventory" /\ e.order = o
Holds(o)    == Reserved(o) /\ ~Released(o)

\* inventory-service answers an order at most once, however often OrderCreated
\* is delivered: the claim makes the reservation idempotent.
OneReservationAnswer ==
  \A o \in Orders : made["InventoryReserved"][o] + made["InventoryFailed"][o] <= 1

\* The stock of a confirmed order stays reserved: a PaymentFailed that the
\* simulated payment-service sends besides a PaymentCompleted never releases it.
ConfirmedHoldsStock ==
  \A o \in Orders : status[o] = "CONFIRMED" => Holds(o)

\* An order's verdict is announced exactly once and is the one in its row.
OneVerdict ==
  \A o \in Orders :
    /\ made["OrderConfirmed"][o] = IF status[o] = "CONFIRMED" THEN 1 ELSE 0
    /\ made["OrderFailed"][o]    = IF status[o] = "FAILED" THEN 1 ELSE 0

\* Compensation is ordered exactly once for a failed order that has reserved
\* stock, and never for any other order.
CompensationExact ==
  \A o \in Orders :
    made["ReleaseInventory"][o] =
      IF status[o] = "FAILED" /\ Reserved(o) THEN 1 ELSE 0

\* No unit is created, lost or oversold: available and reserved always add up
\* to the seeded stock, and available is never negative.
StockConserved ==
  \A s \in Skus : available[s] + reserved[s] = Stock0[s] /\ available[s] >= 0

\* The reserved column is the sum of the quantities of the orders that hold
\* stock: no order is reserved partially, reserved twice or released twice.
StockLedger ==
  \A s \in Skus :
    reserved[s] = SumFunctionOnSet([o \in Orders |-> Qty[o][s]], {o \in Orders : Holds(o)})

\* A customer is mailed about the verdict of the order and never about the other.
EmailsAgree ==
  \A o \in Orders :
    /\ emails[o]["confirmed"] > 0 => status[o] = "CONFIRMED"
    /\ emails[o]["failed"] > 0 => status[o] = "FAILED"

\* A verdict is final: the UPDATE ... WHERE status = 'PENDING' never lets a late
\* payment or inventory event change it, nor is a new order row born decided.
VerdictFinal ==
  [][\A o \in Orders :
       /\ status[o] \in Terminal => status'[o] = status[o]
       /\ status[o] = "none" => status'[o] \in {"none", "PENDING"}]_vars

\* A message of the order was given up to the dead-letter topic.
Abandoned(o) == \E e \in dlq : e.order = o

\* README: Kafka's retries re-deliver an event until it succeeds, so every
\* accepted order is decided.
OrdersDecided ==
  \A o \in Orders : status[o] = "PENDING" ~> status[o] \in Terminal

\* Every accepted order is decided, however its events are repeated, unless one
\* of its own messages was dead-lettered: other orders' never hold it up.
DecidedUnlessDead ==
  \A o \in Orders : status[o] = "PENDING" ~> status[o] \in Terminal \/ Abandoned(o)

\* Every unit reserved for an order that fails becomes available again, with the
\* same exception.
StockReturned ==
  \A o \in Orders :
    status[o] = "FAILED" /\ Reserved(o) ~> ~Holds(o) \/ Abandoned(o)

-----------------------------------------------------------------------------
(* The inductive invariant behind the safety properties *)

\* Whatever is stored, in flight or claimed has been created before.
EventsExist ==
  \A e \in outbox \cup inbox \cup processed \cup dlq : e.n < made[e.type][e.order]

\* The one OrderCreated event of an order.
Creation(o) == [type |-> "OrderCreated", order |-> o, n |-> 0]

\* How far the events made for an order may have got, by its status.
OrderInv(o) ==
  /\ o \in validated => status[o] = "none"
  /\ made["OrderCreated"][o] = IF status[o] = "none" THEN 0 ELSE 1
  /\ made["InventoryReserved"][o] + made["InventoryFailed"][o] =
       IF Creation(o) \in processed THEN 1 ELSE 0
  /\ made["PaymentCompleted"][o] + made["PaymentFailed"][o] > 0 => Reserved(o)
  /\ status[o] = "CONFIRMED" => Reserved(o)
  /\ status[o] = "FAILED" => Reserved(o) \/ made["InventoryFailed"][o] > 0
  /\ made["OrderConfirmed"][o] = IF status[o] = "CONFIRMED" THEN 1 ELSE 0
  /\ made["OrderFailed"][o] = IF status[o] = "FAILED" THEN 1 ELSE 0
  /\ made["ReleaseInventory"][o] =
       IF status[o] = "FAILED" /\ Reserved(o) THEN 1 ELSE 0

\* Mails are only sent for announced verdicts.
MailsAnnounced ==
  \A o \in Orders :
    /\ emails[o]["confirmed"] > 0 => made["OrderConfirmed"][o] > 0
    /\ emails[o]["failed"] > 0 => made["OrderFailed"][o] > 0

SagaInv ==
  /\ TypeOK
  /\ EventsExist
  /\ \A o \in Orders : OrderInv(o)
  /\ MailsAnnounced
  /\ StockConserved

=============================================================================

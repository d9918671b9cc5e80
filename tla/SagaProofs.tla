----------------------------- MODULE SagaProofs -----------------------------
(***************************************************************************)
(* Proofs about the order saga with simulated payments (part 1) and in     *)
(* Stripe mode (part 2), for every set of orders and SKUs, every quantity  *)
(* and stock, prepaid or not, and any number of re-deliveries, lost        *)
(* answers and dead letters.                                               *)
(***************************************************************************)
EXTENDS OrderSagaRefinement, StripeSaga, Sums, TLAPS

USE DEF EventTypes, Status, Terminal, EmailKinds

-----------------------------------------------------------------------------
(* Creating events *)

\* CountEvents adds one to the counters of T for order o and to no other.
LEMMA CountEventsAdds ==
  ASSUME TypeOK, NEW T \in SUBSET EventTypes, NEW o \in Orders, CountEvents(T, o)
  PROVE  /\ made' \in [EventTypes -> [Orders -> Nat]]
         /\ \A t \in EventTypes, p \in Orders :
              made'[t][p] = IF t \in T /\ p = o THEN made[t][p] + 1 ELSE made[t][p]
  BY DEF TypeOK, CountEvents

\* A new event is an event, numbered by the count it found.
LEMMA NewEventIsEvent ==
  ASSUME TypeOK, NEW t \in EventTypes, NEW o \in Orders
  PROVE  /\ NewEvent(t, o) \in Event
         /\ NewEvent(t, o).type = t
         /\ NewEvent(t, o).order = o
         /\ NewEvent(t, o).n = made[t][o]
  BY DEF TypeOK, Event, NewEvent

-----------------------------------------------------------------------------
(* The initial states *)

LEMMA InitInv == Init => SagaInv
  <1> SUFFICES ASSUME Init PROVE SagaInv
    OBVIOUS
  <1>1. TypeOK
    BY QtyAssumption, StockAssumption DEF Init, TypeOK
  <1>2. EventsExist
    BY DEF Init, EventsExist
  <1>3. \A o \in Orders : OrderInv(o)
    BY DEF Init, OrderInv, Reserved
  <1>4. MailsAnnounced
    BY DEF Init, MailsAnnounced
  <1>5. StockConserved
    BY StockAssumption DEF Init, StockConserved
  <1> QED
    BY <1>1, <1>2, <1>3, <1>4, <1>5 DEF SagaInv

\* Counting new events keeps EventsExist when nothing else appears anywhere.
LEMMA EventsExistWithNew ==
  ASSUME TypeOK, EventsExist, NEW T \in SUBSET EventTypes, NEW o \in Orders,
         CountEvents(T, o),
         outbox' \cup inbox' \cup processed' \cup dlq'
           \subseteq (outbox \cup inbox \cup processed \cup dlq)
                        \cup {NewEvent(t, o) : t \in T}
  PROVE  EventsExist'
  <1> SUFFICES ASSUME NEW e \in outbox' \cup inbox' \cup processed' \cup dlq'
               PROVE  e.n < made'[e.type][e.order]
    BY DEF EventsExist
  <1>1. CASE e \in outbox \cup inbox \cup processed \cup dlq
    <2>1. e \in Event /\ e.n < made[e.type][e.order]
      BY <1>1 DEF TypeOK, EventsExist
    <2>2. e.type \in EventTypes /\ e.order \in Orders /\ e.n \in Nat
      BY <2>1 DEF Event
    <2>3. made[e.type][e.order] \in Nat
      BY <2>2 DEF TypeOK
    <2> QED
      BY <2>1, <2>2, <2>3, CountEventsAdds
  <1>2. CASE \E t \in T : e = NewEvent(t, o)
    <2> PICK t \in T : e = NewEvent(t, o)
      BY <1>2
    <2>1. t \in EventTypes /\ made[t][o] \in Nat
      BY DEF TypeOK
    <2>2. made'[t][o] = made[t][o] + 1
      BY <2>1, CountEventsAdds
    <2> QED
      BY <2>1, <2>2, NewEventIsEvent
  <1> QED
    BY <1>1, <1>2

\* With no new events, EventsExist only looks at where events are.
LEMMA EventsExistMoved ==
  ASSUME EventsExist, UNCHANGED made,
         outbox' \cup inbox' \cup processed' \cup dlq'
           \subseteq outbox \cup inbox \cup processed \cup dlq
  PROVE  EventsExist'
  BY DEF EventsExist

\* The message sets stay sets of events when an outbox row is written.
LEMMA WriteOutboxTyped ==
  ASSUME TypeOK, NEW T \in SUBSET EventTypes, NEW o \in Orders, WriteOutbox(T, o)
  PROVE  /\ outbox' \in SUBSET Event
         /\ made' \in [EventTypes -> [Orders -> Nat]]
  <1>1. \A t \in T : NewEvent(t, o) \in Event
    BY NewEventIsEvent
  <1>2. outbox' = outbox \cup {NewEvent(t, o) : t \in T} /\ CountEvents(T, o)
    BY DEF WriteOutbox
  <1>3. outbox \subseteq Event
    BY DEF TypeOK
  <1>4. made' \in [EventTypes -> [Orders -> Nat]]
    BY <1>2, CountEventsAdds
  <1>5. outbox' \subseteq Event
    BY <1>1, <1>2, <1>3
  <1> QED
    BY <1>4, <1>5

\* What a claim leaves of the message sets.
LEMMA ClaimEventTyped ==
  ASSUME TypeOK, NEW e \in inbox, NEW acked \in BOOLEAN, ClaimEvent(e, acked)
  PROVE  /\ inbox' \in SUBSET Event
         /\ processed' \in SUBSET Event
         /\ inbox' \subseteq inbox
         /\ dups' \in Nat
         /\ UNCHANGED <<validated, emails, dlq>>
  BY DEF TypeOK, ClaimEvent, Remaining, Redelivery

\* A message names an order, a type and a number below the count of its kind.
LEMMA MessageFacts ==
  ASSUME TypeOK, EventsExist, NEW e \in outbox \cup inbox \cup processed
  PROVE  /\ e \in Event
         /\ e.type \in EventTypes
         /\ e.order \in Orders
         /\ e.n \in Nat
         /\ made[e.type][e.order] \in Nat
         /\ made[e.type][e.order] > e.n
  <1>1. e \in Event /\ e.n < made[e.type][e.order]
    BY DEF TypeOK, EventsExist
  <1>2. e.type \in EventTypes /\ e.order \in Orders /\ e.n \in Nat
    BY <1>1 DEF Event
  <1> QED
    BY <1>1, <1>2 DEF TypeOK

\* Counting events disannounces nothing.
LEMMA MailsAnnouncedKept ==
  ASSUME TypeOK, MailsAnnounced, NEW T \in SUBSET EventTypes, NEW o \in Orders,
         CountEvents(T, o), UNCHANGED emails
  PROVE  MailsAnnounced'
  <1>1. \A t \in EventTypes, p \in Orders :
          made[t][p] \in Nat /\ made'[t][p] \in Nat /\ made'[t][p] >= made[t][p]
    <2> TAKE t \in EventTypes, p \in Orders
    <2>1. made[t][p] \in Nat
      BY DEF TypeOK
    <2> QED
      BY <2>1, CountEventsAdds
  <1> QED
    BY <1>1 DEF MailsAnnounced

-----------------------------------------------------------------------------
(* order-service: placing an order *)

LEMMA CheckStockInv ==
  ASSUME SagaInv, NEW o \in Orders, CheckStock(o)
  PROVE  SagaInv'
  <1> USE DEF SagaInv
  <1>1. TypeOK'
    BY DEF CheckStock, TypeOK, stockVars
  <1>2. EventsExist'
    BY DEF CheckStock, EventsExist
  <1>3. (\A p \in Orders : OrderInv(p))'
    BY DEF CheckStock, OrderInv, Reserved, Creation
  <1>4. MailsAnnounced'
    BY DEF CheckStock, MailsAnnounced
  <1>5. StockConserved'
    BY DEF CheckStock, StockConserved, stockVars
  <1> QED
    BY <1>1, <1>2, <1>3, <1>4, <1>5

LEMMA PlaceOrderInv ==
  ASSUME SagaInv, NEW o \in Orders, PlaceOrder(o)
  PROVE  SagaInv'
  <1> USE DEF SagaInv
  <1>0. WriteOutbox({"OrderCreated"}, o) /\ CountEvents({"OrderCreated"}, o)
    BY DEF PlaceOrder, WriteOutbox
  <1>1. TypeOK'
    BY <1>0, WriteOutboxTyped DEF PlaceOrder, TypeOK, stockVars
  <1>2. EventsExist'
    BY <1>0, EventsExistWithNew DEF PlaceOrder, WriteOutbox
  <1>3. ASSUME NEW p \in Orders PROVE OrderInv(p)'
    <2>1. \A t \in EventTypes : made[t][p] \in Nat
      BY DEF TypeOK
    <2>2. \A t \in EventTypes :
            made'[t][p] = IF t = "OrderCreated" /\ p = o THEN made[t][p] + 1 ELSE made[t][p]
      BY <1>0, CountEventsAdds
    <2>3. /\ validated' = validated \ {o}
          /\ status' = [status EXCEPT ![o] = "PENDING"]
          /\ processed' = processed
          /\ status[o] = "none"
      BY DEF PlaceOrder, OrderInv
    <2>4. /\ status'[p] = IF p = o THEN "PENDING" ELSE status[p]
          /\ OrderInv(p)
      BY <2>3 DEF TypeOK
    <2> QED
      BY <2>1, <2>2, <2>3, <2>4 DEF OrderInv, Reserved, Creation
  <1>4. MailsAnnounced'
    BY <1>0, MailsAnnouncedKept DEF PlaceOrder
  <1>5. StockConserved'
    BY DEF PlaceOrder, StockConserved, stockVars
  <1> QED
    BY <1>1, <1>2, <1>3, <1>4, <1>5

-----------------------------------------------------------------------------
(* The outbox poller *)

LEMMA RelayInv ==
  ASSUME SagaInv, NEW e \in outbox, NEW marked \in BOOLEAN, Relay(e, marked)
  PROVE  SagaInv'
  <1> USE DEF SagaInv
  <1>1. TypeOK'
    BY DEF Relay, Redelivery, TypeOK, stockVars, orderVars
  <1>2. EventsExist'
    BY EventsExistMoved DEF Relay
  <1>3. (\A p \in Orders : OrderInv(p))'
    BY DEF Relay, OrderInv, Reserved, Creation, orderVars
  <1>4. MailsAnnounced'
    BY DEF Relay, MailsAnnounced
  <1>5. StockConserved'
    BY DEF Relay, StockConserved, stockVars
  <1> QED
    BY <1>1, <1>2, <1>3, <1>4, <1>5

-----------------------------------------------------------------------------
(* inventory-service *)

\* An unclaimed OrderCreated is the creation event of a placed, undecided order
\* that inventory-service has not answered yet.
LEMMA CreationUnanswered ==
  ASSUME SagaInv, NEW e \in inbox \ processed, e.type = "OrderCreated"
  PROVE  /\ e.order \in Orders
         /\ e = Creation(e.order)
         /\ status[e.order] = "PENDING"
         /\ made["InventoryReserved"][e.order] = 0
         /\ made["InventoryFailed"][e.order] = 0
  <1> DEFINE o == e.order
  <1>1. /\ e \in Event /\ o \in Orders /\ e.n \in Nat
        /\ made["OrderCreated"][o] > e.n
    BY MessageFacts DEF SagaInv
  <1>2. OrderInv(o) /\ (\A t \in EventTypes : made[t][o] \in Nat) /\ status[o] \in Status
    BY <1>1 DEF SagaInv, TypeOK
  <1>3. e.n = 0 /\ status[o] # "none"
    BY <1>1, <1>2 DEF OrderInv
  <1>4. e = Creation(o)
    BY <1>1, <1>3 DEF Event, Creation
  <1>5. made["InventoryReserved"][o] + made["InventoryFailed"][o] = 0
    BY <1>2, <1>4 DEF OrderInv
  <1>6. made["InventoryReserved"][o] = 0 /\ made["InventoryFailed"][o] = 0
    BY <1>2, <1>5
  <1> QED
    BY <1>1, <1>2, <1>3, <1>4, <1>6 DEF OrderInv, Reserved

\* Either answer to an OrderCreated keeps every order's invariant.
LEMMA AnswerOrderInv ==
  ASSUME SagaInv, NEW e \in inbox, NEW acked \in BOOLEAN,
         e.type = "OrderCreated", ClaimEvent(e, acked), UNCHANGED status,
         NEW t \in {"InventoryReserved", "InventoryFailed"}, WriteOutbox({t}, e.order)
  PROVE  (\A p \in Orders : OrderInv(p))'
  <1> DEFINE o == e.order
  <1>1. /\ o \in Orders /\ e = Creation(o) /\ status[o] = "PENDING"
        /\ made["InventoryReserved"][o] = 0 /\ made["InventoryFailed"][o] = 0
    BY CreationUnanswered DEF ClaimEvent
  <1> SUFFICES ASSUME NEW p \in Orders PROVE OrderInv(p)'
    OBVIOUS
  <1>2. OrderInv(p) /\ \A u \in EventTypes : made[u][p] \in Nat
    BY DEF SagaInv, TypeOK
  <1>3. \A u \in EventTypes :
          made'[u][p] = IF u = t /\ p = o THEN made[u][p] + 1 ELSE made[u][p]
    BY <1>1, CountEventsAdds DEF SagaInv, WriteOutbox
  <1>4. processed' = processed \cup {e} /\ validated' = validated /\ status' = status
    BY DEF ClaimEvent
  <1>5. Creation(p) \in processed' <=> Creation(p) \in processed \/ p = o
    BY <1>1, <1>4 DEF Creation
  <1> HIDE DEF o
  <1>6. CASE p = o
    BY <1>1, <1>2, <1>3, <1>4, <1>5, <1>6 DEF OrderInv, Reserved
  <1>7. CASE p # o
    BY <1>2, <1>3, <1>4, <1>5, <1>7 DEF OrderInv, Reserved
  <1> QED
    BY <1>6, <1>7

LEMMA ReserveStockInv ==
  ASSUME SagaInv, NEW e \in inbox, NEW acked \in BOOLEAN, ReserveStock(e, acked)
  PROVE  SagaInv'
  <1> USE DEF SagaInv
  <1>0. /\ e.order \in Orders
        /\ ClaimEvent(e, acked) /\ WriteOutbox({"InventoryReserved"}, e.order)
        /\ CountEvents({"InventoryReserved"}, e.order)
    BY MessageFacts DEF ReserveStock, WriteOutbox
  <1>a. \A s \in Skus : Qty[e.order][s] \in Nat
    BY <1>0, QtyAssumption
  <1>1. TypeOK'
    <2>1. available' \in [Skus -> Int] /\ reserved' \in [Skus -> Int]
      BY <1>a DEF ReserveStock, TypeOK
    <2>2. outbox' \in SUBSET Event /\ made' \in [EventTypes -> [Orders -> Nat]]
      BY <1>0, WriteOutboxTyped
    <2> QED
      BY <1>0, <2>1, <2>2, ClaimEventTyped DEF ReserveStock, TypeOK
  <1>2. EventsExist'
    BY <1>0, EventsExistWithNew DEF ClaimEvent, Remaining, WriteOutbox
  <1>3. (\A p \in Orders : OrderInv(p))'
    BY <1>0, AnswerOrderInv DEF ReserveStock
  <1>4. MailsAnnounced'
    BY <1>0, MailsAnnouncedKept DEF ClaimEvent
  <1>5. StockConserved'
    BY <1>a DEF ReserveStock, StockConserved, InStock, TypeOK
  <1> QED
    BY <1>1, <1>2, <1>3, <1>4, <1>5

LEMMA RefuseStockInv ==
  ASSUME SagaInv, NEW e \in inbox, NEW acked \in BOOLEAN, RefuseStock(e, acked)
  PROVE  SagaInv'
  <1> USE DEF SagaInv
  <1>0. /\ e.order \in Orders
        /\ ClaimEvent(e, acked) /\ WriteOutbox({"InventoryFailed"}, e.order)
        /\ CountEvents({"InventoryFailed"}, e.order)
    BY MessageFacts DEF RefuseStock, WriteOutbox
  <1>1. TypeOK'
    <2>1. outbox' \in SUBSET Event /\ made' \in [EventTypes -> [Orders -> Nat]]
      BY <1>0, WriteOutboxTyped
    <2> QED
      BY <1>0, <2>1, ClaimEventTyped DEF RefuseStock, TypeOK, stockVars
  <1>2. EventsExist'
    BY <1>0, EventsExistWithNew DEF ClaimEvent, Remaining, WriteOutbox
  <1>3. (\A p \in Orders : OrderInv(p))'
    BY <1>0, AnswerOrderInv DEF RefuseStock
  <1>4. MailsAnnounced'
    BY <1>0, MailsAnnouncedKept DEF ClaimEvent
  <1>5. StockConserved'
    BY DEF RefuseStock, StockConserved, stockVars
  <1> QED
    BY <1>1, <1>2, <1>3, <1>4, <1>5

\* An unclaimed ReleaseInventory belongs to a failed order whose stock is held.
LEMMA ReleaseOwed ==
  ASSUME SagaInv, NEW e \in inbox \ processed, e.type = "ReleaseInventory"
  PROVE  /\ e.order \in Orders
         /\ status[e.order] = "FAILED"
         /\ Holds(e.order)
  <1> DEFINE o == e.order
  <1>1. /\ e \in Event /\ o \in Orders /\ e.n \in Nat
        /\ made["ReleaseInventory"][o] > e.n /\ made["ReleaseInventory"][o] \in Nat
    BY MessageFacts DEF SagaInv
  <1>2. /\ made["ReleaseInventory"][o] = 1 /\ e.n = 0
        /\ status[o] = "FAILED" /\ Reserved(o)
    BY <1>1 DEF SagaInv, OrderInv
  <1>3. ASSUME NEW f \in processed, f.type = "ReleaseInventory", f.order = o
        PROVE  FALSE
    <2>1. f \in Event /\ f.n \in Nat /\ made["ReleaseInventory"][o] > f.n
      BY <1>3, MessageFacts DEF SagaInv
    <2>2. f.n = 0
      BY <1>2, <2>1
    <2>3. f = e
      BY <1>1, <1>2, <1>3, <2>1, <2>2 DEF Event
    <2> QED
      BY <1>3, <2>3
  <1> QED
    BY <1>1, <1>2, <1>3 DEF Holds, Released

LEMMA ReleaseStockInv ==
  ASSUME SagaInv, NEW e \in inbox, NEW acked \in BOOLEAN, ReleaseStock(e, acked)
  PROVE  SagaInv'
  <1> USE DEF SagaInv
  <1>0. e.order \in Orders /\ ClaimEvent(e, acked)
    BY MessageFacts DEF ReleaseStock
  <1>a. \A s \in Skus : Qty[e.order][s] \in Nat
    BY <1>0, QtyAssumption
  <1>1. TypeOK'
    <2>1. available' \in [Skus -> Int] /\ reserved' \in [Skus -> Int]
      BY <1>a DEF ReleaseStock, TypeOK
    <2> QED
      BY <1>0, <2>1, ClaimEventTyped DEF ReleaseStock, TypeOK
  <1>2. EventsExist'
    BY <1>0, EventsExistMoved DEF ReleaseStock, ClaimEvent, Remaining
  <1>3. ASSUME NEW p \in Orders PROVE OrderInv(p)'
    <2>1. processed' = processed \cup {e} /\ validated' = validated
      BY <1>0 DEF ClaimEvent
    <2>2. Creation(p) \in processed' <=> Creation(p) \in processed
      BY <2>1 DEF ReleaseStock, Creation
    <2>3. Creation(p)' = Creation(p)
      BY DEF Creation
    <2> QED
      BY <2>1, <2>2, <2>3 DEF ReleaseStock, OrderInv, Reserved
  <1>4. MailsAnnounced'
    BY <1>0 DEF ReleaseStock, ClaimEvent, MailsAnnounced
  <1>5. StockConserved'
    BY <1>a DEF ReleaseStock, StockConserved, TypeOK
  <1> QED
    BY <1>1, <1>2, <1>3, <1>4, <1>5

-----------------------------------------------------------------------------
(* payment-service *)

LEMMA PayFakeInv ==
  ASSUME SagaInv, NEW e \in inbox, NEW acked \in BOOLEAN,
         NEW outcome \in {"PaymentCompleted", "PaymentFailed"},
         PayFake(e, outcome, acked)
  PROVE  SagaInv'
  <1> USE DEF SagaInv
  <1>0. /\ e.order \in Orders /\ e.type = "InventoryReserved"
        /\ CountEvents({outcome}, e.order)
        /\ Reserved(e.order)
    BY MessageFacts DEF PayFake, Reserved
  <1>1. TypeOK'
    <2>1. made' \in [EventTypes -> [Orders -> Nat]]
      BY <1>0, CountEventsAdds
    <2>2. inbox' \subseteq Event
      BY <1>0, NewEventIsEvent DEF PayFake, Remaining, TypeOK
    <2> QED
      BY <2>1, <2>2 DEF PayFake, Redelivery, TypeOK, stockVars, orderVars
  <1>2. EventsExist'
    BY <1>0, EventsExistWithNew DEF PayFake, Remaining
  <1>3. ASSUME NEW p \in Orders PROVE OrderInv(p)'
    <2>1. OrderInv(p) /\ \A t \in EventTypes : made[t][p] \in Nat
      BY DEF TypeOK
    <2>2. \A t \in EventTypes :
            made'[t][p] = IF t = outcome /\ p = e.order THEN made[t][p] + 1 ELSE made[t][p]
      BY <1>0, CountEventsAdds
    <2>3. UNCHANGED <<status, validated, processed>>
      BY DEF PayFake, orderVars
    <2> QED
      BY <1>0, <2>1, <2>2, <2>3 DEF OrderInv, Reserved, Creation
  <1>4. MailsAnnounced'
    BY <1>0, MailsAnnouncedKept DEF PayFake
  <1>5. StockConserved'
    BY DEF PayFake, StockConserved, stockVars
  <1> QED
    BY <1>1, <1>2, <1>3, <1>4, <1>5

-----------------------------------------------------------------------------
(* order-service: the verdict *)

\* What every verdict shares: only OrderInv depends on which one it is.
LEMMA DecideOrderInv ==
  ASSUME SagaInv, NEW e \in inbox, NEW acked \in BOOLEAN,
         NEW to \in Terminal, NEW T \in SUBSET EventTypes,
         DecideOrder(e, acked, to, T),
         \A p \in Orders : OrderInv(p)'
  PROVE  SagaInv'
  <1> USE DEF SagaInv
  <1>0. /\ e.order \in Orders /\ ClaimEvent(e, acked)
        /\ WriteOutbox(T, e.order) /\ CountEvents(T, e.order)
    BY MessageFacts DEF DecideOrder, WriteOutbox
  <1>1. TypeOK'
    <2>1. outbox' \in SUBSET Event /\ made' \in [EventTypes -> [Orders -> Nat]]
      BY <1>0, WriteOutboxTyped
    <2>2. status' \in [Orders -> Status]
      BY <1>0 DEF DecideOrder, TypeOK
    <2> QED
      BY <1>0, <2>1, <2>2, ClaimEventTyped DEF DecideOrder, TypeOK, stockVars
  <1>2. EventsExist'
    BY <1>0, EventsExistWithNew DEF ClaimEvent, Remaining, WriteOutbox
  <1>4. MailsAnnounced'
    BY <1>0, MailsAnnouncedKept DEF ClaimEvent
  <1>5. StockConserved'
    BY DEF DecideOrder, StockConserved, stockVars
  <1> QED
    BY <1>1, <1>2, <1>4, <1>5

\* The counters, statuses and claims of one order after a verdict.
LEMMA DecideOrderEffect ==
  ASSUME SagaInv, NEW e \in inbox, NEW acked \in BOOLEAN,
         NEW to \in Terminal, NEW T \in SUBSET EventTypes, NEW p \in Orders,
         DecideOrder(e, acked, to, T), e.type # "OrderCreated"
  PROVE  /\ e.order \in Orders /\ status[e.order] = "PENDING"
         /\ made[e.type][e.order] > 0
         /\ \A t \in EventTypes : made[t][p] \in Nat
         /\ \A t \in EventTypes :
              made'[t][p] = IF t \in T /\ p = e.order THEN made[t][p] + 1 ELSE made[t][p]
         /\ status'[p] = IF p = e.order THEN to ELSE status[p]
         /\ validated' = validated
         /\ Creation(p)' \in processed' <=> Creation(p) \in processed
  <1>1. /\ e.order \in Orders /\ CountEvents(T, e.order) /\ made[e.type][e.order] > 0
    BY MessageFacts DEF SagaInv, DecideOrder, WriteOutbox
  <1>2. \A t \in EventTypes : made[t][p] \in Nat
    BY DEF SagaInv, TypeOK
  <1>3. \A t \in EventTypes :
          made'[t][p] = IF t \in T /\ p = e.order THEN made[t][p] + 1 ELSE made[t][p]
    <2>1. TypeOK
      BY DEF SagaInv
    <2> QED
      BY <1>1, <2>1, CountEventsAdds
  <1>4. status'[p] = IF p = e.order THEN to ELSE status[p]
    BY <1>1 DEF DecideOrder, SagaInv, TypeOK
  <1>5. Creation(p)' \in processed' <=> Creation(p) \in processed
    BY DEF DecideOrder, ClaimEvent, Creation
  <1> QED
    BY <1>1, <1>2, <1>3, <1>4, <1>5 DEF DecideOrder, ClaimEvent

LEMMA ConfirmOrderInv ==
  ASSUME SagaInv, NEW e \in inbox, NEW acked \in BOOLEAN, ConfirmOrder(e, acked)
  PROVE  SagaInv'
  <1>1. ASSUME NEW p \in Orders PROVE OrderInv(p)'
    <2> DEFINE T == {"OrderConfirmed"}
    <2>1. e.type = "PaymentCompleted" /\ DecideOrder(e, acked, "CONFIRMED", T)
      BY DEF ConfirmOrder
    <2>2. OrderInv(p)
      BY DEF SagaInv
    <2> QED
      BY <2>1, <2>2, DecideOrderEffect DEF OrderInv, Reserved
  <1> QED
    BY <1>1, DecideOrderInv DEF ConfirmOrder

LEMMA FailPaymentInv ==
  ASSUME SagaInv, NEW e \in inbox, NEW acked \in BOOLEAN, FailPayment(e, acked)
  PROVE  SagaInv'
  <1>1. ASSUME NEW p \in Orders PROVE OrderInv(p)'
    <2> DEFINE T == {"ReleaseInventory", "OrderFailed"}
    <2>1. e.type = "PaymentFailed" /\ DecideOrder(e, acked, "FAILED", T)
      BY DEF FailPayment
    <2>2. OrderInv(p)
      BY DEF SagaInv
    <2> QED
      BY <2>1, <2>2, DecideOrderEffect DEF OrderInv, Reserved
  <1> QED
    BY <1>1, DecideOrderInv DEF FailPayment

LEMMA FailInventoryInv ==
  ASSUME SagaInv, NEW e \in inbox, NEW acked \in BOOLEAN, FailInventory(e, acked)
  PROVE  SagaInv'
  <1>1. ASSUME NEW p \in Orders PROVE OrderInv(p)'
    <2> DEFINE T == {"OrderFailed"}
    <2>1. e.type = "InventoryFailed" /\ DecideOrder(e, acked, "FAILED", T)
      BY DEF FailInventory
    <2>2. OrderInv(p)
      BY DEF SagaInv
    <2> QED
      BY <2>1, <2>2, DecideOrderEffect DEF OrderInv, Reserved
  <1> QED
    BY <1>1, DecideOrderInv DEF FailInventory

LEMMA IgnoreLateOutcomeInv ==
  ASSUME SagaInv, NEW e \in inbox, NEW acked \in BOOLEAN, IgnoreLateOutcome(e, acked)
  PROVE  SagaInv'
  <1> USE DEF SagaInv
  <1>0. ClaimEvent(e, acked)
    BY DEF IgnoreLateOutcome
  <1>1. TypeOK'
    BY <1>0, ClaimEventTyped DEF IgnoreLateOutcome, TypeOK, stockVars
  <1>2. EventsExist'
    BY <1>0, EventsExistMoved DEF IgnoreLateOutcome, ClaimEvent, Remaining
  <1>3. ASSUME NEW p \in Orders PROVE OrderInv(p)'
    <2>1. Creation(p)' \in processed' <=> Creation(p) \in processed
      BY DEF IgnoreLateOutcome, ClaimEvent, Creation
    <2> QED
      BY <1>0, <2>1 DEF IgnoreLateOutcome, ClaimEvent, OrderInv, Reserved
  <1>4. MailsAnnounced'
    BY <1>0 DEF IgnoreLateOutcome, ClaimEvent, MailsAnnounced
  <1>5. StockConserved'
    BY DEF IgnoreLateOutcome, StockConserved, stockVars
  <1> QED
    BY <1>1, <1>2, <1>3, <1>4, <1>5

LEMMA DropDuplicateInv ==
  ASSUME SagaInv, NEW e \in inbox, NEW acked \in BOOLEAN, DropDuplicate(e, acked)
  PROVE  SagaInv'
  <1> USE DEF SagaInv
  <1>1. TypeOK'
    BY DEF DropDuplicate, Remaining, Redelivery, TypeOK, stockVars, orderVars
  <1>2. EventsExist'
    BY EventsExistMoved DEF DropDuplicate, Remaining
  <1>3. (\A p \in Orders : OrderInv(p))'
    BY DEF DropDuplicate, OrderInv, Reserved, Creation, orderVars
  <1>4. MailsAnnounced'
    BY DEF DropDuplicate, MailsAnnounced
  <1>5. StockConserved'
    BY DEF DropDuplicate, StockConserved, stockVars
  <1> QED
    BY <1>1, <1>2, <1>3, <1>4, <1>5

-----------------------------------------------------------------------------
(* notification-service and the dead-letter topic *)

LEMMA NotifyInv ==
  ASSUME SagaInv, NEW e \in inbox, NEW acked \in BOOLEAN, NEW sent \in BOOLEAN,
         Notify(e, sent, acked)
  PROVE  SagaInv'
  <1> USE DEF SagaInv
  <1>0. /\ e.order \in Orders /\ e.type \in {"OrderConfirmed", "OrderFailed"}
        /\ made[e.type][e.order] > 0
    BY MessageFacts DEF Notify
  <1>1. TypeOK'
    BY <1>0 DEF Notify, EmailKind, Remaining, Redelivery, TypeOK, stockVars, orderVars
  <1>2. EventsExist'
    BY EventsExistMoved DEF Notify, Remaining
  <1>3. (\A p \in Orders : OrderInv(p))'
    BY DEF Notify, OrderInv, Reserved, Creation, orderVars
  <1>4. MailsAnnounced'
    BY <1>0 DEF Notify, EmailKind, MailsAnnounced, TypeOK
  <1>5. StockConserved'
    BY DEF Notify, StockConserved, stockVars
  <1> QED
    BY <1>1, <1>2, <1>3, <1>4, <1>5

LEMMA DeadLetterInv ==
  ASSUME SagaInv, NEW e \in inbox, DeadLetter(e)
  PROVE  SagaInv'
  <1> USE DEF SagaInv
  <1>1. TypeOK'
    BY DEF DeadLetter, TypeOK, stockVars, orderVars
  <1>2. EventsExist'
    BY EventsExistMoved DEF DeadLetter
  <1>3. (\A p \in Orders : OrderInv(p))'
    BY DEF DeadLetter, OrderInv, Reserved, Creation, orderVars
  <1>4. MailsAnnounced'
    BY DEF DeadLetter, MailsAnnounced
  <1>5. StockConserved'
    BY DEF DeadLetter, StockConserved, stockVars
  <1> QED
    BY <1>1, <1>2, <1>3, <1>4, <1>5

-----------------------------------------------------------------------------
(* The specification *)

\* Every step, and every stuttering step, preserves the invariant.
LEMMA NextInv == SagaInv /\ [Next]_vars => SagaInv'
  <1> SUFFICES ASSUME SagaInv, [Next]_vars PROVE SagaInv'
    OBVIOUS
  <1>1. ASSUME NEW o \in Orders, CheckStock(o) PROVE SagaInv'
    BY <1>1, CheckStockInv
  <1>2. ASSUME NEW o \in Orders, PlaceOrder(o) PROVE SagaInv'
    BY <1>2, PlaceOrderInv
  <1>3. ASSUME NEW e \in outbox, NEW marked \in BOOLEAN, Relay(e, marked) PROVE SagaInv'
    BY <1>3, RelayInv
  <1>4. ASSUME NEW e \in inbox, NEW acked \in BOOLEAN, Handle(e, acked) PROVE SagaInv'
    BY <1>4, ReserveStockInv, RefuseStockInv, ReleaseStockInv, PayFakeInv,
       ConfirmOrderInv, FailPaymentInv, FailInventoryInv, IgnoreLateOutcomeInv,
       DropDuplicateInv, NotifyInv DEF Handle, HandleUnpaid
  <1>5. ASSUME NEW e \in inbox, DeadLetter(e) PROVE SagaInv'
    BY <1>5, DeadLetterInv
  <1>6. CASE UNCHANGED vars
    BY <1>6 DEF vars, orderVars, stockVars, SagaInv, TypeOK, EventsExist, OrderInv,
       Reserved, Creation, MailsAnnounced, StockConserved
  <1> QED
    BY <1>1, <1>2, <1>3, <1>4, <1>5, <1>6 DEF Next

\* The inductive invariant holds of every reachable state.
THEOREM SagaInvariant == Spec => []SagaInv
  BY InitInv, NextInv, PTL DEF Spec

\* Every variable keeps its type: ids stay fresh and stock stays an integer.
THEOREM TypeCorrect == Spec => []TypeOK
  <1>1. SagaInv => TypeOK
    BY DEF SagaInv
  <1> QED
    BY <1>1, SagaInvariant, PTL

\* inventory-service answers each order at most once (the claim in
\* processed_events), whatever is delivered again.
THEOREM AnsweredOnce == Spec => []OneReservationAnswer
  <1>1. SagaInv => OneReservationAnswer
    BY DEF SagaInv, OrderInv, OneReservationAnswer
  <1> QED
    BY <1>1, SagaInvariant, PTL

\* A confirmed order keeps the stock reserved for it, even when the simulated
\* payment-service has announced both outcomes.
THEOREM ConfirmedKeepsStock == Spec => []ConfirmedHoldsStock
  <1>1. SagaInv => ConfirmedHoldsStock
    <2> SUFFICES ASSUME SagaInv, NEW o \in Orders, status[o] = "CONFIRMED"
                 PROVE  Holds(o)
      BY DEF ConfirmedHoldsStock
    <2>1. Reserved(o) /\ made["ReleaseInventory"][o] = 0
      BY DEF SagaInv, OrderInv
    <2>2. ASSUME NEW e \in processed, e.type = "ReleaseInventory", e.order = o
          PROVE  FALSE
      BY <2>1, <2>2, MessageFacts DEF SagaInv
    <2> QED
      BY <2>1, <2>2 DEF Holds, Released
  <1> QED
    BY <1>1, SagaInvariant, PTL

\* The verdict announced by order-service is unique and is the stored one.
THEOREM VerdictUnique == Spec => []OneVerdict
  <1>1. SagaInv => OneVerdict
    BY DEF SagaInv, OrderInv, OneVerdict
  <1> QED
    BY <1>1, SagaInvariant, PTL

\* ReleaseInventory is written once exactly when it is owed.
THEOREM CompensationIsExact == Spec => []CompensationExact
  <1>1. SagaInv => CompensationExact
    BY DEF SagaInv, OrderInv, CompensationExact
  <1> QED
    BY <1>1, SagaInvariant, PTL

\* No unit of stock is created, lost or promised twice.
THEOREM StockIsConserved == Spec => []StockConserved
  <1>1. SagaInv => StockConserved
    BY DEF SagaInv
  <1> QED
    BY <1>1, SagaInvariant, PTL

\* The mails a customer gets never contradict the order's status.
THEOREM MailsAgree == Spec => []EmailsAgree
  <1>1. SagaInv => EmailsAgree
    BY DEF SagaInv, OrderInv, MailsAnnounced, EmailsAgree
  <1> QED
    BY <1>1, SagaInvariant, PTL

\* A verdict, once stored, is never changed, and no order row is born decided.
THEOREM VerdictIsFinal == Spec => VerdictFinal
  <1> DEFINE Final == \A o \in Orders :
                        /\ status[o] \in Terminal => status'[o] = status[o]
                        /\ status[o] = "none" => status'[o] \in {"none", "PENDING"}
  <1>1. SagaInv /\ [Next]_vars => [Final]_vars
    <2> SUFFICES ASSUME SagaInv, Next PROVE Final
      OBVIOUS
    <2>0. status \in [Orders -> Status]
      BY DEF SagaInv, TypeOK
    <2>1. ASSUME UNCHANGED status PROVE Final
      BY <2>1
    <2>2. ASSUME NEW o \in Orders, status[o] = "none",
                 status' = [status EXCEPT ![o] = "PENDING"]
          PROVE  Final
      BY <2>0, <2>2
    <2>3. ASSUME NEW o \in Orders, NEW to \in Terminal, status[o] = "PENDING",
                 status' = [status EXCEPT ![o] = to]
          PROVE  Final
      BY <2>0, <2>3
    <2>4. ASSUME NEW o \in Orders, CheckStock(o) PROVE Final
      BY <2>1, <2>4 DEF CheckStock
    <2>5. ASSUME NEW o \in Orders, PlaceOrder(o) PROVE Final
      <3>1. status[o] = "none" /\ status' = [status EXCEPT ![o] = "PENDING"]
        BY <2>5 DEF PlaceOrder, SagaInv, OrderInv
      <3> QED
        BY <2>2, <3>1
    <2>6. ASSUME NEW e \in outbox, NEW marked \in BOOLEAN, Relay(e, marked) PROVE Final
      BY <2>1, <2>6 DEF Relay, orderVars
    <2>7. ASSUME NEW e \in inbox, NEW acked \in BOOLEAN, Handle(e, acked) PROVE Final
      <3>1. ASSUME NEW to \in Terminal, NEW T, DecideOrder(e, acked, to, T) PROVE Final
        <4>1. e.order \in Orders
          BY MessageFacts DEF SagaInv
        <4>2. status[e.order] = "PENDING" /\ status' = [status EXCEPT ![e.order] = to]
          BY <3>1 DEF DecideOrder
        <4> QED
          BY <2>3, <4>1, <4>2
      <3>2. CASE UNCHANGED status
        BY <2>1, <3>2
      <3>3. CASE ConfirmOrder(e, acked) \/ FailPayment(e, acked) \/ FailInventory(e, acked)
        BY <3>1, <3>3 DEF ConfirmOrder, FailPayment, FailInventory
      <3> QED
        BY <2>7, <3>2, <3>3 DEF Handle, HandleUnpaid, ReserveStock, RefuseStock, ReleaseStock, PayFake,
           IgnoreLateOutcome, DropDuplicate, Notify, orderVars
    <2>8. ASSUME NEW e \in inbox, DeadLetter(e) PROVE Final
      BY <2>1, <2>8 DEF DeadLetter, orderVars
    <2> QED
      BY <2>4, <2>5, <2>6, <2>7, <2>8 DEF Next
  <1> QED
    BY <1>1, SagaInvariant, PTL DEF Spec, VerdictFinal

-----------------------------------------------------------------------------
(* Refinement of OrderLifecycle *)

\* When neither the counts of inventory answers nor the claims of
\* ReleaseInventory change, every order's hold is what it was.
LEMMA HoldUnchanged ==
  ASSUME TypeOK, made' \in [EventTypes -> [Orders -> Nat]],
         \A p \in Orders : /\ made'["InventoryReserved"][p] = made["InventoryReserved"][p]
                            /\ made'["InventoryFailed"][p] = made["InventoryFailed"][p],
         \A f \in processed : f \in processed',
         \A f \in processed' : f.type = "ReleaseInventory" => f \in processed
  PROVE  holdOf' = holdOf
  BY DEF holdOf, HoldOf, Reserved, Released

\* Creating events that are no inventory answers changes no hold.
LEMMA HoldCounted ==
  ASSUME TypeOK, NEW o \in Orders,
         \A f \in processed : f \in processed',
         \A f \in processed' : f.type = "ReleaseInventory" => f \in processed,
         NEW T \in SUBSET (EventTypes \ {"InventoryReserved", "InventoryFailed"}),
         CountEvents(T, o)
  PROVE  holdOf' = holdOf
  <1>1. T \in SUBSET EventTypes
    OBVIOUS
  <1>2. /\ made' \in [EventTypes -> [Orders -> Nat]]
        /\ \A t \in EventTypes, p \in Orders :
             made'[t][p] = IF t \in T /\ p = o THEN made[t][p] + 1 ELSE made[t][p]
    BY <1>1, CountEventsAdds
  <1>3. "InventoryReserved" \notin T /\ "InventoryFailed" \notin T
    OBVIOUS
  <1>4. \A p \in Orders : /\ made'["InventoryReserved"][p] = made["InventoryReserved"][p]
                          /\ made'["InventoryFailed"][p] = made["InventoryFailed"][p]
    BY <1>2, <1>3
  <1> QED
    BY <1>2, <1>4, HoldUnchanged

\* A new answer for order o changes the hold of o alone.
LEMMA HoldAnswered ==
  ASSUME SagaInv, NEW e \in inbox, NEW acked \in BOOLEAN,
         e.type = "OrderCreated", ClaimEvent(e, acked),
         NEW t \in {"InventoryReserved", "InventoryFailed"}, WriteOutbox({t}, e.order)
  PROVE  /\ e.order \in Orders
         /\ status[e.order] = "PENDING"
         /\ holdOf[e.order] = "none"
         /\ holdOf' = [holdOf EXCEPT ![e.order] =
                         IF t = "InventoryReserved" THEN "held" ELSE "refused"]
  <1> DEFINE o == e.order
  <1>1. /\ o \in Orders /\ status[o] = "PENDING"
        /\ made["InventoryReserved"][o] = 0 /\ made["InventoryFailed"][o] = 0
        /\ made["ReleaseInventory"][o] = 0
    BY CreationUnanswered DEF ClaimEvent, SagaInv, OrderInv
  <1>2. \A u \in EventTypes, p \in Orders :
          made'[u][p] = IF u = t /\ p = o THEN made[u][p] + 1 ELSE made[u][p]
    <2>1. TypeOK
      BY DEF SagaInv
    <2> QED
      BY <1>1, <2>1, CountEventsAdds DEF WriteOutbox
  <1>3. \A p \in Orders : Released(p)' <=> Released(p)
    BY DEF ClaimEvent, Released
  <1>4. ~Released(o)
    BY <1>1, MessageFacts DEF Released, SagaInv
  <1>5. HoldOf(o) = "none"
    BY <1>1 DEF HoldOf, Reserved
  <1>6. HoldOf(o)' = IF t = "InventoryReserved" THEN "held" ELSE "refused"
    BY <1>1, <1>2, <1>3, <1>4 DEF HoldOf, Reserved
  <1>7. ASSUME NEW p \in Orders, p # o PROVE HoldOf(p)' = HoldOf(p)
    BY <1>2, <1>3, <1>7 DEF HoldOf, Reserved
  <1> QED
    BY <1>1, <1>5, <1>6, <1>7 DEF holdOf

LEMMA RefineReserve ==
  ASSUME SagaInv, NEW e \in inbox, NEW acked \in BOOLEAN, ReserveStock(e, acked)
  PROVE  \E o \in Orders : Lifecycle!Hold(o)
  <1>1. /\ e.order \in Orders /\ status[e.order] = "PENDING" /\ holdOf[e.order] = "none"
        /\ holdOf' = [holdOf EXCEPT ![e.order] = "held"]
    BY HoldAnswered DEF ReserveStock
  <1> QED
    BY <1>1 DEF ReserveStock, InStock, Lifecycle!Hold, Lifecycle!Fits

LEMMA RefineRefuse ==
  ASSUME SagaInv, NEW e \in inbox, NEW acked \in BOOLEAN, RefuseStock(e, acked)
  PROVE  \E o \in Orders : Lifecycle!Refuse(o)
  <1>1. /\ e.order \in Orders /\ status[e.order] = "PENDING" /\ holdOf[e.order] = "none"
        /\ holdOf' = [holdOf EXCEPT ![e.order] = "refused"]
    BY HoldAnswered DEF RefuseStock
  <1> QED
    BY <1>1 DEF RefuseStock, InStock, stockVars, Lifecycle!Refuse, Lifecycle!Fits

LEMMA RefineRelease ==
  ASSUME SagaInv, NEW e \in inbox, NEW acked \in BOOLEAN, ReleaseStock(e, acked)
  PROVE  \E o \in Orders : Lifecycle!Return(o)
  <1> DEFINE o == e.order
  <1>1. o \in Orders /\ status[o] = "FAILED" /\ Holds(o)
    BY ReleaseOwed DEF ReleaseStock, ClaimEvent
  <1>2. /\ processed' = processed \cup {e} /\ e.type = "ReleaseInventory"
        /\ UNCHANGED <<status, made>>
    BY DEF ReleaseStock, ClaimEvent
  <1>3. \A p \in Orders : Released(p)' <=> Released(p) \/ p = o
    BY <1>2 DEF Released
  <1>4. HoldOf(o) = "held" /\ HoldOf(o)' = "returned"
    BY <1>1, <1>2, <1>3 DEF HoldOf, Reserved, Holds
  <1>5. ASSUME NEW p \in Orders, p # o PROVE HoldOf(p)' = HoldOf(p)
    BY <1>2, <1>3, <1>5 DEF HoldOf, Reserved
  <1>6. holdOf[o] = "held" /\ holdOf' = [holdOf EXCEPT ![o] = "returned"]
    BY <1>1, <1>4, <1>5 DEF holdOf
  <1> QED
    BY <1>1, <1>2, <1>6 DEF ReleaseStock, Lifecycle!Return

\* A verdict reads the hold that the event deciding it implies.
LEMMA RefineDecide ==
  ASSUME SagaInv, NEW e \in inbox, NEW acked \in BOOLEAN,
         ConfirmOrder(e, acked) \/ FailPayment(e, acked) \/ FailInventory(e, acked)
  PROVE  \E o \in Orders : Lifecycle!Confirm(o) \/ Lifecycle!Fail(o)
  <1> DEFINE o == e.order
  <1>0. TypeOK
    BY DEF SagaInv
  <1>1. PICK to \in Terminal,
             T \in SUBSET (EventTypes \ {"InventoryReserved", "InventoryFailed"}) :
          /\ DecideOrder(e, acked, to, T)
          /\ to = "CONFIRMED" => e.type = "PaymentCompleted"
          /\ e.type \in {"PaymentCompleted", "PaymentFailed", "InventoryFailed"}
    BY DEF ConfirmOrder, FailPayment, FailInventory
  <1>2. /\ o \in Orders /\ made[e.type][o] > 0 /\ OrderInv(o)
        /\ \A t \in EventTypes : made[t][o] \in Nat
    BY MessageFacts DEF SagaInv, TypeOK
  <1>3. /\ status[o] = "PENDING" /\ status' = [status EXCEPT ![o] = to]
        /\ available' = available /\ CountEvents(T, o)
        /\ processed' = processed \cup {e}
    BY <1>1 DEF DecideOrder, WriteOutbox, ClaimEvent, stockVars
  <1>4. holdOf' = holdOf
    <2>2. \A f \in processed' : f.type = "ReleaseInventory" => f \in processed
      BY <1>1, <1>3
    <2> QED
      BY <1>0, <1>2, <1>3, <2>2, HoldCounted
  <1>5. ~Released(o)
    <2>1. made["ReleaseInventory"][o] = 0
      BY <1>2, <1>3 DEF OrderInv
    <2> QED
      BY <2>1, MessageFacts DEF Released, SagaInv
  <1>6. holdOf[o] = IF Reserved(o) THEN "held" ELSE "refused"
    BY <1>1, <1>2, <1>5 DEF holdOf, HoldOf, OrderInv, Reserved
  <1>7. e.type = "PaymentCompleted" => Reserved(o)
    BY <1>2 DEF OrderInv, Reserved
  <1> QED
    BY <1>1, <1>2, <1>3, <1>4, <1>6, <1>7 DEF Lifecycle!Confirm, Lifecycle!Fail

\* Every step of the saga is a step of the lifecycle or leaves it alone.
LEMMA RefineNext ==
  SagaInv /\ [Next]_vars => [Lifecycle!Next]_Lifecycle!lifecycle
  <1> SUFFICES ASSUME SagaInv, [Next]_vars
               PROVE  Lifecycle!Next \/ UNCHANGED <<status, holdOf, available>>
    BY DEF Lifecycle!lifecycle
  <1> USE DEF SagaInv
  <1>0. TypeOK
    OBVIOUS
  <1>1. ASSUME NEW o \in Orders, CheckStock(o) PROVE UNCHANGED <<status, holdOf, available>>
    BY <1>1 DEF CheckStock, stockVars, holdOf, HoldOf, Reserved, Released
  <1>2. ASSUME NEW o \in Orders, PlaceOrder(o) PROVE Lifecycle!Place(o)
    <2>1. status[o] = "none" /\ status' = [status EXCEPT ![o] = "PENDING"]
      BY <1>2 DEF PlaceOrder, OrderInv
    <2>2. /\ available' = available /\ processed' = processed
          /\ CountEvents({"OrderCreated"}, o)
      BY <1>2 DEF PlaceOrder, WriteOutbox, stockVars
    <2>3. holdOf' = holdOf
      <3>1. {"OrderCreated"} \in SUBSET (EventTypes \ {"InventoryReserved", "InventoryFailed"})
        OBVIOUS
      <3> QED
        BY <1>0, <2>2, <3>1, HoldCounted
    <2> QED
      BY <2>1, <2>2, <2>3 DEF Lifecycle!Place
  <1>3. ASSUME NEW e \in outbox, NEW marked \in BOOLEAN, Relay(e, marked)
        PROVE  UNCHANGED <<status, holdOf, available>>
    BY <1>3 DEF Relay, stockVars, orderVars, holdOf, HoldOf, Reserved, Released
  <1>4. ASSUME NEW e \in inbox, NEW acked \in BOOLEAN, Handle(e, acked)
        PROVE  Lifecycle!Next \/ UNCHANGED <<status, holdOf, available>>
    <2>1. CASE ReserveStock(e, acked)
      BY <2>1, RefineReserve DEF Lifecycle!Next, Lifecycle!Step
    <2>2. CASE RefuseStock(e, acked)
      BY <2>2, RefineRefuse DEF Lifecycle!Next, Lifecycle!Step
    <2>3. CASE ReleaseStock(e, acked)
      BY <2>3, RefineRelease DEF Lifecycle!Next, Lifecycle!Step
    <2>4. ASSUME NEW outcome \in {"PaymentCompleted", "PaymentFailed"},
                 PayFake(e, outcome, acked)
          PROVE  UNCHANGED <<status, holdOf, available>>
      <3>1. /\ e.order \in Orders /\ CountEvents({outcome}, e.order)
            /\ UNCHANGED <<status, available, processed>>
        BY <2>4, MessageFacts DEF PayFake, stockVars, orderVars
      <3>2. {outcome} \in SUBSET (EventTypes \ {"InventoryReserved", "InventoryFailed"})
        OBVIOUS
      <3> QED
        BY <1>0, <3>1, <3>2, HoldCounted
    <2>5. CASE ConfirmOrder(e, acked) \/ FailPayment(e, acked) \/ FailInventory(e, acked)
      BY <2>5, RefineDecide DEF Lifecycle!Next, Lifecycle!Step
    <2>6. CASE IgnoreLateOutcome(e, acked)
      <3>1. /\ UNCHANGED <<status, available, made>>
            /\ processed' = processed \cup {e} /\ e.type # "ReleaseInventory"
        BY <2>6 DEF IgnoreLateOutcome, ClaimEvent, stockVars
      <3> QED
        BY <3>1 DEF holdOf, HoldOf, Reserved, Released
    <2>7. CASE DropDuplicate(e, acked)
      BY <2>7 DEF DropDuplicate, stockVars, orderVars, holdOf, HoldOf, Reserved, Released
    <2>8. ASSUME NEW sent \in BOOLEAN, Notify(e, sent, acked)
          PROVE  UNCHANGED <<status, holdOf, available>>
      BY <2>8 DEF Notify, stockVars, orderVars, holdOf, HoldOf, Reserved, Released
    <2> QED
      BY <1>4, <2>1, <2>2, <2>3, <2>4, <2>5, <2>6, <2>7, <2>8 DEF Handle, HandleUnpaid
  <1>5. ASSUME NEW e \in inbox, DeadLetter(e) PROVE UNCHANGED <<status, holdOf, available>>
    BY <1>5 DEF DeadLetter, stockVars, orderVars, holdOf, HoldOf, Reserved, Released
  <1>6. CASE UNCHANGED vars
    BY <1>6 DEF vars, orderVars, stockVars, holdOf, HoldOf, Reserved, Released
  <1> QED
    BY <1>1, <1>2, <1>3, <1>4, <1>5, <1>6 DEF Next, Lifecycle!Next, Lifecycle!Step

\* The saga implements the order lifecycle for every instance.
THEOREM SagaImplementsLifecycle == Spec => ImplementsLifecycle
  <1>1. Init => Lifecycle!Init
    BY DEF Init, Lifecycle!Init, holdOf, HoldOf, Reserved
  <1> QED
    BY <1>1, RefineNext, SagaInvariant, PTL DEF Spec, ImplementsLifecycle, Lifecycle!Spec

-----------------------------------------------------------------------------
(* The ledger *)

\* Units of s per order.
Units(s) == [o \in Orders |-> Qty[o][s]]

\* Finitely many orders hold stock, and what they hold is what available lacks.
LedgerInv ==
  /\ IsFiniteSet(Marked(holdOf, "held"))
  /\ \A s \in Skus :
       available[s] + SumFunctionOnSet(Units(s), Marked(holdOf, "held")) = Stock0[s]

\* The orders that hold stock, seen through the refinement.
LEMMA HoldersMarked == Marked(holdOf, "held") = {o \in Orders : Holds(o)}
  BY DEF Marked, holdOf, HoldOf, Holds, Reserved, Released

\* A step of the lifecycle keeps the balance.
LEMMA LifecycleBalances ==
  ASSUME TypeOK, LedgerInv, Lifecycle!Next
  PROVE  LedgerInv'
  <1> DEFINE h == holdOf
             Sum(s, g) == SumFunctionOnSet(Units(s), Marked(g, "held"))
  <1>1. PICK o \in Orders : Lifecycle!Step(o)
    BY DEF Lifecycle!Next
  <1>2. DOMAIN h = Orders /\ \A s \in Skus : \A p \in Orders : Units(s)[p] \in Int
    BY QtyAssumption DEF holdOf, Units
  <1>3. /\ IsFiniteSet(Marked(h, "held"))
        /\ \A s \in Skus : /\ available[s] + Sum(s, h) = Stock0[s]
                           /\ available[s] \in Int /\ Sum(s, h) \in Int
                           /\ Units(s)[o] = Qty[o][s] /\ Qty[o][s] \in Int
    <2>1. ASSUME NEW s \in Skus PROVE Sum(s, h) \in Int
      <3>1. \A p \in Marked(h, "held") : Units(s)[p] \in Int
        BY <1>2 DEF Marked
      <3> QED
        BY <3>1, SumType DEF LedgerInv
    <2> QED
      BY <2>1, QtyAssumption DEF LedgerInv, TypeOK, Units
  <1>4. CASE Lifecycle!Hold(o)
    <2>1. /\ h[o] # "held" /\ h' = [h EXCEPT ![o] = "held"]
          /\ available' = [s \in Skus |-> available[s] - Qty[o][s]]
      BY <1>4 DEF Lifecycle!Hold
    <2> HIDE DEF h
    <2>2. /\ DOMAIN h' = DOMAIN h /\ h'[o] = "held"
          /\ \A p \in DOMAIN h \ {o} : h'[p] = h[p]
      BY <1>2, <2>1
    <2>3. ASSUME NEW s \in Skus PROVE available'[s] + Sum(s, h') = Stock0[s]
      <3>1. Sum(s, h') = Sum(s, h) + Units(s)[o]
        <4>1. /\ o \in DOMAIN h /\ \A p \in DOMAIN h : Units(s)[p] \in Int
              /\ IsFiniteSet(Marked(h, "held")) /\ h[o] # "held"
          BY <1>2, <1>3, <2>1, <2>2
        <4> QED
          BY <2>2, <4>1, SumMark
      <3>2. available'[s] = available[s] - Qty[o][s]
        BY <2>1
      <3>3. /\ available[s] + Sum(s, h) = Stock0[s] /\ Stock0[s] \in Int
            /\ available[s] \in Int /\ Sum(s, h) \in Int
            /\ Units(s)[o] = Qty[o][s] /\ Qty[o][s] \in Int
        BY <1>3, StockAssumption
      <3> HIDE DEF Sum
      <3> QED
        BY <3>1, <3>2, <3>3
    <2>4. IsFiniteSet(Marked(h', "held"))
      BY <1>3, <2>2, MarkedFinite
    <2> QED
      BY <2>3, <2>4 DEF h, LedgerInv
  <1>5. CASE Lifecycle!Return(o)
    <2>1. /\ h[o] = "held" /\ h' = [h EXCEPT ![o] = "returned"]
          /\ available' = [s \in Skus |-> available[s] + Qty[o][s]]
      BY <1>5 DEF Lifecycle!Return
    <2> HIDE DEF h
    <2>2. /\ DOMAIN h' = DOMAIN h /\ h'[o] = "returned"
          /\ \A p \in DOMAIN h \ {o} : h'[p] = h[p]
      BY <1>2, <2>1
    <2>3. ASSUME NEW s \in Skus PROVE available'[s] + Sum(s, h') = Stock0[s]
      <3>1. Sum(s, h') = Sum(s, h) - Units(s)[o]
        <4>1. /\ o \in DOMAIN h /\ \A p \in DOMAIN h : Units(s)[p] \in Int
              /\ IsFiniteSet(Marked(h, "held")) /\ h[o] = "held" /\ h'[o] # "held"
          BY <1>2, <1>3, <2>1, <2>2
        <4> QED
          BY <2>2, <4>1, SumUnmark
      <3>2. available'[s] = available[s] + Qty[o][s]
        BY <2>1
      <3>3. /\ available[s] + Sum(s, h) = Stock0[s] /\ Stock0[s] \in Int
            /\ available[s] \in Int /\ Sum(s, h) \in Int
            /\ Units(s)[o] = Qty[o][s] /\ Qty[o][s] \in Int
        BY <1>3, StockAssumption
      <3> HIDE DEF Sum
      <3> QED
        BY <3>1, <3>2, <3>3
    <2>4. IsFiniteSet(Marked(h', "held"))
      BY <1>3, <2>2, MarkedFinite
    <2> QED
      BY <2>3, <2>4 DEF h, LedgerInv
  <1>6. CASE Lifecycle!Refuse(o)
    <2>1. /\ h[o] # "held" /\ h' = [h EXCEPT ![o] = "refused"] /\ available' = available
      BY <1>6 DEF Lifecycle!Refuse
    <2> HIDE DEF h
    <2>2. Marked(h', "held") = Marked(h, "held")
      <3>1. /\ o \in DOMAIN h /\ DOMAIN h' = DOMAIN h /\ h'[o] # "held"
            /\ \A p \in DOMAIN h \ {o} : h'[p] = h[p]
        BY <1>2, <2>1
      <3> QED
        BY <2>1, <3>1, MarkedKept
    <2>3. /\ IsFiniteSet(Marked(h', "held"))
          /\ \A s \in Skus : available'[s] + Sum(s, h') = Stock0[s]
      BY <1>3, <2>1, <2>2, Zenon
    <2> QED
      BY <2>3 DEF h, LedgerInv
  <1>7. CASE Lifecycle!Place(o) \/ Lifecycle!Confirm(o) \/ Lifecycle!Fail(o)
    <2>1. UNCHANGED <<holdOf, available>>
      BY <1>7 DEF Lifecycle!Place, Lifecycle!Confirm, Lifecycle!Fail
    <2> QED
      BY <2>1 DEF LedgerInv, Marked
  <1> QED
    BY <1>1, <1>4, <1>5, <1>6, <1>7 DEF Lifecycle!Step

\* Nobody holds stock at first.
LEMMA LedgerInit == Init => LedgerInv
  <1> SUFFICES ASSUME Init PROVE LedgerInv
    OBVIOUS
  <1>1. Marked(holdOf, "held") = {}
    BY DEF Init, Marked, holdOf, HoldOf, Reserved
  <1>2. available = Stock0
    BY DEF Init
  <1> QED
    BY <1>1, <1>2, FS_EmptySet, SumEmpty, StockAssumption DEF LedgerInv

\* Whatever takes one step of the lifecycle, or none, keeps the balance.
LEMMA LedgerNext ==
  SagaInv /\ LedgerInv /\ [Lifecycle!Next]_Lifecycle!lifecycle => LedgerInv'
  <1> SUFFICES ASSUME SagaInv, LedgerInv, [Lifecycle!Next]_Lifecycle!lifecycle
               PROVE  LedgerInv'
    OBVIOUS
  <1>1. CASE Lifecycle!Next
    BY <1>1, LifecycleBalances DEF SagaInv
  <1>2. CASE UNCHANGED <<status, holdOf, available>>
    BY <1>2 DEF LedgerInv, Marked
  <1> QED
    BY <1>1, <1>2 DEF Lifecycle!lifecycle

\* When what available lacks is what the orders hold, that is what is reserved.
LEMMA LedgerMeans == SagaInv /\ LedgerInv => StockLedger
  <1> SUFFICES ASSUME SagaInv, LedgerInv, NEW s \in Skus
               PROVE  reserved[s] = SumFunctionOnSet(Units(s), {o \in Orders : Holds(o)})
    BY DEF StockLedger, Units
  <1>1. /\ available[s] + reserved[s] = Stock0[s]
        /\ available[s] \in Int /\ reserved[s] \in Int
    BY DEF SagaInv, StockConserved, TypeOK
  <1>2. SumFunctionOnSet(Units(s), Marked(holdOf, "held")) \in Int
    <2>1. \A o \in Marked(holdOf, "held") : Units(s)[o] \in Int
      BY QtyAssumption DEF Marked, holdOf, Units
    <2> QED
      BY <2>1, SumType DEF LedgerInv
  <1>3. available[s] + SumFunctionOnSet(Units(s), Marked(holdOf, "held")) = Stock0[s]
    BY DEF LedgerInv
  <1>4. reserved[s] = SumFunctionOnSet(Units(s), Marked(holdOf, "held"))
    BY <1>1, <1>2, <1>3, StockAssumption
  <1> QED
    BY <1>4, HoldersMarked

\* The reserved column is the sum of the quantities of the orders that hold
\* stock: no order is reserved in part, reserved twice or released twice.
THEOREM LedgerIsKept == Spec => []StockLedger
  <1>1. SagaInv /\ LedgerInv /\ [Next]_vars => LedgerInv'
    BY LedgerNext, RefineNext
  <1> QED
    BY <1>1, LedgerInit, LedgerMeans, SagaInvariant, PTL DEF Spec

-----------------------------------------------------------------------------
(***************************************************************************)
(* Part 2: Stripe mode                                                     *)
(***************************************************************************)

USE DEF Cards

-----------------------------------------------------------------------------
(* Reservations *)

\* The only InventoryReserved message of an order is its reservation.
LEMMA ReservationMessage ==
  ASSUME SagaInv, NEW e \in outbox \cup inbox \cup processed, e.type = "InventoryReserved"
  PROVE  e.order \in Orders /\ e = Reservation(e.order) /\ Reserved(e.order)
  <1> DEFINE o == e.order
  <1>1. /\ e \in Event /\ o \in Orders /\ e.n \in Nat
        /\ made["InventoryReserved"][o] > e.n
    BY MessageFacts DEF SagaInv
  <1>2. made["InventoryReserved"][o] \in Nat /\ made["InventoryFailed"][o] \in Nat
    BY <1>1 DEF SagaInv, TypeOK
  <1>3. made["InventoryReserved"][o] <= 1
    BY <1>1, <1>2 DEF SagaInv, OrderInv
  <1>4. e.n = 0
    BY <1>1, <1>2, <1>3
  <1> QED
    BY <1>1, <1>2, <1>4 DEF Event, Reservation, Reserved

\* An order with reserved stock has been placed.
LEMMA ReservedIsPlaced ==
  ASSUME SagaInv, NEW o \in Orders, Reserved(o)
  PROVE  status[o] # "none"
  <1>1. OrderInv(o) /\ \A t \in EventTypes : made[t][o] \in Nat
    BY DEF SagaInv, TypeOK
  <1>2. Creation(o) \in processed
    BY <1>1 DEF OrderInv, Reserved
  <1>3. made["OrderCreated"][o] > 0
    BY <1>2, MessageFacts DEF Creation, SagaInv
  <1> QED
    BY <1>1, <1>3 DEF OrderInv

\* The initial states: nothing is charged, settled or announced.
LEMMA StripeInitInv == StripeInit => StripeInv
  <1> SUFFICES ASSUME StripeInit PROVE StripeInv
    OBVIOUS
  <1>1. SagaInv
    BY InitInv DEF StripeInit
  <1>2. StripeTypeOK
    BY <1>1 DEF SagaInv, StripeInit, StripeTypeOK
  <1>3. IntentsInv /\ AnswersInv
    BY DEF StripeInit, IntentsInv, AnswersInv
  <1>4. \A o \in Orders : PayInv(o)
    BY DEF StripeInit, Init, PayInv, Settled
  <1> QED
    BY <1>1, <1>2, <1>3, <1>4 DEF StripeInv

\* What the saga's own steps change for one order: an order may be validated
\* once it is paid for, and gets a verdict only from an announced outcome.
Advances(o) ==
  /\ made'["PaymentCompleted"][o] = made["PaymentCompleted"][o]
  /\ made'["PaymentFailed"][o] = made["PaymentFailed"][o]
  /\ made["InventoryReserved"][o] > 0 => made'["InventoryReserved"][o] > 0
  /\ made["InventoryFailed"][o] > 0 => made'["InventoryFailed"][o] > 0
  /\ Reservation(o) \in processed' <=> Reservation(o) \in processed
  /\ o \in validated' /\ o \in Prepaid => o \in validated \/ charges[o] > 0
  /\ \/ status'[o] = status[o]
     \/ status'[o] = "PENDING" /\ o \in validated
     \/ /\ status[o] = "PENDING"
        /\ status'[o] = "CONFIRMED" /\ made["PaymentCompleted"][o] > 0
     \/ /\ status[o] = "PENDING" /\ status'[o] = "FAILED"
        /\ made["PaymentFailed"][o] > 0 \/ made["InventoryFailed"][o] > 0

\* Such a step keeps the invariant when it leaves Stripe alone.
LEMMA AdvanceInv ==
  ASSUME StripeInv, SagaInv', UNCHANGED stripeVars, \A o \in Orders : Advances(o)
  PROVE  StripeInv'
  <1>1. StripeTypeOK'
    BY DEF StripeInv, StripeTypeOK, SagaInv, stripeVars
  <1>2. IntentsInv'
    <2>1. ASSUME NEW i \in intents PROVE i.key.order \in Orders
      BY <2>1 DEF StripeInv, StripeTypeOK, Intent, Event
    <2> QED
      BY <2>1 DEF StripeInv, IntentsInv, stripeVars, Reservation, Reserved, Advances
  <1>3. AnswersInv'
    <2>1. ASSUME NEW a \in answers PROVE a.event.order \in Orders
      BY <2>1 DEF StripeInv, StripeTypeOK, Answer, Event
    <2> QED
      BY <2>1 DEF StripeInv, AnswersInv, stripeVars, Reservation, Reserved, Settled, Advances
  <1>4. ASSUME NEW o \in Orders PROVE PayInv(o)'
    <2>1. Advances(o) /\ PayInv(o) /\ charges' = charges /\ intents' = intents
      BY DEF StripeInv, stripeVars
    <2>2. charges[o] \in Nat
      BY DEF StripeInv, StripeTypeOK
    <2>3. Reservation(o)' = Reservation(o) /\ \A card : Settled(o, card)' = Settled(o, card)
      BY <2>1 DEF Reservation, Settled
    <2> QED
      BY <2>1, <2>2, <2>3 DEF Advances, PayInv
  <1> QED
    BY <1>1, <1>2, <1>3, <1>4 DEF StripeInv

\* A step that leaves orders, counters and claims alone advances every order.
LEMMA QuietAdvance ==
  ASSUME StripeInv, UNCHANGED <<status, validated, made, processed>>
  PROVE  \A o \in Orders : Advances(o)
  BY DEF Advances, Reservation

-----------------------------------------------------------------------------
(* The saga's own steps *)

LEMMA PostOrderAdvances ==
  ASSUME StripeInv, NEW p \in Orders, PostOrder(p)
  PROVE  StripeInv'
  <1>1. SagaInv'
    BY CheckStockInv DEF StripeInv, PostOrder
  <1>2. \A o \in Orders : Advances(o)
    BY DEF PostOrder, CheckStock, Advances, Reservation
  <1> QED
    BY <1>1, <1>2, AdvanceInv DEF PostOrder

LEMMA PlaceOrderAdvances ==
  ASSUME StripeInv, NEW p \in Orders, PlaceOrder(p), UNCHANGED stripeVars
  PROVE  StripeInv'
  <1>1. SagaInv'
    BY PlaceOrderInv DEF StripeInv
  <1>2. TypeOK /\ CountEvents({"OrderCreated"}, p)
    BY DEF StripeInv, SagaInv, PlaceOrder, WriteOutbox
  <1>3. ASSUME NEW o \in Orders PROVE Advances(o)
    <2>1. \A t \in EventTypes : t # "OrderCreated" => made'[t][o] = made[t][o]
      BY <1>2, CountEventsAdds
    <2> QED
      BY <1>2, <2>1 DEF PlaceOrder, Advances, TypeOK, Reservation
  <1> QED
    BY <1>1, <1>3, AdvanceInv

LEMMA RelayAdvances ==
  ASSUME StripeInv, NEW e \in outbox, NEW marked \in BOOLEAN, Relay(e, marked),
         UNCHANGED stripeVars
  PROVE  StripeInv'
  BY RelayInv, QuietAdvance, AdvanceInv DEF StripeInv, Relay, orderVars

LEMMA DeadLetterAdvances ==
  ASSUME StripeInv, NEW e \in inbox, DeadLetter(e), UNCHANGED stripeVars
  PROVE  StripeInv'
  BY DeadLetterInv, QuietAdvance, AdvanceInv DEF StripeInv, DeadLetter, orderVars

\* inventory-service creates no payment event and claims no reservation.
LEMMA InventoryAdvances ==
  ASSUME StripeInv, NEW e \in inbox, NEW acked \in BOOLEAN,
         ReserveStock(e, acked) \/ RefuseStock(e, acked) \/ ReleaseStock(e, acked)
  PROVE  \A o \in Orders : Advances(o)
  <1>1. PICK T \in SUBSET {"InventoryReserved", "InventoryFailed"} :
          (T = {} /\ UNCHANGED made) \/ CountEvents(T, e.order)
    BY DEF ReserveStock, RefuseStock, ReleaseStock, WriteOutbox
  <1>2. /\ UNCHANGED <<status, validated>>
        /\ processed' = processed \cup {e} /\ e.type # "InventoryReserved"
    BY DEF ReserveStock, RefuseStock, ReleaseStock, ClaimEvent
  <1>3. e.order \in Orders /\ TypeOK
    BY MessageFacts DEF StripeInv, SagaInv
  <1> SUFFICES ASSUME NEW o \in Orders PROVE Advances(o)
    OBVIOUS
  <1>4. \A t \in EventTypes : made[t][o] \in Nat
    BY <1>3 DEF TypeOK
  <1>5. \A t \in EventTypes :
          /\ t \notin {"InventoryReserved", "InventoryFailed"} => made'[t][o] = made[t][o]
          /\ made[t][o] > 0 => made'[t][o] > 0
    <2>1. CASE UNCHANGED made
      BY <2>1
    <2>2. CASE CountEvents(T, e.order)
      <3>1. \A t \in EventTypes :
              made'[t][o] = IF t \in T /\ o = e.order THEN made[t][o] + 1 ELSE made[t][o]
        <4>1. T \in SUBSET EventTypes
          OBVIOUS
        <4> QED
          BY <1>3, <2>2, <4>1, CountEventsAdds
      <3> QED
        BY <1>4, <3>1
    <2> QED
      BY <1>1, <2>1, <2>2
  <1>6. Reservation(o) \in processed' <=> Reservation(o) \in processed
    BY <1>2 DEF Reservation
  <1> QED
    BY <1>2, <1>5, <1>6 DEF Advances

\* order-service decides by an outcome that has been announced.
LEMMA VerdictAdvances ==
  ASSUME StripeInv, NEW e \in inbox, NEW acked \in BOOLEAN,
         ConfirmOrder(e, acked) \/ FailPayment(e, acked) \/ FailInventory(e, acked)
  PROVE  \A o \in Orders : Advances(o)
  <1>1. PICK to \in Terminal,
             T \in SUBSET {"OrderConfirmed", "OrderFailed", "ReleaseInventory"} :
          /\ DecideOrder(e, acked, to, T)
          /\ \/ to = "CONFIRMED" /\ e.type = "PaymentCompleted"
             \/ to = "FAILED" /\ e.type \in {"PaymentFailed", "InventoryFailed"}
    BY DEF ConfirmOrder, FailPayment, FailInventory
  <1> SUFFICES ASSUME NEW o \in Orders PROVE Advances(o)
    OBVIOUS
  <1>2. SagaInv /\ T \in SUBSET EventTypes /\ e.type # "OrderCreated"
    BY <1>1 DEF StripeInv
  <1>3. /\ e.order \in Orders /\ status[e.order] = "PENDING"
        /\ made[e.type][e.order] > 0
        /\ \A t \in EventTypes :
             made'[t][o] = IF t \in T /\ o = e.order THEN made[t][o] + 1 ELSE made[t][o]
        /\ status'[o] = IF o = e.order THEN to ELSE status[o]
        /\ validated' = validated
    BY <1>1, <1>2, DecideOrderEffect
  <1>4. Reservation(o) \in processed' <=> Reservation(o) \in processed
    BY <1>1 DEF DecideOrder, ClaimEvent, Reservation
  <1>5. \A t \in {"PaymentCompleted", "PaymentFailed", "InventoryReserved", "InventoryFailed"} :
          made'[t][o] = made[t][o]
    BY <1>3
  <1>6. \/ status'[o] = status[o]
        \/ /\ status[o] = "PENDING" /\ status'[o] = "CONFIRMED"
           /\ made["PaymentCompleted"][o] > 0
        \/ /\ status[o] = "PENDING" /\ status'[o] = "FAILED"
           /\ made["PaymentFailed"][o] > 0 \/ made["InventoryFailed"][o] > 0
    BY <1>1, <1>3
  <1> QED
    BY <1>3, <1>4, <1>5, <1>6 DEF Advances

LEMMA HandleAdvances ==
  ASSUME StripeInv, NEW e \in inbox, NEW acked \in BOOLEAN, StripeHandle(e, acked)
  PROVE  StripeInv'
  <1>1. HandleUnpaid(e, acked) /\ UNCHANGED stripeVars /\ SagaInv
    BY DEF StripeHandle, StripeInv
  <1>2. SagaInv'
    BY <1>1, ReserveStockInv, RefuseStockInv, ReleaseStockInv, ConfirmOrderInv,
       FailPaymentInv, FailInventoryInv, IgnoreLateOutcomeInv, DropDuplicateInv,
       NotifyInv DEF HandleUnpaid
  <1>3. CASE IgnoreLateOutcome(e, acked)
    <2>1. \A o \in Orders : Reservation(o) \in processed' <=> Reservation(o) \in processed
      BY <1>3 DEF IgnoreLateOutcome, ClaimEvent, Reservation
    <2>2. \A o \in Orders : Advances(o)
      BY <1>3, <2>1 DEF IgnoreLateOutcome, ClaimEvent, Advances
    <2> QED
      BY <1>1, <1>2, <2>2, AdvanceInv
  <1>4. CASE DropDuplicate(e, acked) \/ \E sent \in BOOLEAN : Notify(e, sent, acked)
    BY <1>1, <1>2, <1>4, QuietAdvance, AdvanceInv DEF DropDuplicate, Notify, orderVars
  <1> QED
    BY <1>1, <1>2, <1>3, <1>4, InventoryAdvances, VerdictAdvances, AdvanceInv DEF HandleUnpaid

-----------------------------------------------------------------------------
(* Stripe *)

\* A step that only Stripe and payment-service's memory see keeps SagaInv.
LEMMA SagaInvKept == ASSUME SagaInv, UNCHANGED vars PROVE SagaInv'
  BY NextInv

LEMMA PayAtCheckoutInv ==
  ASSUME StripeInv, NEW p \in Orders, PayAtCheckout(p)
  PROVE  StripeInv'
  <1>1. /\ p \in Prepaid /\ status[p] = "none" /\ charges[p] = 0
        /\ charges' = [charges EXCEPT ![p] = @ + 1]
        /\ UNCHANGED <<vars, intents, answers, hooks>>
    BY DEF PayAtCheckout
  <1>2. SagaInv'
    BY <1>1, SagaInvKept DEF StripeInv
  <1>3. StripeTypeOK'
    BY <1>1, <1>2 DEF StripeInv, StripeTypeOK, SagaInv
  <1>4. IntentsInv' /\ AnswersInv'
    BY <1>1 DEF StripeInv, IntentsInv, AnswersInv, Reservation, Reserved, Settled, vars
  <1>5. ASSUME NEW o \in Orders PROVE PayInv(o)'
    <2>1. /\ PayInv(o)
          /\ charges'[o] = IF o = p THEN 1 ELSE charges[o]
          /\ UNCHANGED <<status, validated, made, processed, intents>>
      BY <1>1 DEF StripeInv, StripeTypeOK, vars, orderVars
    <2>2. Reservation(o)' = Reservation(o) /\ \A card : Settled(o, card)' = Settled(o, card)
      BY <2>1 DEF Reservation, Settled
    <2> QED
      BY <1>1, <2>1, <2>2 DEF PayInv
  <1> QED
    BY <1>2, <1>3, <1>4, <1>5 DEF StripeInv

\* The first request of a key settles it: the order had no PaymentIntent, hence
\* no charge and no announced outcome.
LEMMA FirstRequestInv ==
  ASSUME StripeInv, NEW e \in inbox, NEW card \in Cards,
         e.type = "InventoryReserved", e.order \notin Prepaid,
         \A i \in intents : i.key # e,
         Charge(e, card), UNCHANGED vars,
         answers' = answers \/ answers' = answers \cup {[event |-> e, paid |-> card = "visa"]}
  PROVE  StripeInv'
  <1> DEFINE p == e.order
             new == [key |-> e, card |-> card]
  <1>1. e \in Event /\ p \in Orders /\ e = Reservation(p) /\ Reserved(p)
    BY ReservationMessage DEF StripeInv, SagaInv, TypeOK
  <1>2. /\ intents' = intents \cup {new} /\ hooks' = hooks \cup {new}
        /\ charges' = IF card = "visa" THEN [charges EXCEPT ![p] = @ + 1] ELSE charges
    BY DEF Charge
  <1>3. new \in Intent /\ new.key = e /\ new.card = card
    BY <1>1 DEF Intent
  <1>4. SagaInv'
    BY SagaInvKept DEF StripeInv
  <1>5. UNCHANGED <<status, validated, made, processed>>
    BY DEF vars, orderVars
  <1>6. StripeTypeOK'
    <2>1. charges' \in [Orders -> Nat]
      BY <1>1, <1>2 DEF StripeInv, StripeTypeOK
    <2>2. answers' \in SUBSET Answer
      <3>1. (card = "visa") \in BOOLEAN
        OBVIOUS
      <3>2. [event |-> e, paid |-> card = "visa"] \in Answer
        BY <1>1, <3>1, Zenon DEF Answer
      <3> QED
        BY <3>2 DEF StripeInv, StripeTypeOK
    <2> QED
      BY <1>2, <1>3, <1>4, <2>1, <2>2 DEF StripeInv, StripeTypeOK, SagaInv
  <1>7. IntentsInv'
    <2>1. hooks' \subseteq intents'
      BY <1>2 DEF StripeInv, IntentsInv
    <2>2. ASSUME NEW i \in intents'
          PROVE  /\ i.key = Reservation(i.key.order) /\ i.key.order \notin Prepaid
                 /\ Reserved(i.key.order)
      <3>1. CASE i = new
        BY <1>1, <1>3, <3>1
      <3>2. CASE i \in intents
        BY <3>2 DEF StripeInv, IntentsInv
      <3> QED
        BY <1>2, <3>1, <3>2
    <2> QED
      BY <1>5, <2>1, <2>2 DEF IntentsInv, Reservation, Reserved
  <1>8. AnswersInv'
    <2>1. ASSUME NEW a \in answers'
          PROVE  LET o == a.event.order
                 IN  /\ a.event = Reservation(o)
                     /\ Reserved(o)
                     /\ IF o \in Prepaid THEN a.paid
                        ELSE [key |-> Reservation(o),
                              card |-> IF a.paid THEN "visa" ELSE "chargeDeclined"] \in intents'
      <3>1. CASE a \in answers
        BY <1>2, <3>1 DEF StripeInv, AnswersInv, Settled
      <3>2. CASE a = [event |-> e, paid |-> card = "visa"]
        <4>1. a.event = e /\ card = IF a.paid THEN "visa" ELSE "chargeDeclined"
          BY <3>2
        <4> QED
          BY <1>1, <1>2, <4>1
      <3> QED
        BY <3>1, <3>2
    <2> QED
      BY <1>5, <2>1 DEF AnswersInv, Settled, Reservation, Reserved
  <1>9. ASSUME NEW o \in Orders PROVE PayInv(o)'
    <2>1. PayInv(o) /\ charges[o] \in Nat
      BY DEF StripeInv, StripeTypeOK
    <2>2. \A c : Settled(o, c)' <=> Settled(o, c) \/ (o = p /\ c = card)
      BY <1>1, <1>2 DEF Settled, Reservation
    <2>3. charges'[o] = IF o = p /\ card = "visa" THEN charges[o] + 1 ELSE charges[o]
      BY <1>1, <1>2 DEF StripeInv, StripeTypeOK
    <2>4. ~Settled(p, "visa") /\ ~Settled(p, "chargeDeclined")
      BY <1>1 DEF Settled
    <2>5. Reservation(o)' = Reservation(o)
      BY DEF Reservation
    <2>6. CASE o = p
      <3>1. charges[o] = 0
        BY <2>1, <2>4, <2>6 DEF PayInv
      <3> QED
        BY <1>5, <2>1, <2>2, <2>3, <2>4, <2>5, <2>6, <3>1 DEF PayInv
    <2>7. CASE o # p
      BY <1>5, <2>1, <2>2, <2>3, <2>5, <2>7 DEF PayInv
    <2> QED
      BY <2>6, <2>7
  <1> QED
    BY <1>4, <1>6, <1>7, <1>8, <1>9 DEF StripeInv

\* A change of payment-service's memory alone, when its answers stay backed.
LEMMA MemoryInv ==
  ASSUME StripeInv, UNCHANGED <<vars, charges, intents, hooks>>,
         answers' \in SUBSET Answer, AnswersInv'
  PROVE  StripeInv'
  <1>1. SagaInv'
    BY SagaInvKept DEF StripeInv
  <1>2. StripeTypeOK'
    BY <1>1 DEF StripeInv, StripeTypeOK, SagaInv
  <1>3. IntentsInv' /\ (\A o \in Orders : PayInv(o))'
    BY DEF StripeInv, IntentsInv, PayInv, Settled, Reservation, Reserved, vars, orderVars
  <1> QED
    BY <1>1, <1>2, <1>3 DEF StripeInv

\* An answer to a reservation that is backed as AnswersInv says.
LEMMA NewAnswerInv ==
  ASSUME StripeInv, UNCHANGED <<vars, charges, intents, hooks>>,
         NEW e \in inbox, e.type = "InventoryReserved", NEW paid \in BOOLEAN,
         answers' = answers \/ answers' = answers \cup {[event |-> e, paid |-> paid]},
         IF e.order \in Prepaid THEN paid
           ELSE [key |-> e, card |-> IF paid THEN "visa" ELSE "chargeDeclined"] \in intents
  PROVE  StripeInv'
  <1>1. e \in Event /\ e = Reservation(e.order) /\ Reserved(e.order)
    BY ReservationMessage DEF StripeInv, SagaInv, TypeOK
  <1>2. answers' \in SUBSET Answer
    BY <1>1 DEF StripeInv, StripeTypeOK, Answer
  <1>3. ASSUME NEW a \in answers'
        PROVE  LET o == a.event.order
               IN  /\ a.event = Reservation(o)
                   /\ Reserved(o)
                   /\ IF o \in Prepaid THEN a.paid
                      ELSE Settled(o, IF a.paid THEN "visa" ELSE "chargeDeclined")
    <2>1. CASE a \in answers
      BY <2>1 DEF StripeInv, AnswersInv
    <2>2. CASE a = [event |-> e, paid |-> paid]
      <3>1. a.event = e /\ a.paid = paid
        BY <2>2
      <3> QED
        BY <1>1, <3>1 DEF Settled
    <2> QED
      BY <2>1, <2>2
  <1>4. AnswersInv'
    BY <1>3 DEF AnswersInv, Settled, Reservation, Reserved, vars
  <1> QED
    BY <1>2, <1>4, MemoryInv

LEMMA CreateIntentInv ==
  ASSUME StripeInv, NEW e \in inbox, NEW card \in Cards, NEW heard \in BOOLEAN,
         CreateIntent(e, card, heard)
  PROVE  StripeInv'
  <1>1. /\ e.type = "InventoryReserved" /\ e.order \notin Prepaid /\ UNCHANGED vars
        /\ answers' = answers \/ answers' = answers \cup {[event |-> e, paid |-> card = "visa"]}
    BY DEF CreateIntent
  <1>2. CASE (\A i \in intents : i.key # e) /\ Charge(e, card)
    BY <1>1, <1>2, FirstRequestInv
  <1>3. CASE [key |-> e, card |-> card] \in intents /\ UNCHANGED <<charges, intents, hooks>>
    <2>1. card = IF card = "visa" THEN "visa" ELSE "chargeDeclined"
      OBVIOUS
    <2> QED
      BY <1>1, <1>3, <2>1, NewAnswerInv
  <1> QED
    BY <1>2, <1>3 DEF CreateIntent

\* The order of a reservation that is being handled was posted, hence paid.
LEMMA RetrieveIntentInv ==
  ASSUME StripeInv, NEW e \in inbox, RetrieveIntent(e)
  PROVE  StripeInv'
  <1>1. e.order \in Orders /\ Reserved(e.order)
    BY ReservationMessage DEF RetrieveIntent, StripeInv
  <1>2. status[e.order] # "none"
    BY <1>1, ReservedIsPlaced DEF StripeInv
  <1>3. charges[e.order] = 1
    BY <1>1, <1>2 DEF StripeInv, PayInv, RetrieveIntent
  <1>4. (charges[e.order] > 0) = TRUE
    BY <1>3
  <1>5. answers' = answers \cup {[event |-> e, paid |-> TRUE]}
    BY <1>4, Zenon DEF RetrieveIntent
  <1> QED
    BY <1>5, NewAnswerInv DEF RetrieveIntent

LEMMA LoseAnswerInv ==
  ASSUME StripeInv, NEW a \in answers, LoseAnswer(a)
  PROVE  StripeInv'
  <1>1. answers' \subseteq answers /\ UNCHANGED <<vars, charges, intents, hooks>>
    BY DEF LoseAnswer
  <1>2. answers' \in SUBSET Answer
    BY <1>1 DEF StripeInv, StripeTypeOK
  <1>3. AnswersInv'
    BY <1>1 DEF StripeInv, AnswersInv, Settled, Reservation, Reserved, vars
  <1> QED
    BY <1>1, <1>2, <1>3, MemoryInv

-----------------------------------------------------------------------------
(* Announcing the outcome *)

\* The outcome of an order with reserved stock is counted; its reservation may
\* be claimed.  SagaInv then only asks where the events are.
LEMMA AnnounceSagaInv ==
  ASSUME SagaInv, NEW p \in Orders, Reserved(p),
         NEW t \in {"PaymentCompleted", "PaymentFailed"}, CountEvents({t}, p),
         UNCHANGED <<orderVars, stockVars, emails, dlq>>,
         outbox' \in SUBSET Event, inbox' \in SUBSET Event,
         processed' \in SUBSET Event, dups' \in Nat,
         outbox' \cup inbox' \cup processed'
           \subseteq outbox \cup inbox \cup processed \cup {NewEvent(t, p)},
         \A o \in Orders : Creation(o) \in processed' <=> Creation(o) \in processed
  PROVE  SagaInv'
  <1> USE DEF SagaInv
  <1>0. {t} \in SUBSET EventTypes
    OBVIOUS
  <1>1. TypeOK'
    <2>1. made' \in [EventTypes -> [Orders -> Nat]]
      BY <1>0, CountEventsAdds
    <2> QED
      BY <2>1 DEF TypeOK, stockVars, orderVars
  <1>2. EventsExist'
    <2>1. outbox' \cup inbox' \cup processed' \cup dlq'
            \subseteq (outbox \cup inbox \cup processed \cup dlq)
                         \cup {NewEvent(u, p) : u \in {t}}
      OBVIOUS
    <2> QED
      BY <1>0, <2>1, EventsExistWithNew
  <1>3. ASSUME NEW o \in Orders PROVE OrderInv(o)'
    <2>1. OrderInv(o) /\ \A u \in EventTypes : made[u][o] \in Nat
      BY DEF TypeOK
    <2>2. \A u \in EventTypes :
            made'[u][o] = IF u = t /\ o = p THEN made[u][o] + 1 ELSE made[u][o]
      BY <1>0, CountEventsAdds
    <2>3. UNCHANGED <<status, validated>> /\ Creation(o)' = Creation(o)
      BY DEF orderVars, Creation
    <2> QED
      BY <2>1, <2>2, <2>3 DEF OrderInv, Reserved
  <1>4. MailsAnnounced'
    BY <1>0, MailsAnnouncedKept
  <1>5. StockConserved'
    BY DEF StockConserved, stockVars
  <1> QED
    BY <1>1, <1>2, <1>3, <1>4, <1>5

\* Announcing an outcome counts one event of its type.
LEMMA OutcomeCounted ==
  ASSUME TypeOK, NEW p \in Orders, NEW paid \in BOOLEAN, CountEvents({Outcome(paid)}, p)
  PROVE  \A u \in EventTypes, o \in Orders :
           made'[u][o] = IF u = Outcome(paid) /\ o = p THEN made[u][o] + 1 ELSE made[u][o]
  <1>1. {Outcome(paid)} \in SUBSET EventTypes
    BY DEF Outcome
  <1> QED
    BY <1>1, CountEventsAdds

\* An announced outcome is the one Stripe has settled, or the browser's payment.
LEMMA AnnounceInv ==
  ASSUME StripeInv, SagaInv', NEW p \in Orders, Reserved(p), NEW paid \in BOOLEAN,
         CountEvents({Outcome(paid)}, p),
         UNCHANGED <<status, validated, charges, intents>>,
         answers' \subseteq answers, hooks' \subseteq hooks,
         IF p \in Prepaid THEN paid
           ELSE Settled(p, IF paid THEN "visa" ELSE "chargeDeclined"),
         \A o \in Orders :
           Reservation(o) \in processed' => Reservation(o) \in processed \/ o = p
  PROVE  StripeInv'
  <1> PICK t \in {"PaymentCompleted", "PaymentFailed"} : t = Outcome(paid)
    BY DEF Outcome
  <1>1. t = "PaymentCompleted" <=> paid
    BY DEF Outcome
  <1>2. TypeOK /\ \A u \in EventTypes, o \in Orders : made[u][o] \in Nat
    BY DEF StripeInv, SagaInv, TypeOK
  <1>3. \A u \in EventTypes, o \in Orders :
          made'[u][o] = IF u = t /\ o = p THEN made[u][o] + 1 ELSE made[u][o]
    BY <1>2, OutcomeCounted
  <1>4. StripeTypeOK'
    BY DEF StripeInv, StripeTypeOK, SagaInv
  <1>5. IntentsInv'
    <2>1. ASSUME NEW i \in intents PROVE i.key.order \in Orders
      BY <2>1 DEF StripeInv, StripeTypeOK, Intent, Event
    <2> QED
      BY <1>1, <1>3, <2>1 DEF StripeInv, IntentsInv, Reservation, Reserved
  <1>6. AnswersInv'
    <2>1. ASSUME NEW a \in answers PROVE a.event.order \in Orders
      BY <2>1 DEF StripeInv, StripeTypeOK, Answer, Event
    <2> QED
      BY <1>1, <1>3, <2>1 DEF StripeInv, AnswersInv, Settled, Reservation, Reserved
  <1>7. ASSUME NEW o \in Orders PROVE PayInv(o)'
    <2>1. /\ PayInv(o) /\ charges[o] \in Nat /\ charges' = charges /\ status' = status
          /\ validated' = validated
      BY DEF StripeInv, StripeTypeOK
    <2>2. Reservation(o)' = Reservation(o) /\ \A card : Settled(o, card)' = Settled(o, card)
      BY DEF Reservation, Settled
    <2>3. CASE o # p
      <3>1. \A u \in EventTypes : made'[u][o] = made[u][o]
        BY <1>3, <2>3
      <3>2. Reservation(o) \in processed' => Reservation(o) \in processed
        BY <2>3
      <3> QED
        BY <2>1, <2>2, <3>1, <3>2 DEF PayInv
    <2>4. CASE o = p
      <3>1. made'[t][o] > 0
        BY <1>1, <1>2, <1>3, <2>4
      <3>2. \A u \in EventTypes : u # t => made'[u][o] = made[u][o]
        BY <1>3
      <3>3. paid => charges[o] = 1
        <4>1. CASE p \notin Prepaid
          BY <2>1, <2>4, <4>1 DEF PayInv
        <4>2. CASE p \in Prepaid
          <5>1. status[p] # "none"
            BY ReservedIsPlaced DEF StripeInv
          <5> QED
            BY <2>1, <2>4, <4>2, <5>1 DEF PayInv
        <4> QED
          BY <4>1, <4>2
      <3>4. ~paid => o \notin Prepaid /\ Settled(o, "chargeDeclined")
        BY <2>4
      <3>5. CASE paid
        BY <1>1, <1>2, <2>1, <2>2, <3>1, <3>2, <3>3, <3>5 DEF PayInv
      <3>6. CASE ~paid
        BY <1>1, <1>2, <2>1, <2>2, <3>1, <3>2, <3>4, <3>6 DEF PayInv
      <3> QED
        BY <3>5, <3>6
    <2> QED
      BY <2>3, <2>4
  <1> QED
    BY <1>4, <1>5, <1>6, <1>7 DEF StripeInv

\* payment-service records the answer it holds with its claim.
LEMMA RecordOutcomeInv ==
  ASSUME StripeInv, NEW a \in answers, NEW acked \in BOOLEAN, RecordOutcome(a, acked)
  PROVE  StripeInv'
  <1> DEFINE p == a.event.order
             t == Outcome(a.paid)
  <1>1. /\ a.event \in Event /\ p \in Orders /\ a.paid \in BOOLEAN
        /\ a.event = Reservation(p) /\ Reserved(p)
        /\ IF p \in Prepaid THEN a.paid
             ELSE Settled(p, IF a.paid THEN "visa" ELSE "chargeDeclined")
    BY DEF StripeInv, StripeTypeOK, Answer, Event, AnswersInv
  <1>2. /\ a.event \in inbox /\ ClaimEvent(a.event, acked) /\ WriteOutbox({t}, p)
        /\ CountEvents({t}, p) /\ answers' = answers \ {a}
        /\ UNCHANGED <<status, stockVars, charges, intents, hooks>>
    BY DEF RecordOutcome, ClaimEvent, WriteOutbox
  <1>3. t \in {"PaymentCompleted", "PaymentFailed"}
    BY DEF Outcome
  <1>4. /\ processed' = processed \cup {a.event} /\ inbox' \subseteq inbox
        /\ UNCHANGED <<validated, emails, dlq>>
    BY <1>2 DEF ClaimEvent, Remaining
  <1>5. outbox' = outbox \cup {NewEvent(t, p)}
    BY <1>2 DEF WriteOutbox
  <1>6. SagaInv'
    <2>1. TypeOK /\ {t} \in SUBSET EventTypes
      BY <1>3 DEF StripeInv, SagaInv
    <2>2. outbox' \in SUBSET Event
      BY <1>1, <1>2, <2>1, WriteOutboxTyped
    <2>3. inbox' \in SUBSET Event /\ processed' \in SUBSET Event /\ dups' \in Nat
      BY <1>2, <2>1, ClaimEventTyped
    <2>4. \A o \in Orders : Creation(o) \in processed' <=> Creation(o) \in processed
      BY <1>1, <1>4 DEF Creation, Reservation
    <2>5. outbox' \cup inbox' \cup processed'
            \subseteq outbox \cup inbox \cup processed \cup {NewEvent(t, p)}
      BY <1>2, <1>4, <1>5
    <2>6. UNCHANGED <<orderVars, stockVars, emails, dlq>>
      BY <1>2, <1>4 DEF orderVars
    <2>7. SagaInv
      BY DEF StripeInv
    <2> HIDE DEF t, p
    <2> QED
      BY <1>1, <1>2, <1>3, <2>2, <2>3, <2>4, <2>5, <2>6, <2>7, AnnounceSagaInv
  <1>7. \A o \in Orders :
          Reservation(o) \in processed' => Reservation(o) \in processed \/ o = p
    BY <1>1, <1>4 DEF Reservation
  <1> HIDE DEF p
  <1> QED
    BY <1>1, <1>2, <1>4, <1>6, <1>7, AnnounceInv

LEMMA DropAnswerInv ==
  ASSUME StripeInv, NEW a \in answers, NEW acked \in BOOLEAN, DropAnswer(a, acked)
  PROVE  StripeInv'
  <1>1. /\ answers' \subseteq answers /\ inbox' \subseteq inbox /\ dups' \in Nat
        /\ UNCHANGED <<orderVars, stockVars, outbox, made, processed, emails, dlq,
                       charges, intents, hooks>>
    BY DEF DropAnswer, Remaining, Redelivery, StripeInv, SagaInv, TypeOK
  <1>2. SagaInv'
    <2> USE DEF SagaInv
    <2>0. SagaInv
      BY DEF StripeInv
    <2>1. TypeOK'
      BY <1>1, <2>0 DEF TypeOK, stockVars, orderVars
    <2>2. EventsExist'
      BY <1>1, <2>0, EventsExistMoved
    <2>3. (\A p \in Orders : OrderInv(p))'
      BY <1>1, <2>0 DEF OrderInv, Reserved, Creation, orderVars
    <2>4. MailsAnnounced' /\ StockConserved'
      BY <1>1, <2>0 DEF MailsAnnounced, StockConserved, stockVars
    <2> QED
      BY <2>1, <2>2, <2>3, <2>4
  <1>3. StripeTypeOK'
    BY <1>1, <1>2 DEF StripeInv, StripeTypeOK, SagaInv
  <1>4. IntentsInv' /\ AnswersInv' /\ (\A o \in Orders : PayInv(o))'
    BY <1>1 DEF StripeInv, IntentsInv, AnswersInv, PayInv, Settled, Reservation, Reserved,
       orderVars
  <1> QED
    BY <1>2, <1>3, <1>4 DEF StripeInv

\* Stripe's notification announces what it has settled.
LEMMA WebhookInv ==
  ASSUME StripeInv, NEW i \in hooks, NEW acked \in BOOLEAN, Webhook(i, acked)
  PROVE  StripeInv'
  <1> DEFINE p == i.key.order
             paid == i.card = "visa"
             t == Outcome(paid)
  <1>1. /\ i \in intents /\ i.key \in Event /\ i.card \in Cards /\ p \in Orders
        /\ i = [key |-> i.key, card |-> i.card]
        /\ i.key = Reservation(p) /\ Reserved(p) /\ p \notin Prepaid
    BY DEF StripeInv, StripeTypeOK, Intent, Event, IntentsInv
  <1>2. paid \in BOOLEAN /\ Settled(p, IF paid THEN "visa" ELSE "chargeDeclined")
    BY <1>1 DEF Settled
  <1>3. t \in {"PaymentCompleted", "PaymentFailed"}
    BY DEF Outcome
  <1>4. /\ hooks' \subseteq hooks /\ inbox' = inbox \cup {NewEvent(t, p)}
        /\ CountEvents({t}, p)
        /\ UNCHANGED <<orderVars, stockVars, outbox, processed, emails, dlq,
                       charges, intents, answers>>
    BY DEF Webhook
  <1>5. SagaInv'
    <2>1. SagaInv /\ TypeOK
      BY DEF StripeInv, SagaInv
    <2>2. NewEvent(t, p) \in Event
      BY <1>1, <1>3, <2>1, NewEventIsEvent
    <2>3. inbox' \in SUBSET Event /\ dups' \in Nat
      BY <1>4, <2>1, <2>2 DEF TypeOK, Webhook, Redelivery
    <2>4. outbox' \in SUBSET Event /\ processed' \in SUBSET Event
      BY <1>4, <2>1 DEF TypeOK
    <2>5. \A o \in Orders : Creation(o) \in processed' <=> Creation(o) \in processed
      BY <1>4
    <2>6. outbox' \cup inbox' \cup processed'
            \subseteq outbox \cup inbox \cup processed \cup {NewEvent(t, p)}
      BY <1>4
    <2> HIDE DEF t, p
    <2> QED
      BY <1>1, <1>3, <1>4, <2>1, <2>3, <2>4, <2>5, <2>6, AnnounceSagaInv
  <1>6. UNCHANGED <<status, validated>> /\ answers' \subseteq answers
    BY <1>4 DEF orderVars
  <1>7. \A o \in Orders :
          Reservation(o) \in processed' => Reservation(o) \in processed \/ o = p
    BY <1>4 DEF Reservation
  <1> HIDE DEF p, paid
  <1> QED
    BY <1>1, <1>2, <1>4, <1>5, <1>6, <1>7, AnnounceInv

-----------------------------------------------------------------------------
(* The specification *)

\* Every step, and every stuttering step, preserves the invariant.
LEMMA StripeNextInv == StripeInv /\ [StripeNext]_allVars => StripeInv'
  <1> SUFFICES ASSUME StripeInv, [StripeNext]_allVars PROVE StripeInv'
    OBVIOUS
  <1>1. CASE StripeNext
    BY <1>1, PayAtCheckoutInv, PostOrderAdvances, PlaceOrderAdvances, RelayAdvances,
       HandleAdvances, CreateIntentInv, RetrieveIntentInv, RecordOutcomeInv,
       DropAnswerInv, LoseAnswerInv, WebhookInv, DeadLetterAdvances DEF StripeNext
  <1>2. CASE UNCHANGED allVars
    <2>1. UNCHANGED <<vars, charges, intents, hooks>> /\ answers' = answers
      BY <1>2 DEF allVars, stripeVars
    <2>2. AnswersInv' /\ answers' \in SUBSET Answer
      BY <2>1 DEF StripeInv, StripeTypeOK, AnswersInv, Settled, Reservation, Reserved, vars
    <2> QED
      BY <2>1, <2>2, MemoryInv
  <1> QED
    BY <1>1, <1>2

\* The inductive invariant holds of every reachable state.
THEOREM StripeInvariant == StripeSpec => []StripeInv
  BY StripeInitInv, StripeNextInv, PTL DEF StripeSpec

\* One charge at most for an order, whatever is delivered again or forgotten.
THEOREM ChargesAtMostOnce == StripeSpec => []ChargedOnce
  <1>1. StripeInv => ChargedOnce
    BY DEF StripeInv, PayInv, ChargedOnce
  <1> QED
    BY <1>1, StripeInvariant, PTL

\* payment-service and the webhook never announce contradictory outcomes.
THEOREM OutcomesNeverConflict == StripeSpec => []OutcomesAgree
  <1>1. StripeInv => OutcomesAgree
    <2> SUFFICES ASSUME StripeInv, NEW o \in Orders
                 PROVE  made["PaymentCompleted"][o] = 0 \/ made["PaymentFailed"][o] = 0
      BY DEF OutcomesAgree
    <2>1. PayInv(o) /\ \A t \in EventTypes : made[t][o] \in Nat
      BY DEF StripeInv, SagaInv, TypeOK
    <2> QED
      BY <2>1 DEF PayInv
  <1> QED
    BY <1>1, StripeInvariant, PTL

\* Money, verdict and stock agree: no order is confirmed unpaid, and none that
\* payment-service has charged fails or loses its stock.
THEOREM ChargeAgreesWithOrder == StripeSpec => []ChargeMatchesOrder
  <1>1. StripeInv => ChargeMatchesOrder
    <2> SUFFICES ASSUME StripeInv, NEW o \in Orders
                 PROVE  /\ status[o] = "CONFIRMED" => charges[o] = 1
                        /\ o \notin Prepaid /\ charges[o] > 0 =>
                             status[o] # "FAILED" /\ Holds(o)
      BY DEF ChargeMatchesOrder
    <2>1. /\ PayInv(o) /\ OrderInv(o) /\ charges[o] \in Nat
          /\ \A t \in EventTypes : made[t][o] \in Nat
      BY DEF StripeInv, StripeTypeOK, SagaInv, TypeOK
    <2>2. ASSUME o \notin Prepaid, charges[o] > 0
          PROVE  status[o] # "FAILED" /\ Holds(o)
      <3>1. Settled(o, "visa")
        BY <2>1, <2>2 DEF PayInv
      <3>2. Reserved(o)
        BY <3>1 DEF Settled, Reservation, StripeInv, IntentsInv
      <3>3. made["PaymentFailed"][o] = 0
        BY <2>1, <3>1 DEF PayInv
      <3>4. made["InventoryFailed"][o] = 0
        BY <2>1, <3>2 DEF OrderInv, Reserved
      <3>5. status[o] # "FAILED"
        BY <2>1, <3>3, <3>4 DEF PayInv
      <3>6. made["ReleaseInventory"][o] = 0
        BY <2>1, <3>5 DEF OrderInv
      <3>7. ~Released(o)
        BY <3>6, MessageFacts DEF Released, StripeInv, SagaInv
      <3> QED
        BY <3>2, <3>5, <3>7 DEF Holds
    <2> QED
      BY <2>1, <2>2 DEF PayInv
  <1> QED
    BY <1>1, StripeInvariant, PTL

-----------------------------------------------------------------------------
(* Refinement of OrderLog *)

\* The reads see an event of type t of order o.
Seen(o, t) ==
  /\ made[t][o] > 0
  /\ t \in {"PaymentCompleted", "PaymentFailed"} => Reservation(o) \in processed

\* payment-service has recorded an outcome iff it has claimed the reservation.
LEMMA LogMembers ==
  ASSUME StripeInv, NEW o \in Orders
  PROVE  logOf[o] = {t \in EventTypes : Seen(o, t)}
  <1>1. (\E e \in processed : e.type = "InventoryReserved" /\ e.order = o)
          <=> Reservation(o) \in processed
    BY ReservationMessage DEF StripeInv, Reservation
  <1>2. Recorded(o) = IF Reservation(o) \in processed
                        THEN {"PaymentCompleted", "PaymentFailed"} ELSE {}
    BY <1>1 DEF Recorded
  <1> QED
    BY <1>2 DEF logOf, Seen

\* The same in the next state.
LEMMA LogMembersNext ==
  ASSUME StripeInv', NEW o \in Orders
  PROVE  logOf'[o] = {t \in EventTypes : Seen(o, t)'}
  <1>1. ASSUME NEW e \in processed', e.type = "InventoryReserved", e.order = o
        PROVE  Reservation(o)' \in processed'
    <2>1. /\ e \in Event /\ e.n \in Nat /\ e.n < made'["InventoryReserved"][o]
      BY <1>1 DEF StripeInv, SagaInv, TypeOK, EventsExist, Event
    <2>2. /\ made'["InventoryReserved"][o] \in Nat /\ made'["InventoryFailed"][o] \in Nat
          /\ made'["InventoryReserved"][o] + made'["InventoryFailed"][o] <= 1
      BY DEF StripeInv, SagaInv, TypeOK, OrderInv
    <2>3. e.n = 0
      BY <2>1, <2>2
    <2> QED
      BY <1>1, <2>1, <2>3 DEF Event, Reservation
  <1>2. (\E e \in processed' : e.type = "InventoryReserved" /\ e.order = o)
          <=> Reservation(o)' \in processed'
    BY <1>1 DEF Reservation
  <1>3. Recorded(o)' = IF Reservation(o)' \in processed'
                         THEN {"PaymentCompleted", "PaymentFailed"} ELSE {}
    BY <1>2 DEF Recorded
  <1> QED
    BY <1>3 DEF logOf, Seen

\* A step after which the reads see exactly the events of T besides.
LEMMA LogRecords ==
  ASSUME StripeInv, StripeInv', NEW p \in Orders, NEW T \in SUBSET EventTypes,
         \A o \in Orders, t \in EventTypes :
           Seen(o, t)' <=> Seen(o, t) \/ (o = p /\ t \in T)
  PROVE  logOf' = [logOf EXCEPT ![p] = @ \cup T]
  <1>1. ASSUME NEW o \in Orders PROVE logOf'[o] = IF o = p THEN logOf[o] \cup T ELSE logOf[o]
    <2>1. logOf[o] = {t \in EventTypes : Seen(o, t)}
      BY LogMembers
    <2>2. logOf'[o] = {t \in EventTypes : Seen(o, t)'}
      BY LogMembersNext
    <2>3. \A t \in EventTypes : Seen(o, t)' <=> Seen(o, t) \/ (o = p /\ t \in T)
      OBVIOUS
    <2>4. CASE o = p
      <3>1. {t \in EventTypes : Seen(o, t)'} = {t \in EventTypes : Seen(o, t)} \cup T
        <4> DEFINE S == EventTypes
        <4>1. T \subseteq S /\ \A t \in S : Seen(o, t)' <=> Seen(o, t) \/ t \in T
          BY <2>3, <2>4
        <4> HIDE DEF S
        <4>2. {t \in S : Seen(o, t)'} = {t \in S : Seen(o, t)} \cup T
          BY <4>1
        <4> QED
          BY <4>2 DEF S
      <3> QED
        BY <2>1, <2>2, <2>4, <3>1
    <2>5. CASE o # p
      <3>1. {t \in EventTypes : Seen(o, t)'} = {t \in EventTypes : Seen(o, t)}
        BY <2>3, <2>5
      <3> QED
        BY <2>1, <2>2, <2>5, <3>1
    <2> QED
      BY <2>4, <2>5
  <1> QED
    BY <1>1 DEF logOf

\* A step after which the reads see what they saw.
LEMMA LogKept ==
  ASSUME StripeInv, StripeInv',
         \A o \in Orders, t \in EventTypes : Seen(o, t)' <=> Seen(o, t)
  PROVE  logOf' = logOf
  <1>1. ASSUME NEW o \in Orders PROVE logOf'[o] = logOf[o]
    <2>1. {t \in EventTypes : Seen(o, t)'} = {t \in EventTypes : Seen(o, t)}
      OBVIOUS
    <2> QED
      BY <2>1, LogMembers, LogMembersNext, Zenon
  <1> QED
    BY <1>1 DEF logOf

\* Events other than payment outcomes are seen as soon as they are created.
LEMMA LogCounts ==
  ASSUME StripeInv, StripeInv', NEW p \in Orders,
         NEW T \in SUBSET (EventTypes \ {"PaymentCompleted", "PaymentFailed"}),
         CountEvents(T, p),
         \A o \in Orders : Reservation(o) \in processed' <=> Reservation(o) \in processed
  PROVE  logOf' = [logOf EXCEPT ![p] = @ \cup T]
  <1>1. TypeOK /\ T \in SUBSET EventTypes
    BY DEF StripeInv, SagaInv
  <1>2. \A t \in EventTypes, o \in Orders :
          /\ made[t][o] \in Nat
          /\ made'[t][o] = IF t \in T /\ o = p THEN made[t][o] + 1 ELSE made[t][o]
    BY <1>1, CountEventsAdds DEF TypeOK
  <1>3. ASSUME NEW o \in Orders, NEW t \in EventTypes
        PROVE  Seen(o, t)' <=> Seen(o, t) \/ (o = p /\ t \in T)
    <2>1. Reservation(o)' = Reservation(o)
      BY DEF Reservation
    <2>2. made'[t][o] > 0 <=> made[t][o] > 0 \/ (o = p /\ t \in T)
      BY <1>2
    <2>3. t \in T => t \notin {"PaymentCompleted", "PaymentFailed"}
      OBVIOUS
    <2> QED
      BY <2>1, <2>2, <2>3 DEF Seen
  <1> QED
    BY <1>1, <1>3, LogRecords

\* A step that leaves orders, counters and claims of reservations alone.
LEMMA LogQuiet ==
  ASSUME StripeInv, StripeInv', UNCHANGED made,
         \A o \in Orders : Reservation(o) \in processed' <=> Reservation(o) \in processed
  PROVE  logOf' = logOf
  <1>1. ASSUME NEW o \in Orders, NEW t \in EventTypes PROVE Seen(o, t)' <=> Seen(o, t)
    BY DEF Seen, Reservation
  <1> QED
    BY <1>1, LogKept

LEMMA LogPlaceOrder ==
  ASSUME StripeInv, StripeInv', NEW o \in Orders, PlaceOrder(o)
  PROVE  Log!Insert(o)
  <1>1. CountEvents({"OrderCreated"}, o) /\ UNCHANGED processed
    BY DEF PlaceOrder, WriteOutbox
  <1>2. logOf' = [logOf EXCEPT ![o] = @ \cup {"OrderCreated"}]
    BY <1>1, LogCounts
  <1>3. status[o] = "none" /\ status' = [status EXCEPT ![o] = "PENDING"]
    BY DEF PlaceOrder, StripeInv, SagaInv, OrderInv
  <1> QED
    BY <1>2, <1>3 DEF Log!Insert, Log!Record

LEMMA LogAnswer ==
  ASSUME StripeInv, StripeInv', NEW e \in inbox, NEW acked \in BOOLEAN,
         ReserveStock(e, acked) \/ RefuseStock(e, acked)
  PROVE  \E o \in Orders : Log!Progress(o)
  <1> DEFINE o == e.order
  <1>1. PICK t \in {"InventoryReserved", "InventoryFailed"} :
          /\ CountEvents({t}, o) /\ UNCHANGED status
          /\ ClaimEvent(e, acked) /\ e.type = "OrderCreated"
    BY DEF ReserveStock, RefuseStock, WriteOutbox
  <1>2. /\ o \in Orders /\ status[o] = "PENDING"
        /\ made["InventoryReserved"][o] = 0 /\ made["InventoryFailed"][o] = 0
    BY <1>1, CreationUnanswered DEF ClaimEvent, StripeInv
  <1>3. \A p \in Orders : Reservation(p) \in processed' <=> Reservation(p) \in processed
    BY <1>1 DEF ClaimEvent, Reservation
  <1>4. logOf' = [logOf EXCEPT ![o] = @ \cup {t}]
    BY <1>1, <1>2, <1>3, LogCounts
  <1>5. logOf[o] \cap {"InventoryReserved", "InventoryFailed"} = {}
    BY <1>2, LogMembers DEF Seen
  <1>6. Log!AnswerStock(o, t)
    BY <1>1, <1>2, <1>4, <1>5 DEF Log!AnswerStock, Log!Record
  <1> QED
    BY <1>2, <1>6 DEF Log!Progress, Log!LogTypes

\* What a verdict rests on has been recorded, and nothing that contradicts it.
LEMMA LogVerdict ==
  ASSUME StripeInv, StripeInv', NEW e \in inbox, NEW acked \in BOOLEAN,
         ConfirmOrder(e, acked) \/ FailPayment(e, acked) \/ FailInventory(e, acked)
  PROVE  \E o \in Orders : Log!Progress(o)
  <1> DEFINE o == e.order
  <1>1. PICK to \in Terminal,
             T \in SUBSET (EventTypes \ {"PaymentCompleted", "PaymentFailed"}) :
          /\ DecideOrder(e, acked, to, T)
          /\ \/ /\ e.type = "PaymentCompleted"
                /\ to = "CONFIRMED" /\ T = {"OrderConfirmed"}
             \/ /\ e.type = "PaymentFailed"
                /\ to = "FAILED" /\ T = {"ReleaseInventory", "OrderFailed"}
             \/ /\ e.type = "InventoryFailed"
                /\ to = "FAILED" /\ T = {"OrderFailed"}
    BY DEF ConfirmOrder, FailPayment, FailInventory
  <1>2. /\ o \in Orders /\ made[e.type][o] > 0 /\ OrderInv(o) /\ PayInv(o)
        /\ \A t \in EventTypes : made[t][o] \in Nat
        /\ charges[o] \in Nat
    BY MessageFacts DEF StripeInv, StripeTypeOK, SagaInv, TypeOK
  <1>3. /\ status[o] = "PENDING" /\ status' = [status EXCEPT ![o] = to]
        /\ CountEvents(T, o) /\ ClaimEvent(e, acked)
    BY <1>1 DEF DecideOrder, WriteOutbox
  <1>4. \A p \in Orders : Reservation(p) \in processed' <=> Reservation(p) \in processed
    BY <1>1, <1>3 DEF ClaimEvent, Reservation
  <1>5. logOf' = [logOf EXCEPT ![o] = @ \cup T]
    BY <1>2, <1>3, <1>4, LogCounts
  <1>6. logOf[o] = {t \in EventTypes : Seen(o, t)}
    BY <1>2, LogMembers
  <1> HIDE DEF o
  <1>7. CASE e.type = "PaymentCompleted"
    <2>1. "InventoryReserved" \in logOf[o]
      BY <1>2, <1>6, <1>7 DEF OrderInv, Reserved, Seen
    <2>2. "PaymentFailed" \notin logOf[o]
      BY <1>2, <1>6, <1>7 DEF PayInv, Seen
    <2>3. Log!Confirm(o)
      BY <1>1, <1>3, <1>5, <1>7, <2>1, <2>2 DEF Log!Confirm, Log!Decide, Log!Record
    <2> QED
      BY <1>2, <2>3 DEF Log!Progress
  <1>8. CASE e.type = "PaymentFailed"
    <2>1. "InventoryReserved" \in logOf[o]
      BY <1>2, <1>6, <1>8 DEF OrderInv, Reserved, Seen
    <2>2. "PaymentCompleted" \notin logOf[o]
      BY <1>2, <1>6, <1>8 DEF PayInv, Seen
    <2>3. Log!FailPayment(o)
      BY <1>1, <1>3, <1>5, <1>8, <2>1, <2>2 DEF Log!FailPayment, Log!Decide, Log!Record
    <2> QED
      BY <1>2, <2>3 DEF Log!Progress
  <1>9. CASE e.type = "InventoryFailed"
    <2>1. "InventoryFailed" \in logOf[o]
      BY <1>2, <1>6, <1>9 DEF Seen
    <2>2. Log!FailStock(o)
      BY <1>1, <1>3, <1>5, <1>9, <2>1 DEF Log!FailStock, Log!Decide, Log!Record
    <2> QED
      BY <1>2, <2>2 DEF Log!Progress
  <1> QED
    BY <1>1, <1>7, <1>8, <1>9

\* The outcome recorded agrees with a verdict the webhook's copy has caused.
LEMMA LogRecordOutcome ==
  ASSUME StripeInv, StripeInv', NEW a \in answers, NEW acked \in BOOLEAN,
         RecordOutcome(a, acked)
  PROVE  \E o \in Orders : Log!Progress(o)
  <1> DEFINE o == a.event.order
  <1>1. /\ o \in Orders /\ a.event = Reservation(o) /\ Reserved(o)
        /\ a.paid \in BOOLEAN
        /\ IF o \in Prepaid THEN a.paid
             ELSE Settled(o, IF a.paid THEN "visa" ELSE "chargeDeclined")
    BY DEF StripeInv, StripeTypeOK, Answer, Event, AnswersInv
  <1>2. PICK t \in {"PaymentCompleted", "PaymentFailed"} :
          t = Outcome(a.paid) /\ (t = "PaymentCompleted" <=> a.paid)
    BY <1>1 DEF Outcome
  <1>3. /\ CountEvents({Outcome(a.paid)}, o) /\ UNCHANGED status
        /\ Reservation(o) \notin processed
        /\ processed' = processed \cup {Reservation(o)}
    BY <1>1 DEF RecordOutcome, ClaimEvent, WriteOutbox
  <1>4. /\ TypeOK /\ OrderInv(o) /\ PayInv(o) /\ charges[o] \in Nat
        /\ \A u \in EventTypes, p \in Orders : made[u][p] \in Nat
    BY <1>1 DEF StripeInv, StripeTypeOK, SagaInv, TypeOK
  <1>5. \A u \in EventTypes, p \in Orders :
          made'[u][p] = IF u = t /\ p = o THEN made[u][p] + 1 ELSE made[u][p]
    BY <1>1, <1>2, <1>3, <1>4, OutcomeCounted
  <1>6. made["PaymentCompleted"][o] = 0 \/ t = "PaymentCompleted"
    BY <1>1, <1>2, <1>4 DEF PayInv
  <1>7. made["PaymentFailed"][o] = 0 \/ t = "PaymentFailed"
    BY <1>1, <1>2, <1>4 DEF PayInv
  <1> HIDE DEF o
  <1>8. ASSUME NEW p \in Orders, NEW u \in EventTypes
        PROVE  Seen(p, u)' <=> Seen(p, u) \/ (p = o /\ u \in {t})
    <2>1. /\ Reservation(p)' = Reservation(p)
          /\ Reservation(p) = Reservation(o) <=> p = o
      BY DEF Reservation
    <2>2. CASE p # o
      BY <1>3, <1>5, <2>1, <2>2 DEF Seen
    <2>3. CASE p = o
      BY <1>2, <1>3, <1>4, <1>5, <1>6, <1>7, <2>1, <2>3 DEF Seen
    <2> QED
      BY <2>2, <2>3
  <1>9. logOf' = [logOf EXCEPT ![o] = @ \cup {t}]
    <2>1. {t} \in SUBSET EventTypes
      OBVIOUS
    <2> QED
      BY <1>1, <1>8, <2>1, LogRecords
  <1>10. "InventoryReserved" \in logOf[o]
         /\ logOf[o] \cap {"PaymentCompleted", "PaymentFailed"} = {}
    BY <1>1, <1>3, LogMembers DEF Seen, Reserved
  <1>11. t = "PaymentCompleted" => status[o] # "FAILED"
    BY <1>1, <1>4, <1>7 DEF PayInv, OrderInv, Reserved
  <1>12. t = "PaymentFailed" => status[o] # "CONFIRMED"
    BY <1>4, <1>6 DEF PayInv
  <1>13. Log!LogPayment(o, t)
    BY <1>1, <1>2, <1>3, <1>9, <1>10, <1>11, <1>12 DEF Log!LogPayment, Log!Record
  <1> QED
    BY <1>1, <1>13 DEF Log!Progress, Log!LogTypes

\* The webhook's copy of an outcome is no row of the outbox, and counts nothing
\* new once payment-service has recorded its own.
LEMMA LogWebhook ==
  ASSUME StripeInv, StripeInv', NEW i \in hooks, NEW acked \in BOOLEAN, Webhook(i, acked)
  PROVE  UNCHANGED <<status, logOf>>
  <1> DEFINE p == i.key.order
  <1>1. /\ i \in intents /\ i.card \in Cards /\ p \in Orders
        /\ i = [key |-> i.key, card |-> i.card]
        /\ i.key = Reservation(p) /\ p \notin Prepaid
    BY DEF StripeInv, StripeTypeOK, Intent, Event, IntentsInv
  <1>2. Settled(p, i.card)
    BY <1>1 DEF Settled
  <1>3. CountEvents({Outcome(i.card = "visa")}, p) /\ UNCHANGED <<status, processed>>
    BY DEF Webhook, orderVars
  <1>4. PICK t \in {"PaymentCompleted", "PaymentFailed"} :
          /\ t = Outcome(i.card = "visa")
          /\ t = "PaymentCompleted" <=> i.card = "visa"
    BY DEF Outcome
  <1>5. /\ TypeOK /\ PayInv(p) /\ charges[p] \in Nat
        /\ \A u \in EventTypes, o \in Orders : made[u][o] \in Nat
    BY <1>1 DEF StripeInv, StripeTypeOK, SagaInv, TypeOK
  <1>6. \A u \in EventTypes, o \in Orders :
          made'[u][o] = IF u = t /\ o = p THEN made[u][o] + 1 ELSE made[u][o]
    <2>1. PICK paid \in BOOLEAN : paid = (i.card = "visa")
      OBVIOUS
    <2>2. CountEvents({Outcome(paid)}, p)
      BY <1>3, <2>1, Zenon
    <2>3. t = Outcome(paid)
      BY <1>4, <2>1, Zenon
    <2> QED
      BY <1>1, <1>5, <2>2, <2>3, OutcomeCounted
  <1>7. Reservation(p) \in processed => made[t][p] > 0
    BY <1>1, <1>2, <1>4, <1>5 DEF PayInv
  <1> HIDE DEF p
  <1>8. ASSUME NEW o \in Orders, NEW u \in EventTypes PROVE Seen(o, u)' <=> Seen(o, u)
    <2>1. Reservation(o)' = Reservation(o)
      BY DEF Reservation
    <2>2. CASE u = t /\ o = p
      BY <1>3, <1>4, <1>5, <1>6, <1>7, <2>1, <2>2 DEF Seen
    <2>3. CASE ~(u = t /\ o = p)
      BY <1>3, <1>6, <2>1, <2>3 DEF Seen
    <2> QED
      BY <2>2, <2>3
  <1> QED
    BY <1>3, <1>8, LogKept

\* Every step of the saga is a step of OrderLog or leaves rows and log alone.
LEMMA LogNextStep ==
  StripeInv /\ StripeInv' /\ [StripeNext]_allVars => [Log!LogNext]_Log!orderLog
  <1> SUFFICES ASSUME StripeInv, StripeInv', [StripeNext]_allVars
               PROVE  Log!LogNext \/ UNCHANGED <<status, logOf>>
    BY DEF Log!orderLog
  <1>1. CASE UNCHANGED <<status, made, processed>>
    BY <1>1, LogQuiet DEF Reservation
  <1>2. ASSUME NEW o \in Orders, PlaceOrder(o) PROVE Log!LogNext
    BY <1>2, LogPlaceOrder DEF Log!LogNext
  <1>3. ASSUME NEW e \in inbox, NEW acked \in BOOLEAN, StripeHandle(e, acked)
        PROVE  Log!LogNext \/ UNCHANGED <<status, logOf>>
    <2>1. CASE ReleaseStock(e, acked) \/ IgnoreLateOutcome(e, acked)
      <3>1. UNCHANGED <<status, made>>
        BY <2>1 DEF ReleaseStock, IgnoreLateOutcome
      <3>2. \A o \in Orders : Reservation(o) \in processed' <=> Reservation(o) \in processed
        BY <2>1 DEF ReleaseStock, IgnoreLateOutcome, ClaimEvent, Reservation
      <3> QED
        BY <3>1, <3>2, LogQuiet
    <2>2. CASE DropDuplicate(e, acked) \/ \E sent \in BOOLEAN : Notify(e, sent, acked)
      BY <1>1, <2>2 DEF DropDuplicate, Notify, orderVars
    <2> QED
      BY <1>3, <2>1, <2>2, LogAnswer, LogVerdict DEF StripeHandle, HandleUnpaid, Log!LogNext
  <1>4. ASSUME NEW a \in answers, NEW acked \in BOOLEAN, RecordOutcome(a, acked)
        PROVE  Log!LogNext
    BY <1>4, LogRecordOutcome DEF Log!LogNext
  <1>5. ASSUME NEW i \in hooks, NEW acked \in BOOLEAN, Webhook(i, acked)
        PROVE  UNCHANGED <<status, logOf>>
    BY <1>5, LogWebhook
  <1>6. ASSUME NEW e \in outbox, NEW marked \in BOOLEAN, Relay(e, marked)
        PROVE  UNCHANGED <<status, made, processed>>
    BY <1>6 DEF Relay, orderVars
  <1>7. ASSUME NEW e \in inbox, DeadLetter(e) PROVE UNCHANGED <<status, made, processed>>
    BY <1>7 DEF DeadLetter, orderVars
  <1>8. ASSUME NEW o \in Orders, PayAtCheckout(o) \/ PostOrder(o)
        PROVE  UNCHANGED <<status, made, processed>>
    BY <1>8 DEF PayAtCheckout, PostOrder, CheckStock, vars, orderVars
  <1>9. ASSUME NEW e \in inbox, NEW card \in Cards, NEW heard \in BOOLEAN,
               CreateIntent(e, card, heard) \/ RetrieveIntent(e)
        PROVE  UNCHANGED <<status, made, processed>>
    BY <1>9 DEF CreateIntent, RetrieveIntent, vars, orderVars
  <1>10. ASSUME NEW a \in answers, NEW acked \in BOOLEAN, DropAnswer(a, acked) \/ LoseAnswer(a)
         PROVE  UNCHANGED <<status, made, processed>>
    BY <1>10 DEF DropAnswer, LoseAnswer, vars, orderVars
  <1>11. CASE UNCHANGED allVars
    BY <1>1, <1>11 DEF allVars, vars, orderVars
  <1>12. CASE StripeNext
    BY <1>1, <1>2, <1>3, <1>4, <1>5, <1>6, <1>7, <1>8, <1>9, <1>10, <1>12 DEF StripeNext
  <1> QED
    BY <1>11, <1>12

\* The Stripe saga implements the log of rows and statuses that the pages read:
\* no recorded payment contradicts a verdict, whoever is first.
THEOREM StripeKeepsLog == StripeSpec => ImplementsOrderLog
  <1>1. StripeInit => Log!LogInit
    BY DEF StripeInit, Init, Log!LogInit, logOf
  <1> QED
    BY <1>1, LogNextStep, StripeInvariant, PTL DEF StripeSpec, ImplementsOrderLog, Log!LogSpec

-----------------------------------------------------------------------------
(* The lifecycle and the ledger in Stripe mode *)

\* An outcome that payment-service or the webhook announces moves no stock.
LEMMA HoldAnnounced ==
  ASSUME StripeInv, NEW p \in Orders, NEW paid \in BOOLEAN,
         CountEvents({Outcome(paid)}, p), UNCHANGED <<status, available>>,
         \A f \in processed : f \in processed',
         \A f \in processed' : f.type = "ReleaseInventory" => f \in processed
  PROVE  UNCHANGED <<status, holdOf, available>>
  <1>1. {Outcome(paid)} \in SUBSET (EventTypes \ {"InventoryReserved", "InventoryFailed"})
    BY DEF Outcome
  <1> QED
    BY <1>1, HoldCounted DEF StripeInv, SagaInv

\* In Stripe mode, too, each step is one step of the order's life or none: what
\* services share with the simulated mode is a step of it there, and what
\* Stripe, its webhook and payment-service do in between is invisible.
LEMMA StripeRefineNext ==
  StripeInv /\ [StripeNext]_allVars => [Lifecycle!Next]_Lifecycle!lifecycle
  <1> SUFFICES ASSUME StripeInv, [StripeNext]_allVars
               PROVE  [Lifecycle!Next]_Lifecycle!lifecycle
    OBVIOUS
  <1>0. SagaInv
    BY DEF StripeInv
  <1>1. CASE [Next]_vars
    BY <1>0, <1>1, RefineNext
  <1>2. ASSUME NEW o \in Orders, PayAtCheckout(o) \/ PostOrder(o) PROVE [Next]_vars
    BY <1>2 DEF PayAtCheckout, PostOrder, Next
  <1>3. ASSUME NEW e \in inbox, NEW acked \in BOOLEAN, StripeHandle(e, acked) PROVE [Next]_vars
    BY <1>3 DEF StripeHandle, Handle, Next
  <1>4. ASSUME NEW e \in inbox, NEW card \in Cards, NEW heard \in BOOLEAN,
               CreateIntent(e, card, heard) \/ RetrieveIntent(e)
        PROVE  [Next]_vars
    BY <1>4 DEF CreateIntent, RetrieveIntent
  <1>5. ASSUME NEW a \in answers, NEW acked \in BOOLEAN, RecordOutcome(a, acked)
        PROVE  UNCHANGED <<status, holdOf, available>>
    <2>1. /\ a.paid \in BOOLEAN /\ a.event.order \in Orders
          /\ a.event.type = "InventoryReserved"
      <3>1. a.paid \in BOOLEAN /\ a.event \in Event
        BY DEF StripeInv, StripeTypeOK, Answer
      <3>2. a.event = Reservation(a.event.order)
        BY DEF StripeInv, AnswersInv
      <3> QED
        BY <3>1, <3>2 DEF Event, Reservation
    <2>2. /\ CountEvents({Outcome(a.paid)}, a.event.order)
          /\ processed' = processed \cup {a.event} /\ UNCHANGED <<status, available>>
      BY <1>5 DEF RecordOutcome, WriteOutbox, ClaimEvent, stockVars
    <2>3. \A f \in processed' : f.type = "ReleaseInventory" => f \in processed
      BY <2>1, <2>2
    <2> QED
      BY <2>1, <2>2, <2>3, HoldAnnounced
  <1>6. ASSUME NEW a \in answers, NEW acked \in BOOLEAN, DropAnswer(a, acked) \/ LoseAnswer(a)
        PROVE  UNCHANGED <<status, holdOf, available>>
    BY <1>6 DEF DropAnswer, LoseAnswer, vars, orderVars, stockVars, holdOf, HoldOf,
       Reserved, Released
  <1>7. ASSUME NEW i \in hooks, NEW acked \in BOOLEAN, Webhook(i, acked)
        PROVE  UNCHANGED <<status, holdOf, available>>
    <2>1. i.key.order \in Orders
      BY DEF StripeInv, StripeTypeOK, Intent, Event
    <2>2. PICK paid \in BOOLEAN : paid = (i.card = "visa")
      OBVIOUS
    <2>3. CountEvents({Outcome(i.card = "visa")}, i.key.order)
      BY <1>7 DEF Webhook
    <2>4. CountEvents({Outcome(paid)}, i.key.order)
      BY <2>2, <2>3, Zenon
    <2>5. UNCHANGED <<status, available, processed>>
      BY <1>7 DEF Webhook, orderVars, stockVars
    <2> QED
      BY <2>1, <2>4, <2>5, HoldAnnounced
  <1>8. CASE UNCHANGED allVars
    BY <1>1, <1>8 DEF allVars
  <1>9. CASE StripeNext
    BY <1>1, <1>2, <1>3, <1>4, <1>5, <1>6, <1>7, <1>9
       DEF StripeNext, Next, Lifecycle!lifecycle
  <1> QED
    BY <1>8, <1>9

\* The Stripe mode implements the same lifecycle as the simulated one: however
\* an order is paid, and whoever announces it, its row and its stock move alike.
THEOREM StripeImplementsLifecycle == StripeSpec => ImplementsLifecycle
  <1>1. StripeInit => Lifecycle!Init
    BY DEF StripeInit, Init, Lifecycle!Init, holdOf, HoldOf, Reserved
  <1> QED
    BY <1>1, StripeRefineNext, StripeInvariant, PTL
       DEF StripeSpec, ImplementsLifecycle, Lifecycle!Spec

\* In Stripe mode, too, the reserved column is what the orders with stock hold.
THEOREM StripeLedgerIsKept == StripeSpec => []StockLedger
  <1>1. StripeInit => LedgerInv
    BY LedgerInit DEF StripeInit
  <1>2. StripeInv /\ LedgerInv /\ [StripeNext]_allVars => LedgerInv'
    BY LedgerNext, StripeRefineNext DEF StripeInv
  <1>3. StripeInv /\ LedgerInv => StockLedger
    BY LedgerMeans DEF StripeInv
  <1> QED
    BY <1>1, <1>2, <1>3, StripeInvariant, PTL DEF StripeSpec

=============================================================================

----------------------------- MODULE Storefront -----------------------------
(***************************************************************************)
(* The storefront: visits of the checkout page and other clients of        *)
(* order-service send POST /orders while an admin edits the catalog and    *)
(* the order saga decides what has been placed.                            *)
(*                                                                         *)
(* One request is handled in three database steps, with other requests,    *)
(* admins and the saga in between: the Idempotency-Key lookup, the read of *)
(* products and stock, and the insert.  A client that loses the connection *)
(* may send again while its first request is still being handled.  The     *)
(* saga is represented by OrderLifecycle, which OrderSaga implements; it   *)
(* shares the available column with the catalog.                           *)
(***************************************************************************)
EXTENDS Catalog, FiniteSets, Functions

CONSTANTS
  Visits,       \* checkout visits and API clients
  Cart,         \* Cart[v][s]: quantity of s, 0 if not in the cart
  Customer,     \* Customer[v]: the customer of the token
  Key,          \* Key[v]: the Idempotency-Key header
  NoKey,        \* no header; the browser never sends one
  Browsers,     \* visits that come from the checkout page
  MaxTries,     \* MaxTries[v]: bound on requests of v
  MaxRequests   \* bound on requests of all visits

Requests == UNION {{v} \X (1 .. MaxTries[v]) : v \in Visits}

ASSUME CartAssumption ==
  /\ Cart \in [Visits -> [Skus -> Nat]]
  /\ MaxTries \in [Visits -> Nat] /\ MaxRequests \in Nat
ASSUME BrowserAssumption ==
  Browsers \subseteq Visits /\ \A v \in Browsers : Key[v] = NoKey

VARIABLES
  page,         \* where each visit is
  tries,        \* requests each visit has sent
  intent,       \* visits whose page holds a PaymentIntent
  charged,      \* charged[v]: charges of the visitor's card
  req,          \* where order-service is with each request
  answer,       \* the order each request is answered with
  stage,        \* orders.status of the order inserted by each request
  hold          \* what has become of its stock

checkoutVars == <<page, tries, intent, charged>>
serverVars   == <<req, answer>>
orderVars    == <<stage, hold>>
vars == <<catalogVars, checkoutVars, serverVars, orderVars>>

NoOrder == <<>>

QtyOf == [q \in Requests |-> Cart[q[1]]]
Saga  == INSTANCE OrderLifecycle WITH Orders <- Requests, Qty <- QtyOf, free <- available

Wanted(v) == {s \in Skus : Cart[v][s] > 0}
Known(v)  == \A s \in Wanted(v) : product[s] # Absent

Placed == {q \in Requests : stage[q] # "none"}

Init ==
  /\ CatalogInit
  /\ page = [v \in Visits |-> IF v \in Browsers THEN "loading" ELSE "form"]
  /\ tries = [v \in Visits |-> 0]
  /\ intent = {}
  /\ charged = [v \in Visits |-> 0]
  /\ req = [q \in Requests |-> "unsent"]
  /\ answer = [q \in Requests |-> NoOrder]
  /\ stage = [q \in Requests |-> "none"]
  /\ hold = [q \in Requests |-> "none"]

-----------------------------------------------------------------------------
(* checkout page *)

\* POST /orders/payment-intent on mount.
CreateIntent(v) ==
  /\ page[v] = "loading" /\ Known(v)
  /\ intent' = intent \cup {v}
  /\ page' = [page EXCEPT ![v] = "form"]
  /\ UNCHANGED <<catalogVars, tries, charged, serverVars, orderVars>>

\* No Stripe, an unknown SKU or a failed request: the simulated form is shown.
FallBack(v) ==
  /\ page[v] = "loading"
  /\ page' = [page EXCEPT ![v] = "form"]
  /\ UNCHANGED <<catalogVars, tries, intent, charged, serverVars, orderVars>>

\* Mutant of ConfirmCard: a paid PaymentIntent can be confirmed once more.
ConfirmAgain(v) ==
  /\ page[v] = "form" /\ v \in intent
  /\ charged' = [charged EXCEPT ![v] = @ + 1]
  /\ page' = [page EXCEPT ![v] = "paid"]
  /\ UNCHANGED <<catalogVars, tries, intent, serverVars, orderVars>>

\* "Pay": Stripe confirms the PaymentIntent.  A declined card, and a second
\* confirmation of a paid PaymentIntent, come back as errors.
ConfirmCard(v) ==
  /\ page[v] = "form" /\ v \in intent /\ charged[v] = 0
  /\ charged' = [charged EXCEPT ![v] = @ + 1]
  /\ page' = [page EXCEPT ![v] = "paid"]
  /\ UNCHANGED <<catalogVars, tries, intent, serverVars, orderVars>>

\* Another request may be sent.
Sendable(v) ==
  /\ tries[v] < MaxTries[v]
  /\ Cardinality({q \in Requests : req[q] # "unsent"}) < MaxRequests

\* ordersApi.create; the button is disabled until the request has ended.
SendOrder(v) ==
  /\ \/ page[v] = "paid"
     \/ page[v] = "form" /\ v \notin intent
  /\ Sendable(v)
  /\ tries' = [tries EXCEPT ![v] = @ + 1]
  /\ req' = [req EXCEPT ![<<v, tries[v] + 1>>] = "lookup"]
  /\ page' = [page EXCEPT ![v] = "sent"]
  /\ UNCHANGED <<catalogVars, intent, charged, answer, orderVars>>

\* The answer arrives: the page moves to the order, or shows the error.
HearAnswer(v) ==
  /\ page[v] = "sent"
  /\ \/ /\ req[<<v, tries[v]>>] = "answered"
        /\ page' = [page EXCEPT ![v] = "done"]
     \/ /\ req[<<v, tries[v]>>] = "refused"
        /\ page' = [page EXCEPT ![v] = "form"]
  /\ UNCHANGED <<catalogVars, tries, intent, charged, serverVars, orderVars>>

\* Either form: the connection is lost, the request may still be under way.
LoseConnection(v) ==
  /\ page[v] = "sent"
  /\ page' = [page EXCEPT ![v] = "form"]
  /\ UNCHANGED <<catalogVars, tries, intent, charged, serverVars, orderVars>>

-----------------------------------------------------------------------------
(* order-service: create_order *)

SameKey(p, q) == Key[p[1]] # NoKey /\ Key[p[1]] = Key[q[1]]

\* Mutant of Replayed: the lookup forgets "AND customer_id = $2".
ReplayedToAnyone(p, q) == SameKey(p, q)

\* The order p is the replay of request q.
Replayed(p, q) == SameKey(p, q) /\ Customer[p[1]] = Customer[q[1]]

\* The lookup answers a repeated request with the order it has placed.
Lookup(q) ==
  /\ req[q] = "lookup"
  /\ \/ \E p \in Placed :
          /\ Replayed(p, q)
          /\ answer' = [answer EXCEPT ![q] = p]
          /\ req' = [req EXCEPT ![q] = "answered"]
     \/ /\ \A p \in Placed : ~Replayed(p, q)
        /\ req' = [req EXCEPT ![q] = "check"]
        /\ UNCHANGED answer
  /\ UNCHANGED <<catalogVars, checkoutVars, orderVars>>

\* 422 for an unknown SKU, 409 for an inactive one or too little stock.
Orderable(v) ==
  /\ Known(v)
  /\ \A s \in Wanted(v) : product[s] = "active" /\ Cart[v][s] <= available[s]

CheckItems(q) ==
  /\ req[q] = "check"
  /\ \/ /\ Orderable(q[1])
        /\ req' = [req EXCEPT ![q] = "insert"]
     \/ /\ ~Orderable(q[1])
        /\ req' = [req EXCEPT ![q] = "refused"]
  /\ UNCHANGED <<catalogVars, checkoutVars, answer, orderVars>>

\* Mutant of KeyTaken: the index is unique per customer.
KeyTakenByCustomer(q) == \E p \in Placed : Replayed(p, q)

\* idempotency_key TEXT UNIQUE
KeyTaken(q) == \E p \in Placed : SameKey(p, q)

InsertOrder(q) ==
  /\ req[q] = "insert"
  /\ ~KeyTaken(q)
  /\ Saga!Place(q)
  /\ answer' = [answer EXCEPT ![q] = q]
  /\ req' = [req EXCEPT ![q] = "answered"]
  /\ UNCHANGED <<product, form, edits, checkoutVars>>

\* The INSERT raises on the index, or anything else does: 500.
RequestFails(q) ==
  /\ req[q] \in {"lookup", "check", "insert"}
  /\ req' = [req EXCEPT ![q] = "refused"]
  /\ UNCHANGED <<catalogVars, checkoutVars, answer, orderVars>>

-----------------------------------------------------------------------------

\* One step of the saga with a placed order.
SagaStep(q) ==
  /\ stage[q] # "none"
  /\ Saga!Step(q)
  /\ UNCHANGED <<product, form, edits, checkoutVars, serverVars>>

Next ==
  \/ CatalogNext /\ UNCHANGED <<checkoutVars, serverVars, orderVars>>
  \/ \E v \in Visits : CreateIntent(v)
  \/ \E v \in Visits : FallBack(v)
  \/ \E v \in Visits : ConfirmCard(v)
  \/ \E v \in Visits : SendOrder(v)
  \/ \E v \in Visits : HearAnswer(v)
  \/ \E v \in Visits : LoseConnection(v)
  \/ \E q \in Requests : Lookup(q)
  \/ \E q \in Requests : CheckItems(q)
  \/ \E q \in Requests : InsertOrder(q)
  \/ \E q \in Requests : RequestFails(q)
  \/ \E q \in Requests : SagaStep(q)

Spec == Init /\ [][Next]_vars

-----------------------------------------------------------------------------
(* Correctness *)

TypeOK ==
  /\ CatalogTypeOK
  /\ page \in [Visits -> {"loading", "form", "paid", "sent", "done"}]
  /\ tries \in [Visits -> Nat]
  /\ intent \in SUBSET Visits
  /\ charged \in [Visits -> Nat]
  /\ req \in [Requests -> {"unsent", "lookup", "check", "insert", "answered", "refused"}]
  /\ answer \in [Requests -> Requests \cup {NoOrder}]
  /\ stage \in [Requests -> {"none", "PENDING", "CONFIRMED", "FAILED"}]
  /\ hold \in [Requests -> {"none", "held", "refused", "returned"}]

\* However requests with one Idempotency-Key overlap, one order is placed.
OneOrderPerKey ==
  \A p, q \in Placed : SameKey(p, q) => p = q

\* Repeated requests of one customer that are answered at all are answered with
\* the same order, and it is the customer's own.
AnswersAgree ==
  \A p, q \in Requests :
    req[p] = "answered" /\ req[q] = "answered" =>
      /\ answer[p] \in Placed
      /\ Customer[answer[p][1]] = Customer[p[1]]
      /\ Replayed(p, q) => answer[p] = answer[q]

\* A visit that shows the card form places one order at most, and only after
\* its card has been charged, however often the customer tries.
PaidVisitOrdersOnce ==
  \A v \in intent :
    LET own == {q \in Placed : q[1] = v}
    IN  Cardinality(own) <= 1 /\ (own # {} => charged[v] = 1)

\* Units of s that orders hold or have bought.
Held(s) == SumFunctionOnSet([q \in Requests |-> Cart[q[1]][s]],
                            {q \in Requests : hold[q] = "held"})

\* Units of a product appear or vanish only when an admin's request closes the
\* form of that product: nothing else, no order, compensation or deletion, loses
\* stock.
StockOnlyByAdmin ==
  [][\A s \in Skus :
       \/ form # Closed /\ form.sku = s /\ form' = Closed /\ edits' > edits
       \/ available'[s] + Held(s)' = available[s] + Held(s)]_<<available, hold>>

\* README: once stock reaches zero, checkout refuses instead of overselling.
\* (Of interest where no admin types in a stock quantity.)
NoOversell == \A s \in Skus : Held(s) <= Stock0[s]

-----------------------------------------------------------------------------
(* The inductive invariant behind the safety properties *)

\* A request is one of its visit's tries; an order is inserted with its answer;
\* every answer is the request's own order or one it replays.
RequestInv(q) ==
  /\ req[q] # "unsent" => q[2] <= tries[q[1]]
  /\ q \in Placed => req[q] = "answered"
  /\ req[q] = "answered" =>
       answer[q] \in Placed /\ (answer[q] = q \/ Replayed(answer[q], q))

\* With a PaymentIntent nothing is sent before the card is charged, and the
\* charge is good for one request.
VisitInv(v) ==
  /\ page[v] = "loading" => v \notin intent /\ tries[v] = 0
  /\ v \notin intent => charged[v] = 0
  /\ v \in intent /\ charged[v] = 0 => page[v] = "form" /\ tries[v] = 0
  /\ v \in intent /\ charged[v] # 0 =>
       charged[v] = 1 /\ tries[v] <= (IF page[v] = "paid" THEN 0 ELSE 1)

StorefrontInv ==
  /\ TypeOK
  /\ \A q \in Requests : RequestInv(q)
  /\ \A v \in Visits : VisitInv(v)
  /\ OneOrderPerKey

=============================================================================

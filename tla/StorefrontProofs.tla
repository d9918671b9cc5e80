-------------------------- MODULE StorefrontProofs --------------------------
(***************************************************************************)
(* Proofs about the storefront, for any number of visits, tries, products  *)
(* and admin requests, whatever the carts and Idempotency-Keys.            *)
(***************************************************************************)
EXTENDS Storefront, Sums, TLAPS

USE CatalogAssumption, CartAssumption

-----------------------------------------------------------------------------
(* Requests *)

\* A request is a visit and the number of one of its tries.
LEMMA RequestForm ==
  /\ \A q \in Requests : /\ q = <<q[1], q[2]>> /\ q[1] \in Visits
                         /\ q[2] \in Nat \ {0} /\ q[2] <= MaxTries[q[1]]
  /\ \A v \in Visits, n \in Nat \ {0} : n <= MaxTries[v] => <<v, n>> \in Requests
  <1>1. ASSUME NEW q \in Requests
        PROVE  /\ q = <<q[1], q[2]>> /\ q[1] \in Visits
               /\ q[2] \in Nat \ {0} /\ q[2] <= MaxTries[q[1]]
    <2>1. PICK v \in Visits : q \in {v} \X (1 .. MaxTries[v])
      BY DEF Requests
    <2> QED
      BY <2>1
  <1>2. ASSUME NEW v \in Visits, NEW n \in Nat \ {0}, n <= MaxTries[v]
        PROVE  <<v, n>> \in Requests
    <2>1. <<v, n>> \in {v} \X (1 .. MaxTries[v])
      BY <1>2
    <2> QED
      BY <2>1 DEF Requests
  <1> QED
    BY <1>1, <1>2

LEMMA InitInv == Init => StorefrontInv
  <1> SUFFICES ASSUME Init PROVE StorefrontInv
    OBVIOUS
  <1>1. TypeOK
    BY DEF Init, CatalogInit, TypeOK, CatalogTypeOK
  <1>2. \A q \in Requests : RequestInv(q)
    BY DEF Init, RequestInv, Placed
  <1>3. \A v \in Visits : VisitInv(v)
    BY BrowserAssumption DEF Init, VisitInv
  <1>4. OneOrderPerKey
    BY DEF Init, OneOrderPerKey, Placed
  <1> QED
    BY <1>1, <1>2, <1>3, <1>4 DEF StorefrontInv

-----------------------------------------------------------------------------
(* One lemma per group of steps *)

\* The catalog's requests leave everything else alone.
LEMMA CatalogStepInv ==
  ASSUME StorefrontInv, CatalogNext, UNCHANGED <<checkoutVars, serverVars, orderVars>>
  PROVE  StorefrontInv'
  <1>1. CatalogTypeOK
    BY DEF StorefrontInv, TypeOK
  <1>2. CatalogTypeOK'
    <2>1. ASSUME NEW s \in Skus, OpenForm(s) PROVE CatalogTypeOK'
      BY <1>1, <2>1 DEF OpenForm, CatalogTypeOK, Form
    <2>2. ASSUME NEW s \in Skus, OpenNewForm(s) PROVE CatalogTypeOK'
      BY <1>1, <2>2 DEF OpenNewForm, CatalogTypeOK, Form
    <2>3. CASE CloseForm
      BY <1>1, <2>3 DEF CloseForm, CatalogTypeOK
    <2>4. ASSUME NEW active \in BOOLEAN, NEW stock \in Typed, SaveForm(active, stock)
          PROVE  CatalogTypeOK'
      <3>1. form \in Form /\ stock \in Nat
        BY <1>1, <2>4 DEF SaveForm, CatalogTypeOK, Typed, Form
      <3>2. product' \in [Skus -> {"active", "inactive", Absent}]
        BY <1>1, <2>4, <3>1 DEF SaveForm, CatalogTypeOK, Form
      <3>3. available' \in [Skus -> Nat]
        BY <1>1, <2>4, <3>1 DEF SaveForm, CatalogTypeOK, Form
      <3> QED
        BY <1>1, <2>4, <3>2, <3>3 DEF SaveForm, Request, CatalogTypeOK
    <2>5. CASE SaveRejected
      BY <1>1, <2>5 DEF SaveRejected, Request, CatalogTypeOK
    <2>6. CASE Deactivate
      BY <1>1, <2>6 DEF Deactivate, Request, CatalogTypeOK, Form
    <2>7. ASSUME NEW s \in Skus, DeleteProduct(s) PROVE CatalogTypeOK'
      BY <1>1, <2>7 DEF DeleteProduct, Request, CatalogTypeOK
    <2> QED
      BY <2>1, <2>2, <2>3, <2>4, <2>5, <2>6, <2>7 DEF CatalogNext
  <1> QED
    BY <1>2 DEF StorefrontInv, TypeOK, RequestInv, VisitInv, OneOrderPerKey, Placed,
                checkoutVars, serverVars, orderVars

\* Steps of the checkout page that send no request.
LEMMA PageStepInv ==
  ASSUME StorefrontInv, NEW v \in Visits,
         \/ CreateIntent(v) \/ FallBack(v) \/ ConfirmCard(v)
         \/ HearAnswer(v) \/ LoseConnection(v)
  PROVE  StorefrontInv'
  <1>1. /\ UNCHANGED <<catalogVars, tries, serverVars, orderVars>>
        /\ \A u \in Visits \ {v} : /\ page'[u] = page[u] /\ charged'[u] = charged[u]
                                   /\ u \in intent' <=> u \in intent
    BY DEF CreateIntent, FallBack, ConfirmCard, HearAnswer, LoseConnection,
           StorefrontInv, TypeOK
  <1>2. TypeOK'
    <2>1. CatalogTypeOK'
      BY <1>1 DEF StorefrontInv, TypeOK, CatalogTypeOK, catalogVars
    <2>2. page' \in [Visits -> {"loading", "form", "paid", "sent", "done"}]
      <3>1. page \in [Visits -> {"loading", "form", "paid", "sent", "done"}]
        BY DEF StorefrontInv, TypeOK
      <3>2. PICK p \in {"form", "paid", "done"} : page' = [page EXCEPT ![v] = p]
        BY DEF CreateIntent, FallBack, ConfirmCard, HearAnswer, LoseConnection
      <3> QED
        BY <3>1, <3>2
    <2>3. intent' \in SUBSET Visits /\ charged' \in [Visits -> Nat]
      BY DEF CreateIntent, FallBack, ConfirmCard, HearAnswer, LoseConnection,
             StorefrontInv, TypeOK
    <2> QED
      BY <1>1, <2>1, <2>2, <2>3 DEF StorefrontInv, TypeOK, serverVars, orderVars
  <1>3. (\A q \in Requests : RequestInv(q))' /\ OneOrderPerKey'
    BY <1>1 DEF StorefrontInv, RequestInv, OneOrderPerKey, Placed, serverVars, orderVars
  <1>4. VisitInv(v)'
    <2>1. TypeOK /\ VisitInv(v)
      BY DEF StorefrontInv
    <2>2. CASE CreateIntent(v)
      BY <2>1, <2>2 DEF CreateIntent, TypeOK, VisitInv
    <2>3. CASE FallBack(v)
      BY <2>1, <2>3 DEF FallBack, TypeOK, VisitInv
    <2>4. CASE ConfirmCard(v)
      BY <2>1, <2>4 DEF ConfirmCard, TypeOK, VisitInv
    <2>5. CASE HearAnswer(v) \/ LoseConnection(v)
      <3>1. /\ page[v] = "sent" /\ page'[v] \in {"done", "form"}
            /\ UNCHANGED <<tries, intent, charged>>
        BY <2>1, <2>5 DEF HearAnswer, LoseConnection, TypeOK
      <3> QED
        BY <2>1, <3>1 DEF TypeOK, VisitInv
    <2> QED
      BY <2>2, <2>3, <2>4, <2>5
  <1>5. (\A u \in Visits : VisitInv(u))'
    BY <1>1, <1>4 DEF StorefrontInv, VisitInv
  <1> QED
    BY <1>2, <1>3, <1>5 DEF StorefrontInv

LEMMA SendOrderInv ==
  ASSUME StorefrontInv, NEW v \in Visits, SendOrder(v)
  PROVE  StorefrontInv'
  <1> DEFINE r == <<v, tries[v] + 1>>
  <1>1. TypeOK /\ VisitInv(v) /\ tries[v] \in Nat
    BY DEF StorefrontInv, TypeOK
  <1>2. /\ tries' = [tries EXCEPT ![v] = @ + 1]
        /\ req' = [req EXCEPT ![r] = "lookup"]
        /\ page' = [page EXCEPT ![v] = "sent"]
        /\ UNCHANGED <<catalogVars, intent, charged, answer, orderVars>>
    BY DEF SendOrder
  <1>3. r \in Requests
    BY <1>1, RequestForm DEF SendOrder, Sendable
  <1>4. req[r] = "unsent"
    BY <1>1, <1>3 DEF StorefrontInv, RequestInv, TypeOK
  <1>5. TypeOK'
    BY <1>1, <1>2, <1>3 DEF TypeOK, CatalogTypeOK, catalogVars, orderVars
  <1>6. (\A q \in Requests : RequestInv(q))'
    <2> SUFFICES ASSUME NEW q \in Requests PROVE RequestInv(q)'
      OBVIOUS
    <2>1. RequestInv(q) /\ q[1] \in Visits /\ q[2] \in Nat
      BY RequestForm DEF StorefrontInv
    <2>2. Placed' = Placed /\ answer' = answer /\ tries[q[1]] <= tries'[q[1]]
      BY <1>1, <1>2, <2>1 DEF Placed, orderVars, TypeOK
    <2>3. tries[q[1]] \in Nat /\ tries'[q[1]] \in Nat
      BY <1>1, <1>5, <2>1 DEF TypeOK
    <2>4. CASE q = r
      <3>1. q \notin Placed /\ q[2] = tries[v] + 1 /\ q[1] = v /\ req'[q] = "lookup"
        BY <1>1, <1>2, <1>3, <1>4, <2>1, <2>4 DEF RequestInv, TypeOK
      <3>2. tries'[v] = tries[v] + 1
        BY <1>1, <1>2 DEF TypeOK
      <3> QED
        BY <1>1, <2>2, <3>1, <3>2 DEF RequestInv
    <2>5. CASE q # r
      <3>1. req'[q] = req[q]
        BY <1>1, <1>2, <2>5 DEF TypeOK
      <3> QED
        BY <2>1, <2>2, <2>3, <3>1 DEF RequestInv
    <2> QED
      BY <2>4, <2>5
  <1>7. (\A u \in Visits : VisitInv(u))'
    <2>1. VisitInv(v)'
      <3>1. page'[v] = "sent" /\ tries'[v] = tries[v] + 1 /\ intent' = intent /\ charged' = charged
        BY <1>1, <1>2 DEF TypeOK
      <3> QED
        BY <1>1, <3>1 DEF VisitInv, SendOrder, TypeOK
    <2>2. ASSUME NEW u \in Visits, u # v PROVE VisitInv(u)'
      BY <1>1, <1>2, <2>2 DEF StorefrontInv, VisitInv, TypeOK
    <2> QED
      BY <2>1, <2>2
  <1>8. OneOrderPerKey'
    BY <1>2 DEF StorefrontInv, OneOrderPerKey, Placed, orderVars
  <1> QED
    BY <1>5, <1>6, <1>7, <1>8 DEF StorefrontInv

\* Steps of order-service that insert nothing.
LEMMA HandleInv ==
  ASSUME StorefrontInv, NEW q \in Requests, Lookup(q) \/ CheckItems(q) \/ RequestFails(q)
  PROVE  StorefrontInv'
  <1>1. TypeOK /\ RequestInv(q)
    BY DEF StorefrontInv
  <1>2. /\ UNCHANGED <<catalogVars, checkoutVars, orderVars>>
        /\ req[q] \in {"lookup", "check", "insert"}
        /\ \/ /\ \E p \in Placed : Replayed(p, q) /\ answer' = [answer EXCEPT ![q] = p]
              /\ req' = [req EXCEPT ![q] = "answered"]
           \/ /\ answer' = answer
              /\ \E s \in {"check", "insert", "refused"} : req' = [req EXCEPT ![q] = s]
    BY DEF Lookup, CheckItems, RequestFails
  <1>3. TypeOK'
    <2>1. /\ req' \in [Requests -> {"unsent", "lookup", "check", "insert", "answered", "refused"}]
          /\ answer' \in [Requests -> Requests \cup {NoOrder}]
      <3>1. PICK s \in {"check", "insert", "refused", "answered"} : req' = [req EXCEPT ![q] = s]
        BY <1>2
      <3>2. PICK p \in Requests \cup {NoOrder} :
              answer' = answer \/ answer' = [answer EXCEPT ![q] = p]
        BY <1>2 DEF Placed
      <3> QED
        BY <1>1, <3>1, <3>2 DEF TypeOK
    <2>2. CatalogTypeOK'
      BY <1>1, <1>2 DEF TypeOK, CatalogTypeOK, catalogVars
    <2> QED
      BY <1>1, <1>2, <2>1, <2>2 DEF TypeOK, checkoutVars, orderVars
  <1>4. Placed' = Placed /\ tries' = tries
    BY <1>2 DEF Placed, orderVars, checkoutVars
  <1>5. (\A p \in Requests : RequestInv(p))'
    <2>1. RequestInv(q)'
      <3>1. CASE /\ \E p \in Placed : Replayed(p, q) /\ answer' = [answer EXCEPT ![q] = p]
                 /\ req' = [req EXCEPT ![q] = "answered"]
        BY <1>1, <1>2, <1>4, <3>1 DEF RequestInv, TypeOK
      <3>2. CASE \E s \in {"check", "insert", "refused"} : req' = [req EXCEPT ![q] = s]
        BY <1>1, <1>2, <1>4, <3>2 DEF RequestInv, TypeOK
      <3> QED
        BY <1>2, <3>1, <3>2
    <2>2. ASSUME NEW p \in Requests, p # q PROVE RequestInv(p)'
      <3>1. req'[p] = req[p] /\ answer'[p] = answer[p]
        BY <1>1, <1>2, <2>2 DEF TypeOK
      <3> QED
        BY <1>4, <3>1 DEF StorefrontInv, RequestInv
    <2> QED
      BY <2>1, <2>2
  <1>6. (\A v \in Visits : VisitInv(v))'
    BY <1>2 DEF StorefrontInv, VisitInv, checkoutVars
  <1>7. OneOrderPerKey'
    BY <1>4 DEF StorefrontInv, OneOrderPerKey
  <1> QED
    BY <1>3, <1>5, <1>6, <1>7 DEF StorefrontInv

\* The index lets an order in only if none of its key is there, whatever the
\* lookup has seen.
LEMMA InsertOrderInv ==
  ASSUME StorefrontInv, NEW q \in Requests, InsertOrder(q)
  PROVE  StorefrontInv'
  <1>1. TypeOK /\ RequestInv(q)
    BY DEF StorefrontInv
  <1>2. /\ req[q] = "insert" /\ ~KeyTaken(q)
        /\ stage' = [stage EXCEPT ![q] = "PENDING"] /\ UNCHANGED <<hold, available>>
        /\ answer' = [answer EXCEPT ![q] = q] /\ req' = [req EXCEPT ![q] = "answered"]
        /\ UNCHANGED <<product, form, edits, checkoutVars>>
    BY DEF InsertOrder, Saga!Place
  <1>3. TypeOK'
    BY <1>1, <1>2 DEF TypeOK, CatalogTypeOK, checkoutVars
  <1>4. Placed' = Placed \cup {q} /\ tries' = tries
    BY <1>1, <1>2 DEF Placed, TypeOK, checkoutVars
  <1>5. (\A p \in Requests : RequestInv(p))'
    <2>1. RequestInv(q)'
      BY <1>1, <1>2, <1>4 DEF RequestInv, TypeOK
    <2>2. ASSUME NEW p \in Requests, p # q PROVE RequestInv(p)'
      <3>1. req'[p] = req[p] /\ answer'[p] = answer[p]
        BY <1>1, <1>2, <2>2 DEF TypeOK
      <3> QED
        BY <1>4, <2>2, <3>1 DEF StorefrontInv, RequestInv
    <2> QED
      BY <2>1, <2>2
  <1>6. (\A v \in Visits : VisitInv(v))'
    BY <1>2 DEF StorefrontInv, VisitInv, checkoutVars
  <1>7. OneOrderPerKey'
    <2>1. \A p \in Placed : ~SameKey(p, q) /\ ~SameKey(q, p)
      BY <1>2 DEF KeyTaken, SameKey
    <2> QED
      BY <1>4, <2>1 DEF StorefrontInv, OneOrderPerKey
  <1> QED
    BY <1>3, <1>5, <1>6, <1>7 DEF StorefrontInv

LEMMA SagaStepInv ==
  ASSUME StorefrontInv, NEW q \in Requests, SagaStep(q)
  PROVE  StorefrontInv'
  <1>1. TypeOK /\ q[1] \in Visits
    BY RequestForm DEF StorefrontInv
  <1>2. /\ stage[q] # "none" /\ Saga!Step(q)
        /\ UNCHANGED <<product, form, edits, checkoutVars, serverVars>>
    BY DEF SagaStep
  <1>3. QtyOf[q] \in [Skus -> Nat]
    BY <1>1 DEF QtyOf
  <1>4. /\ stage' \in [Requests -> {"none", "PENDING", "CONFIRMED", "FAILED"}]
        /\ hold' \in [Requests -> {"none", "held", "refused", "returned"}]
        /\ available' \in [Skus -> Nat]
        /\ Placed' = Placed
    <2>1. CASE Saga!Place(q)
      BY <1>2, <2>1 DEF Saga!Place
    <2>2. CASE Saga!Hold(q)
      BY <1>1, <1>3, <2>2 DEF Saga!Hold, Saga!Fits, TypeOK, CatalogTypeOK, Placed
    <2>3. CASE Saga!Refuse(q)
      BY <1>1, <2>3 DEF Saga!Refuse, TypeOK, CatalogTypeOK, Placed
    <2>4. CASE Saga!Confirm(q)
      BY <1>1, <2>4 DEF Saga!Confirm, TypeOK, CatalogTypeOK, Placed
    <2>5. CASE Saga!Fail(q)
      BY <1>1, <2>5 DEF Saga!Fail, TypeOK, CatalogTypeOK, Placed
    <2>6. CASE Saga!Return(q)
      BY <1>1, <1>3, <2>6 DEF Saga!Return, TypeOK, CatalogTypeOK, Placed
    <2> QED
      BY <1>2, <2>1, <2>2, <2>3, <2>4, <2>5, <2>6 DEF Saga!Step
  <1>5. TypeOK'
    BY <1>1, <1>2, <1>4 DEF TypeOK, CatalogTypeOK, checkoutVars, serverVars
  <1>6. (\A p \in Requests : RequestInv(p))'
    BY <1>2, <1>4 DEF StorefrontInv, RequestInv, checkoutVars, serverVars
  <1>7. (\A v \in Visits : VisitInv(v))' /\ OneOrderPerKey'
    BY <1>2, <1>4 DEF StorefrontInv, VisitInv, OneOrderPerKey, checkoutVars
  <1> QED
    BY <1>5, <1>6, <1>7 DEF StorefrontInv

-----------------------------------------------------------------------------
(* The invariant *)

LEMMA NextInv == StorefrontInv /\ [Next]_vars => StorefrontInv'
  <1> SUFFICES ASSUME StorefrontInv, [Next]_vars PROVE StorefrontInv'
    OBVIOUS
  <1>1. CASE CatalogNext /\ UNCHANGED <<checkoutVars, serverVars, orderVars>>
    BY <1>1, CatalogStepInv
  <1>2. CASE \E v \in Visits : \/ CreateIntent(v) \/ FallBack(v) \/ ConfirmCard(v)
                               \/ HearAnswer(v) \/ LoseConnection(v)
    BY <1>2, PageStepInv
  <1>3. CASE \E v \in Visits : SendOrder(v)
    BY <1>3, SendOrderInv
  <1>4. CASE \E q \in Requests : Lookup(q) \/ CheckItems(q) \/ RequestFails(q)
    BY <1>4, HandleInv
  <1>5. CASE \E q \in Requests : InsertOrder(q)
    BY <1>5, InsertOrderInv
  <1>6. CASE \E q \in Requests : SagaStep(q)
    BY <1>6, SagaStepInv
  <1>7. CASE UNCHANGED vars
    BY <1>7 DEF vars, StorefrontInv, TypeOK, CatalogTypeOK, RequestInv, VisitInv,
                OneOrderPerKey, Placed, catalogVars, checkoutVars, serverVars, orderVars
  <1> QED
    BY <1>1, <1>2, <1>3, <1>4, <1>5, <1>6, <1>7 DEF Next

\* The inductive invariant holds on every behaviour of the storefront.
THEOREM StorefrontInvariant == Spec => []StorefrontInv
  BY InitInv, NextInv, PTL DEF Spec

-----------------------------------------------------------------------------
(* What follows from it *)

\* However requests with one Idempotency-Key overlap, one order is placed: the
\* unique index decides what the lookup cannot.
THEOREM KeysPlaceOneOrder == Spec => []OneOrderPerKey
  <1>1. StorefrontInv => OneOrderPerKey
    BY DEF StorefrontInv
  <1> QED
    BY <1>1, StorefrontInvariant, PTL

\* Repeated requests of a customer are answered with one order, the customer's.
THEOREM ReplaysAgree == Spec => []AnswersAgree
  <1>1. StorefrontInv => AnswersAgree
    <2> SUFFICES ASSUME StorefrontInv, NEW p \in Requests, NEW q \in Requests,
                        req[p] = "answered", req[q] = "answered"
                 PROVE  /\ answer[p] \in Placed
                        /\ Customer[answer[p][1]] = Customer[p[1]]
                        /\ Replayed(p, q) => answer[p] = answer[q]
      BY DEF AnswersAgree
    <2>1. /\ answer[p] \in Placed /\ (answer[p] = p \/ Replayed(answer[p], p))
          /\ answer[q] \in Placed /\ (answer[q] = q \/ Replayed(answer[q], q))
      BY DEF StorefrontInv, RequestInv
    <2>2. Replayed(p, q) => SameKey(answer[p], answer[q])
      BY <2>1 DEF Replayed, SameKey
    <2> QED
      BY <2>1, <2>2 DEF Replayed, StorefrontInv, OneOrderPerKey
  <1> QED
    BY <1>1, StorefrontInvariant, PTL

\* A visit with the card form places one order at most, after its charge.
THEOREM PaidVisitsOrderOnce == Spec => []PaidVisitOrdersOnce
  <1>1. StorefrontInv => PaidVisitOrdersOnce
    <2> SUFFICES ASSUME StorefrontInv, NEW v \in intent
                 PROVE  LET own == {q \in Placed : q[1] = v}
                        IN  Cardinality(own) <= 1 /\ (own # {} => charged[v] = 1)
      BY DEF PaidVisitOrdersOnce
    <2> DEFINE own == {q \in Placed : q[1] = v}
    <2>1. TypeOK /\ v \in Visits /\ VisitInv(v)
      BY DEF StorefrontInv, TypeOK
    <2>2. \A q \in own : q = <<v, 1>> /\ charged[v] = 1
      <3> SUFFICES ASSUME NEW q \in own PROVE q = <<v, 1>> /\ charged[v] = 1
        OBVIOUS
      <3>1. q \in Requests /\ q[1] = v /\ q \in Placed
        BY DEF Placed
      <3>2. q = <<v, q[2]>> /\ q[2] \in Nat \ {0} /\ q[2] <= tries[v]
        BY <3>1, RequestForm DEF StorefrontInv, RequestInv
      <3>3. tries[v] \in Nat /\ charged[v] \in Nat
        BY <2>1 DEF TypeOK
      <3>4. charged[v] = 1 /\ tries[v] <= 1
        BY <2>1, <3>2, <3>3 DEF VisitInv
      <3>5. \A n \in Nat \ {0}, t \in Nat : n <= t /\ t <= 1 => n = 1
        OBVIOUS
      <3>6. q[2] = 1
        BY <3>2, <3>3, <3>4, <3>5
      <3> QED
        BY <3>2, <3>4, <3>6
    <2>3. own = {} \/ own = {<<v, 1>>}
      BY <2>2
    <2>4. Cardinality(own) <= 1
      <3> HIDE DEF own
      <3>1. Cardinality({}) = 0 /\ Cardinality({<<v, 1>>}) = 1
        BY FS_EmptySet, FS_Singleton
      <3>2. CASE own = {}
        BY <3>1, <3>2
      <3>3. CASE own = {<<v, 1>>}
        BY <3>1, <3>3
      <3> QED
        BY <2>3, <3>2, <3>3
    <2> QED
      BY <2>2, <2>4
  <1> QED
    BY <1>1, StorefrontInvariant, PTL

-----------------------------------------------------------------------------
(* Units in stock and in orders *)

\* Finitely many orders hold stock at any time.
HoldersFinite == IsFiniteSet(Marked(hold, "held"))

\* Units of s per request.
Units(s) == [q \in Requests |-> Cart[q[1]][s]]

LEMMA UnitsTyped ==
  ASSUME NEW s \in Skus
  PROVE  \A q \in Requests : Units(s)[q] \in Int /\ Units(s)[q] = QtyOf[q][s]
  BY RequestForm DEF Units, QtyOf

\* A step of the saga moves units between available and held, and loses none.
LEMMA SagaBalances ==
  ASSUME StorefrontInv, HoldersFinite, NEW q \in Requests, SagaStep(q)
  PROVE  /\ HoldersFinite'
         /\ \A s \in Skus : available'[s] + Held(s)' = available[s] + Held(s)
  <1> DEFINE Sum(s) == SumFunctionOnSet(Units(s), Marked(hold, "held"))
  <1>1. TypeOK /\ TypeOK' /\ DOMAIN hold = Requests
    BY SagaStepInv DEF StorefrontInv, TypeOK
  <1>2. /\ \A p \in Requests \ {q} : hold'[p] = hold[p]
        /\ DOMAIN hold' = DOMAIN hold
        /\ \/ /\ hold[q] # "held" /\ hold'[q] = "held"
              /\ \A s \in Skus : available'[s] = available[s] - QtyOf[q][s]
           \/ /\ hold[q] = "held" /\ hold'[q] # "held"
              /\ \A s \in Skus : available'[s] = available[s] + QtyOf[q][s]
           \/ hold[q] # "held" /\ hold'[q] # "held" /\ available' = available
           \/ hold' = hold /\ available' = available
    <2>1. Saga!Step(q)
      BY DEF SagaStep
    <2>2. CASE Saga!Hold(q)
      BY <1>1, <2>2 DEF Saga!Hold
    <2>3. CASE Saga!Return(q)
      BY <1>1, <2>3 DEF Saga!Return
    <2>4. CASE Saga!Refuse(q)
      BY <1>1, <2>4 DEF Saga!Refuse
    <2>5. CASE Saga!Place(q) \/ Saga!Confirm(q) \/ Saga!Fail(q)
      BY <2>5 DEF Saga!Place, Saga!Confirm, Saga!Fail
    <2> QED
      BY <2>1, <2>2, <2>3, <2>4, <2>5 DEF Saga!Step
  <1>3. HoldersFinite'
    BY <1>1, <1>2, MarkedFinite DEF HoldersFinite
  <1>4. ASSUME NEW s \in Skus PROVE available'[s] + Sum(s)' = available[s] + Sum(s)
    <2>1. /\ available[s] \in Int /\ available'[s] \in Int
          /\ Units(s)[q] \in Int /\ Units(s)[q] = QtyOf[q][s]
      BY <1>1, UnitsTyped DEF TypeOK, CatalogTypeOK
    <2>2. /\ q \in DOMAIN hold /\ IsFiniteSet(Marked(hold, "held"))
          /\ \A p \in DOMAIN hold : Units(s)[p] \in Int
      BY <1>1, UnitsTyped DEF HoldersFinite
    <2>3. /\ DOMAIN hold' = DOMAIN hold
          /\ \A p \in DOMAIN hold \ {q} : hold'[p] = hold[p]
      BY <1>1, <1>2
    <2>4. Sum(s) \in Int
      <3>1. \A p \in Marked(hold, "held") : Units(s)[p] \in Int
        BY <2>2 DEF Marked
      <3> QED
        BY <2>2, <3>1, SumType
    <2>5. CASE /\ hold[q] # "held" /\ hold'[q] = "held"
               /\ available'[s] = available[s] - QtyOf[q][s]
      <3>1. Sum(s)' = Sum(s) + Units(s)[q]
        BY <2>2, <2>3, <2>5, SumMark
      <3> HIDE DEF Sum
      <3> QED
        BY <2>1, <2>4, <2>5, <3>1
    <2>6. CASE /\ hold[q] = "held" /\ hold'[q] # "held"
               /\ available'[s] = available[s] + QtyOf[q][s]
      <3>1. Sum(s)' = Sum(s) - Units(s)[q]
        BY <2>2, <2>3, <2>6, SumUnmark
      <3> HIDE DEF Sum
      <3> QED
        BY <2>1, <2>4, <2>6, <3>1
    <2>7. CASE hold[q] # "held" /\ hold'[q] # "held" /\ available' = available
      <3>1. Marked(hold, "held")' = Marked(hold, "held")
        BY <2>2, <2>3, <2>7, MarkedKept
      <3>2. Sum(s)' = Sum(s)
        BY <3>1, Zenon
      <3> QED
        BY <2>7, <3>2, Zenon
    <2>8. CASE hold' = hold /\ available' = available
      BY <2>8, Zenon
    <2> QED
      BY <1>2, <2>5, <2>6, <2>7, <2>8
  <1>5. \A s \in Skus : Held(s) = Sum(s) /\ Held(s)' = Sum(s)'
    BY <1>1, <1>2 DEF Held, Units, Marked
  <1> QED
    BY <1>3, <1>4, <1>5

\* A step in which no order changes hands and no form is saved.
LEMMA NoHoldBalances ==
  ASSUME UNCHANGED hold
  PROVE  /\ HoldersFinite => HoldersFinite'
         /\ \A s \in Skus : Held(s)' = Held(s)
  BY DEF HoldersFinite, Held, Marked

\* The step that no request of an admin closes a form with leaves the sum of
\* available and held units of a product as it was.
LEMMA StepBalances ==
  ASSUME StorefrontInv, HoldersFinite, [Next]_vars
  PROVE  /\ HoldersFinite'
         /\ \A s \in Skus :
              \/ form # Closed /\ form.sku = s /\ form' = Closed /\ edits' > edits
              \/ available'[s] + Held(s)' = available[s] + Held(s)
  <1>1. ASSUME UNCHANGED <<available, hold>>
        PROVE  HoldersFinite' /\ \A s \in Skus : available'[s] + Held(s)' = available[s] + Held(s)
    BY <1>1, NoHoldBalances
  <1>2. CASE CatalogNext /\ UNCHANGED <<checkoutVars, serverVars, orderVars>>
    <2>1. hold' = hold
      BY <1>2 DEF orderVars
    <2>2. ASSUME NEW active \in BOOLEAN, NEW stock \in Typed, SaveForm(active, stock), NEW s \in Skus
          PROVE  \/ form # Closed /\ form.sku = s /\ form' = Closed /\ edits' > edits
                 \/ available'[s] = available[s]
      <3>1. form # Closed /\ form' = Closed /\ available' = [available EXCEPT ![form.sku] = stock]
        BY <2>2 DEF SaveForm
      <3>2. edits' > edits
        BY <2>2 DEF SaveForm, Request, StorefrontInv, TypeOK, CatalogTypeOK
      <3>3. available \in [Skus -> Nat]
        BY DEF StorefrontInv, TypeOK, CatalogTypeOK
      <3>4. CASE form.sku # s
        BY <3>1, <3>3, <3>4
      <3> QED
        BY <3>1, <3>2, <3>4
    <2>3. \/ \E active \in BOOLEAN : \E stock \in Typed : SaveForm(active, stock)
          \/ available' = available
      BY <1>2 DEF CatalogNext, OpenForm, OpenNewForm, CloseForm, SaveRejected, Deactivate, DeleteProduct
    <2> QED
      BY <2>1, <2>2, <2>3, NoHoldBalances
  <1>3. ASSUME NEW v \in Visits,
               \/ CreateIntent(v) \/ FallBack(v) \/ ConfirmCard(v) \/ SendOrder(v)
               \/ HearAnswer(v) \/ LoseConnection(v)
        PROVE  UNCHANGED <<available, hold>>
    BY <1>3 DEF CreateIntent, FallBack, ConfirmCard, SendOrder, HearAnswer, LoseConnection,
                catalogVars, orderVars
  <1>4. ASSUME NEW q \in Requests, Lookup(q) \/ CheckItems(q) \/ RequestFails(q)
        PROVE  UNCHANGED <<available, hold>>
    BY <1>4 DEF Lookup, CheckItems, RequestFails, catalogVars, orderVars
  <1>5. ASSUME NEW q \in Requests, InsertOrder(q)
        PROVE  UNCHANGED <<available, hold>>
    BY <1>5 DEF InsertOrder, Saga!Place
  <1>6. CASE \E q \in Requests : SagaStep(q)
    BY <1>6, SagaBalances
  <1>7. CASE UNCHANGED vars
    BY <1>1, <1>7 DEF vars, catalogVars, orderVars
  <1> QED
    BY <1>1, <1>2, <1>3, <1>4, <1>5, <1>6, <1>7 DEF Next

\* Units of a product appear or vanish only when an admin's request closes the
\* product's form: orders and compensations move them and lose none.
THEOREM StockIsTheAdmins == Spec => StockOnlyByAdmin
  <1>1. Init => HoldersFinite
    <2> SUFFICES ASSUME Init PROVE HoldersFinite
      OBVIOUS
    <2>1. Marked(hold, "held") = {}
      BY DEF Init, Marked
    <2> QED
      BY <2>1, FS_EmptySet DEF HoldersFinite
  <1>2. StorefrontInv /\ HoldersFinite /\ [Next]_vars => HoldersFinite'
    BY StepBalances
  <1>3. StorefrontInv /\ HoldersFinite /\ [Next]_vars =>
          [\A s \in Skus :
             \/ form # Closed /\ form.sku = s /\ form' = Closed /\ edits' > edits
             \/ available'[s] + Held(s)' = available[s] + Held(s)]_<<available, hold>>
    BY StepBalances
  <1> QED
    BY <1>1, <1>2, <1>3, StorefrontInvariant, PTL DEF Spec, StockOnlyByAdmin

=============================================================================

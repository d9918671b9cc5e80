------------------------------ MODULE Console -------------------------------
(***************************************************************************)
(* The admin's two consoles, Operations and the AI Copilot, and the        *)
(* copilot's demo, in the browser tab of Session, over the orders of       *)
(* OrderLog.                                                               *)
(*                                                                         *)
(* Both pages load a snapshot every five seconds whether or not earlier    *)
(* loads have been answered, so that answers pass each other; the page     *)
(* keeps the last one it hears.  A snapshot is read in several statements  *)
(* while orders move on: Operations asks for its parts at once, the        *)
(* copilot's context is read by one request in a fixed order.  The copilot *)
(* answers from the snapshot at hand, or asks order-service, which reads a *)
(* snapshot of its own and asks an LLM.                                    *)
(*                                                                         *)
(* Requests carry the stored user's token.  What the LLM answers is not    *)
(* modelled.  A service that is down is down throughout.                   *)
(***************************************************************************)
EXTENDS Session, OrderLog, OpsCopilot, DemoData, FiniteSets, SequencesExt

CONSTANTS
  ByAge,        \* the orders, the last one placed first
  Past,         \* an order that was decided before, or 0
  Unhealthy,    \* services that do not report healthy
  LLM,          \* order-service has the key of an LLM
  Asked,        \* questions that are asked
  EventLimit,   \* events in a snapshot, ...
  OrderLimit,   \* ... and orders
  MaxLoads      \* loads of one page at a time

\* COPILOT_SERVICES
Services == {"auth-service", "catalog-service", "order-service", "inventory-service",
             "payment-service", "notification-service", "stripe-webhook-service"}

\* Orders, made-up orders of the demo and 0 are told apart.
ASSUME ConsoleAssumption ==
  /\ ByAge \in Seq(Orders) /\ Range(ByAge) = Orders
  /\ Orders \cap ({0} \cup {x.order : x \in Range(demoOrders)}) = {}
  /\ Past \in Orders \cup {0}
  /\ Unhealthy \subseteq Services
  /\ LLM \in BOOLEAN /\ EventLimit \in Nat /\ OrderLimit \in Nat /\ MaxLoads \in Nat

VARIABLES
  feed,         \* the outbox, newest first
  loads,        \* requests for a snapshot
  view,         \* the snapshot the page has
  error,
  chat          \* the copilot's conversation: its last question and answer

serverVars  == <<orderLog, feed>>
consoleVars == <<loads, view, error, chat>>

Customer == INSTANCE CustomerCopilot

Consoles == AdminPages

-----------------------------------------------------------------------------
(* order-service: what a request reads *)

Count(r) == Cardinality({o \in Orders : row[o] = r})

\* metrics_summary
Metrics == [placed    |-> Cardinality({o \in Orders : row[o] # "none"}),
            confirmed |-> Count("CONFIRMED"), failed |-> Count("FAILED")]

Newest(rows, n) == SubSeq(rows, 1, IF Len(rows) < n THEN Len(rows) ELSE n)

\* FROM outbox ORDER BY id DESC LIMIT ...
RecentEvents == Newest(feed, EventLimit)

\* FROM orders ORDER BY created_at DESC LIMIT ...
RecentOrders ==
  Newest([i \in 1 .. Len(ByAge) |-> [order |-> ByAge[i], row |-> row[ByAge[i]]]], OrderLimit)

Current(part) ==
  CASE part = "metrics" -> Metrics
    [] part = "events"  -> RecentEvents
    [] part = "orders"  -> RecentOrders

Present == [metrics |-> Metrics, events |-> RecentEvents, orders |-> RecentOrders, down |-> Unhealthy]

Nothing  == [metrics |-> [placed |-> 0, confirmed |-> 0, failed |-> 0], orders |-> <<>>,
             events |-> <<>>, down |-> Unhealthy]
NoView   == [Nothing EXCEPT !.down = {}]
Idle     == [step |-> "idle", got |-> {}, snap |-> Nothing]
NoChat   == [step |-> "idle", q |-> 0, local |-> {}, said |-> {}]

\* Mutant of Before: the orders are read before the events.
BeforeSwapped(part) ==
  IF path = "operations" THEN {}
  ELSE CASE part = "metrics" -> {} [] part = "orders" -> {"metrics"}
         [] OTHER -> {"metrics", "orders"}

\* build_context reads its parts one after the other; Operations asks for
\* its parts at once.
Before(part) ==
  IF path = "operations" THEN {}
  ELSE CASE part = "metrics" -> {} [] part = "events" -> {"metrics"}
         [] OTHER -> {"metrics", "events"}

Parts == IF path = "operations" THEN {"metrics", "events"} ELSE {"metrics", "events", "orders"}

IsAdmin(u) == u \in Admins

\* The pages as they mount: the demo has its snapshot at once.
MountConsole(p) ==
  /\ loads' = [i \in 1 .. MaxLoads |-> Idle]
  /\ view' = IF p = "demo" THEN buildDemoContext ELSE NoView
  /\ error' = FALSE
  /\ chat' = NoChat

Event(o, t) == [order |-> o, type |-> t]

\* The outbox rows of order o that one transaction adds, newest first: one, or
\* the release and then the failure.
Added(o, T) ==
  IF T = {"ReleaseInventory", "OrderFailed"}
  THEN <<Event(o, "OrderFailed"), Event(o, "ReleaseInventory")>>
  ELSE <<Event(o, CHOOSE t \in T : TRUE)>>

\* The orders have been placed, and Past found no stock.
ConsoleInit ==
  /\ row = [o \in Orders |-> IF o = Past THEN "FAILED" ELSE "PENDING"]
  /\ log = [o \in Orders |->
              IF o = Past THEN {"OrderCreated", "InventoryFailed", "OrderFailed"} ELSE {"OrderCreated"}]
  /\ feed = (IF Past = 0 THEN <<>> ELSE <<Event(Past, "OrderFailed"), Event(Past, "InventoryFailed")>>)
            \o [i \in 1 .. Len(ByAge) |-> Event(ByAge[i], "OrderCreated")]
  /\ loads = [i \in 1 .. MaxLoads |-> Idle]
  /\ view = NoView /\ error = FALSE /\ chat = NoChat

\* A request that fails counts among the acts, which bounds them.
Fault == Act /\ UNCHANGED <<accounts, auth, form, user, stored, meddled, path>>

-----------------------------------------------------------------------------
(* orders move on: each transaction adds its events to the outbox *)

OrderStep(o) ==
  /\ Progress(o)
  /\ feed' = Added(o, log'[o] \ log[o]) \o feed
  /\ UNCHANGED <<sessionVars, consoleVars>>

-----------------------------------------------------------------------------
(* loading *)

Send == [Idle EXCEPT !.step = IF IsAdmin(stored) THEN "reading" ELSE "refused"]

\* Mutant of StartLoad: the interval is cleared by the first error.
StartUntilError(i) ==
  /\ path \in Consoles /\ loads[i] = Idle /\ ~error
  /\ loads' = [loads EXCEPT ![i] = Send]
  /\ UNCHANGED <<sessionVars, serverVars, view, error, chat>>

\* On mount, and every five seconds; a load that begins before the last has been
\* answered counts among the acts.
StartLoad(i) ==
  /\ path \in Consoles /\ loads[i] = Idle
  /\ IF \A j \in DOMAIN loads : loads[j] = Idle THEN UNCHANGED acts ELSE Act
  /\ loads' = [loads EXCEPT ![i] = Send]
  /\ UNCHANGED <<accounts, auth, form, user, stored, meddled, path,
                 serverVars, view, error, chat>>

\* One statement of order-service.
ReadPart(i, part) ==
  /\ loads[i].step = "reading"
  /\ part \in Parts \ loads[i].got /\ Before(part) \subseteq loads[i].got
  /\ loads' = [loads EXCEPT ![i].got = @ \cup {part}, ![i].snap[part] = Current(part)]
  /\ UNCHANGED <<sessionVars, serverVars, view, error, chat>>

HearLoad(i) ==
  /\ loads[i].step = "reading" /\ loads[i].got = Parts
  /\ view' = loads[i].snap
  /\ error' = FALSE
  /\ loads' = [loads EXCEPT ![i] = Idle]
  /\ UNCHANGED <<sessionVars, serverVars, chat>>

LoadEnds(i) == error' = TRUE /\ loads' = [loads EXCEPT ![i] = Idle]

\* No admin's token: 401 or 403.
LoadRefused(i) ==
  /\ loads[i].step = "refused"
  /\ LoadEnds(i)
  /\ UNCHANGED <<sessionVars, serverVars, view, chat>>

LoadFails(i) ==
  /\ loads[i].step = "reading" /\ Fault
  /\ LoadEnds(i)
  /\ UNCHANGED <<serverVars, view, chat>>

-----------------------------------------------------------------------------
(* the conversation *)

\* Without a snapshot the hook says so itself.
Local(q) == IF view = NoView THEN NotEnough ELSE RunCopilot(q, view)

\* One question at a time.  With an LLM it goes to order-service, and the
\* snapshot at hand is kept for the case that the request fails.
Ask(q) ==
  /\ path \in {"copilot", "demo"} /\ chat.step = "idle"
  /\ Act
  /\ chat' = IF path = "copilot" /\ LLM /\ view # NoView
               THEN [step |-> IF IsAdmin(stored) THEN "query" ELSE "refused",
                     q |-> q, local |-> Local(q), said |-> {}]
               ELSE [NoChat EXCEPT !.step = "reveal", !.said = Local(q)]
  /\ UNCHANGED <<accounts, auth, form, user, stored, meddled, path,
                 serverVars, loads, view, error>>

Reply(S) == chat' = [NoChat EXCEPT !.step = "reveal", !.said = S]

\* What the LLM answers, or, if it fails, order-service's own rules.  (The
\* query reads a snapshot like a load does; here it reads it at once.)
QueryAnswered ==
  /\ chat.step = "query"
  /\ Reply({Say("llm-text", 0)}) \/ Reply(RuleAnswer(chat.q, Present))
  /\ UNCHANGED <<sessionVars, serverVars, loads, view, error>>

QueryLost == \/ chat.step = "refused" /\ UNCHANGED sessionVars
             \/ chat.step = "query" /\ Fault

\* Mutant of QueryFails: the error is not caught.
QueryRaises ==
  /\ QueryLost
  /\ chat' = NoChat
  /\ UNCHANGED <<serverVars, loads, view, error>>

\* The request fails: the answer comes from the snapshot of the question's time.
QueryFails ==
  /\ QueryLost
  /\ Reply(chat.local)
  /\ UNCHANGED <<serverVars, loads, view, error>>

\* Block by block; then the next question may be asked.
Reveal ==
  /\ chat.step = "reveal"
  /\ chat' = [chat EXCEPT !.step = "idle"]
  /\ UNCHANGED <<sessionVars, serverVars, loads, view, error>>

ConsoleNext ==
  \/ \E o \in Orders : path \in Consoles /\ OrderStep(o)
  \/ \E i \in 1 .. MaxLoads : StartLoad(i)
  \/ \E i \in 1 .. MaxLoads, part \in Parts : ReadPart(i, part)
  \/ \E i \in 1 .. MaxLoads : HearLoad(i)
  \/ \E i \in 1 .. MaxLoads : LoadRefused(i)
  \/ \E i \in 1 .. MaxLoads : LoadFails(i)
  \/ \E q \in Asked : Ask(q)
  \/ QueryAnswered
  \/ QueryFails
  \/ Reveal

-----------------------------------------------------------------------------
(* what is rendered of a snapshot: nothing before the first *)

\* Operations: health, metric cards and the recent events.
OperationsPage(s) ==
  [services |-> s.down, placed |-> s.metrics.placed, failed |-> s.metrics.failed,
   rate |-> SuccessRate(s.metrics), events |-> s.events]

\* The panel beside the copilot's conversation.
ContextPanel(s) ==
  [healthy |-> s.down = {}, placed |-> s.metrics.placed, rate |-> SuccessRate(s.metrics),
   events |-> Newest(s.events, 6)]

Rendered(s) ==
  IF s = NoView               THEN [loading |-> TRUE]
  ELSE IF path = "operations" THEN OperationsPage(s)
  ELSE ContextPanel(s)

-----------------------------------------------------------------------------
(* Correctness *)

\* What is said of a failure, and of a success.
FailWords == {"is-FAILED", "turned-FAILED", "not-charged"}
PaidWords == {"is-CONFIRMED", "turned-CONFIRMED", "charged"}

\* The prompts of a page with a copilot, once it has a snapshot.
Askable == IF path \in {"copilot", "demo"} /\ view # NoView THEN Prompts(Orders) ELSE {}

\* Everything the copilot says or could be asked to say: its last answer, and
\* what either engine makes of the snapshot at hand.
Statements == chat.said \cup UNION {RunCopilot(q, view) \cup RuleAnswer(q, view) : q \in Askable}

\* The two halves of a lifecycle answer, the status from the orders and the
\* steps from the events, are read at different times, but no step is told
\* that the status has not caught up with: the events are read first.
StatusFitsSteps ==
  \A q \in Askable :
    LET A == RunCopilot(q, view)
    IN  \A s \in A :
          /\ s.says = "turned-CONFIRMED" => Say("is-CONFIRMED", s.of) \in A
          /\ s.says = "turned-FAILED" => Say("is-FAILED", s.of) \in A

\* What the copilot says of an order's outcome is not refuted by the order, now
\* or later, however old the snapshot or the answer is.
OutcomesHold ==
  \A s \in Statements :
    s.of \in Orders =>
      /\ s.says \in FailWords => row[s.of] # "CONFIRMED"
      /\ s.says \in PaidWords => row[s.of] # "FAILED"

\* What the customer's assistant says of the order at this moment.
ToldCustomer(o) ==
  UNION {Customer!RunCustomerAssistant(q, [order |-> o, row |-> row[o], log |-> log[o]])
         : q \in Customer!Prompts}

\* The admin's copilot and the customer's assistant never tell opposite stories
\* about a payment: two engines, fed by different reads at different times.
OneStory ==
  \A s \in Statements :
    s.of \in Orders =>
      /\ s.says = "charged" => "not-charged" \notin ToldCustomer(s.of)
      /\ s.says = "not-charged" => "charged" \notin ToldCustomer(s.of)

\* A console shows the present state.
Fresh == Rendered(view) = Rendered(Present)

\* A console that stays open in a tab whose stored user is an admin ends up
\* showing the present state without an error, whatever answers failed, were
\* refused or passed each other before.
CatchesUp ==
  <>[](path \in Consoles /\ IsAdmin(stored)) => <>[](Fresh /\ ~error)

\* Every question is answered, and the input freed for the next, although the
\* request for the answer may fail or be refused; unless the page is left or
\* mounted afresh, which leaves no question.
Answered ==
  chat.step # "idle" ~>
    chat.step = "idle" /\ (chat.said # {} \/ path # "copilot" \/ view = NoView)

-----------------------------------------------------------------------------
(* The inductive invariant behind what the copilot says *)

\* An order whose payment is known to have failed, or to have been made.
Uncharged(o) == row[o] = "FAILED" \/ "PaymentFailed" \in log[o]
Charged(o)   == row[o] = "CONFIRMED" \/ "PaymentCompleted" \in log[o]

\* Statements that the orders bear out.
Truthful(S) ==
  \A s \in S :
    s.of \in Orders =>
      /\ s.says \in FailWords => Uncharged(s.of)
      /\ s.says \in PaidWords => Charged(s.of)

\* A snapshot may be old, but its verdicts and events are the orders' own, and
\* no event is ahead of the row beside it.
SnapInv(c) ==
  /\ DOMAIN c.orders \subseteq Nat
  /\ \A x \in Range(c.orders) :
       /\ x.row \in Verdicts \cup {"PENDING"}
       /\ x.order \in Orders /\ x.row \in Verdicts => row[x.order] = x.row
       /\ \A e \in Range(c.events) :
            e.order = x.order =>
              /\ e.type = "OrderConfirmed" => x.row = "CONFIRMED"
              /\ e.type = "OrderFailed" => x.row = "FAILED"
  /\ \A e \in Range(c.events) :
       /\ e.type \in LogTypes
       /\ e.order \in Orders => e.type \in log[e.order]
  /\ c.down \subseteq Services

\* A load has read the orders last, or, for Operations, not at all.
LoadInv(l) ==
  /\ l = [step |-> l.step, got |-> l.got, snap |-> l.snap]
  /\ l.snap = [metrics |-> l.snap.metrics, orders |-> l.snap.orders,
               events |-> l.snap.events, down |-> l.snap.down]
  /\ SnapInv(l.snap)
  /\ "orders" \in l.got => "events" \in l.got /\ path # "operations"
  /\ "orders" \notin l.got => l.snap.orders = <<>>

\* The orders have been placed, and the outbox holds events of theirs.
OrdersInv ==
  /\ row \in [Orders -> Verdicts \cup {"PENDING"}] /\ log \in [Orders -> SUBSET LogTypes]
  /\ \A o \in Orders : LogInv(o)
  /\ feed \in Seq([order : Orders, type : LogTypes])
  /\ \A e \in Range(feed) : e.type \in log[e.order]

LoadsInv ==
  /\ loads = [i \in 1 .. MaxLoads |-> loads[i]]
  /\ \A i \in 1 .. MaxLoads : LoadInv(loads[i])

\* What has been said stays true, and so does what will be said if a query fails.
ChatInv == Truthful(chat.said) /\ Truthful(chat.local)

ConsoleInv == OrdersInv /\ LoadsInv /\ SnapInv(view) /\ ChatInv

=============================================================================

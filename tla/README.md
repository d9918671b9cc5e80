# A TLA+ model of FlowCommerce

FlowCommerce is a small shop: six Python services around PostgreSQL and Kafka and a React
frontend. What makes it hard is one sentence: an order is decided by services that never call
each other, over at-least-once messages, with a card charge in the middle, while customers and
admins look on through pages that read, wait and read again. This project models the services and
the pages, checks them with TLC and proves their safety with TLAPS.

## 1. The system

| Component | State | Operations | Modelled by |
|---|---|---|---|
| order-service saga (`order_service/main.py`) | `orders.status`, `processed_events` | handlers of payment.completed, payment.failed, inventory.failed | `OrderSaga` |
| order-service checkout | `orders`, `order_items`, outbox rows | payment-intent, POST /orders with Idempotency-Key | `Storefront` (requests), `Shop` (sums), `OrderSaga` (insert) |
| order-service reads | none | list, detail, context, metrics, events, health | `OrderPages`, `Console` |
| operations copilot backend (`copilot.py`) | none | context, LLM call, rule engine | `OpsCopilot`, `Console` |
| inventory-service | `inventory`, `processed_events` | reserve (savepoint), refuse, release | `OrderSaga`, `StockRows` (row locks) |
| payment-service | none (simulated) / claim and outbox (Stripe) | `_handle_fake`, `_handle_stripe` | `OrderSaga`, `StripeSaga` |
| stripe-webhook-service | none | Stripe notification to Kafka | `StripeSaga` |
| notification-service | none | one mail per verdict event | `OrderSaga` |
| outbox and poller (`shared/outbox.py`) | `outbox` | fetch and lock, send, mark, commit, roll back | `Outbox`, `AtLeastOnce` |
| consumer loop (`shared/kafka_utils.py`) | committed offsets, dlq topic | fetch, handle, retry, dead-letter, commit | `Consumer` |
| catalog-service, admin product form | `products`, `inventory.available` | create, update, deactivate, delete | `Catalog`, `Storefront` |
| products page, cart, checkout page | React state, PaymentIntent | list, fill, hand over, create intent, confirm card, send order | `Shop`, `Storefront`, `StripeSaga` |
| auth-service, AuthProvider, routes | `users`, React state, localStorage | register, login, logout, reload, other tabs | `Session` |
| order pages | React state | polling, timeline, payment panel | `OrderPages` |
| customer's order assistant | React state | context per path, rule engine | `CustomerCopilot`, `OrderPages` |
| operations console, copilot page | React state | interval loads, questions, rule engine | `Console`, `OpsCopilot`, `DemoData` |
| observability, settings, deployment | none | metrics, logs, health | not modelled (section 6) |

Components interact only through the database (shared tables), Kafka topics fed from the outbox
(and, for the simulated payment and the webhook, directly), and HTTP from the browser. The
hard behaviours are: re-delivery after a crash between a commit and the offset commit; re-sending
after a crash between a send and its mark; contradictory or late payment events; two orders and
an admin competing for the same stock rows; a stop between Stripe's charge and the database; a
rebalance in the middle of a handler; messages that no retry can save; and, in the browser,
answers that arrive after the page, the user or the order has changed, and snapshots put together
from statements at different moments. `PROJECT.json` lists them under `hazards`, each at its line,
with the properties that cover it.

## 2. The modules

### The services

* **`OrderSaga`** is the core. One database transaction is one action, guarded and framed as in
  the code: the claim in `processed_events`, the conditional `UPDATE`, the outbox rows. What a
  crash can do is in two Boolean parameters: `acked = FALSE` leaves the message to be delivered
  again, `marked = FALSE` leaves the outbox row to be sent again. `inbox` is a set, because topics
  are separate logs and three pollers drain the outbox: across topics there is no order. An event
  is a record of type, order and a counter that stands for its fresh `event_id`; `made` counts how
  many have ever been created and is the only history in the model. `validated` is the program
  counter between the stock check and the insert in POST /orders.
* **`OrderLifecycle`** says what the saga promises without events: an order is placed, its stock
  is held or refused, it is confirmed or fails, the stock of a failed order goes back.
  **`OrderSagaRefinement`** shows that `OrderSaga` implements it, with the refinement mapping
  `stage <- status`, `free <- available` and `hold` read off inventory-service's events.
* **`StripeSaga`** extends `OrderSaga` and replaces the simulated payment by Stripe mode: a
  PaymentIntent per idempotency key, Stripe's answer held in memory between the call and the
  transaction (`answers`), the random test card of every attempt, the webhook with its own
  repetitions (`hooks`), and browser-paid orders (`Prepaid`) charged before they are posted.
* **`Outbox`** opens up the relay step of `OrderSaga`: pollers with row locks and one transaction
  per batch. It implements **`AtLeastOnce`**, the contract `OrderSaga`'s `Relay` relies on.
* **`Consumer`** opens up the delivery step: `run_consumer` on one partition, with rebalances,
  crashes, retries and the dead-letter topic. An exception may leave it from its start, from
  `Event()`, from the dead-letter send and from the commit. What that ends is in `awaited`, chosen
  in `Init`: three services await `run_consumer`, so their process ends and is started again; in
  order-service it is a task of its own, which is over (`"ended"`) while the process stays up. Its invariants are what `acked` and `DeadLetter` in
  `OrderSaga` assume: nothing is acknowledged undone, only exhausted messages are given up.
* **`StockRows`** opens up `ReserveStock`, `RefuseStock` and `ReleaseStock`: several instances of
  inventory-service, each with its transaction of single statements, the locks of the rows
  (`queue`, the holder first), the claim that a second instance waits for, the savepoint, the
  transactions PostgreSQL aborts in a deadlock, and the retries that follow. A line's UPDATE is in two
  steps, because a row that had to be waited for is looked at again. It implements **`StockSteps`**, one
  inventory-service with atomic transactions, which is how `OrderSaga` has it. There, too, a refusal is
  in two steps: the stock is seen to fall short, and the refusal is committed later, when it may no
  longer do so.
* **`Catalog`** is catalog-service and the admin form; **`Storefront`** composes it with checkout
  visits, the three database steps of POST /orders and, in place of the saga, `OrderLifecycle`
  (instantiated over the `available` column both write).

### The reads

* **`OrderLog`** is the bridge: what a read of order-service can see of an order, its `row` and the
  types of its outbox rows (`log`), and how the two may grow. `StripeSaga` implements it
  (`ImplementsOrderLog`), so whatever holds of the pages over `OrderLog` holds of them over the
  saga with its brokers, claims and repetitions.
* **`OrderPages`** extends it by the customer's tab: the list, the detail page with its polling
  chains (`polls`), navigation by links (a new page) and by the history between two orders (the
  same page: a jump), and the floating assistant's context request (`fetch`), which reads the row
  and the events in two statements. `Timeline` and `Payment` are what the page derives from the
  status alone. **`CustomerCopilot`** is the assistant's rule engine, pure operators: a question is
  the set of patterns it matches, an answer the set of statements it makes.
* **`Session`** is auth-service (`register` in its two statements, `login`), the forms with their
  late answers, the guarded routes, and the two copies of the signed-in user: AuthProvider's, and
  the one in localStorage that requests are sent with and other tabs write.
* **`Shop`** extends it by the four computations of one sum (the cart's, the PaymentIntent's, the
  charge with Stripe's minimum, the order's) under price edits.
* **`Console`** extends `Session` and `OrderLog` by the Operations page and the AI Copilot page:
  loads every five seconds that overlap, fail or are refused, snapshots read part by part, questions
  answered by order-service or, if that fails, in the browser. **`OpsCopilot`** is the rule engine,
  in its two versions, and **`DemoData`** the fixtures of its demo.
* **`Frontend`** composes `Shop` and `Console` over one `Session`: one tab, one page at a time, a
  page that is left unmounts.

### Proofs and instances

`SagaProofs`, `OutboxProofs`, `ConsumerProofs`, `StockRowsProofs`, `StorefrontProofs`,
`OrderPagesProofs` and `FrontendProofs` hold the theorems, **`Sums`** the lemmas about sums over a
set of orders that three of them need (section 5).
`MCOrderSaga`, `MCStripeSaga`, `MCOutbox`, `MCConsumer`, `MCStockRows`, `MCStorefront` and
`MCFrontend` give the instances;
`OrderPages` needs none. Definitions headed "Mutant of ..." are faulty variants used to confirm
that each property can fail; no specification uses them.

## 3. The runs

| Run | Shows | Bounds and why they are enough |
|---|---|---|
| `saga` | the inductive invariant, stock held by confirmed orders, one verdict, exact compensation, the stock ledger, mails that agree; every order without a dead-lettered message is decided and failed orders give their stock back; refinement of `OrderLifecycle` | 2 orders, 2 SKUs; o2 wants 2 and 1 of stock 3 and 1, so either order can lose and a reservation can fail on its second line; 2 re-deliveries or re-sends (two are needed for a contradictory second outcome that is itself repeated), 1 dead letter. The proofs lift its safety to any size. |
| `saga_dead_letter` (violated) | one dead-lettered message leaves an order PENDING | 1 dead letter |
| `stripe` | at most one charge, agreeing outcomes, charge, verdict and stock agree; a charge is confirmed even if payment-service never commits again; refinement of `OrderLog` | one order of each payment path and one unit; 1 repetition, 1 dead letter of the reservation. The proofs lift its safety to any size. |
| `stripe_no_charge` (violated) | the failure mail's "No charge has been made" for a card charged in the browser | no repetition needed |
| `outbox` | copies only from rolled back batches, all rows published, refinement of `AtLeastOnce` | 3 rows, batches of 2, 2 pollers, 2 rolled back batches: full and partial batches, both pollers at once |
| `consumer` | nothing acknowledged undone; all before a poison message done, unless the service is order-service and the tasks of all its instances have ended | 2 instances, 3 messages (the last one poison), 1 retry, 5 faults: enough to exhaust a message, rebalance, lose both instances' commits and crash; both kinds of service |
| `consumer_poison` (violated) | a message `Event()` rejects is never dead-lettered | no faults needed |
| `stock_rows` | the committed stock is what the answers say, refinement of `StockSteps` (atomic reservations, one answer per order), every message is handled or dead-lettered | 2 instances; 3 carts over 2 products, one in the opposite order; stock for 2 of them in one product; releases; 1 retry, so that two deadlocks in a row do dead-letter a message; 1 crash or rebalance. The proofs lift its safety to any size. |
| `storefront` | one order per key, consistent replays, one order for a paid visit, stock moved only by orders and saved forms | a checkout page and two clients with one key and two customers; the page, which is charged before it sends, and one client may try twice, so that an answer is lost after the order was placed; 3 requests in all; 1 unit, 1 catalog request. The proofs lift it to any number of requests. |
| `storefront_oversell` (violated) | a saved form puts a reserved unit on sale again | same |
| `order_pages` | a page shows its own order, contexts follow the path, verdicts are backed by their events, what the assistant says of an outcome is true and stays so, timelines are true but for the reservation of a refused order, shown verdicts stay, an open page ends up with the verdict or an error, or asks again and again | 2 orders, one of which may be decided before; 3 path changes (there, to the other order, and back with the first answers still under way) and 1 failing request. Every prompt of the panel is asked in every state. |
| `frontend` | requests in the name of the user shown, sums that agree, copilot answers that are true and stay so, one story in both assistants, consoles that catch up, questions that are answered and the input freed | an admin and a customer, 2 acts (two registrations or sign-ins that overlap, another tab, a price edit, a failing request), 2 prices around Stripe's minimum, 2 orders, one failed before, 2 loads under way at once, snapshots of 3 events and 2 orders (the orders' lives have more events, so they are cut between the two rows of one transaction), one service down; the undecided order logs its payment, so the consoles tell of it that it was charged and, in other behaviours, that it was not |

Every bound is a constant: `MaxDups`, `MaxDead` (`OrderSaga`), `MaxAborts` (`Outbox`),
`MaxFaults` (`Consumer`, `StockRows`, `OrderPages`), `MaxTries`, `MaxRequests`, `MaxEdits` (`Storefront`, `Catalog`),
`MaxMoves` (`OrderPages`), `MaxActs`, `MaxQty`, `MaxLoads`, `EventLimit`, `OrderLimit` (`Frontend`;
the last two are the code's own LIMITs). They only limit how often something goes wrong or is tried.
`CHECK_DEADLOCK FALSE` is set because a shop with all orders decided and all messages consumed
really stops, and because nobody has to click.

### Disagreements found

* `src/README.md:154` says Kafka re-delivers an event until it succeeds. After `max_retries + 1`
  attempts (about 1.4 s) `run_consumer` dead-letters and acknowledges it and nothing reads `dlq`:
  the order stays PENDING and its stock reserved.
* `src/README.md:98` says poison messages reach the dead-letter topic; one that `Event()` rejects
  ends the consumer instead, and again after each restart.
* The failure mail says no charge has been made; for a browser-paid order that fails in the
  inventory one has.
* `src/README.md:454` says stock at zero is never oversold; saving an admin form opened earlier
  puts reserved units on sale again.

Seen while modelling, without a run of their own:

* Claims: `src/README.md:158` says every consumer claims an event before doing any work.
  `_handle_fake` does not: a repeated reservation draws a second, possibly different outcome. That
  is harmless for the order only because of the guarded `UPDATE`s (`ConfirmedHoldsStock`,
  `ImplementsLifecycle`).
* Documents: `docs/architecture.md:19` has InventoryFailed trigger a release (the code releases
  nothing, rightly: `CompensationExact`); the topic is `inventory.release`, not `release.inventory`;
  `copilot.py:187` "mirrors" the frontend's engine but answers three questions differently
  (`RuleAnswer` against `RunCopilot`).
* Order-service's consumer: `order_service/main.py:217` starts `run_consumer` as a task and awaits it
  nowhere. An exception that leaves it (a commit after the partition has moved, a dead-letter send
  or a start without a broker, a poison message) ends it silently: the process stays up, `/health` looks at
  PostgreSQL, Kafka and Redis only, and no order is decided until the process is restarted. The other services
  await theirs and are restarted. `AllDone` makes the exception explicit, and all liveness of the
  sagas presumes that it has not happened.
* Deadlocks: customers' carts list products in any order and the lines are updated in that order
  (`inventory_service/main.py:48`), so two instances can deadlock. PostgreSQL and the retries
  resolve it (`Settled`), but a message that loses to `max_retries + 1` rivals in a row is
  dead-lettered for nothing else; updating the rows in SKU order would avoid it.
* Order pages: polling ends at the first request that fails and never resumes, so `VerdictShown`
  promises a verdict or an error of a decided order; of one that stays PENDING (its message was
  dead-lettered, say) the page asks for ever. After a jump between two orders a late answer of the first
  replaces the second (`OrderDetail.tsx:80`): nothing cancels the request. No document promises
  otherwise, so no run refutes one; `ShowsItsOrder`, `ShownIsFinal` and `VerdictShown` are
  about pages that were opened, not jumped to. While a new context loads, the assistant answers from
  the earlier path's.
* Timelines: `buildTimeline` (`OrderDetail.tsx:17`) sees the status only. For an order the inventory
  has refused it ticks off "Inventory Reserved" and goes on to "Payment Failed" and "Reserved
  inventory has been released"; nothing was reserved, asked for or released. `TimelineTrue` excepts the
  tick, and of the payment it says only that no record contradicts the page.
* Assistants: the customer's says "Completed in" of a pending order
  (`customer-copilot/engine.ts:197`); a failed fetch leaves it saying there is no order yet
  (`floating.ts:40`); it answers "No charge was made" of a browser-paid order refused by the
  inventory, too (`AnswersHold` is about what the log of the order says; `stripe_no_charge` shows the charge);
  its general text on charging (`floating.ts:127`) is false of browser-paid
  orders. The operations engine takes another order when the one named is not listed
  (`ResolveOrder`), and names a declined card and released stock for an order refused by the
  inventory.
* Sums: a total under 50 cents is charged 50 while the page shows less (`ChargedAtOnePrice` allows
  it by `MinCharge`); an order placed after a price edit is billed at a sum that is neither the one shown
  nor the one charged, since `create_order` reads the price again (`order_service/main.py:343`); the fall-back form may show no sum at all. The demo's success rate does not
  follow the server's formula (16 of 18 is not 96 %).
* A reload loses the copilot's conversation, with the question still open (`Answered` then promises
  the free input only).

## 4. Fairness

`OrderSaga`: weak fairness of the relay (each poller is an endless loop that catches every
exception) and of each consumer group's successful delivery (an endless loop; a crashed service is
restarted by the platform). This presumes that order-service's consumer, which nothing restarts on
its own, has not ended (`Consumer`). Fairness is per group: within a topic any waiting message may go first.
It covers only the acknowledged, marked variants: failures are possible but not required, and their
number is bounded. Nothing is assumed of customers. `StripeSaga` assumes the same of all services
but payment-service, which may fail for ever, and that Stripe repeats a notification until it is
acknowledged. `Outbox`: weak fairness of each poller's own loop. `Consumer`: of each instance's loop, of
the broker assigning a free partition, and of the start of a process that is down; never of a process that
is up with its consumer's task ended. `StockRows`: each instance goes on (inventory-service awaits its
consumer, so a process that ends is started again),
each message that nobody works on is fetched, and PostgreSQL looks for deadlocks. `Storefront` is
safety only.

`OrderPages`: each polling chain's request is answered or fails and its timer fires. Nothing is
assumed of the orders, which may stay pending, or of the assistant's requests. `Frontend`: the interval
fires, loads and questions are answered, some loads before others, and answers are revealed. Orders
need not be decided. The first interval load counts only when none is under way, so loads may pass each
other for ever; failures need no fairness, as they are bounded. Nobody has to click.

## 5. The proofs

All of it for any constants within the named assumptions: any set of orders, SKUs, instances,
pollers, rows, requests or emails, any quantities and any number of faults. No property is inductive by
itself; each module proves one inductive invariant, one lemma per action, and draws the properties
from it.

* **`SagaProofs`**, simulated mode: `SagaInvariant`, and from it `TypeCorrect`, `AnsweredOnce`,
  `ConfirmedKeepsStock`, `VerdictUnique`, `CompensationIsExact`, `StockIsConserved`, `MailsAgree`,
  the action property `VerdictIsFinal` and the refinement `SagaImplementsLifecycle`. That an order
  is answered once, for instance, depends on the claim: `OrderInv` ties the sum of the two answers
  to `Creation(o) \in processed`, which needs that only one OrderCreated event exists for an order,
  which needs that everything stored, in flight, claimed or dead-lettered was once created
  (`EventsExist`: its number is below the counter in `made`), so that a fresh event is never among
  the claimed ones. That a payment outcome implies a reservation, and hence that a failed order
  without one needs no compensation, follows along the chain of causes. `LedgerIsKept`: what is
  reserved of a product is the sum over the orders that hold stock. The set of those orders changes
  only when a reservation or a release is committed, by one order, and `SagaInv` says that this
  order was not, or was, in the set.
* **`SagaProofs`**, Stripe mode: `StripeInvariant` (one intent per key; answers held in memory, hooks
  and payment events in flight are outcomes of intents; verdicts rest on them), from it
  `ChargesAtMostOnce`, `OutcomesNeverConflict`, `ChargeAgreesWithOrder`, and the refinement
  `StripeKeepsLog`. Actions that only move events or touch other orders are handled once
  (`Advances`), so that each remaining lemma is about one order. `StripeImplementsLifecycle` and
  `StripeLedgerIsKept` carry the simulated mode's refinement and ledger over: the steps the modes
  share are steps of `OrderSaga`, and what Stripe, payment-service and the webhook add moves no stock.
* **`OutboxProofs`**: `OutboxInvariant` (locks are exclusive, a batch is sent in order, what is
  marked was sent), `CopiesAreBounded`, `PublishedStaysSent` (a theorem only), and the refinement
  `PollersRelay`.
* **`ConsumerProofs`**: `ConsumerInvariant` (all an owner has fetched is handled or dead but the
  message it is working on), whether the service awaits its consumer or not, `NothingIsSkipped`, and `DeadLettersExhausted`: a message is
  dead-lettered only after `max_retries + 1` attempts in a row.
* **`StockRowsProofs`**: `ClaimsHold` (one transaction at work on a message at a time, none once it
  is claimed, an answer only with the claim) and `OneAnswer`: two instances that get the same event
  at once never both answer it, whatever deadlocks and crashes come between. `LocksHold` is about the
  rows: a transaction queues for a row once, holds every row it has updated until it ends, and the
  committed `available` of a row held by a reservation still covers its line, since nobody else can
  commit a change to it. From it `RowsAddUp`: a commit writes to each product exactly what its order
  takes or returns, so that the committed columns are the sums over the orders that hold stock, and
  none is negative. `StepsAreAtomic`, from the same invariants, is the refinement of `StockSteps`, with
  the mapping `stageOf` from an order's answers (two of them would be a stage of its own, which
  `StockSteps` does not have) and from who is about to refuse it.
* **`StorefrontProofs`**: `StorefrontInvariant` (what the steps of a request have found still holds,
  or the UNIQUE index will refuse it; a visit's requests share its key), `KeysPlaceOneOrder`,
  `ReplaysAgree`, `PaidVisitsOrderOnce`, and the action property `StockIsTheAdmins`: whatever
  checkouts and sagas run, `available` plus the units that orders hold changes only in a step of an
  admin.
* **`OrderPagesProofs`**: `PagesInvariant` (a row's verdict is always backed by the log, and what an
  earlier read saw is contained in what is there now), `ShowsOwnOrder`, `ContextIsCurrent`,
  `VerdictsAreBacked`, `TimelineIsTrue` (a verdict in the row tells which events the log must have), `AnswersAreKept` (of every question, not only the panel's
  prompts) and the action property `ShownVerdictsStay`.
* **`FrontendProofs`**, sessions and sums: `FrontendInvariant`, `EmailsAreUnique` (however
  registrations overlap), `SessionsAgree`, `SumsAgree` (the checkout always has a cart, so a PaymentIntent
  never has total 0, which the page would replace by a sum of its own), and `PagesAreGuarded`: no page is shown to a
  user who may not see it, however late a sign-in is answered.
* **`FrontendProofs`**, consoles: `ConsoleInvariant`, and from it `StepsFitStatus`,
  `ToldOutcomesHold` and `OneStoryTold`, for any number of loads that pass each other and any age of
  a snapshot. The argument has three parts. The request reads the events before the orders, and both
  only grow towards a verdict, so no event in a snapshot is ahead of the row beside it (`SnapInv`;
  the copilot's page and Operations never share a load, `LoadInv`). A verdict or an event, once
  there, stays, so a snapshot's are the orders' own for ever. And an order that is `Charged` can
  never be `Uncharged` (`LogInv`), so what was true when it was said is never refuted (`ChatInv`,
  which also holds of the answer put aside in case the query fails). The engines are taken apart
  answer by answer (`FailureTrue`, `LifecycleTrue`, `PaymentsTrue`, `SystemTrue`): every statement
  about an outcome rests on a listed row or on an event, for both engines and every question.

**`Sums`** supplies what the ledgers need about `SumFunctionOnSet`, which the community modules
define by a fold: the sum over the empty set, what adding or removing one element does, that equal
functions have equal sums, and that the sum is a natural number. Induction over data is out of reach
as a theorem with an operator parameter, so these lemmas argue by descent instead: of the sets for
which a fact fails one is least in cardinality (`FiniteDescent`, from `LeastNatural`, both about sets
of counterexamples, which are ordinary first-order statements).

Only model-checked: all liveness (`DecidedUnlessDead`, `StockReturned`, `ChargeRecovered`, `AllPublished`,
`AllDone`, `Settled`, `VerdictShown`, `CatchesUp`, `Answered`), for which fairness and ENABLED would have to be
reasoned about. Every invariant, action property and refinement that a passing run checks is stated by
a theorem.

## 6. What is abstracted, and what is not modelled

Payloads, mail texts, wording, logging and metrics are left out; amounts appear only in `Shop`. An
order has at most one line per SKU with a natural quantity, as the browser's cart builds it.
PostgreSQL is taken to be atomic per transaction, but for `StockRows`
(where a refusal may commit after a release that came too late for it: `OrderSaga` commits it first,
which nothing can tell apart); Kafka keeps what it has acknowledged; Stripe
behaves as `StripeSaga` and `Storefront` describe: one PaymentIntent per idempotency key, an error
for the key with other parameters, an error for confirming a paid PaymentIntent again. The admin's
list is loaded when a form is opened; a longer wait with the list shown is a longer wait with the
form open. In `Storefront` requests take their key and cart from constants, as a client repeats
them unchanged. Questions are the patterns they match; answers are statements, of which the
properties know which an order's fate can refute. In `Frontend` orders move only while a console is
shown and prices while the shop is: no other page looks at them.

Not modelled:

* The LLM's answers: an external service, about whose text the code promises nothing.
* Low stock and slow orders in the copilot, average durations and money in the metrics,
  `/admin/stats` and the admin overview: figures computed from one read.
* The explorer's selected event (it stays as it was when clicked), paging of the order list (two
  quick clicks may be answered out of order, `Orders.tsx:19`): state of one page that nothing else
  reads.
* Landing and demo pages, message rendering, the API wrappers: presentation of one answer. Duration
  formatting: a conversion for display no property is about.
* `useCustomerCopilot`, `OrderAssistant`, `OrderJourney`: no page mounts them; their rule engine is
  `CustomerCopilot`.
* Observability, settings, deployment, dashboards, load and smoke tests: I/O, configuration and
  test drivers without state of the shop.
* Quantities below one, which POST /orders accepts and the browser never sends; the PENDING status
  of a replayed answer, a constant no document promises otherwise.

## 7. Plan

Done, in this order: `OrderSaga`, `OrderLifecycle` and refinement, their proofs, `StripeSaga`,
`Outbox` with `AtLeastOnce`, `Consumer`, `StockRows`, `Catalog` and `Storefront`; then the reads:
`OrderLog` with its refinement, `CustomerCopilot`, `OrderPages`, `Session`, `Shop`, `OpsCopilot`,
`DemoData`, `Console`, `Frontend`; and the proofs of all components.

Left: `Storefront` with carts of two products; the public demo pages.

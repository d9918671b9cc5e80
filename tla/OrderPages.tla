----------------------------- MODULE OrderPages -----------------------------
(***************************************************************************)
(* The customer's order pages in one browser tab: the list of orders, the  *)
(* detail page that polls its order, and the floating assistant that       *)
(* answers from a context fetched whenever the path changes.               *)
(*                                                                         *)
(* Every request is a read in order-service at one moment and an answer    *)
(* heard later; the order moves on in between.  The context endpoint reads *)
(* the row and the events in two statements.  Going from one order's page  *)
(* straight to another's (a jump in the history) keeps the page component; *)
(* any other way mounts a new one.  `moves' bounds the path changes,       *)
(* `faults' the requests that fail.                                        *)
(***************************************************************************)
EXTENDS OrderLog, CustomerCopilot

CONSTANTS
  Earlier,      \* orders that may have been decided, and looked at in this tab,
                \* before the behaviour starts
  MaxMoves, MaxFaults

\* Orders are numbered in the order they are placed.
ASSUME OrderAssumption ==
  /\ Orders \subseteq Nat \ {0} /\ Earlier \subseteq Orders
  /\ \A o \in Earlier, p \in Orders \ Earlier : o < p

VARIABLES
  path,         \* the order whose page is open, 0 for the list
  been,         \* orders whose pages are in the tab's history
  moves,        \* path changes so far
  polls,        \* polling chains of the mounted detail page
  jumped,       \* that page has been reused for another order
  shown,        \* the order the detail page has been told of
  error,        \* the detail page's error is set
  fetch,        \* context requests whose answers will be applied
  ctx,          \* ctxRef.current, with usedLatestRef.current
  faults        \* requests that have failed

pageVars   == <<path, been, moves>>
detailVars == <<polls, jumped, shown, error>>
chatVars   == <<fetch, ctx>>
vars == <<orderLog, pageVars, detailVars, chatVars, faults>>

List      == 0
Unknown   == [order |-> List, row |-> "none"]
NoCtx     == [latest |-> FALSE, of |-> NoContext]

Placed    == {o \in Orders : row[o] # "none"}
Newest    == {o \in Placed : \A p \in Placed : p <= o}

Poll(step, status)   == [chain |-> moves', order |-> path', step |-> step, row |-> status]
Fetch(o, latest, step) == [move |-> moves', order |-> o, latest |-> latest,
                           step |-> step, row |-> "none"]

-----------------------------------------------------------------------------
(* navigation *)

\* Mutant of Resolve: the effect's cleanup does not cancel the older request.
ResolveAll(p) ==
  fetch' = fetch \cup {Fetch(p, p = List, IF p = List THEN "list" ELSE "row")}

\* The assistant's effect: a new path cancels the request of the old one.  A
\* detail page asks for its order, any other page for the customer's latest.
Resolve(p) ==
  fetch' = {Fetch(p, p = List, IF p = List THEN "list" ELSE "row")}

Move(p) ==
  /\ moves < MaxMoves /\ p # path
  /\ moves' = moves + 1
  /\ path' = p
  /\ Resolve(p)
  /\ UNCHANGED <<orderLog, ctx, faults>>

\* Mutant of OpenOrder: a timer is set besides the first request.
OpenWithTimer(o) ==
  /\ path = List /\ o \in Placed
  /\ Move(o)
  /\ been' = been \cup {o}
  /\ polls' = {Poll("sent", "none"), Poll("timer", "none")}
  /\ UNCHANGED <<jumped, shown, error>>

\* "View" in the list, or the redirect of the checkout form: the page mounts
\* with its initial state.
OpenOrder(o) ==
  /\ path = List /\ o \in Placed
  /\ Move(o)
  /\ been' = been \cup {o}
  /\ polls' = polls \cup {Poll("sent", "none")}
  /\ UNCHANGED <<jumped, shown, error>>

\* A jump in the history: the page stays, its effect on [id] runs again.
JumpTo(o) ==
  /\ path # List /\ o \in been
  /\ Move(o)
  /\ polls' = polls \cup {Poll("sent", "none")}
  /\ jumped' = TRUE
  /\ UNCHANGED <<been, shown, error>>

\* Mutant of BackToList: the page stays mounted.
BackKeepsPage ==
  /\ path # List
  /\ Move(List)
  /\ UNCHANGED <<been, detailVars>>

\* The page unmounts and its state is gone; answers that its chains still get
\* reach no component.
BackToList ==
  /\ path # List
  /\ Move(List)
  /\ polls' = {}
  /\ jumped' = FALSE
  /\ shown' = Unknown
  /\ error' = FALSE
  /\ UNCHANGED been

-----------------------------------------------------------------------------
(* OrderDetail: polling *)

Fault == faults < MaxFaults /\ faults' = faults + 1

Advance(p, step, status) ==
  polls' = (polls \ {p}) \cup {[p EXCEPT !.step = step, !.row = status]}

\* GET /orders/{id} reads the row.
ReadOrder(p) ==
  /\ p \in polls /\ p.step = "sent"
  /\ Advance(p, "answered", row[p.order])
  /\ UNCHANGED <<orderLog, pageVars, jumped, shown, error, chatVars, faults>>

\* Mutant of HearOrder: a pending order is not asked for again.
HearOnce(p) ==
  /\ p \in polls /\ p.step = "answered"
  /\ shown' = [order |-> p.order, row |-> p.row]
  /\ polls' = polls \ {p}
  /\ UNCHANGED <<orderLog, pageVars, jumped, error, chatVars, faults>>

\* setOrder; a pending order is asked for again in two seconds.
HearOrder(p) ==
  /\ p \in polls /\ p.step = "answered"
  /\ shown' = [order |-> p.order, row |-> p.row]
  /\ IF p.row = "PENDING" THEN Advance(p, "timer", "none")
                          ELSE polls' = polls \ {p}
  /\ UNCHANGED <<orderLog, pageVars, jumped, error, chatVars, faults>>

\* setError; the chain ends and nothing clears the error.
PollFails(p) ==
  /\ p \in polls /\ p.step = "sent"
  /\ Fault
  /\ error' = TRUE
  /\ polls' = polls \ {p}
  /\ UNCHANGED <<orderLog, pageVars, jumped, shown, chatVars>>

TimerFires(p) ==
  /\ p \in polls /\ p.step = "timer"
  /\ Advance(p, "sent", "none")
  /\ UNCHANGED <<orderLog, pageVars, jumped, shown, error, chatVars, faults>>

\* Mutant of Timeline: the stock of a pending order is said to be reserved.
TimelineAhead(r) ==
  {[step |-> "OrderCreated", is |-> "done"], [step |-> "InventoryReserved", is |-> "done"],
   [step |-> "payment", is |-> "pending"], [step |-> "OrderConfirmed", is |-> "pending"]}

\* buildTimeline: derived from the status alone, so that every failure is told
\* as a failed payment after a reservation.
Timeline(r) ==
  LET last == CASE r = "CONFIRMED" -> "done" [] r = "FAILED" -> "failed" [] OTHER -> "pending"
  IN  {[step |-> "OrderCreated", is |-> "done"],
       [step |-> "InventoryReserved", is |-> IF r \in Verdicts THEN "done" ELSE "active"],
       [step |-> "payment", is |-> last],
       [step |-> IF r = "FAILED" THEN "OrderFailed" ELSE "OrderConfirmed", is |-> last]}

\* The payment panel, of orders paid through Stripe.
Payment(o, r) ==
  IF o \notin Logged THEN ""
  ELSE CASE r = "CONFIRMED" -> "Paid"
         [] r = "FAILED"    -> "Failed"
         [] OTHER           -> "Pending"

\* What is rendered: an error wins over the order, a pending order is said to
\* refresh by itself.
Blank(kind) == [kind |-> kind, steps |-> {}, payment |-> "", refreshing |-> FALSE]

View ==
  IF error                THEN Blank("error")
  ELSE IF shown = Unknown THEN Blank("loading")
  ELSE [kind |-> "order", steps |-> Timeline(shown.row),
        payment |-> Payment(shown.order, shown.row), refreshing |-> shown.row = "PENDING"]

-----------------------------------------------------------------------------
(* useFloatingCustomerAssistant *)

Becomes(f, g) == fetch' = (fetch \ {f}) \cup {g}

\* ordersApi.list(1, 0): the latest order, or none.
ReadLatest(f) ==
  /\ f \in fetch /\ f.step = "list"
  /\ IF Placed = {} THEN /\ fetch' = fetch \ {f}
                         /\ ctx' = NoCtx
                    ELSE /\ \E o \in Newest : Becomes(f, [f EXCEPT !.order = o, !.step = "row"])
                         /\ UNCHANGED ctx
  /\ UNCHANGED <<orderLog, pageVars, detailVars, faults>>

\* get_order_context, first statement: the row.
ReadRow(f) ==
  /\ f \in fetch /\ f.step = "row"
  /\ Becomes(f, [f EXCEPT !.row = row[f.order], !.step = "events"])
  /\ UNCHANGED <<orderLog, pageVars, detailVars, ctx, faults>>

\* Mutant of ReadEvents: the events are read from a copy that lags behind.
ReadLaggingEvents(f) ==
  /\ f \in fetch /\ f.step = "events"
  /\ fetch' = fetch \ {f}
  /\ \E L \in {log[f.order], {"OrderCreated"}} :
       ctx' = [latest |-> f.latest, of |-> [order |-> f.order, row |-> f.row, log |-> L]]
  /\ UNCHANGED <<orderLog, pageVars, detailVars, faults>>

\* Second statement: the events.  The answer becomes the assistant's context.
ReadEvents(f) ==
  /\ f \in fetch /\ f.step = "events"
  /\ fetch' = fetch \ {f}
  /\ ctx' = [latest |-> f.latest,
             of |-> [order |-> f.order, row |-> f.row, log |-> log[f.order]]]
  /\ UNCHANGED <<orderLog, pageVars, detailVars, faults>>

\* Missing or inaccessible data: general guidance.
FetchFails(f) ==
  /\ f \in fetch
  /\ Fault
  /\ fetch' = fetch \ {f}
  /\ ctx' = NoCtx
  /\ UNCHANGED <<orderLog, pageVars, detailVars>>

\* ask: a question is answered from the context at hand, loaded or not.
Answer(q) == RunFloating(q, ctx.of, ctx.latest)

-----------------------------------------------------------------------------

\* Two orders as they look once decided.
Past == {[row |-> "CONFIRMED", log |-> {"OrderCreated", "InventoryReserved", "OrderConfirmed"}],
         [row |-> "FAILED", log |-> {"OrderCreated", "InventoryFailed", "OrderFailed"}]}

Init ==
  /\ \E past \in UNION {[E -> Past] : E \in SUBSET Earlier} :
       /\ been = DOMAIN past
       /\ row = [o \in Orders |-> IF o \in been THEN past[o].row ELSE "none"]
       /\ log = [o \in Orders |-> IF o \in been THEN past[o].log ELSE {}]
  /\ path = List /\ moves = 0
  /\ polls = {} /\ jumped = FALSE /\ shown = Unknown /\ error = FALSE
  /\ fetch = {[move |-> 0, order |-> List, latest |-> TRUE, step |-> "list", row |-> "none"]}
  /\ ctx = NoCtx
  /\ faults = 0

\* Orders are placed one after the other.
ServerStep ==
  /\ \E o \in Orders : \/ Insert(o) /\ \A p \in Orders : p < o => p \in Placed
                       \/ Progress(o)
  /\ UNCHANGED <<pageVars, detailVars, chatVars, faults>>

Next ==
  \/ ServerStep
  \/ \E o \in Orders : OpenOrder(o)
  \/ \E o \in Orders : JumpTo(o)
  \/ BackToList
  \/ \E p \in polls : ReadOrder(p)
  \/ \E p \in polls : HearOrder(p)
  \/ \E p \in polls : PollFails(p)
  \/ \E p \in polls : TimerFires(p)
  \/ \E f \in fetch : ReadLatest(f)
  \/ \E f \in fetch : ReadRow(f)
  \/ \E f \in fetch : ReadEvents(f)
  \/ \E f \in fetch : FetchFails(f)

Spec == Init /\ [][Next]_vars

\* order-service answers the polls and their timers fire.  Nothing is assumed of
\* the saga, which need not decide an order (one that was dead-lettered stays
\* PENDING), nor of the customer.
Fairness ==
  \A k \in 1 .. MaxMoves :
    WF_vars(\E p \in polls : p.chain = k /\ (ReadOrder(p) \/ HearOrder(p) \/ TimerFires(p)))

FairSpec == Spec /\ Fairness

-----------------------------------------------------------------------------
(* Correctness *)

Rows == {"none", "PENDING"} \cup Verdicts

PollRec  == [chain : Nat, order : Orders, step : {"sent", "answered", "timer"}, row : Rows]
FetchRec == [move : Nat, order : Orders \cup {List}, latest : BOOLEAN,
             step : {"list", "row", "events"}, row : Rows]
Context  == [order : Orders \cup {List}, row : Rows, log : SUBSET LogTypes]

TypeOK ==
  /\ row \in [Orders -> Rows] /\ log \in [Orders -> SUBSET LogTypes]
  /\ path \in Orders \cup {List} /\ been \in SUBSET Orders /\ moves \in Nat
  /\ polls \in SUBSET PollRec /\ jumped \in BOOLEAN /\ error \in BOOLEAN
  /\ shown \in [order : Orders \cup {List}, row : Rows]
  /\ fetch \in SUBSET FetchRec /\ ctx \in [latest : BOOLEAN, of : Context]

\* A detail page that was opened, not jumped to, shows its own order or none:
\* answers of earlier visits, however late, never reach it.
ShowsItsOrder == path # List /\ ~jumped => shown.order \in {path, List}

\* A verdict shown by a page that was opened, not jumped to, is never taken back
\* while the page is open: the polls of its one chain are answered in the order
\* they are sent.
ShownIsFinal ==
  [][~jumped /\ shown.row \in Verdicts /\ shown'.order = shown.order =>
       shown'.row = shown.row]_<<shown, jumped>>

\* The page shows the verdict of order o, and has stopped asking.
ShowsVerdict(o) ==
  View.kind = "order" /\ ~View.refreshing /\ shown = [order |-> o, row |-> row[o]]

\* The page asks for order o, which has not been decided.
StillAsks(o) ==
  row[o] = "PENDING" /\ \E p \in polls : p.order = o /\ p.step = "sent"

\* A detail page that is left open ends up showing its order's verdict once the
\* order is decided, or the error of a request that failed; of an order that
\* stays pending it asks again and again: the polling never falls asleep.
\* (What it shows last stays: a verdict and an error end the polling.)
VerdictShown ==
  \A o \in Orders :
    <>[](path = o /\ ~jumped) =>
      []<>(View.kind = "error" \/ ShowsVerdict(o) \/ StillAsks(o))

\* Step s of order o's timeline has been taken, or been the one that failed.  A
\* payment need not be recorded, but no record says the opposite.
Taken(o, s) ==
  IF s.step = "payment"
  THEN (IF s.is = "done" THEN "PaymentFailed" ELSE "PaymentCompleted") \notin log[o]
  ELSE s.step \in log[o]

\* The page derives its timeline from the status alone, and yet each step that
\* it ticks off or marks as failed has been taken, but for the reservation of
\* an order that the inventory has refused, which buildTimeline ticks off, too.
TimelineTrue ==
  \A s \in View.steps :
    s.is \in {"done", "failed"} =>
      \/ Taken(shown.order, s)
      \/ s.step = "InventoryReserved" /\ "InventoryFailed" \in log[shown.order]

\* Once the answer for a path has come, the assistant talks about the order of
\* that path: answers requested for earlier paths never replace it.
ContextFollowsPath ==
  fetch = {} /\ path # List => ctx.of.order \in {path, List}

\* The verdict of a context is backed by its own events, although the row and
\* the events are read in two statements: the row is read first.
VerdictBacked ==
  /\ ctx.of.row = "CONFIRMED" => "OrderConfirmed" \in ctx.of.log
  /\ ctx.of.row = "FAILED" => "OrderFailed" \in ctx.of.log

\* What the assistant says of the outcome of an order is not refuted by the
\* order, now or later, however old its context is: it announces no success and
\* no charge of an order that fails, and no failure of one that is confirmed.
\* Nor does it deny the payment that the page beside it shows.
AnswersHold ==
  \A q \in Prompts :
    /\ Answer(q) \cap {"confirmed", "confirmation-recorded", "charged"} # {} =>
         row[ctx.of.order] # "FAILED"
    /\ Answer(q) \cap {"failed", "not-charged"} # {} =>
         row[ctx.of.order] # "CONFIRMED"
    /\ View.payment = "Paid" /\ ctx.of.order = shown.order => "not-charged" \notin Answer(q)

-----------------------------------------------------------------------------
(* The inductive invariant behind the safety properties *)

\* Status r of order o has been read: it is the order's own or still pending.
HasBeen(o, r) == r # "none" /\ row[o] # "none" /\ (r = row[o] \/ r = "PENDING")

\* One chain polls the order of a page that was opened, until it has a verdict.
PollsInv ==
  /\ path # List => path \in Placed
  /\ been \subseteq Placed
  /\ \A p \in polls : p.order \in Placed /\ (p.step = "answered" => HasBeen(p.order, p.row))
  /\ shown = Unknown \/ (shown.order \in Placed /\ HasBeen(shown.order, shown.row))
  /\ path = List => polls = {} /\ shown = Unknown
  /\ ~jumped =>
       /\ \A p, q \in polls : p = q
       /\ \A p \in polls : p.order = path
       /\ shown.order \in {path, List}
       /\ shown.row \in Verdicts => polls = {}

\* One context request at most is under way, and it is the path's.
ContextInv ==
  /\ \A f, g \in fetch : f = g
  /\ \A f \in fetch :
       /\ f.step # "list" => f.order \in Placed
       /\ f.step = "events" => HasBeen(f.order, f.row)
       /\ path # List => f.step # "list" /\ f.order = path
  /\ fetch = {} /\ path # List => ctx.of.order \in {path, List}
  /\ \/ ctx.of = NoContext
     \/ /\ ctx.of.order \in Placed
        /\ HasBeen(ctx.of.order, ctx.of.row)
        /\ ctx.of.log \subseteq log[ctx.of.order]
        /\ VerdictBacked

PagesInv ==
  /\ TypeOK
  /\ \A o \in Orders : LogInv(o)
  /\ PollsInv
  /\ ContextInv

=============================================================================

-------------------------- MODULE OrderPagesProofs --------------------------
(***************************************************************************)
(* Proofs about the customer's order pages, for any number of orders, path *)
(* changes and failed requests.                                            *)
(***************************************************************************)
EXTENDS OrderPages, TLAPS

USE OrderAssumption, LoggedAssumption DEF Verdicts, LogTypes, Rows, List

-----------------------------------------------------------------------------
(* The rows and events of order-service *)

\* The initial states: nothing placed but orders decided before.
LEMMA InitInv == Init => PagesInv
  <1> SUFFICES ASSUME Init PROVE PagesInv
    OBVIOUS
  <1> DEFINE E == been
  <1>0. PICK past \in UNION {[S -> Past] : S \in SUBSET Earlier} :
          /\ been = DOMAIN past
          /\ row = [o \in Orders |-> IF o \in been THEN past[o].row ELSE "none"]
          /\ log = [o \in Orders |-> IF o \in been THEN past[o].log ELSE {}]
    BY DEF Init
  <1>1. /\ E \in SUBSET Earlier /\ past \in [E -> Past]
        /\ row = [o \in Orders |-> IF o \in E THEN past[o].row ELSE "none"]
        /\ log = [o \in Orders |-> IF o \in E THEN past[o].log ELSE {}]
    BY <1>0
  <1>2. ASSUME NEW o \in Orders
        PROVE  \/ o \notin E /\ row[o] = "none" /\ log[o] = {}
               \/ o \in E /\ row[o] = "CONFIRMED"
                  /\ log[o] = {"OrderCreated", "InventoryReserved", "OrderConfirmed"}
               \/ o \in E /\ row[o] = "FAILED"
                  /\ log[o] = {"OrderCreated", "InventoryFailed", "OrderFailed"}
    BY <1>1 DEF Past
  <1>3. ASSUME NEW o \in Orders PROVE LogInv(o)
    <2>1. CASE row[o] = "none" /\ log[o] = {}
      BY <2>1 DEF LogInv
    <2>2. CASE /\ row[o] = "CONFIRMED"
               /\ log[o] = {"OrderCreated", "InventoryReserved", "OrderConfirmed"}
      BY <2>2 DEF LogInv
    <2>3. CASE /\ row[o] = "FAILED"
               /\ log[o] = {"OrderCreated", "InventoryFailed", "OrderFailed"}
      BY <2>3 DEF LogInv
    <2> QED
      BY <1>2, <2>1, <2>2, <2>3
  <1>4. TypeOK
    <2>1. row \in [Orders -> Rows] /\ log \in [Orders -> SUBSET LogTypes]
      BY <1>1, <1>2
    <2>2. been \in SUBSET Orders
      BY <1>1
    <2>3. fetch \in SUBSET FetchRec
      BY DEF Init, FetchRec
    <2>4. NoContext \in Context /\ Unknown \in [order : Orders \cup {List}, row : Rows]
      BY DEF NoContext, Context, Unknown
    <2>5. ctx \in [latest : BOOLEAN, of : Context]
      BY <2>4 DEF Init, NoCtx
    <2> QED
      BY <2>1, <2>2, <2>3, <2>4, <2>5 DEF Init, TypeOK
  <1>5. PollsInv
    <2>1. been \subseteq Placed
      BY <1>1, <1>2 DEF Placed
    <2> QED
      BY <2>1 DEF Init, PollsInv, Unknown
  <1>6. ContextInv
    BY DEF Init, ContextInv, NoCtx
  <1> QED
    BY <1>3, <1>4, <1>5, <1>6 DEF PagesInv

\* A row moves from none to pending and from there to a verdict; events stay.
Grows(o) ==
  /\ log[o] \subseteq log'[o]
  /\ \/ row'[o] = row[o]
     \/ row[o] = "none" /\ row'[o] = "PENDING"
     \/ row[o] = "PENDING" /\ row'[o] \in Verdicts

LEMMA ServerKeepsLog ==
  ASSUME PagesInv, NEW p \in Orders, Insert(p) \/ Progress(p)
  PROVE  /\ row' \in [Orders -> Rows] /\ log' \in [Orders -> SUBSET LogTypes]
         /\ \A o \in Orders : LogInv(o)' /\ Grows(o)
  <1>1. row \in [Orders -> Rows] /\ log \in [Orders -> SUBSET LogTypes] /\ LogInv(p)
    BY DEF PagesInv, TypeOK
  <1>2. PICK r \in Rows, T \in SUBSET LogTypes :
          row' = [row EXCEPT ![p] = r] /\ log' = [log EXCEPT ![p] = @ \cup T]
    <2>1. CASE UNCHANGED row /\ \E t \in LogTypes : Record(p, {t})
      <3>1. row' = [row EXCEPT ![p] = row[p]] /\ row[p] \in Rows
        BY <1>1, <2>1
      <3>2. PICK t \in LogTypes : log' = [log EXCEPT ![p] = @ \cup {t}]
        BY <2>1 DEF Record
      <3> QED
        BY <3>1, <3>2
    <2>2. CASE \E r \in Rows, T \in SUBSET LogTypes :
                 row' = [row EXCEPT ![p] = r] /\ Record(p, T)
      BY <2>2 DEF Record
    <2>3. Insert(p) => \E r \in Rows, T \in SUBSET LogTypes :
                         row' = [row EXCEPT ![p] = r] /\ Record(p, T)
      BY DEF Insert
    <2>4. Confirm(p) \/ FailPayment(p) \/ FailStock(p) =>
            \E r \in Rows, T \in SUBSET LogTypes : row' = [row EXCEPT ![p] = r] /\ Record(p, T)
      BY DEF Confirm, FailPayment, FailStock, Decide
    <2> QED
      BY <2>1, <2>2, <2>3, <2>4 DEF Progress, AnswerStock, LogPayment
  <1>3. row' \in [Orders -> Rows] /\ log' \in [Orders -> SUBSET LogTypes]
    BY <1>1, <1>2
  <1>4. ASSUME NEW o \in Orders, o # p PROVE LogInv(o)' /\ Grows(o)
    <2>1. row'[o] = row[o] /\ log'[o] = log[o]
      BY <1>1, <1>2, <1>4
    <2>2. LogInv(o)
      BY DEF PagesInv
    <2> QED
      BY <2>1, <2>2 DEF LogInv, Grows
  <1>5. LogInv(p)' /\ Grows(p)
    <2>1. ASSUME NEW New, Record(p, New) PROVE log'[p] = log[p] \cup New
      BY <1>1, <2>1 DEF Record
    <2>2. ASSUME NEW v, Decide(p, v) PROVE row[p] = "PENDING" /\ row'[p] = v
      BY <1>1, <2>2 DEF Decide
    <2>3. CASE Insert(p)
      <3>1. /\ row[p] = "none" /\ row'[p] = "PENDING"
            /\ log'[p] = log[p] \cup {"OrderCreated"}
        BY <1>1, <2>1, <2>3 DEF Insert
      <3> QED
        BY <1>1, <3>1 DEF LogInv, Grows
    <2>4. ASSUME NEW t \in LogTypes, AnswerStock(p, t) PROVE LogInv(p)' /\ Grows(p)
      <3>1. /\ t \in {"InventoryReserved", "InventoryFailed"}
            /\ row[p] = "PENDING" /\ row'[p] = "PENDING"
            /\ "InventoryReserved" \notin log[p] /\ "InventoryFailed" \notin log[p]
            /\ log'[p] = log[p] \cup {t}
        BY <2>1, <2>4 DEF AnswerStock
      <3> QED
        BY <1>1, <3>1 DEF LogInv, Grows
    <2>5. ASSUME NEW t \in LogTypes, LogPayment(p, t) PROVE LogInv(p)' /\ Grows(p)
      <3>1. /\ "InventoryReserved" \in log[p] /\ row'[p] = row[p]
            /\ "PaymentCompleted" \notin log[p] /\ "PaymentFailed" \notin log[p]
            /\ \/ t = "PaymentCompleted" /\ row[p] # "FAILED"
               \/ t = "PaymentFailed" /\ row[p] # "CONFIRMED"
            /\ log'[p] = log[p] \cup {t}
        BY <2>1, <2>5 DEF LogPayment
      <3> QED
        BY <1>1, <3>1 DEF LogInv, Grows
    <2>6. CASE Confirm(p)
      <3>1. /\ "InventoryReserved" \in log[p] /\ "PaymentFailed" \notin log[p]
            /\ row[p] = "PENDING" /\ row'[p] = "CONFIRMED"
            /\ log'[p] = log[p] \cup {"OrderConfirmed"}
        BY <2>1, <2>2, <2>6 DEF Confirm
      <3> QED
        BY <1>1, <3>1 DEF LogInv, Grows
    <2>7. CASE FailPayment(p)
      <3>1. /\ "InventoryReserved" \in log[p] /\ "PaymentCompleted" \notin log[p]
            /\ row[p] = "PENDING" /\ row'[p] = "FAILED"
            /\ log'[p] = log[p] \cup {"ReleaseInventory", "OrderFailed"}
        BY <2>1, <2>2, <2>7 DEF FailPayment
      <3> QED
        BY <1>1, <3>1 DEF LogInv, Grows
    <2>8. CASE FailStock(p)
      <3>1. /\ "InventoryFailed" \in log[p]
            /\ row[p] = "PENDING" /\ row'[p] = "FAILED"
            /\ log'[p] = log[p] \cup {"OrderFailed"}
        BY <2>1, <2>2, <2>8 DEF FailStock
      <3> QED
        BY <1>1, <3>1 DEF LogInv, Grows
    <2> QED
      BY <2>3, <2>4, <2>5, <2>6, <2>7, <2>8 DEF Progress
  <1> QED
    BY <1>3, <1>4, <1>5

\* The pages stay true of orders that move on.
LEMMA ServerStepInv ==
  ASSUME PagesInv, ServerStep
  PROVE  PagesInv'
  <1>1. /\ row' \in [Orders -> Rows] /\ log' \in [Orders -> SUBSET LogTypes]
        /\ \A o \in Orders : LogInv(o)' /\ Grows(o)
    BY ServerKeepsLog DEF ServerStep
  <1>2. UNCHANGED <<path, been, moves, polls, jumped, shown, error, fetch, ctx, faults>>
    BY DEF ServerStep, pageVars, detailVars, chatVars
  <1>3. TypeOK'
    BY <1>1, <1>2 DEF PagesInv, TypeOK
  <1>4. \A o \in Placed : o \in Placed'
    BY <1>1 DEF Placed, Grows
  <1>5. \A o \in Orders, r \in Rows : HasBeen(o, r) => HasBeen(o, r)'
    BY <1>1 DEF HasBeen, Grows
  <1>6. PollsInv'
    <2>1. \A p \in polls : p.order \in Orders /\ p.row \in Rows
      BY DEF PagesInv, TypeOK, PollRec
    <2>2. shown.order \in Orders \cup {List} /\ shown.row \in Rows
      BY DEF PagesInv, TypeOK
    <2>3. Placed \subseteq Orders
      BY DEF Placed
    <2> QED
      BY <1>2, <1>4, <1>5, <2>1, <2>2, <2>3 DEF PagesInv, PollsInv, Unknown
  <1>7. ContextInv'
    <2>1. \A f \in fetch : f.order \in Orders \cup {List} /\ f.row \in Rows
      BY DEF PagesInv, TypeOK, FetchRec
    <2>2. ctx.of.row \in Rows
      BY DEF PagesInv, TypeOK, Context
    <2>3. Placed \subseteq Orders
      BY DEF Placed
    <2>4. \A f \in fetch :
            /\ f.step # "list" => f.order \in Placed'
            /\ f.step = "events" => HasBeen(f.order, f.row)'
      <3>1. \A f \in fetch : f.step = "events" => f.order \in Orders
        BY <2>3 DEF PagesInv, ContextInv
      <3> QED
        BY <1>4, <1>5, <2>1, <3>1 DEF PagesInv, ContextInv
    <2>5. ctx.of # NoContext =>
            /\ ctx.of.order \in Placed'
            /\ HasBeen(ctx.of.order, ctx.of.row)'
            /\ ctx.of.log \subseteq log'[ctx.of.order]
      <3>1. SUFFICES ASSUME ctx.of # NoContext PROVE
                /\ ctx.of.order \in Placed'
                /\ HasBeen(ctx.of.order, ctx.of.row)'
                /\ ctx.of.log \subseteq log'[ctx.of.order]
        OBVIOUS
      <3>2. /\ ctx.of.order \in Placed /\ HasBeen(ctx.of.order, ctx.of.row)
            /\ ctx.of.log \subseteq log[ctx.of.order]
        BY <3>1 DEF PagesInv, ContextInv
      <3>3. ctx.of.order \in Orders
        BY <2>3, <3>2
      <3>4. log[ctx.of.order] \subseteq log'[ctx.of.order]
        BY <1>1, <3>3 DEF Grows
      <3> QED
        BY <1>1, <1>2, <1>4, <3>2, <3>3, <3>4 DEF HasBeen, Grows
    <2> QED
      BY <1>2, <2>4, <2>5 DEF PagesInv, ContextInv, VerdictBacked, NoContext
  <1> QED
    BY <1>1, <1>3, <1>6, <1>7 DEF PagesInv

-----------------------------------------------------------------------------
(* Navigation *)

\* A path change starts one context request, of the new path.
LEMMA MoveContext ==
  ASSUME PagesInv, NEW p \in Placed \cup {List}, Move(p)
  PROVE  /\ ContextInv' /\ fetch' \in SUBSET FetchRec
         /\ path' = p /\ moves' \in Nat
         /\ UNCHANGED <<row, log, ctx, faults>>
  <1>1. /\ path' = p /\ moves' = moves + 1 /\ UNCHANGED <<row, log, ctx, faults>>
        /\ fetch' = {[move |-> moves', order |-> p, latest |-> p = List,
                      step |-> IF p = List THEN "list" ELSE "row", row |-> "none"]}
    BY DEF Move, Resolve, Fetch, orderLog
  <1>2. moves' \in Nat /\ p \in Orders \cup {List}
    BY <1>1 DEF PagesInv, TypeOK, Placed
  <1>3. /\ (p = List) \in BOOLEAN
        /\ (IF p = List THEN "list" ELSE "row") \in {"list", "row", "events"}
    OBVIOUS
  <1>4. fetch' \in SUBSET FetchRec
    BY <1>1, <1>2, <1>3 DEF FetchRec
  <1>5. ContextInv'
    <2>1. /\ \A f, g \in fetch' : f = g
          /\ \A f \in fetch' : /\ f.step # "events"
                               /\ f.step # "list" => f.order = p /\ p # List
                               /\ p # List => f.step # "list"
      BY <1>1
    <2>2. fetch' # {} /\ Placed' = Placed /\ List \notin Orders
      BY <1>1 DEF Placed
    <2>3. \/ ctx'.of = NoContext
          \/ /\ ctx'.of.order \in Placed'
             /\ HasBeen(ctx.of.order, ctx.of.row)'
             /\ ctx'.of.log \subseteq log'[ctx'.of.order]
             /\ VerdictBacked'
      BY <1>1 DEF PagesInv, ContextInv, VerdictBacked, HasBeen, Placed
    <2> QED
      BY <1>1, <2>1, <2>2, <2>3 DEF ContextInv
  <1> QED
    BY <1>1, <1>2, <1>4, <1>5

LEMMA OpenOrderInv ==
  ASSUME PagesInv, NEW o \in Orders, OpenOrder(o)
  PROVE  PagesInv'
  <1> DEFINE new == [chain |-> moves', order |-> o, step |-> "sent", row |-> "none"]
  <1>1. /\ path = List /\ o \in Placed /\ Move(o)
        /\ been' = been \cup {o}
        /\ UNCHANGED <<jumped, shown, error>>
    BY DEF OpenOrder
  <1>2. /\ ContextInv' /\ fetch' \in SUBSET FetchRec
        /\ path' = o /\ moves' \in Nat
        /\ UNCHANGED <<row, log, ctx, faults>>
    BY <1>1, MoveContext
  <1>3. polls' = {new} /\ shown = Unknown
    BY <1>1, <1>2 DEF OpenOrder, Poll, PagesInv, PollsInv
  <1>4. new \in PollRec
    BY <1>2 DEF PollRec
  <1>5. TypeOK'
    BY <1>1, <1>2, <1>3, <1>4 DEF PagesInv, TypeOK
  <1>6. PollsInv'
    BY <1>1, <1>2, <1>3 DEF PagesInv, PollsInv, Placed, Unknown
  <1>7. (\A p \in Orders : LogInv(p))'
    BY <1>2 DEF PagesInv, LogInv
  <1> QED
    BY <1>2, <1>5, <1>6, <1>7 DEF PagesInv

LEMMA JumpToInv ==
  ASSUME PagesInv, NEW o \in Orders, JumpTo(o)
  PROVE  PagesInv'
  <1> DEFINE new == [chain |-> moves', order |-> o, step |-> "sent", row |-> "none"]
  <1>1. /\ path # List /\ o \in Placed /\ Move(o) /\ jumped' = TRUE
        /\ UNCHANGED <<been, shown, error>>
    BY DEF JumpTo, PagesInv, PollsInv
  <1>2. /\ ContextInv' /\ fetch' \in SUBSET FetchRec
        /\ path' = o /\ moves' \in Nat
        /\ UNCHANGED <<row, log, ctx, faults>>
    BY <1>1, MoveContext
  <1>3. polls' = polls \cup {new}
    BY <1>2 DEF JumpTo, Poll
  <1>4. new \in PollRec
    BY <1>2 DEF PollRec
  <1>5. TypeOK'
    BY <1>1, <1>2, <1>3, <1>4 DEF PagesInv, TypeOK
  <1>6. PollsInv'
    BY <1>1, <1>2, <1>3 DEF PagesInv, PollsInv, Placed, Unknown, HasBeen
  <1>7. (\A p \in Orders : LogInv(p))'
    BY <1>2 DEF PagesInv, LogInv
  <1> QED
    BY <1>2, <1>5, <1>6, <1>7 DEF PagesInv

LEMMA BackToListInv ==
  ASSUME PagesInv, BackToList
  PROVE  PagesInv'
  <1>1. /\ Move(List) /\ polls' = {} /\ jumped' = FALSE /\ shown' = Unknown
        /\ error' = FALSE /\ been' = been
    BY DEF BackToList
  <1>2. /\ ContextInv' /\ fetch' \in SUBSET FetchRec
        /\ path' = List /\ moves' \in Nat
        /\ UNCHANGED <<row, log, ctx, faults>>
    BY <1>1, MoveContext
  <1>3. TypeOK'
    BY <1>1, <1>2 DEF PagesInv, TypeOK, Unknown
  <1>4. PollsInv'
    BY <1>1, <1>2 DEF PagesInv, PollsInv, Placed, Unknown
  <1>5. (\A p \in Orders : LogInv(p))'
    BY <1>2 DEF PagesInv, LogInv
  <1> QED
    BY <1>2, <1>3, <1>4, <1>5 DEF PagesInv

-----------------------------------------------------------------------------
(* Polling *)

\* Steps of the polling leave the orders and the assistant alone.
LEMMA ChatKept ==
  ASSUME PagesInv, UNCHANGED <<orderLog, pageVars, chatVars>>
  PROVE  /\ (\A o \in Orders : LogInv(o))' /\ ContextInv'
         /\ row' \in [Orders -> Rows] /\ log' \in [Orders -> SUBSET LogTypes]
         /\ path' \in Orders \cup {List} /\ been' \in SUBSET Orders /\ moves' \in Nat
         /\ fetch' \in SUBSET FetchRec /\ ctx' \in [latest : BOOLEAN, of : Context]
  BY DEF PagesInv, TypeOK, LogInv, ContextInv, VerdictBacked, HasBeen, Placed,
         orderLog, pageVars, chatVars

\* A poll that goes on is a poll of the same chain and order.
LEMMA AdvancedPoll ==
  ASSUME PagesInv, NEW p \in polls, NEW r \in Rows,
         NEW step \in {"sent", "answered", "timer"}, Advance(p, step, r)
  PROVE  \E q \in PollRec :
           /\ q.order = p.order /\ q.step = step /\ q.row = r
           /\ polls' = (polls \ {p}) \cup {q}
  <1>1. p \in PollRec
    BY DEF PagesInv, TypeOK
  <1>2. [p EXCEPT !.step = step, !.row = r] \in PollRec
    BY <1>1 DEF PollRec
  <1>3. /\ [p EXCEPT !.step = step, !.row = r].order = p.order
        /\ [p EXCEPT !.step = step, !.row = r].step = step
        /\ [p EXCEPT !.step = step, !.row = r].row = r
    BY <1>1 DEF PollRec
  <1> QED
    BY <1>2, <1>3 DEF Advance

LEMMA ReadOrderInv ==
  ASSUME PagesInv, NEW p \in polls, ReadOrder(p)
  PROVE  PagesInv'
  <1>1. /\ Advance(p, "answered", row[p.order]) /\ p.step = "sent"
        /\ UNCHANGED <<orderLog, pageVars, jumped, shown, error, chatVars, faults>>
    BY DEF ReadOrder
  <1>2. p.order \in Placed /\ row[p.order] \in Rows
    BY DEF PagesInv, PollsInv, TypeOK, Placed
  <1>3. PICK q \in PollRec :
          /\ q.order = p.order /\ q.step = "answered" /\ q.row = row[p.order]
          /\ polls' = (polls \ {p}) \cup {q}
    BY <1>1, <1>2, AdvancedPoll
  <1>4. HasBeen(q.order, q.row)
    BY <1>2, <1>3 DEF HasBeen, Placed
  <1>5. TypeOK'
    BY <1>1, <1>3, ChatKept DEF PagesInv, TypeOK
  <1>6. PollsInv'
    BY <1>1, <1>2, <1>3, <1>4
    DEF PagesInv, PollsInv, HasBeen, Placed, orderLog, pageVars, Unknown
  <1> QED
    BY <1>1, <1>5, <1>6, ChatKept DEF PagesInv

LEMMA HearOrderInv ==
  ASSUME PagesInv, NEW p \in polls, HearOrder(p)
  PROVE  PagesInv'
  <1>1. /\ p.step = "answered" /\ shown' = [order |-> p.order, row |-> p.row]
        /\ UNCHANGED <<orderLog, pageVars, jumped, error, chatVars, faults>>
    BY DEF HearOrder
  <1>2. /\ p.order \in Placed /\ p.row \in Rows /\ p.order \in Orders
        /\ HasBeen(p.order, p.row)
    BY <1>1 DEF PagesInv, PollsInv, TypeOK, PollRec, Placed
  <1>3. \/ /\ p.row # "PENDING" /\ polls' = polls \ {p}
        \/ /\ p.row = "PENDING"
           /\ \E q \in PollRec : /\ q.order = p.order /\ q.step = "timer"
                                 /\ polls' = (polls \ {p}) \cup {q}
    BY <1>1, AdvancedPoll DEF HearOrder
  <1>4. TypeOK'
    BY <1>1, <1>2, <1>3, ChatKept DEF PagesInv, TypeOK
  <1>5. PollsInv'
    BY <1>1, <1>2, <1>3 DEF PagesInv, PollsInv, HasBeen, Placed, orderLog, pageVars, Unknown
  <1> QED
    BY <1>1, <1>4, <1>5, ChatKept DEF PagesInv

LEMMA PollFailsInv ==
  ASSUME PagesInv, NEW p \in polls, PollFails(p)
  PROVE  PagesInv'
  <1>1. /\ error' = TRUE /\ polls' = polls \ {p}
        /\ UNCHANGED <<orderLog, pageVars, jumped, shown, chatVars>>
    BY DEF PollFails
  <1>2. TypeOK'
    BY <1>1, ChatKept DEF PagesInv, TypeOK
  <1>3. PollsInv'
    BY <1>1 DEF PagesInv, PollsInv, HasBeen, Placed, orderLog, pageVars, Unknown
  <1> QED
    BY <1>1, <1>2, <1>3, ChatKept DEF PagesInv

LEMMA TimerFiresInv ==
  ASSUME PagesInv, NEW p \in polls, TimerFires(p)
  PROVE  PagesInv'
  <1>1. /\ Advance(p, "sent", "none")
        /\ UNCHANGED <<orderLog, pageVars, jumped, shown, error, chatVars, faults>>
    BY DEF TimerFires
  <1>2. PICK q \in PollRec : /\ q.order = p.order /\ q.step = "sent"
                             /\ polls' = (polls \ {p}) \cup {q}
    BY <1>1, AdvancedPoll
  <1>3. TypeOK'
    BY <1>1, <1>2, ChatKept DEF PagesInv, TypeOK
  <1>4. PollsInv'
    BY <1>1, <1>2 DEF PagesInv, PollsInv, HasBeen, Placed, orderLog, pageVars, Unknown
  <1> QED
    BY <1>1, <1>3, <1>4, ChatKept DEF PagesInv

-----------------------------------------------------------------------------
(* The assistant's requests *)

\* Steps of the assistant leave the orders and the detail page alone.
LEMMA PageKept ==
  ASSUME PagesInv, UNCHANGED <<orderLog, pageVars, detailVars>>
  PROVE  /\ (\A o \in Orders : LogInv(o))' /\ PollsInv'
         /\ row' \in [Orders -> Rows] /\ log' \in [Orders -> SUBSET LogTypes]
         /\ path' \in Orders \cup {List} /\ been' \in SUBSET Orders /\ moves' \in Nat
         /\ polls' \in SUBSET PollRec /\ jumped' \in BOOLEAN /\ error' \in BOOLEAN
         /\ shown' \in [order : Orders \cup {List}, row : Rows]
         /\ Placed' = Placed
  BY DEF PagesInv, TypeOK, LogInv, PollsInv, HasBeen, Placed, Unknown,
         orderLog, pageVars, detailVars

\* No context is an admissible one.
LEMMA NoContextFits ==
  /\ NoCtx \in [latest : BOOLEAN, of : Context]
  /\ NoCtx.of = NoContext /\ NoContext.order = List
  BY DEF NoCtx, NoContext, Context

LEMMA ReadLatestInv ==
  ASSUME PagesInv, NEW f \in fetch, ReadLatest(f)
  PROVE  PagesInv'
  <1>1. /\ f.step = "list" /\ UNCHANGED <<orderLog, pageVars, detailVars, faults>>
    BY DEF ReadLatest
  <1>2. fetch = {f} /\ path = List /\ f \in FetchRec
    BY <1>1 DEF PagesInv, ContextInv, TypeOK
  <1>3. CASE Placed = {}
    <2>1. fetch' = {} /\ ctx' = NoCtx
      BY <1>2, <1>3 DEF ReadLatest
    <2>2. ContextInv'
      BY <1>1, <1>2, <2>1, NoContextFits DEF ContextInv, pageVars
    <2>3. TypeOK'
      BY <1>1, <2>1, PageKept, NoContextFits DEF TypeOK
    <2> QED
      BY <1>1, <2>2, <2>3, PageKept DEF PagesInv
  <1>4. CASE Placed # {}
    <2>1. PICK o \in Newest :
            fetch' = {[f EXCEPT !.order = o, !.step = "row"]} /\ ctx' = ctx
      BY <1>2, <1>4 DEF ReadLatest, Becomes
    <2> DEFINE g == [f EXCEPT !.order = o, !.step = "row"]
    <2>2. fetch' = {g} /\ ctx' = ctx /\ o \in Placed /\ o \in Orders
      BY <2>1 DEF Newest, Placed
    <2>3. g \in FetchRec /\ g.step = "row" /\ g.order = o
      BY <1>2, <2>2 DEF FetchRec
    <2>4. ContextInv'
      BY <1>1, <1>2, <2>2, <2>3
      DEF PagesInv, ContextInv, VerdictBacked, HasBeen, Placed, orderLog, pageVars
    <2>5. TypeOK'
      BY <1>1, <2>2, <2>3, PageKept DEF PagesInv, TypeOK
    <2> QED
      BY <1>1, <2>4, <2>5, PageKept DEF PagesInv
  <1> QED
    BY <1>3, <1>4

LEMMA ReadRowInv ==
  ASSUME PagesInv, NEW f \in fetch, ReadRow(f)
  PROVE  PagesInv'
  <1> DEFINE g == [f EXCEPT !.row = row[f.order], !.step = "events"]
  <1>1. /\ f.step = "row" /\ UNCHANGED <<orderLog, pageVars, detailVars, ctx, faults>>
    BY DEF ReadRow
  <1>2. fetch = {f} /\ f \in FetchRec /\ f.order \in Placed
    BY <1>1 DEF PagesInv, ContextInv, TypeOK
  <1>3. fetch' = {g}
    BY <1>2 DEF ReadRow, Becomes
  <1>4. row[f.order] \in Rows /\ HasBeen(f.order, row[f.order])
    BY <1>2 DEF PagesInv, TypeOK, Placed, HasBeen
  <1>5. /\ g \in FetchRec /\ g.step = "events"
        /\ g.order = f.order /\ g.row = row[f.order]
    BY <1>2, <1>4 DEF FetchRec
  <1>6. ContextInv'
    <2>1. path # List => f.order = path
      BY DEF PagesInv, ContextInv
    <2> QED
      BY <1>1, <1>2, <1>3, <1>4, <1>5, <2>1
      DEF PagesInv, ContextInv, VerdictBacked, HasBeen, Placed, orderLog, pageVars
  <1>7. TypeOK'
    BY <1>1, <1>3, <1>5, PageKept DEF PagesInv, TypeOK
  <1> QED
    BY <1>1, <1>6, <1>7, PageKept DEF PagesInv

\* The events are read after the row, so a verdict read has its event.
LEMMA ReadEventsInv ==
  ASSUME PagesInv, NEW f \in fetch, ReadEvents(f)
  PROVE  PagesInv'
  <1> DEFINE new == [order |-> f.order, row |-> f.row, log |-> log[f.order]]
  <1>1. /\ f.step = "events" /\ UNCHANGED <<orderLog, pageVars, detailVars, faults>>
        /\ fetch' = fetch \ {f} /\ ctx' = [latest |-> f.latest, of |-> new]
    BY DEF ReadEvents
  <1>2. fetch' = {} /\ f \in FetchRec /\ f.order \in Placed /\ HasBeen(f.order, f.row)
    BY <1>1 DEF PagesInv, ContextInv, TypeOK
  <1>3. f.order \in Orders /\ LogInv(f.order) /\ log[f.order] \in SUBSET LogTypes
    BY <1>2 DEF PagesInv, TypeOK, Placed
  <1>4. ctx' \in [latest : BOOLEAN, of : Context]
    BY <1>1, <1>2, <1>3 DEF FetchRec, Context
  <1>5. ContextInv'
    <2>1. path # List => f.order = path
      BY DEF PagesInv, ContextInv
    <2>2. /\ f.row = "CONFIRMED" => "OrderConfirmed" \in log[f.order]
          /\ f.row = "FAILED" => "OrderFailed" \in log[f.order]
      BY <1>2, <1>3 DEF LogInv, HasBeen
    <2>3. ctx'.of = new /\ log' = log /\ row' = row /\ path' = path
      BY <1>1 DEF orderLog, pageVars
    <2>4. VerdictBacked'
      BY <2>2, <2>3 DEF VerdictBacked
    <2>5. /\ ctx'.of.order \in Placed' /\ HasBeen(ctx.of.order, ctx.of.row)'
          /\ ctx'.of.log \subseteq log'[ctx'.of.order]
      BY <1>2, <2>3 DEF Placed, HasBeen
    <2> QED
      BY <1>2, <2>1, <2>3, <2>4, <2>5 DEF ContextInv
  <1>6. TypeOK'
    BY <1>1, <1>2, <1>4, PageKept DEF TypeOK
  <1> QED
    BY <1>1, <1>5, <1>6, PageKept DEF PagesInv

LEMMA FetchFailsInv ==
  ASSUME PagesInv, NEW f \in fetch, FetchFails(f)
  PROVE  PagesInv'
  <1>1. /\ UNCHANGED <<orderLog, pageVars, detailVars>>
        /\ fetch' = fetch \ {f} /\ ctx' = NoCtx
    BY DEF FetchFails
  <1>2. fetch' = {}
    BY <1>1 DEF PagesInv, ContextInv
  <1>3. ContextInv'
    BY <1>1, <1>2, NoContextFits DEF ContextInv
  <1>4. TypeOK'
    BY <1>1, <1>2, PageKept, NoContextFits DEF TypeOK
  <1> QED
    BY <1>1, <1>3, <1>4, PageKept DEF PagesInv

-----------------------------------------------------------------------------
(* The invariant *)

LEMMA NextInv == PagesInv /\ [Next]_vars => PagesInv'
  <1> SUFFICES ASSUME PagesInv, [Next]_vars PROVE PagesInv'
    OBVIOUS
  <1>1. CASE ServerStep
    BY <1>1, ServerStepInv
  <1>2. CASE \E o \in Orders : OpenOrder(o)
    BY <1>2, OpenOrderInv
  <1>3. CASE \E o \in Orders : JumpTo(o)
    BY <1>3, JumpToInv
  <1>4. CASE BackToList
    BY <1>4, BackToListInv
  <1>5. CASE \E p \in polls : ReadOrder(p) \/ HearOrder(p) \/ PollFails(p) \/ TimerFires(p)
    BY <1>5, ReadOrderInv, HearOrderInv, PollFailsInv, TimerFiresInv
  <1>6. CASE \E f \in fetch : ReadLatest(f) \/ ReadRow(f) \/ ReadEvents(f) \/ FetchFails(f)
    BY <1>6, ReadLatestInv, ReadRowInv, ReadEventsInv, FetchFailsInv
  <1>7. CASE UNCHANGED vars
    BY <1>7, ChatKept, PageKept
    DEF vars, orderLog, pageVars, detailVars, chatVars, PagesInv, TypeOK
  <1> QED
    BY <1>1, <1>2, <1>3, <1>4, <1>5, <1>6, <1>7 DEF Next

\* The inductive invariant holds on every behaviour of the pages.
THEOREM PagesInvariant == Spec => []PagesInv
  BY InitInv, NextInv, PTL DEF Spec

-----------------------------------------------------------------------------
(* What follows from it *)

\* A detail page that was opened shows its own order or none, whatever answers
\* of earlier visits are still on their way.
THEOREM ShowsOwnOrder == Spec => []ShowsItsOrder
  <1>1. PagesInv => ShowsItsOrder
    BY DEF PagesInv, PollsInv, ShowsItsOrder
  <1> QED
    BY <1>1, PagesInvariant, PTL

\* Once the answer for a path has come, the assistant talks about its order.
THEOREM ContextIsCurrent == Spec => []ContextFollowsPath
  <1>1. PagesInv => ContextFollowsPath
    BY DEF PagesInv, ContextInv, ContextFollowsPath
  <1> QED
    BY <1>1, PagesInvariant, PTL

\* The verdict of a context is backed by its own events: the two statements of
\* the context endpoint cannot be torn in the order they are made.
THEOREM VerdictsAreBacked == Spec => []VerdictBacked
  <1>1. PagesInv => VerdictBacked
    BY DEF PagesInv, ContextInv, VerdictBacked, NoContext
  <1> QED
    BY <1>1, PagesInvariant, PTL

\* A verdict shown is not taken back while the page that was opened, not jumped
\* to, stays open.
THEOREM ShownVerdictsStay == Spec => ShownIsFinal
  <1> DEFINE Keeps == ~jumped /\ shown.row \in Verdicts /\ shown'.order = shown.order =>
                        shown'.row = shown.row
  <1>1. PagesInv /\ [Next]_vars => [Keeps]_<<shown, jumped>>
    <2> SUFFICES ASSUME PagesInv, [Next]_vars, ~jumped, shown.row \in Verdicts,
                        shown'.order = shown.order
                 PROVE  shown'.row = shown.row
      OBVIOUS
    <2>1. polls = {} /\ shown.order \in Orders
      BY DEF PagesInv, PollsInv, Unknown, Placed
    <2>2. shown' = shown \/ shown' = Unknown
      BY <2>1 DEF Next, vars, ServerStep, OpenOrder, JumpTo, BackToList, ReadLatest, ReadRow,
                  ReadEvents, FetchFails, detailVars
    <2> QED
      BY <2>1, <2>2 DEF Unknown
  <1> QED
    BY <1>1, PagesInvariant, PTL DEF Spec, ShownIsFinal

\* Each step that is ticked off or marked as failed has been taken, but for the
\* reservation of an order that the inventory has refused.
THEOREM TimelineIsTrue == Spec => []TimelineTrue
  <1>1. PagesInv => TimelineTrue
    <2> SUFFICES ASSUME PagesInv, NEW s \in View.steps, s.is \in {"done", "failed"}
                 PROVE  \/ Taken(shown.order, s)
                        \/ s.step = "InventoryReserved" /\ "InventoryFailed" \in log[shown.order]
      BY DEF TimelineTrue
    <2>1. ~error /\ shown # Unknown /\ View.steps = Timeline(shown.row)
      BY DEF View, Blank
    <2>2. shown.order \in Orders /\ HasBeen(shown.order, shown.row) /\ LogInv(shown.order)
      BY <2>1 DEF PagesInv, PollsInv, Placed
    <2>3. CASE shown.row = "CONFIRMED"
      BY <2>1, <2>2, <2>3 DEF Timeline, Verdicts, LogInv, HasBeen, Taken
    <2>4. CASE shown.row = "FAILED"
      BY <2>1, <2>2, <2>4 DEF Timeline, Verdicts, LogInv, HasBeen, Taken
    <2>5. CASE shown.row \notin Verdicts
      BY <2>1, <2>2, <2>5 DEF Timeline, Verdicts, LogInv, HasBeen, Taken
    <2> QED
      BY <2>3, <2>4, <2>5 DEF Verdicts
  <1> QED
    BY <1>1, PagesInvariant, PTL

-----------------------------------------------------------------------------
(* The assistant's answers *)

Success == {"confirmed", "confirmation-recorded", "charged"}
Failure == {"failed", "not-charged"}

\* What is said without looking at an order is of no outcome.
LEMMA GuidanceIsNeutral ==
  ASSUME NEW q
  PROVE  Guidance(q) \cap (Success \cup Failure) = {}
  BY DEF Guidance, Success, Failure

\* The finished steps of a journey name a success only if the context has one.
LEMMA DoneSteps ==
  ASSUME NEW c
  PROVE  /\ Done(c) \cap Failure = {}
         /\ Done(c) \cap Success # {} => Has(c, "OrderConfirmed") \/ c.row = "CONFIRMED"
  <1>1. \A k \in Done(c) :
          \/ k \in {"created", "inventory-reserved", "payment"}
          \/ k = "confirmed" /\ (Has(c, "OrderConfirmed") \/ c.row = "CONFIRMED")
    <2> SUFFICES ASSUME NEW s \in Journey(c), s.status = "done"
                 PROVE  \/ s.key \in {"created", "inventory-reserved", "payment"}
                        \/ /\ s.key = "confirmed"
                           /\ Has(c, "OrderConfirmed") \/ c.row = "CONFIRMED"
      BY DEF Done
    <2>1. CASE s = Step("created", "done")
      BY <2>1 DEF Step
    <2>2. CASE s = InventoryStep(c)
      BY <2>2 DEF InventoryStep, Step
    <2>3. CASE s = PaymentStep(c)
      BY <2>3 DEF PaymentStep, Step
    <2>4. CASE s = VerdictStep(c)
      BY <2>4 DEF VerdictStep, Step
    <2>5. CASE s \in ReleaseStep(c)
      BY <2>5 DEF ReleaseStep, Step
    <2> QED
      BY <2>1, <2>2, <2>3, <2>4, <2>5 DEF Journey
  <1> QED
    BY <1>1 DEF Success, Failure

\* Each answer of the engine rests on the row or the events of its context.
LEMMA EngineAnswers ==
  ASSUME NEW c, c.log \subseteq LogTypes, NEW q
  PROVE  /\ RunCustomerAssistant(q, c) \cap Success # {} =>
              c.row = "CONFIRMED" \/ Has(c, "OrderConfirmed") \/ Has(c, "PaymentCompleted")
         /\ RunCustomerAssistant(q, c) \cap Failure # {} =>
              c.row = "FAILED" \/ Has(c, "PaymentFailed") \/ Has(c, "InventoryFailed")
  <1> DEFINE Rests(A) ==
        /\ A \cap Success # {} =>
             c.row = "CONFIRMED" \/ Has(c, "OrderConfirmed") \/ Has(c, "PaymentCompleted")
        /\ A \cap Failure # {} =>
             c.row = "FAILED" \/ Has(c, "PaymentFailed") \/ Has(c, "InventoryFailed")
  <1>1. Rests(AnswerWhere(c))
    BY DoneSteps DEF AnswerWhere, ByRow, Success, Failure
  <1>2. Rests(AnswerTimeline(c))
    BY DEF AnswerTimeline, Failed, Success, Failure
  <1>3. Rests(AnswerPaymentFailure(c))
    BY DEF AnswerPaymentFailure, Success, Failure
  <1>4. Rests(AnswerPaymentStatus(c))
    BY DEF AnswerPaymentStatus, Success, Failure
  <1>5. Rests(AnswerInventory(c)) /\ Rests(AnswerDelivery(c)) /\ Rests(AnswerDuration(c))
    BY DEF AnswerInventory, AnswerDelivery, AnswerDuration, Success, Failure
  <1>6. Rests(AnswerNotification(c))
    BY DEF AnswerNotification, Success, Failure
  <1>7. Rests(AnswerNextStep(c))
    BY DEF AnswerNextStep, ByRow, Success, Failure
  <1>8. RunCustomerAssistant(q, c) \in
          {{}, AnswerWhere(c), AnswerTimeline(c), AnswerPaymentFailure(c), AnswerDelivery(c),
           AnswerPaymentStatus(c), AnswerInventory(c), AnswerNotification(c),
           AnswerDuration(c), AnswerNextStep(c)}
    BY Zenon DEF RunCustomerAssistant
  <1>9. Rests({})
    OBVIOUS
  <1> HIDE DEF Rests
  <1>10. Rests(RunCustomerAssistant(q, c))
    BY <1>1, <1>2, <1>3, <1>4, <1>5, <1>6, <1>7, <1>8, <1>9
  <1> QED
    BY <1>10 DEF Rests

\* The order of a context never refutes what the assistant said of its outcome.
THEOREM AnswersAreKept == Spec => []AnswersHold
  <1>1. ASSUME PagesInv, NEW q
        PROVE  /\ Answer(q) \cap Success # {} => row[ctx.of.order] # "FAILED"
               /\ Answer(q) \cap Failure # {} => row[ctx.of.order] # "CONFIRMED"
    <2>1. CASE q \cap General # {} \/ ctx.of = NoContext
      BY <2>1, GuidanceIsNeutral DEF Answer, RunFloating
    <2>2. CASE ~(q \cap General # {}) /\ ctx.of # NoContext
      <3>1. Answer(q) \subseteq RunCustomerAssistant(q, ctx.of) \cup {"latest-order"}
        BY <2>2 DEF Answer, RunFloating
      <3>2. /\ ctx.of.order \in Orders /\ HasBeen(ctx.of.order, ctx.of.row)
            /\ ctx.of.log \subseteq log[ctx.of.order] /\ ctx.of.log \subseteq LogTypes
            /\ LogInv(ctx.of.order)
        BY <1>1, <2>2 DEF PagesInv, TypeOK, ContextInv, Placed
      <3>3. ctx.of.row = "CONFIRMED" \/ Has(ctx.of, "OrderConfirmed")
              \/ Has(ctx.of, "PaymentCompleted") => row[ctx.of.order] # "FAILED"
        BY <3>2 DEF HasBeen, LogInv, Has
      <3>4. ctx.of.row = "FAILED" \/ Has(ctx.of, "PaymentFailed")
              \/ Has(ctx.of, "InventoryFailed") => row[ctx.of.order] # "CONFIRMED"
        BY <3>2 DEF HasBeen, LogInv, Has
      <3> QED
        BY <3>1, <3>2, <3>3, <3>4, EngineAnswers DEF Success, Failure
    <2> QED
      BY <2>1, <2>2
  <1>2. ASSUME PagesInv, View.payment = "Paid" PROVE row[shown.order] = "CONFIRMED"
    <2>1. shown # Unknown /\ shown.row = "CONFIRMED"
      BY <1>2 DEF View, Blank, Payment
    <2> QED
      BY <1>2, <2>1 DEF PagesInv, PollsInv, HasBeen
  <1>3. PagesInv => AnswersHold
    BY <1>1, <1>2 DEF AnswersHold, Success, Failure
  <1> QED
    BY <1>3, PagesInvariant, PTL

=============================================================================

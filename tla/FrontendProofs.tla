--------------------------- MODULE FrontendProofs ---------------------------
(***************************************************************************)
(* Proofs about sessions, sums and the consoles in one browser tab, for    *)
(* any number of accounts, clicks, prices, orders and loads that pass each *)
(* other.  FrontendInv is inductive for the sessions and the sums,         *)
(* ConsoleInv for what the copilot says; neither needs the other.          *)
(***************************************************************************)
EXTENDS Frontend, Sums, SequenceTheorems, TLAPS

USE SessionAssumption, ShopAssumption

-----------------------------------------------------------------------------
(* Routes and mounted pages *)

\* A route leads to the page itself, the login page or the products.
LEMMA RouteEnds ==
  ASSUME NEW u, NEW p
  PROVE  /\ Route(u, p) \in {p, "login", "products"}
         /\ Route(u, Route(u, p)) = Route(u, p)
         /\ p \in Public => Route(u, p) = p
         /\ u # Nobody => Route(u, "products") = "products"
  BY DEF Route, Public, AdminPages

\* A page that has just been mounted has no sums; the checkout has a cart.
LEMMA Mounted ==
  ASSUME SumsInv, NEW c, MountShop(c), price' = price,
         path' = "checkout" => c.qty \in Nat \ {0}
  PROVE  SumsInv'
  BY DEF MountShop, NoIntent, SumsInv, ChargedAtOnePrice

\* The checkout is reached from the products page only, and stays.
LEMMA NoWayToCheckout ==
  ASSUME SessionStep, path' # path
  PROVE  path' # "checkout"
  <1>1. CASE \E r \in auth : HearAuth(r)
    BY <1>1 DEF HearAuth
  <1>2. CASE Logout
    BY <1>2 DEF Logout
  <1>3. CASE \E p \in Pages : Navigate(p)
    BY <1>3, RouteEnds DEF Navigate
  <1> QED
    BY <1>1, <1>2, <1>3 DEF SessionStep, Submit, AuthFails, CheckEmail, InsertUser,
                            CheckPassword, OtherTab

\* The sums are kept with the page.
LEMMA SumsKept ==
  ASSUME SumsInv, UNCHANGED <<path, shopVars>>
  PROVE  SumsInv'
  BY DEF SumsInv, ChargedAtOnePrice, SummaryTotal, shopVars, pageVars

-----------------------------------------------------------------------------
(* One lemma per group of steps *)

LEMMA InitInv == Init => FrontendInv
  <1> SUFFICES ASSUME Init PROVE FrontendInv
    OBVIOUS
  <1>1. /\ accounts = [e \in Emails |-> IF e \in Admins THEN 1 ELSE 0]
        /\ auth = {} /\ stored = user
        /\ Route(user, path) = path /\ path \in Pages \ {"checkout", "order"}
    BY DEF Init, SessionInit
  <1>2. SumsInv
    BY <1>1, ShopAssumption DEF Init, ShopInit, NoIntent, SumsInv, ChargedAtOnePrice
  <1>3. accounts \in [Emails -> 0 .. 1] /\ Admins \subseteq {e \in Emails : accounts[e] = 1}
    <2>1. \A e \in Emails : (IF e \in Admins THEN 1 ELSE 0) \in 0 .. 1
      OBVIOUS
    <2>2. accounts \in [Emails -> 0 .. 1]
      BY <1>1, <2>1
    <2>3. \A e \in Admins : e \in Emails /\ accounts[e] = 1
      BY <1>1
    <2> QED
      BY <2>2, <2>3
  <1>4. acts \in Nat
    BY DEF Init, SessionInit
  <1> QED
    BY <1>1, <1>2, <1>3, <1>4 DEF FrontendInv, SessionAgrees, Guarded

\* A request whose answer is not heard is a request.
LEMMA StillARequest == \A r \in AuthRec : Unheard(r) \in AuthRec
  BY DEF AuthRec, Unheard

\* Steps of auth-service and of the forms.
LEMMA AuthInv ==
  ASSUME FrontendInv,
         \/ \E e \in Emails : Submit(e)
         \/ \E r \in auth : \/ HearAuth(r) \/ AuthFails(r) \/ CheckEmail(r)
                            \/ InsertUser(r) \/ CheckPassword(r)
  PROVE  /\ accounts' \in [Emails -> 0 .. 1]
         /\ Admins \subseteq {e \in Emails : accounts'[e] = 1}
         /\ auth' \subseteq AuthRec /\ acts' \in Nat
         /\ SessionAgrees' /\ Guarded'
  <1>1. ASSUME NEW e \in Emails, Submit(e)
        PROVE  /\ auth' \subseteq AuthRec /\ acts' \in Nat
               /\ UNCHANGED <<accounts, user, stored, meddled, path>>
    <2>1. /\ acts' = acts + 1 /\ acts \in Nat /\ auth \subseteq AuthRec
          /\ path \in {"login", "register"}
          /\ auth' = auth \cup {[id |-> acts', kind |-> path, email |-> e,
                                step |-> "sent", heard |-> TRUE]}
      BY <1>1 DEF FrontendInv, Submit, Act
    <2>2. [id |-> acts', kind |-> path, email |-> e, step |-> "sent", heard |-> TRUE] \in AuthRec
      BY <2>1 DEF AuthRec
    <2>3. auth' \subseteq AuthRec
      BY <2>1, <2>2
    <2>4. acts' \in Nat
      BY <2>1
    <2> QED
      BY <1>1, <2>3, <2>4 DEF Submit
  <1>2. ASSUME NEW r \in auth, HearAuth(r)
        PROVE  /\ auth' \subseteq auth /\ UNCHANGED <<accounts, acts>>
               /\ SessionAgrees' /\ Guarded'
    <2>1. r.email # Nobody
      BY DEF FrontendInv, AuthRec
    <2> QED
      BY <1>2, <2>1, RouteEnds DEF HearAuth, SignedIn, SessionAgrees, Guarded
  <1>3. ASSUME NEW r \in auth, AuthFails(r)
        PROVE  auth' \subseteq AuthRec /\ UNCHANGED <<accounts, user, stored, meddled, path, acts>>
    <2>1. auth \subseteq AuthRec /\ Unheard(r) \in AuthRec
      BY StillARequest DEF FrontendInv
    <2> QED
      BY <1>3, <2>1 DEF AuthFails
  <1>4. ASSUME NEW r \in auth, NEW step \in {"free", "granted", "refused"}, Becomes(r, step)
        PROVE  auth' \subseteq AuthRec
    <2>1. auth \subseteq AuthRec /\ r \in AuthRec
      BY DEF FrontendInv
    <2>2. [r EXCEPT !.step = step] \in AuthRec
      BY <2>1 DEF AuthRec
    <2> QED
      BY <1>4, <2>1, <2>2 DEF Becomes
  <1>5. ASSUME NEW r \in auth, CheckEmail(r) \/ CheckPassword(r)
        PROVE  auth' \subseteq AuthRec /\ UNCHANGED <<accounts, user, stored, meddled, path, acts>>
    BY <1>4, <1>5 DEF CheckEmail, CheckPassword
  <1>6. ASSUME NEW r \in auth, InsertUser(r)
        PROVE  /\ accounts' \in [Emails -> 0 .. 1]
               /\ \A e \in Emails : accounts'[e] = accounts[e] \/ accounts[e] = 0
               /\ auth' \subseteq AuthRec
               /\ UNCHANGED <<user, stored, meddled, path, acts>>
    BY <1>4, <1>6 DEF InsertUser, FrontendInv
  <1> QED
    BY <1>1, <1>2, <1>3, <1>5, <1>6 DEF FrontendInv, SessionAgrees, Guarded

\* Steps of people in this tab and in others.
LEMMA TabInv ==
  ASSUME FrontendInv,
         \/ Logout \/ Reload
         \/ \E p \in Pages : Navigate(p)
         \/ \E u \in Emails \cup {Nobody} : OtherTab(u)
  PROVE  /\ accounts' = accounts
         /\ auth' \subseteq AuthRec /\ acts' \in Nat
         /\ SessionAgrees' /\ Guarded'
  <1>1. CASE Logout
    BY <1>1, RouteEnds DEF FrontendInv, Logout, Act, SignedIn, SessionAgrees, Guarded, Public
  <1>2. CASE Reload
    <2>1. \A r \in auth : Unheard(r) \in AuthRec
      BY StillARequest DEF FrontendInv
    <2> QED
      BY <1>2, <2>1, RouteEnds DEF FrontendInv, Reload, Act, SignedIn, SessionAgrees, Guarded
  <1>3. ASSUME NEW p \in Pages, Navigate(p)
        PROVE  /\ UNCHANGED <<accounts, auth, user, stored, meddled>>
               /\ acts' \in Nat /\ path' = Route(user, p)
    BY <1>3 DEF FrontendInv, Navigate, Act
  <1>4. CASE \E u \in Emails \cup {Nobody} : OtherTab(u)
    BY <1>4 DEF FrontendInv, OtherTab, Act, SessionAgrees, Guarded
  <1> QED
    BY <1>1, <1>2, <1>3, <1>4, RouteEnds DEF FrontendInv, SessionAgrees, Guarded

LEMMA SessionStepInv ==
  ASSUME FrontendInv, SessionStep \/ ReloadStep
  PROVE  FrontendInv'
  <1>1. SumsInv'
    <2>1. CASE SessionStep /\ path' = path /\ UNCHANGED <<carried, pageVars>>
      BY <2>1, SumsKept DEF SessionStep, FrontendInv, shopVars
    <2>2. CASE SessionStep /\ path' # path /\ MountShop(NoCart)
      BY <2>2, NoWayToCheckout, Mounted DEF SessionStep, FrontendInv
    <2>3. CASE ReloadStep
      <3>1. /\ path' \in {path, "login", "products"} /\ price' = price
            /\ MountShop(IF path' = "checkout" THEN carried ELSE NoCart)
        BY <2>3, RouteEnds DEF ReloadStep, Reload, Remount
      <3>2. SumsInv
        BY DEF FrontendInv
      <3>3. path' = "checkout" => carried.qty \in Nat \ {0}
        BY <3>1, <3>2 DEF SumsInv
      <3> QED
        BY <3>1, <3>2, <3>3, Mounted
    <2> QED
      BY <2>1, <2>2, <2>3 DEF SessionStep, SameOrNewPage, Remount
  <1>2. /\ accounts' \in [Emails -> 0 .. 1]
        /\ Admins \subseteq {e \in Emails : accounts'[e] = 1}
        /\ auth' \subseteq AuthRec /\ acts' \in Nat
        /\ SessionAgrees' /\ Guarded'
    BY AuthInv, TabInv DEF SessionStep, ReloadStep, FrontendInv
  <1> QED
    BY <1>1, <1>2 DEF FrontendInv

\* The sums of the shop, computed at different times.
LEMMA ShopStepInv ==
  ASSUME FrontendInv, ShopNext
  PROVE  FrontendInv'
  <1> DEFINE Same == UNCHANGED <<accounts, auth, user, stored, meddled>> /\ acts' \in Nat
  <1>1. SumsInv
    BY DEF FrontendInv
  <1>2. CASE ListProducts \/ \E n \in 0 .. MaxQty : SetQty(n)
    <2>1. /\ Same /\ path' = path /\ (cart' = cart \/ cart' \in 0 .. MaxQty)
          /\ UNCHANGED <<price, carried, intent, paid, total, repriced>>
      BY <1>2 DEF FrontendInv, ListProducts, SetQty, sessionVars
    <2>2. SumsInv'
      BY <1>1, <2>1, ShopAssumption DEF SumsInv, ChargedAtOnePrice, SummaryTotal
    <2> QED
      BY <2>1, <2>2 DEF FrontendInv, SessionAgrees, Guarded
  <1>3. CASE GoToCheckout
    <2>1. SumsInv'
      <3> DEFINE c == [qty |-> cart, price |-> listed]
      <3>1. c.qty \in Nat \ {0} /\ MountShop(c) /\ price' = price
        BY <1>1, <1>3 DEF GoToCheckout, SumsInv
      <3> HIDE DEF c
      <3> QED
        BY <1>1, <3>1, Mounted
    <2>2. Same /\ path = "products" /\ path' = "checkout"
      BY <1>3 DEF FrontendInv, GoToCheckout, Act
    <2>3. Guarded'
      BY <2>2 DEF FrontendInv, Guarded, Route, Public, AdminPages
    <2> QED
      BY <2>1, <2>2, <2>3 DEF FrontendInv, SessionAgrees
  <1>4. CASE CreateIntent \/ NoCardForm
    <2>1. Same /\ path = "checkout" /\ path' = path /\ intent.step = "asked"
          /\ UNCHANGED <<price, cart, carried, paid>>
      BY <1>4 DEF FrontendInv, CreateIntent, NoCardForm, sessionVars
    <2>2. /\ intent'.step \in {"made", "none"}
          /\ intent'.step = "made" => /\ intent'.charge = AtLeast(MinCharge, intent'.total)
                                      /\ intent'.total = carried.qty * price
          /\ intent'.total # 0 => intent'.total = carried.qty * price
      BY <1>4 DEF CreateIntent, NoCardForm
    <2>3. carried.qty * price # 0
      BY <1>1, <2>1 DEF SumsInv
    <2>4. SumsInv'
      BY <1>1, <2>1, <2>2, <2>3 DEF SumsInv, ChargedAtOnePrice
    <2> QED
      BY <2>1, <2>4 DEF FrontendInv, SessionAgrees, Guarded
  <1>5. CASE Pay
    <2>1. /\ Same /\ path = "checkout" /\ path' = path
          /\ intent.step = "made" /\ paid' = intent.charge
          /\ UNCHANGED <<price, cart, carried, intent, repriced>>
      BY <1>5 DEF FrontendInv, Pay, sessionVars
    <2>2. SumsInv'
      BY <1>1, <2>1 DEF SumsInv, ChargedAtOnePrice
    <2> QED
      BY <2>1, <2>2 DEF FrontendInv, SessionAgrees, Guarded
  <1>6. CASE PlaceOrder
    <2>1. /\ Same /\ path = "checkout" /\ path' = "order"
          /\ total' = carried.qty * price
          /\ UNCHANGED <<price, cart, carried, intent, paid, repriced>>
      BY <1>6 DEF FrontendInv, PlaceOrder
    <2>2. SumsInv'
      <3>1. paid # 0 => intent.total # 0 /\ paid = AtLeast(MinCharge, intent.total)
        BY <1>1 DEF SumsInv
      <3>2. ~repriced => /\ intent.total # 0 => intent.total = total'
                         /\ paid # 0 => intent.total = total'
        BY <1>1, <2>1 DEF SumsInv
      <3> QED
        BY <1>1, <2>1, <3>1, <3>2 DEF SumsInv, ChargedAtOnePrice, SummaryTotal
    <2>3. Guarded'
      BY <2>1 DEF FrontendInv, Guarded, Route, Public, AdminPages
    <2> QED
      BY <2>1, <2>2, <2>3 DEF FrontendInv, SessionAgrees
  <1>7. CASE \E p \in Prices : EditPrice(p)
    <2>1. /\ Same /\ path \in {"products", "checkout"} /\ path' = path /\ repriced' = TRUE
          /\ UNCHANGED <<cart, carried, intent, paid>> /\ price' \in Prices
      BY <1>7 DEF FrontendInv, EditPrice, Act
    <2>2. SumsInv'
      BY <1>1, <2>1, ShopAssumption DEF SumsInv, ChargedAtOnePrice
    <2> QED
      BY <2>1, <2>2 DEF FrontendInv, SessionAgrees, Guarded
  <1> QED
    BY <1>2, <1>3, <1>4, <1>5, <1>6, <1>7 DEF ShopNext

\* The consoles neither sign anybody in nor touch the shop.
LEMMA ConsoleStepInv ==
  ASSUME FrontendInv, ConsoleNext, UNCHANGED shopVars
  PROVE  FrontendInv'
  <1>1. /\ UNCHANGED <<accounts, auth, user, stored, meddled, path>>
        /\ acts' = acts \/ acts' = acts + 1
    BY DEF Act, ConsoleNext, OrderStep, StartLoad, ReadPart, HearLoad, LoadRefused, LoadFails,
           Ask, QueryAnswered, QueryFails, QueryLost, Reveal, Fault, sessionVars
  <1>2. SumsInv'
    BY <1>1, SumsKept DEF FrontendInv
  <1> QED
    BY <1>1, <1>2 DEF FrontendInv, SessionAgrees, Guarded

-----------------------------------------------------------------------------
(* The invariant *)

LEMMA NextInv == FrontendInv /\ [Next]_vars => FrontendInv'
  <1> SUFFICES ASSUME FrontendInv, [Next]_vars PROVE FrontendInv'
    OBVIOUS
  <1>1. CASE SessionStep \/ ReloadStep
    BY <1>1, SessionStepInv
  <1>2. CASE ShopStep
    BY <1>2, ShopStepInv DEF ShopStep
  <1>3. CASE ConsoleStep
    BY <1>3, ConsoleStepInv DEF ConsoleStep
  <1>4. CASE UNCHANGED vars
    <2>1. UNCHANGED <<accounts, auth, user, stored, meddled, path, acts, shopVars>>
      BY <1>4 DEF vars, sessionVars
    <2> QED
      BY <2>1, SumsKept DEF FrontendInv, SessionAgrees, Guarded
  <1> QED
    BY <1>1, <1>2, <1>3, <1>4 DEF Next

\* The inductive invariant holds on every behaviour of the tab.
THEOREM FrontendInvariant == Spec => []FrontendInv
  BY InitInv, NextInv, PTL DEF Spec

-----------------------------------------------------------------------------
(* What follows from it *)

\* However registrations overlap, an email has one account at most.
THEOREM EmailsAreUnique == Spec => []OneAccountPerEmail
  <1>1. FrontendInv => OneAccountPerEmail
    BY DEF FrontendInv, OneAccountPerEmail
  <1> QED
    BY <1>1, FrontendInvariant, PTL

\* The stored user is the one shown unless another tab has written it since.
THEOREM SessionsAgree == Spec => []SessionAgrees
  <1>1. FrontendInv => SessionAgrees
    BY DEF FrontendInv
  <1> QED
    BY <1>1, FrontendInvariant, PTL

\* No page is shown to a user who may not see it, however late sign-ins are
\* answered and whatever was written in other tabs.
THEOREM PagesAreGuarded == Spec => []Guarded
  <1>1. FrontendInv => Guarded
    BY DEF FrontendInv
  <1> QED
    BY <1>1, FrontendInvariant, PTL

\* A card is charged what the checkout page showed, or the minimum, whatever is
\* edited; the order is billed the same unless the price was edited in between.
THEOREM SumsAgree == Spec => []ChargedAtOnePrice
  <1>1. FrontendInv => ChargedAtOnePrice
    BY DEF FrontendInv, SumsInv
  <1> QED
    BY <1>1, FrontendInvariant, PTL

-----------------------------------------------------------------------------
(* The copilot: the orders it speaks of *)

\* The events of an order stay, and so does its verdict.
Grows(o) == log[o] \subseteq log'[o] /\ (row[o] \in Verdicts => row'[o] = row[o])

\* Every transaction adds events to the log of one order.
LEMMA OrderMoves ==
  ASSUME OrdersInv, NEW p \in Orders, Progress(p)
  PROVE  /\ row' \in [Orders -> Verdicts \cup {"PENDING"}]
         /\ log' \in [Orders -> SUBSET LogTypes]
         /\ \A o \in Orders : LogInv(o)' /\ Grows(o)
         /\ log'[p] \ log[p] # {}
  <1> USE DEF Verdicts, LogTypes
  <1>1. /\ row \in [Orders -> Verdicts \cup {"PENDING"}]
        /\ log \in [Orders -> SUBSET LogTypes] /\ LogInv(p)
    BY DEF OrdersInv
  <1>2. ASSUME NEW T \in SUBSET LogTypes, NEW r \in Verdicts \cup {"PENDING"},
               log' = [log EXCEPT ![p] = @ \cup T], row' = [row EXCEPT ![p] = r],
               LogInv(p)', Grows(p), \E t \in T : t \notin log[p]
        PROVE  /\ row' \in [Orders -> Verdicts \cup {"PENDING"}]
               /\ log' \in [Orders -> SUBSET LogTypes]
               /\ \A o \in Orders : LogInv(o)' /\ Grows(o)
               /\ log'[p] \ log[p] # {}
    <2>1. /\ row' \in [Orders -> Verdicts \cup {"PENDING"}]
          /\ log' \in [Orders -> SUBSET LogTypes] /\ log'[p] = log[p] \cup T
      BY <1>1, <1>2
    <2>2. ASSUME NEW o \in Orders, o # p PROVE LogInv(o)' /\ Grows(o)
      <3>1. row'[o] = row[o] /\ log'[o] = log[o] /\ LogInv(o)
        BY <1>1, <1>2, <2>2 DEF OrdersInv
      <3> QED
        BY <3>1 DEF LogInv, Grows
    <2> QED
      BY <1>2, <2>1, <2>2
  <1>3. ASSUME NEW t \in LogTypes, AnswerStock(p, t) \/ LogPayment(p, t)
        PROVE  /\ log' = [log EXCEPT ![p] = @ \cup {t}] /\ t \notin log[p]
               /\ row' = [row EXCEPT ![p] = row[p]]
               /\ LogInv(p)' /\ Grows(p)
    <2>1. /\ log' = [log EXCEPT ![p] = @ \cup {t}]
          /\ row' = row
      BY <1>3 DEF AnswerStock, LogPayment, Record
    <2>2. log'[p] = log[p] \cup {t} /\ row'[p] = row[p] /\ row' = [row EXCEPT ![p] = row[p]]
      BY <1>1, <2>1
    <2>3. CASE AnswerStock(p, t)
      <3>1. /\ t \in {"InventoryReserved", "InventoryFailed"} /\ row[p] = "PENDING"
            /\ "InventoryReserved" \notin log[p] /\ "InventoryFailed" \notin log[p]
        BY <2>3 DEF AnswerStock
      <3> QED
        BY <1>1, <2>1, <2>2, <3>1 DEF LogInv, Grows
    <2>4. CASE LogPayment(p, t)
      <3>1. /\ "InventoryReserved" \in log[p]
            /\ "PaymentCompleted" \notin log[p] /\ "PaymentFailed" \notin log[p]
            /\ \/ t = "PaymentCompleted" /\ row[p] # "FAILED"
               \/ t = "PaymentFailed" /\ row[p] # "CONFIRMED"
        BY <2>4 DEF LogPayment
      <3> QED
        BY <1>1, <2>1, <2>2, <3>1 DEF LogInv, Grows
    <2> QED
      BY <1>3, <2>3, <2>4
  <1>4. CASE \E t \in LogTypes : AnswerStock(p, t) \/ LogPayment(p, t)
    <2>1. PICK t \in LogTypes : AnswerStock(p, t) \/ LogPayment(p, t)
      BY <1>4
    <2>2. row[p] \in Verdicts \cup {"PENDING"} /\ {t} \in SUBSET LogTypes
      BY <1>1
    <2> QED
      BY <1>2, <1>3, <2>1, <2>2
  <1>5. ASSUME NEW T, NEW v \in Verdicts, Decide(p, v), Record(p, T)
        PROVE  /\ row[p] = "PENDING" /\ row'[p] = v /\ log'[p] = log[p] \cup T
               /\ row' = [row EXCEPT ![p] = v] /\ log' = [log EXCEPT ![p] = @ \cup T]
    BY <1>1, <1>5 DEF Decide, Record
  <1>6. CASE Confirm(p)
    <2>1. "InventoryReserved" \in log[p] /\ "PaymentFailed" \notin log[p]
          /\ Decide(p, "CONFIRMED") /\ Record(p, {"OrderConfirmed"})
      BY <1>6 DEF Confirm
    <2>2. /\ row[p] = "PENDING" /\ row'[p] = "CONFIRMED"
          /\ log'[p] = log[p] \cup {"OrderConfirmed"}
      BY <1>5, <2>1
    <2>3. LogInv(p)'
      BY <1>1, <2>1, <2>2 DEF LogInv
    <2>4. Grows(p) /\ "OrderConfirmed" \notin log[p]
      BY <1>1, <2>2 DEF LogInv, Grows
    <2> QED
      BY <1>2, <1>5, <2>1, <2>3, <2>4
  <1>7. CASE FailPayment(p)
    <2>1. "InventoryReserved" \in log[p] /\ "PaymentCompleted" \notin log[p]
          /\ Decide(p, "FAILED") /\ Record(p, {"ReleaseInventory", "OrderFailed"})
      BY <1>7 DEF FailPayment
    <2>2. /\ row[p] = "PENDING" /\ row'[p] = "FAILED"
          /\ log'[p] = log[p] \cup {"ReleaseInventory", "OrderFailed"}
      BY <1>5, <2>1
    <2>3. LogInv(p)'
      BY <1>1, <2>1, <2>2 DEF LogInv
    <2>4. Grows(p) /\ "OrderFailed" \notin log[p]
      BY <1>1, <2>2 DEF LogInv, Grows
    <2> QED
      BY <1>2, <1>5, <2>1, <2>3, <2>4
  <1>8. CASE FailStock(p)
    <2>1. "InventoryFailed" \in log[p]
          /\ Decide(p, "FAILED") /\ Record(p, {"OrderFailed"})
      BY <1>8 DEF FailStock
    <2>2. /\ row[p] = "PENDING" /\ row'[p] = "FAILED"
          /\ log'[p] = log[p] \cup {"OrderFailed"}
      BY <1>5, <2>1
    <2>3. LogInv(p)'
      BY <1>1, <2>1, <2>2 DEF LogInv
    <2>4. Grows(p) /\ "OrderFailed" \notin log[p]
      BY <1>1, <2>2 DEF LogInv, Grows
    <2> QED
      BY <1>2, <1>5, <2>1, <2>3, <2>4
  <1> QED
    BY <1>4, <1>6, <1>7, <1>8 DEF Progress

-----------------------------------------------------------------------------
(* The engines: what they say of a sound snapshot is true *)

\* The order an answer is about is listed in the snapshot.
LEMMA ResolvedIsListed ==
  ASSUME NEW q, NEW c, DOMAIN c.orders \subseteq Nat, NEW r
  PROVE  \/ ResolveOrder(q, c, r) = NoOrder
         \/ ResolveOrder(q, c, r) \in Range(c.orders)
  <1> DEFINE named == {i \in DOMAIN c.orders : c.orders[i].order = q.names}
             liked == {i \in DOMAIN c.orders : c.orders[i].row = r}
             found == IF named # {} THEN named ELSE IF liked # {} THEN liked ELSE DOMAIN c.orders
  <1>1. found \in SUBSET DOMAIN c.orders
    OBVIOUS
  <1>2. ResolveOrder(q, c, r) = IF found = {} THEN NoOrder ELSE c.orders[Min(found)]
    BY DEF ResolveOrder
  <1> HIDE DEF found
  <1>3. CASE found # {}
    <2>1. PICK n \in found : \A m \in found : n <= m
      BY <1>1, <1>3, LeastNatural
    <2>2. Min(found) \in found
      BY <2>1 DEF Min
    <2> QED
      BY <1>1, <1>2, <1>3, <2>2 DEF Range
  <1> QED
    BY <1>2, <1>3

\* The parts of a statement.
LEMMA SayParts ==
  /\ \A w, o : Say(w, o).says = w /\ Say(w, o).of = o
  /\ \A W, o : \A s \in SayAll(W, o) : s.says \in W /\ s.of = o
  BY DEF Say, SayAll

\* Statements about nothing, and of other words, are true of the orders.
LEMMA Harmless ==
  ASSUME NEW S, \A s \in S : s.of = 0 \/ s.says \notin FailWords \cup PaidWords
  PROVE  Truthful(S)
  BY ConsoleAssumption DEF Truthful

\* Truths may be put together.
LEMMA TruthOfAll ==
  /\ \A S, T : Truthful(S) /\ Truthful(T) => Truthful(S \cup T)
  /\ \A F : (\A S \in F : Truthful(S)) => Truthful(UNION F)
  BY DEF Truthful

\* Of one order, statements may be judged by their words.
LEMMA TruthOfOne ==
  ASSUME NEW W, NEW o,
         o \in Orders /\ W \cap FailWords # {} => Uncharged(o),
         o \in Orders /\ W \cap PaidWords # {} => Charged(o)
  PROVE  Truthful(SayAll(W, o))
  BY SayParts DEF Truthful

\* What an answer finds out about the order it is about.
LEMMA Resolved ==
  ASSUME NEW q, NEW c, SnapInv(c), NEW r, NEW x, x = ResolveOrder(q, c, r), x # NoOrder
  PROVE  /\ x \in Range(c.orders)
         /\ x.row \in {"CONFIRMED", "FAILED", "PENDING"}
         /\ x.order \in Orders /\ x.row # "PENDING" => row[x.order] = x.row
  <1>1. x \in Range(c.orders)
    BY ResolvedIsListed DEF SnapInv
  <1> QED
    BY <1>1 DEF SnapInv, Verdicts

\* The text of a status.
LEMMA StatusText ==
  ASSUME NEW r \in {"CONFIRMED", "FAILED", "PENDING"}
  PROVE  Status[r] = IF r = "CONFIRMED" THEN "is-CONFIRMED"
                     ELSE IF r = "FAILED" THEN "is-FAILED" ELSE "is-PENDING"
  <1>1. Status["CONFIRMED"] = "is-CONFIRMED" /\ Status["FAILED"] = "is-FAILED"
        /\ Status["PENDING"] = "is-PENDING"
    BY DEF Status
  <1> QED
    BY <1>1

\* Failures are told of failed orders only.
LEMMA FailureTrue ==
  ASSUME NEW q, NEW c, SnapInv(c)
  PROVE  Truthful(AnswerOrderFailure(q, c)) /\ Truthful(RuleFailure(q, c))
  <1> DEFINE x == ResolveOrder(q, c, "FAILED")
             R == EventsFor(c, x.order) \cap {"InventoryReserved"}
             A == AnswerOrderFailure(q, c)
  <1>1. A = IF x = NoOrder THEN NotEnough
            ELSE IF x.row # "FAILED" THEN SayAll({"did-not-fail", Status[x.row]}, x.order)
            ELSE SayAll({"is-FAILED", "payment-declined"} \cup Compensated \cup R, x.order)
    BY DEF AnswerOrderFailure
  <1>2. RuleFailure(q, c) = IF x.row # "FAILED" THEN A
                            ELSE A \cup {Say("InventoryReserved", x.order)}
    BY DEF RuleFailure
  <1>3. R \subseteq {"InventoryReserved"}
    OBVIOUS
  <1>4. x # NoOrder => /\ x.row \in {"CONFIRMED", "FAILED", "PENDING"}
                       /\ x.order \in Orders /\ x.row # "PENDING" => row[x.order] = x.row
    BY Resolved
  <1> HIDE DEF x, R, A
  <1>5. Truthful(A)
    <2>1. CASE x = NoOrder
      <3>1. Truthful(NotEnough)
        BY Harmless, SayParts DEF NotEnough
      <3> QED
        BY <1>1, <2>1, <3>1
    <2>2. CASE x # NoOrder /\ x.row # "FAILED"
      <3>1. {"did-not-fail", Status[x.row]} \cap FailWords = {}
        BY <1>4, <2>2, StatusText DEF FailWords
      <3>2. {"did-not-fail", Status[x.row]} \cap PaidWords # {} => x.row = "CONFIRMED"
        BY <1>4, <2>2, StatusText DEF PaidWords
      <3>3. Truthful(SayAll({"did-not-fail", Status[x.row]}, x.order))
        BY <1>4, <2>2, <3>1, <3>2, TruthOfOne DEF Charged
      <3> QED
        BY <1>1, <2>2, <3>3
    <2>3. CASE x # NoOrder /\ x.row = "FAILED"
      <3> DEFINE W == {"is-FAILED", "payment-declined"} \cup Compensated \cup R
      <3>1. W \cap PaidWords = {}
        BY <1>3 DEF Compensated, PaidWords
      <3> HIDE DEF W
      <3>2. Truthful(SayAll(W, x.order))
        BY <1>4, <2>3, <3>1, TruthOfOne DEF Uncharged
      <3> QED
        BY <1>1, <2>3, <3>2 DEF W
    <2> QED
      BY <2>1, <2>2, <2>3
  <1>6. Truthful({Say("InventoryReserved", x.order)})
    <2>1. "InventoryReserved" \notin FailWords \cup PaidWords
      BY DEF FailWords, PaidWords
    <2>2. Say("InventoryReserved", x.order).says = "InventoryReserved"
      BY SayParts
    <2> QED
      BY <2>1, <2>2, Harmless
  <1> QED
    BY <1>2, <1>5, <1>6, TruthOfAll DEF A

\* What the lifecycle of a listed order tells: its status, and steps that the
\* status has caught up with.
LEMMA LifecycleWords ==
  ASSUME NEW q, NEW c, SnapInv(c), NEW x, x = ResolveOrder(q, c, "CONFIRMED"), x # NoOrder
  PROVE  \E W : /\ AnswerOrderLifecycle(q, c) = SayAll(W, x.order)
                /\ Status[x.row] \in W
                /\ "turned-CONFIRMED" \in W => x.row = "CONFIRMED"
                /\ "turned-FAILED" \in W => x.row = "FAILED"
                /\ x.order \in Orders /\ W \cap FailWords # {} => Uncharged(x.order)
                /\ x.order \in Orders /\ W \cap PaidWords # {} => Charged(x.order)
  <1> DEFINE T == EventsFor(c, x.order)
             Told == IF T = {} THEN DefaultLifecycle(x.row) ELSE Steps(T)
             W == {Status[x.row]} \cup Told
  <1>1. AnswerOrderLifecycle(q, c) = SayAll(W, x.order)
    BY DEF AnswerOrderLifecycle
  <1>2. /\ x \in Range(c.orders)
        /\ x.row \in {"CONFIRMED", "FAILED", "PENDING"}
        /\ x.order \in Orders /\ x.row # "PENDING" => row[x.order] = x.row
    BY Resolved
  <1>3. /\ T \subseteq LogTypes
        /\ "OrderConfirmed" \in T => x.row = "CONFIRMED"
        /\ "OrderFailed" \in T => x.row = "FAILED"
        /\ x.order \in Orders => T \subseteq log[x.order]
    BY <1>2 DEF EventsFor, SnapInv
  <1> HIDE DEF T
  <1>4. ASSUME NEW w \in Steps(T)
        PROVE  /\ w \notin {"is-FAILED", "is-CONFIRMED", "not-charged"}
               /\ w = "charged" => "PaymentCompleted" \in T
               /\ w = "turned-CONFIRMED" => "OrderConfirmed" \in T
               /\ w = "turned-FAILED" => "OrderFailed" \in T
    <2>1. PICK t \in T : w \in StepText(t)
      BY <1>4 DEF Steps
    <2> QED
      BY <1>3, <2>1 DEF StepText, LogTypes
  <1>5. ASSUME NEW w \in DefaultLifecycle(x.row)
        PROVE  /\ w \notin {"is-FAILED", "is-CONFIRMED", "not-charged"}
               /\ w \in {"charged", "turned-CONFIRMED"} => x.row = "CONFIRMED"
               /\ w = "turned-FAILED" => x.row = "FAILED"
    BY <1>2, <1>5 DEF DefaultLifecycle, Steps, StepText
  <1>6. ASSUME NEW w \in Told
        PROVE  /\ w \notin {"is-FAILED", "is-CONFIRMED", "not-charged"}
               /\ w = "charged" => x.row = "CONFIRMED" \/ "PaymentCompleted" \in T
               /\ w = "turned-CONFIRMED" => x.row = "CONFIRMED"
               /\ w = "turned-FAILED" => x.row = "FAILED"
    BY <1>3, <1>4, <1>5, <1>6
  <1> HIDE DEF Told
  <1>7. Status[x.row] = IF x.row = "CONFIRMED" THEN "is-CONFIRMED"
                        ELSE IF x.row = "FAILED" THEN "is-FAILED" ELSE "is-PENDING"
    BY <1>2, StatusText
  <1>8. "turned-CONFIRMED" \in W => x.row = "CONFIRMED"
    BY <1>6, <1>7
  <1>9. "turned-FAILED" \in W => x.row = "FAILED"
    BY <1>6, <1>7
  <1>10. W \cap FailWords # {} => x.row = "FAILED"
    BY <1>6, <1>7 DEF FailWords
  <1>11. W \cap PaidWords # {} => x.row = "CONFIRMED" \/ "PaymentCompleted" \in T
    BY <1>6, <1>7 DEF PaidWords
  <1>12. Status[x.row] \in W
    OBVIOUS
  <1> HIDE DEF W
  <1> WITNESS W
  <1> QED
    BY <1>1, <1>2, <1>3, <1>8, <1>9, <1>10, <1>11, <1>12 DEF Uncharged, Charged

LEMMA LifecycleTrue ==
  ASSUME NEW q, NEW c, SnapInv(c)
  PROVE  Truthful(AnswerOrderLifecycle(q, c)) /\ Truthful(RuleLifecycle(q, c))
  <1> DEFINE x == ResolveOrder(q, c, "CONFIRMED")
  <1>1. AnswerOrderLifecycle(q, c) = NotEnough \/ x # NoOrder
    BY DEF AnswerOrderLifecycle
  <1>2. Truthful(NotEnough)
    BY Harmless, SayParts DEF NotEnough
  <1>3. x # NoOrder => \E W : /\ AnswerOrderLifecycle(q, c) = SayAll(W, x.order)
                              /\ x.order \in Orders /\ W \cap FailWords # {} => Uncharged(x.order)
                              /\ x.order \in Orders /\ W \cap PaidWords # {} => Charged(x.order)
    BY LifecycleWords
  <1>4. Truthful(AnswerOrderLifecycle(q, c))
    BY <1>1, <1>2, <1>3, TruthOfOne
  <1>5. x # NoOrder => Truthful(SayAll({Status[x.row], "OrderCreated"}, x.order))
    <2> SUFFICES ASSUME x # NoOrder PROVE Truthful(SayAll({Status[x.row], "OrderCreated"}, x.order))
      OBVIOUS
    <2>1. /\ x.row \in {"CONFIRMED", "FAILED", "PENDING"}
          /\ x.order \in Orders /\ x.row # "PENDING" => row[x.order] = x.row
      BY Resolved
    <2> HIDE DEF x
    <2>2. Status[x.row] = IF x.row = "CONFIRMED" THEN "is-CONFIRMED"
                          ELSE IF x.row = "FAILED" THEN "is-FAILED" ELSE "is-PENDING"
      BY <2>1, StatusText
    <2>3. {Status[x.row], "OrderCreated"} \cap FailWords # {} => x.row = "FAILED"
      BY <2>2 DEF FailWords
    <2>4. {Status[x.row], "OrderCreated"} \cap PaidWords # {} => x.row = "CONFIRMED"
      BY <2>2 DEF PaidWords
    <2> QED
      BY <2>1, <2>3, <2>4, TruthOfOne DEF Uncharged, Charged
  <1>6. \/ RuleLifecycle(q, c) = AnswerOrderLifecycle(q, c)
        \/ x # NoOrder /\ RuleLifecycle(q, c) = SayAll({Status[x.row], "OrderCreated"}, x.order)
    BY DEF RuleLifecycle
  <1> QED
    BY <1>4, <1>5, <1>6

\* The other answers speak of payments that failed, or of no order at all.
LEMMA PaymentsTrue ==
  ASSUME NEW c, SnapInv(c)
  PROVE  Truthful(AnswerFailedPayments(c)) /\ Truthful(RuleFailedPayments(c))
  <1> DEFINE failures == IF Declined(c) # {} THEN Declined(c) ELSE Listed(c, "FAILED")
             W == {"payment-declined"} \cup Compensated
  <1>1. ASSUME NEW o \in failures PROVE Truthful(SayAll(W, o))
    <2>1. o \in Orders => Uncharged(o)
      <3>1. CASE o \in Declined(c)
        BY <3>1 DEF Declined, SnapInv, Uncharged
      <3>2. CASE o \in Listed(c, "FAILED")
        BY <3>2 DEF Listed, SnapInv, Uncharged, Verdicts
      <3> QED
        BY <1>1, <3>1, <3>2
    <2>2. W \cap PaidWords = {}
      BY DEF Compensated, PaidWords
    <2> HIDE DEF W
    <2> QED
      BY <2>1, <2>2, TruthOfOne
  <1> HIDE DEF failures, W
  <1>2. Truthful(UNION {SayAll(W, o) : o \in failures})
    BY <1>1 DEF Truthful
  <1>3. AnswerFailedPayments(c) \in {{Say("no-failed-payments", 0)},
                                     UNION {SayAll(W, o) : o \in failures}}
    BY DEF AnswerFailedPayments, failures, W
  <1>4. \A w : Truthful({Say(w, 0)})
    BY Harmless, SayParts
  <1> QED
    BY <1>2, <1>3, <1>4 DEF RuleFailedPayments

LEMMA SystemTrue ==
  ASSUME NEW c
  PROVE  \A A \in {AnswerIncidentReport(c), AnswerSaga, AnswerPaymentWorkflow,
                   AnswerServiceHealth(c), AnswerMetricsSummary(c)} :
           \A s \in A : s.of = 0
  <1>1. \A s \in AnswerIncidentReport(c) : s.of = 0
    BY SayParts DEF AnswerIncidentReport
  <1>2. \A s \in AnswerPaymentWorkflow : s.of = 0
    BY SayParts DEF AnswerPaymentWorkflow
  <1>3. \A s \in AnswerSaga : s.of = 0
    BY <1>2, SayParts DEF AnswerSaga
  <1>4. \A s \in AnswerServiceHealth(c) : s.of = 0
    BY SayParts DEF AnswerServiceHealth
  <1>5. \A s \in AnswerMetricsSummary(c) : s.of = 0
    BY SayParts DEF AnswerMetricsSummary
  <1> QED
    BY <1>1, <1>2, <1>3, <1>4, <1>5

\* Whatever is asked, the browser's engine gives one of its answers.
LEMMA AnswersOfCopilot ==
  ASSUME NEW q, NEW c
  PROVE  RunCopilot(q, c) \in {AnswerIncidentReport(c), AnswerSaga, AnswerPaymentWorkflow,
                               AnswerServiceHealth(c), AnswerMetricsSummary(c),
                               AnswerOrderFailure(q, c), AnswerOrderLifecycle(q, c),
                               AnswerFailedPayments(c)}
  <1> DEFINE p == Intent(q)
  <1>1. RunCopilot(q, c) =
          CASE p = "incident"        -> AnswerIncidentReport(c)
            [] p = "saga"            -> AnswerSaga
            [] p = "payment-workflow" -> AnswerPaymentWorkflow
            [] p = "failure"         -> AnswerOrderFailure(q, c)
            [] p = "lifecycle"       -> AnswerOrderLifecycle(q, c)
            [] p = "health"          -> AnswerServiceHealth(c)
            [] p = "failed-payments" -> AnswerFailedPayments(c)
            [] OTHER                 -> AnswerMetricsSummary(c)
    BY DEF RunCopilot
  <1> HIDE DEF p
  <1> QED
    BY <1>1

\* The browser's engine and order-service's, whatever is asked.
LEMMA EnginesTrue ==
  ASSUME NEW q, NEW c, SnapInv(c)
  PROVE  Truthful(RunCopilot(q, c)) /\ Truthful(RuleAnswer(q, c))
  <1> DEFINE Answers == {AnswerIncidentReport(c), AnswerSaga, AnswerPaymentWorkflow,
                         AnswerServiceHealth(c), AnswerMetricsSummary(c),
                         AnswerOrderFailure(q, c), AnswerOrderLifecycle(q, c),
                         AnswerFailedPayments(c)}
             RuleAnswers == {RuleFailure(q, c), RuleLifecycle(q, c), RuleFailedPayments(c)}
  <1>1. RunCopilot(q, c) \in Answers
    BY AnswersOfCopilot
  <1>2. RuleAnswer(q, c) \in RuleAnswers \cup {RunCopilot(q, c)}
    <2> DEFINE p == Intent(q)
    <2>1. RuleAnswer(q, c) =
            CASE p = "failure"         -> RuleFailure(q, c)
              [] p = "lifecycle"       -> RuleLifecycle(q, c)
              [] p = "failed-payments" -> RuleFailedPayments(c)
              [] OTHER                 -> RunCopilot(q, c)
      BY DEF RuleAnswer
    <2> HIDE DEF p
    <2> QED
      BY <2>1
  <1>3. \A A \in {AnswerIncidentReport(c), AnswerSaga, AnswerPaymentWorkflow,
                  AnswerServiceHealth(c), AnswerMetricsSummary(c)} : Truthful(A)
    BY SystemTrue, Harmless
  <1>4. \A A \in Answers : Truthful(A)
    BY <1>3, FailureTrue, LifecycleTrue, PaymentsTrue
  <1>5. \A A \in RuleAnswers : Truthful(A)
    BY FailureTrue, LifecycleTrue, PaymentsTrue
  <1> HIDE DEF Answers, RuleAnswers
  <1> QED
    BY <1>1, <1>2, <1>4, <1>5

\* Only the lifecycle tells of a turn, and it tells the status as well.
LEMMA TurnsFitStatus ==
  ASSUME NEW q, NEW c, SnapInv(c), NEW s \in RunCopilot(q, c)
  PROVE  /\ s.says = "turned-CONFIRMED" => Say("is-CONFIRMED", s.of) \in RunCopilot(q, c)
         /\ s.says = "turned-FAILED" => Say("is-FAILED", s.of) \in RunCopilot(q, c)
  <1> DEFINE Turns == {"turned-CONFIRMED", "turned-FAILED"}
             Plain(A) == \A t \in A : t.says \notin Turns
  <1>1. CASE RunCopilot(q, c) = AnswerOrderLifecycle(q, c)
    <2> DEFINE x == ResolveOrder(q, c, "CONFIRMED")
    <2>1. CASE x = NoOrder
      <3>1. s = Say("not-enough-information", 0)
        BY <1>1, <2>1 DEF AnswerOrderLifecycle, NotEnough
      <3> QED
        BY <3>1, SayParts
    <2>2. CASE x # NoOrder
      <3>1. PICK W : /\ AnswerOrderLifecycle(q, c) = SayAll(W, x.order)
                     /\ Status[x.row] \in W
                     /\ "turned-CONFIRMED" \in W => x.row = "CONFIRMED"
                     /\ "turned-FAILED" \in W => x.row = "FAILED"
        BY <2>2, LifecycleWords
      <3>2. s.of = x.order /\ s.says \in W
        BY <1>1, <3>1, SayParts
      <3>3. Say(Status[x.row], s.of) \in RunCopilot(q, c)
        BY <1>1, <3>1, <3>2 DEF SayAll
      <3>4. Status["CONFIRMED"] = "is-CONFIRMED" /\ Status["FAILED"] = "is-FAILED"
        BY DEF Status
      <3> HIDE DEF x
      <3> QED
        BY <3>1, <3>2, <3>3, <3>4
    <2> QED
      BY <2>1, <2>2
  <1>2. CASE Plain(RunCopilot(q, c))
    BY <1>2
  <1>3. Plain(AnswerOrderFailure(q, c))
    <2> DEFINE x == ResolveOrder(q, c, "FAILED")
               A == AnswerOrderFailure(q, c)
    <2>1. \/ A = NotEnough
          \/ x # NoOrder /\ x.row # "FAILED" /\ A = SayAll({"did-not-fail", Status[x.row]}, x.order)
          \/ \E R \in SUBSET {"InventoryReserved"} :
               A = SayAll({"is-FAILED", "payment-declined"} \cup Compensated \cup R, x.order)
      BY DEF AnswerOrderFailure
    <2>2. x # NoOrder => Status[x.row] \in {"is-CONFIRMED", "is-FAILED", "is-PENDING"}
      BY Resolved, StatusText
    <2> HIDE DEF x, A
    <2>3. CASE A = NotEnough
      BY <2>3, SayParts DEF NotEnough, A
    <2>4. CASE x # NoOrder /\ A = SayAll({"did-not-fail", Status[x.row]}, x.order)
      BY <2>2, <2>4, SayParts DEF A
    <2>5. ASSUME NEW R \in SUBSET {"InventoryReserved"},
                 A = SayAll({"is-FAILED", "payment-declined"} \cup Compensated \cup R, x.order)
          PROVE  Plain(A)
      <3> DEFINE W == {"is-FAILED", "payment-declined"} \cup Compensated \cup R
      <3>1. W \cap Turns = {}
        BY DEF Compensated
      <3> HIDE DEF W
      <3> QED
        BY <2>5, <3>1, SayParts DEF W
    <2> QED
      BY <2>1, <2>3, <2>4, <2>5 DEF A
  <1>4. Plain(AnswerFailedPayments(c))
    <2>1. ASSUME NEW t \in AnswerFailedPayments(c)
          PROVE  t.says \in {"no-failed-payments", "payment-declined"} \cup Compensated
      BY <2>1, SayParts DEF AnswerFailedPayments
    <2> QED
      BY <2>1 DEF Compensated
  <1>5. Plain(AnswerIncidentReport(c)) /\ Plain(AnswerPaymentWorkflow) /\ Plain(AnswerSaga)
    BY SayParts DEF AnswerIncidentReport, AnswerPaymentWorkflow, AnswerSaga
  <1>6. Plain(SayAll(c.down, 0))
    BY SayParts DEF SnapInv, Services
  <1>7. Plain(AnswerServiceHealth(c)) /\ Plain(AnswerMetricsSummary(c))
    BY <1>6, SayParts DEF AnswerServiceHealth, AnswerMetricsSummary
  <1>8. RunCopilot(q, c) \in {AnswerIncidentReport(c), AnswerSaga, AnswerPaymentWorkflow,
                              AnswerServiceHealth(c), AnswerMetricsSummary(c),
                              AnswerOrderFailure(q, c), AnswerOrderLifecycle(q, c),
                              AnswerFailedPayments(c)}
    BY AnswersOfCopilot
  <1> QED
    BY <1>1, <1>2, <1>3, <1>4, <1>5, <1>7, <1>8

-----------------------------------------------------------------------------
(* Snapshots: what is read of the orders *)

\* The newest rows are rows.
LEMMA NewestRows ==
  ASSUME NEW S, NEW rows \in Seq(S), NEW n \in Nat
  PROVE  /\ Range(Newest(rows, n)) \subseteq Range(rows)
         /\ DOMAIN Newest(rows, n) \subseteq Nat
  <1> DEFINE m == IF Len(rows) < n THEN Len(rows) ELSE n
  <1>1. /\ Len(rows) \in Nat /\ DOMAIN rows = 1 .. Len(rows)
        /\ rows \in Seq(Range(rows))
    BY LenProperties, SeqOfRange
  <1>2. m \in Nat /\ m <= Len(rows)
    BY <1>1
  <1> HIDE DEF m
  <1>3. \A i \in 1 .. m : rows[i] \in Range(rows)
    BY <1>1, <1>2 DEF Range
  <1>4. SubSeq(rows, 1, m) \in Seq(Range(rows))
    BY <1>2, <1>3, SubSeqProperties
  <1>5. /\ Range(SubSeq(rows, 1, m)) \subseteq Range(rows)
        /\ DOMAIN SubSeq(rows, 1, m) = 1 .. Len(SubSeq(rows, 1, m))
        /\ Len(SubSeq(rows, 1, m)) \in Nat
    BY <1>4, RangeOfSeq, LenProperties
  <1>6. Newest(rows, n) = SubSeq(rows, 1, m)
    BY DEF Newest, m
  <1> QED
    BY <1>5, <1>6

\* What the two queries return.
LEMMA QueriesRead ==
  ASSUME OrdersInv
  PROVE  /\ \A e \in Range(RecentEvents) :
              e.order \in Orders /\ e.type \in LogTypes /\ e.type \in log[e.order]
         /\ DOMAIN RecentOrders \subseteq Nat
         /\ \A x \in Range(RecentOrders) : x.order \in Orders /\ x.row = row[x.order]
  <1> DEFINE rows == [i \in 1 .. Len(ByAge) |-> [order |-> ByAge[i], row |-> row[ByAge[i]]]]
             S == {[order |-> o, row |-> row[o]] : o \in Orders}
  <1>1. Range(RecentEvents) \subseteq Range(feed)
    BY NewestRows, ConsoleAssumption DEF OrdersInv, RecentEvents
  <1>2. \A e \in Range(feed) : e \in [order : Orders, type : LogTypes]
    BY RangeOfSeq DEF OrdersInv
  <1>3. Len(ByAge) \in Nat /\ \A i \in 1 .. Len(ByAge) : ByAge[i] \in Orders
    BY ConsoleAssumption, LenProperties, ElementOfSeq
  <1>4. \A i \in 1 .. Len(ByAge) : [order |-> ByAge[i], row |-> row[ByAge[i]]] \in S
    BY <1>3
  <1> DEFINE e(i) == [order |-> ByAge[i], row |-> row[ByAge[i]]]
  <1>5. rows \in Seq(S)
    <2> HIDE DEF S
    <2>1. \A i \in 1 .. Len(ByAge) : e(i) \in S
      BY <1>4
    <2> HIDE DEF e
    <2>2. [i \in 1 .. Len(ByAge) |-> e(i)] \in Seq(S)
      BY <1>3, <2>1, IsASeq
    <2> QED
      BY <2>2 DEF e
  <1>6. \A x \in Range(rows) : x \in S
    BY <1>5, RangeOfSeq
  <1>7. RecentOrders = Newest(rows, OrderLimit)
    BY DEF RecentOrders
  <1> HIDE DEF rows
  <1>8. DOMAIN RecentOrders \subseteq Nat /\ Range(RecentOrders) \subseteq Range(rows)
    BY <1>5, <1>7, NewestRows, ConsoleAssumption
  <1> QED
    BY <1>1, <1>2, <1>6, <1>8 DEF OrdersInv

\* Of the present, a snapshot without orders is sound, ...
LEMMA EventsRead ==
  ASSUME OrdersInv, NEW c, c.orders = <<>>, c.events = RecentEvents, c.down \subseteq Services
  PROVE  SnapInv(c)
  <1>1. DOMAIN c.orders = {} /\ Range(c.orders) = {}
    BY DEF Range
  <1> QED
    BY <1>1, QueriesRead DEF SnapInv

\* ... and a sound one stays so when the orders are read last.
LEMMA OrdersRead ==
  ASSUME OrdersInv, NEW d, SnapInv(d), NEW c,
         c.orders = RecentOrders, c.events = d.events, c.down = d.down
  PROVE  SnapInv(c)
  <1>1. DOMAIN c.orders \subseteq Nat
        /\ \A x \in Range(c.orders) : x.order \in Orders /\ x.row = row[x.order]
    BY QueriesRead
  <1>2. \A e \in Range(c.events) :
          e.type \in LogTypes /\ (e.order \in Orders => e.type \in log[e.order])
    BY DEF SnapInv
  <1>3. ASSUME NEW x \in Range(c.orders), NEW e \in Range(c.events), e.order = x.order
        PROVE  /\ e.type = "OrderConfirmed" => x.row = "CONFIRMED"
               /\ e.type = "OrderFailed" => x.row = "FAILED"
    <2>1. x.order \in Orders /\ x.row = row[x.order] /\ e.type \in log[x.order]
      BY <1>1, <1>2, <1>3
    <2>2. LogInv(x.order)
      BY <2>1 DEF OrdersInv
    <2> QED
      BY <2>1, <2>2 DEF LogInv
  <1>4. \A x \in Range(c.orders) : x.row \in Verdicts \cup {"PENDING"} /\ row[x.order] = x.row
    BY <1>1 DEF OrdersInv
  <1> QED
    BY <1>1, <1>2, <1>3, <1>4 DEF SnapInv

\* What a query of order-service finds at once.
LEMMA PresentSound ==
  ASSUME OrdersInv
  PROVE  SnapInv(Present)
  <1> DEFINE d == [orders |-> <<>>, events |-> RecentEvents, down |-> Unhealthy]
  <1>1. SnapInv(d)
    <2>1. d.orders = <<>> /\ d.events = RecentEvents /\ d.down \subseteq Services
      BY ConsoleAssumption
    <2> QED
      BY <2>1, EventsRead
  <1>2. /\ Present.orders = RecentOrders /\ Present.events = d.events /\ Present.down = d.down
    BY DEF Present
  <1> HIDE DEF d
  <1> QED
    BY <1>1, <1>2, OrdersRead

\* The snapshots a page mounts with: none, or the demo's.
LEMMA MountedSound ==
  /\ SnapInv(NoView) /\ SnapInv(Nothing) /\ SnapInv(buildDemoContext)
  <1>1. DOMAIN <<>> = {} /\ Range(<<>>) = {}
    BY DEF Range
  <1>2. SnapInv(Nothing)
    <2>1. Nothing.orders = <<>> /\ Nothing.events = <<>> /\ Nothing.down \subseteq Services
      BY ConsoleAssumption DEF Nothing
    <2> QED
      BY <1>1, <2>1 DEF SnapInv
  <1>3. SnapInv(NoView)
    <2>1. NoView.orders = <<>> /\ NoView.events = <<>> /\ NoView.down = {}
      BY DEF NoView, Nothing
    <2> QED
      BY <1>1, <2>1 DEF SnapInv
  <1>4. SnapInv(buildDemoContext)
    <2>1. /\ Range(demoOrders) = {[order |-> 101, row |-> "CONFIRMED"],
                                  [order |-> 102, row |-> "PENDING"],
                                  [order |-> 103, row |-> "FAILED"]}
          /\ DOMAIN demoOrders = 1 .. 3
      BY DEF Range, demoOrders
    <2>2. Range(demoEvents) = {[order |-> 101, type |-> "OrderConfirmed"],
                               [order |-> 101, type |-> "PaymentCompleted"],
                               [order |-> 101, type |-> "InventoryReserved"],
                               [order |-> 101, type |-> "OrderCreated"],
                               [order |-> 103, type |-> "PaymentFailed"]}
      BY DEF Range, demoEvents
    <2>3. \A x \in Range(demoOrders) : x.row \in Verdicts \cup {"PENDING"}
      BY <2>1 DEF Verdicts
    <2>4. \A x \in Range(demoOrders) : x.order \notin Orders
      BY ConsoleAssumption
    <2>5. \A e \in Range(demoEvents) : \E x \in Range(demoOrders) : x.order = e.order
      BY DemoAssumption
    <2>6. \A x \in Range(demoOrders), e \in Range(demoEvents) :
            e.order = x.order /\ e.type = "OrderConfirmed" => x.row = "CONFIRMED"
      BY <2>1, <2>2
    <2>7. \A e \in Range(demoEvents) : e.type \in LogTypes /\ e.type # "OrderFailed"
      BY <2>2 DEF LogTypes
    <2>8. /\ buildDemoContext.orders = demoOrders /\ buildDemoContext.events = demoEvents
          /\ buildDemoContext.down = {}
      BY DEF buildDemoContext, demoSystemHealth
    <2>9. DOMAIN demoOrders \subseteq Nat
      BY <2>1
    <2> HIDE DEF demoOrders, demoEvents
    <2> QED
      BY <2>3, <2>4, <2>5, <2>6, <2>7, <2>8, <2>9 DEF SnapInv
  <1> QED
    BY <1>2, <1>3, <1>4

-----------------------------------------------------------------------------
(* The consoles: snapshots and answers stay sound *)

\* What was true of the orders stays true as they move on.
LEMMA SoundStays ==
  ASSUME row \in [Orders -> Verdicts \cup {"PENDING"}],
         \A o \in Orders : Grows(o) /\ LogInv(o)
  PROVE  /\ \A c : SnapInv(c) => SnapInv(c)'
         /\ \A S : Truthful(S) => Truthful(S)'
  <1>1. ASSUME NEW c, SnapInv(c) PROVE SnapInv(c)'
    BY <1>1 DEF SnapInv, Grows
  <1>2. ASSUME NEW o \in Orders
        PROVE  (Uncharged(o) => Uncharged(o)') /\ (Charged(o) => Charged(o)')
    BY DEF Grows, Uncharged, Charged, Verdicts
  <1>3. ASSUME NEW S, Truthful(S) PROVE Truthful(S)'
    BY <1>2, <1>3 DEF Truthful
  <1> QED
    BY <1>1, <1>3

\* So a console that does not move keeps its invariant.
LEMMA ConsoleKept ==
  ASSUME ConsoleInv, OrdersInv', UNCHANGED consoleVars,
         path' = path \/ path' # "operations",
         \A o \in Orders : Grows(o)
  PROVE  ConsoleInv'
  <1>1. /\ \A c : SnapInv(c) => SnapInv(c)'
        /\ \A S : Truthful(S) => Truthful(S)'
    BY SoundStays DEF ConsoleInv, OrdersInv
  <1>2. UNCHANGED <<loads, view, chat>>
    BY DEF consoleVars
  <1>3. SnapInv(view)'
    <2>1. PICK c : c = view /\ SnapInv(c)
      BY DEF ConsoleInv
    <2>2. SnapInv(c)' /\ view' = c
      BY <1>1, <1>2, <2>1
    <2> QED
      BY <2>2 DEF SnapInv
  <1>4. ASSUME NEW i \in 1 .. MaxLoads PROVE LoadInv(loads[i])'
    <2>1. PICK l : l = loads[i] /\ LoadInv(l)
      BY DEF ConsoleInv, LoadsInv
    <2>2. PICK c : c = l.snap
      OBVIOUS
    <2>3. SnapInv(c) /\ loads'[i] = l
      BY <1>2, <2>1, <2>2 DEF LoadInv
    <2>4. SnapInv(c)'
      BY <1>1, <2>3
    <2>5. SnapInv(loads[i].snap)'
      BY <2>2, <2>3, <2>4 DEF SnapInv
    <2> QED
      BY <2>1, <2>3, <2>5 DEF LoadInv
  <1>5. LoadsInv'
    BY <1>2, <1>4 DEF ConsoleInv, LoadsInv
  <1>6. ChatInv'
    <2>1. PICK S, T : S = chat.said /\ T = chat.local /\ Truthful(S) /\ Truthful(T)
      BY DEF ConsoleInv, ChatInv
    <2>2. Truthful(S)' /\ Truthful(T)' /\ chat'.said = S /\ chat'.local = T
      BY <1>1, <1>2, <2>1
    <2> QED
      BY <2>2 DEF ChatInv, Truthful
  <1> QED
    BY <1>3, <1>5, <1>6 DEF ConsoleInv

\* Where the orders stand still, only the console's own changes matter.
LEMMA ServerKept ==
  ASSUME OrdersInv, UNCHANGED serverVars
  PROVE  /\ OrdersInv'
         /\ \A o \in Orders : Grows(o)
         /\ \A c : SnapInv(c) => SnapInv(c)'
         /\ \A S : Truthful(S) => Truthful(S)'
  <1>1. UNCHANGED <<row, log, feed>>
    BY DEF serverVars, orderLog
  <1>2. OrdersInv'
    BY <1>1 DEF OrdersInv, LogInv
  <1>3. \A o \in Orders : Grows(o)
    BY <1>1 DEF Grows
  <1> QED
    BY <1>2, <1>3, SoundStays DEF OrdersInv

\* Orders that move on.
LEMMA OrderStepInv ==
  ASSUME ConsoleInv, NEW o \in Orders, OrderStep(o)
  PROVE  ConsoleInv'
  <1> DEFINE E == [order : Orders, type : LogTypes]
             T == log'[o] \ log[o]
  <1>1. /\ row' \in [Orders -> Verdicts \cup {"PENDING"}]
        /\ log' \in [Orders -> SUBSET LogTypes]
        /\ \A p \in Orders : LogInv(p)' /\ Grows(p)
        /\ T # {}
    BY OrderMoves DEF ConsoleInv, OrderStep
  <1>2. T \subseteq LogTypes /\ T \subseteq log'[o]
    BY <1>1
  <1>3. feed' = Added(o, T) \o feed /\ UNCHANGED <<path, consoleVars>>
    BY DEF OrderStep, sessionVars
  <1>4. Added(o, T) \in Seq(E) /\ \A e \in Range(Added(o, T)) : e.order = o /\ e.type \in T
    <2> HIDE DEF T
    <2> DEFINE t == CHOOSE u \in T : TRUE
    <2>1. t \in T
      BY <1>1
    <2> HIDE DEF t
    <2>2. CASE T = {"ReleaseInventory", "OrderFailed"}
      <3>1. Added(o, T) = <<Event(o, "OrderFailed"), Event(o, "ReleaseInventory")>>
        BY <2>2 DEF Added
      <3>2. Event(o, "OrderFailed") \in E /\ Event(o, "ReleaseInventory") \in E
        BY DEF Event, LogTypes
      <3>3. Range(Added(o, T)) = {Event(o, "OrderFailed"), Event(o, "ReleaseInventory")}
        BY <3>1 DEF Range
      <3>4. \A e \in Range(Added(o, T)) : e.order = o /\ e.type \in T
        BY <2>2, <3>3 DEF Event
      <3> HIDE DEF E
      <3> QED
        BY <3>1, <3>2, <3>4
    <2>3. CASE T # {"ReleaseInventory", "OrderFailed"}
      <3>1. Added(o, T) = <<Event(o, t)>>
        BY <2>3 DEF Added, t
      <3>2. Event(o, t) \in E
        BY <1>2, <2>1 DEF Event
      <3>3. Range(Added(o, T)) = {Event(o, t)}
        BY <3>1 DEF Range
      <3>4. \A e \in Range(Added(o, T)) : e.order = o /\ e.type \in T
        BY <2>1, <3>3 DEF Event
      <3> HIDE DEF E
      <3> QED
        BY <3>1, <3>2, <3>4
    <2> QED
      BY <2>2, <2>3
  <1>5. feed \in Seq(E) /\ \A e \in Range(feed) : e \in E /\ e.type \in log[e.order]
    BY RangeOfSeq DEF ConsoleInv, OrdersInv
  <1> HIDE DEF E
  <1>6. feed' \in Seq(E) /\ Range(feed') = Range(Added(o, T)) \cup Range(feed)
    <2> DEFINE A == Added(o, T)
    <2>1. A \in Seq(E) /\ feed' = A \o feed
      BY <1>3, <1>4
    <2> HIDE DEF A
    <2>2. A \o feed \in Seq(E)
      BY <1>5, <2>1, ConcatProperties
    <2>3. Range(A \o feed) = Range(A) \cup Range(feed)
      BY <1>5, <2>1, RangeConcatenation
    <2> QED
      BY <2>1, <2>2, <2>3 DEF A
  <1>7. \A e \in Range(feed') : e.type \in log'[e.order]
    <2>1. \A e \in Range(feed) : e.type \in log'[e.order]
      BY <1>1, <1>5 DEF Grows, E
    <2> QED
      BY <1>2, <1>4, <1>6, <2>1
  <1>8. OrdersInv'
    BY <1>1, <1>6, <1>7 DEF OrdersInv, E
  <1> QED
    BY <1>1, <1>3, <1>8, ConsoleKept

\* One load changes.
LEMMA OneLoad ==
  ASSUME ConsoleInv, UNCHANGED <<serverVars, path>>, NEW i \in 1 .. MaxLoads, NEW l,
         loads' = [loads EXCEPT ![i] = l], LoadInv(l)'
  PROVE  LoadsInv'
  <1>1. \A c : SnapInv(c) => SnapInv(c)'
    BY ServerKept DEF ConsoleInv
  <1>2. loads = [j \in 1 .. MaxLoads |-> loads[j]]
    BY DEF ConsoleInv, LoadsInv
  <1>3. ASSUME NEW j \in 1 .. MaxLoads, j # i PROVE LoadInv(loads[j])'
    <2>1. PICK k : k = loads[j] /\ LoadInv(k)
      BY DEF ConsoleInv, LoadsInv
    <2>2. loads'[j] = k
      BY <1>2, <1>3, <2>1
    <2>3. SnapInv(k.snap) => SnapInv(k.snap)'
      BY <1>1
    <2>4. LoadInv(k)'
      BY <2>1, <2>3 DEF LoadInv
    <2> QED
      BY <2>2, <2>4 DEF LoadInv, SnapInv
  <1>4. loads'[i] = l
    BY <1>2
  <1>5. LoadInv(loads[i])'
    BY <1>4 DEF LoadInv, SnapInv
  <1>6. loads' = [j \in 1 .. MaxLoads |-> loads'[j]]
    BY <1>2
  <1> QED
    BY <1>3, <1>5, <1>6 DEF LoadsInv

\* A load is sent, or done with.
LEMMA IdleSound ==
  ASSUME OrdersInv, UNCHANGED serverVars, NEW l, l = Idle \/ l = Send
  PROVE  LoadInv(l)'
  <1>1. PICK n : n = Nothing /\ SnapInv(n)
    BY MountedSound
  <1>2. n' = n /\ Nothing' = n
    BY <1>1 DEF Nothing
  <1>3. SnapInv(n)'
    BY <1>1, ServerKept
  <1>4. l.got = {} /\ l.snap = n /\ l = [step |-> l.step, got |-> l.got, snap |-> l.snap]
    BY <1>1 DEF Idle, Send
  <1>5. /\ n = [metrics |-> n.metrics, orders |-> n.orders, events |-> n.events, down |-> n.down]
        /\ n.orders = <<>>
    BY <1>1 DEF Nothing
  <1> QED
    BY <1>3, <1>4, <1>5 DEF LoadInv

\* A statement of order-service is answered.
LEMMA ReadPartInv ==
  ASSUME ConsoleInv, NEW i \in 1 .. MaxLoads, NEW part \in Parts, ReadPart(i, part)
  PROVE  LoadsInv'
  <1>1. /\ UNCHANGED <<serverVars, path>>
        /\ loads' = [loads EXCEPT ![i].got = @ \cup {part}, ![i].snap[part] = Current(part)]
        /\ part \notin loads[i].got /\ Before(part) \subseteq loads[i].got
    BY DEF ReadPart, sessionVars
  <1>2. PICK k : k = loads[i] /\ LoadInv(k)
    BY DEF ConsoleInv, LoadsInv
  <1>3. loads = [j \in 1 .. MaxLoads |-> loads[j]] /\ OrdersInv
    BY DEF ConsoleInv, LoadsInv
  <1>4. /\ k = [step |-> k.step, got |-> k.got, snap |-> k.snap]
        /\ k.snap = [metrics |-> k.snap.metrics, orders |-> k.snap.orders,
                     events |-> k.snap.events, down |-> k.snap.down]
        /\ SnapInv(k.snap) /\ k.snap.down \subseteq Services
        /\ "orders" \in k.got => "events" \in k.got /\ path # "operations"
        /\ "orders" \notin k.got => k.snap.orders = <<>>
    BY <1>2 DEF LoadInv, SnapInv
  <1>5. part \in {"metrics", "events", "orders"} /\ (part = "orders" => path # "operations")
    BY DEF Parts
  <1>6. PICK l : l = [step |-> k.step, got |-> k.got \cup {part},
                      snap |-> [k.snap EXCEPT ![part] = Current(part)]]
    OBVIOUS
  <1>7. loads' = [loads EXCEPT ![i] = l]
    <2>0. PICK m : m = [loads EXCEPT ![i].got = @ \cup {part}]
      OBVIOUS
    <2>1. /\ loads' = [m EXCEPT ![i].snap[part] = Current(part)]
          /\ DOMAIN m = DOMAIN loads /\ DOMAIN loads = 1 .. MaxLoads
      BY <1>1, <1>3, <2>0
    <2>2. loads' = [j \in 1 .. MaxLoads |-> loads'[j]]
      BY <2>1
    <2>3. ASSUME NEW j \in 1 .. MaxLoads PROVE loads'[j] = IF j = i THEN l ELSE loads[j]
      <3>1. CASE j # i
        BY <1>1, <1>3, <3>1
      <3>2. CASE j = i
        <4>1. loads'[i] = [k EXCEPT !.got = @ \cup {part}, !.snap[part] = Current(part)]
          BY <1>1, <1>2, <1>3
        <4> QED
          BY <1>4, <1>6, <3>2, <4>1
      <3> QED
        BY <3>1, <3>2
    <2> QED
      BY <1>3, <2>2, <2>3
  <1>8. LoadInv(l)
    <2>1. CASE part = "metrics"
      <3>1. l = [step |-> k.step, got |-> k.got \cup {part},
                 snap |-> [metrics |-> Metrics, orders |-> k.snap.orders,
                           events |-> k.snap.events, down |-> k.snap.down]]
        BY <1>4, <1>6, <2>1 DEF Current
      <3>2. SnapInv(l.snap)
        BY <1>4, <3>1 DEF SnapInv
      <3> QED
        BY <1>4, <2>1, <3>1, <3>2 DEF LoadInv
    <2>2. CASE part = "events"
      <3>1. l = [step |-> k.step, got |-> k.got \cup {part},
                 snap |-> [metrics |-> k.snap.metrics, orders |-> k.snap.orders,
                           events |-> RecentEvents, down |-> k.snap.down]]
        BY <1>4, <1>6, <2>2 DEF Current
      <3>2. "orders" \notin k.got /\ k.snap.orders = <<>>
        BY <1>1, <1>2, <1>4, <2>2
      <3>3. SnapInv(l.snap)
        BY <1>3, <1>4, <3>1, <3>2, EventsRead
      <3> QED
        BY <1>4, <2>2, <3>1, <3>2, <3>3 DEF LoadInv
    <2>3. CASE part = "orders"
      <3>1. l = [step |-> k.step, got |-> k.got \cup {part},
                 snap |-> [metrics |-> k.snap.metrics, orders |-> RecentOrders,
                           events |-> k.snap.events, down |-> k.snap.down]]
        BY <1>4, <1>6, <2>3 DEF Current
      <3>2. path # "operations" /\ "events" \in k.got
        BY <1>1, <1>2, <1>5, <2>3 DEF Before
      <3>3. SnapInv(l.snap)
        BY <1>3, <1>4, <3>1, OrdersRead
      <3> QED
        BY <1>4, <2>3, <3>1, <3>2, <3>3 DEF LoadInv
    <2> QED
      BY <1>5, <2>1, <2>2, <2>3
  <1>9. LoadInv(l)'
    <2>1. SnapInv(l.snap) => SnapInv(l.snap)'
      BY <1>1, <1>3, ServerKept
    <2> QED
      BY <1>1, <1>8, <2>1 DEF LoadInv
  <1> QED
    BY <1>1, <1>7, <1>9, OneLoad

\* The conversation: every answer is given of a sound snapshot.
LEMMA ChatStepInv ==
  ASSUME ConsoleInv,
         (\E q \in Asked : Ask(q)) \/ QueryAnswered \/ QueryFails \/ Reveal
  PROVE  /\ UNCHANGED <<serverVars, path, loads, view>>
         /\ ChatInv'
  <1>1. UNCHANGED <<serverVars, path, loads, view>>
    BY DEF Ask, QueryAnswered, QueryFails, QueryLost, Fault, Reveal, sessionVars
  <1>2. \A S : Truthful(S) => Truthful(S)'
    BY <1>1, ServerKept DEF ConsoleInv
  <1>3. Truthful({}) /\ Truthful(chat.said) /\ Truthful(chat.local)
    BY DEF Truthful, ConsoleInv, ChatInv
  <1>4. \A q : Truthful(Local(q))
    <2>1. Truthful(NotEnough)
      BY Harmless, SayParts DEF NotEnough
    <2> QED
      BY <2>1, EnginesTrue DEF Local, ConsoleInv
  <1>5. \A q : Truthful(RuleAnswer(q, Present))
    BY PresentSound, EnginesTrue DEF ConsoleInv
  <1>6. PICK S, T : chat'.said = S /\ chat'.local = T /\ Truthful(S) /\ Truthful(T)
    <2>1. CASE \E q \in Asked : Ask(q)
      <3>1. PICK q \in Asked : Ask(q)
        BY <2>1
      <3>2. \/ chat'.said = {} /\ chat'.local = Local(q)
            \/ chat'.said = Local(q) /\ chat'.local = {}
        BY <3>1 DEF Ask, NoChat
      <3> QED
        BY <1>3, <1>4, <3>2
    <2>2. CASE QueryAnswered
      <3>1. chat'.local = {} /\ chat'.said \in {{Say("llm-text", 0)}, RuleAnswer(chat.q, Present)}
        BY <2>2 DEF QueryAnswered, Reply, NoChat
      <3>2. Truthful({Say("llm-text", 0)})
        BY Harmless, SayParts
      <3> QED
        BY <1>3, <1>5, <3>1, <3>2
    <2>3. CASE QueryFails
      <3>1. chat'.local = {} /\ chat'.said = chat.local
        BY <2>3 DEF QueryFails, Reply, NoChat
      <3> QED
        BY <1>3, <3>1
    <2>4. CASE Reveal
      <3>1. chat'.local = chat.local /\ chat'.said = chat.said
        BY <2>4 DEF Reveal
      <3> QED
        BY <1>3, <3>1
    <2> QED
      BY <2>1, <2>2, <2>3, <2>4
  <1>7. ChatInv'
    <2>1. Truthful(S)' /\ Truthful(T)'
      BY <1>2, <1>6
    <2> QED
      BY <1>6, <2>1 DEF ChatInv, Truthful
  <1> QED
    BY <1>1, <1>7

\* A console that changes its loads, its view and its conversation only.
LEMMA ConsoleNextInv ==
  ASSUME ConsoleInv, ConsoleNext
  PROVE  ConsoleInv'
  <1>1. ASSUME UNCHANGED <<serverVars, path>>, LoadsInv', SnapInv(view)', ChatInv'
        PROVE  ConsoleInv'
    BY <1>1, ServerKept DEF ConsoleInv
  <1>2. ASSUME UNCHANGED serverVars, UNCHANGED view PROVE SnapInv(view)'
    <2>1. PICK c : c = view /\ SnapInv(c)
      BY DEF ConsoleInv
    <2>2. SnapInv(c)' /\ view' = c
      BY <1>2, <2>1, ServerKept DEF ConsoleInv
    <2> QED
      BY <2>2 DEF SnapInv
  <1>3. ASSUME UNCHANGED serverVars, UNCHANGED chat PROVE ChatInv'
    <2>1. PICK S, T : S = chat.said /\ T = chat.local /\ Truthful(S) /\ Truthful(T)
      BY DEF ConsoleInv, ChatInv
    <2>2. Truthful(S)' /\ Truthful(T)' /\ chat'.said = S /\ chat'.local = T
      BY <1>3, <2>1, ServerKept DEF ConsoleInv
    <2> QED
      BY <2>2 DEF ChatInv, Truthful
  <1>4. ASSUME UNCHANGED <<serverVars, path, loads>> PROVE LoadsInv'
    <2>1. ASSUME NEW i \in 1 .. MaxLoads PROVE LoadInv(loads[i])'
      <3>1. PICK k : k = loads[i] /\ LoadInv(k)
        BY DEF ConsoleInv, LoadsInv
      <3>2. SnapInv(k.snap) => SnapInv(k.snap)'
        BY <1>4, ServerKept DEF ConsoleInv
      <3>3. LoadInv(k)' /\ loads'[i] = k
        BY <1>4, <3>1, <3>2 DEF LoadInv
      <3> QED
        BY <3>3 DEF LoadInv, SnapInv
    <2> QED
      BY <1>4, <2>1 DEF ConsoleInv, LoadsInv
  <1>5. CASE \E o \in Orders : OrderStep(o)
    BY <1>5, OrderStepInv
  <1>6. ASSUME NEW i \in 1 .. MaxLoads, NEW l, l = Idle \/ l = Send,
               loads' = [loads EXCEPT ![i] = l], UNCHANGED <<serverVars, path>>
        PROVE  LoadsInv'
    BY <1>6, IdleSound, OneLoad DEF ConsoleInv
  <1>7. ASSUME NEW i \in 1 .. MaxLoads, StartLoad(i) PROVE ConsoleInv'
    <2>1. UNCHANGED <<serverVars, path, view, chat>> /\ loads' = [loads EXCEPT ![i] = Send]
      BY <1>7 DEF StartLoad
    <2> QED
      BY <1>1, <1>2, <1>3, <1>6, <2>1
  <1>8. ASSUME NEW i \in 1 .. MaxLoads, NEW part \in Parts, ReadPart(i, part) PROVE ConsoleInv'
    <2>1. UNCHANGED <<serverVars, path, view, chat>>
      BY <1>8 DEF ReadPart, sessionVars
    <2> QED
      BY <1>1, <1>2, <1>3, <1>8, <2>1, ReadPartInv
  <1>9. ASSUME NEW i \in 1 .. MaxLoads, HearLoad(i) PROVE ConsoleInv'
    <2>1. /\ UNCHANGED <<serverVars, path, chat>> /\ loads' = [loads EXCEPT ![i] = Idle]
          /\ view' = loads[i].snap
      BY <1>9 DEF HearLoad, sessionVars
    <2>2. PICK c : c = loads[i].snap /\ SnapInv(c)
      BY DEF ConsoleInv, LoadsInv, LoadInv
    <2>3. SnapInv(c)' /\ view' = c
      BY <2>1, <2>2, ServerKept DEF ConsoleInv
    <2>4. SnapInv(view)'
      BY <2>3 DEF SnapInv
    <2> QED
      BY <1>1, <1>3, <1>6, <2>1, <2>4
  <1>10. ASSUME NEW i \in 1 .. MaxLoads, LoadRefused(i) \/ LoadFails(i) PROVE ConsoleInv'
    <2>1. UNCHANGED <<serverVars, path, view, chat>> /\ loads' = [loads EXCEPT ![i] = Idle]
      BY <1>10 DEF LoadRefused, LoadFails, LoadEnds, Fault, sessionVars
    <2> QED
      BY <1>1, <1>2, <1>3, <1>6, <2>1
  <1>11. CASE (\E q \in Asked : Ask(q)) \/ QueryAnswered \/ QueryFails \/ Reveal
    BY <1>1, <1>2, <1>4, <1>11, ChatStepInv
  <1> QED
    BY <1>5, <1>7, <1>8, <1>9, <1>10, <1>11 DEF ConsoleNext

\* A console that mounts.
LEMMA MountInv ==
  ASSUME ConsoleInv, UNCHANGED serverVars, NEW p, MountConsole(p)
  PROVE  ConsoleInv'
  <1>1. /\ loads' = [i \in 1 .. MaxLoads |-> Idle]
        /\ view' \in {buildDemoContext, NoView}
        /\ chat'.said = {} /\ chat'.local = {}
    BY DEF MountConsole, NoChat
  <1>2. OrdersInv /\ OrdersInv'
    BY ServerKept DEF ConsoleInv
  <1>3. LoadsInv'
    <2>1. PICK l : l = Idle
      OBVIOUS
    <2>2. LoadInv(l)'
      BY <1>2, <2>1, IdleSound
    <2>3. l' = l /\ loads' = [i \in 1 .. MaxLoads |-> l]
      BY <1>1, <2>1
    <2>4. \A i \in 1 .. MaxLoads : loads'[i] = l
      BY <2>3
    <2>5. \A i \in 1 .. MaxLoads : LoadInv(loads[i])'
      BY <2>2, <2>4 DEF LoadInv, SnapInv
    <2> QED
      BY <2>3, <2>5 DEF LoadsInv
  <1>4. SnapInv(view)'
    <2>1. PICK c : c = view' /\ SnapInv(c)
      BY <1>1, MountedSound
    <2>2. SnapInv(c)'
      BY <1>2, <2>1, ServerKept
    <2> QED
      BY <2>1, <2>2 DEF SnapInv
  <1>5. ChatInv'
    BY <1>1 DEF ChatInv, Truthful
  <1> QED
    BY <1>2, <1>3, <1>4, <1>5 DEF ConsoleInv

\* The orders are placed before; the one decided before found no stock.
LEMMA ConsoleInitInv == Init => ConsoleInv
  <1> SUFFICES ASSUME Init PROVE ConsoleInv
    OBVIOUS
  <1> DEFINE E == [order : Orders, type : LogTypes]
             old == IF Past = 0 THEN <<>>
                    ELSE <<Event(Past, "OrderFailed"), Event(Past, "InventoryFailed")>>
             new == [i \in 1 .. Len(ByAge) |-> Event(ByAge[i], "OrderCreated")]
  <1>1. /\ row = [o \in Orders |-> IF o = Past THEN "FAILED" ELSE "PENDING"]
        /\ log = [o \in Orders |-> IF o = Past
                                   THEN {"OrderCreated", "InventoryFailed", "OrderFailed"}
                                   ELSE {"OrderCreated"}]
        /\ feed = old \o new
        /\ loads = [i \in 1 .. MaxLoads |-> Idle] /\ view = NoView /\ chat = NoChat
    BY DEF Init, ConsoleInit
  <1>2. /\ row \in [Orders -> Verdicts \cup {"PENDING"}] /\ log \in [Orders -> SUBSET LogTypes]
        /\ \A o \in Orders : LogInv(o)
    BY <1>1 DEF LogInv, Verdicts, LogTypes
  <1>3. old \in Seq(E) /\ \A e \in Range(old) : e.type \in log[e.order]
    <2>1. CASE Past = 0
      <3>1. Range(old) = {} /\ old = <<>>
        BY <2>1 DEF Range
      <3> QED
        BY <3>1, EmptySeq
    <2>2. CASE Past # 0
      <3>1. Past \in Orders
        BY <2>2, ConsoleAssumption
      <3>2. /\ old = <<Event(Past, "OrderFailed"), Event(Past, "InventoryFailed")>>
            /\ Event(Past, "OrderFailed") \in E /\ Event(Past, "InventoryFailed") \in E
        BY <2>2, <3>1 DEF Event, LogTypes
      <3>3. Range(old) = {Event(Past, "OrderFailed"), Event(Past, "InventoryFailed")}
        BY <3>2 DEF Range
      <3>4. \A e \in Range(old) : e.type \in log[e.order]
        <4>1. log[Past] = {"OrderCreated", "InventoryFailed", "OrderFailed"}
          BY <1>1, <3>1
        <4>2. ASSUME NEW e \in Range(old)
              PROVE  e.order = Past /\ e.type \in {"OrderFailed", "InventoryFailed"}
          BY <3>3 DEF Event
        <4> QED
          BY <4>1, <4>2
      <3> HIDE DEF E
      <3> QED
        BY <3>2, <3>4
    <2> QED
      BY <2>1, <2>2
  <1>4. new \in Seq(E) /\ \A e \in Range(new) : e.type \in log[e.order]
    <2>1. Len(ByAge) \in Nat /\ \A i \in 1 .. Len(ByAge) : ByAge[i] \in Orders
      BY ConsoleAssumption, LenProperties, ElementOfSeq
    <2> DEFINE e(i) == Event(ByAge[i], "OrderCreated")
    <2>2. \A i \in 1 .. Len(ByAge) : e(i) \in E /\ e(i).type \in log[e(i).order]
      BY <1>1, <2>1 DEF Event, LogTypes
    <2>3. new = [i \in 1 .. Len(ByAge) |-> e(i)]
      OBVIOUS
    <2> HIDE DEF e, new, E
    <2>4. [i \in 1 .. Len(ByAge) |-> e(i)] \in Seq(E)
      BY <2>1, <2>2, IsASeq
    <2> QED
      BY <2>2, <2>3, <2>4 DEF Range
  <1> HIDE DEF E, old, new
  <1>5. feed \in Seq(E) /\ \A e \in Range(feed) : e.type \in log[e.order]
    <2>1. old \o new \in Seq(E)
      BY <1>3, <1>4, ConcatProperties
    <2>2. Range(old \o new) = Range(old) \cup Range(new)
      BY <1>3, <1>4, RangeConcatenation
    <2> QED
      BY <1>1, <1>3, <1>4, <2>1, <2>2
  <1>6. OrdersInv
    BY <1>2, <1>5 DEF OrdersInv, E
  <1>7. LoadInv(Idle)
    <2>1. Nothing = [metrics |-> Nothing.metrics, orders |-> Nothing.orders,
                     events |-> Nothing.events, down |-> Nothing.down] /\ Nothing.orders = <<>>
      BY DEF Nothing
    <2>2. Idle.got = {} /\ Idle.snap = Nothing
          /\ Idle = [step |-> Idle.step, got |-> Idle.got, snap |-> Idle.snap]
      BY DEF Idle
    <2> QED
      BY <2>1, <2>2, MountedSound DEF LoadInv
  <1>8. LoadsInv
    BY <1>1, <1>7 DEF LoadsInv
  <1>9. ChatInv
    BY <1>1 DEF ChatInv, NoChat, Truthful
  <1> QED
    BY <1>1, <1>6, <1>8, <1>9, MountedSound DEF ConsoleInv

LEMMA NextConsoleInv == ConsoleInv /\ [Next]_vars => ConsoleInv'
  <1> SUFFICES ASSUME ConsoleInv, [Next]_vars PROVE ConsoleInv'
    OBVIOUS
  <1>1. ASSUME UNCHANGED <<serverVars, consoleVars>>,
               path' = path \/ path' # "operations"
        PROVE  ConsoleInv'
    BY <1>1, ServerKept, ConsoleKept DEF ConsoleInv
  <1>2. CASE SessionStep
    BY <1>1, <1>2, MountInv DEF SessionStep, SameOrNewPage, Remount
  <1>3. CASE ReloadStep
    BY <1>3, MountInv DEF ReloadStep, Remount
  <1>4. CASE ShopStep
    <2>1. path' = path \/ path' # "operations"
      BY <1>4 DEF ShopStep, ShopNext, ListProducts, SetQty, GoToCheckout, CreateIntent,
                  NoCardForm, Pay, PlaceOrder, EditPrice, sessionVars
    <2> QED
      BY <1>1, <1>4, <2>1 DEF ShopStep
  <1>5. CASE ConsoleStep
    BY <1>5, ConsoleNextInv DEF ConsoleStep
  <1>6. CASE UNCHANGED vars
    BY <1>1, <1>6 DEF vars, sessionVars
  <1> QED
    BY <1>2, <1>3, <1>4, <1>5, <1>6 DEF Next

\* Whatever is loaded, passes each other, fails or is asked: every snapshot and
\* every answer of the consoles is borne out by the orders.
THEOREM ConsoleInvariant == Spec => []ConsoleInv
  BY ConsoleInitInv, NextConsoleInv, PTL DEF Spec

-----------------------------------------------------------------------------
(* What the copilot tells *)

\* No step of a lifecycle answer is told that its status has not caught up with.
THEOREM StepsFitStatus == Spec => []StatusFitsSteps
  <1>1. ConsoleInv => StatusFitsSteps
    <2> SUFFICES ASSUME ConsoleInv, NEW q \in Askable, NEW s \in RunCopilot(q, view)
                 PROVE  /\ s.says = "turned-CONFIRMED"
                             => Say("is-CONFIRMED", s.of) \in RunCopilot(q, view)
                        /\ s.says = "turned-FAILED"
                             => Say("is-FAILED", s.of) \in RunCopilot(q, view)
      BY Zenon DEF StatusFitsSteps
    <2> QED
      BY TurnsFitStatus DEF ConsoleInv
  <1> QED
    BY <1>1, ConsoleInvariant, PTL

\* Everything the copilot says, or could be asked to say, is true of the orders.
LEMMA StatementsTrue ==
  ASSUME ConsoleInv
  PROVE  Truthful(Statements)
  <1> DEFINE F == {RunCopilot(q, view) \cup RuleAnswer(q, view) : q \in Askable}
  <1>1. \A q : Truthful(RunCopilot(q, view) \cup RuleAnswer(q, view))
    BY EnginesTrue, TruthOfAll DEF ConsoleInv
  <1>2. \A S \in F : Truthful(S)
    BY <1>1
  <1> HIDE DEF F
  <1>3. Truthful(UNION F)
    BY <1>2, TruthOfAll
  <1>4. Statements = chat.said \cup UNION F
    BY DEF Statements, F
  <1> QED
    BY <1>3, <1>4, TruthOfAll DEF ConsoleInv, ChatInv

\* An order is not charged and uncharged.
LEMMA OneOutcome ==
  ASSUME OrdersInv, NEW o \in Orders
  PROVE  /\ ~(Charged(o) /\ Uncharged(o))
         /\ Uncharged(o) => row[o] # "CONFIRMED"
         /\ Charged(o) => row[o] # "FAILED"
  BY DEF OrdersInv, LogInv, Charged, Uncharged

\* What the copilot says of an order's outcome is not refuted by the order.
THEOREM ToldOutcomesHold == Spec => []OutcomesHold
  <1>1. ConsoleInv => OutcomesHold
    BY StatementsTrue, OneOutcome DEF ConsoleInv, OutcomesHold, Truthful
  <1> QED
    BY <1>1, ConsoleInvariant, PTL

\* What the customer's assistant says of a payment is true of the order, too.
LEMMA CustomerTold ==
  ASSUME OrdersInv, NEW o \in Orders
  PROVE  /\ "charged" \in ToldCustomer(o) => Charged(o)
         /\ "not-charged" \in ToldCustomer(o) => Uncharged(o)
  <1> DEFINE c == [order |-> o, row |-> row[o], log |-> log[o]]
  <1>1. c.row = row[o] /\ c.log = log[o] /\ log[o] \subseteq LogTypes
    BY DEF OrdersInv
  <1> HIDE DEF c
  <1>2. ASSUME NEW q
        PROVE  /\ "charged" \in Customer!RunCustomerAssistant(q, c) => Charged(o)
               /\ "not-charged" \in Customer!RunCustomerAssistant(q, c) => Uncharged(o)
    <2> DEFINE Neither(A) == "charged" \notin A /\ "not-charged" \notin A
    <2>1. Neither(Customer!AnswerWhere(c))
      <3>1. \A s \in Customer!Journey(c) :
              s.key \in {"created", "inventory-failed", "inventory-reserved", "payment-failed",
                         "payment", "inventory-released", "failed", "confirmed"}
        BY DEF Customer!Journey, Customer!InventoryStep, Customer!PaymentStep,
               Customer!ReleaseStep, Customer!VerdictStep, Customer!Step
      <3>2. Neither(Customer!Done(c))
        BY <3>1 DEF Customer!Done
      <3> QED
        BY <3>2 DEF Customer!AnswerWhere, Customer!ByRow
    <2>2. Neither(Customer!AnswerTimeline(c))
      BY <1>1 DEF Customer!AnswerTimeline, LogTypes
    <2>3. /\ "charged" \notin Customer!AnswerPaymentFailure(c)
          /\ "not-charged" \in Customer!AnswerPaymentFailure(c) => Uncharged(o)
      BY <1>1 DEF Customer!AnswerPaymentFailure, Customer!Has, Uncharged
    <2>4. Neither(Customer!AnswerDelivery(c)) /\ Neither(Customer!AnswerDuration(c))
      BY DEF Customer!AnswerDelivery, Customer!AnswerDuration
    <2>5. /\ "charged" \in Customer!AnswerPaymentStatus(c) => Charged(o)
          /\ "not-charged" \in Customer!AnswerPaymentStatus(c) => Uncharged(o)
      BY <1>1 DEF Customer!AnswerPaymentStatus, Customer!Has, Charged, Uncharged
    <2>6. Neither(Customer!AnswerInventory(c)) /\ Neither(Customer!AnswerNotification(c))
      BY DEF Customer!AnswerInventory, Customer!AnswerNotification
    <2>7. Neither(Customer!AnswerNextStep(c))
      BY DEF Customer!AnswerNextStep, Customer!ByRow
    <2>8. Customer!RunCustomerAssistant(q, c) \in
            {{}, Customer!AnswerWhere(c), Customer!AnswerTimeline(c),
             Customer!AnswerPaymentFailure(c), Customer!AnswerDelivery(c),
             Customer!AnswerPaymentStatus(c), Customer!AnswerInventory(c),
             Customer!AnswerNotification(c), Customer!AnswerDuration(c),
             Customer!AnswerNextStep(c)}
      <3> DEFINE M == Customer!Matched(q)
                 p == Customer!Patterns[CHOOSE i \in M : \A j \in M : i <= j]
      <3>1. Customer!RunCustomerAssistant(q, c) =
              IF M = {} THEN {}
              ELSE CASE p = "where"           -> Customer!AnswerWhere(c)
                     [] p = "timeline"        -> Customer!AnswerTimeline(c)
                     [] p = "payment-failure" -> Customer!AnswerPaymentFailure(c)
                     [] p = "delivery"        -> Customer!AnswerDelivery(c)
                     [] p = "payment-status"  -> Customer!AnswerPaymentStatus(c)
                     [] p = "inventory"       -> Customer!AnswerInventory(c)
                     [] p = "notification"    -> Customer!AnswerNotification(c)
                     [] p = "duration"        -> Customer!AnswerDuration(c)
                     [] OTHER                 -> Customer!AnswerNextStep(c)
        BY DEF Customer!RunCustomerAssistant
      <3> HIDE DEF M, p
      <3> QED
        BY <3>1
    <2> QED
      BY <2>1, <2>2, <2>3, <2>4, <2>5, <2>6, <2>7, <2>8
  <1>3. ToldCustomer(o) = UNION {Customer!RunCustomerAssistant(q, c) : q \in Customer!Prompts}
    BY DEF ToldCustomer, c
  <1> QED
    BY <1>2, <1>3

\* The admin's copilot and the customer's assistant tell one story of a payment.
THEOREM OneStoryTold == Spec => []OneStory
  <1>1. ConsoleInv => OneStory
    <2> SUFFICES ASSUME ConsoleInv, NEW s \in Statements, s.of \in Orders
                 PROVE  /\ s.says = "charged" => "not-charged" \notin ToldCustomer(s.of)
                        /\ s.says = "not-charged" => "charged" \notin ToldCustomer(s.of)
      BY DEF OneStory
    <2>1. PICK o \in Orders : o = s.of
      OBVIOUS
    <2>2. /\ s.says = "charged" => Charged(o)
          /\ s.says = "not-charged" => Uncharged(o)
      BY <2>1, StatementsTrue DEF Truthful, FailWords, PaidWords
    <2>3. OrdersInv
      BY DEF ConsoleInv
    <2> QED
      BY <2>1, <2>2, <2>3, OneOutcome, CustomerTold
  <1> QED
    BY <1>1, ConsoleInvariant, PTL

=============================================================================

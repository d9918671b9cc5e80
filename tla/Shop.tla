-------------------------------- MODULE Shop --------------------------------
(***************************************************************************)
(* The amounts a customer is shown, charged and billed: the products page  *)
(* with its cart, and the checkout page it hands the cart to, while an     *)
(* admin edits the price.  Four computations of one sum meet here: the     *)
(* page's own, the PaymentIntent's total, the amount charged, which is at  *)
(* least the MinCharge Stripe takes, and the order's, each from the price  *)
(* it finds.  One product, one line.  (How often the card is charged and   *)
(* the order sent is in Storefront.)                                       *)
(***************************************************************************)
EXTENDS Session

CONSTANTS
  Prices,       \* prices in cents an admin sets
  FirstPrice,   \* the one the product was created with
  MaxQty,       \* stock the product is listed with
  MinCharge

ASSUME ShopAssumption ==
  Prices \subseteq Nat \ {0} /\ FirstPrice \in Prices /\ MaxQty \in Nat \ {0} /\ MinCharge \in Nat \ {0}

VARIABLES
  price,        \* products.price_cents
  listed,       \* the products page: the price as it was listed, 0 before
  cart,         \* quantity in the cart
  carried,      \* location.state of the checkout page: quantity and price
  intent,       \* its PaymentIntent
  paid,         \* amount charged, 0 before
  total,        \* orders.total_cents, 0 before
  repriced      \* the price has been edited since the PaymentIntent was asked for

pageVars == <<listed, cart, intent, paid, total, repriced>>
shopVars == <<price, carried, pageVars>>

NoCart   == [qty |-> 0, price |-> 0]
NoIntent == [step |-> "asked", total |-> 0, charge |-> 0]

AtLeast(m, n) == IF n < m THEN m ELSE n

\* The pages as they mount, without and with a cart handed over.
MountShop(c) ==
  /\ listed' = 0 /\ cart' = 0
  /\ carried' = c
  /\ intent' = NoIntent
  /\ paid' = 0 /\ total' = 0 /\ repriced' = FALSE

ShopInit ==
  /\ price = FirstPrice
  /\ listed = 0 /\ cart = 0 /\ carried = NoCart
  /\ intent = NoIntent /\ paid = 0 /\ total = 0 /\ repriced = FALSE

-----------------------------------------------------------------------------
(* products page *)

ListProducts ==
  /\ path = "products" /\ listed = 0
  /\ listed' = price
  /\ UNCHANGED <<sessionVars, price, cart, carried, intent, paid, total, repriced>>

\* "Add to cart", - and +, which stops at the stock as listed.
SetQty(n) ==
  /\ path = "products" /\ listed # 0
  /\ n # cart /\ n <= MaxQty /\ n + 1 >= cart /\ n <= cart + 1
  /\ cart' = n
  /\ UNCHANGED <<sessionVars, price, listed, carried, intent, paid, total, repriced>>

\* navigate('/checkout', { state: { cart, products } })
GoToCheckout ==
  /\ path = "products" /\ cart > 0
  /\ Act
  /\ path' = "checkout" /\ form' = 0
  /\ MountShop([qty |-> cart, price |-> listed])
  /\ UNCHANGED <<accounts, auth, user, stored, meddled, price>>

-----------------------------------------------------------------------------
(* checkout page *)

\* Mutant of CreateIntent: the sum is the page's own.
IntentFromCart ==
  /\ path = "checkout" /\ intent.step = "asked"
  /\ LET t == carried.qty * carried.price
     IN  intent' = [step |-> "made", total |-> t, charge |-> AtLeast(MinCharge, t)]
  /\ repriced' = FALSE
  /\ UNCHANGED <<sessionVars, price, listed, cart, carried, paid, total>>

\* create_payment_intent, on mount.
CreateIntent ==
  /\ path = "checkout" /\ intent.step = "asked"
  /\ LET t == carried.qty * price
     IN  intent' = [step |-> "made", total |-> t, charge |-> AtLeast(MinCharge, t)]
  /\ repriced' = FALSE
  /\ UNCHANGED <<sessionVars, price, listed, cart, carried, paid, total>>

\* The request fails, or Stripe is not configured: the simulated form.
NoCardForm ==
  /\ path = "checkout" /\ intent.step = "asked"
  /\ \E t \in {0, carried.qty * price} : intent' = [step |-> "none", total |-> t, charge |-> 0]
  /\ repriced' = FALSE
  /\ UNCHANGED <<sessionVars, price, listed, cart, carried, paid, total>>

\* "Total due".  (The button of the simulated form shows intent.total even
\* where it is 0 for a failed request.)
SummaryTotal == IF intent.total # 0 THEN intent.total ELSE carried.qty * carried.price

\* Stripe confirms the PaymentIntent.
Pay ==
  /\ path = "checkout" /\ intent.step = "made" /\ paid = 0
  /\ paid' = intent.charge
  /\ UNCHANGED <<sessionVars, price, listed, cart, carried, intent, total, repriced>>

\* create_order reads the price once more; the tab moves to the order's page.
\* The sums are kept there for comparison.
PlaceOrder ==
  /\ path = "checkout"
  /\ paid # 0 \/ intent.step = "none"
  /\ total' = carried.qty * price
  /\ path' = "order" /\ form' = 0
  /\ UNCHANGED <<accounts, auth, user, stored, meddled, acts,
                 price, listed, cart, carried, intent, paid, repriced>>

\* An admin saves the product form with another price.
EditPrice(p) ==
  /\ path \in {"products", "checkout"}
  /\ p # price /\ Act
  /\ price' = p
  /\ repriced' = TRUE
  /\ UNCHANGED <<accounts, auth, form, user, stored, meddled, path,
                 listed, cart, carried, intent, paid, total>>

ShopNext ==
  \/ ListProducts
  \/ \E n \in 0 .. MaxQty : SetQty(n)
  \/ GoToCheckout
  \/ CreateIntent
  \/ NoCardForm
  \/ Pay
  \/ PlaceOrder
  \/ \E p \in Prices : EditPrice(p)

-----------------------------------------------------------------------------
(* Correctness *)

\* Each sum is computed from the price found at its time.  Whatever is edited
\* when, a card is charged what the checkout page showed, or Stripe's minimum if
\* that is more.  The order is billed the same, if the price was not edited after
\* the PaymentIntent had been asked for.
ChargedAtOnePrice ==
  path = "order" =>
    /\ paid # 0 => paid = AtLeast(MinCharge, SummaryTotal)
    /\ ~repriced /\ intent.total # 0 => SummaryTotal = total
    /\ ~repriced /\ paid # 0 => paid = AtLeast(MinCharge, total)

-----------------------------------------------------------------------------
(* The inductive invariant behind the sums *)

\* There is a price, and something in the cart that is checked out.  What is
\* charged comes from the PaymentIntent's total, which fits the price until the
\* price is edited; an order's page keeps the sums.
SumsInv ==
  /\ price \in Nat \ {0} /\ cart \in Nat
  /\ path = "checkout" => carried.qty \in Nat \ {0}
  /\ intent.step = "asked" => intent.total = 0
  /\ intent.step = "made" => intent.total # 0 /\ intent.charge = AtLeast(MinCharge, intent.total)
  /\ paid # 0 => intent.step = "made" /\ paid = intent.charge
  /\ path = "checkout" /\ ~repriced =>
       /\ intent.total # 0 => intent.total = carried.qty * price
       /\ intent.step = "made" => intent.total = carried.qty * price
  /\ ChargedAtOnePrice

=============================================================================

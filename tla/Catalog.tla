------------------------------- MODULE Catalog -------------------------------
(***************************************************************************)
(* catalog-service and the admin page in front of it.  A product is a row  *)
(* of products; its stock is the available column of inventory, which the  *)
(* order saga takes from and returns to.  The admin page edits a copy: its *)
(* form starts from a product as it was listed and sends every field back, *)
(* changed or not, and the service writes the stock it is sent as an       *)
(* absolute number.  (The list is loaded and the form opened in one step;  *)
(* the form stays open for any time, which is what makes its copy stale.)  *)
(***************************************************************************)
EXTENDS Integers

CONSTANTS
  Skus,         \* stock keeping units
  Stock0,       \* Stock0[s]: seeded inventory.available
  Absent,       \* no products row
  Closed,       \* no form is open
  EditStocks,   \* stock quantities an admin may type in
  MaxEdits      \* bound on requests to catalog-service

ASSUME CatalogAssumption ==
  /\ Stock0 \in [Skus -> Nat]
  /\ EditStocks \subseteq Nat /\ MaxEdits \in Nat

VARIABLES
  product,      \* product[s]: "active", "inactive" or Absent
  available,    \* inventory.available, 0 without a row
  form,         \* the admin page's open form: the listed values
  edits         \* requests sent to catalog-service

catalogVars == <<product, available, form, edits>>

Form == [sku : Skus, new : BOOLEAN, active : BOOLEAN, stock : Nat]

CatalogInit ==
  /\ product = [s \in Skus |-> "active"]
  /\ available = Stock0
  /\ form = Closed
  /\ edits = 0

-----------------------------------------------------------------------------
(* admin page *)

\* GET /products?include_inactive=true, then "Edit".
OpenForm(s) ==
  /\ form = Closed /\ edits < MaxEdits
  /\ product[s] # Absent
  /\ form' = [sku |-> s, new |-> FALSE,
              active |-> product[s] = "active", stock |-> available[s]]
  /\ UNCHANGED <<product, available, edits>>

\* "Add product" starts from an empty form.
OpenNewForm(s) ==
  /\ form = Closed /\ edits < MaxEdits
  /\ form' = [sku |-> s, new |-> TRUE, active |-> TRUE, stock |-> 0]
  /\ UNCHANGED <<product, available, edits>>

CloseForm ==
  /\ form # Closed
  /\ form' = Closed
  /\ UNCHANGED <<product, available, edits>>

-----------------------------------------------------------------------------
(* catalog-service *)

Request == edits < MaxEdits /\ edits' = edits + 1

\* The stock field: what the form started from, or what the admin types in.
Typed == IF form = Closed THEN {} ELSE EditStocks \cup {form.stock}

\* The form's fields as the admin leaves them: only stock and activity matter.
\* PATCH of an existing product, or POST of a new one, replaces the stock.
SaveForm(active, stock) ==
  /\ form # Closed /\ Request
  /\ form.new <=> product[form.sku] = Absent
  /\ product' = [product EXCEPT ![form.sku] = IF active THEN "active" ELSE "inactive"]
  /\ available' = [available EXCEPT ![form.sku] = stock]
  /\ form' = Closed

\* 404 for a deleted product, 409 for an existing SKU: the form stays open.
SaveRejected ==
  /\ form # Closed /\ Request
  /\ form.new <=> product[form.sku] # Absent
  /\ UNCHANGED <<product, available, form>>

\* "Deactivate" in the form of an active product.
Deactivate ==
  /\ form # Closed /\ Request
  /\ ~form.new /\ form.active /\ product[form.sku] # Absent
  /\ product' = [product EXCEPT ![form.sku] = "inactive"]
  /\ form' = Closed
  /\ UNCHANGED available

\* Mutant of DeleteProduct: the inventory row goes with the product.
DeleteWithStock(s) ==
  /\ Request
  /\ product[s] # Absent
  /\ product' = [product EXCEPT ![s] = Absent]
  /\ available' = [available EXCEPT ![s] = 0]
  /\ UNCHANGED form

\* DELETE /products/{sku}: the inventory row stays.
DeleteProduct(s) ==
  /\ Request
  /\ product[s] # Absent
  /\ product' = [product EXCEPT ![s] = Absent]
  /\ UNCHANGED <<available, form>>

CatalogNext ==
  \/ \E s \in Skus : OpenForm(s)
  \/ \E s \in Skus : OpenNewForm(s)
  \/ CloseForm
  \/ \E active \in BOOLEAN : \E stock \in Typed : SaveForm(active, stock)
  \/ SaveRejected
  \/ Deactivate
  \/ \E s \in Skus : DeleteProduct(s)

-----------------------------------------------------------------------------

CatalogTypeOK ==
  /\ product \in [Skus -> {"active", "inactive", Absent}]
  /\ available \in [Skus -> Nat]
  /\ form \in Form \cup {Closed}
  /\ edits \in Nat

=============================================================================

------------------------------ MODULE Session -------------------------------
(***************************************************************************)
(* Accounts, and who is signed in in one browser tab: auth-service, the    *)
(* login and register forms, the routes and the two copies of the user.    *)
(* One copy is the state of AuthProvider, which the pages and the routes   *)
(* look at; the other is in localStorage, whose token every request is     *)
(* sent with, and which other tabs write too.  Answers of auth-service     *)
(* arrive whenever they do: the form that asked may be long gone, or the   *)
(* page loaded again, which no answer survives.                            *)
(*                                                                         *)
(* `acts' counts what people do in this tab, in other tabs and in the      *)
(* admin page (and, in Console, requests that fail and loads that overlap) *)
(* and bounds it.  Wrong passwords and rate limits are refusals; tokens do *)
(* not expire.                                                             *)
(***************************************************************************)
EXTENDS Naturals

CONSTANTS
  Emails,
  Admins,       \* accounts that are seeded with is_admin
  Nobody,
  MaxActs

ASSUME SessionAssumption ==
  Admins \subseteq Emails /\ Nobody \notin Emails /\ MaxActs \in Nat

VARIABLES
  accounts,     \* accounts[e]: rows of users with email e
  auth,         \* requests to auth-service
  form,         \* the request the mounted form waits for, 0 if none
  user,         \* AuthContext: the user of this tab
  stored,       \* localStorage fc_user
  meddled,      \* another tab has written it since this tab last did
  path,
  acts

sessionVars == <<accounts, auth, form, user, stored, meddled, path, acts>>

Public     == {"login", "register", "demo"}
AdminPages == {"operations", "copilot"}
Pages      == Public \cup AdminPages \cup {"products", "checkout", "order"}

Act == acts < MaxActs /\ acts' = acts + 1

\* ProtectedRoute and AdminRoute: what is rendered at p for user u.
Route(u, p) ==
  IF p \in Public                             THEN p
  ELSE IF u = Nobody                          THEN "login"
  ELSE IF p \in AdminPages /\ u \notin Admins THEN "products"
  ELSE p

SignedIn(u) == user' = u /\ stored' = u /\ meddled' = FALSE

SessionInit ==
  /\ accounts = [e \in Emails |-> IF e \in Admins THEN 1 ELSE 0]
  /\ auth = {} /\ form = 0
  /\ user \in Admins \cup {Nobody} /\ stored = user
  /\ meddled = FALSE
  /\ path \in Pages \ {"checkout", "order"} /\ Route(user, path) = path
  /\ acts = 0

-----------------------------------------------------------------------------
(* the forms; their button is disabled while they wait *)

Submit(e) ==
  /\ path \in {"login", "register"} /\ form = 0
  /\ Act
  /\ form' = acts'
  /\ auth' = auth \cup {[id |-> acts', kind |-> path, email |-> e, step |-> "sent", heard |-> TRUE]}
  /\ UNCHANGED <<accounts, user, stored, meddled, path>>

\* The answer signs the user in and moves the tab to the products, whatever
\* page it has come to.
HearAuth(r) ==
  /\ r \in auth /\ r.step = "granted" /\ r.heard
  /\ auth' = auth \ {r}
  /\ form' = 0
  /\ SignedIn(r.email)
  /\ path' = "products"
  /\ UNCHANGED <<accounts, acts>>

Unheard(r) == [r EXCEPT !.heard = FALSE]

\* The form that is still there shows an error: for a refusal or a lost answer,
\* a request that fails in auth-service or never gets there, or a connection
\* that is lost while auth-service goes on with the request.
AuthFails(r) ==
  /\ r \in auth
  /\ \/ auth' = auth \ {r}
     \/ r.heard /\ auth' = (auth \ {r}) \cup {Unheard(r)}
  /\ form' = IF form = r.id THEN 0 ELSE form
  /\ UNCHANGED <<accounts, user, stored, meddled, path, acts>>

-----------------------------------------------------------------------------
(* auth-service *)

Becomes(r, step) == auth' = (auth \ {r}) \cup {[r EXCEPT !.step = step]}

\* register: SELECT, ...
CheckEmail(r) ==
  /\ r \in auth /\ r.kind = "register" /\ r.step = "sent"
  /\ Becomes(r, IF accounts[r.email] = 0 THEN "free" ELSE "refused")
  /\ UNCHANGED <<accounts, form, user, stored, meddled, path, acts>>

\* ... and INSERT; email is UNIQUE, and a second row raises.
InsertUser(r) ==
  /\ r \in auth /\ r.step = "free"
  /\ IF accounts[r.email] = 0
       THEN accounts' = [accounts EXCEPT ![r.email] = @ + 1] /\ Becomes(r, "granted")
       ELSE Becomes(r, "refused") /\ UNCHANGED accounts
  /\ UNCHANGED <<form, user, stored, meddled, path, acts>>

\* login: no account and a wrong password are told alike.
CheckPassword(r) ==
  /\ r \in auth /\ r.kind = "login" /\ r.step = "sent"
  /\ \/ accounts[r.email] > 0 /\ Becomes(r, "granted")
     \/ Becomes(r, "refused")
  /\ UNCHANGED <<accounts, form, user, stored, meddled, path, acts>>

-----------------------------------------------------------------------------
(* the tab *)

\* Mutant of Logout: the stored copy is left behind.
LogoutKeepsToken ==
  /\ path \notin Public /\ user # Nobody
  /\ Act
  /\ user' = Nobody
  /\ path' = "login" /\ form' = 0
  /\ UNCHANGED <<accounts, auth, stored, meddled>>

\* "Sign out" in the layout of the signed-in pages.
Logout ==
  /\ path \notin Public /\ user # Nobody
  /\ Act
  /\ SignedIn(Nobody)
  /\ path' = "login" /\ form' = 0
  /\ UNCHANGED <<accounts, auth>>

\* A link, or a step in the history, inside the application.  (The checkout and
\* the order's page are reached through the shop only.)
Navigate(p) ==
  /\ p \notin {"checkout", "order"}
  /\ path' = Route(user, p) /\ path' # path
  /\ IF {path, p} \subseteq Public THEN UNCHANGED acts ELSE Act
  /\ form' = 0
  /\ UNCHANGED <<accounts, auth, user, stored, meddled>>

\* The page is loaded again: AuthProvider starts from the stored user.
Reload ==
  /\ Act
  /\ SignedIn(stored)
  /\ path' = Route(stored, path)
  /\ form' = 0
  /\ auth' = {Unheard(r) : r \in auth}
  /\ UNCHANGED accounts

\* Another tab of the browser signs somebody in or out.
OtherTab(u) ==
  /\ u # stored /\ (u # Nobody => accounts[u] > 0)
  /\ Act
  /\ stored' = u /\ meddled' = TRUE
  /\ UNCHANGED <<accounts, auth, form, user, path>>

-----------------------------------------------------------------------------
(* Correctness *)

\* However registrations overlap, an email has one account at most.
OneAccountPerEmail == \A e \in Emails : accounts[e] <= 1

\* Requests are sent in the name of the user the pages show, unless another tab
\* has signed somebody else in or out since.
SessionAgrees == ~meddled => stored = user

AuthRec == [id : Nat, kind : {"login", "register"}, email : Emails,
            step : {"sent", "free", "granted", "refused"}, heard : BOOLEAN]

\* Whatever page is shown, the signed-in user may see it.
Guarded == Route(user, path) = path

=============================================================================

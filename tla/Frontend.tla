------------------------------ MODULE Frontend ------------------------------
(***************************************************************************)
(* One browser tab: sessions, the shop and the consoles.  The router shows *)
(* one page at a time; a page that is left unmounts, with its state, its   *)
(* timers and its requests, and the next one mounts afresh.                *)
(*                                                                         *)
(* Orders only move while a console is shown, prices while the shop is:    *)
(* no other page looks at them.                                            *)
(***************************************************************************)
EXTENDS Shop, Console

vars == <<sessionVars, shopVars, serverVars, consoleVars>>

Init == SessionInit /\ ShopInit /\ ConsoleInit

Remount(c) == MountConsole(path') /\ MountShop(c)

\* Steps of a session: the page is kept if the path is.
SameOrNewPage ==
  \/ path' = path /\ UNCHANGED <<carried, pageVars, consoleVars>>
  \/ path' # path /\ Remount(NoCart)

SessionStep ==
  /\ \/ \E e \in Emails : Submit(e)
     \/ \E r \in auth : HearAuth(r)
     \/ \E r \in auth : AuthFails(r)
     \/ \E r \in auth : CheckEmail(r)
     \/ \E r \in auth : InsertUser(r)
     \/ \E r \in auth : CheckPassword(r)
     \/ Logout
     \/ \E p \in Pages : Navigate(p)
     \/ \E u \in Emails \cup {Nobody} : OtherTab(u)
  /\ SameOrNewPage
  /\ UNCHANGED <<price, serverVars>>

\* The history entry of the checkout keeps the cart it was handed.
ReloadStep ==
  /\ Reload
  /\ Remount(IF path' = "checkout" THEN carried ELSE NoCart)
  /\ UNCHANGED <<price, serverVars>>

ShopStep    == ShopNext /\ UNCHANGED <<serverVars, consoleVars>>
ConsoleStep == ConsoleNext /\ UNCHANGED shopVars

Next == SessionStep \/ ReloadStep \/ ShopStep \/ ConsoleStep

Spec == Init /\ [][Next]_vars

\* The interval's timer fires, requests are answered, some before others, and
\* answers are revealed.  Orders need not be decided, and nobody has to click.
Fairness ==
  /\ WF_vars((\A i \in 1 .. MaxLoads : loads[i] = Idle)
             /\ (\E i \in 1 .. MaxLoads : StartLoad(i)) /\ UNCHANGED shopVars)
  /\ WF_vars((\E i \in 1 .. MaxLoads :
                HearLoad(i) \/ LoadRefused(i) \/ \E part \in Parts : ReadPart(i, part))
             /\ UNCHANGED shopVars)
  /\ WF_vars((QueryAnswered \/ QueryFails \/ Reveal) /\ UNCHANGED shopVars)

FairSpec == Spec /\ Fairness

-----------------------------------------------------------------------------
(* The inductive invariant behind the sessions and the sums *)

FrontendInv ==
  /\ accounts \in [Emails -> 0 .. 1]
  /\ Admins \subseteq {e \in Emails : accounts[e] = 1}
  /\ auth \subseteq AuthRec /\ acts \in Nat
  /\ SessionAgrees
  /\ Guarded
  /\ SumsInv

=============================================================================

----------------------------- MODULE AtLeastOnce -----------------------------
(***************************************************************************)
(* What an outbox relay promises: a row, once written, is pending until it *)
(* is forgotten, and only a row that has been handed to the broker at      *)
(* least once may be forgotten.                                            *)
(***************************************************************************)
CONSTANT Rows

VARIABLES pending, handed

relay == <<pending, handed>>

Init == pending = {} /\ handed = {}

Write(r) ==
  /\ r \notin pending \cup handed
  /\ pending' = pending \cup {r}
  /\ UNCHANGED handed

Hand(r) ==
  /\ r \in pending
  /\ handed' = handed \cup {r}
  /\ UNCHANGED pending

Forget(S) ==
  /\ S \subseteq pending \cap handed
  /\ pending' = pending \ S
  /\ UNCHANGED handed

Next ==
  \/ \E r \in Rows : Write(r) \/ Hand(r)
  \/ \E S \in SUBSET Rows : Forget(S)

Spec == Init /\ [][Next]_relay

=============================================================================

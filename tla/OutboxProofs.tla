----------------------------- MODULE OutboxProofs -----------------------------
(***************************************************************************)
(* Proofs about the outbox pollers, for any number of rows, pollers and    *)
(* rolled back batches.                                                    *)
(***************************************************************************)
EXTENDS Outbox, WellFoundedInduction, TLAPS

USE RowsAssumption, LimitAssumption

-----------------------------------------------------------------------------
(* The next row of a batch *)

\* A batch that is not empty has a smallest row.
LEMMA MinOfRows ==
  ASSUME NEW S \in SUBSET Rows, S # {}
  PROVE  Min(S) \in S
  <1>1. S \subseteq Nat
    OBVIOUS
  <1>2. PICK x \in S : \A y \in S : ~ (<<y, x>> \in OpToRel(<, Nat))
    BY <1>1, NatLessThanWellFounded, WFMin
  <1>3. ASSUME NEW y \in S PROVE x =< y
    <2>1. x \in Nat /\ y \in Nat /\ <<y, x>> \in Nat \X Nat
      BY <1>1
    <2>2. ~ (<<y, x>>[1] < <<y, x>>[2])
      BY <1>2, <2>1 DEF OpToRel
    <2> QED
      BY <2>1, <2>2
  <1> QED
    BY <1>3 DEF Min

\* The row a poller that has sent one is about to mark.
LEMMA SentRowInBatch ==
  ASSUME OutboxInv, NEW p \in Pollers, pc[p] = "mark"
  PROVE  /\ Min(todo[p]) \in todo[p]
         /\ Min(todo[p]) \in Rows
  <1>1. todo[p] \in SUBSET Rows /\ todo[p] # {}
    BY DEF OutboxInv, TypeOK, BatchInv
  <1> QED
    BY <1>1, MinOfRows

-----------------------------------------------------------------------------
(* The inductive invariant, one lemma per step *)

\* Nothing is written, sent or locked yet.
LEMMA InitInv == Init => OutboxInv
  BY DEF Init, OutboxInv, TypeOK, BatchInv, CopiesInv, Locked, InBatchSent

\* A new row has no copy and is in no batch.
LEMMA WriteInv ==
  ASSUME OutboxInv, NEW r \in Rows, Write(r)
  PROVE  OutboxInv'
  BY DEF Write, OutboxInv, TypeOK, BatchInv, CopiesInv, Locked, InBatchSent

\* SKIP LOCKED: the new batch shares no row with another.
LEMMA FetchInv ==
  ASSUME OutboxInv, NEW p \in Pollers, Fetch(p)
  PROVE  OutboxInv'
  <1> DEFINE B == FirstRows(Available)
  <1>1. /\ B \subseteq written \ published
        /\ \A q \in Pollers : B \cap Locked(q) = {}
    BY DEF FirstRows, Available
  <1>2. /\ todo' = [todo EXCEPT ![p] = B] /\ pc' = [pc EXCEPT ![p] = "send"]
        /\ UNCHANGED <<written, published, sent, marked, aborts>>
        /\ pc[p] = "idle"
    BY DEF Fetch
  <1> HIDE DEF B
  <1>3. TypeOK'
    BY <1>1, <1>2 DEF OutboxInv, TypeOK
  <1>4. \A q \in Pollers : Locked(q)' = IF q = p THEN B ELSE Locked(q)
    BY <1>2 DEF OutboxInv, TypeOK, BatchInv, Locked
  <1>5. ASSUME NEW q \in Pollers PROVE BatchInv(q)'
    BY <1>1, <1>2, <1>4 DEF OutboxInv, TypeOK, BatchInv, Locked
  <1>6. ASSUME NEW q \in Pollers PROVE InBatchSent(q)' = InBatchSent(q)
    BY <1>2 DEF OutboxInv, TypeOK, BatchInv, Locked, InBatchSent
  <1>7. (\A r \in Rows : CopiesInv(r))'
    BY <1>2, <1>6 DEF OutboxInv, CopiesInv
  <1> QED
    BY <1>1, <1>2, <1>3, <1>4, <1>5, <1>7 DEF OutboxInv

\* The row sent is neither published nor sent by an open batch: at most its
\* copies from rolled back batches are in Kafka.
LEMMA SendInv ==
  ASSUME OutboxInv, NEW p \in Pollers, Send(p)
  PROVE  OutboxInv'
  <1> DEFINE m == Min(todo[p])
  <1>1. /\ pc[p] = "send" /\ m \in todo[p] /\ m \in Rows
        /\ sent' = [sent EXCEPT ![m] = @ + 1] /\ pc' = [pc EXCEPT ![p] = "mark"]
        /\ UNCHANGED <<written, published, todo, marked, aborts>>
    <2>1. todo[p] \in SUBSET Rows /\ todo[p] # {}
      BY DEF Send, OutboxInv, TypeOK
    <2> QED
      BY <2>1, MinOfRows DEF Send
  <1>2. TypeOK'
    <2> HIDE DEF m
    <2>1. sent' \in [Rows -> Nat]
      BY <1>1 DEF OutboxInv, TypeOK
    <2> QED
      BY <1>1, <2>1 DEF OutboxInv, TypeOK
  <1>3. \A q \in Pollers : Locked(q)' = Locked(q)
    BY <1>1 DEF Locked
  <1>4. (\A q \in Pollers : BatchInv(q))'
    BY <1>1, <1>3 DEF OutboxInv, TypeOK, BatchInv
  <1>5. \A q \in Pollers :
          InBatchSent(q)' = InBatchSent(q) \cup (IF q = p THEN {m} ELSE {})
    BY <1>1 DEF OutboxInv, TypeOK, InBatchSent
  <1>6. m \in written /\ m \notin published
    BY <1>1 DEF OutboxInv, BatchInv, Locked
  <1>7. ASSUME NEW q \in Pollers PROVE m \notin InBatchSent(q)
    <2>1. CASE q = p
      BY <1>1, <2>1 DEF OutboxInv, BatchInv, InBatchSent
    <2>2. CASE q # p
      <3>1. m \notin Locked(q)
        BY <1>1, <2>2 DEF OutboxInv, Locked
      <3>2. pc[q] = "mark" => Min(todo[q]) \in todo[q]
        BY SentRowInBatch
      <3> QED
        BY <3>1, <3>2 DEF InBatchSent, Locked
    <2> QED
      BY <2>1, <2>2
  <1>8. sent[m] <= aborts
    BY <1>1, <1>6, <1>7 DEF OutboxInv, CopiesInv
  <1> HIDE DEF m
  <1>9. ASSUME NEW r \in Rows PROVE CopiesInv(r)'
    <2>1. CASE r = m
      BY <1>1, <1>5, <1>6, <1>8, <2>1 DEF OutboxInv, TypeOK, CopiesInv
    <2>2. CASE r # m
      BY <1>1, <1>5, <2>2 DEF OutboxInv, TypeOK, CopiesInv
    <2> QED
      BY <2>1, <2>2
  <1> QED
    BY <1>1, <1>2, <1>3, <1>4, <1>9 DEF OutboxInv

\* Marking moves a sent row of the batch; which rows are sent stays the same.
LEMMA MarkInv ==
  ASSUME OutboxInv, NEW p \in Pollers, Mark(p)
  PROVE  OutboxInv'
  <1> DEFINE m == Min(todo[p])
  <1>1. /\ pc[p] = "mark" /\ m \in todo[p] /\ m \in Rows
        /\ marked' = [marked EXCEPT ![p] = @ \cup {m}]
        /\ todo' = [todo EXCEPT ![p] = @ \ {m}] /\ pc' = [pc EXCEPT ![p] = "send"]
        /\ UNCHANGED <<written, published, sent, aborts>>
    BY SentRowInBatch DEF Mark
  <1>2. \A q \in Pollers : InBatchSent(q)' = InBatchSent(q)
    <2>1. \A q \in Pollers : q # p => InBatchSent(q)' = InBatchSent(q)
      BY <1>1 DEF OutboxInv, TypeOK, InBatchSent
    <2>2. InBatchSent(p)' = InBatchSent(p)
      BY <1>1 DEF OutboxInv, TypeOK, InBatchSent
    <2> QED
      BY <2>1, <2>2
  <1> HIDE DEF m
  <1>3. TypeOK'
    BY <1>1 DEF OutboxInv, TypeOK
  <1>4. \A q \in Pollers : Locked(q)' = Locked(q)
    BY <1>1 DEF OutboxInv, TypeOK, Locked
  <1>5. ASSUME NEW q \in Pollers PROVE BatchInv(q)'
    BY <1>1, <1>4 DEF OutboxInv, TypeOK, BatchInv
  <1>6. (\A r \in Rows : CopiesInv(r))'
    BY <1>1, <1>2 DEF OutboxInv, CopiesInv
  <1> QED
    BY <1>1, <1>3, <1>4, <1>5, <1>6 DEF OutboxInv

\* A committed batch has been sent as a whole.
LEMMA CommitInv ==
  ASSUME OutboxInv, NEW p \in Pollers, Commit(p)
  PROVE  OutboxInv'
  <1>1. /\ pc[p] = "send" /\ todo[p] = {}
        /\ published' = published \cup marked[p]
        /\ marked' = [marked EXCEPT ![p] = {}] /\ pc' = [pc EXCEPT ![p] = "idle"]
        /\ UNCHANGED <<written, sent, todo, aborts>>
    BY DEF Commit
  <1>2. TypeOK'
    BY <1>1 DEF OutboxInv, TypeOK
  <1>3. \A q \in Pollers : Locked(q)' = IF q = p THEN {} ELSE Locked(q)
    BY <1>1 DEF OutboxInv, TypeOK, Locked
  <1>4. \A q \in Pollers : q # p => Locked(q) \cap marked[p] = {}
    BY DEF OutboxInv, Locked
  <1>5. marked[p] \subseteq written \ published
    BY DEF OutboxInv, BatchInv, Locked
  <1>6. ASSUME NEW q \in Pollers PROVE BatchInv(q)'
    BY <1>1, <1>3, <1>4 DEF OutboxInv, TypeOK, BatchInv, Locked
  <1>7. \A q \in Pollers : InBatchSent(q)' = IF q = p THEN {} ELSE InBatchSent(q)
    BY <1>1 DEF OutboxInv, TypeOK, InBatchSent
  <1>8. InBatchSent(p) = marked[p]
    BY <1>1 DEF InBatchSent
  <1>9. (\A r \in Rows : CopiesInv(r))'
    BY <1>1, <1>7, <1>8 DEF OutboxInv, TypeOK, CopiesInv
  <1> QED
    BY <1>1, <1>2, <1>3, <1>5, <1>6, <1>9 DEF OutboxInv

\* The copies a rolled back batch has left count as its abort's.
LEMMA AbortInv ==
  ASSUME OutboxInv, NEW p \in Pollers, Abort(p)
  PROVE  OutboxInv'
  <1>1. /\ aborts' = aborts + 1
        /\ todo' = [todo EXCEPT ![p] = {}] /\ marked' = [marked EXCEPT ![p] = {}]
        /\ pc' = [pc EXCEPT ![p] = "idle"]
        /\ UNCHANGED <<written, published, sent>>
    BY DEF Abort
  <1>2. TypeOK'
    BY <1>1 DEF OutboxInv, TypeOK
  <1>3. \A q \in Pollers : Locked(q)' = IF q = p THEN {} ELSE Locked(q)
    BY <1>1 DEF OutboxInv, TypeOK, Locked
  <1>4. ASSUME NEW q \in Pollers PROVE BatchInv(q)'
    BY <1>1, <1>3 DEF OutboxInv, TypeOK, BatchInv, Locked
  <1>5. \A q \in Pollers : InBatchSent(q)' = IF q = p THEN {} ELSE InBatchSent(q)
    BY <1>1 DEF OutboxInv, TypeOK, InBatchSent
  <1>6. (\A r \in Rows : CopiesInv(r))'
    BY <1>1, <1>5 DEF OutboxInv, TypeOK, CopiesInv
  <1> QED
    BY <1>1, <1>2, <1>3, <1>4, <1>6 DEF OutboxInv

\* Every step, and every stuttering step, preserves the invariant.
LEMMA NextInv == OutboxInv /\ [Next]_vars => OutboxInv'
  <1> SUFFICES ASSUME OutboxInv, [Next]_vars PROVE OutboxInv'
    OBVIOUS
  <1>1. CASE Next
    BY <1>1, WriteInv, FetchInv, SendInv, MarkInv, CommitInv, AbortInv DEF Next
  <1>2. CASE UNCHANGED vars
    BY <1>2 DEF vars, OutboxInv, TypeOK, BatchInv, CopiesInv, Locked, InBatchSent
  <1> QED
    BY <1>1, <1>2

\* The inductive invariant holds of every reachable state.
THEOREM OutboxInvariant == Spec => []OutboxInv
  BY InitInv, NextInv, PTL DEF Spec

-----------------------------------------------------------------------------
(* What follows *)

\* Beyond the first, every copy of a row in Kafka is due to a batch that was
\* rolled back after it had been sent.
THEOREM CopiesAreBounded == Spec => []CopiesBounded
  <1>1. OutboxInv => CopiesBounded
    BY DEF OutboxInv, CopiesInv, CopiesBounded
  <1> QED
    BY <1>1, OutboxInvariant, PTL

\* A row whose mark has committed is never sent again, by any poller.
THEOREM PublishedStaysSent == Spec => NeverResent
  <1> DEFINE Kept == \A r \in published : sent'[r] = sent[r]
  <1>1. OutboxInv /\ [Next]_vars => [Kept]_vars
    <2> SUFFICES ASSUME OutboxInv, Next PROVE Kept
      OBVIOUS
    <2>1. CASE UNCHANGED sent
      BY <2>1
    <2>2. ASSUME NEW p \in Pollers, Send(p) PROVE Kept
      <3>1. todo[p] \in SUBSET Rows /\ todo[p] # {} /\ todo[p] \cap published = {}
        BY <2>2 DEF Send, OutboxInv, TypeOK, BatchInv, Locked
      <3>2. Min(todo[p]) \notin published
        BY <3>1, MinOfRows
      <3>3. sent' = [sent EXCEPT ![Min(todo[p])] = @ + 1] /\ published \subseteq Rows
        BY <2>2 DEF Send, OutboxInv, TypeOK
      <3> QED
        BY <3>2, <3>3 DEF OutboxInv, TypeOK
    <2> QED
      BY <2>1, <2>2 DEF Next, Write, Fetch, Mark, Commit, Abort
  <1> QED
    BY <1>1, OutboxInvariant, PTL DEF Spec, NeverResent

-----------------------------------------------------------------------------
(* Refinement of AtLeastOnce *)

\* Every step of a poller is a step of the relay or leaves it alone.
LEMMA RelayNext == OutboxInv /\ [Next]_vars => [Relay!Next]_Relay!relay
  <1> DEFINE pending == written \ published
             handed == {r \in Rows : sent[r] > 0}
  <1> SUFFICES ASSUME OutboxInv, [Next]_vars
               PROVE  Relay!Next \/ UNCHANGED <<pending, handed>>
    BY DEF Relay!relay
  <1>1. ASSUME NEW r \in Rows, Write(r) PROVE Relay!Write(r)
    BY <1>1 DEF Write, Relay!Write, OutboxInv, CopiesInv
  <1>2. ASSUME NEW p \in Pollers, Send(p)
        PROVE  \E r \in Rows : Relay!Hand(r)
    <2>1. /\ todo[p] \in SUBSET Rows /\ todo[p] # {}
          /\ todo[p] \subseteq written \ published
      BY <1>2 DEF Send, OutboxInv, TypeOK, BatchInv, Locked
    <2> PICK m \in todo[p] : m = Min(todo[p])
      BY <2>1, MinOfRows
    <2>2. sent' = [sent EXCEPT ![m] = @ + 1] /\ UNCHANGED <<written, published>>
      BY <1>2 DEF Send
    <2>3. m \in Rows /\ m \in pending
      BY <2>1
    <2>4. handed' = handed \cup {m}
      BY <2>2, <2>3 DEF OutboxInv, TypeOK
    <2> QED
      BY <2>2, <2>3, <2>4 DEF Relay!Hand
  <1>3. ASSUME NEW p \in Pollers, Commit(p)
        PROVE  \E S \in SUBSET Rows : Relay!Forget(S)
    <2>1. /\ marked[p] \in SUBSET Rows /\ marked[p] \subseteq written \ published
          /\ \A r \in marked[p] : sent[r] > 0
      BY DEF OutboxInv, TypeOK, BatchInv, CopiesInv, InBatchSent, Locked
    <2>2. published' = published \cup marked[p] /\ UNCHANGED <<written, sent>>
      BY <1>3 DEF Commit
    <2> QED
      BY <2>1, <2>2 DEF Relay!Forget
  <1>4. CASE UNCHANGED <<written, published, sent>>
    BY <1>4
  <1> QED
    BY <1>1, <1>2, <1>3, <1>4 DEF Next, vars, Fetch, Mark, Abort, Relay!Next

\* The pollers implement the relay: no row is forgotten that Kafka has not got.
THEOREM PollersRelay == Spec => ImplementsRelay
  <1>1. Init => Relay!Init
    BY DEF Init, Relay!Init
  <1> QED
    BY <1>1, RelayNext, OutboxInvariant, PTL DEF Spec, ImplementsRelay, Relay!Spec

=============================================================================

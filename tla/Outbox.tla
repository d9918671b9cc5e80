-------------------------------- MODULE Outbox --------------------------------
(***************************************************************************)
(* The outbox pollers in detail.  order-service, inventory-service and (in *)
(* Stripe mode) payment-service each run run_outbox_poller over the one    *)
(* outbox table.  A poller's batch is one transaction: its rows are locked *)
(* by SELECT ... FOR UPDATE SKIP LOCKED, sent one by one, each marked in   *)
(* the still open transaction, and all marks commit together.  Any         *)
(* exception, and a crash, rolls the whole batch back; Kafka keeps what    *)
(* was sent.                                                               *)
(***************************************************************************)
EXTENDS Integers, FiniteSets, FiniteSetsExt

CONSTANTS
  Rows,         \* outbox ids, in BIGSERIAL order
  Pollers,      \* service instances
  Limit,        \* batch size (LIMIT 100)
  MaxAborts     \* bound on rolled back batches

ASSUME RowsAssumption  == Rows \subseteq Nat
ASSUME LimitAssumption == Limit \in Nat \ {0} /\ MaxAborts \in Nat

VARIABLES
  written,      \* rows whose business transaction has committed
  published,    \* rows with published_at set by a committed batch
  sent,         \* sent[r]: copies of r in Kafka
  pc,           \* where each poller is in its loop
  todo,         \* rows of the batch not marked yet
  marked,       \* rows marked by the open transaction
  aborts        \* batches rolled back so far

vars == <<written, published, sent, pc, todo, marked, aborts>>

Locked(p) == todo[p] \cup marked[p]

Init ==
  /\ written = {}
  /\ published = {}
  /\ sent = [r \in Rows |-> 0]
  /\ pc = [p \in Pollers |-> "idle"]
  /\ todo = [p \in Pollers |-> {}]
  /\ marked = [p \in Pollers |-> {}]
  /\ aborts = 0

\* write_outbox, committed with the business change.  Ids are drawn before the
\* commit, so rows become visible in any order.
Write(r) ==
  /\ r \notin written
  /\ written' = written \cup {r}
  /\ UNCHANGED <<published, sent, pc, todo, marked, aborts>>

\* Mutant of Available: the SELECT takes no locks.
AvailableUnlocked == written \ published

\* Rows the SELECT may return: unpublished and not locked by another batch.
Available == (written \ published) \ UNION {Locked(q) : q \in Pollers}

\* The Limit smallest ids of a set of rows.
FirstRows(S) == {r \in S : Cardinality({q \in S : q < r}) < Limit}

Fetch(p) ==
  /\ pc[p] = "idle"
  /\ Available # {}
  /\ todo' = [todo EXCEPT ![p] = FirstRows(Available)]
  /\ pc' = [pc EXCEPT ![p] = "send"]
  /\ UNCHANGED <<written, published, sent, marked, aborts>>

\* send_and_wait of the batch's next row.
Send(p) ==
  /\ pc[p] = "send" /\ todo[p] # {}
  /\ sent' = [sent EXCEPT ![Min(todo[p])] = @ + 1]
  /\ pc' = [pc EXCEPT ![p] = "mark"]
  /\ UNCHANGED <<written, published, todo, marked, aborts>>

\* UPDATE outbox SET published_at, inside the batch's transaction.
Mark(p) ==
  /\ pc[p] = "mark"
  /\ marked' = [marked EXCEPT ![p] = @ \cup {Min(todo[p])}]
  /\ todo' = [todo EXCEPT ![p] = @ \ {Min(todo[p])}]
  /\ pc' = [pc EXCEPT ![p] = "send"]
  /\ UNCHANGED <<written, published, sent, aborts>>

\* The loop is through: the transaction commits, the poller sleeps.
Commit(p) ==
  /\ pc[p] = "send" /\ todo[p] = {}
  /\ published' = published \cup marked[p]
  /\ marked' = [marked EXCEPT ![p] = {}]
  /\ pc' = [pc EXCEPT ![p] = "idle"]
  /\ UNCHANGED <<written, sent, todo, aborts>>

\* Mutant of Abort: a failed batch keeps the marks it has written.
AbortKeepsBatch(p) ==
  /\ pc[p] # "idle"
  /\ aborts < MaxAborts
  /\ aborts' = aborts + 1
  /\ published' = published \cup Locked(p)
  /\ todo' = [todo EXCEPT ![p] = {}]
  /\ marked' = [marked EXCEPT ![p] = {}]
  /\ pc' = [pc EXCEPT ![p] = "idle"]
  /\ UNCHANGED <<written, sent>>

\* Mutant of Abort: the transaction is left open and keeps its locks.
AbortKeepsLocks(p) ==
  /\ pc[p] # "idle"
  /\ aborts < MaxAborts
  /\ aborts' = aborts + 1
  /\ pc' = [pc EXCEPT ![p] = "idle"]
  /\ UNCHANGED <<written, published, sent, todo, marked>>

\* A send, an UPDATE or the commit raised, or the process stopped.
Abort(p) ==
  /\ pc[p] # "idle"
  /\ aborts < MaxAborts
  /\ aborts' = aborts + 1
  /\ todo' = [todo EXCEPT ![p] = {}]
  /\ marked' = [marked EXCEPT ![p] = {}]
  /\ pc' = [pc EXCEPT ![p] = "idle"]
  /\ UNCHANGED <<written, published, sent>>

Poll(p) == Fetch(p) \/ Send(p) \/ Mark(p) \/ Commit(p)

Next ==
  \/ \E r \in Rows : Write(r)
  \/ \E p \in Pollers : Fetch(p)
  \/ \E p \in Pollers : Send(p)
  \/ \E p \in Pollers : Mark(p)
  \/ \E p \in Pollers : Commit(p)
  \/ \E p \in Pollers : Abort(p)

Spec == Init /\ [][Next]_vars

\* Each poller is an endless loop with a sleep: while its process lives it
\* goes on, and the number of its failures is bounded by MaxAborts.
FairSpec == Spec /\ \A p \in Pollers : WF_vars(Poll(p))

-----------------------------------------------------------------------------
(* Correctness *)

TypeOK ==
  /\ written \in SUBSET Rows
  /\ published \in SUBSET Rows
  /\ sent \in [Rows -> Nat]
  /\ pc \in [Pollers -> {"idle", "send", "mark"}]
  /\ todo \in [Pollers -> SUBSET Rows]
  /\ marked \in [Pollers -> SUBSET Rows]
  /\ aborts \in Nat

\* No event is lost: a row is only marked published once Kafka has it.
PublishedWasSent == \A r \in published : sent[r] > 0

\* The docstring's promise that a row is never published twice, as far as the
\* code keeps it: every copy beyond the first is due to a batch that was rolled
\* back, however many pollers there are.
CopiesBounded == \A r \in Rows : sent[r] <= 1 + aborts

\* A row whose mark has committed is never sent again.
NeverResent == [][\A r \in published : sent'[r] = sent[r]]_vars

\* Every row written is published in the end.
AllPublished == \A r \in Rows : r \in written ~> r \in published

\* The pollers together are a relay: rows are forgotten only after the broker
\* has them, whole batches at a time.
Relay == INSTANCE AtLeastOnce
           WITH pending <- written \ published,
                handed <- {r \in Rows : sent[r] > 0}
ImplementsRelay == Relay!Spec

-----------------------------------------------------------------------------
(* The inductive invariant behind the safety properties *)

\* Rows of a poller's open batch that Kafka already has.
InBatchSent(p) ==
  marked[p] \cup (IF pc[p] = "mark" THEN {Min(todo[p])} ELSE {})

\* A batch holds unpublished rows, and nothing while its poller sleeps.
BatchInv(p) ==
  /\ Locked(p) \subseteq written \ published
  /\ todo[p] \cap marked[p] = {}
  /\ pc[p] = "idle" => Locked(p) = {}
  /\ pc[p] = "mark" => todo[p] # {}

\* How many copies of a row there can be: a row that is neither published nor
\* sent by an open batch owes every copy to a batch that was rolled back.
CopiesInv(r) ==
  /\ sent[r] <= 1 + aborts
  /\ sent[r] > 0 => r \in written
  /\ r \in published => sent[r] > 0
  /\ \A p \in Pollers : r \in InBatchSent(p) => sent[r] > 0
  /\ r \notin published /\ (\A p \in Pollers : r \notin InBatchSent(p)) =>
       sent[r] <= aborts

OutboxInv ==
  /\ TypeOK
  /\ published \subseteq written
  /\ \A p \in Pollers : BatchInv(p)
  /\ \A p, q \in Pollers : p # q => Locked(p) \cap Locked(q) = {}
  /\ \A r \in Rows : CopiesInv(r)

=============================================================================

------------------------------ MODULE StockRows ------------------------------
(***************************************************************************)
(* Several instances of inventory-service at one table, statement by       *)
(* statement.  OrderSaga takes a reservation or a release to be one step;  *)
(* here it is a transaction that claims its event and updates one row per  *)
(* line, in the order of the customer's cart.  A row is locked from its    *)
(* update to the end of the transaction or the rollback of the savepoint;  *)
(* who wants it next queues.  Carts that list the same products in a       *)
(* different order deadlock: PostgreSQL aborts one transaction, and        *)
(* run_consumer tries the message again until its retries are exhausted.   *)
(*                                                                         *)
(* A rebalance may hand a message to a second instance while the first one *)
(* still works on it.  `faults' counts rebalances and crashes.             *)
(***************************************************************************)
EXTENDS Integers, Sequences, SequencesExt

CONSTANTS
  Workers,      \* instances of inventory-service
  Orders, Skus,
  Cart,         \* Cart[o]: the SKUs of the order's lines, in their order
  Qty,          \* Qty[o][s]: units of SKU s in order o
  Stock0,       \* units seeded per SKU
  MaxRetries, MaxFaults

ASSUME CartAssumption ==
  /\ Cart \in [Orders -> Seq(Skus)]
  /\ \A o \in Orders : IsInjective(Cart[o])
  /\ Qty \in [Orders -> [Skus -> Nat]] /\ Stock0 \in [Skus -> Nat]
  /\ \A o \in Orders, s \in Skus : s \notin Range(Cart[o]) => Qty[o][s] = 0
  /\ MaxRetries \in Nat /\ MaxFaults \in Nat

VARIABLES
  available, reserved,   \* the committed columns of inventory
  queue,        \* queue[s]: who holds the lock of the row and who waits for it
  claimed,      \* messages in processed_events
  answers,      \* answers[t][o]: outbox rows of type t written for order o
  pending,      \* messages whose offset is not committed
  dead,         \* messages in the dead-letter topic
  failed,       \* orders whose payment has failed
  task,         \* what each instance is at work on
  faults

stockVars == <<available, reserved>>
vars == <<stockVars, queue, claimed, answers, pending, dead, failed, task, faults>>

Message(t, o) == [type |-> t, order |-> o]
Messages == {Message(t, o) : t \in {"OrderCreated", "ReleaseInventory"}, o \in Orders}

\* `line' is the line whose UPDATE is next, `attempt' the failed ones so far.
Task(m, step, line, attempt) ==
  [msg |-> m, step |-> step, line |-> line, attempt |-> attempt]
NoMessage == [type |-> "none", order |-> "none"]
Idle == Task(NoMessage, "idle", 1, 0)

AnswerTypes == {"InventoryReserved", "InventoryFailed"}

Order(w)  == task[w].msg.order
AtWork(w) == task[w].step \in {"update", "wait", "refuse"}
Line(w)   == Cart[Order(w)][task[w].line]
Ended(w)  == task[w].line > Len(Cart[Order(w)])

Init ==
  /\ available = Stock0 /\ reserved = [s \in Skus |-> 0]
  /\ queue = [s \in Skus |-> <<>>]
  /\ claimed = {} /\ dead = {} /\ failed = {}
  /\ answers = [t \in AnswerTypes |-> [o \in Orders |-> 0]]
  /\ pending = {Message("OrderCreated", o) : o \in Orders}
  /\ task = [w \in Workers |-> Idle]
  /\ faults = 0

Fault == faults < MaxFaults /\ faults' = faults + 1

\* The end of a transaction or the rollback of its savepoint.  A transaction
\* is in the queue for a row once at most: a cart lists a product once.
Unlocked(w) == [s \in Skus |-> RemoveFirst(queue[s], w)]

-----------------------------------------------------------------------------
(* run_consumer *)

\* Fetch a message; while another instance works on it, after a rebalance.
Take(w, m) ==
  /\ task[w] = Idle /\ m \in pending
  /\ IF \E v \in Workers : task[v].msg = m THEN Fault ELSE UNCHANGED faults
  /\ task' = [task EXCEPT ![w] = Task(m, "claim", 1, 0)]
  /\ UNCHANGED <<stockVars, queue, claimed, answers, pending, dead, failed>>

\* The handler has returned: commit the offset.
Ack(w) ==
  /\ task[w].step = "done"
  /\ pending' = pending \ {task[w].msg}
  /\ task' = [task EXCEPT ![w] = Idle]
  /\ UNCHANGED <<stockVars, queue, claimed, answers, dead, failed, faults>>

\* The process ends, its transaction with it; the message is delivered again.
Crash(w) ==
  /\ task[w] # Idle
  /\ Fault
  /\ queue' = Unlocked(w)
  /\ task' = [task EXCEPT ![w] = Idle]
  /\ UNCHANGED <<stockVars, claimed, answers, pending, dead, failed>>

\* Mutant of Retried: the exception is taken for a handled message.
Forgotten(w) ==
  /\ task' = [task EXCEPT ![w].step = "done"]
  /\ UNCHANGED <<pending, dead>>

\* The handler raises: once more from the start, or to the dead-letter topic.
Retried(w) ==
  LET n == task[w].attempt + 1
  IN  IF n <= MaxRetries
      THEN /\ task' = [task EXCEPT ![w] = Task(@.msg, "claim", 1, n)]
           /\ UNCHANGED <<pending, dead>>
      ELSE /\ task' = [task EXCEPT ![w] = Idle]
           /\ pending' = pending \ {task[w].msg}
           /\ dead' = dead \cup {task[w].msg}

-----------------------------------------------------------------------------
(* PostgreSQL: row locks and deadlocks *)

\* v is ahead of w in the queue for a row.
WaitsFor(w, v) ==
  \E s \in Skus : \E i, j \in DOMAIN queue[s] : i < j /\ queue[s][i] = v /\ queue[s][j] = w

\* Everybody in C waits for somebody in C; a least such set is a cycle.
Stuck(C) == C # {} /\ \A w \in C : \E v \in C : WaitsFor(w, v)
Cycle(C) == Stuck(C) /\ \A D \in SUBSET C : Stuck(D) => D = C

\* One of the transactions that wait in a cycle is aborted.
DeadlockAborts(w) ==
  /\ task[w].step = "wait"
  /\ \E C \in SUBSET Workers : w \in C /\ Cycle(C)
  /\ queue' = Unlocked(w)
  /\ Retried(w)
  /\ UNCHANGED <<stockVars, claimed, answers, failed, faults>>

-----------------------------------------------------------------------------
(* inventory-service: handle *)

\* Mutant of Claimable: the claim is looked up and does not wait for others'.
LookedUp(m) == m \notin claimed

\* INSERT ... ON CONFLICT DO NOTHING waits for a transaction that has inserted
\* the same claim.
Claimable(m) == m \notin claimed /\ \A v \in Workers : task[v].msg = m => ~AtWork(v)

\* The claim is new: go on with the lines.
Claim(w) ==
  /\ task[w].step = "claim" /\ Claimable(task[w].msg)
  /\ task' = [task EXCEPT ![w].step = "update"]
  /\ UNCHANGED <<stockVars, queue, claimed, answers, pending, dead, failed, faults>>

\* The claim exists: return.
Skip(w) ==
  /\ task[w].step = "claim" /\ task[w].msg \in claimed
  /\ task' = [task EXCEPT ![w].step = "done"]
  /\ UNCHANGED <<stockVars, queue, claimed, answers, pending, dead, failed, faults>>

\* Does the line's UPDATE match its row, as last committed?
Matches(w) ==
  \/ task[w].msg.type = "ReleaseInventory"
  \/ available[Line(w)] >= Qty[Order(w)][Line(w)]

\* UPDATE inventory finds the row and queues for its lock.
RequestRow(w) ==
  /\ task[w].step = "update" /\ ~Ended(w) /\ Matches(w)
  /\ queue' = [queue EXCEPT ![Line(w)] = Append(@, w)]
  /\ task' = [task EXCEPT ![w].step = "wait"]
  /\ UNCHANGED <<stockVars, claimed, answers, pending, dead, failed, faults>>

\* The lock is granted and the row, looked at again, still matches.
UpdateRow(w) ==
  /\ task[w].step = "wait" /\ Head(queue[Line(w)]) = w /\ Matches(w)
  /\ task' = [task EXCEPT ![w].step = "update", ![w].line = @ + 1]
  /\ UNCHANGED <<stockVars, queue, claimed, answers, pending, dead, failed, faults>>

\* Mutant of FallShort: no savepoint, the rows updated so far stay.
FallShortPartly(w) ==
  /\ \/ task[w].step = "update" /\ ~Ended(w)
     \/ task[w].step = "wait" /\ Head(queue[Line(w)]) = w
  /\ ~Matches(w)
  /\ task' = [task EXCEPT ![w].step = "refuse"]
  /\ UNCHANGED <<stockVars, queue, claimed, answers, pending, dead, failed, faults>>

\* No row matches, before or after the wait: the savepoint is rolled back and
\* its locks are given up, the claim stays.
FallShort(w) ==
  /\ \/ task[w].step = "update" /\ ~Ended(w)
     \/ task[w].step = "wait" /\ Head(queue[Line(w)]) = w
  /\ ~Matches(w)
  /\ queue' = Unlocked(w)
  /\ task' = [task EXCEPT ![w].step = "refuse"]
  /\ UNCHANGED <<stockVars, claimed, answers, pending, dead, failed, faults>>

\* Units that the transaction of w has taken from a row it holds.
Taken(w, s) ==
  IF w \in Range(queue[s]) /\ \E i \in 1 .. task[w].line - 1 : Cart[Order(w)][i] = s
  THEN IF task[w].msg.type = "OrderCreated" THEN Qty[Order(w)][s] ELSE -Qty[Order(w)][s]
  ELSE 0

\* The transaction commits: claim, rows and outbox row.
Commit(w, T) ==
  /\ claimed' = claimed \cup {task[w].msg}
  /\ answers' = [t \in AnswerTypes |->
                  IF t \in T THEN [answers[t] EXCEPT ![Order(w)] = @ + 1] ELSE answers[t]]
  /\ queue' = Unlocked(w)
  /\ task' = [task EXCEPT ![w].step = "done"]
  /\ UNCHANGED <<pending, dead, failed, faults>>

\* What the commit leaves in the table.
Settle(w) ==
  /\ available' = [s \in Skus |-> available[s] - Taken(w, s)]
  /\ reserved'  = [s \in Skus |-> reserved[s] + Taken(w, s)]

Reserve(w) ==
  /\ task[w].step = "update" /\ Ended(w) /\ task[w].msg.type = "OrderCreated"
  /\ Settle(w) /\ Commit(w, {"InventoryReserved"})

Refuse(w) ==
  /\ task[w].step = "refuse"
  /\ Settle(w) /\ Commit(w, {"InventoryFailed"})

Release(w) ==
  /\ task[w].step = "update" /\ Ended(w) /\ task[w].msg.type = "ReleaseInventory"
  /\ Settle(w) /\ Commit(w, {})

\* order-service: the payment of an order with stock fails, once.
PaymentFails(o) ==
  /\ answers["InventoryReserved"][o] > 0 /\ o \notin failed
  /\ failed' = failed \cup {o}
  /\ pending' = pending \cup {Message("ReleaseInventory", o)}
  /\ UNCHANGED <<stockVars, queue, claimed, answers, dead, task, faults>>

-----------------------------------------------------------------------------

Handle(w) ==
  \/ Claim(w) \/ Skip(w) \/ RequestRow(w) \/ UpdateRow(w) \/ FallShort(w)
  \/ Reserve(w) \/ Refuse(w) \/ Release(w)

Next ==
  \/ \E w \in Workers, m \in Messages : Take(w, m)
  \/ \E w \in Workers : Handle(w)
  \/ \E w \in Workers : DeadlockAborts(w)
  \/ \E w \in Workers : Ack(w)
  \/ \E w \in Workers : Crash(w)
  \/ \E o \in Orders : PaymentFails(o)

Spec == Init /\ [][Next]_vars

\* Every instance goes on with its loop, each message is fetched by someone,
\* and PostgreSQL looks for deadlocks.
Fairness ==
  /\ \A w \in Workers : WF_vars(Handle(w) \/ Ack(w))
  /\ \A m \in Messages :
       WF_vars((\A v \in Workers : task[v].msg # m) /\ \E w \in Workers : Take(w, m))
  /\ WF_vars(\E w \in Workers : DeadlockAborts(w))

FairSpec == Spec /\ Fairness

-----------------------------------------------------------------------------
(* Correctness *)

\* By its answers, the order has got its units and not returned them.
Holds(o) ==
  /\ answers["InventoryReserved"][o] > 0
  /\ Message("ReleaseInventory", o) \notin claimed

AnswersTo(o) == answers["InventoryReserved"][o] + answers["InventoryFailed"][o]

\* An order gets one answer, even if two instances handle its event at once.
AnsweredOnce ==
  \A o \in Orders : AnswersTo(o) <= 1

\* The committed columns are what the answers say: whatever transactions
\* interleave, wait, deadlock or die, no line of an order is reserved without
\* the others, none is reserved or released twice, and no unit is promised twice.
LedgerKept ==
  \A s \in Skus :
    /\ available[s] >= 0
    /\ available[s] + reserved[s] = Stock0[s]
    /\ reserved[s] =
         SumFunctionOnSet([o \in Orders |-> Qty[o][s]], {o \in Orders : Holds(o)})

\* How far the order's stock is decided: by its answers, or because a handler
\* has rolled back to its savepoint and is about to refuse.
AboutToRefuse(o) == \E w \in Workers : task[w].step = "refuse" /\ Order(w) = o

StageOf(o) ==
  IF AnswersTo(o) = 0      THEN IF AboutToRefuse(o) THEN "short" ELSE "new"
  ELSE IF AnswersTo(o) # 1 THEN "answered-twice"
  ELSE IF answers["InventoryFailed"][o] = 1 THEN "refused"
  ELSE IF Holds(o)         THEN "held"
  ELSE "returned"

stageOf == [o \in Orders |-> StageOf(o)]

Atomic == INSTANCE StockSteps WITH stage <- stageOf

\* To everybody else a reservation, a refusal or a release is one step of one
\* inventory-service, as OrderSaga takes it to be: with row locks, savepoints,
\* concurrent claims, aborted transactions and crashes in between, none is seen
\* in part, twice, or on stock that another one has taken.
ImplementsSteps == Atomic!Spec

\* Every message is handled or dead-lettered in the end: a deadlock never
\* outlasts its detection and no message is dropped with its aborted
\* transaction.
Settled ==
  \A m \in Messages : m \in pending ~> m \in claimed \cup dead

-----------------------------------------------------------------------------
(* The inductive invariants behind AnsweredOnce and LedgerKept *)

Steps == {"idle", "claim", "update", "wait", "refuse", "done"}

Tasks == [msg : Messages \cup {NoMessage}, step : Steps, line : Nat, attempt : Nat]

TypeOK ==
  /\ task \in [Workers -> Tasks]
  /\ answers \in [AnswerTypes -> [Orders -> Nat]]
  /\ pending \subseteq Messages

\* A message is worked on by one transaction, before it is claimed for good,
\* and only orders are refused.
TaskInv(w) ==
  /\ task[w].step # "idle" => task[w].msg \in Messages
  /\ AtWork(w) => task[w].msg \notin claimed
  /\ task[w].step = "refuse" => task[w].msg.type = "OrderCreated"
  /\ \A v \in Workers : AtWork(w) /\ AtWork(v) /\ task[v].msg = task[w].msg => v = w

AnswerInv(o) ==
  AnswersTo(o) = 0 \/ (AnswersTo(o) = 1 /\ Message("OrderCreated", o) \in claimed)

ClaimInv ==
  /\ TypeOK
  /\ \A w \in Workers : TaskInv(w)
  /\ \A o \in Orders : AnswerInv(o)

\* Messages that are waiting, at work or claimed.
Known == pending \cup claimed \cup {task[w].msg : w \in Workers}

\* Stock is returned for orders that have got some.
ReleaseInv(o) ==
  Message("ReleaseInventory", o) \in Known => answers["InventoryReserved"][o] > 0

\* The rows that the transaction of w has updated.
Rows(w) == {Cart[Order(w)][i] : i \in 1 .. task[w].line - 1}

Holder(w, s) == queue[s] # <<>> /\ Head(queue[s]) = w

\* A transaction queues for the rows of its lines up to the current one and
\* holds those it has updated, which have still the units it takes.
LockInv(w) ==
  /\ \A s \in Skus : w \in Range(queue[s]) =>
       \/ task[w].step \in {"update", "wait"} /\ s \in Rows(w)
       \/ task[w].step = "wait" /\ s = Line(w)
  /\ task[w].step = "claim" => task[w].line = 1
  /\ task[w].step = "wait" => ~Ended(w) /\ w \in Range(queue[Line(w)])
  /\ task[w].step \in {"update", "wait"} =>
       /\ task[w].line \in 1 .. Len(Cart[Order(w)]) + 1
       /\ \A s \in Rows(w) :
            /\ Holder(w, s)
            /\ task[w].msg.type = "OrderCreated" => available[s] >= Qty[Order(w)][s]

RowsInv ==
  /\ queue \in [Skus -> Seq(Workers)] /\ \A s \in Skus : IsInjective(queue[s])
  /\ available \in [Skus -> Nat] /\ reserved \in [Skus -> Int]
  /\ \A w \in Workers : LockInv(w)
  /\ \A o \in Orders : ReleaseInv(o)

=============================================================================

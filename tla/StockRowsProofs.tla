--------------------------- MODULE StockRowsProofs ---------------------------
(***************************************************************************)
(* An order gets one answer of inventory-service, and the committed stock  *)
(* is what the answers say, however many instances there are, in whatever  *)
(* order they lock rows and whichever of them are aborted or crash.        *)
(*                                                                         *)
(* ClaimInv is about claims alone: a message has one transaction at work   *)
(* on it at a time, and none once it is claimed.  RowsInv is about locks:  *)
(* a transaction is at the head of the queue for every row it has updated. *)
(* Both together say what a commit takes from each row (TakenRows) and     *)
(* that it turns a holder of stock from or into one (CommitHolds), which   *)
(* is what the sums need (Sums!SumMark, Sums!SumUnmark).                   *)
(***************************************************************************)
EXTENDS StockRows, Sums, SequenceTheorems, TLAPS

USE DEF AnswersTo

\* Steps that answer nothing and start no transaction: every instance keeps
\* its message and its state of work, or is on no transaction any more.
Quiet(w) ==
  \/ task'[w] = task[w]
  \/ /\ AtWork(w)' => AtWork(w)
     /\ task'[w].step # "idle" => task'[w].msg = task[w].msg /\ task[w].step # "idle"
     /\ task'[w].step = "refuse" => task[w].msg.type = "OrderCreated"

LEMMA InitInv == Init => ClaimInv
  <1> SUFFICES ASSUME Init PROVE ClaimInv
    OBVIOUS
  <1>1. TypeOK
    BY DEF Init, TypeOK, Tasks, Idle, Task, Messages, Message, Steps, NoMessage
  <1>2. \A w \in Workers : task[w].step = "idle"
    BY DEF Init, Idle, Task
  <1>3. \A w \in Workers : TaskInv(w)
    BY <1>2 DEF TaskInv, AtWork
  <1>4. \A o \in Orders : AnswerInv(o)
    BY DEF Init, AnswerInv, AnswerTypes
  <1> QED
    BY <1>1, <1>3, <1>4 DEF ClaimInv

\* What all steps but the ones that claim and commit have in common.
LEMMA QuietInv ==
  ASSUME ClaimInv, TypeOK', UNCHANGED <<claimed, answers>>,
         \A w \in Workers : Quiet(w)
  PROVE  ClaimInv'
  <1>1. \A o \in Orders : AnswerInv(o)'
    BY DEF ClaimInv, AnswerInv
  <1>2. ASSUME NEW w \in Workers PROVE TaskInv(w)'
    <2>1. TaskInv(w) /\ Quiet(w)
      BY DEF ClaimInv
    <2>2. AtWork(w)' => AtWork(w) /\ task'[w].msg = task[w].msg
      BY <2>1 DEF Quiet, AtWork
    <2>3. ASSUME NEW v \in Workers, AtWork(w)', AtWork(v)', task'[v].msg = task'[w].msg
          PROVE  v = w
      <3>1. AtWork(v) /\ task'[v].msg = task[v].msg
        BY <2>3 DEF Quiet, AtWork
      <3> QED
        BY <2>1, <2>2, <2>3, <3>1 DEF TaskInv
    <2>4. task'[w].step # "idle" => task'[w].msg \in Messages
      BY <2>1 DEF TaskInv, Quiet
    <2>5. task'[w].step = "refuse" => task'[w].msg.type = "OrderCreated"
      BY <2>1 DEF TaskInv, Quiet
    <2> QED
      BY <2>1, <2>2, <2>3, <2>4, <2>5 DEF TaskInv
  <1> QED
    BY <1>1, <1>2 DEF ClaimInv

\* An instance fetches a message: no transaction yet.
LEMMA TakeInv ==
  ASSUME ClaimInv, NEW w \in Workers, NEW m \in Messages, Take(w, m)
  PROVE  ClaimInv'
  <1>1. TypeOK
    BY DEF ClaimInv
  <1>2. /\ task' = [task EXCEPT ![w] = Task(m, "claim", 1, 0)]
        /\ UNCHANGED <<claimed, answers, pending>>
    BY DEF Take
  <1>3. TypeOK'
    BY <1>1, <1>2 DEF TypeOK, Tasks, Task, Steps
  <1>4. /\ task'[w].step = "claim" /\ task'[w].msg = m
        /\ \A v \in Workers \ {w} : task'[v] = task[v]
    BY <1>1, <1>2 DEF TypeOK, Task, Tasks
  <1>5. ASSUME NEW v \in Workers PROVE TaskInv(v)'
    <2>1. TaskInv(v)
      BY DEF ClaimInv
    <2> QED
      BY <1>2, <1>4, <2>1 DEF TaskInv, AtWork
  <1>6. \A o \in Orders : AnswerInv(o)'
    BY <1>2 DEF ClaimInv, AnswerInv
  <1> QED
    BY <1>3, <1>5, <1>6 DEF ClaimInv

\* A transaction begins only if no other one is at work on the message.
LEMMA ClaimKeeps ==
  ASSUME ClaimInv, NEW w \in Workers, Claim(w)
  PROVE  ClaimInv'
  <1>1. TypeOK /\ \A v \in Workers : TaskInv(v)
    BY DEF ClaimInv
  <1>2. /\ task' = [task EXCEPT ![w].step = "update"]
        /\ UNCHANGED <<claimed, answers, pending>>
        /\ task[w].step = "claim" /\ task[w].msg \notin claimed
        /\ \A v \in Workers : task[v].msg = task[w].msg => ~AtWork(v)
    BY DEF Claim, Claimable
  <1>3. TypeOK'
    BY <1>1, <1>2 DEF TypeOK, Tasks, Steps
  <1>4. /\ task'[w].step = "update" /\ task'[w].msg = task[w].msg
        /\ \A v \in Workers \ {w} : task'[v] = task[v]
    BY <1>1, <1>2 DEF TypeOK, Tasks
  <1>5. ASSUME NEW v \in Workers PROVE TaskInv(v)'
    BY <1>1, <1>2, <1>4 DEF TaskInv, AtWork
  <1>6. \A o \in Orders : AnswerInv(o)'
    BY <1>2 DEF ClaimInv, AnswerInv
  <1> QED
    BY <1>3, <1>5, <1>6 DEF ClaimInv

\* The statements of a transaction, and its end without a commit.
LEMMA StatementInv ==
  ASSUME ClaimInv, NEW w \in Workers,
         \/ Skip(w) \/ RequestRow(w) \/ UpdateRow(w) \/ FallShort(w)
         \/ Ack(w) \/ Crash(w) \/ DeadlockAborts(w)
  PROVE  ClaimInv'
  <1>1. TypeOK /\ TaskInv(w)
    BY DEF ClaimInv
  <1>2. UNCHANGED <<claimed, answers>>
    BY DEF Skip, RequestRow, UpdateRow, FallShort, Ack, Crash, DeadlockAborts
  <1>3. pending' \subseteq pending
    BY DEF Skip, RequestRow, UpdateRow, FallShort, Ack, Crash, DeadlockAborts, Retried
  <1>4. /\ task'[w] \in Tasks /\ task' = [task EXCEPT ![w] = task'[w]]
        /\ \/ task'[w].step = "idle"
           \/ /\ task'[w].msg = task[w].msg /\ task[w].step # "idle"
              /\ task'[w].step \in {"claim", "done"}
           \/ /\ task'[w].msg = task[w].msg /\ AtWork(w)
              /\ task'[w].step \in {"update", "wait"}
           \/ /\ task'[w].msg = task[w].msg /\ AtWork(w)
              /\ task'[w].step = "refuse" /\ task[w].msg.type = "OrderCreated"
    <2>0. task \in [Workers -> Tasks] /\ task[w] \in Tasks
      BY <1>1 DEF TypeOK
    <2>1. CASE Skip(w)
      <3>1. task' = [task EXCEPT ![w] = [task[w] EXCEPT !.step = "done"]] /\ task[w].step = "claim"
        BY <2>1 DEF Skip
      <3> QED
        BY <2>0, <3>1 DEF Tasks, Steps
    <2>2. CASE RequestRow(w)
      <3>1. task' = [task EXCEPT ![w] = [task[w] EXCEPT !.step = "wait"]] /\ task[w].step = "update"
        BY <2>2 DEF RequestRow
      <3> QED
        BY <2>0, <3>1 DEF Tasks, Steps, AtWork
    <2>3. CASE UpdateRow(w)
      <3>1. /\ task[w].step = "wait"
            /\ task' = [task EXCEPT ![w] = [task[w] EXCEPT !.step = "update", !.line = @ + 1]]
        BY <2>3 DEF UpdateRow
      <3>2. task[w].line + 1 \in Nat
        BY <2>0 DEF Tasks
      <3>3. [task[w] EXCEPT !.step = "update", !.line = @ + 1] \in Tasks
        BY <2>0, <3>2 DEF Tasks, Steps
      <3>4. task'[w] = [task[w] EXCEPT !.step = "update", !.line = @ + 1]
        BY <2>0, <3>1
      <3> QED
        BY <2>0, <3>1, <3>3, <3>4 DEF Tasks, AtWork
    <2>4. CASE FallShort(w)
      <3>1. /\ task[w].step \in {"update", "wait"} /\ task[w].msg.type # "ReleaseInventory"
            /\ task' = [task EXCEPT ![w] = [task[w] EXCEPT !.step = "refuse"]]
        BY <2>4 DEF FallShort, Matches
      <3>2. task[w].msg.type = "OrderCreated"
        BY <1>1, <3>1 DEF TaskInv, Messages, Message
      <3> QED
        BY <2>0, <3>1, <3>2 DEF Tasks, Steps, AtWork
    <2>5. CASE Ack(w) \/ Crash(w)
      <3>1. task' = [task EXCEPT ![w] = Idle]
        BY <2>5 DEF Ack, Crash
      <3> QED
        BY <2>0, <3>1 DEF Idle, Task, Tasks, Steps
    <2>6. CASE DeadlockAborts(w)
      <3>1. PICK n \in Nat :
              task' = [task EXCEPT ![w] = Task(task[w].msg, "claim", 1, n)]
              \/ task' = [task EXCEPT ![w] = Idle]
        BY <2>0, <2>6 DEF DeadlockAborts, Retried, Tasks
      <3>2. task[w].step = "wait" /\ task[w].msg \in Messages
        BY <1>1, <2>6 DEF DeadlockAborts, TaskInv
      <3> QED
        BY <2>0, <3>1, <3>2 DEF Idle, Task, Tasks, Steps
    <2> QED
      BY <2>1, <2>2, <2>3, <2>4, <2>5, <2>6
  <1>5. TypeOK'
    BY <1>1, <1>2, <1>3, <1>4 DEF TypeOK
  <1>6. ASSUME NEW v \in Workers PROVE Quiet(v)
    <2>1. CASE v = w
      BY <1>4, <2>1 DEF Quiet, AtWork
    <2>2. CASE v # w
      BY <1>1, <1>4, <2>2 DEF Quiet, TypeOK
    <2> QED
      BY <2>1, <2>2
  <1> QED
    BY <1>2, <1>5, <1>6, QuietInv

\* The commit claims the message and writes at most one answer, to an order
\* whose event was not claimed before.
LEMMA CommitInv ==
  ASSUME ClaimInv, NEW w \in Workers, Reserve(w) \/ Refuse(w) \/ Release(w)
  PROVE  ClaimInv'
  <1> DEFINE m == task[w].msg
  <1>1. TypeOK /\ \A v \in Workers : TaskInv(v)
    BY DEF ClaimInv
  <1>2. AtWork(w) /\ m \in Messages /\ m \notin claimed /\ m.order \in Orders
    BY <1>1 DEF Reserve, Refuse, Release, AtWork, TaskInv, Messages, Message
  <1>3. /\ task' = [task EXCEPT ![w] = [task[w] EXCEPT !.step = "done"]]
        /\ claimed' = claimed \cup {m} /\ pending' = pending
    BY DEF Reserve, Refuse, Release, Commit
  <1>4. PICK T \in SUBSET AnswerTypes :
          /\ answers' = [t \in AnswerTypes |->
               IF t \in T THEN [answers[t] EXCEPT ![m.order] = @ + 1] ELSE answers[t]]
          /\ \/ T = {}
             \/ /\ \E t \in AnswerTypes : T = {t}
                /\ m.type = "OrderCreated"
    <2>1. Refuse(w) => m.type = "OrderCreated"
      BY <1>1 DEF Refuse, TaskInv
    <2> QED
      BY <2>1 DEF Reserve, Refuse, Release, Commit, Order, AnswerTypes
  <1>5. TypeOK'
    <2>1. task' \in [Workers -> Tasks]
      BY <1>1, <1>3 DEF TypeOK, Tasks, Steps
    <2>2. answers' \in [AnswerTypes -> [Orders -> Nat]]
      BY <1>1, <1>2, <1>4 DEF TypeOK
    <2> QED
      BY <1>1, <1>3, <2>1, <2>2 DEF TypeOK
  <1>6. /\ task'[w].step = "done" /\ task'[w].msg = m
        /\ \A v \in Workers \ {w} : task'[v] = task[v]
    BY <1>1, <1>3 DEF TypeOK, Tasks
  <1>7. ASSUME NEW v \in Workers PROVE TaskInv(v)'
    <2>1. CASE v = w
      BY <1>2, <1>6, <2>1 DEF TaskInv, AtWork
    <2>2. CASE v # w
      <3>1. AtWork(v) => task[v].msg # m
        BY <1>1, <1>2, <2>2 DEF TaskInv
      <3> QED
        BY <1>1, <1>3, <1>6, <2>2, <3>1 DEF TaskInv, AtWork
    <2> QED
      BY <2>1, <2>2
  <1>8. ASSUME NEW o \in Orders PROVE AnswerInv(o)'
    <2>1. \A t \in AnswerTypes : answers[t] \in [Orders -> Nat] /\ answers[t][o] \in Nat
      BY <1>1 DEF TypeOK
    <2>2. AnswerInv(o)
      BY DEF ClaimInv
    <2>3. CASE T = {} \/ o # m.order
      <3>1. \A t \in AnswerTypes : answers'[t][o] = answers[t][o]
        BY <1>2, <1>4, <2>1, <2>3
      <3> QED
        BY <1>3, <2>2, <3>1 DEF AnswerInv, AnswerTypes
    <2>4. CASE T # {} /\ o = m.order
      <3>1. m.type = "OrderCreated" /\ m = Message("OrderCreated", o)
        BY <1>2, <1>4, <2>4 DEF Messages, Message
      <3>2. \A t \in AnswerTypes : answers[t][o] = 0
        BY <1>2, <2>1, <2>2, <3>1 DEF AnswerInv, AnswerTypes
      <3>3. PICK t \in AnswerTypes : T = {t}
        BY <1>4, <2>4
      <3>4. \A u \in AnswerTypes : answers'[u][o] = IF u = t THEN 1 ELSE 0
        BY <1>4, <2>1, <2>4, <3>2, <3>3
      <3>5. Message("OrderCreated", o) \in claimed'
        BY <1>3, <3>1
      <3> QED
        BY <3>4, <3>5 DEF AnswerInv, AnswerTypes
    <2> QED
      BY <2>3, <2>4
  <1> QED
    BY <1>5, <1>7, <1>8 DEF ClaimInv

LEMMA NextInv == ClaimInv /\ [Next]_vars => ClaimInv'
  <1> SUFFICES ASSUME ClaimInv, [Next]_vars PROVE ClaimInv'
    OBVIOUS
  <1>1. CASE \E w \in Workers, m \in Messages : Take(w, m)
    BY <1>1, TakeInv
  <1>2. ASSUME NEW w \in Workers, Handle(w) \/ DeadlockAborts(w) \/ Ack(w) \/ Crash(w)
        PROVE  ClaimInv'
    BY <1>2, ClaimKeeps, StatementInv, CommitInv DEF Handle
  <1>3. ASSUME NEW o \in Orders, PaymentFails(o) PROVE ClaimInv'
    <2>1. TypeOK
      BY DEF ClaimInv
    <2>2. UNCHANGED <<claimed, answers, task>> /\ pending' \subseteq Messages
      BY <1>3, <2>1 DEF PaymentFails, TypeOK, Messages
    <2>3. TypeOK' /\ \A w \in Workers : Quiet(w)
      BY <2>1, <2>2 DEF TypeOK, Quiet
    <2> QED
      BY <2>2, <2>3, QuietInv
  <1>4. CASE UNCHANGED vars
    <2>1. UNCHANGED <<claimed, answers, task, pending>>
      BY <1>4 DEF vars
    <2>2. TypeOK' /\ \A w \in Workers : Quiet(w)
      BY <2>1 DEF ClaimInv, TypeOK, Quiet
    <2> QED
      BY <2>1, <2>2, QuietInv
  <1> QED
    BY <1>1, <1>2, <1>3, <1>4 DEF Next

\* The claims and the answers fit together (handle and its INSERT into
\* processed_events), for any instances, carts, stock and faults.
THEOREM ClaimsHold == Spec => []ClaimInv
  BY InitInv, NextInv, PTL DEF Spec

\* However often an order's event is delivered, to however many instances at
\* once, and however their transactions deadlock, it is answered once at most.
THEOREM OneAnswer == Spec => []AnsweredOnce
  <1>1. ClaimInv => AnsweredOnce
    BY DEF ClaimInv, AnswerInv, AnsweredOnce
  <1> QED
    BY <1>1, ClaimsHold, PTL

-----------------------------------------------------------------------------
(* Row locks *)

\* What is left of a sequence without one of its elements.
LEMMA RemovedAt ==
  ASSUME NEW W, NEW q \in Seq(W), NEW p \in 1 .. Len(q)
  PROVE  LET r == RemoveAt(q, p)
         IN  /\ r \in Seq(W) /\ Len(r) = Len(q) - 1
             /\ \A i \in 1 .. Len(q) - 1 : r[i] = IF i < p THEN q[i] ELSE q[i + 1]
  <1> DEFINE r == RemoveAt(q, p)
             a == SubSeq(q, 1, p - 1)
             b == SubSeq(q, p + 1, Len(q))
             n == Len(q)
  <1>1. n \in Int /\ p \in Int /\ 1 <= p /\ p <= n
    OBVIOUS
  <1>2. /\ a \in Seq(W) /\ Len(a) = p - 1
        /\ \A i \in 1 .. p - 1 : a[i] = q[i]
    BY SubSeqProperties
  <1>3. /\ b \in Seq(W)
        /\ Len(b) = IF p + 1 <= n THEN n - (p + 1) + 1 ELSE 0
        /\ \A i \in 1 .. n - (p + 1) + 1 : b[i] = q[p + 1 + i - 1]
    <2>1. /\ p + 1 \in Int /\ n \in Int
          /\ \A i \in p + 1 .. n : q[i] \in W
      BY <1>1
    <2> QED
      BY <2>1, SubSeqProperties
  <1>4. r = a \o b
    BY DEF RemoveAt
  <1> HIDE DEF r, a, b, n
  <1>5. Len(a) = p - 1 /\ Len(b) = n - p
    BY <1>1, <1>2, <1>3
  <1>6. /\ r \in Seq(W) /\ Len(r) = Len(a) + Len(b)
        /\ \A i \in 1 .. Len(a) + Len(b) : r[i] = IF i <= Len(a) THEN a[i] ELSE b[i - Len(a)]
    BY <1>2, <1>3, <1>4, ConcatProperties
  <1>7. Len(r) = n - 1
    BY <1>1, <1>5, <1>6
  <1>8. ASSUME NEW i \in 1 .. n - 1
        PROVE  r[i] = IF i < p THEN q[i] ELSE q[i + 1]
    <2>0. i \in Int /\ 1 <= i /\ i <= n - 1 /\ i \in 1 .. Len(a) + Len(b)
      BY <1>1, <1>5
    <2>1. CASE i < p
      <3>1. i \in 1 .. p - 1 /\ i <= Len(a)
        BY <1>1, <1>5, <2>0, <2>1
      <3> QED
        BY <1>2, <1>6, <2>0, <2>1, <3>1
    <2>2. CASE i >= p
      <3>1. /\ i - Len(a) \in 1 .. n - (p + 1) + 1 /\ p + 1 + (i - Len(a)) - 1 = i + 1
            /\ ~(i <= Len(a)) /\ ~(i < p)
        BY <1>1, <1>5, <2>0, <2>2
      <3>2. r[i] = b[i - Len(a)]
        BY <1>6, <2>0, <3>1
      <3>3. b[i - Len(a)] = q[i + 1]
        BY <1>3, <3>1
      <3> QED
        BY <3>1, <3>2, <3>3
    <2> QED
      BY <1>1, <2>0, <2>1, <2>2
  <1> QED
    BY <1>6, <1>7, <1>8 DEF n, r
\* A queue without one of those who wait in it: nobody else loses a place, and
\* who is at its head stays there.
LEMMA RemovedOnce ==
  ASSUME NEW W, NEW q \in Seq(W), IsInjective(q), NEW w
  PROVE  LET r == RemoveFirst(q, w)
         IN  /\ r \in Seq(W) /\ IsInjective(r)
             /\ \A v : v \in Range(r) <=> v \in Range(q) /\ v # w
             /\ q # <<>> /\ Head(q) # w => r # <<>> /\ Head(r) = Head(q)
  <1> DEFINE r == RemoveFirst(q, w)
             n == Len(q)
  <1>0. n \in Nat /\ DOMAIN q = 1 .. n
    OBVIOUS
  <1>1. CASE \A i \in 1 .. n : q[i] # w
    <2>1. r = q
      BY <1>1 DEF RemoveFirst
    <2> QED
      BY <1>0, <1>1, <2>1 DEF Range
  <1>2. ASSUME NEW p \in 1 .. n, q[p] = w
        PROVE  /\ r \in Seq(W) /\ IsInjective(r)
               /\ \A v : v \in Range(r) <=> v \in Range(q) /\ v # w
               /\ q # <<>> /\ Head(q) # w => r # <<>> /\ Head(r) = Head(q)
    <2>1. r = RemoveAt(q, p)
      <3>1. {i \in 1 .. n : q[i] = w} = {p}
        BY <1>0, <1>2 DEF IsInjective
      <3>2. SelectInSeq(q, LAMBDA v : v = w) = p
        BY <3>1 DEF SelectInSeq, Min
      <3> QED
        BY <1>2, <3>2 DEF RemoveFirst
    <2>2. /\ r \in Seq(W) /\ Len(r) = n - 1
          /\ \A i \in 1 .. n - 1 : r[i] = IF i < p THEN q[i] ELSE q[i + 1]
      BY <2>1, RemovedAt
    <2> HIDE DEF r, n
    <2>3. /\ p \in Int /\ 1 <= p /\ p <= n
          /\ DOMAIN r = 1 .. n - 1
      BY <1>0, <2>2
    <2>4. \A i, j \in 1 .. n : q[i] = q[j] => i = j
      BY <1>0 DEF IsInjective
    <2>5. IsInjective(r)
      BY <1>0, <1>2, <2>2, <2>3, <2>4 DEF IsInjective
    <2>6. ASSUME NEW v PROVE v \in Range(r) <=> v \in Range(q) /\ v # w
      <3>1. ASSUME NEW i \in 1 .. n - 1, v = r[i] PROVE v \in Range(q) /\ v # w
        <4>1. CASE i < p
          BY <1>0, <1>2, <2>2, <2>3, <2>4, <3>1, <4>1 DEF Range
        <4>2. CASE i >= p
          <5>1. i + 1 \in 1 .. n /\ i + 1 # p /\ r[i] = q[i + 1]
            BY <1>0, <2>2, <2>3, <4>2
          <5> QED
            BY <1>0, <1>2, <2>4, <3>1, <5>1 DEF Range
        <4> QED
          BY <1>0, <2>3, <4>1, <4>2
      <3>2. ASSUME NEW j \in 1 .. n, v = q[j], v # w PROVE v \in Range(r)
        <4>1. CASE j < p
          BY <1>0, <2>2, <2>3, <3>2, <4>1 DEF Range
        <4>2. CASE j > p
          <5>1. j - 1 \in 1 .. n - 1 /\ r[j - 1] = q[j]
            BY <1>0, <2>2, <2>3, <4>2
          <5> QED
            BY <2>3, <3>2, <5>1 DEF Range
        <4> QED
          BY <1>0, <1>2, <2>3, <3>2, <4>1, <4>2
      <3> QED
        BY <1>0, <2>3, <3>1, <3>2 DEF Range
    <2>7. ASSUME q # <<>>, Head(q) # w PROVE r # <<>> /\ Head(r) = Head(q)
      <3>0. Head(q) = q[1]
        OBVIOUS
      <3>1. p # 1
        BY <1>2, <2>7, <3>0
      <3>2. 1 \in 1 .. n - 1 /\ 1 < p
        BY <1>0, <2>3, <3>1
      <3>3. r[1] = q[1] /\ r # <<>>
        BY <1>0, <2>2, <2>3, <3>2
      <3>4. Head(r) = r[1]
        BY <2>2, <3>3
      <3> QED
        BY <3>0, <3>3, <3>4
    <2> QED
      BY <2>2, <2>5, <2>6, <2>7
  <1> QED
    BY <1>1, <1>2 DEF r
\* An instance at its lines works on an order, and its lines are of products.
LEMMA LinesTyped ==
  ASSUME TypeOK, NEW w \in Workers, TaskInv(w), LockInv(w), task[w].step \in {"update", "wait"}
  PROVE  /\ Order(w) \in Orders /\ Cart[Order(w)] \in Seq(Skus) /\ IsInjective(Cart[Order(w)])
         /\ task[w].line \in Nat
         /\ \A i \in 1 .. task[w].line - 1 : i \in 1 .. Len(Cart[Order(w)]) /\ Cart[Order(w)][i] \in Skus
         /\ ~ Ended(w) => task[w].line \in 1 .. Len(Cart[Order(w)]) /\ Line(w) \in Skus
         /\ Rows(w) \subseteq Skus
  <1>1. Order(w) \in Orders /\ task[w].line \in Nat
    BY DEF TypeOK, Tasks, TaskInv, Messages, Message, Order
  <1>2. Cart[Order(w)] \in Seq(Skus) /\ IsInjective(Cart[Order(w)])
    BY <1>1, CartAssumption
  <1> DEFINE c == Cart[Order(w)]
  <1>3. task[w].line \in 1 .. Len(c) + 1
    BY DEF LockInv
  <1>4. Len(c) \in Nat /\ \A i \in 1 .. Len(c) : c[i] \in Skus
    BY <1>2
  <1> HIDE DEF c
  <1>5. \A i \in 1 .. task[w].line - 1 : i \in 1 .. Len(c) /\ c[i] \in Skus
    BY <1>1, <1>3, <1>4
  <1>6. task[w].line <= Len(c) => task[w].line \in 1 .. Len(c) /\ c[task[w].line] \in Skus
    BY <1>1, <1>3, <1>4
  <1>7. ~ Ended(w) => task[w].line \in 1 .. Len(c) /\ Line(w) \in Skus
    BY <1>1, <1>4, <1>6 DEF Ended, Line, c
  <1> QED
    BY <1>1, <1>2, <1>5, <1>7 DEF Rows, c

\* An instance that does nothing while its place in the queues, its locks and
\* the units of the rows it holds stay as they are.
LEMMA OtherKept ==
  ASSUME TypeOK, NEW v \in Workers, TaskInv(v), LockInv(v), task'[v] = task[v],
         \A s \in Skus : /\ v \in Range(queue'[s]) <=> v \in Range(queue[s])
                         /\ Holder(v, s) => Holder(v, s)' /\ available'[s] = available[s]
  PROVE  LockInv(v)'
  <1>1. /\ Order(v)' = Order(v) /\ Line(v)' = Line(v) /\ Ended(v)' = Ended(v)
        /\ Rows(v)' = Rows(v)
    BY DEF Order, Line, Ended, Rows
  <1>2. \A s \in Skus : v \in Range(queue'[s]) =>
          \/ task'[v].step \in {"update", "wait"} /\ s \in Rows(v)'
          \/ task'[v].step = "wait" /\ s = Line(v)'
    BY <1>1 DEF LockInv
  <1>3. task'[v].step = "wait" => ~Ended(v)' /\ v \in Range(queue'[Line(v)'])
    BY <1>1, LinesTyped DEF LockInv
  <1>4. ASSUME task'[v].step \in {"update", "wait"}
        PROVE  /\ task'[v].line \in 1 .. Len(Cart[Order(v)']) + 1
               /\ \A s \in Rows(v)' :
                    /\ Holder(v, s)'
                    /\ task'[v].msg.type = "OrderCreated" => available'[s] >= Qty[Order(v)'][s]
    <2>1. Rows(v) \subseteq Skus
      BY <1>4, LinesTyped
    <2> QED
      BY <1>1, <1>4, <2>1 DEF LockInv
  <1>5. task'[v].step = "claim" => task'[v].line = 1
    BY DEF LockInv
  <1> QED
    BY <1>2, <1>3, <1>4, <1>5 DEF LockInv, Holder

\* The end of a transaction, or a step of an instance that is on none.
LEMMA LetGo ==
  ASSUME TypeOK, RowsInv, \A v \in Workers : TaskInv(v), NEW w \in Workers,
         queue' = Unlocked(w) \/ (queue' = queue /\ \A s \in Skus : w \notin Range(queue[s])),
         \A v \in Workers \ {w} : task'[v] = task[v],
         task'[w].step \in {"idle", "refuse", "done"} \/ (task'[w].step = "claim" /\ task'[w].line = 1),
         \A s \in Skus, v \in Workers \ {w} : Holder(v, s) => available'[s] = available[s]
  PROVE  /\ queue' \in [Skus -> Seq(Workers)] /\ \A s \in Skus : IsInjective(queue'[s])
         /\ \A v \in Workers : LockInv(v)'
  <1>1. queue \in [Skus -> Seq(Workers)] /\ \A s \in Skus : IsInjective(queue[s])
    BY DEF RowsInv
  <1>2. /\ queue' = [s \in Skus |-> queue'[s]]
        /\ \A s \in Skus : \/ queue'[s] = RemoveFirst(queue[s], w)
                           \/ queue'[s] = queue[s] /\ w \notin Range(queue[s])
    BY <1>1 DEF Unlocked
  <1>3. ASSUME NEW s \in Skus
        PROVE  /\ queue'[s] \in Seq(Workers) /\ IsInjective(queue'[s])
               /\ \A v : v \in Range(queue'[s]) <=> v \in Range(queue[s]) /\ v # w
               /\ \A v \in Workers \ {w} : Holder(v, s) => Holder(v, s)'
    <2>1. CASE queue'[s] = queue[s] /\ w \notin Range(queue[s])
      BY <1>1, <2>1 DEF Holder
    <2>2. CASE queue'[s] = RemoveFirst(queue[s], w)
      BY <1>1, <2>2, RemovedOnce DEF Holder
    <2> QED
      BY <1>2, <2>1, <2>2
  <1>4. ASSUME NEW v \in Workers PROVE LockInv(v)'
    <2>1. CASE v = w
      BY <1>3, <2>1 DEF LockInv
    <2>2. CASE v # w
      BY <1>3, <2>2, OtherKept DEF RowsInv
    <2> QED
      BY <2>1, <2>2
  <1> QED
    BY <1>2, <1>3, <1>4

\* Nobody returns stock that an order has not got, unless a message appears.
LEMMA ReleaseKept ==
  ASSUME NEW o \in Orders, ReleaseInv(o), Known' \subseteq Known \cup {NoMessage},
         answers["InventoryReserved"][o] > 0 => answers'["InventoryReserved"][o] > 0
  PROVE  ReleaseInv(o)'
  <1> DEFINE m == Message("ReleaseInventory", o)
  <1>1. m.type = "ReleaseInventory" /\ NoMessage.type = "none"
    BY DEF Message, NoMessage
  <1>2. m # NoMessage
    BY <1>1
  <1> QED
    BY <1>2 DEF ReleaseInv, Message

LEMMA RowsInit == Init => RowsInv
  <1> SUFFICES ASSUME Init PROVE RowsInv
    OBVIOUS
  <1>1. /\ available = Stock0 /\ reserved = [s \in Skus |-> 0]
        /\ queue = [s \in Skus |-> <<>>] /\ claimed = {}
        /\ pending = {Message("OrderCreated", o) : o \in Orders}
        /\ task = [w \in Workers |-> Idle]
    BY DEF Init
  <1>2. queue \in [Skus -> Seq(Workers)]
    BY <1>1
  <1>3. \A s \in Skus : IsInjective(queue[s]) /\ Range(queue[s]) = {}
    BY <1>1 DEF IsInjective, Range
  <1>4. available \in [Skus -> Nat] /\ reserved \in [Skus -> Int]
    BY <1>1, CartAssumption
  <1>5. \A w \in Workers : task[w].step = "idle" /\ task[w].msg = NoMessage
    BY <1>1 DEF Idle, Task
  <1>6. \A w \in Workers : LockInv(w)
    BY <1>3, <1>5 DEF LockInv
  <1>7. ASSUME NEW o \in Orders PROVE ReleaseInv(o)
    <2>1. \A m \in Known : m.type # "ReleaseInventory"
      BY <1>1, <1>5 DEF Known, NoMessage, Message
    <2>2. Message("ReleaseInventory", o).type = "ReleaseInventory"
      BY DEF Message
    <2> QED
      BY <2>1, <2>2 DEF ReleaseInv
  <1> QED
    BY <1>2, <1>3, <1>4, <1>6, <1>7 DEF RowsInv

\* Steps of instances that touch no row, and rollbacks.
LEMMA LetGoSteps ==
  ASSUME ClaimInv, RowsInv, NEW w \in Workers,
         \/ \E m \in Messages : Take(w, m)
         \/ Skip(w) \/ Ack(w) \/ Crash(w) \/ FallShort(w) \/ DeadlockAborts(w)
  PROVE  RowsInv'
  <1>0. TypeOK /\ \A v \in Workers : TaskInv(v)
    BY DEF ClaimInv
  <1>1. UNCHANGED <<stockVars, claimed, answers>>
    BY DEF Take, Skip, Ack, Crash, FallShort, DeadlockAborts
  <1>2. /\ \A v \in Workers \ {w} : task'[v] = task[v]
        /\ task'[w].step \in {"idle", "refuse", "done"} \/ (task'[w].step = "claim" /\ task'[w].line = 1)
        /\ task'[w].msg \in Known \cup {NoMessage}
        /\ pending' \subseteq pending
    <2>0. task \in [Workers -> Tasks] /\ task[w].msg \in Known
      BY <1>0 DEF TypeOK, Known
    <2>1. CASE \E m \in Messages : Take(w, m)
      <3>1. PICK m \in pending : task' = [task EXCEPT ![w] = Task(m, "claim", 1, 0)] /\ pending' = pending
        BY <2>1 DEF Take
      <3> QED
        BY <2>0, <3>1 DEF Task, Known
    <2>2. CASE Skip(w)
      <3>1. task' = [task EXCEPT ![w] = [task[w] EXCEPT !.step = "done"]] /\ pending' = pending
        BY <2>2 DEF Skip
      <3> QED
        BY <2>0, <3>1 DEF Tasks
    <2>3. CASE FallShort(w)
      <3>1. task' = [task EXCEPT ![w] = [task[w] EXCEPT !.step = "refuse"]] /\ pending' = pending
        BY <2>3 DEF FallShort
      <3> QED
        BY <2>0, <3>1 DEF Tasks
    <2>4. CASE Ack(w) \/ Crash(w)
      <3>1. task' = [task EXCEPT ![w] = Idle] /\ pending' \subseteq pending
        BY <2>4 DEF Ack, Crash
      <3> QED
        BY <2>0, <3>1 DEF Idle, Task
    <2>5. CASE DeadlockAborts(w)
      <3>1. /\ \/ task' = [task EXCEPT ![w] = Task(task[w].msg, "claim", 1, task[w].attempt + 1)]
               \/ task' = [task EXCEPT ![w] = Idle]
            /\ pending' \subseteq pending
        BY <2>0, <2>5 DEF DeadlockAborts, Retried
      <3> QED
        BY <2>0, <3>1 DEF Idle, Task
    <2> QED
      BY <2>1, <2>2, <2>3, <2>4, <2>5
  <1>3. queue' = Unlocked(w) \/ (queue' = queue /\ \A s \in Skus : w \notin Range(queue[s]))
    <2>1. CASE \E m \in Messages : Take(w, m)
      <3>1. task[w].step = "idle" /\ queue' = queue
        BY <2>1 DEF Take, Idle, Task
      <3> QED
        BY <3>1 DEF RowsInv, LockInv
    <2>2. CASE Skip(w) \/ Ack(w)
      <3>1. task[w].step \in {"claim", "done"} /\ queue' = queue
        BY <2>2 DEF Skip, Ack
      <3> QED
        BY <3>1 DEF RowsInv, LockInv
    <2>3. CASE Crash(w) \/ FallShort(w) \/ DeadlockAborts(w)
      BY <2>3 DEF Crash, FallShort, DeadlockAborts
    <2> QED
      BY <2>1, <2>2, <2>3
  <1>4. /\ queue' \in [Skus -> Seq(Workers)] /\ \A s \in Skus : IsInjective(queue'[s])
        /\ \A v \in Workers : LockInv(v)'
    BY <1>0, <1>1, <1>2, <1>3, LetGo DEF stockVars
  <1>5. Known' \subseteq Known \cup {NoMessage}
    BY <1>1, <1>2 DEF Known
  <1>6. \A o \in Orders : ReleaseInv(o)'
    BY <1>1, <1>5, ReleaseKept DEF RowsInv
  <1> QED
    BY <1>1, <1>4, <1>6 DEF RowsInv, stockVars

\* A transaction begins without locks.
LEMMA ClaimRows ==
  ASSUME ClaimInv, RowsInv, NEW w \in Workers, Claim(w)
  PROVE  RowsInv'
  <1>0. TypeOK /\ \A v \in Workers : TaskInv(v)
    BY DEF ClaimInv
  <1>1. /\ task' = [task EXCEPT ![w] = [task[w] EXCEPT !.step = "update"]] /\ task[w].step = "claim"
        /\ UNCHANGED <<stockVars, queue, claimed, answers, pending>>
    BY DEF Claim
  <1>2. /\ task'[w].step = "update" /\ task'[w].msg = task[w].msg /\ task'[w].line = task[w].line
        /\ \A v \in Workers \ {w} : task'[v] = task[v]
    BY <1>0, <1>1 DEF TypeOK, Tasks
  <1>3. task[w].line = 1 /\ \A s \in Skus : w \notin Range(queue[s])
    BY <1>1 DEF RowsInv, LockInv
  <1>4. ASSUME NEW v \in Workers PROVE LockInv(v)'
    <2>1. CASE v = w
      <3>1. Order(w)' \in Orders
        BY <1>0, <1>1, <1>2 DEF TaskInv, Order, Messages, Message
      <3>2. Cart[Order(w)'] \in Seq(Skus)
        BY <3>1, CartAssumption
      <3>3. 1 \in 1 .. Len(Cart[Order(w)']) + 1
        BY <3>2
      <3>4. Rows(w)' = {}
        BY <1>2, <1>3 DEF Rows
      <3> QED
        BY <1>1, <1>2, <1>3, <2>1, <3>3, <3>4 DEF LockInv, Order
    <2>2. CASE v # w
      BY <1>0, <1>1, <1>2, <2>2, OtherKept DEF RowsInv, Holder, stockVars
    <2> QED
      BY <2>1, <2>2
  <1>5. Known' \subseteq Known \cup {NoMessage}
    BY <1>1, <1>2 DEF Known
  <1>6. \A o \in Orders : ReleaseInv(o)'
    BY <1>1, <1>5, ReleaseKept DEF RowsInv
  <1> QED
    BY <1>1, <1>4, <1>6 DEF RowsInv, stockVars

\* The UPDATE of a row queues for its lock: the cart lists the row once, so
\* the transaction is not in the queue yet, and those in it keep their places.
LEMMA RequestRows ==
  ASSUME ClaimInv, RowsInv, NEW w \in Workers, RequestRow(w)
  PROVE  RowsInv'
  <1>0. TypeOK /\ \A v \in Workers : TaskInv(v) /\ LockInv(v)
    BY DEF ClaimInv, RowsInv
  <1>1. /\ task' = [task EXCEPT ![w] = [task[w] EXCEPT !.step = "wait"]]
        /\ task[w].step = "update" /\ ~Ended(w)
        /\ queue' = [queue EXCEPT ![Line(w)] = Append(queue[Line(w)], w)]
        /\ UNCHANGED <<stockVars, claimed, answers, pending>>
    BY DEF RequestRow
  <1>2. /\ task'[w].step = "wait" /\ task'[w].msg = task[w].msg /\ task'[w].line = task[w].line
        /\ \A v \in Workers \ {w} : task'[v] = task[v]
    BY <1>0, <1>1 DEF TypeOK, Tasks
  <1>3. /\ Order(w) \in Orders /\ Cart[Order(w)] \in Seq(Skus) /\ IsInjective(Cart[Order(w)])
        /\ task[w].line \in 1 .. Len(Cart[Order(w)]) /\ Line(w) \in Skus
        /\ \A i \in 1 .. task[w].line - 1 : i \in 1 .. Len(Cart[Order(w)])
    BY <1>0, <1>1, LinesTyped
  <1>3a. PICK r \in Skus : r = Line(w)
    BY <1>3
  <1>4. r \notin Rows(w)
    <2>1. ASSUME NEW i \in 1 .. task[w].line - 1 PROVE Cart[Order(w)][i] # r
      <3>1. /\ i # task[w].line
            /\ i \in DOMAIN Cart[Order(w)] /\ task[w].line \in DOMAIN Cart[Order(w)]
        BY <1>3
      <3> QED
        BY <1>3a, <1>3, <3>1 DEF IsInjective, Line
    <2> QED
      BY <2>1 DEF Rows
  <1>5. w \notin Range(queue[r])
    BY <1>3a, <1>0, <1>1, <1>3, <1>4 DEF LockInv
  <1>6. queue \in [Skus -> Seq(Workers)] /\ \A s \in Skus : IsInjective(queue[s])
    BY DEF RowsInv
  <1>7. /\ queue' \in [Skus -> Seq(Workers)] /\ queue'[r] = Append(queue[r], w)
        /\ \A s \in Skus \ {r} : queue'[s] = queue[s]
    BY <1>3a, <1>1, <1>6
  <1>8. /\ IsInjective(queue'[r])
        /\ \A v : v \in Range(queue'[r]) <=> v \in Range(queue[r]) \/ v = w
        /\ \A v \in Workers : Holder(v, r) => Holder(v, r)'
    <2> DEFINE q == queue[r]
    <2>1. q \in Seq(Workers) /\ IsInjective(q) /\ w \notin Range(q)
      BY <1>3, <1>5, <1>6
    <2> HIDE DEF q
    <2>2. /\ Len(q) \in Nat /\ DOMAIN q = 1 .. Len(q) /\ DOMAIN Append(q, w) = 1 .. Len(q) + 1
          /\ \A i \in 1 .. Len(q) : Append(q, w)[i] = q[i]
          /\ Append(q, w)[Len(q) + 1] = w /\ Append(q, w) # <<>>
      BY <2>1, AppendProperties
    <2>3. IsInjective(Append(q, w))
      BY <2>1, <2>2 DEF IsInjective, Range
    <2>4. \A v : v \in Range(Append(q, w)) <=> v \in Range(q) \/ v = w
      BY <2>2 DEF Range
    <2>5. q # <<>> => Head(Append(q, w)) = Head(q)
      BY <2>1, HeadTailAppend
    <2>6. \A v \in Workers : Holder(v, r) => Holder(v, r)'
      <3>1. q = queue[r] /\ queue'[r] = Append(q, w)
        BY <1>7 DEF q
      <3> QED
        BY <2>2, <2>5, <3>1 DEF Holder
    <2> QED
      BY <1>7, <2>3, <2>4, <2>6 DEF q
  <1>9. ASSUME NEW v \in Workers PROVE LockInv(v)'
    <2>1. CASE v = w
      <3>1. Order(v)' = Order(w) /\ Line(v)' = r /\ Ended(v)' = Ended(w) /\ Rows(v)' = Rows(w)
        BY <1>3a, <1>2, <2>1 DEF Order, Line, Ended, Rows
      <3>2. \A s \in Skus : v \in Range(queue'[s]) => s \in Rows(v)' \/ s = Line(v)'
        BY <1>0, <1>1, <1>7, <1>8, <2>1, <3>1 DEF LockInv
      <3>3. v \in Range(queue'[Line(v)'])
        BY <1>8, <2>1, <3>1
      <3>4. /\ task'[v].line \in 1 .. Len(Cart[Order(v)']) + 1
            /\ \A s \in Rows(v)' :
                 /\ Holder(v, s)'
                 /\ task'[v].msg.type = "OrderCreated" => available'[s] >= Qty[Order(v)'][s]
        <4>1. Rows(w) \subseteq Skus
          BY <1>0, <1>1, LinesTyped
        <4>2. \A s \in Rows(w) : Holder(v, s)'
          BY <1>0, <1>1, <1>4, <1>7, <2>1, <4>1 DEF LockInv, Holder
        <4> QED
          BY <1>0, <1>1, <1>2, <2>1, <3>1, <4>2 DEF LockInv, stockVars
      <3>5. task'[v].step = "wait" /\ ~ Ended(v)'
        BY <1>1, <1>2, <2>1, <3>1
      <3> QED
        BY <3>2, <3>3, <3>4, <3>5 DEF LockInv, Holder
    <2>2. CASE v # w
      <3>1. \A s \in Skus : /\ v \in Range(queue'[s]) <=> v \in Range(queue[s])
                            /\ Holder(v, s) => Holder(v, s)' /\ available'[s] = available[s]
        BY <1>1, <1>7, <1>8, <2>2 DEF Holder, stockVars
      <3> QED
        BY <1>0, <1>2, <2>2, <3>1, OtherKept
    <2> QED
      BY <2>1, <2>2
  <1>10. Known' \subseteq Known \cup {NoMessage}
    BY <1>1, <1>2 DEF Known
  <1>11. \A o \in Orders : ReleaseInv(o)'
    BY <1>1, <1>10, ReleaseKept DEF RowsInv
  <1> QED
    BY <1>1, <1>7, <1>6, <1>8, <1>9, <1>11 DEF RowsInv, stockVars

\* The UPDATE goes through at the head of the queue, if the row still matches.
LEMMA UpdateRows ==
  ASSUME ClaimInv, RowsInv, NEW w \in Workers, UpdateRow(w)
  PROVE  RowsInv'
  <1> DEFINE r == Line(w)
  <1>0. TypeOK /\ \A v \in Workers : TaskInv(v) /\ LockInv(v)
    BY DEF ClaimInv, RowsInv
  <1>1. /\ task' = [task EXCEPT ![w] = [task[w] EXCEPT !.step = "update", !.line = @ + 1]]
        /\ task[w].step = "wait" /\ Head(queue[r]) = w /\ Matches(w)
        /\ UNCHANGED <<stockVars, queue, claimed, answers, pending>>
    BY DEF UpdateRow
  <1>2. /\ task'[w].step = "update" /\ task'[w].msg = task[w].msg /\ task'[w].line = task[w].line + 1
        /\ \A v \in Workers \ {w} : task'[v] = task[v]
    BY <1>0, <1>1 DEF TypeOK, Tasks
  <1>3. /\ Order(w) \in Orders /\ Cart[Order(w)] \in Seq(Skus)
        /\ task[w].line \in 1 .. Len(Cart[Order(w)]) /\ r \in Skus
        /\ Rows(w) \subseteq Skus
    BY <1>0, <1>1, LinesTyped DEF LockInv
  <1>4. Holder(w, r)
    <2>1. w \in Range(queue[r])
      BY <1>0, <1>1 DEF LockInv
    <2> QED
      BY <1>1, <2>1 DEF Holder, Range
  <1>6. task[w].msg.type = "OrderCreated" => available[r] >= Qty[Order(w)][r]
    BY <1>1 DEF Matches
  <1>7. ASSUME NEW v \in Workers PROVE LockInv(v)'
    <2>1. CASE v = w
      <3>1. Order(v)' = Order(w) /\ Rows(v)' = Rows(w) \cup {r}
        <4>1. 1 .. task[w].line + 1 - 1 = (1 .. task[w].line - 1) \cup {task[w].line}
          BY <1>3
        <4> QED
          BY <1>2, <2>1, <4>1 DEF Rows, Order, Line
      <3>2. \A s \in Skus : v \in Range(queue'[s]) => s \in Rows(v)'
        BY <1>0, <1>1, <2>1, <3>1 DEF LockInv
      <3>3. /\ task'[v].line \in 1 .. Len(Cart[Order(v)']) + 1
            /\ \A s \in Rows(v)' :
                 /\ Holder(v, s)'
                 /\ task'[v].msg.type = "OrderCreated" => available'[s] >= Qty[Order(v)'][s]
        <4>1. task'[v].line \in 1 .. Len(Cart[Order(v)']) + 1
          BY <1>2, <1>3, <2>1, <3>1
        <4> QED
          BY <1>0, <1>1, <1>2, <1>4, <1>6, <2>1, <3>1, <4>1 DEF LockInv, stockVars, Holder
      <3> QED
        BY <1>2, <2>1, <3>2, <3>3 DEF LockInv, Holder
    <2>2. CASE v # w
      BY <1>0, <1>1, <1>2, <2>2, OtherKept DEF Holder, stockVars
    <2> QED
      BY <2>1, <2>2
  <1>8. Known' \subseteq Known \cup {NoMessage}
    BY <1>1, <1>2 DEF Known
  <1>9. \A o \in Orders : ReleaseInv(o)'
    BY <1>1, <1>8, ReleaseKept DEF RowsInv
  <1> QED
    BY <1>1, <1>7, <1>9 DEF RowsInv, stockVars

\* What a commit takes from the rows: nothing after the rollback, else the
\* units of the whole order, and from no row that another transaction holds.
LEMMA TakenRows ==
  ASSUME ClaimInv, RowsInv, NEW w \in Workers, NEW s \in Skus,
         \/ task[w].step = "refuse"
         \/ task[w].step = "update" /\ Ended(w)
  PROVE  /\ Order(w) \in Orders /\ Qty[Order(w)][s] \in Nat
         /\ Taken(w, s) = IF task[w].step = "refuse" THEN 0
                          ELSE IF task[w].msg.type = "OrderCreated" THEN Qty[Order(w)][s]
                          ELSE -Qty[Order(w)][s]
         /\ Taken(w, s) \in Int
         /\ Taken(w, s) = 0 \/ Holder(w, s)
         /\ task[w].step = "update" /\ task[w].msg.type = "OrderCreated"
              => available[s] >= Taken(w, s)
  <1>0. TypeOK /\ TaskInv(w) /\ LockInv(w)
    BY DEF ClaimInv, RowsInv
  <1>1. Order(w) \in Orders
    BY <1>0 DEF TaskInv, Order, Messages, Message
  <1>2. /\ Qty[Order(w)][s] \in Nat
        /\ s \notin Range(Cart[Order(w)]) => Qty[Order(w)][s] = 0
    BY <1>1, CartAssumption
  <1>3. available[s] \in Nat
    BY DEF RowsInv
  <1> DEFINE Updated == \E i \in 1 .. task[w].line - 1 : Cart[Order(w)][i] = s
  <1>4. CASE task[w].step = "refuse"
    <2>1. w \notin Range(queue[s])
      BY <1>0, <1>4 DEF LockInv
    <2>2. Taken(w, s) = 0
      BY <2>1 DEF Taken
    <2> QED
      BY <1>1, <1>2, <1>4, <2>2
  <1>5. CASE task[w].step = "update" /\ Ended(w)
    <2>1. s \in Rows(w) <=> Updated
      BY DEF Rows
    <2>2. s \in Rows(w) <=> s \in Range(Cart[Order(w)])
      <3>1. /\ Cart[Order(w)] \in Seq(Skus) /\ Len(Cart[Order(w)]) \in Nat
            /\ task[w].line \in Nat /\ task[w].line \in 1 .. Len(Cart[Order(w)]) + 1
        BY <1>0, <1>5, LinesTyped DEF LockInv
      <3>2. task[w].line - 1 = Len(Cart[Order(w)])
        BY <1>5, <3>1 DEF Ended
      <3>3. DOMAIN Cart[Order(w)] = 1 .. task[w].line - 1
        BY <3>1, <3>2
      <3> QED
        BY <3>3 DEF Rows, Range
    <2>3. s \in Rows(w) => /\ Holder(w, s)
                           /\ task[w].msg.type = "OrderCreated" => available[s] >= Qty[Order(w)][s]
      BY <1>0, <1>5 DEF LockInv
    <2>4. Holder(w, s) => w \in Range(queue[s])
      <3>1. queue[s] \in Seq(Workers)
        BY DEF RowsInv
      <3>2. queue[s] # <<>> => 1 \in DOMAIN queue[s] /\ Head(queue[s]) = queue[s][1]
        BY <3>1
      <3> QED
        BY <3>2 DEF Holder, Range
    <2>5. CASE s \in Rows(w)
      <3>1. Taken(w, s) = IF task[w].msg.type = "OrderCreated" THEN Qty[Order(w)][s]
                          ELSE -Qty[Order(w)][s]
        BY <2>1, <2>3, <2>4, <2>5 DEF Taken
      <3> QED
        BY <1>1, <1>2, <1>5, <2>3, <2>5, <3>1
    <2>6. CASE s \notin Rows(w)
      <3>1. Taken(w, s) = 0 /\ Qty[Order(w)][s] = 0
        BY <1>2, <2>1, <2>2, <2>6 DEF Taken
      <3>2. -Qty[Order(w)][s] = 0 - Qty[Order(w)][s]
        BY <1>2
      <3> DEFINE minus == -Qty[Order(w)][s]
      <3>3. minus = 0 - Qty[Order(w)][s]
        BY <3>2
      <3> HIDE DEF minus
      <3>4. minus = 0 /\ available[s] >= 0
        BY <1>3, <3>1, <3>3
      <3> QED
        BY <1>1, <1>2, <1>5, <3>1, <3>4 DEF minus
    <2> QED
      BY <2>5, <2>6
  <1> QED
    BY <1>4, <1>5

\* The commit leaves the rows of other transactions alone, and no column of
\* available units below zero.
LEMMA CommitRows ==
  ASSUME ClaimInv, RowsInv, NEW w \in Workers, Reserve(w) \/ Refuse(w) \/ Release(w)
  PROVE  RowsInv'
  <1>0. TypeOK /\ \A v \in Workers : TaskInv(v)
    BY DEF ClaimInv
  <1>1. /\ task' = [task EXCEPT ![w] = [task[w] EXCEPT !.step = "done"]]
        /\ task[w].step = "refuse" \/ (task[w].step = "update" /\ Ended(w))
        /\ task[w].step = "update" =>
             task[w].msg.type = "OrderCreated" \/ task[w].msg.type = "ReleaseInventory"
        /\ queue' = Unlocked(w) /\ claimed' = claimed \cup {task[w].msg} /\ pending' = pending
        /\ available' = [s \in Skus |-> available[s] - Taken(w, s)]
        /\ reserved'  = [s \in Skus |-> reserved[s] + Taken(w, s)]
    BY DEF Reserve, Refuse, Release, Commit, Settle
  <1>2. /\ task'[w].step = "done" /\ task'[w].msg = task[w].msg
        /\ \A v \in Workers \ {w} : task'[v] = task[v]
    BY <1>0, <1>1 DEF TypeOK, Tasks
  <1>3. available \in [Skus -> Nat] /\ reserved \in [Skus -> Int]
    BY DEF RowsInv
  <1>4. ASSUME NEW s \in Skus
        PROVE  /\ available'[s] \in Nat /\ reserved'[s] \in Int
               /\ \A v \in Workers \ {w} : Holder(v, s) => available'[s] = available[s]
    <2>1. /\ Taken(w, s) \in Int /\ (Taken(w, s) = 0 \/ Holder(w, s))
          /\ available'[s] = available[s] - Taken(w, s)
          /\ reserved'[s] = reserved[s] + Taken(w, s)
      BY <1>1, TakenRows
    <2>2. available[s] >= Taken(w, s)
      <3>1. available[s] \in Nat
        BY <1>3
      <3>2. CASE task[w].step = "refuse"
        <4>1. Taken(w, s) = 0
          BY <3>2, TakenRows
        <4> QED
          BY <3>1, <4>1
      <3>3. CASE task[w].step = "update" /\ task[w].msg.type = "OrderCreated"
        BY <1>1, <3>3, TakenRows
      <3>4. CASE task[w].step = "update" /\ task[w].msg.type = "ReleaseInventory"
        <4>1. Taken(w, s) = -Qty[Order(w)][s] /\ Qty[Order(w)][s] \in Nat
          BY <1>1, <3>4, TakenRows
        <4> QED
          BY <3>1, <4>1
      <3> QED
        BY <1>1, <3>2, <3>3, <3>4
    <2> QED
      BY <1>3, <2>1, <2>2 DEF Holder
  <1>5. available' \in [Skus -> Nat] /\ reserved' \in [Skus -> Int]
    BY <1>1, <1>4
  <1>6. /\ queue' \in [Skus -> Seq(Workers)] /\ \A s \in Skus : IsInjective(queue'[s])
        /\ \A v \in Workers : LockInv(v)'
    BY <1>0, <1>1, <1>2, <1>4, LetGo
  <1>7. Known' \subseteq Known \cup {NoMessage}
    BY <1>1, <1>2 DEF Known
  <1>8. ASSUME NEW o \in Orders PROVE ReleaseInv(o)'
    <2>1. answers["InventoryReserved"][o] > 0 => answers'["InventoryReserved"][o] > 0
      <3>1. answers["InventoryReserved"] \in [Orders -> Nat]
        BY <1>0 DEF TypeOK, AnswerTypes
      <3>2. \/ answers'["InventoryReserved"] = answers["InventoryReserved"]
            \/ answers'["InventoryReserved"] =
                 [answers["InventoryReserved"] EXCEPT ![Order(w)] = @ + 1]
        BY DEF Reserve, Refuse, Release, Commit, AnswerTypes
      <3> QED
        BY <3>1, <3>2
    <2> QED
      BY <1>7, <2>1, ReleaseKept DEF RowsInv
  <1> QED
    BY <1>5, <1>6, <1>8 DEF RowsInv

LEMMA RowsNext == ClaimInv /\ RowsInv /\ [Next]_vars => RowsInv'
  <1> SUFFICES ASSUME ClaimInv, RowsInv, [Next]_vars PROVE RowsInv'
    OBVIOUS
  <1>0. TypeOK /\ \A v \in Workers : TaskInv(v)
    BY DEF ClaimInv
  <1>1. ASSUME NEW w \in Workers, NEW m \in Messages, Take(w, m) PROVE RowsInv'
    BY <1>1, LetGoSteps
  <1>2. ASSUME NEW w \in Workers, Handle(w) \/ DeadlockAborts(w) \/ Ack(w) \/ Crash(w)
        PROVE  RowsInv'
    BY <1>2, LetGoSteps, ClaimRows, RequestRows, UpdateRows, CommitRows DEF Handle
  <1>3. ASSUME UNCHANGED <<stockVars, queue, claimed, answers, task>>,
               \/ UNCHANGED pending
               \/ \E o \in Orders : /\ answers["InventoryReserved"][o] > 0
                                    /\ pending' = pending \cup {Message("ReleaseInventory", o)}
        PROVE  RowsInv'
    <2>1. ASSUME NEW v \in Workers PROVE LockInv(v)'
      BY <1>0, <1>3, OtherKept DEF RowsInv, Holder, stockVars
    <2>2. ASSUME NEW p \in Orders PROVE ReleaseInv(p)'
      <3>1. CASE UNCHANGED pending
        BY <1>3, <3>1, ReleaseKept DEF RowsInv, Known
      <3>2. CASE \E o \in Orders : /\ answers["InventoryReserved"][o] > 0
                                   /\ pending' = pending \cup {Message("ReleaseInventory", o)}
        <4>1. PICK o \in Orders : /\ answers["InventoryReserved"][o] > 0
                                  /\ pending' = pending \cup {Message("ReleaseInventory", o)}
          BY <3>2
        <4>2. Known' = Known \cup {Message("ReleaseInventory", o)}
          BY <1>3, <4>1 DEF Known
        <4>3. Message("ReleaseInventory", p) = Message("ReleaseInventory", o) => p = o
          BY DEF Message
        <4>4. Message("ReleaseInventory", p) \in Known => answers["InventoryReserved"][p] > 0
          BY DEF RowsInv, ReleaseInv
        <4> QED
          BY <1>3, <4>1, <4>2, <4>3, <4>4 DEF ReleaseInv, Message
      <3> QED
        BY <1>3, <3>1, <3>2
    <2> QED
      BY <1>3, <2>1, <2>2 DEF RowsInv, stockVars
  <1>4. CASE \E o \in Orders : PaymentFails(o)
    BY <1>3, <1>4 DEF PaymentFails
  <1>5. CASE UNCHANGED vars
    BY <1>3, <1>5 DEF vars
  <1> QED
    BY <1>1, <1>2, <1>4, <1>5 DEF Next

\* Row locks do what the transactions rely on: whoever has updated a row keeps
\* it to the end, still with the units it takes (UPDATE ... WHERE available >=
\* quantity), for any carts, instances, deadlocks and crashes.
THEOREM LocksHold == Spec => []RowsInv
  BY RowsInit, RowsNext, ClaimsHold, PTL DEF Spec

-----------------------------------------------------------------------------
(* The ledger *)

\* Units of s per order.
Units(s) == [o \in Orders |-> Qty[o][s]]

holdOf == [o \in Orders |-> IF Holds(o) THEN "held" ELSE "free"]

\* Finitely many orders hold stock, and the columns add up to what they hold.
SumsInv ==
  /\ IsFiniteSet(Marked(holdOf, "held"))
  /\ \A s \in Skus :
       /\ available[s] + reserved[s] = Stock0[s]
       /\ reserved[s] = SumFunctionOnSet(Units(s), Marked(holdOf, "held"))

LEMMA SumsInit == Init => SumsInv
  <1> SUFFICES ASSUME Init PROVE SumsInv
    OBVIOUS
  <1>1. /\ available = Stock0 /\ reserved = [s \in Skus |-> 0]
        /\ \A o \in Orders : answers["InventoryReserved"][o] = 0
    BY DEF Init, AnswerTypes
  <1>2. Marked(holdOf, "held") = {}
    BY <1>1 DEF Marked, holdOf, Holds
  <1>3. \A s \in Skus : available[s] + reserved[s] = Stock0[s] /\ reserved[s] = 0
    BY <1>1, CartAssumption
  <1> QED
    BY <1>2, <1>3, FS_EmptySet, SumEmpty DEF SumsInv

\* An order holds stock from the commit of its reservation to the commit of
\* its release; a refusal changes nothing.
LEMMA CommitHolds ==
  ASSUME ClaimInv, RowsInv, NEW w \in Workers, Reserve(w) \/ Refuse(w) \/ Release(w)
  PROVE  /\ Order(w) \in Orders
         /\ \A o \in Orders \ {Order(w)} : holdOf'[o] = holdOf[o]
         /\ Reserve(w) => holdOf[Order(w)] = "free" /\ holdOf'[Order(w)] = "held"
         /\ Refuse(w)  => holdOf'[Order(w)] = holdOf[Order(w)]
         /\ Release(w) => holdOf[Order(w)] = "held" /\ holdOf'[Order(w)] = "free"
  <1> DEFINE r == answers["InventoryReserved"]
  <1>1. TypeOK /\ TaskInv(w) /\ \A p \in Orders : AnswerInv(p) /\ ReleaseInv(p)
    BY DEF ClaimInv, RowsInv
  <1>2. AtWork(w)
    BY DEF Reserve, Refuse, Release, AtWork
  <1>3. PICK m \in Messages, o \in Orders :
          m = task[w].msg /\ m \notin claimed /\ m \in Known /\ o = Order(w) /\ o = m.order
    BY <1>1, <1>2 DEF TaskInv, AtWork, Known, Messages, Message, Order
  <1>4. m = Message(m.type, o)
    BY <1>3 DEF Messages, Message
  <1>5. claimed' = claimed \cup {m} /\ r \in [Orders -> Nat]
    BY <1>1, <1>3 DEF Reserve, Refuse, Release, Commit, TypeOK, AnswerTypes
  <1>6. /\ Reserve(w) => m.type = "OrderCreated" /\ r' = [r EXCEPT ![o] = @ + 1]
        /\ Refuse(w)  => m.type = "OrderCreated" /\ r' = r
        /\ Release(w) => m.type = "ReleaseInventory" /\ r' = r
    <2>1. Refuse(w) => m.type = "OrderCreated"
      BY <1>1, <1>3 DEF Refuse, TaskInv
    <2> QED
      BY <1>3, <2>1 DEF Reserve, Refuse, Release, Commit, AnswerTypes
  <1>7. \A p \in Orders : Message("ReleaseInventory", p) = m
                            <=> p = o /\ m.type = "ReleaseInventory"
    BY <1>4 DEF Message
  <1>8. \A p \in Orders \ {o} : r'[p] = r[p]
    BY <1>3, <1>5, <1>6
  <1>9. \A p \in Orders : /\ holdOf[p] = IF Holds(p) THEN "held" ELSE "free"
                          /\ holdOf'[p] = IF Holds(p)' THEN "held" ELSE "free"
    BY DEF holdOf
  <1>10. \A p \in Orders \ {o} : Holds(p)' <=> Holds(p)
    BY <1>5, <1>7, <1>8 DEF Holds
  <1>11. Refuse(w) => (Holds(o)' <=> Holds(o))
    BY <1>3, <1>5, <1>6, <1>7 DEF Holds
  <1>12. Reserve(w) => ~Holds(o) /\ Holds(o)'
    <2> SUFFICES ASSUME Reserve(w) PROVE ~Holds(o) /\ Holds(o)'
      OBVIOUS
    <2>1. m = Message("OrderCreated", o)
      BY <1>4, <1>6
    <2>2. r[o] = 0
      <3>1. r[o] \in Nat /\ answers["InventoryFailed"][o] \in Nat
        BY <1>1, <1>3 DEF TypeOK, AnswerTypes
      <3> QED
        BY <1>1, <1>3, <2>1, <3>1 DEF AnswerInv
    <2>3. Message("ReleaseInventory", o) \notin claimed
      BY <1>1, <1>3, <2>2 DEF ReleaseInv, Known
    <2>4. r'[o] = 1
      BY <1>3, <1>5, <1>6, <2>2
    <2>5. Message("ReleaseInventory", o) \notin claimed'
      BY <1>3, <1>5, <1>6, <1>7, <2>3
    <2> QED
      BY <2>2, <2>4, <2>5 DEF Holds
  <1>13. Release(w) => Holds(o) /\ ~Holds(o)'
    <2> SUFFICES ASSUME Release(w) PROVE Holds(o) /\ ~Holds(o)'
      OBVIOUS
    <2>1. m = Message("ReleaseInventory", o)
      BY <1>4, <1>6
    <2>2. r[o] > 0
      BY <1>1, <1>3, <2>1 DEF ReleaseInv
    <2> QED
      BY <1>3, <1>5, <2>1, <2>2 DEF Holds
  <1> QED
    BY <1>3, <1>9, <1>10, <1>11, <1>12, <1>13

\* The commit moves the units of the order from one column to the other.
LEMMA CommitSums ==
  ASSUME ClaimInv, RowsInv, SumsInv, NEW w \in Workers, Reserve(w) \/ Refuse(w) \/ Release(w)
  PROVE  SumsInv'
  <1> DEFINE h == holdOf
             Sum(s, g) == SumFunctionOnSet(Units(s), Marked(g, "held"))
  <1>1. PICK o \in Orders :
          /\ o = Order(w)
          /\ \A p \in Orders \ {o} : h'[p] = h[p]
          /\ Reserve(w) => h[o] = "free" /\ h'[o] = "held"
          /\ Refuse(w)  => h'[o] = h[o]
          /\ Release(w) => h[o] = "held" /\ h'[o] = "free"
    BY CommitHolds
  <1>2. DOMAIN h = Orders /\ DOMAIN h' = Orders /\ \A p \in DOMAIN h \ {o} : h'[p] = h[p]
    BY <1>1 DEF holdOf
  <1>3. \A s \in Skus : \A p \in DOMAIN h : Units(s)[p] \in Int
    BY <1>2, CartAssumption DEF Units
  <1>4. IsFiniteSet(Marked(h, "held"))
    BY DEF SumsInv
  <1>5. IsFiniteSet(Marked(h', "held"))
    BY <1>2, <1>4, MarkedFinite
  <1> HIDE DEF h
  <1>6. ASSUME NEW s \in Skus
        PROVE  /\ available'[s] + reserved'[s] = Stock0[s]
               /\ reserved'[s] = Sum(s, h')
    <2>1. /\ available[s] + reserved[s] = Stock0[s] /\ reserved[s] = Sum(s, h)
          /\ available[s] \in Int /\ reserved[s] \in Int /\ Stock0[s] \in Int
      BY CartAssumption DEF SumsInv, RowsInv, h
    <2>2. Units(s)[o] = Qty[o][s] /\ Qty[o][s] \in Int
      BY CartAssumption DEF Units
    <2>3. /\ available'[s] = available[s] - Taken(w, s)
          /\ reserved'[s] = reserved[s] + Taken(w, s)
      BY DEF Reserve, Refuse, Release, Settle
    <2>4. /\ Reserve(w) => Taken(w, s) = Units(s)[o]
          /\ Refuse(w)  => Taken(w, s) = 0
          /\ Release(w) => Taken(w, s) = -Units(s)[o]
      <3>1. /\ Reserve(w) => task[w].step = "update" /\ Ended(w) /\ task[w].msg.type = "OrderCreated"
            /\ Refuse(w)  => task[w].step = "refuse"
            /\ Release(w) => task[w].step = "update" /\ Ended(w) /\ task[w].msg.type = "ReleaseInventory"
        BY DEF Reserve, Refuse, Release
      <3> QED
        BY <1>1, <2>2, <3>1, TakenRows
    <2>5. /\ Reserve(w) => Sum(s, h') = Sum(s, h) + Units(s)[o]
          /\ Refuse(w)  => Sum(s, h') = Sum(s, h)
          /\ Release(w) => Sum(s, h') = Sum(s, h) - Units(s)[o]
      <3>1. ASSUME Reserve(w) PROVE Sum(s, h') = Sum(s, h) + Units(s)[o]
        <4>1. /\ o \in DOMAIN h /\ h[o] # "held" /\ h'[o] = "held"
              /\ DOMAIN h' = DOMAIN h /\ \A p \in DOMAIN h : Units(s)[p] \in Int
          BY <1>1, <1>2, <1>3, <3>1
        <4> QED
          BY <1>2, <1>4, <4>1, SumMark
      <3>2. ASSUME Release(w) PROVE Sum(s, h') = Sum(s, h) - Units(s)[o]
        <4>1. /\ o \in DOMAIN h /\ h[o] = "held" /\ h'[o] # "held"
              /\ DOMAIN h' = DOMAIN h /\ \A p \in DOMAIN h : Units(s)[p] \in Int
          BY <1>1, <1>2, <1>3, <3>2
        <4> QED
          BY <1>2, <1>4, <4>1, SumUnmark
      <3>3. ASSUME Refuse(w) PROVE Sum(s, h') = Sum(s, h)
        <4>1. Marked(h', "held") = Marked(h, "held")
          BY <1>1, <1>2, <3>3 DEF Marked
        <4> QED
          BY <4>1, Zenon
      <3> QED
        BY <3>1, <3>2, <3>3
    <2> HIDE DEF Sum
    <2> QED
      BY <2>1, <2>2, <2>3, <2>4, <2>5
  <1> QED
    BY <1>5, <1>6 DEF SumsInv, h

LEMMA SumsNext == ClaimInv /\ RowsInv /\ SumsInv /\ [Next]_vars => SumsInv'
  <1> SUFFICES ASSUME ClaimInv, RowsInv, SumsInv, [Next]_vars PROVE SumsInv'
    OBVIOUS
  <1>1. ASSUME NEW w \in Workers, Reserve(w) \/ Refuse(w) \/ Release(w) PROVE SumsInv'
    BY <1>1, CommitSums
  <1>2. ASSUME UNCHANGED <<available, reserved, claimed, answers>> PROVE SumsInv'
    <2>1. holdOf' = holdOf
      BY <1>2 DEF holdOf, Holds
    <2> QED
      BY <1>2, <2>1 DEF SumsInv, Marked
  <1>3. \/ UNCHANGED <<available, reserved, claimed, answers>>
        \/ \E w \in Workers : Reserve(w) \/ Refuse(w) \/ Release(w)
    BY DEF Next, vars, stockVars, Handle, Take, Claim, Skip, RequestRow, UpdateRow, FallShort,
           DeadlockAborts, Ack, Crash, PaymentFails
  <1> QED
    BY <1>1, <1>2, <1>3

\* The committed columns are what the answers say, with no assumption on the
\* carts but that each lists a product once: no transaction leaves part of a
\* reservation, reserves or releases twice, or takes a unit already promised
\* (UPDATE ... WHERE available >= quantity, under row locks).
THEOREM RowsAddUp == Spec => []LedgerKept
  <1>1. RowsInv /\ SumsInv => LedgerKept
    <2> SUFFICES ASSUME RowsInv, SumsInv, NEW s \in Skus
                 PROVE  /\ available[s] >= 0
                        /\ available[s] + reserved[s] = Stock0[s]
                        /\ reserved[s] = SumFunctionOnSet(Units(s), {o \in Orders : Holds(o)})
      BY DEF LedgerKept, Units
    <2>1. Marked(holdOf, "held") = {o \in Orders : Holds(o)}
      BY DEF Marked, holdOf
    <2>2. SumFunctionOnSet(Units(s), Marked(holdOf, "held"))
            = SumFunctionOnSet(Units(s), {o \in Orders : Holds(o)})
      BY <2>1, Zenon
    <2>3. available[s] \in Nat
      BY DEF RowsInv
    <2> QED
      BY <2>2, <2>3 DEF SumsInv
  <1> QED
    BY <1>1, SumsInit, SumsNext, ClaimsHold, LocksHold, PTL DEF Spec

-----------------------------------------------------------------------------
(* Refinement of StockSteps *)

\* A transaction is about one order, and an order it may answer has no answer.
LEMMA AtOrder ==
  ASSUME ClaimInv, NEW w \in Workers, AtWork(w)
  PROVE  /\ Order(w) \in Orders
         /\ task[w].msg = Message(task[w].msg.type, Order(w))
         /\ task[w].msg.type = "OrderCreated" =>
              answers["InventoryReserved"][Order(w)] = 0 /\ answers["InventoryFailed"][Order(w)] = 0
  <1>1. TypeOK /\ TaskInv(w)
    BY DEF ClaimInv
  <1>2. PICK m \in Messages : m = task[w].msg /\ m \notin claimed
    BY <1>1 DEF TaskInv, AtWork
  <1>3. m.order \in Orders /\ m = Message(m.type, m.order) /\ Order(w) = m.order
    BY <1>2 DEF Messages, Message, Order
  <1>4. ASSUME m.type = "OrderCreated"
        PROVE  answers["InventoryReserved"][m.order] = 0 /\ answers["InventoryFailed"][m.order] = 0
    <2>1. AnswerInv(m.order) /\ Message("OrderCreated", m.order) \notin claimed
      BY <1>2, <1>3, <1>4 DEF ClaimInv
    <2>2. /\ answers["InventoryReserved"][m.order] \in Nat
          /\ answers["InventoryFailed"][m.order] \in Nat
      BY <1>1, <1>3 DEF TypeOK, AnswerTypes
    <2> QED
      BY <2>1, <2>2 DEF AnswerInv
  <1> QED
    BY <1>2, <1>3, <1>4

\* While one instance is at the lines of an order, no other is about to refuse it.
LEMMA NoRefusalBeside ==
  ASSUME ClaimInv, NEW w \in Workers, task[w].step \in {"update", "wait"},
         task[w].msg.type = "OrderCreated"
  PROVE  ~AboutToRefuse(Order(w))
  <1> SUFFICES ASSUME NEW v \in Workers, task[v].step = "refuse", Order(v) = Order(w)
               PROVE  FALSE
    BY DEF AboutToRefuse
  <1>1. AtWork(w) /\ AtWork(v) /\ TaskInv(w) /\ task[v].msg.type = "OrderCreated"
    BY DEF AtWork, ClaimInv, TaskInv
  <1>2. task[v].msg = task[w].msg
    BY <1>1, AtOrder
  <1> QED
    BY <1>1, <1>2 DEF TaskInv

\* A step of one instance that neither starts nor ends a refusal moves no stage.
LEMMA StageKept ==
  ASSUME NEW w \in Workers, \A v \in Workers \ {w} : task'[v] = task[v],
         task[w].step # "refuse", task'[w].step # "refuse", UNCHANGED <<claimed, answers>>
  PROVE  stageOf' = stageOf
  <1>1. ASSUME NEW o \in Orders PROVE AboutToRefuse(o)' <=> AboutToRefuse(o)
    BY DEF AboutToRefuse, Order
  <1> QED
    BY <1>1 DEF stageOf, StageOf, Holds

\* A refusal that begins or breaks off moves the stage of its order alone.
LEMMA StageMoved ==
  ASSUME ClaimInv, NEW w \in Workers, AtWork(w), task[w].msg.type = "OrderCreated",
         \A v \in Workers \ {w} : task'[v] = task[v] /\ Order(v)' = Order(v),
         UNCHANGED <<claimed, answers>>,
         NEW p \in Orders, p # Order(w), task'[w].step = "refuse" => Order(w)' = Order(w)
  PROVE  stageOf'[p] = stageOf[p]
  <1>1. AboutToRefuse(p)' <=> AboutToRefuse(p)
    BY DEF AboutToRefuse
  <1> QED
    BY <1>1 DEF stageOf, StageOf, Holds

\* The rollback to the savepoint.
LEMMA RefineFallShort ==
  ASSUME ClaimInv, RowsInv, NEW w \in Workers, FallShort(w)
  PROVE  Atomic!FallShort(Order(w))
  <1>1. /\ TypeOK /\ TaskInv(w) /\ LockInv(w)
        /\ task[w].step \in {"update", "wait"} /\ AtWork(w)
        /\ ~ Ended(w) /\ ~ Matches(w) /\ UNCHANGED <<stockVars, claimed, answers>>
        /\ task' = [task EXCEPT ![w].step = "refuse"]
    BY DEF ClaimInv, RowsInv, FallShort, AtWork, LockInv
  <1>2. PICK o \in Orders :
          /\ o = Order(w) /\ Line(w) \in Skus
          /\ task[w].msg \in Messages
    BY <1>1, LinesTyped DEF TaskInv
  <1>3. /\ task'[w].step = "refuse" /\ Order(w)' = Order(w)
        /\ \A v \in Workers \ {w} : task'[v] = task[v] /\ Order(v)' = Order(v)
    BY <1>1 DEF TypeOK, Tasks, Order
  <1>4. task[w].msg.type = "OrderCreated" /\ ~(available[Line(w)] >= Qty[o][Line(w)])
    BY <1>1, <1>2 DEF Matches, Messages, Message
  <1>5. \E s \in Skus : available[s] < Qty[o][s]
    <2>1. available[Line(w)] \in Nat /\ Qty[o][Line(w)] \in Nat
      BY <1>2, CartAssumption DEF RowsInv
    <2> QED
      BY <1>2, <1>4, <2>1
  <1>6. answers["InventoryReserved"][o] = 0 /\ answers["InventoryFailed"][o] = 0
    BY <1>1, <1>2, <1>4, AtOrder
  <1>7. stageOf[o] = "new"
    <2>1. ~AboutToRefuse(o)
      BY <1>1, <1>2, <1>4, NoRefusalBeside
    <2> QED
      BY <1>6, <2>1 DEF stageOf, StageOf
  <1>8. stageOf'[o] = "short"
    <2>1. AboutToRefuse(o)'
      BY <1>2, <1>3 DEF AboutToRefuse
    <2> QED
      BY <1>1, <1>6, <2>1 DEF stageOf, StageOf
  <1>9. stageOf' = [stageOf EXCEPT ![o] = "short"]
    <2>1. ASSUME NEW p \in Orders, p # o PROVE stageOf'[p] = stageOf[p]
      BY <1>1, <1>2, <1>3, <1>4, <2>1, StageMoved
    <2> QED
      BY <1>8, <2>1 DEF stageOf
  <1> QED
    BY <1>1, <1>2, <1>5, <1>7, <1>9 DEF Atomic!FallShort, Atomic!Move, stockVars

\* A crash before the refusal is committed.
LEMMA RefineCrash ==
  ASSUME ClaimInv, NEW w \in Workers, Crash(w), task[w].step = "refuse"
  PROVE  Atomic!StartOver(Order(w))
  <1>1. /\ TypeOK /\ TaskInv(w) /\ AtWork(w) /\ task[w].msg.type = "OrderCreated"
        /\ UNCHANGED <<stockVars, claimed, answers>> /\ task' = [task EXCEPT ![w] = Idle]
    BY DEF ClaimInv, TaskInv, Crash, AtWork
  <1>2. PICK o \in Orders :
          /\ o = Order(w)
          /\ answers["InventoryReserved"][o] = 0 /\ answers["InventoryFailed"][o] = 0
    BY <1>1, AtOrder
  <1>3. /\ task'[w].step = "idle"
        /\ \A v \in Workers \ {w} : task'[v] = task[v] /\ Order(v)' = Order(v)
    BY <1>1 DEF TypeOK, Order, Idle, Task
  <1>4. stageOf[o] = "short"
    <2>1. AboutToRefuse(o)
      BY <1>2 DEF AboutToRefuse
    <2> QED
      BY <1>2, <2>1 DEF stageOf, StageOf
  <1>5. stageOf'[o] = "new"
    <2>1. ~AboutToRefuse(o)'
      <3> SUFFICES ASSUME NEW v \in Workers, task'[v].step = "refuse", Order(v)' = o
                   PROVE  FALSE
        BY DEF AboutToRefuse
      <3>1. v # w /\ task[v].step = "refuse" /\ Order(v) = Order(w)
        BY <1>2, <1>3
      <3>2. AtWork(v) /\ task[v].msg.type = "OrderCreated"
        BY <3>1 DEF AtWork, ClaimInv, TaskInv
      <3>3. task[v].msg = task[w].msg
        BY <1>1, <3>1, <3>2, AtOrder
      <3> QED
        BY <1>1, <3>1, <3>2, <3>3 DEF TaskInv
    <2> QED
      BY <1>1, <1>2, <2>1 DEF stageOf, StageOf
  <1>6. stageOf' = [stageOf EXCEPT ![o] = "new"]
    <2>1. ASSUME NEW p \in Orders, p # o PROVE stageOf'[p] = stageOf[p]
      BY <1>1, <1>2, <1>3, <2>1, StageMoved
    <2> QED
      BY <1>5, <2>1 DEF stageOf
  <1> QED
    BY <1>1, <1>2, <1>4, <1>6 DEF Atomic!StartOver, Atomic!Move, stockVars

\* The commits: a reservation, a refusal or a release in one piece.
LEMMA RefineCommit ==
  ASSUME ClaimInv, RowsInv, NEW w \in Workers, Reserve(w) \/ Refuse(w) \/ Release(w)
  PROVE  \E o \in Orders : Atomic!Step(o)
  <1>0. TypeOK /\ TaskInv(w) /\ AtWork(w)
    BY DEF ClaimInv, Reserve, Refuse, Release, AtWork
  <1>1. PICK o \in Orders :
          /\ o = Order(w)
          /\ \A p \in Orders \ {o} : Holds(p)' <=> Holds(p)
          /\ Reserve(w) => Holds(o)'
          /\ Release(w) => Holds(o) /\ ~Holds(o)'
    BY CommitHolds DEF holdOf
  <1>2. /\ task'[w].step = "done"
        /\ \A v \in Workers \ {w} : task'[v] = task[v] /\ Order(v)' = Order(v)
    BY <1>0 DEF Reserve, Refuse, Release, Commit, TypeOK, Tasks, Order
  <1>3. /\ answers["InventoryReserved"] \in [Orders -> Nat]
        /\ answers["InventoryFailed"] \in [Orders -> Nat]
    BY <1>0 DEF TypeOK, AnswerTypes
  <1>4. /\ Reserve(w) => /\ answers'["InventoryReserved"] = [answers["InventoryReserved"] EXCEPT ![o] = @ + 1]
                         /\ answers'["InventoryFailed"] = answers["InventoryFailed"]
        /\ Refuse(w) => /\ answers'["InventoryFailed"] = [answers["InventoryFailed"] EXCEPT ![o] = @ + 1]
                        /\ answers'["InventoryReserved"] = answers["InventoryReserved"]
        /\ Release(w) => /\ answers'["InventoryReserved"] = answers["InventoryReserved"]
                         /\ answers'["InventoryFailed"] = answers["InventoryFailed"]
    BY <1>1, <1>3 DEF Reserve, Refuse, Release, Commit, AnswerTypes
  <1>5. ASSUME NEW p \in Orders, p # o PROVE stageOf'[p] = stageOf[p]
    <2>1. AboutToRefuse(p)' <=> AboutToRefuse(p)
      BY <1>1, <1>2, <1>5 DEF AboutToRefuse
    <2>2. /\ answers'["InventoryReserved"][p] = answers["InventoryReserved"][p]
          /\ answers'["InventoryFailed"][p] = answers["InventoryFailed"][p]
      BY <1>3, <1>4, <1>5
    <2> QED
      BY <1>1, <1>5, <2>1, <2>2 DEF stageOf, StageOf
  <1>6. ASSUME NEW g, stageOf'[o] = g PROVE stageOf' = [stageOf EXCEPT ![o] = g]
    BY <1>5, <1>6 DEF stageOf
  <1>7. /\ available' = [s \in Skus |-> available[s] - Taken(w, s)]
        /\ reserved' = [s \in Skus |-> reserved[s] + Taken(w, s)]
    BY DEF Reserve, Refuse, Release, Settle
  <1>8. available \in [Skus -> Nat] /\ reserved \in [Skus -> Int]
    BY DEF RowsInv
  <1>9. CASE Reserve(w)
    <2>1. task[w].step = "update" /\ Ended(w) /\ task[w].msg.type = "OrderCreated"
      BY <1>9 DEF Reserve
    <2>2. \A s \in Skus : Taken(w, s) = Qty[o][s] /\ available[s] >= Qty[o][s]
      BY <1>1, <2>1, TakenRows
    <2>3. answers["InventoryReserved"][o] = 0 /\ answers["InventoryFailed"][o] = 0
      BY <1>0, <1>1, <2>1, AtOrder
    <2>4. stageOf[o] = "new"
      <3>1. ~AboutToRefuse(o)
        BY <1>1, <2>1, NoRefusalBeside
      <3> QED
        BY <2>3, <3>1 DEF stageOf, StageOf
    <2>5. stageOf'[o] = "held"
      <3>1. answers'["InventoryReserved"][o] = 1 /\ answers'["InventoryFailed"][o] = 0
        BY <1>3, <1>4, <1>9, <2>3
      <3> QED
        BY <1>1, <1>9, <3>1 DEF stageOf, StageOf
    <2>6. Atomic!Shift(Qty[o])
      BY <1>7, <2>2 DEF Atomic!Shift
    <2> QED
      BY <1>6, <2>2, <2>4, <2>5, <2>6 DEF Atomic!Reserve, Atomic!Move, Atomic!Step
  <1>10. CASE Refuse(w)
    <2>1. task[w].step = "refuse" /\ task[w].msg.type = "OrderCreated"
      BY <1>0, <1>10 DEF Refuse, TaskInv
    <2>2. UNCHANGED <<available, reserved>>
      <3>1. \A s \in Skus : Taken(w, s) = 0
        BY <2>1, TakenRows
      <3> QED
        BY <1>7, <1>8, <3>1
    <2>3. answers["InventoryReserved"][o] = 0 /\ answers["InventoryFailed"][o] = 0
      BY <1>0, <1>1, <2>1, AtOrder
    <2>4. stageOf[o] = "short"
      <3>1. AboutToRefuse(o)
        BY <1>1, <2>1 DEF AboutToRefuse
      <3> QED
        BY <2>3, <3>1 DEF stageOf, StageOf
    <2>5. stageOf'[o] = "refused"
      <3>1. answers'["InventoryReserved"][o] = 0 /\ answers'["InventoryFailed"][o] = 1
        BY <1>3, <1>4, <1>10, <2>3
      <3> QED
        BY <3>1 DEF stageOf, StageOf
    <2> QED
      BY <1>6, <2>2, <2>4, <2>5 DEF Atomic!Refuse, Atomic!Move, Atomic!Step
  <1>11. CASE Release(w)
    <2>1. task[w].step = "update" /\ Ended(w) /\ task[w].msg.type = "ReleaseInventory"
      BY <1>11 DEF Release
    <2>2. \A s \in Skus : Taken(w, s) = -Qty[o][s]
      BY <1>1, <2>1, TakenRows
    <2>3. /\ answers["InventoryReserved"][o] = 1 /\ answers["InventoryFailed"][o] = 0
          /\ answers'["InventoryReserved"][o] = 1 /\ answers'["InventoryFailed"][o] = 0
      <3>1. AnswerInv(o) /\ answers["InventoryReserved"][o] > 0
        BY <1>1, <1>11 DEF Holds, ClaimInv
      <3>2. answers["InventoryReserved"][o] \in Nat /\ answers["InventoryFailed"][o] \in Nat
        BY <1>3
      <3> QED
        BY <1>4, <1>11, <3>1, <3>2 DEF AnswerInv
    <2>4. stageOf[o] = "held" /\ stageOf'[o] = "returned"
      BY <1>1, <1>11, <2>3 DEF stageOf, StageOf
    <2>5. Atomic!Shift([s \in Skus |-> -Qty[o][s]])
      BY <1>7, <2>2 DEF Atomic!Shift
    <2> QED
      BY <1>6, <2>4, <2>5 DEF Atomic!Release, Atomic!Move, Atomic!Step
  <1> QED
    BY <1>9, <1>10, <1>11

\* Every other statement, wait, abort, crash or fetch is invisible.
LEMMA RefineNext ==
  ClaimInv /\ RowsInv /\ [Next]_vars => [Atomic!Next]_Atomic!steps
  <1> SUFFICES ASSUME ClaimInv, RowsInv, [Next]_vars
               PROVE  Atomic!Next \/ UNCHANGED <<available, reserved, stageOf>>
    BY DEF Atomic!steps
  <1>0. TypeOK /\ \A w \in Workers : TaskInv(w) /\ LockInv(w)
    BY DEF ClaimInv, RowsInv
  <1>1. ASSUME NEW w \in Workers, Reserve(w) \/ Refuse(w) \/ Release(w) PROVE Atomic!Next
    BY <1>1, RefineCommit DEF Atomic!Next
  <1>2. ASSUME NEW w \in Workers, FallShort(w) PROVE Atomic!Next
    <2>1. task[w].step \in {"update", "wait"}
      BY <1>2 DEF FallShort
    <2>2. Order(w) \in Orders
      BY <1>0, <2>1, LinesTyped
    <2> QED
      BY <1>2, <2>2, RefineFallShort DEF Atomic!Next, Atomic!Step
  <1>3. ASSUME NEW w \in Workers, Crash(w), task[w].step = "refuse" PROVE Atomic!Next
    <2>1. Order(w) \in Orders
      BY <1>3, AtOrder DEF AtWork
    <2> QED
      BY <1>3, <2>1, RefineCrash DEF Atomic!Next, Atomic!Step
  <1>4. ASSUME NEW w \in Workers,
               \/ \E m \in Messages : Take(w, m)
               \/ Ack(w) \/ Claim(w) \/ Skip(w) \/ RequestRow(w) \/ UpdateRow(w)
               \/ DeadlockAborts(w)
               \/ Crash(w) /\ task[w].step # "refuse"
        PROVE  UNCHANGED <<available, reserved, stageOf>>
    <2>1. UNCHANGED <<available, reserved, claimed, answers>>
      BY <1>4 DEF Take, Ack, Claim, Skip, RequestRow, UpdateRow, DeadlockAborts, Crash, stockVars
    <2>2. /\ task[w].step # "refuse" /\ task'[w].step # "refuse"
          /\ \A v \in Workers \ {w} : task'[v] = task[v]
      BY <1>0, <1>4 DEF Take, Ack, Claim, Skip, RequestRow, UpdateRow, DeadlockAborts, Retried, Crash,
         TypeOK, Tasks, Idle, Task
    <2> QED
      BY <2>1, <2>2, StageKept
  <1>5. ASSUME UNCHANGED <<available, reserved, claimed, answers, task>>
        PROVE  UNCHANGED <<available, reserved, stageOf>>
    BY <1>5 DEF stageOf, StageOf, Holds, AboutToRefuse, Order
  <1>6. ASSUME NEW o \in Orders, PaymentFails(o)
        PROVE  UNCHANGED <<available, reserved, stageOf>>
    BY <1>5, <1>6 DEF PaymentFails, stockVars
  <1>7. CASE UNCHANGED vars
    BY <1>5, <1>7 DEF vars, stockVars
  <1> QED
    BY <1>1, <1>2, <1>3, <1>4, <1>6, <1>7 DEF Next, Handle

\* With row locks, savepoints, concurrent claims, deadlocks and crashes, for any
\* number of instances, carts and retries, inventory-service implements one
\* instance with atomic transactions, which is what the order saga relies on.
THEOREM StepsAreAtomic == Spec => ImplementsSteps
  <1>1. Init => Atomic!Init
    <2> SUFFICES ASSUME Init PROVE Atomic!Init
      OBVIOUS
    <2>1. \A o \in Orders : ~AboutToRefuse(o)
      BY DEF Init, AboutToRefuse, Idle, Task
    <2>2. \A t \in AnswerTypes, o \in Orders : answers[t][o] = 0
      BY DEF Init
    <2> QED
      BY <2>1, <2>2 DEF Init, Atomic!Init, stageOf, StageOf, AnswerTypes
  <1> QED
    BY <1>1, RefineNext, ClaimsHold, LocksHold, PTL DEF Spec, ImplementsSteps, Atomic!Spec

=============================================================================

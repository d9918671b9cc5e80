------------------------------- MODULE Consumer -------------------------------
(***************************************************************************)
(* run_consumer on one partition of a topic: instances of one consumer     *)
(* group fetch from the committed offset, retry a raising handler, give    *)
(* the message up to the dead-letter topic and commit.  The broker, which  *)
(* is external, assigns the partition to at most one instance, may move it *)
(* at any time, even while its message is being handled, and does not take *)
(* the offset of an instance that has lost it.                             *)
(*                                                                         *)
(* What an exception that leaves run_consumer ends depends on the service: *)
(* inventory-, payment- and notification-service await it in main(), so    *)
(* the process ends and the platform starts it again.  order-service runs  *)
(* it as a task that nobody awaits: the task is over, the process stays    *)
(* up, and nothing starts the consumer again until the process goes, too.  *)
(***************************************************************************)
EXTENDS Integers

CONSTANTS
  N,            \* messages in the partition
  Instances,    \* processes of the consumer group
  None,         \* no instance
  Poison,       \* messages that Event(**msg.value) rejects
  MaxRetries,   \* settings.max_retries
  MaxFaults     \* bound on handler failures, crashes and rebalances

ASSUME SizeAssumption == N \in Nat

Messages == 1 .. N

ASSUME InstanceAssumption == None \notin Instances
ASSUME PoisonAssumption   == Poison \subseteq Messages
ASSUME RetryAssumption    == MaxRetries \in Nat /\ MaxFaults \in Nat

VARIABLES
  awaited,      \* whether the service awaits run_consumer; never changes
  committed,    \* the group's committed offset: 1 .. committed are acknowledged
  owner,        \* the instance the partition is assigned to
  pc,           \* where each instance is in its loop
  position,     \* each instance's fetch position in the partition
  current,      \* the message each instance is working on
  attempt,      \* its failed attempts at that message
  handled,      \* handled[m]: completed runs of the handler
  failed,       \* failed[m]: most attempts at m that failed in a row
  dead,         \* messages sent to the dead-letter topic
  faults        \* faults so far

vars == <<awaited, committed, owner, pc, position, current, attempt, handled,
          failed, dead, faults>>

Init ==
  /\ awaited \in BOOLEAN
  /\ committed = 0
  /\ owner = None
  /\ pc = [c \in Instances |-> "stopped"]
  /\ position = [c \in Instances |-> 0]
  /\ current = [c \in Instances |-> 0]
  /\ attempt = [c \in Instances |-> 0]
  /\ handled = [m \in Messages |-> 0]
  /\ failed = [m \in Messages |-> 0]
  /\ dead = {}
  /\ faults = 0

Fault == faults < MaxFaults /\ faults' = faults + 1

-----------------------------------------------------------------------------
(* processes and the broker *)

Running(c) == pc[c] \in {"poll", "handle", "dlq", "commit"}

\* A process starts: consumer.start().
Start(c) ==
  /\ pc[c] = "stopped"
  /\ pc' = [pc EXCEPT ![c] = "poll"]
  /\ UNCHANGED <<awaited, committed, owner, position, current, attempt, handled, failed, dead, faults>>

\* The consumer leaves its group and is at p from now on.
Stop(c, p) ==
  /\ pc' = [pc EXCEPT ![c] = p]
  /\ owner' = IF owner = c THEN None ELSE owner
  /\ UNCHANGED <<awaited, position, current, attempt, handled, failed, dead>>

\* An exception leaves run_consumer: the process ends with it, or only its task.
Raise(c) == Stop(c, IF awaited THEN "stopped" ELSE "ended")

\* consumer.start() raises: no broker can be reached.
StartRaises(c) ==
  /\ pc[c] = "stopped"
  /\ Fault
  /\ Raise(c)
  /\ UNCHANGED committed

\* The process ends, in the middle of its loop or with its task long over.
Crash(c) ==
  /\ pc[c] # "stopped"
  /\ Fault
  /\ Stop(c, "stopped")
  /\ UNCHANGED committed

\* Mutant of Assign: a new owner starts at the end of the log ("latest").
AssignLatest(c) ==
  /\ Running(c) /\ owner # c
  /\ IF owner = None THEN UNCHANGED faults ELSE Fault
  /\ owner' = c
  /\ \E m \in Messages : position' = [position EXCEPT ![c] = m]
  /\ UNCHANGED <<awaited, committed, pc, current, attempt, handled, failed, dead>>

\* A rebalance: the new owner starts at the committed offset.
Assign(c) ==
  /\ Running(c) /\ owner # c
  /\ IF owner = None THEN UNCHANGED faults ELSE Fault
  /\ owner' = c
  /\ position' = [position EXCEPT ![c] = committed]
  /\ UNCHANGED <<awaited, committed, pc, current, attempt, handled, failed, dead>>

-----------------------------------------------------------------------------
(* run_consumer *)

\* async for msg in consumer; Event(**msg.value) succeeds.
Fetch(c) ==
  /\ owner = c /\ pc[c] = "poll"
  /\ position[c] + 1 \in Messages \ Poison
  /\ position' = [position EXCEPT ![c] = @ + 1]
  /\ current' = [current EXCEPT ![c] = position[c] + 1]
  /\ attempt' = [attempt EXCEPT ![c] = 0]
  /\ pc' = [pc EXCEPT ![c] = "handle"]
  /\ UNCHANGED <<awaited, committed, owner, handled, failed, dead, faults>>

\* Event(**msg.value) raises, outside the retry loop.
FetchPoison(c) ==
  /\ owner = c /\ pc[c] = "poll"
  /\ position[c] + 1 \in Poison
  /\ UNCHANGED <<committed, faults>>
  /\ Raise(c)

HandlerReturns(c) ==
  /\ pc[c] = "handle"
  /\ handled' = [handled EXCEPT ![current[c]] = @ + 1]
  /\ pc' = [pc EXCEPT ![c] = "commit"]
  /\ UNCHANGED <<awaited, committed, owner, position, current, attempt, failed, dead, faults>>

\* attempt > settings.max_retries
GivesUp(n) == n > MaxRetries

\* The handler raises: back off and retry, or give the message up.
HandlerRaises(c) ==
  LET n == attempt[c] + 1
  IN  /\ pc[c] = "handle"
      /\ Fault
      /\ attempt' = [attempt EXCEPT ![c] = n]
      /\ failed' = [failed EXCEPT ![current[c]] = IF n > @ THEN n ELSE @]
      /\ pc' = [pc EXCEPT ![c] = IF GivesUp(n) THEN "dlq" ELSE "handle"]
      /\ UNCHANGED <<awaited, committed, owner, position, current, handled, dead>>

\* Mutant of DeadLetter: the message is given up without being sent to dlq.
DropExhausted(c) ==
  /\ pc[c] = "dlq"
  /\ pc' = [pc EXCEPT ![c] = "commit"]
  /\ UNCHANGED <<awaited, committed, owner, position, current, attempt, handled, failed, dead, faults>>

\* The message goes to the topic dlq, and the loop ends with the commit.
DeadLetter(c) ==
  /\ pc[c] = "dlq"
  /\ dead' = dead \cup {current[c]}
  /\ pc' = [pc EXCEPT ![c] = "commit"]
  /\ UNCHANGED <<awaited, committed, owner, position, current, attempt, handled, failed, faults>>

\* dlq.send_and_wait raises: the exception leaves the loop.
DeadLetterRaises(c) ==
  /\ pc[c] = "dlq"
  /\ Fault
  /\ Raise(c)
  /\ UNCHANGED committed

\* consumer.commit() commits the position in the partitions still assigned.
Commit(c) ==
  /\ pc[c] = "commit"
  /\ committed' = IF owner = c THEN position[c] ELSE committed
  /\ pc' = [pc EXCEPT ![c] = "poll"]
  /\ UNCHANGED <<awaited, owner, position, current, attempt, handled, failed, dead, faults>>

\* consumer.commit() raises, outside the retry loop: the partition has gone to
\* another instance, or the broker cannot be reached, or only its answer is
\* lost and the offset is committed.
CommitRaises(c) ==
  /\ pc[c] = "commit"
  /\ IF owner = c
     THEN Fault /\ committed' \in {committed, position[c]}
     ELSE UNCHANGED <<committed, faults>>
  /\ Raise(c)

-----------------------------------------------------------------------------

Step(c) ==
  \/ Start(c)
  \/ StartRaises(c)
  \/ Assign(c)
  \/ Crash(c)
  \/ Fetch(c)
  \/ FetchPoison(c)
  \/ HandlerReturns(c)
  \/ HandlerRaises(c)
  \/ DeadLetter(c)
  \/ DeadLetterRaises(c)
  \/ Commit(c)
  \/ CommitRaises(c)

Next == \E c \in Instances : Step(c)

Spec == Init /\ [][Next]_vars

\* A process that is down is started again by the platform, a partition without
\* owner is assigned, and the loop of a running consumer goes on; faults are
\* bounded.  Nothing is assumed of a process whose task has ended: it is up.
Progress(c) ==
  \/ Start(c)
  \/ owner = None /\ Assign(c)
  \/ Fetch(c)
  \/ FetchPoison(c)
  \/ HandlerReturns(c)
  \/ DeadLetter(c)
  \/ Commit(c)

FairSpec == Spec /\ \A c \in Instances : WF_vars(Progress(c))

-----------------------------------------------------------------------------
(* Correctness *)

TypeOK ==
  /\ awaited \in BOOLEAN
  /\ committed \in {0} \cup Messages
  /\ owner \in Instances \cup {None}
  /\ pc \in [Instances -> {"stopped", "ended", "poll", "handle", "dlq", "commit"}]
  /\ position \in [Instances -> {0} \cup Messages]
  /\ current \in [Instances -> {0} \cup Messages]
  /\ attempt \in [Instances -> Nat]
  /\ handled \in [Messages -> Nat]
  /\ failed \in [Messages -> Nat]
  /\ dead \in SUBSET Messages
  /\ faults \in Nat

Done(m) == handled[m] > 0 \/ m \in dead

\* Manual commit: no message is acknowledged that has not been handled or
\* dead-lettered, whoever owned the partition and whenever it crashed.
NothingSkipped == \A m \in Messages : m <= committed => Done(m)

\* A message is dead-lettered only after max_retries + 1 attempts in a row.
DeadAfterRetries == \A m \in dead : failed[m] = MaxRetries + 1

\* Every message in front of the first poison message is handled or
\* dead-lettered in the end, unless the service is order-service, which does
\* not await its consumer, and the tasks of all its instances have ended.
AllDone ==
  \A m \in Messages : (\A k \in Poison : m < k) =>
    <>(Done(m) \/ (~awaited /\ \A c \in Instances : pc[c] = "ended"))

\* README: poison messages go to the dead-letter topic.
PoisonDeadLettered == \A m \in Poison : <>(m \in dead)

-----------------------------------------------------------------------------
(* The inductive invariant behind the safety properties *)

Busy == {"handle", "dlq"}

\* An instance runs while it owns the partition, and all it has fetched since
\* it got it is done but the message it is working on.
OwnerInv(c) ==
  owner = c =>
    /\ Running(c)
    /\ \A m \in Messages :
         m <= position[c] => Done(m) \/ (m = current[c] /\ pc[c] \in Busy)

\* Failures in a row never exceed the retries by more than the one that sends
\* the message to the dead-letter topic.
RetryInv(c) ==
  /\ pc[c] \in Busy => current[c] \in Messages
  /\ pc[c] = "handle" => attempt[c] <= MaxRetries
  /\ pc[c] = "dlq" => failed[current[c]] = MaxRetries + 1

ConsumerInv ==
  /\ TypeOK
  /\ NothingSkipped
  /\ \A c \in Instances : OwnerInv(c) /\ RetryInv(c)
  /\ \A m \in Messages : failed[m] <= MaxRetries + 1
  /\ DeadAfterRetries

=============================================================================

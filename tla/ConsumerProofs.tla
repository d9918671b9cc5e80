--------------------------- MODULE ConsumerProofs ---------------------------
(***************************************************************************)
(* Proofs about run_consumer, for any number of messages, instances,       *)
(* retries and faults, wherever the poison messages are.                   *)
(***************************************************************************)
EXTENDS Consumer, TLAPS

USE SizeAssumption, InstanceAssumption, PoisonAssumption, RetryAssumption

\* Nothing is fetched, committed or dead yet.
LEMMA InitInv == Init => ConsumerInv
  BY DEF Init, ConsumerInv, TypeOK, NothingSkipped, Messages, OwnerInv, Running, RetryInv,
         DeadAfterRetries, Busy

-----------------------------------------------------------------------------
(* One lemma per step *)

\* A start owns nothing yet.
LEMMA StartInv ==
  ASSUME ConsumerInv, NEW c \in Instances, Start(c)
  PROVE  ConsumerInv'
  <1>1. TypeOK'
    BY DEF ConsumerInv, TypeOK, RetryInv, Busy, Messages, Start
  <1>2. /\ NothingSkipped' /\ DeadAfterRetries'
        /\ (\A m \in Messages : failed[m] <= MaxRetries + 1)'
    BY DEF ConsumerInv, TypeOK, NothingSkipped, DeadAfterRetries, Done, OwnerInv,
       Running, RetryInv, Busy, Messages, Start
  <1>3. ASSUME NEW d \in Instances PROVE OwnerInv(d)'
    BY <1>3 DEF ConsumerInv, TypeOK, NothingSkipped, Done, OwnerInv, Running,
       RetryInv, Busy, Messages, Start
  <1>4. ASSUME NEW d \in Instances PROVE RetryInv(d)'
    BY <1>4 DEF ConsumerInv, TypeOK, RetryInv, Busy, Messages, Start
  <1> QED
    BY <1>1, <1>2, <1>3, <1>4 DEF ConsumerInv

\* A consumer that cannot start owns nothing.
LEMMA StartRaisesInv ==
  ASSUME ConsumerInv, NEW c \in Instances, StartRaises(c)
  PROVE  ConsumerInv'
  <1>a. TypeOK
    BY DEF ConsumerInv
  <1>1. TypeOK'
    BY <1>a DEF TypeOK, StartRaises, Raise, Stop, Fault
  <1>2. /\ NothingSkipped' /\ DeadAfterRetries'
        /\ (\A m \in Messages : failed[m] <= MaxRetries + 1)'
    BY DEF ConsumerInv, TypeOK, NothingSkipped, DeadAfterRetries, Done, OwnerInv,
       Running, RetryInv, Busy, Messages, StartRaises, Raise, Stop, Fault
  <1>3. ASSUME NEW d \in Instances PROVE OwnerInv(d)'
    BY <1>3 DEF ConsumerInv, TypeOK, NothingSkipped, Done, OwnerInv, Running,
       RetryInv, Busy, Messages, StartRaises, Raise, Stop, Fault
  <1>4. ASSUME NEW d \in Instances PROVE RetryInv(d)'
    BY <1>4 DEF ConsumerInv, TypeOK, RetryInv, Busy, Messages, StartRaises, Raise, Stop,
       Fault
  <1> QED
    BY <1>1, <1>2, <1>3, <1>4 DEF ConsumerInv

\* A new owner starts behind the committed offset, where everything is done.
LEMMA AssignInv ==
  ASSUME ConsumerInv, NEW c \in Instances, Assign(c)
  PROVE  ConsumerInv'
  <1>a. TypeOK
    BY DEF ConsumerInv
  <1>1. TypeOK'
    BY <1>a DEF TypeOK, Assign, Running, Fault
  <1>2. /\ NothingSkipped' /\ DeadAfterRetries'
        /\ (\A m \in Messages : failed[m] <= MaxRetries + 1)'
    BY DEF ConsumerInv, TypeOK, NothingSkipped, DeadAfterRetries, Done, OwnerInv,
       Running, RetryInv, Busy, Messages, Assign, Fault
  <1>3. ASSUME NEW d \in Instances PROVE OwnerInv(d)'
    BY <1>3 DEF ConsumerInv, TypeOK, NothingSkipped, Done, OwnerInv, Running,
       RetryInv, Busy, Messages, Assign, Fault
  <1>4. ASSUME NEW d \in Instances PROVE RetryInv(d)'
    BY <1>4 DEF ConsumerInv, TypeOK, RetryInv, Busy, Messages, Assign, Fault
  <1> QED
    BY <1>1, <1>2, <1>3, <1>4 DEF ConsumerInv

\* A crash gives the partition up.
LEMMA CrashInv ==
  ASSUME ConsumerInv, NEW c \in Instances, Crash(c)
  PROVE  ConsumerInv'
  <1>a. TypeOK
    BY DEF ConsumerInv
  <1>1. TypeOK'
    BY <1>a DEF TypeOK, Crash, Stop, Fault
  <1>2. /\ NothingSkipped' /\ DeadAfterRetries'
        /\ (\A m \in Messages : failed[m] <= MaxRetries + 1)'
    BY DEF ConsumerInv, TypeOK, NothingSkipped, DeadAfterRetries, Done, OwnerInv,
       Running, RetryInv, Busy, Messages, Crash, Stop, Fault
  <1>3. ASSUME NEW d \in Instances PROVE OwnerInv(d)'
    BY <1>3 DEF ConsumerInv, TypeOK, NothingSkipped, Done, OwnerInv, Running,
       RetryInv, Busy, Messages, Crash, Stop, Fault
  <1>4. ASSUME NEW d \in Instances PROVE RetryInv(d)'
    BY <1>4 DEF ConsumerInv, TypeOK, RetryInv, Busy, Messages, Crash, Stop, Fault
  <1> QED
    BY <1>1, <1>2, <1>3, <1>4 DEF ConsumerInv

\* The message fetched is the only one that is not done.
LEMMA FetchInv ==
  ASSUME ConsumerInv, NEW c \in Instances, Fetch(c)
  PROVE  ConsumerInv'
  <1>1. TypeOK'
    BY DEF ConsumerInv, TypeOK, RetryInv, Busy, Messages, Fetch
  <1>2. /\ NothingSkipped' /\ DeadAfterRetries'
        /\ (\A m \in Messages : failed[m] <= MaxRetries + 1)'
    BY DEF ConsumerInv, TypeOK, NothingSkipped, DeadAfterRetries, Done, OwnerInv,
       Running, RetryInv, Busy, Messages, Fetch
  <1>3. ASSUME NEW d \in Instances PROVE OwnerInv(d)'
    <2>1. TypeOK /\ OwnerInv(d) /\ OwnerInv(c) /\ NothingSkipped
      BY DEF ConsumerInv
    <2>2. /\ UNCHANGED <<owner, handled, dead>> /\ owner = c
          /\ pc[c] = "poll" /\ pc'[c] = "handle"
          /\ position'[c] = position[c] + 1 /\ current'[c] = position[c] + 1
      BY <2>1 DEF TypeOK, Fetch
    <2>3. CASE d = c
      <3>1. ASSUME NEW m \in Messages, m <= position'[c], m # current'[c] PROVE Done(m)'
        <4>1. position[c] \in Int /\ m \in Int
          BY <2>1, SizeAssumption DEF TypeOK, Messages
        <4>2. m <= position[c]
          BY <2>2, <3>1, <4>1
        <4> QED
          BY <2>1, <2>2, <4>2 DEF OwnerInv, Running, Done, Busy
      <3> QED
        BY <2>2, <2>3, <3>1 DEF OwnerInv, Running, Busy
    <2> QED
      BY <2>2, <2>3 DEF OwnerInv, Running
  <1>4. ASSUME NEW d \in Instances PROVE RetryInv(d)'
    <2>1. TypeOK /\ RetryInv(d)
      BY DEF ConsumerInv
    <2> QED
      BY <1>1, <2>1, RetryAssumption DEF TypeOK, RetryInv, Busy, Fetch
  <1> QED
    BY <1>1, <1>2, <1>3, <1>4 DEF ConsumerInv

\* A poison message stops its instance.
LEMMA FetchPoisonInv ==
  ASSUME ConsumerInv, NEW c \in Instances, FetchPoison(c)
  PROVE  ConsumerInv'
  <1>a. TypeOK
    BY DEF ConsumerInv
  <1>1. TypeOK'
    BY <1>a DEF TypeOK, FetchPoison, Raise, Stop
  <1>2. /\ NothingSkipped' /\ DeadAfterRetries'
        /\ (\A m \in Messages : failed[m] <= MaxRetries + 1)'
    BY DEF ConsumerInv, TypeOK, NothingSkipped, DeadAfterRetries, Done, OwnerInv,
       Running, RetryInv, Busy, Messages, FetchPoison, Raise, Stop
  <1>3. ASSUME NEW d \in Instances PROVE OwnerInv(d)'
    BY <1>3 DEF ConsumerInv, TypeOK, NothingSkipped, Done, OwnerInv, Running,
       RetryInv, Busy, Messages, FetchPoison, Raise, Stop
  <1>4. ASSUME NEW d \in Instances PROVE RetryInv(d)'
    BY <1>4 DEF ConsumerInv, TypeOK, RetryInv, Busy, Messages, FetchPoison, Raise, Stop
  <1> QED
    BY <1>1, <1>2, <1>3, <1>4 DEF ConsumerInv

\* The message is done.
LEMMA HandlerReturnsInv ==
  ASSUME ConsumerInv, NEW c \in Instances, HandlerReturns(c)
  PROVE  ConsumerInv'
  <1>a. TypeOK /\ current[c] \in Messages
    BY DEF ConsumerInv, RetryInv, Busy, HandlerReturns
  <1>1. TypeOK'
    BY <1>a DEF TypeOK, HandlerReturns
  <1>2. /\ NothingSkipped' /\ DeadAfterRetries'
        /\ (\A m \in Messages : failed[m] <= MaxRetries + 1)'
    <2>1. \A m \in Messages : Done(m) => Done(m)'
      BY <1>a DEF TypeOK, Done, HandlerReturns
    <2> QED
      BY <2>1 DEF ConsumerInv, NothingSkipped, DeadAfterRetries, HandlerReturns
  <1>3. ASSUME NEW d \in Instances PROVE OwnerInv(d)'
    <2>1. TypeOK /\ OwnerInv(d) /\ OwnerInv(c) /\ NothingSkipped
      BY DEF ConsumerInv
    <2> QED
      BY <2>1 DEF TypeOK, NothingSkipped, Done, OwnerInv, Running, RetryInv,
         Busy, Messages, HandlerReturns
  <1>4. ASSUME NEW d \in Instances PROVE RetryInv(d)'
    <2>1. TypeOK /\ RetryInv(d)
      BY DEF ConsumerInv
    <2> QED
      BY <1>1, <2>1, RetryAssumption DEF TypeOK, RetryInv, Busy, HandlerReturns
  <1> QED
    BY <1>1, <1>2, <1>3, <1>4 DEF ConsumerInv

\* Another attempt; the one too many leads to the dead-letter topic.
LEMMA HandlerRaisesInv ==
  ASSUME ConsumerInv, NEW c \in Instances, HandlerRaises(c)
  PROVE  ConsumerInv'
  <1>a. TypeOK /\ current[c] \in Messages
    BY DEF ConsumerInv, RetryInv, Busy, HandlerRaises
  <1>1. TypeOK'
    BY <1>a DEF TypeOK, HandlerRaises, Fault, GivesUp
  <1>2. /\ NothingSkipped' /\ DeadAfterRetries'
        /\ (\A m \in Messages : failed[m] <= MaxRetries + 1)'
    <2>1. NothingSkipped'
      BY DEF ConsumerInv, NothingSkipped, Done, HandlerRaises
    <2>2. attempt[c] \in Nat /\ attempt[c] <= MaxRetries
      BY <1>a DEF ConsumerInv, TypeOK, RetryInv, HandlerRaises
    <2>3. \A m \in Messages : failed[m] <= MaxRetries + 1
      BY DEF ConsumerInv
    <2>4. \A m \in Messages :
            /\ failed[m] \in Nat
            /\ failed'[m] \in {failed[m], attempt[c] + 1}
            /\ failed[m] <= failed'[m]
      BY <1>a, <2>2 DEF TypeOK, HandlerRaises
    <2>5. \A m \in Messages : failed'[m] <= MaxRetries + 1
      BY <2>2, <2>3, <2>4, RetryAssumption
    <2>6. DeadAfterRetries'
      <3>1. dead' = dead /\ dead \subseteq Messages
        BY <1>a DEF TypeOK, HandlerRaises
      <3> QED
        BY <2>4, <2>5, <3>1, <1>1, RetryAssumption DEF ConsumerInv, DeadAfterRetries, TypeOK
    <2> QED
      BY <2>1, <2>5, <2>6
  <1>3. ASSUME NEW d \in Instances PROVE OwnerInv(d)'
    <2>1. TypeOK /\ OwnerInv(d) /\ OwnerInv(c) /\ NothingSkipped
      BY DEF ConsumerInv
    <2> QED
      BY <2>1 DEF TypeOK, NothingSkipped, Done, OwnerInv, Running, RetryInv,
         Busy, Messages, HandlerRaises, Fault, GivesUp
  <1>4. ASSUME NEW d \in Instances PROVE RetryInv(d)'
    <2>1. RetryInv(d) /\ RetryInv(c)
      BY DEF ConsumerInv
    <2>2. CASE d = c
      <3>1. attempt[c] \in Nat /\ attempt[c] <= MaxRetries
        BY <1>a, <2>1 DEF TypeOK, RetryInv, HandlerRaises
      <3>2. failed[current[c]] \in Nat /\ failed[current[c]] <= MaxRetries + 1
        BY <1>a DEF ConsumerInv, TypeOK
      <3>3. /\ current'[c] = current[c] /\ attempt'[c] = attempt[c] + 1
            /\ pc'[c] = IF attempt[c] + 1 > MaxRetries THEN "dlq" ELSE "handle"
            /\ failed'[current[c]] =
                 IF attempt[c] + 1 > failed[current[c]] THEN attempt[c] + 1 ELSE failed[current[c]]
        BY <1>a DEF TypeOK, HandlerRaises, GivesUp
      <3> QED
        BY <1>a, <2>2, <3>1, <3>2, <3>3, RetryAssumption DEF RetryInv, Busy
    <2>3. CASE d # c
      <3>1. /\ pc'[d] = pc[d] /\ current'[d] = current[d] /\ attempt'[d] = attempt[d]
        BY <1>a, <2>3 DEF TypeOK, HandlerRaises
      <3>2. failed[current[d]] = MaxRetries + 1 /\ pc[d] = "dlq" =>
              failed'[current[d]] = MaxRetries + 1
        BY <1>a, <1>1, <1>2, <2>1 DEF ConsumerInv, TypeOK, RetryInv, Busy, HandlerRaises
      <3> QED
        BY <2>1, <3>1, <3>2 DEF RetryInv
    <2> QED
      BY <2>2, <2>3
  <1> QED
    BY <1>1, <1>2, <1>3, <1>4 DEF ConsumerInv

\* A message that goes to the dead-letter topic has exhausted its retries.
LEMMA DeadLetterInv ==
  ASSUME ConsumerInv, NEW c \in Instances, DeadLetter(c)
  PROVE  ConsumerInv'
  <1>1. TypeOK'
    BY DEF ConsumerInv, TypeOK, RetryInv, Busy, Messages, DeadLetter
  <1>2. /\ NothingSkipped' /\ DeadAfterRetries'
        /\ (\A m \in Messages : failed[m] <= MaxRetries + 1)'
    BY DEF ConsumerInv, TypeOK, NothingSkipped, DeadAfterRetries, Done, OwnerInv,
       Running, RetryInv, Busy, Messages, DeadLetter
  <1>3. ASSUME NEW d \in Instances PROVE OwnerInv(d)'
    BY <1>3 DEF ConsumerInv, TypeOK, NothingSkipped, Done, OwnerInv, Running,
       RetryInv, Busy, Messages, DeadLetter
  <1>4. ASSUME NEW d \in Instances PROVE RetryInv(d)'
    BY <1>4 DEF ConsumerInv, TypeOK, RetryInv, Busy, Messages, DeadLetter
  <1> QED
    BY <1>1, <1>2, <1>3, <1>4 DEF ConsumerInv

\* The instance stops and the offset stays.
LEMMA DeadLetterRaisesInv ==
  ASSUME ConsumerInv, NEW c \in Instances, DeadLetterRaises(c)
  PROVE  ConsumerInv'
  <1>a. TypeOK /\ current[c] \in Messages
    BY DEF ConsumerInv, RetryInv, Busy, DeadLetterRaises
  <1>1. TypeOK'
    BY <1>a DEF TypeOK, DeadLetterRaises, Raise, Stop, Fault
  <1>2. /\ NothingSkipped' /\ DeadAfterRetries'
        /\ (\A m \in Messages : failed[m] <= MaxRetries + 1)'
    BY DEF ConsumerInv, TypeOK, NothingSkipped, DeadAfterRetries, Done, OwnerInv,
       Running, RetryInv, Busy, Messages, DeadLetterRaises, Raise, Stop, Fault
  <1>3. ASSUME NEW d \in Instances PROVE OwnerInv(d)'
    BY <1>3 DEF ConsumerInv, TypeOK, NothingSkipped, Done, OwnerInv, Running,
       RetryInv, Busy, Messages, DeadLetterRaises, Raise, Stop, Fault
  <1>4. ASSUME NEW d \in Instances PROVE RetryInv(d)'
    BY <1>4 DEF ConsumerInv, TypeOK, RetryInv, Busy, Messages, DeadLetterRaises,
       Raise, Stop, Fault
  <1> QED
    BY <1>1, <1>2, <1>3, <1>4 DEF ConsumerInv

\* An owner commits only what is done.
LEMMA CommitInv ==
  ASSUME ConsumerInv, NEW c \in Instances, Commit(c)
  PROVE  ConsumerInv'
  <1>1. TypeOK'
    BY DEF ConsumerInv, TypeOK, RetryInv, Busy, Messages, Commit
  <1>2. /\ NothingSkipped' /\ DeadAfterRetries'
        /\ (\A m \in Messages : failed[m] <= MaxRetries + 1)'
    BY DEF ConsumerInv, TypeOK, NothingSkipped, DeadAfterRetries, Done, OwnerInv,
       Running, RetryInv, Busy, Messages, Commit
  <1>3. ASSUME NEW d \in Instances PROVE OwnerInv(d)'
    BY <1>3 DEF ConsumerInv, TypeOK, NothingSkipped, Done, OwnerInv, Running,
       RetryInv, Busy, Messages, Commit
  <1>4. ASSUME NEW d \in Instances PROVE RetryInv(d)'
    BY <1>4 DEF ConsumerInv, TypeOK, RetryInv, Busy, Messages, Commit
  <1> QED
    BY <1>1, <1>2, <1>3, <1>4 DEF ConsumerInv

\* A commit that raises has committed what is done, or nothing.
LEMMA CommitRaisesInv ==
  ASSUME ConsumerInv, NEW c \in Instances, CommitRaises(c)
  PROVE  ConsumerInv'
  <1>a. TypeOK /\ OwnerInv(c)
    BY DEF ConsumerInv
  <1>b. /\ pc[c] = "commit"
        /\ pc' = [pc EXCEPT ![c] = IF awaited THEN "stopped" ELSE "ended"]
        /\ owner' = IF owner = c THEN None ELSE owner
        /\ UNCHANGED <<awaited, position, current, attempt, handled, failed, dead>>
    BY DEF CommitRaises, Raise, Stop
  <1>c. /\ faults' \in {faults, faults + 1}
        /\ committed' = committed \/ (owner = c /\ committed' = position[c])
    <2>1. CASE owner = c
      BY <2>1 DEF CommitRaises, Fault
    <2>2. CASE owner # c
      BY <2>2 DEF CommitRaises
    <2> QED
      BY <2>1, <2>2
  <1>1. TypeOK'
    BY <1>a, <1>b, <1>c DEF TypeOK
  <1>2. /\ NothingSkipped' /\ DeadAfterRetries'
        /\ (\A m \in Messages : failed[m] <= MaxRetries + 1)'
    BY <1>a, <1>b, <1>c DEF ConsumerInv, NothingSkipped, DeadAfterRetries, Done, OwnerInv, Busy
  <1>3. ASSUME NEW d \in Instances PROVE OwnerInv(d)'
    BY <1>a, <1>b, <1>c, <1>3 DEF ConsumerInv, TypeOK, Done, OwnerInv, Running, Busy
  <1>4. ASSUME NEW d \in Instances PROVE RetryInv(d)'
    BY <1>a, <1>b, <1>c, <1>4 DEF ConsumerInv, TypeOK, RetryInv, Busy
  <1> QED
    BY <1>1, <1>2, <1>3, <1>4 DEF ConsumerInv

-----------------------------------------------------------------------------
(* The specification *)

\* The inductive invariant holds of every reachable state.
THEOREM ConsumerInvariant == Spec => []ConsumerInv
  <1>1. ConsumerInv /\ [Next]_vars => ConsumerInv'
    <2> SUFFICES ASSUME ConsumerInv, [Next]_vars PROVE ConsumerInv'
      OBVIOUS
    <2>1. ASSUME NEW c \in Instances, Step(c) PROVE ConsumerInv'
      BY <2>1, StartInv, StartRaisesInv, AssignInv, CrashInv, FetchInv,
         FetchPoisonInv, HandlerReturnsInv,
         HandlerRaisesInv, DeadLetterInv, DeadLetterRaisesInv, CommitInv,
         CommitRaisesInv DEF Step
    <2>2. CASE UNCHANGED vars
      BY <2>2 DEF vars, ConsumerInv, TypeOK, NothingSkipped, DeadAfterRetries, Done,
         OwnerInv, Running, RetryInv
    <2> QED
      BY <2>1, <2>2 DEF Next
  <1> QED
    BY InitInv, <1>1, PTL DEF Spec

\* run_consumer commits by hand: whoever owned the partition and whenever it
\* crashed, no offset is committed beyond a message that is neither handled nor
\* dead-lettered.
THEOREM NothingIsSkipped == Spec => []NothingSkipped
  <1>1. ConsumerInv => NothingSkipped
    BY DEF ConsumerInv
  <1> QED
    BY <1>1, ConsumerInvariant, PTL

\* Only a message whose retries are exhausted goes to the dead-letter topic.
THEOREM DeadLettersExhausted == Spec => []DeadAfterRetries
  <1>1. ConsumerInv => DeadAfterRetries
    BY DEF ConsumerInv
  <1> QED
    BY <1>1, ConsumerInvariant, PTL

=============================================================================

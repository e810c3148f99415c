-------------------------- MODULE BoundedQueueProofs --------------------------
(***************************************************************************)
(* Proofs about BoundedQueue for every finite set of producers, every      *)
(* capacity and every quota: its type invariant, mutual exclusion, the     *)
(* capacity bound, the absence of lost wakeups, that every item comes out  *)
(* once and in order, and that it implements FifoQueue.                    *)
(***************************************************************************)
EXTENDS BoundedQueue, FiniteSetTheorems, SequenceTheorems, SelectionProofs, TLAPS

(* TypeOK and Bounded need that a producer inside enqueue_event has an     *)
(* item left (Submitting, in BoundedQueue) and is alone there.             *)
BaseInv == TypeOK /\ Submitting /\ MutualExclusion /\ Bounded

-----------------------------------------------------------------------------
(* BaseInv holds initially and every step of every thread preserves it.    *)
LEMMA BaseInit == Init => BaseInv
BY QueueAssumption
   DEF Init, BaseInv, TypeOK, Item, Submitting, MutualExclusion, Bounded

LEMMA BaseStep == BaseInv /\ [Next]_vars => BaseInv'
<1> USE QueueAssumption DEF BaseInv, TypeOK, Item, Submitting, MutualExclusion, Bounded
<1> SUFFICES ASSUME BaseInv, [Next]_vars
             PROVE  BaseInv'
  OBVIOUS
<1>1. ASSUME NEW p \in Producers, CallEnqueue(p)
      PROVE  BaseInv'
  BY <1>1 DEF CallEnqueue
<1>2. ASSUME NEW p \in Producers, LockEnqueue(p)
      PROVE  BaseInv'
  BY <1>2 DEF LockEnqueue
<1>3. ASSUME NEW p \in Producers, WaitNotFull(p)
      PROVE  BaseInv'
  BY <1>3 DEF WaitNotFull
<1>4. ASSUME NEW p \in Producers, Put(p)
      PROVE  BaseInv'
  <2>1. /\ queue' \in Seq(Item)
        /\ Len(queue') = Len(queue) + 1
    BY <1>4, AppendProperties DEF Put
  <2>2. next' \in [Producers -> 1 .. Quota + 1]
    BY <1>4 DEF Put
  <2> QED
    BY <1>4, <2>1, <2>2 DEF Put
<1>5. ASSUME NEW p \in Producers, SpuriousWakeup(p)
      PROVE  BaseInv'
  BY <1>5 DEF SpuriousWakeup
<1>6. CASE CallDequeue
  BY <1>6 DEF CallDequeue
<1>7. CASE LockDequeue
  BY <1>7 DEF LockDequeue
<1>8. CASE DequeueEmpty
  BY <1>8 DEF DequeueEmpty
<1>9. CASE Take
  <2>1. /\ Head(queue) \in Item
        /\ queue' \in Seq(Item)
        /\ Len(queue') = Len(queue) - 1
        /\ Len(queue) \in Nat
    BY <1>9, HeadTailProperties, LenProperties DEF Take
  <2>2. out' \in Seq(Item)
    BY <1>9, <2>1, AppendProperties DEF Take
  <2>3. /\ pc' \in [Producers -> {"idle", "enter", "loop", "wait", "wake"}]
        /\ \A p \in Producers : pc'[p] = pc[p] \/ (pc[p] = "wait" /\ pc'[p] = "wake")
    BY <1>9 DEF Take, SignalNotFull, Waiting
  <2>4. TypeOK'
    BY <1>9, <2>1, <2>2, <2>3 DEF Take
  <2>5. Submitting'
    BY <1>9, <2>3 DEF Take
  <2>6. MutualExclusion'
    <3>1. owner = Consumer /\ owner' = NoThread /\ cpc' = "enter"
      BY <1>9 DEF Take
    <3>2. \A p \in Producers : pc[p] # "loop"
      BY <3>1
    <3>3. \A p \in Producers : pc'[p] # "loop"
      BY <2>3, <3>2
    <3> QED
      BY <3>1, <3>3
  <2>7. Bounded'
    BY <2>1
  <2> QED
    BY <2>4, <2>5, <2>6, <2>7
<1>10. CASE UNCHANGED vars
  BY <1>10 DEF vars
<1> QED
  BY <1>1, <1>2, <1>3, <1>4, <1>5, <1>6, <1>7, <1>8, <1>9, <1>10
     DEF Next, ProducerStep, ConsumerStep

LEMMA BaseInvariant == Spec => []BaseInv
BY BaseInit, BaseStep, PTL DEF Spec

(* Every variable keeps its type, for every instance of the queue.         *)
THEOREM TypeCorrect == Spec => []TypeOK
BY BaseInvariant, PTL DEF BaseInv

(* At most one thread is between lock and unlock, the owner of the mutex.  *)
THEOREM Exclusion == Spec => []MutualExclusion
BY BaseInvariant, PTL DEF BaseInv

(* The array is never written past its last element.                       *)
THEOREM NoOverflow == Spec => []Bounded
BY BaseInvariant, PTL DEF BaseInv

-----------------------------------------------------------------------------
(* The producers that have been woken or are inside: a finite set.         *)
LEMMA AwakeFinite ==
    /\ IsFiniteSet(Awake)
    /\ Cardinality(Awake) \in Nat
BY QueueAssumption, FS_Subset, FS_CardinalityType DEF Awake

(* Every step keeps the free slots matched by awake producers.             *)
LEMMA WakeupStep == BaseInv /\ NoLostWakeup /\ [Next]_vars => NoLostWakeup'
<1> USE QueueAssumption DEF BaseInv, TypeOK
<1> SUFFICES ASSUME BaseInv, NoLostWakeup, [Next]_vars
             PROVE  NoLostWakeup'
  OBVIOUS
<1>0. /\ IsFiniteSet(Awake) /\ Cardinality(Awake) \in Nat
      /\ Len(queue) \in Nat
  BY AwakeFinite, LenProperties
\* A step that leaves the array, the sleepers and the awake alone.
<1>a. ASSUME queue' = queue, Waiting' = Waiting, Awake' = Awake
      PROVE  NoLostWakeup'
  BY <1>a DEF NoLostWakeup
\* A step that makes one more producer awake and touches nothing else.
<1>b. ASSUME NEW p \in Producers, queue' = queue, Waiting' \subseteq Waiting,
             Awake' = Awake \cup {p}
      PROVE  NoLostWakeup'
  <2>1. Cardinality(Awake') \in Nat /\ Cardinality(Awake') >= Cardinality(Awake)
    <3>1. CASE p \in Awake
      <4>1. Awake' = Awake
        BY <1>b, <3>1
      <4> QED
        BY <1>0, <4>1
    <3>2. CASE p \notin Awake
      <4>1. Cardinality(Awake \cup {p}) = Cardinality(Awake) + 1
        BY <1>0, <3>2, FS_AddElement
      <4>2. Cardinality(Awake') = Cardinality(Awake) + 1
        BY <1>b, <4>1
      <4> QED
        BY <1>0, <4>2
    <3> QED
      BY <3>1, <3>2
  <2> QED
    BY <1>0, <1>b, <2>1 DEF NoLostWakeup
<1>1. ASSUME NEW p \in Producers, CallEnqueue(p)
      PROVE  NoLostWakeup'
  <2>1. Waiting' = Waiting /\ Awake' = Awake
    BY <1>1 DEF CallEnqueue, Waiting, Awake
  <2> QED
    BY <1>1, <1>a, <2>1 DEF CallEnqueue
<1>2. ASSUME NEW p \in Producers, LockEnqueue(p)
      PROVE  NoLostWakeup'
  <2>1. Waiting' \subseteq Waiting /\ Awake' = Awake \cup {p}
    BY <1>2 DEF LockEnqueue, Waiting, Awake
  <2> QED
    BY <1>2, <1>b, <2>1 DEF LockEnqueue
\* The new sleeper found the array full: no free slot to match.
<1>3. ASSUME NEW p \in Producers, WaitNotFull(p)
      PROVE  NoLostWakeup'
  <2>1. IsFiniteSet(Awake') /\ Cardinality(Awake') \in Nat
    <3>1. Awake' = Awake \ {p}
      BY <1>3 DEF WaitNotFull, Awake
    <3> QED
      BY <1>0, <3>1, FS_RemoveElement, FS_CardinalityType
  <2>2. Len(queue') >= Capacity /\ Len(queue') \in Nat
    BY <1>0, <1>3 DEF WaitNotFull
  <2> QED
    BY <2>1, <2>2 DEF NoLostWakeup, Awake
\* One slot less, one awake producer less: the one that filled it.
<1>4. ASSUME NEW p \in Producers, Put(p)
      PROVE  NoLostWakeup'
  <2>1. p \in Awake /\ Awake' = Awake \ {p} /\ Waiting' = Waiting
    BY <1>4 DEF Put, Awake, Waiting
  <2>2. Cardinality(Awake') = Cardinality(Awake) - 1
    BY <1>0, <2>1, FS_RemoveElement
  <2>3. Len(queue') = Len(queue) + 1
    BY <1>4, AppendProperties DEF Put, Item
  <2> QED
    BY <1>0, <2>1, <2>2, <2>3 DEF NoLostWakeup
<1>5. ASSUME NEW p \in Producers, SpuriousWakeup(p)
      PROVE  NoLostWakeup'
  <2>1. Waiting' \subseteq Waiting /\ Awake' = Awake \cup {p}
    BY <1>5 DEF SpuriousWakeup, Waiting, Awake
  <2> QED
    BY <1>5, <1>b, <2>1 DEF SpuriousWakeup
<1>6. CASE CallDequeue \/ LockDequeue \/ DequeueEmpty \/ UNCHANGED vars
  <2>1. queue' = queue /\ pc' = pc
    BY <1>6 DEF CallDequeue, LockDequeue, DequeueEmpty, vars
  <2> QED
    BY <1>a, <2>1 DEF Waiting, Awake
\* One slot more; if anybody sleeps, the signal makes one more awake.
<1>7. CASE Take
  <2>1. Len(queue') = Len(queue) - 1
    BY <1>7, HeadTailProperties DEF Take
  <2>2. CASE Waiting = {}
    <3>1. Waiting' = {}
      BY <1>7, <2>2 DEF Take, SignalNotFull, Waiting
    <3> QED
      BY <3>1 DEF NoLostWakeup
  <2>3. CASE Waiting # {}
    <3>1. PICK w \in Waiting : pc' = [pc EXCEPT ![w] = "wake"]
      BY <1>7, <2>3 DEF Take, SignalNotFull
    <3>2. w \notin Awake /\ Awake' = Awake \cup {w}
      BY <3>1 DEF Waiting, Awake
    <3>3. Cardinality(Awake') = Cardinality(Awake) + 1
      BY <1>0, <3>2, FS_AddElement
    <3> QED
      BY <1>0, <2>1, <2>3, <3>3 DEF NoLostWakeup
  <2> QED
    BY <2>2, <2>3
<1> QED
  BY <1>1, <1>2, <1>3, <1>4, <1>5, <1>6, <1>7 DEF Next, ProducerStep, ConsumerStep

(* A sleeping producer is never forgotten beside a free slot, whatever the *)
(* number of producers, the capacity and the interleaving.                 *)
THEOREM NoLostWakeupHolds == Spec => []NoLostWakeup
<1>1. Init => NoLostWakeup
  BY DEF Init, NoLostWakeup, Waiting
<1> QED
  BY <1>1, BaseInvariant, WakeupStep, PTL DEF Spec

-----------------------------------------------------------------------------
(* The items of p among those that have come out or are inside.            *)
Through(p) == Keep(out \o queue, {p} \X Nat)

(* Put appends one item of its producer; Take moves one from one sequence  *)
(* to the other and leaves their concatenation as it was.                  *)
LEMMA ThroughPut ==
    ASSUME BaseInv, NEW q \in Producers, Put(q)
    PROVE  \A p \in Producers :
             Through(p)' = IF p = q THEN Append(Through(p), <<q, next[q]>>) ELSE Through(p)
<1>1. <<q, next[q]>> \in Item
  BY DEF Put, BaseInv, TypeOK, Submitting, Item
<1>2. out \o queue \in Seq(Item)
  BY ConcatProperties DEF BaseInv, TypeOK
<1>3. out' \o queue' = Append(out \o queue, <<q, next[q]>>)
  <2>1. out \in Seq(Item) /\ queue \in Seq(Item)
    BY DEF BaseInv, TypeOK
  <2> HIDE DEF Item
  <2> QED BY <1>1, <2>1 DEF Put
<1>4. ASSUME NEW p \in Producers
      PROVE  Through(p)' = IF p = q THEN Append(Through(p), <<q, next[q]>>) ELSE Through(p)
  <2>1. <<q, next[q]>> \in {p} \X Nat <=> p = q
    BY QueueAssumption DEF BaseInv, TypeOK
  <2> DEFINE S == {p} \X Nat
             e == <<q, next[q]>>
  <2>2. Keep(Append(out \o queue, e), S)
          = IF e \in S THEN Append(Keep(out \o queue, S), e) ELSE Keep(out \o queue, S)
    <3> HIDE DEF S, e
    <3>1. e \in Item
      BY <1>1 DEF e
    <3> QED BY <1>2, <3>1, KeepAppend
  <2> QED BY <1>3, <2>1, <2>2 DEF Through
<1> QED BY <1>4

LEMMA OrderStep == BaseInv /\ ExactlyOnceInOrder /\ [Next]_vars => ExactlyOnceInOrder'
<1> SUFFICES ASSUME BaseInv, ExactlyOnceInOrder, [Next]_vars
             PROVE  ExactlyOnceInOrder'
  OBVIOUS
<1>1. ExactlyOnceInOrder
        <=> \A p \in Producers : Through(p) = [n \in 1 .. next[p] - 1 |-> <<p, n>>]
  BY DEF ExactlyOnceInOrder, Through
<1>2. ExactlyOnceInOrder'
        <=> \A p \in Producers : Through(p)' = [n \in 1 .. next'[p] - 1 |-> <<p, n>>]
  BY DEF ExactlyOnceInOrder, Through
<1>3. ASSUME out' \o queue' = out \o queue, next' = next
      PROVE  ExactlyOnceInOrder'
  BY <1>3 DEF ExactlyOnceInOrder
<1>4. ASSUME NEW q \in Producers, Put(q)
      PROVE  ExactlyOnceInOrder'
  <2>1. /\ \A p \in Producers : next[p] \in Nat \ {0}
        /\ next' = [next EXCEPT ![q] = @ + 1]
        /\ next \in [Producers -> 1 .. Quota + 1]
    BY <1>4, QueueAssumption DEF BaseInv, TypeOK, Put
  <2>2. SUFFICES ASSUME NEW p \in Producers
                 PROVE  Through(p)' = [n \in 1 .. next'[p] - 1 |-> <<p, n>>]
    BY <1>2
  <2>3. Through(p) = [n \in 1 .. next[p] - 1 |-> <<p, n>>]
    BY <1>1
  <2>4. CASE p = q
    <3>1. Through(p)' = Append(Through(p), <<p, next[p]>>)
      BY <1>4, <2>4, ThroughPut
    <3>2. Append([n \in 1 .. next[p] - 1 |-> <<p, n>>], <<p, next[p]>>)
            = [n \in 1 .. next[p] |-> <<p, n>>]
      BY <2>1
    <3>3. next'[p] - 1 = next[p]
      BY <2>1, <2>4
    <3> QED BY <2>3, <3>1, <3>2, <3>3
  <2>5. CASE p # q
    <3>1. Through(p)' = Through(p)
      BY <1>4, <2>5, ThroughPut
    <3>2. next'[p] = next[p]
      BY <2>1, <2>5
    <3> QED BY <2>3, <3>1, <3>2
  <2> QED BY <2>4, <2>5
<1>5. CASE Take
  <2>1. out \in Seq(Item) /\ queue \in Seq(Item) /\ queue # <<>>
    BY <1>5 DEF Take, BaseInv, TypeOK
  <2>2. Append(out, Head(queue)) \o Tail(queue) = out \o queue
    <3> HIDE DEF Item
    <3> QED BY <2>1
  <2> QED BY <1>3, <1>5, <2>2 DEF Take
<1>6. ASSUME NEW p \in Producers,
             CallEnqueue(p) \/ LockEnqueue(p) \/ WaitNotFull(p) \/ SpuriousWakeup(p)
      PROVE  ExactlyOnceInOrder'
  BY <1>3, <1>6 DEF CallEnqueue, LockEnqueue, WaitNotFull, SpuriousWakeup
<1>7. CASE CallDequeue \/ LockDequeue \/ DequeueEmpty \/ UNCHANGED vars
  BY <1>3, <1>7 DEF CallDequeue, LockDequeue, DequeueEmpty, vars
<1> QED
  BY <1>4, <1>5, <1>6, <1>7 DEF Next, ProducerStep, ConsumerStep

(* Whatever the interleaving, nothing is lost, duplicated or reordered     *)
(* between enqueue_event and dequeue_event.                                *)
THEOREM Delivery == Spec => []ExactlyOnceInOrder
<1>1. Init => ExactlyOnceInOrder
  <2> SUFFICES ASSUME Init, NEW p \in Producers
               PROVE  Keep(out \o queue, {p} \X Nat) = [n \in 1 .. next[p] - 1 |-> <<p, n>>]
    BY DEF ExactlyOnceInOrder
  <2>1. out \o queue = <<>>
    BY DEF Init
  <2>2. [n \in 1 .. next[p] - 1 |-> <<p, n>>] = <<>>
    BY DEF Init
  <2> QED BY <2>1, <2>2, KeepEmpty
<1> QED
  BY <1>1, BaseInvariant, OrderStep, PTL DEF Spec

-----------------------------------------------------------------------------
(* The queue with its mutex and condition variable implements the abstract *)
(* FIFO: only Put and Take are visible, every other step is a stutter.     *)
THEOREM ImplementsFifo == Spec => FifoSpec
<1>1. Init => Fifo!AbstractInit
  BY DEF Init, Fifo!AbstractInit
<1>2. BaseInv /\ [Next]_vars => [Fifo!AbstractNext]_Fifo!abstractVars
  <2> USE DEF Fifo!abstractVars
  <2> SUFFICES ASSUME BaseInv, [Next]_vars
               PROVE  [Fifo!AbstractNext]_Fifo!abstractVars
    OBVIOUS
  <2>1. ASSUME NEW p \in Producers, Put(p)
        PROVE  Fifo!AbstractPut(p)
    <3>1. next[p] <= Quota
      BY <2>1 DEF Put, BaseInv, Submitting
    <3> QED
      BY <2>1, <3>1 DEF Put, Fifo!AbstractPut
  <2>2. ASSUME NEW p \in Producers,
               CallEnqueue(p) \/ LockEnqueue(p) \/ WaitNotFull(p) \/ SpuriousWakeup(p)
        PROVE  UNCHANGED <<queue, next, out>>
    BY <2>2 DEF CallEnqueue, LockEnqueue, WaitNotFull, SpuriousWakeup
  <2>3. CASE Take
    BY <2>3 DEF Take, Fifo!AbstractTake, Fifo!AbstractNext
  <2>4. CASE CallDequeue \/ LockDequeue \/ DequeueEmpty \/ UNCHANGED vars
    BY <2>4 DEF CallDequeue, LockDequeue, DequeueEmpty, vars
  <2> QED
    BY <2>1, <2>2, <2>3, <2>4
       DEF Next, ProducerStep, ConsumerStep, Fifo!AbstractNext
<1> QED
  BY <1>1, <1>2, BaseInvariant, PTL DEF Spec, FifoSpec, Fifo!AbstractSpec
=============================================================================

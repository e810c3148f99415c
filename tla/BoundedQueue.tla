----------------------------- MODULE BoundedQueue -----------------------------
(***************************************************************************)
(* The blocking queue of server/events.c (EventQueue and ActionQueue),     *)
(* repeated in client/input.c as ServerInputQueue: a mutex, one condition  *)
(* variable not_full, producers that sleep while the array is full, one    *)
(* consumer that polls and never sleeps.                                   *)
(*                                                                         *)
(* Steps are those another thread can see: calling, getting the mutex,     *)
(* going to sleep (which releases it), leaving it with the array changed,  *)
(* being signalled.  Everything done while the mutex is held and before it *)
(* is released is one step, since no other thread reads the queue then.    *)
(***************************************************************************)
EXTENDS Naturals, Sequences, FiniteSets, Selection

CONSTANTS Producers,  \* the threads that enqueue
          Consumer,   \* the only thread that dequeues
          NoThread,   \* owner of a free mutex
          Capacity,   \* MAX_EVENTS, MAX_ACTIONS, MAX_MESSAGES
          Quota       \* items each producer submits (a bound)

ASSUME QueueAssumption ==
    /\ IsFiniteSet(Producers)
    /\ Consumer \notin Producers
    /\ NoThread \notin Producers \cup {Consumer}
    /\ Capacity \in Nat \ {0}
    /\ Quota \in Nat

VARIABLES queue,      \* q->events[0 .. q->count-1]
          owner,      \* the thread holding q->lock
          pc,         \* where each producer is in enqueue_event
          cpc,        \* where the consumer is in dequeue_event
          next,       \* next[p]: the number of the item p submits next
          out         \* what dequeue_event has handed out

vars == <<queue, owner, pc, cpc, next, out>>

Item    == Producers \X (1..Quota)
Waiting == {p \in Producers : pc[p] = "wait"}
Awake   == {p \in Producers : pc[p] \in {"wake", "loop"}}

-----------------------------------------------------------------------------
Init ==
    /\ queue = <<>>
    /\ owner = NoThread
    /\ pc    = [p \in Producers |-> "idle"]
    /\ cpc   = "away"
    /\ next  = [p \in Producers |-> 1]
    /\ out   = <<>>

(* A producer calls enqueue_event with its next item.                      *)
CallEnqueue(p) ==
    /\ pc[p] = "idle"
    /\ next[p] <= Quota
    /\ pc' = [pc EXCEPT ![p] = "enter"]
    /\ UNCHANGED <<queue, owner, cpc, next, out>>

\* Mutant: pthread_cond_wait returns without taking the mutex back.
LockUnchecked(p) ==
    /\ pc[p] = "wake" \/ (pc[p] = "enter" /\ owner = NoThread)
    /\ owner' = p
    /\ pc' = [pc EXCEPT ![p] = "loop"]
    /\ UNCHANGED <<queue, cpc, next, out>>

\* Mutant: if in place of while, a woken sleeper stores without a new test.
LockThenStore(p) ==
    /\ owner = NoThread
    /\ \/ /\ pc[p] = "enter"
          /\ owner' = p
          /\ pc' = [pc EXCEPT ![p] = "loop"]
          /\ UNCHANGED <<queue, next>>
       \/ /\ pc[p] = "wake"
          /\ queue' = Append(queue, <<p, next[p]>>)
          /\ next'  = [next EXCEPT ![p] = @ + 1]
          /\ pc'    = [pc EXCEPT ![p] = "idle"]
          /\ UNCHANGED owner
    /\ UNCHANGED <<cpc, out>>

(* pthread_mutex_lock on entry, or the re-acquisition inside               *)
(* pthread_cond_wait: a woken sleeper competes like any newcomer.          *)
LockEnqueue(p) ==
    /\ pc[p] \in {"enter", "wake"}
    /\ owner = NoThread
    /\ owner' = p
    /\ pc' = [pc EXCEPT ![p] = "loop"]
    /\ UNCHANGED <<queue, cpc, next, out>>

(* The while test succeeds: pthread_cond_wait sleeps and frees the mutex.  *)
WaitNotFull(p) ==
    /\ pc[p] = "loop"
    /\ Len(queue) >= Capacity
    /\ owner' = NoThread
    /\ pc' = [pc EXCEPT ![p] = "wait"]
    /\ UNCHANGED <<queue, cpc, next, out>>

\* Mutant: events[++count] = ev, which counts a slot nobody has written.
PutPreIncrement(p) ==
    /\ pc[p] = "loop"
    /\ Len(queue) < Capacity
    /\ queue' = Append(queue, <<p, 0>>)
    /\ next'  = [next EXCEPT ![p] = @ + 1]
    /\ owner' = NoThread
    /\ pc'    = [pc EXCEPT ![p] = "idle"]
    /\ UNCHANGED <<cpc, out>>

(* The while test fails: store, count++, unlock.                           *)
Put(p) ==
    /\ pc[p] = "loop"
    /\ Len(queue) < Capacity
    /\ queue' = Append(queue, <<p, next[p]>>)
    /\ next'  = [next EXCEPT ![p] = @ + 1]
    /\ owner' = NoThread
    /\ pc'    = [pc EXCEPT ![p] = "idle"]
    /\ UNCHANGED <<cpc, out>>

(* POSIX lets pthread_cond_wait return without a signal.                   *)
SpuriousWakeup(p) ==
    /\ pc[p] = "wait"
    /\ pc' = [pc EXCEPT ![p] = "wake"]
    /\ UNCHANGED <<queue, owner, cpc, next, out>>

\* Mutant: signal only when the array was full.
SignalIfWasFull ==
    IF Waiting = {} \/ Len(queue) < Capacity
    THEN UNCHANGED pc
    ELSE \E w \in Waiting : pc' = [pc EXCEPT ![w] = "wake"]

\* Mutant: no signal at all.
NoSignal == UNCHANGED pc

(* pthread_cond_signal wakes one sleeper, whichever, or is lost on none.   *)
SignalNotFull ==
    IF Waiting = {}
    THEN UNCHANGED pc
    ELSE \E w \in Waiting : pc' = [pc EXCEPT ![w] = "wake"]

(* The consumer starts a drain: while (dequeue_event(...)).                *)
CallDequeue ==
    /\ cpc = "away"
    /\ cpc' = "enter"
    /\ UNCHANGED <<queue, owner, pc, next, out>>

LockDequeue ==
    /\ cpc = "enter"
    /\ owner = NoThread
    /\ owner' = Consumer
    /\ cpc' = "in"
    /\ UNCHANGED <<queue, pc, next, out>>

(* count == 0: unlock and return false, which ends the drain.              *)
DequeueEmpty ==
    /\ cpc = "in"
    /\ queue = <<>>
    /\ owner' = NoThread
    /\ cpc' = "away"
    /\ UNCHANGED <<queue, pc, next, out>>

\* Mutant: count-- without the shift.
TakeWithoutShift ==
    /\ cpc = "in"
    /\ queue # <<>>
    /\ out'   = Append(out, Head(queue))
    /\ queue' = SubSeq(queue, 1, Len(queue) - 1)
    /\ SignalNotFull
    /\ owner' = NoThread
    /\ cpc'   = "enter"
    /\ UNCHANGED next

(* Copy events[0], shift the rest, signal, unlock; the drain goes on.      *)
Take ==
    /\ cpc = "in"
    /\ queue # <<>>
    /\ out'   = Append(out, Head(queue))
    /\ queue' = Tail(queue)
    /\ SignalNotFull
    /\ owner' = NoThread
    /\ cpc'   = "enter"
    /\ UNCHANGED next

ProducerStep(p) ==
    \/ CallEnqueue(p)
    \/ LockEnqueue(p)
    \/ WaitNotFull(p)
    \/ Put(p)

ConsumerStep == CallDequeue \/ LockDequeue \/ DequeueEmpty \/ Take

Next ==
    \/ ConsumerStep
    \/ \E p \in Producers : ProducerStep(p) \/ SpuriousWakeup(p)

Spec == Init /\ [][Next]_vars

(* Threads are scheduled (weak fairness of the steps a thread can take by  *)
(* itself).  The mutex is free again and again, because its holders never  *)
(* block and the consumer sleeps a frame (game.c, 66 ms) or 100 ms         *)
(* (server.c, worker) between two drains: strong fairness of getting it.   *)
Fairness ==
    /\ WF_vars(CallDequeue) /\ WF_vars(DequeueEmpty) /\ WF_vars(Take)
    /\ SF_vars(LockDequeue)
    /\ \A p \in Producers :
          /\ WF_vars(CallEnqueue(p) \/ WaitNotFull(p) \/ Put(p))
          /\ SF_vars(LockEnqueue(p))

FairSpec == Spec /\ Fairness

-----------------------------------------------------------------------------
(* Every variable has a value of its type.                                 *)
TypeOK ==
    /\ queue \in Seq(Item)
    /\ owner \in Producers \cup {Consumer, NoThread}
    /\ pc \in [Producers -> {"idle", "enter", "loop", "wait", "wake"}]
    /\ cpc \in {"away", "enter", "in"}
    /\ next \in [Producers -> 1 .. Quota + 1]
    /\ out \in Seq(Item)

(* A producer inside enqueue_event still has its item to put in.           *)
Submitting == \A p \in Producers : pc[p] # "idle" => next[p] <= Quota

(* The thread inside the critical section is the one that holds q->lock,   *)
(* so no two threads shift or append to the array at once.                 *)
MutualExclusion ==
    /\ \A p \in Producers : pc[p] = "loop" <=> owner = p
    /\ cpc = "in" <=> owner = Consumer

(* The array of MAX_EVENTS elements is never written past its end, however *)
(* wakeups, newcomers and spurious returns of pthread_cond_wait interleave.*)
Bounded == Len(queue) <= Capacity

(* No wakeup is lost: while some producer sleeps, every free slot is       *)
(* matched by a producer that has been woken or is already inside, on its  *)
(* way to fill it.  One signal per dequeue is therefore enough.            *)
NoLostWakeup ==
    Waiting # {} =>
        Capacity - Len(queue) <= Cardinality(Awake)

(* Nothing is lost, duplicated or reordered: what came out followed by     *)
(* what is inside holds every submitted item of each producer once, in the *)
(* order that producer submitted them.                                     *)
ExactlyOnceInOrder ==
    \A p \in Producers :
        Keep(out \o queue, {p} \X Nat)
            = [n \in 1 .. next[p] - 1 |-> <<p, n>>]

(* Every thread that wants to enqueue gets its items in and they all come  *)
(* out: no producer sleeps for ever beside a consumer that keeps draining. *)
AllDelivered ==
    <>[](/\ \A p \in Producers : next[p] = Quota + 1 /\ pc[p] = "idle"
         /\ queue = <<>>)

(* The detailed queue behaves like the abstract one.                       *)
Fifo == INSTANCE FifoQueue WITH chan <- queue
FifoSpec == Fifo!AbstractSpec
=============================================================================

------------------------------ MODULE FifoQueue ------------------------------
(***************************************************************************)
(* What Serpent's queues promise to the threads that share them (README:   *)
(* "thread-safe queues", "Retrieves and removes the first key in FIFO      *)
(* order", "the calling thread blocks until space becomes available").     *)
(*                                                                         *)
(* One bounded channel, many producers.  Producer p submits the items      *)
(* <<p, 1>>, <<p, 2>>, ... up to its quota; putting an item in and taking  *)
(* one out are single steps.                                               *)
(***************************************************************************)
EXTENDS Naturals, Sequences

CONSTANTS Producers,  \* the threads that enqueue
          Capacity,   \* MAX_EVENTS, MAX_ACTIONS or MAX_MESSAGES
          Quota       \* how many items each producer submits (a bound)

VARIABLES chan,       \* the items inside
          next,       \* next[p]: the number of the item p submits next
          out         \* every item taken so far, oldest first

abstractVars == <<chan, next, out>>

AbstractInit ==
    /\ chan = <<>>
    /\ next = [p \in Producers |-> 1]
    /\ out  = <<>>

AbstractPut(p) ==
    /\ next[p] <= Quota
    /\ Len(chan) < Capacity
    /\ chan' = Append(chan, <<p, next[p]>>)
    /\ next' = [next EXCEPT ![p] = @ + 1]
    /\ UNCHANGED out

AbstractTake ==
    /\ chan # <<>>
    /\ out'  = Append(out, Head(chan))
    /\ chan' = Tail(chan)
    /\ UNCHANGED next

AbstractNext == AbstractTake \/ \E p \in Producers : AbstractPut(p)

AbstractSpec == AbstractInit /\ [][AbstractNext]_abstractVars
=============================================================================

---------------------------- MODULE MCBoundedQueue ----------------------------
(* Small instances of BoundedQueue: the producers stand for the threads    *)
(* that share one queue, the capacity is far below their number so that    *)
(* the array fills, several producers sleep at once and newcomers overtake *)
(* woken sleepers.                                                         *)
EXTENDS BoundedQueue, TLC

Perms == Permutations(Producers)
=============================================================================

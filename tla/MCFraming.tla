------------------------------- MODULE MCFraming -------------------------------
(* A header of two units can be cut in two and a buffer of five takes no   *)
(* state whole.  One state has one snake, one fruit and no obstacle and    *)
(* comes from a game without a time limit, the other has two of each, an   *)
(* eaten fruit among them.                                                 *)
EXTENDS Wire

Plain(t) == [type |-> t]
State(score, remaining, snakes, fruits, obstacles) ==
    [type |-> "state",
     state |-> [width |-> 5, height |-> 3, score |-> score, elapsed |-> 2,
                remaining |-> remaining, snakes |-> snakes, fruits |-> fruits,
                obstacles |-> obstacles]]

Short  == <<<<2, 1>>, <<1, 1>>, <<0, 1>>>>
Long   == <<<<3, 2>>, <<2, 2>>, <<1, 2>>, <<1, 2>>>>
Fresh  == [pos |-> <<3, 1>>, active |-> TRUE]
Eaten  == [pos |-> <<2, 1>>, active |-> FALSE]

OneSender  ==
    [worker |-> <<Plain("ready"),
                  State(0, -1, <<Short>>, <<Fresh>>, <<>>),
                  State(1, 7, <<Long, Short>>, <<Eaten, Fresh>>, <<<<4, 1>>, <<0, 2>>>>),
                  Plain("over")>>]
TwoSenders == [worker |-> <<State(0, -1, <<Short>>, <<Fresh>>, <<>>)>>, main |-> <<Plain("over")>>]

Sizes == [s \in Senders |-> [n \in DOMAIN Messages[s] |-> SizeOf(Messages[s][n])]]
=============================================================================

------------------------------- MODULE MCServer -------------------------------
(* Small instances of Server: two or three connections are enough for a    *)
(* descriptor to be closed, given out again and confused with its former   *)
(* owner.                                                                  *)
EXTENDS Server, TLC

Standard     == {[single |-> FALSE, timed |-> FALSE]}
TimedForOne  == {[single |-> TRUE, timed |-> TRUE]}
TimedForMany == {[single |-> FALSE, timed |-> TRUE]}
EveryKind    == [single : BOOLEAN, timed : BOOLEAN]

Perms == Permutations(Conn)
=============================================================================

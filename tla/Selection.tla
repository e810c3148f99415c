------------------------------- MODULE Selection -------------------------------
(***************************************************************************)
(* Taking elements out of an array and closing the gaps, as the loops of   *)
(* the server's C code do.  SelectSeq of the standard module by another    *)
(* definition: the test is a set, so that SelectionProofs can state facts  *)
(* about it that the provers can use.                                      *)
(***************************************************************************)
EXTENDS Naturals, Sequences

(* The elements of s that are in S, in the order they have in s.           *)
Keep(s, S) ==
    LET kept[n \in 0 .. Len(s)] ==
            IF n = 0 THEN <<>>
            ELSE IF s[n] \in S THEN Append(kept[n - 1], s[n]) ELSE kept[n - 1]
    IN  kept[Len(s)]
=============================================================================

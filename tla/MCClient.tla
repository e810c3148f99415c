------------------------------ MODULE MCClient ------------------------------
(* Instances of Client for TLC.  A key queue of one drops keys and is      *)
(* flushed as one of sixteen; a message queue that holds all the servers   *)
(* say never fills, as 1024 entries do not between two turns of main.      *)
EXTENDS Client
=============================================================================

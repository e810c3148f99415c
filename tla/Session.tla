-------------------------------- MODULE Session --------------------------------
(***************************************************************************)
(* What the server promises to say to each client, whatever else goes on:  *)
(* MSG_READY once, when it has joined; MSG_STATE while it plays;           *)
(* MSG_GAME_OVER when its snake dies, and nothing about the game after     *)
(* that; the end of the connection whenever it takes its leave.  What is   *)
(* asked for is done in the order asked, none of it left out, and nothing  *)
(* new once the server is down.                                            *)
(*                                                                         *)
(* The client is the descriptor of its socket, and the promise holds for   *)
(* as long as the descriptor has had one receiving thread: what is said to *)
(* it once two clients have been confused is anybody's guess.              *)
(***************************************************************************)
EXTENDS Sequences

CONSTANT Id      \* the descriptor

VARIABLES
    stage,       \* "new", "playing" or "over"
    pending,     \* what has been asked for and not yet been done
    crossed,     \* two threads have served the descriptor
    down         \* the game is over for everybody

sessionVars == <<stage, pending, crossed, down>>

SessionInit == stage = "new" /\ pending = <<>> /\ ~crossed /\ ~down

Say(m) == pending' = Append(pending, [type |-> m, id |-> Id])

Welcome == stage = "new"     /\ stage' = "playing" /\ Say("send_ready")
Show    == stage = "playing" /\ stage' = "playing" /\ Say("send_state")
Finish  == stage = "playing" /\ stage' = "over"    /\ Say("send_over")
Part    == stage # "new"     /\ stage' = "over"    /\ Say("unregister")

(* What was asked for first is done first.                                 *)
Do == pending # <<>> /\ pending' = Tail(pending) /\ UNCHANGED stage

GoDown == ~down /\ down' /\ UNCHANGED pending /\ stage' = "over"

SessionNext ==
    \/ crossed'
    \/ ~crossed /\ ~down /\ ~down' /\ (Welcome \/ Show \/ Finish \/ Part)
    \/ ~crossed /\ UNCHANGED down /\ Do
    \/ ~crossed /\ GoDown

SessionStep == UNCHANGED sessionVars \/ SessionNext

SessionSpec == SessionInit /\ [][SessionNext]_sessionVars
=============================================================================

------------------------------- MODULE Players -------------------------------
(***************************************************************************)
(* The array GameState.players of server/game.c as far as joining,         *)
(* leaving, pausing and resuming are concerned (the snakes are in Game).   *)
(* A player is found by its id, the descriptor of its socket, and every    *)
(* lookup of the code stops at the first match.                            *)
(*                                                                         *)
(* paused  - the snake stands still                                        *)
(* pending - resume_ev_pending: a RESUME has yet to come, so a wake-up     *)
(*           that arrives now is left over from an earlier pause           *)
(***************************************************************************)
EXTENDS Naturals, Sequences, SequencesExt

(* The index of the first player called id, 0 when there is none.          *)
PlayerIndex(ps, id) == SelectInSeq(ps, LAMBDA p : p.id = id)

(* conn is not in the code: it records whose EV_CONNECTED made the player. *)
NewPlayer(id, conn) ==
    [id |-> id, conn |-> conn, paused |-> FALSE, pending |-> FALSE]

AddPlayer(ps, id, conn) == Append(ps, NewPlayer(id, conn))

RemovePlayer(ps, id) == RemoveFirstMatch(ps, LAMBDA p : p.id = id)

(* One after the other, in the order of ids.                               *)
RemovePlayers(ps, ids) ==
    LET left[n \in 0 .. Len(ids)] ==
            IF n = 0 THEN ps ELSE RemovePlayer(left[n - 1], ids[n])
    IN  left[Len(ids)]

PausePlayer(ps, id) ==
    LET i == PlayerIndex(ps, id)
    IN  IF i = 0 THEN ps
        ELSE [ps EXCEPT ![i].paused = TRUE, ![i].pending = TRUE]

ScheduleResume(ps, id) ==
    LET i == PlayerIndex(ps, id)
    IN  IF i = 0 THEN ps ELSE [ps EXCEPT ![i].pending = FALSE]

(* The only lookup with a second condition: the first player called id     *)
(* that does not await a RESUME.                                           *)
ResumePlayer(ps, id) ==
    LET i == SelectInSeq(ps, LAMBDA p : p.id = id /\ ~p.pending)
    IN  IF i = 0 THEN ps ELSE [ps EXCEPT ![i].paused = FALSE]
=============================================================================

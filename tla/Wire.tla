---------------------------------- MODULE Wire ----------------------------------
(***************************************************************************)
(* What the bytes of a MSG_STATE stand for (common/protocol.c): send_state *)
(* works out a size, lays the snapshot out in a buffer of that size and    *)
(* sends it; msg_to_state finds every array by the counts and lengths it   *)
(* reads on the way.  Composed with Framing, which carries the payloads:   *)
(* a unit of a payload is one uint32_t there.                              *)
(*                                                                         *)
(* A state is the ClientGameStateSnapshot of game_broadcast_snapshot; any  *)
(* other message has no payload.  Padding after a fruit's flag is part of  *)
(* the flag's word.                                                        *)
(***************************************************************************)
EXTENDS Framing

CONSTANTS Messages,  \* Messages[s]: what s sends, in turn
          WordRange  \* 2^32, the values of a uint32_t

ASSUME WireAssumption ==
    /\ WordRange \in Nat /\ WordRange > 1 /\ WordRange % 2 = 0
    /\ DOMAIN Messages = Senders

Words == 0 .. WordRange - 1
Ints  == -(WordRange \div 2) .. (WordRange \div 2) - 1

Word(n) == n % WordRange
Int32(w) == IF w < WordRange \div 2 THEN w ELSE w - WordRange

(* ClientGameStateSnapshot, its counts those of the arrays.                *)
Pos   == Ints \X Ints
Fruit == [pos : Pos, active : BOOLEAN]
Array(S) == {q \in Seq(S) : Len(q) \in Words}
Snapshot ==
    [width : Ints, height : Ints, score : Words, elapsed : Ints, remaining : Ints,
     snakes : Array(Array(Pos)), fruits : Array(Fruit), obstacles : Array(Pos)]

-----------------------------------------------------------------------------
(* send_state                                                              *)

PosWords(pos)   == <<Word(pos[1]), Word(pos[2])>>
FruitWords(f)   == PosWords(f.pos) \o <<IF f.active THEN 1 ELSE 0>>
BodyWords(b)    == FlattenSeq([k \in DOMAIN b |-> PosWords(b[k])])
SnakeWords(b)   == <<Word(Len(b))>> \o BodyWords(b)
HeaderWords(st) ==
    <<Word(st.width), Word(st.height), Word(st.score), Word(st.elapsed), Word(st.remaining),
      Word(Len(st.snakes)), Word(Len(st.fruits)), Word(Len(st.obstacles))>>

(* What is copied into the buffer, one array after the other.              *)
Written(st) ==
    HeaderWords(st)
    \o FlattenSeq([k \in DOMAIN st.snakes    |-> SnakeWords(st.snakes[k])])
    \o FlattenSeq([k \in DOMAIN st.fruits    |-> FruitWords(st.fruits[k])])
    \o FlattenSeq([k \in DOMAIN st.obstacles |-> PosWords(st.obstacles[k])])

\* Mutant: the lengths of the snakes are forgotten.
PayloadSizeNoLengths(st) ==
    LET size[n \in 0 .. Len(st.snakes)] ==
            IF n = 0 THEN 8 ELSE size[n - 1] + 2 * Len(st.snakes[n])
    IN  size[Len(st.snakes)] + 3 * Len(st.fruits) + 2 * Len(st.obstacles)

(* payload_size is worked out beforehand.                                  *)
PayloadSize(st) ==
    LET size[n \in 0 .. Len(st.snakes)] ==
            IF n = 0 THEN 8 ELSE size[n - 1] + 1 + 2 * Len(st.snakes[n])
    IN  size[Len(st.snakes)] + 3 * Len(st.fruits) + 2 * Len(st.obstacles)

SizeOf(m) == IF m.type = "state" THEN PayloadSize(m.state) ELSE 0

(* What s sends is messages with a payload of that size.                   *)
ASSUME MessageAssumption ==
    \A s \in Senders :
       /\ Payload[s] = [n \in DOMAIN Messages[s] |-> SizeOf(Messages[s][n])]
       /\ \A n \in DOMAIN Messages[s] :
            Messages[s][n].type = "state" => Messages[s][n].state \in Snapshot

(* calloc: what is not written is zero.                                    *)
Buffer(st) ==
    [k \in 1 .. PayloadSize(st) |-> IF k <= Len(Written(st)) THEN Written(st)[k] ELSE 0]

-----------------------------------------------------------------------------
(* msg_to_state.  A word past the end of the payload reads as zero, which  *)
(* stands for whatever the heap holds there.                               *)

WordAt(p, k) == IF k \in DOMAIN p THEN p[k] ELSE 0
PosAt(p, k)  == <<Int32(WordAt(p, k)), Int32(WordAt(p, k + 1))>>
FruitAt(p, k) == [pos |-> PosAt(p, k), active |-> WordAt(p, k + 2) # 0]

(* Where each snake begins, and where the last of them ends.               *)
SnakesAt(p) ==
    LET at[n \in 1 .. WordAt(p, 6) + 1] ==
            IF n = 1 THEN 9 ELSE at[n - 1] + 1 + 2 * WordAt(p, at[n - 1])
    IN  at

Parsed(p) ==
    LET at          == SnakesAt(p)
        fruitsAt    == at[WordAt(p, 6) + 1]
        obstaclesAt == fruitsAt + 3 * WordAt(p, 7)
    IN  [width     |-> Int32(WordAt(p, 1)), height |-> Int32(WordAt(p, 2)),
         score     |-> WordAt(p, 3),
         elapsed   |-> Int32(WordAt(p, 4)), remaining |-> Int32(WordAt(p, 5)),
         snakes    |-> [n \in 1 .. WordAt(p, 6) |->
                          [k \in 1 .. WordAt(p, at[n]) |-> PosAt(p, at[n] + 2 * k - 1)]],
         fruits    |-> [n \in 1 .. WordAt(p, 7) |-> FruitAt(p, fruitsAt + 3 * (n - 1))],
         obstacles |-> [n \in 1 .. WordAt(p, 8) |-> PosAt(p, obstaclesAt + 2 * (n - 1))]]

-----------------------------------------------------------------------------
(* The words in a frame's payload: each byte as its sender's message has it*)
PayloadOf(frame) ==
    [k \in 1 .. Len(frame) - HeaderSize |->
        LET b == frame[HeaderSize + k]
            m == Messages[b[1]][b[2]]
        IN  IF b[3] > HeaderSize /\ m.type = "state"
            THEN Buffer(m.state)[b[3] - HeaderSize] ELSE 0]

(* The state a client draws after a frame is the snapshot the server took: *)
(* sizes, counts, arrays, offsets and signs of the two sides agree, however*)
(* the stream was cut, with any number of snakes, fruits and obstacles and *)
(* with the -1 of a game without a time limit.                             *)
StatesAsSent ==
    \A k \in DOMAIN frames :
       LET m == Messages[frames[k][1][1]][frames[k][1][2]]
       IN  m.type = "state" => Parsed(PayloadOf(frames[k])) = m.state
=============================================================================

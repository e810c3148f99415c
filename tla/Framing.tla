-------------------------------- MODULE Framing --------------------------------
(***************************************************************************)
(* Messages over the byte stream of one socket (common/protocol.c):        *)
(* send_message sends a header and then a payload, each by as many send()  *)
(* calls as it takes; recv_message reads a header, believes the length it  *)
(* finds in it, and reads that many bytes more.                            *)
(*                                                                         *)
(* A byte is named after its sender, its message and its place there.  The *)
(* kernel's buffer is external: it takes some of the bytes it is offered   *)
(* and gives some of those it holds.                                       *)
(***************************************************************************)
EXTENDS Integers, Sequences, FiniteSets, SequencesExt, Selection

CONSTANTS Senders,    \* the threads that send on this descriptor
          Payload,    \* Payload[s]: the payload sizes of what s sends, in turn
          HeaderSize, \* sizeof(MsgHeader)
          Room        \* the size of the socket's buffer

ASSUME FramingAssumption ==
    /\ IsFiniteSet(Senders)
    /\ DOMAIN Payload = Senders /\ \A s \in Senders : Payload[s] \in Seq(Nat)
    /\ HeaderSize \in Nat \ {0} /\ Room \in Nat \ {0}

VARIABLES
    tx,      \* tx[s]: the message s is at and how many of its bytes are sent
    stream,  \* the bytes in the socket
    part,    \* what recv_message is reading, "header" or "payload"
    need,    \* how many of its bytes are still missing
    got,     \* what has been read of the present frame
    frames,  \* the frames recv_message has returned
    open     \* the receiver has its end of the socket open

vars == <<tx, stream, part, need, got, frames, open>>

(* The bytes of the n-th message of s.                                     *)
Frame(s, n) == [k \in 1 .. HeaderSize + Payload[s][n] |-> <<s, n, k>>]
Sent(s) == tx[s].msg > Len(Payload[s])

Init ==
    /\ tx = [s \in Senders |-> [msg |-> 1, sent |-> 0]]
    /\ stream = <<>>
    /\ part = "header" /\ need = HeaderSize /\ got = <<>> /\ frames = <<>>
    /\ open = TRUE

-----------------------------------------------------------------------------
(* send_message: one send_all for the header, one for the payload.         *)

SendAllEnd(s) ==
    IF tx[s].sent < HeaderSize THEN HeaderSize ELSE HeaderSize + Payload[s][tx[s].msg]

\* Mutant: a partial send counts as a complete one.
SendOnce(s) ==
    /\ ~Sent(s) /\ open /\ tx[s].sent < SendAllEnd(s)
    /\ \E n \in 1 .. SendAllEnd(s) - tx[s].sent :
         /\ Len(stream) + n <= Room
         /\ stream' = stream \o SubSeq(Frame(s, tx[s].msg), tx[s].sent + 1, tx[s].sent + n)
         /\ tx' = [tx EXCEPT ![s].sent = SendAllEnd(s)]
    /\ UNCHANGED <<part, need, got, frames, open>>

(* One send() of send_all's loop: some of the rest, as there is room.      *)
Send(s) ==
    /\ ~Sent(s) /\ open /\ tx[s].sent < SendAllEnd(s)
    /\ \E n \in 1 .. SendAllEnd(s) - tx[s].sent :
         /\ Len(stream) + n <= Room
         /\ stream' = stream \o SubSeq(Frame(s, tx[s].msg), tx[s].sent + 1, tx[s].sent + n)
         /\ tx' = [tx EXCEPT ![s].sent = @ + n]
    /\ UNCHANGED <<part, need, got, frames, open>>

(* All of it is sent, or send() fails and the rest is given up; either way *)
(* the caller goes on with its next message.                               *)
SendReturns(s) ==
    /\ ~Sent(s)
    /\ ~open \/ tx[s].sent = HeaderSize + Payload[s][tx[s].msg]
    /\ tx' = [tx EXCEPT ![s] = [msg |-> @.msg + 1, sent |-> 0]]
    /\ UNCHANGED <<stream, part, need, got, frames, open>>

-----------------------------------------------------------------------------
(* recv_message.                                                           *)

\* Mutant: asks for more than the rest.
RecvGreedy ==
    /\ open /\ need > 0
    /\ \E n \in 1 .. Len(stream) :
         /\ got' = got \o SubSeq(stream, 1, n)
         /\ stream' = SubSeq(stream, n + 1, Len(stream))
         /\ need' = need - n
    /\ UNCHANGED <<tx, part, frames, open>>

(* One recv() of recv_all's loop.                                          *)
Recv ==
    /\ open
    /\ \E n \in 1 .. need :
         /\ n <= Len(stream)
         /\ got' = got \o SubSeq(stream, 1, n)
         /\ stream' = SubSeq(stream, n + 1, Len(stream))
         /\ need' = need - n
    /\ UNCHANGED <<tx, part, frames, open>>

(* The length a header stands for; other bytes in its place stand for any. *)
Lengths(h) ==
    {Payload[b[1]][b[2]] : b \in
        {x \in ToSet(h) : h = SubSeq(Frame(x[1], x[2]), 1, HeaderSize)}}
AnyLength == {0} \cup UNION {ToSet(Payload[s]) : s \in Senders}

HeaderRead ==
    /\ open /\ part = "header" /\ need = 0
    /\ need' \in IF Lengths(got) # {} THEN Lengths(got) ELSE AnyLength
    /\ part' = "payload"
    /\ UNCHANGED <<tx, stream, got, frames, open>>

FrameRead ==
    /\ open /\ part = "payload" /\ need = 0
    /\ frames' = Append(frames, got)
    /\ part' = "header" /\ need' = HeaderSize /\ got' = <<>>
    /\ UNCHANGED <<tx, stream, open>>

(* disconnect_from_server, or the death of the client.                     *)
Close ==
    /\ open /\ open' = FALSE
    /\ stream' = <<>>
    /\ UNCHANGED <<tx, part, need, got, frames>>

(* Everything has been sent, and has arrived unless the receiver has gone: *)
(* a receiver left waiting for bytes that never come is a deadlock.        *)
Terminated ==
    /\ \A s \in Senders : Sent(s)
    /\ open => stream = <<>> /\ got = <<>>
    /\ UNCHANGED vars

Next ==
    \/ \E s \in Senders : Send(s) \/ SendReturns(s)
    \/ Recv \/ HeaderRead \/ FrameRead \/ Close
    \/ Terminated

Spec == Init /\ [][Next]_vars

-----------------------------------------------------------------------------
TypeOK ==
    /\ \A s \in Senders : /\ tx[s].msg \in 1 .. Len(Payload[s]) + 1
                          /\ tx[s].sent \in Nat
                          /\ ~Sent(s) => tx[s].sent <= HeaderSize + Payload[s][tx[s].msg]
    /\ Len(stream) <= Room
    /\ part \in {"header", "payload"} /\ need \in Nat /\ open \in BOOLEAN

(* Framing (README: "To ensure correct message framing over the byte       *)
(* stream, each message is prefixed with a fixed-size header"): however    *)
(* send and recv cut the stream up, recv_message returns every thread's    *)
(* messages whole and in the order they were sent.                         *)
FramesAsSent ==
    /\ \A k \in DOMAIN frames : frames[k] = Frame(frames[k][1][1], frames[k][1][2])
    /\ \A s \in Senders :
         LET mine == Keep(frames, {f \in ToSet(frames) : f[1][1] = s})
         IN  mine = [k \in 1 .. Len(mine) |-> Frame(s, k)]
=============================================================================

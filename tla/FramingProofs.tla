---------------------------- MODULE FramingProofs ----------------------------
(***************************************************************************)
(* Framing for every payload size and every buffer: its types with any     *)
(* number of senders, and with one sender that recv_message returns the    *)
(* messages whole and in order.  (With two it does not: see v_framing.)    *)
(* Then Wire: that msg_to_state undoes send_state, for every snapshot      *)
(* whose numbers fit in their words, and with it that one sender's states  *)
(* are drawn as they were taken.                                           *)
(***************************************************************************)
EXTENDS Wire, SelectionProofs

(* The bytes there are.                                                    *)
Byte == {b \in Senders \X Nat \X Nat : b[2] \in 1 .. Len(Payload[b[1]])}
Size(s, n) == HeaderSize + Payload[s][n]
Sending == [msg : Nat, sent : Nat]

SendersInv ==
    /\ tx \in [Senders -> Sending]
    /\ \A s \in Senders :
         /\ tx[s].msg \in 1 .. Len(Payload[s]) + 1
         /\ ~Sent(s) => tx[s].sent <= Size(s, tx[s].msg)

BytesInv ==
    /\ stream \in Seq(Byte) /\ Len(stream) <= Room
    /\ got \in Seq(Byte) /\ frames \in Seq(Seq(Byte))
    /\ part \in {"header", "payload"} /\ need \in Nat /\ open \in BOOLEAN

TypeInv == SendersInv /\ BytesInv

-----------------------------------------------------------------------------
LEMMA Payloads ==
    ASSUME NEW s \in Senders, NEW n \in 1 .. Len(Payload[s])
    PROVE  /\ HeaderSize \in Nat /\ HeaderSize > 0 /\ n \in Nat
           /\ Payload[s][n] \in Nat /\ Size(s, n) \in Nat /\ Size(s, n) >= HeaderSize
<1>1. Payload[s] \in Seq(Nat) /\ HeaderSize \in Nat \ {0}
  BY FramingAssumption
<1>2. Payload[s][n] \in Nat /\ n \in Nat
  BY <1>1
<1> QED BY <1>1, <1>2 DEF Size

LEMMA FrameBytes ==
    ASSUME NEW s \in Senders, NEW n \in 1 .. Len(Payload[s])
    PROVE  /\ Frame(s, n) \in Seq(Byte) /\ Len(Frame(s, n)) = Size(s, n)
           /\ \A k \in 1 .. Size(s, n) : Frame(s, n)[k] = <<s, n, k>>
<1>1. Size(s, n) \in Nat /\ n \in Nat
  BY Payloads
<1>2. Frame(s, n) = [k \in 1 .. Size(s, n) |-> <<s, n, k>>]
  BY DEF Frame, Size
<1>3. \A k \in 1 .. Size(s, n) : <<s, n, k>> \in Byte
  BY <1>1 DEF Byte
<1> HIDE DEF Size
<1> QED BY <1>1, <1>2, <1>3

(* A piece of a sequence.                                                  *)
LEMMA Piece ==
    ASSUME NEW U, NEW q \in Seq(U), NEW k \in Nat, NEW n \in Nat, k + n <= Len(q)
    PROVE  /\ SubSeq(q, k + 1, k + n) \in Seq(U) /\ Len(SubSeq(q, k + 1, k + n)) = n
           /\ \A j \in 1 .. n : SubSeq(q, k + 1, k + n)[j] = q[k + j]
<1> DEFINE p == SubSeq(q, k + 1, k + n)
<1>1. Len(q) \in Nat /\ k + 1 \in 1 .. Len(q) + 1 /\ k + n \in k .. Len(q)
  OBVIOUS
<1>2. p = [j \in 1 .. n |-> q[k + j]]
  <2>1. p = [j \in 1 .. (k + n) - (k + 1) + 1 |-> q[(k + 1) + j - 1]]
    OBVIOUS
  <2>2. (k + n) - (k + 1) + 1 = n /\ \A j \in 1 .. n : (k + 1) + j - 1 = k + j
    OBVIOUS
  <2> QED BY <2>1, <2>2
<1>3. \A j \in 1 .. n : k + j \in 1 .. Len(q)
  BY <1>1
<1> HIDE DEF p
<1>4. p \in Seq(U) /\ Len(p) = n /\ \A j \in 1 .. n : p[j] = q[k + j]
  BY <1>2, <1>3
<1> QED BY <1>4 DEF p

(* What the length in a header may be.                                     *)
LEMMA LengthsAreNat ==
    ASSUME NEW h \in Seq(Byte)
    PROVE  Lengths(h) \subseteq Nat /\ AnyLength \subseteq Nat
<1>1. Lengths(h) \subseteq Nat
  <2>1. \A b \in Byte : Payload[b[1]][b[2]] \in Nat
    BY FramingAssumption DEF Byte
  <2>2. ToSet(h) \subseteq Byte
    BY DEF ToSet
  <2> QED BY <2>1, <2>2 DEF Lengths
<1>2. \A s \in Senders : ToSet(Payload[s]) \subseteq Nat
  BY FramingAssumption DEF ToSet
<1> QED BY <1>1, <1>2 DEF AnyLength

LEMMA InitTypes == Init => TypeInv
<1> SUFFICES ASSUME Init PROVE TypeInv
  OBVIOUS
<1>1. SendersInv
  <2>1. tx \in [Senders -> Sending]
    BY DEF Init, Sending
  <2>2. ASSUME NEW s \in Senders
        PROVE  /\ tx[s].msg \in 1 .. Len(Payload[s]) + 1
               /\ ~Sent(s) => tx[s].sent <= Size(s, tx[s].msg)
    <3>1. Payload[s] \in Seq(Nat) /\ Len(Payload[s]) \in Nat
      BY FramingAssumption
    <3>2. tx[s].msg = 1 /\ tx[s].sent = 0
      BY DEF Init
    <3>3. ~Sent(s) => 1 \in 1 .. Len(Payload[s])
      BY <3>1, <3>2 DEF Sent
    <3>4. ~Sent(s) => Size(s, 1) \in Nat
      BY <3>3, Payloads
    <3> QED BY <3>1, <3>2, <3>4
  <2> QED BY <2>1, <2>2 DEF SendersInv
<1>2. BytesInv
  BY EmptySeq, FramingAssumption DEF Init, BytesInv
<1> QED BY <1>1, <1>2 DEF TypeInv

(* One send().                                                             *)
LEMMA SendSome ==
    ASSUME TypeInv, NEW s \in Senders, Send(s)
    PROVE  /\ TypeInv'
           /\ \E n \in Nat \ {0} :
                /\ tx[s].msg \in 1 .. Len(Payload[s])
                /\ tx[s].sent + n <= Size(s, tx[s].msg)
                /\ Len(stream) + n <= Room
                /\ stream' = stream \o SubSeq(Frame(s, tx[s].msg), tx[s].sent + 1, tx[s].sent + n)
                /\ tx' = [tx EXCEPT ![s].sent = @ + n]
<1> DEFINE m == tx[s].msg
           k == tx[s].sent
<1>1. /\ Payload[s] \in Seq(Nat) /\ Len(Payload[s]) \in Nat /\ m \in 1 .. Len(Payload[s])
      /\ k \in Nat /\ k <= Size(s, m) /\ tx \in [Senders -> Sending]
  <2>1. Payload[s] \in Seq(Nat) /\ Len(Payload[s]) \in Nat
    BY FramingAssumption
  <2>2. tx \in [Senders -> Sending] /\ m \in Nat /\ k \in Nat
    BY DEF TypeInv, SendersInv, Sending
  <2>3. ~Sent(s) /\ ~(m > Len(Payload[s]))
    BY DEF Send, Sent
  <2>4. m \in 1 .. Len(Payload[s]) + 1 /\ k <= Size(s, m)
    BY <2>3 DEF TypeInv, SendersInv
  <2> HIDE DEF m, k
  <2> QED BY <2>1, <2>2, <2>3, <2>4
<1>2. Size(s, m) \in Nat /\ SendAllEnd(s) \in Nat /\ SendAllEnd(s) <= Size(s, m)
  <2>1. HeaderSize \in Nat /\ Size(s, m) \in Nat /\ Size(s, m) >= HeaderSize
    BY <1>1, Payloads
  <2> QED BY <2>1 DEF SendAllEnd, Size
<1>3. PICK n \in 1 .. SendAllEnd(s) - k :
        /\ Len(stream) + n <= Room
        /\ stream' = stream \o SubSeq(Frame(s, m), k + 1, k + n)
        /\ tx' = [tx EXCEPT ![s].sent = @ + n]
  BY DEF Send
<1>4. n \in Nat \ {0} /\ k + n <= Size(s, m) /\ k + n \in Nat
  <2>1. n \in 1 .. SendAllEnd(s) - k
    OBVIOUS
  <2>2. k \in Nat /\ SendAllEnd(s) \in Nat /\ SendAllEnd(s) <= Size(s, m) /\ Size(s, m) \in Nat
    BY <1>1, <1>2
  <2> HIDE DEF m, k
  <2> QED BY <2>1, <2>2
<1>5. /\ SubSeq(Frame(s, m), k + 1, k + n) \in Seq(Byte)
      /\ Len(SubSeq(Frame(s, m), k + 1, k + n)) = n
  <2>1. Frame(s, m) \in Seq(Byte) /\ Len(Frame(s, m)) = Size(s, m)
    BY <1>1, FrameBytes
  <2> HIDE DEF m, k
  <2> QED BY <1>1, <1>2, <1>4, <2>1
<1>6. SendersInv'
  <2>1. /\ tx' \in [Senders -> Sending]
        /\ tx'[s].msg = m /\ tx'[s].sent = k + n
        /\ \A r \in Senders : r # s => tx'[r] = tx[r]
    BY <1>1, <1>3, <1>4 DEF Sending
  <2>2. ASSUME NEW r \in Senders
        PROVE  /\ tx'[r].msg \in 1 .. Len(Payload[r]) + 1
               /\ ~Sent(r)' => tx'[r].sent <= Size(r, tx'[r].msg)
    BY <1>1, <1>4, <2>1 DEF TypeInv, SendersInv, Sent
  <2> QED BY <2>1, <2>2 DEF SendersInv
<1>7. BytesInv'
  <2>1. stream' \in Seq(Byte) /\ Len(stream') <= Room
    <3>1. stream \in Seq(Byte)
      BY DEF TypeInv, BytesInv
    <3> QED BY <1>3, <1>5, <3>1, ConcatProperties
  <2> QED BY <2>1 DEF TypeInv, BytesInv, Send
<1> HIDE DEF m, k
<1>8. \E x \in Nat \ {0} :
        /\ m \in 1 .. Len(Payload[s]) /\ k + x <= Size(s, m) /\ Len(stream) + x <= Room
        /\ stream' = stream \o SubSeq(Frame(s, m), k + 1, k + x)
        /\ tx' = [tx EXCEPT ![s].sent = @ + x]
  BY <1>1, <1>3, <1>4
<1> QED BY <1>6, <1>7, <1>8 DEF TypeInv, m, k

LEMMA SendReturnsTypes ==
    ASSUME TypeInv, NEW s \in Senders, SendReturns(s)
    PROVE  /\ TypeInv'
           /\ tx' = [tx EXCEPT ![s] = [msg |-> tx[s].msg + 1, sent |-> 0]]
<1>1. /\ Payload[s] \in Seq(Nat) /\ Len(Payload[s]) \in Nat /\ tx[s].msg \in 1 .. Len(Payload[s])
      /\ tx \in [Senders -> Sending]
  BY FramingAssumption DEF TypeInv, SendersInv, Sending, SendReturns, Sent
<1>2. tx' = [tx EXCEPT ![s] = [msg |-> tx[s].msg + 1, sent |-> 0]]
  BY DEF SendReturns
<1>3. /\ tx' \in [Senders -> Sending] /\ tx'[s].msg = tx[s].msg + 1 /\ tx'[s].sent = 0
      /\ \A r \in Senders : r # s => tx'[r] = tx[r]
  BY <1>1, <1>2 DEF Sending
<1>4. ASSUME NEW r \in Senders
      PROVE  /\ tx'[r].msg \in 1 .. Len(Payload[r]) + 1
             /\ ~Sent(r)' => tx'[r].sent <= Size(r, tx'[r].msg)
  <2>1. CASE r # s
    BY <1>3, <2>1 DEF TypeInv, SendersInv, Sent
  <2>2. CASE r = s
    <3>1. ~Sent(s)' => tx[s].msg + 1 \in 1 .. Len(Payload[s])
      BY <1>1, <1>3 DEF Sent
    <3>2. ~Sent(s)' => Size(s, tx[s].msg + 1) \in Nat
      BY <3>1, Payloads
    <3> QED BY <1>1, <1>3, <2>2, <3>2
  <2> QED BY <2>1, <2>2
<1>5. SendersInv'
  BY <1>3, <1>4 DEF SendersInv
<1>6. BytesInv'
  BY DEF TypeInv, BytesInv, SendReturns
<1> QED BY <1>2, <1>5, <1>6 DEF TypeInv

(* The receiving end leaves the senders alone.                             *)
LEMMA SameSenders == ASSUME SendersInv, tx' = tx PROVE SendersInv'
BY DEF SendersInv, Sent

LEMMA RecvSome ==
    ASSUME TypeInv, Recv
    PROVE  /\ TypeInv'
           /\ \E n \in Nat \ {0} :
                /\ n <= need /\ n <= Len(stream) /\ need' = need - n
                /\ got' = got \o SubSeq(stream, 1, n)
                /\ stream' = SubSeq(stream, n + 1, Len(stream))
<1>1. stream \in Seq(Byte) /\ Len(stream) <= Room /\ got \in Seq(Byte) /\ need \in Nat /\ Room \in Nat
  BY FramingAssumption DEF TypeInv, BytesInv
<1>2. PICK n \in 1 .. need : /\ n <= Len(stream)
                             /\ got' = got \o SubSeq(stream, 1, n)
                             /\ stream' = SubSeq(stream, n + 1, Len(stream))
                             /\ need' = need - n
  BY DEF Recv
<1>3. n \in Nat \ {0} /\ n <= need
  BY <1>1, <1>2
<1>4. SubSeq(stream, 1, n) \in Seq(Byte)
  BY <1>1, <1>2, <1>3
<1>5. got' \in Seq(Byte)
  BY <1>1, <1>2, <1>4, ConcatProperties
<1>6. stream' \in Seq(Byte) /\ Len(stream') <= Room
  BY <1>1, <1>2, <1>3
<1>7. need' \in Nat
  BY <1>1, <1>2
<1>8. TypeInv'
  BY <1>5, <1>6, <1>7, SameSenders DEF TypeInv, BytesInv, Recv
<1> QED BY <1>2, <1>3, <1>8

LEMMA ReadTypes ==
    ASSUME TypeInv, HeaderRead \/ FrameRead \/ Close \/ UNCHANGED vars
    PROVE  TypeInv'
<1>1. SendersInv'
  BY SameSenders DEF TypeInv, HeaderRead, FrameRead, Close, vars
<1>2. CASE HeaderRead
  <2>1. need' \in Nat
    BY <1>2, LengthsAreNat DEF TypeInv, BytesInv, HeaderRead
  <2> QED BY <1>1, <1>2, <2>1 DEF TypeInv, BytesInv, HeaderRead
<1>3. CASE FrameRead
  <2>1. <<>> \in Seq(Byte) /\ HeaderSize \in Nat
    BY EmptySeq, FramingAssumption
  <2>2. frames' \in Seq(Seq(Byte))
    BY <1>3, AppendProperties DEF TypeInv, BytesInv, FrameRead
  <2> QED BY <1>1, <1>3, <2>1, <2>2 DEF TypeInv, BytesInv, FrameRead
<1>4. CASE Close
  <2>1. <<>> \in Seq(Byte) /\ Len(<<>>) = 0 /\ Room \in Nat
    BY EmptySeq, FramingAssumption
  <2>2. stream' \in Seq(Byte) /\ Len(stream') <= Room
    BY <1>4, <2>1 DEF Close
  <2> QED BY <1>1, <1>4, <2>2 DEF TypeInv, BytesInv, Close
<1>5. CASE UNCHANGED vars
  BY <1>1, <1>5 DEF TypeInv, BytesInv, vars
<1> QED BY <1>2, <1>3, <1>4, <1>5

LEMMA NextTypes == TypeInv /\ [Next]_vars => TypeInv'
BY SendSome, SendReturnsTypes, RecvSome, ReadTypes DEF Next, Terminated

LEMMA TypeInvariant == Spec => []TypeInv
<1> QED BY InitTypes, NextTypes, PTL DEF Spec

(* However many threads send on the socket, nobody sends more than it has, *)
(* the buffer is never overfull and recv_message never asks for less than  *)
(* nothing (send_all, recv_all, recv_message).                             *)
THEOREM FramingTypes == Spec => []TypeOK
<1>1. TypeInv => TypeOK
  BY DEF TypeInv, SendersInv, BytesInv, TypeOK, Sending, Size
<1> QED BY <1>1, TypeInvariant, PTL

-----------------------------------------------------------------------------
(* One sender.  A place is a message and a byte of it; the byte after the  *)
(* last one of a message is the first of the next.                         *)
After(s, n, k) == IF k = 0 \/ k < Size(s, n) THEN <<n, k + 1>> ELSE <<n + 1, 1>>

(* The message that is being read.                                         *)
Current == Len(frames) + 1

(* The stream is a stretch of what s sends without gap or repetition: from *)
(* the byte that recv_message needs next to the one that s sends next.     *)
Stretch(s, e) ==
    /\ e \in [1 .. Len(stream) + 1 -> Nat \X Nat]
    /\ e[1] = After(s, Current, Len(got))
    /\ e[Len(stream) + 1] = After(s, tx[s].msg, tx[s].sent)
    /\ \A j \in 1 .. Len(stream) :
         stream[j] = <<s, e[j][1], e[j][2]>> /\ e[j + 1] = After(s, e[j][1], e[j][2])

StreamInv(s) == open => \E e : Stretch(s, e)

(* What has been read is the beginning of the present message, and the     *)
(* length believed is that message's.                                      *)
GotInv(s) ==
    /\ \A j \in 1 .. Len(got) : got[j] = <<s, Current, j>>
    /\ Len(got) > 0 \/ part = "payload" => Current \in 1 .. Len(Payload[s])
    /\ part = "header" => Len(got) + need = HeaderSize
    /\ part = "payload" => Len(got) + need = Size(s, Current)

FramesInv(s) ==
    \A k \in 1 .. Len(frames) : k \in 1 .. Len(Payload[s]) /\ frames[k] = Frame(s, k)

OneInv(s) == TypeInv /\ StreamInv(s) /\ GotInv(s) /\ FramesInv(s)

LEMMA Lengths0 ==
    ASSUME TypeInv
    PROVE  /\ Len(stream) \in Nat /\ Len(got) \in Nat /\ Len(frames) \in Nat /\ Current \in Nat \ {0}
           /\ need \in Nat /\ HeaderSize \in Nat \ {0}
           /\ stream \in Seq(Byte) /\ got \in Seq(Byte) /\ frames \in Seq(Seq(Byte))
BY FramingAssumption DEF TypeInv, BytesInv, Current

LEMMA InitOne ==
    ASSUME NEW s, Senders = {s}, Init
    PROVE  OneInv(s)
<1>1. TypeInv
  BY InitTypes
<1>2. Len(<<>>) = 0 /\ HeaderSize \in Nat
  BY FramingAssumption
<1>3. Current = 1
  BY <1>2 DEF Init, Current
<1>4. StreamInv(s)
  <2> DEFINE e == [j \in 1 .. 1 |-> <<1, 1>>]
  <2>1. tx[s].msg = 1 /\ tx[s].sent = 0
    BY DEF Init
  <2>2. Stretch(s, e)
    BY <1>2, <1>3, <2>1 DEF Init, Stretch, After
  <2> QED BY <2>2 DEF StreamInv
<1>5. GotInv(s) /\ FramesInv(s)
  BY <1>2 DEF Init, GotInv, FramesInv
<1> QED BY <1>1, <1>4, <1>5 DEF OneInv

(* A send lengthens the stretch.                                           *)
LEMMA SendOne ==
    ASSUME NEW s, Senders = {s}, OneInv(s), Send(s)
    PROVE  OneInv(s)'
<1> DEFINE m == tx[s].msg
           k == tx[s].sent
           L == Len(stream)
<1>1. TypeInv' /\ TypeInv /\ open
  BY SendSome DEF OneInv, Send
<1>2. PICK n \in Nat \ {0} :
        /\ m \in 1 .. Len(Payload[s]) /\ k + n <= Size(s, m)
        /\ stream' = stream \o SubSeq(Frame(s, m), k + 1, k + n)
        /\ tx' = [tx EXCEPT ![s].sent = @ + n]
  BY SendSome DEF OneInv
<1>3. k \in Nat /\ m \in Nat /\ Size(s, m) \in Nat /\ L \in Nat
  BY <1>1, <1>2, Payloads, Lengths0 DEF TypeInv, SendersInv, Sending
<1>4. tx'[s].msg = m /\ tx'[s].sent = k + n
  BY <1>1, <1>2 DEF TypeInv, SendersInv, Sending
<1> DEFINE piece == SubSeq(Frame(s, m), k + 1, k + n)
<1>5. piece \in Seq(Byte) /\ Len(piece) = n /\ \A j \in 1 .. n : piece[j] = <<s, m, k + j>>
  <2>1. Frame(s, m) \in Seq(Byte) /\ Len(Frame(s, m)) = Size(s, m)
        /\ \A x \in 1 .. Size(s, m) : Frame(s, m)[x] = <<s, m, x>>
    BY <1>2, FrameBytes
  <2>2. k + n <= Len(Frame(s, m))
    BY <1>2, <2>1
  <2> DEFINE F == Frame(s, m)
             P == SubSeq(F, k + 1, k + n)
  <2>5. F \in Seq(Byte) /\ k + n <= Len(F) /\ k \in Nat /\ n \in Nat
    BY <1>2, <1>3, <2>1, <2>2
  <2> HIDE DEF m, k, F
  <2>6. P \in Seq(Byte) /\ Len(P) = n /\ \A j \in 1 .. n : P[j] = F[k + j]
    BY <2>5, Piece
  <2> HIDE DEF P
  <2>3. piece \in Seq(Byte) /\ Len(piece) = n /\ \A j \in 1 .. n : piece[j] = F[k + j]
    BY <2>6 DEF P, F
  <2>4. ASSUME NEW j \in 1 .. n PROVE k + j \in 1 .. Size(s, m)
    <3>1. k + n <= Size(s, m)
      BY <1>2 DEF m, k
    <3> QED BY <1>3, <3>1
  <2> QED BY <2>1, <2>3, <2>4 DEF F
<1>6. PICK e : Stretch(s, e)
  BY <1>1 DEF OneInv, StreamInv
<1> HIDE DEF m, k, L, piece
<1>7. /\ e \in [1 .. L + 1 -> Nat \X Nat] /\ e[1] = After(s, Current, Len(got))
      /\ e[L + 1] = After(s, m, k)
      /\ \A j \in 1 .. L :
           stream[j] = <<s, e[j][1], e[j][2]>> /\ e[j + 1] = After(s, e[j][1], e[j][2])
  BY <1>6 DEF Stretch, m, k, L
<1>8. /\ Len(stream') = L + n
      /\ \A j \in 1 .. L : stream'[j] = stream[j]
      /\ \A j \in 1 .. n : stream'[L + j] = <<s, m, k + j>>
  <2>1. stream \in Seq(Byte) /\ stream' = stream \o piece
    BY <1>1, <1>2 DEF TypeInv, BytesInv, piece, m, k
  <2>2. /\ Len(stream \o piece) = L + n
        /\ \A j \in 1 .. L + n : (stream \o piece)[j] = IF j <= L THEN stream[j] ELSE piece[j - L]
    BY <1>3, <1>5, <2>1, ConcatProperties DEF L
  <2>3. ASSUME NEW j \in 1 .. n PROVE stream'[L + j] = <<s, m, k + j>>
    <3>1. L + j \in 1 .. L + n /\ ~(L + j <= L) /\ (L + j) - L = j
      BY <1>3
    <3> QED BY <1>5, <2>1, <2>2, <3>1
  <2>4. ASSUME NEW j \in 1 .. L PROVE stream'[j] = stream[j]
    <3>1. j \in 1 .. L + n /\ j <= L
      BY <1>3
    <3> QED BY <2>1, <2>2, <3>1
  <2> QED BY <2>1, <2>2, <2>3, <2>4
<1> DEFINE w == [j \in 1 .. L + n + 1 |->
                   IF j <= L THEN e[j] ELSE IF j <= L + n THEN <<m, k + (j - L)>> ELSE After(s, m, k + n)]
<1>9. w \in [1 .. L + n + 1 -> Nat \X Nat]
  <2>1. After(s, m, k + n) \in Nat \X Nat
    BY <1>3 DEF After
  <2>2. ASSUME NEW j \in 1 .. L + n + 1, j <= L PROVE e[j] \in Nat \X Nat
    BY <1>3, <1>7, <2>2
  <2>3. ASSUME NEW j \in 1 .. L + n + 1, ~(j <= L) PROVE <<m, k + (j - L)>> \in Nat \X Nat
    BY <1>3, <2>3
  <2> QED BY <2>1, <2>2, <2>3
<1>10. \A j \in 1 .. L + 1 : w[j] = e[j]
  <2>1. After(s, m, k) = <<m, k + 1>>
    BY <1>2, <1>3 DEF After, m, k
  <2>2. ASSUME NEW j \in 1 .. L + 1 PROVE w[j] = e[j]
    <3>1. CASE j = L + 1
      <4>1. j \in 1 .. L + n + 1 /\ ~(j <= L) /\ j <= L + n /\ k + (j - L) = k + 1
        BY <1>3, <3>1
      <4>2. w[j] = <<m, k + (j - L)>>
        BY <4>1
      <4> QED BY <1>7, <2>1, <3>1, <4>1, <4>2
    <3>2. CASE j # L + 1
      BY <1>3, <3>2
    <3> QED BY <3>1, <3>2
  <2> QED BY <2>2
<1>11. w[L + n + 1] = After(s, m, k + n)
  BY <1>3
<1>12. \A j \in 1 .. n : w[L + j] = <<m, k + j>>
  BY <1>3
<1> HIDE DEF w
<1>13. ASSUME NEW j \in 1 .. L
       PROVE  stream'[j] = <<s, w[j][1], w[j][2]>> /\ w[j + 1] = After(s, w[j][1], w[j][2])
  <2>1. j \in 1 .. L + 1 /\ j + 1 \in 1 .. L + 1
    BY <1>3
  <2>2. w[j] = e[j] /\ w[j + 1] = e[j + 1]
    BY <1>10, <2>1
  <2> QED BY <1>7, <1>8, <2>2
<1>14. ASSUME NEW j \in 1 .. n
       PROVE  /\ stream'[L + j] = <<s, w[L + j][1], w[L + j][2]>>
              /\ w[L + j + 1] = After(s, w[L + j][1], w[L + j][2])
  <2>1. w[L + j] = <<m, k + j>> /\ stream'[L + j] = <<s, m, k + j>>
    BY <1>8, <1>12
  <2>2. CASE j = n
    BY <1>11, <2>1, <2>2
  <2>3. CASE j # n
    <3>1. j + 1 \in 1 .. n /\ L + (j + 1) = L + j + 1 /\ k + (j + 1) = k + j + 1
      BY <1>3, <2>3
    <3>2. k + j < Size(s, m)
      BY <1>2, <1>3, <2>3 DEF m, k
    <3>3. w[L + j + 1] = <<m, k + j + 1>>
      BY <1>12, <3>1
    <3>4. After(s, m, k + j) = <<m, k + j + 1>>
      BY <3>2 DEF After
    <3> QED BY <2>1, <3>3, <3>4
  <2> QED BY <2>2, <2>3
<1>15. ASSUME NEW j \in 1 .. L + n
       PROVE  stream'[j] = <<s, w[j][1], w[j][2]>> /\ w[j + 1] = After(s, w[j][1], w[j][2])
  <2>1. CASE j <= L
    BY <1>3, <1>13, <2>1
  <2>2. CASE ~(j <= L)
    <3>1. j - L \in 1 .. n /\ L + (j - L) = j
      BY <1>3, <2>2
    <3> QED BY <1>14, <3>1
  <2> QED BY <2>1, <2>2
<1>16. got' = got /\ frames' = frames /\ part' = part /\ need' = need /\ Current' = Current
  BY DEF Send, Current
<1>17. PICK v : v = w
  OBVIOUS
<1>18. Stretch(s, v)'
  <2>1. w[1] = e[1]
    BY <1>3, <1>10
  <2>2. v \in [1 .. Len(stream') + 1 -> Nat \X Nat]
    BY <1>8, <1>9, <1>17
  <2>3. v[1] = After(s, Current', Len(got'))
    BY <1>7, <1>16, <1>17, <2>1
  <2>4. v[Len(stream') + 1] = After(s, tx'[s].msg, tx'[s].sent)
    BY <1>4, <1>8, <1>11, <1>17
  <2>5. \A j \in 1 .. Len(stream') :
          stream'[j] = <<s, v[j][1], v[j][2]>> /\ v[j + 1] = After(s, v[j][1], v[j][2])
    BY <1>8, <1>15, <1>17
  <2> QED BY <2>2, <2>3, <2>4, <2>5 DEF Stretch
<1> QED BY <1>1, <1>16, <1>18 DEF OneInv, StreamInv, GotInv, FramesInv

(* The next message begins where the last one ends.                        *)
LEMMA SendReturnsOne ==
    ASSUME NEW s, Senders = {s}, OneInv(s), SendReturns(s)
    PROVE  OneInv(s)'
<1>1. /\ TypeInv /\ TypeInv' /\ tx' = [tx EXCEPT ![s] = [msg |-> tx[s].msg + 1, sent |-> 0]]
      /\ tx[s].msg \in 1 .. Len(Payload[s])
  <2>1. tx[s].msg \in 1 .. Len(Payload[s])
    BY FramingAssumption DEF OneInv, TypeInv, SendersInv, Sending, SendReturns, Sent
  <2> QED BY <2>1, SendReturnsTypes DEF OneInv
<1>2. tx'[s].msg = tx[s].msg + 1 /\ tx'[s].sent = 0
  BY <1>1 DEF TypeInv, SendersInv
<1>3. /\ stream' = stream /\ got' = got /\ frames' = frames /\ part' = part /\ need' = need
      /\ open' = open /\ Current' = Current
  BY DEF SendReturns, Current
<1>4. open => After(s, tx'[s].msg, tx'[s].sent) = After(s, tx[s].msg, tx[s].sent)
  <2>1. open => tx[s].sent = Size(s, tx[s].msg)
    BY DEF SendReturns, Size
  <2>2. Size(s, tx[s].msg) \in Nat /\ Size(s, tx[s].msg) # 0
    BY <1>1, Payloads
  <2> QED BY <1>2, <2>1, <2>2 DEF After
<1>5. StreamInv(s)'
  <2> SUFFICES ASSUME open PROVE \E e : Stretch(s, e)'
    BY <1>3 DEF StreamInv
  <2>1. PICK e : Stretch(s, e)
    BY DEF OneInv, StreamInv
  <2>2. Stretch(s, e)'
    BY <1>3, <1>4, <2>1 DEF Stretch
  <2> QED BY <2>2
<1> QED BY <1>1, <1>3, <1>5 DEF OneInv, GotInv, FramesInv

(* A recv() takes bytes of the present message only, in their order.       *)
LEMMA RecvOne ==
    ASSUME NEW s, Senders = {s}, OneInv(s), Recv
    PROVE  OneInv(s)'
<1> DEFINE c == Current
           g == Len(got)
           L == Len(stream)
<1>1. TypeInv /\ TypeInv' /\ open
  BY RecvSome DEF OneInv, Recv
<1>2. PICK n \in Nat \ {0} :
        /\ n <= need /\ n <= L /\ need' = need - n
        /\ got' = got \o SubSeq(stream, 1, n)
        /\ stream' = SubSeq(stream, n + 1, L)
  BY RecvSome DEF OneInv
<1>3. /\ c \in Nat \ {0} /\ g \in Nat /\ L \in Nat /\ need \in Nat /\ HeaderSize \in Nat \ {0}
      /\ stream \in Seq(Byte) /\ got \in Seq(Byte)
  BY <1>1, Lengths0
<1>4. tx' = tx /\ frames' = frames /\ part' = part /\ Current' = c
  BY DEF Recv, Current
<1>5. PICK e : Stretch(s, e)
  BY <1>1 DEF OneInv, StreamInv
<1>6. /\ e \in [1 .. L + 1 -> Nat \X Nat] /\ e[1] = After(s, c, g)
      /\ e[L + 1] = After(s, tx[s].msg, tx[s].sent)
      /\ \A j \in 1 .. L :
           stream[j] = <<s, e[j][1], e[j][2]>> /\ e[j + 1] = After(s, e[j][1], e[j][2])
  BY <1>5 DEF Stretch
<1>7. c \in 1 .. Len(Payload[s]) /\ Size(s, c) \in Nat /\ g + need <= Size(s, c)
  <2>1. c \in 1 .. Len(Payload[s])
    <3>1. CASE g > 0
      BY <3>1 DEF OneInv, GotInv
    <3>2. CASE g = 0
      <4>1. 1 \in 1 .. L
        BY <1>2, <1>3
      <4>2. stream[1] = <<s, e[1][1], e[1][2]>> /\ stream[1] \in Byte
        BY <1>3, <1>6, <4>1
      <4>3. e[1] = <<c, 1>>
        BY <1>6, <3>2 DEF After
      <4> QED BY <4>2, <4>3 DEF Byte
    <3> QED BY <1>3, <3>1, <3>2
  <2>2. Size(s, c) \in Nat /\ Size(s, c) >= HeaderSize
    BY <2>1, Payloads
  <2>3. part = "header" \/ part = "payload"
    BY <1>1 DEF TypeInv, BytesInv
  <2>4. g + need = HeaderSize \/ g + need = Size(s, c)
    BY <2>3 DEF OneInv, GotInv
  <2> QED BY <1>3, <2>1, <2>2, <2>4
<1> HIDE DEF c, g, L
<1>8. g + n <= Size(s, c)
  BY <1>2, <1>3, <1>7
(* The first n bytes are the next ones of this message.                    *)
<1>9. \A j \in 1 .. n : e[j] = <<c, g + j>>
  <2> DEFINE P == {j \in Nat : j < n => e[j + 1] = <<c, g + j + 1>>}
  <2>1. 0 \in P
    <3>1. g < Size(s, c)
      BY <1>3, <1>7, <1>8
    <3> QED BY <1>3, <1>6, <3>1 DEF After
  <2>2. ASSUME NEW j \in Nat, j \in P PROVE j + 1 \in P
    <3> SUFFICES ASSUME j + 1 < n PROVE e[j + 1 + 1] = <<c, g + (j + 1) + 1>>
      OBVIOUS
    <3>1. e[j + 1] = <<c, g + j + 1>>
      BY <2>2
    <3>2. j + 1 \in 1 .. L
      BY <1>2, <1>3
    <3>3. e[j + 1 + 1] = After(s, c, g + j + 1)
      BY <1>6, <3>1, <3>2
    <3>4. g + j + 1 < Size(s, c) /\ g + j + 1 + 1 = g + (j + 1) + 1
      BY <1>3, <1>7, <1>8
    <3> QED BY <3>3, <3>4 DEF After
  <2>3. Nat \subseteq P
    <3> HIDE DEF P
    <3> QED BY <2>1, <2>2, Induct
  <2>4. ASSUME NEW j \in 1 .. n PROVE e[j] = <<c, g + j>>
    <3>1. j - 1 \in Nat /\ j - 1 < n /\ (j - 1) + 1 = j /\ g + (j - 1) + 1 = g + j
      BY <1>3
    <3>2. e[(j - 1) + 1] = <<c, g + (j - 1) + 1>>
      BY <2>3, <3>1
    <3> QED BY <3>1, <3>2
  <2> QED BY <2>4
<1> DEFINE p == SubSeq(stream, 1, n)
<1>10. p \in Seq(Byte) /\ Len(p) = n /\ \A j \in 1 .. n : p[j] = <<s, c, g + j>>
  <2>1. 0 + n <= Len(stream) /\ 0 + 1 = 1 /\ 0 + n = n /\ \A j \in 1 .. n : 0 + j = j
    BY <1>2 DEF L
  <2>2. p \in Seq(Byte) /\ Len(p) = n /\ \A j \in 1 .. n : p[j] = stream[j]
    <3> HIDE DEF p
    <3>1. SubSeq(stream, 0 + 1, 0 + n) = p
      BY <2>1 DEF p
    <3>2. /\ SubSeq(stream, 0 + 1, 0 + n) \in Seq(Byte) /\ Len(SubSeq(stream, 0 + 1, 0 + n)) = n
          /\ \A j \in 1 .. n : SubSeq(stream, 0 + 1, 0 + n)[j] = stream[0 + j]
      BY <1>3, <2>1, Piece
    <3> QED BY <2>1, <3>1, <3>2
  <2>3. ASSUME NEW j \in 1 .. n PROVE stream[j] = <<s, c, g + j>>
    <3>1. j \in 1 .. L
      BY <1>2, <1>3
    <3> QED BY <1>6, <1>9, <3>1
  <2> QED BY <2>2, <2>3
<1> HIDE DEF p
<1>11. Len(got') = g + n /\ \A j \in 1 .. g + n : got'[j] = <<s, c, j>>
  <2>1. got' = got \o p
    BY <1>2 DEF p
  <2>2. /\ Len(got \o p) = g + n
        /\ \A j \in 1 .. g + n : (got \o p)[j] = IF j <= g THEN got[j] ELSE p[j - g]
    BY <1>3, <1>10, ConcatProperties DEF g
  <2>3. \A j \in 1 .. g : got[j] = <<s, c, j>>
    BY DEF OneInv, GotInv, c, g
  <2>4. ASSUME NEW j \in 1 .. g + n PROVE got'[j] = <<s, c, j>>
    <3>1. CASE j <= g
      BY <1>3, <2>1, <2>2, <2>3, <3>1
    <3>2. CASE ~(j <= g)
      <4>1. j - g \in 1 .. n /\ g + (j - g) = j
        BY <1>3, <3>2
      <4> QED BY <1>10, <2>1, <2>2, <3>2, <4>1
    <3> QED BY <3>1, <3>2
  <2> QED BY <2>1, <2>2, <2>4
<1>12. GotInv(s)'
  <2>1. part = "header" => g + n + (need - n) = HeaderSize
    BY <1>3 DEF OneInv, GotInv, g
  <2>2. part = "payload" => g + n + (need - n) = Size(s, c)
    BY <1>3 DEF OneInv, GotInv, g, c
  <2> QED BY <1>2, <1>4, <1>7, <1>11, <2>1, <2>2 DEF GotInv
<1>13. Len(stream') = L - n /\ \A j \in 1 .. L - n : stream'[j] = stream[n + j]
  <2>1. L - n \in Nat /\ n + (L - n) = L
    BY <1>2, <1>3
  <2>2. n + (L - n) <= Len(stream)
    BY <1>3, <2>1 DEF L
  <2>3. /\ Len(SubSeq(stream, n + 1, n + (L - n))) = L - n
        /\ \A j \in 1 .. L - n : SubSeq(stream, n + 1, n + (L - n))[j] = stream[n + j]
    <3> DEFINE l == L - n
    <3>1. /\ stream \in Seq(Byte) /\ n \in Nat /\ l \in Nat /\ n + l <= Len(stream)
      BY <1>3, <2>1, <2>2
    <3> HIDE DEF l
    <3>2. /\ SubSeq(stream, n + 1, n + l) \in Seq(Byte) /\ Len(SubSeq(stream, n + 1, n + l)) = l
          /\ \A j \in 1 .. l : SubSeq(stream, n + 1, n + l)[j] = stream[n + j]
      BY <3>1, Piece
    <3> QED BY <3>2 DEF l
  <2> QED BY <1>2, <2>1, <2>3
<1>14. PICK w : w = [j \in 1 .. L - n + 1 |-> e[n + j]]
  OBVIOUS
<1>15. w \in [1 .. L - n + 1 -> Nat \X Nat] /\ w[L - n + 1] = e[L + 1] /\ w[1] = e[n + 1]
  <2>1. \A j \in 1 .. L - n + 1 : n + j \in 1 .. L + 1
    BY <1>2, <1>3
  <2>2. L - n + 1 \in 1 .. L - n + 1 /\ 1 \in 1 .. L - n + 1 /\ n + (L - n + 1) = L + 1
    BY <1>2, <1>3
  <2> QED BY <1>6, <1>14, <2>1, <2>2
<1>16. ASSUME NEW j \in 1 .. L - n
       PROVE  stream'[j] = <<s, w[j][1], w[j][2]>> /\ w[j + 1] = After(s, w[j][1], w[j][2])
  <2>1. /\ n + j \in 1 .. L /\ (n + j) + 1 = n + (j + 1)
        /\ j \in 1 .. L - n + 1 /\ j + 1 \in 1 .. L - n + 1
    BY <1>2, <1>3
  <2>2. w[j] = e[n + j] /\ w[j + 1] = e[(n + j) + 1]
    BY <1>14, <2>1
  <2> QED BY <1>6, <1>13, <2>1, <2>2
<1>17. e[n + 1] = After(s, c, g + n)
  <2>1. n \in 1 .. L /\ n \in 1 .. n
    BY <1>2, <1>3
  <2> QED BY <1>6, <1>9, <2>1
<1>18. Stretch(s, w)'
  <2>1. w \in [1 .. Len(stream') + 1 -> Nat \X Nat]
    BY <1>13, <1>15
  <2>2. w[1] = After(s, Current', Len(got'))
    BY <1>4, <1>11, <1>15, <1>17
  <2>3. w[Len(stream') + 1] = After(s, tx'[s].msg, tx'[s].sent)
    BY <1>4, <1>6, <1>13, <1>15
  <2>4. \A j \in 1 .. Len(stream') :
          stream'[j] = <<s, w[j][1], w[j][2]>> /\ w[j + 1] = After(s, w[j][1], w[j][2])
    BY <1>13, <1>16
  <2> QED BY <2>1, <2>2, <2>3, <2>4 DEF Stretch
<1> QED BY <1>1, <1>4, <1>12, <1>18 DEF OneInv, StreamInv, FramesInv

(* The beginning of a message is a piece of its frame.                     *)
LEMMA GotIsFrame ==
    ASSUME NEW s, Senders = {s}, OneInv(s), Len(got) > 0
    PROVE  /\ Current \in 1 .. Len(Payload[s])
           /\ Len(got) <= Size(s, Current) => got = SubSeq(Frame(s, Current), 1, Len(got))
           /\ Len(got) = Size(s, Current) => got = Frame(s, Current)
<1> DEFINE c == Current
           F == Frame(s, c)
<1>1. c \in 1 .. Len(Payload[s]) /\ \A j \in 1 .. Len(got) : got[j] = <<s, c, j>>
  BY DEF OneInv, GotInv
<1>2. F \in Seq(Byte) /\ Len(F) = Size(s, c) /\ \A k \in 1 .. Size(s, c) : F[k] = <<s, c, k>>
  BY <1>1, FrameBytes
<1>3. got \in Seq(Byte) /\ Len(got) \in Nat /\ Size(s, c) \in Nat
  BY <1>1, Lengths0, Payloads DEF OneInv
<1> HIDE DEF c, F
<1>4. ASSUME Len(got) <= Size(s, c)
      PROVE  got = SubSeq(F, 1, Len(got))
  <2> DEFINE p == SubSeq(F, 0 + 1, 0 + Len(got))
  <2>1. 0 + Len(got) <= Len(F) /\ 0 + Len(got) = Len(got) /\ 0 + 1 = 1
    BY <1>2, <1>3, <1>4
  <2>2. p \in Seq(Byte) /\ Len(p) = Len(got) /\ \A j \in 1 .. Len(got) : p[j] = F[0 + j]
    BY <1>2, <1>3, <2>1, Piece
  <2>3. p = SubSeq(F, 1, Len(got))
    BY <2>1
  <2> HIDE DEF p
  <2>4. ASSUME NEW j \in 1 .. Len(got) PROVE got[j] = p[j]
    <3>1. 0 + j = j /\ j \in 1 .. Size(s, c)
      BY <1>3, <1>4
    <3> QED BY <1>1, <1>2, <2>2, <3>1 DEF c
  <2>5. got = p
    BY <1>3, <2>2, <2>4, SeqEqual
  <2> QED BY <2>3, <2>5
<1>5. ASSUME Len(got) = Size(s, c)
      PROVE  got = F
  <2>1. \A j \in 1 .. Len(got) : got[j] = F[j]
    BY <1>1, <1>2, <1>5 DEF c
  <2> QED BY <1>2, <1>3, <1>5, <2>1, SeqEqual
<1> QED BY <1>1, <1>4, <1>5 DEF c, F

(* The length found in the header is that of the message.                  *)
LEMMA HeaderReadOne ==
    ASSUME NEW s, Senders = {s}, OneInv(s), HeaderRead
    PROVE  OneInv(s)'
<1>1. TypeInv /\ TypeInv'
  BY ReadTypes DEF OneInv
<1>2. Len(got) = HeaderSize /\ HeaderSize \in Nat \ {0}
  BY <1>1, Lengths0 DEF OneInv, GotInv, HeaderRead
<1>3. /\ Current \in 1 .. Len(Payload[s]) /\ got = SubSeq(Frame(s, Current), 1, HeaderSize)
      /\ Payload[s][Current] \in Nat
  <2>1. Current \in 1 .. Len(Payload[s])
    BY <1>2, GotIsFrame
  <2>2. Len(got) <= Size(s, Current) /\ Payload[s][Current] \in Nat
    BY <1>2, <2>1, Payloads
  <2> QED BY <1>2, <2>1, <2>2, GotIsFrame
<1>4. Lengths(got) = {Payload[s][Current]}
  <2>1. \A x \in ToSet(got) : x[1] = s /\ x[2] = Current
    <3>1. ToSet(got) = {got[j] : j \in 1 .. Len(got)}
      BY <1>1, Lengths0 DEF ToSet
    <3> QED BY <3>1 DEF OneInv, GotInv
  <2>2. got[1] \in ToSet(got)
    <3>1. 1 \in DOMAIN got
      BY <1>1, <1>2, Lengths0
    <3> QED BY <3>1 DEF ToSet
  <2> DEFINE X == {x \in ToSet(got) : got = SubSeq(Frame(x[1], x[2]), 1, HeaderSize)}
  <2>3. got[1] \in X /\ \A x \in X : x[1] = s /\ x[2] = Current
    <3>1. got[1][1] = s /\ got[1][2] = Current
      BY <2>1, <2>2
    <3> QED BY <1>3, <2>1, <2>2, <3>1
  <2>4. Lengths(got) = {Payload[b[1]][b[2]] : b \in X}
    BY DEF Lengths
  <2> HIDE DEF X
  <2> QED BY <2>3, <2>4
<1>5. need' = Payload[s][Current] /\ part' = "payload"
  BY <1>4 DEF HeaderRead
<1>6. /\ tx' = tx /\ stream' = stream /\ got' = got /\ frames' = frames /\ open' = open
      /\ Current' = Current
  BY DEF HeaderRead, Current
<1>7. StreamInv(s)'
  BY <1>6 DEF OneInv, StreamInv, Stretch
<1>8. GotInv(s)'
  BY <1>2, <1>3, <1>5, <1>6 DEF OneInv, GotInv, Size
<1> QED BY <1>1, <1>6, <1>7, <1>8 DEF OneInv, FramesInv

LEMMA FrameReadOne ==
    ASSUME NEW s, Senders = {s}, OneInv(s), FrameRead
    PROVE  OneInv(s)'
<1> DEFINE c == Current
<1>1. TypeInv /\ TypeInv'
  BY ReadTypes DEF OneInv
<1>2. /\ c \in 1 .. Len(Payload[s]) /\ Len(got) = Size(s, c) /\ Size(s, c) \in Nat \ {0}
      /\ c \in Nat /\ Len(frames) \in Nat /\ frames \in Seq(Seq(Byte)) /\ got \in Seq(Byte)
      /\ Len(<<>>) = 0
  <2>1. c \in 1 .. Len(Payload[s]) /\ Len(got) + 0 = Size(s, c)
    BY DEF OneInv, GotInv, FrameRead
  <2>2. Size(s, c) \in Nat /\ Size(s, c) # 0
    BY <2>1, Payloads
  <2> QED BY <1>1, <2>1, <2>2, Lengths0
<1>3. got = Frame(s, c)
  BY <1>2, GotIsFrame
<1>4. /\ tx' = tx /\ stream' = stream /\ open' = open /\ got' = <<>> /\ part' = "header"
      /\ need' = HeaderSize /\ frames' = Append(frames, got)
  BY DEF FrameRead
<1>5. /\ Len(frames') = Len(frames) + 1 /\ frames'[Len(frames) + 1] = got
      /\ \A k \in 1 .. Len(frames) : frames'[k] = frames[k]
  BY <1>2, <1>4, AppendProperties
<1>6. Current' = c + 1 /\ c = Len(frames) + 1
  BY <1>5 DEF Current
<1>7. FramesInv(s)'
  <2>1. ASSUME NEW k \in 1 .. Len(frames) + 1
        PROVE  k \in 1 .. Len(Payload[s]) /\ frames'[k] = Frame(s, k)
    <3>1. CASE k = Len(frames) + 1
      BY <1>2, <1>3, <1>5, <1>6, <3>1
    <3>2. CASE k # Len(frames) + 1
      <4>1. k \in 1 .. Len(frames)
        BY <1>2, <3>2
      <4> QED BY <1>5, <4>1 DEF OneInv, FramesInv
    <3> QED BY <3>1, <3>2
  <2> QED BY <1>5, <2>1 DEF FramesInv
<1>8. GotInv(s)'
  <2>1. HeaderSize \in Nat
    BY FramingAssumption
  <2> QED BY <1>2, <1>4, <2>1 DEF GotInv
<1>9. StreamInv(s)'
  <2> SUFFICES ASSUME open PROVE \E e : Stretch(s, e)'
    BY <1>4 DEF StreamInv
  <2>1. PICK e : Stretch(s, e)
    BY DEF OneInv, StreamInv
  <2>2. After(s, c + 1, 0) = After(s, c, Len(got))
    BY <1>2 DEF After
  <2>3. e[1] = After(s, Current', Len(got'))
    BY <1>2, <1>4, <1>6, <2>1, <2>2 DEF Stretch
  <2>4. Stretch(s, e)'
    BY <1>4, <2>1, <2>3 DEF Stretch
  <2> QED BY <2>4
<1> QED BY <1>1, <1>7, <1>8, <1>9 DEF OneInv

LEMMA NextOne ==
    ASSUME NEW s, Senders = {s}, OneInv(s), [Next]_vars
    PROVE  OneInv(s)'
<1>1. ASSUME NEW r \in Senders, Send(r) \/ SendReturns(r)
      PROVE  OneInv(s)'
  <2>1. r = s
    OBVIOUS
  <2> QED BY <1>1, <2>1, SendOne, SendReturnsOne
<1>2. CASE Recv
  BY <1>2, RecvOne
<1>3. CASE HeaderRead
  BY <1>3, HeaderReadOne
<1>4. CASE FrameRead
  BY <1>4, FrameReadOne
<1>5. CASE Close
  <2>1. TypeInv'
    BY <1>5, ReadTypes DEF OneInv
  <2> QED BY <1>5, <2>1 DEF OneInv, StreamInv, GotInv, FramesInv, Close, Current
<1>6. CASE Terminated \/ UNCHANGED vars
  <2>1. UNCHANGED <<tx, stream, part, need, got, frames, open>>
    BY <1>6 DEF Terminated, vars
  <2>2. TypeInv'
    BY <2>1, ReadTypes DEF OneInv, vars
  <2> QED BY <2>1, <2>2 DEF OneInv, StreamInv, Stretch, GotInv, FramesInv, Current
<1> QED BY <1>1, <1>2, <1>3, <1>4, <1>5, <1>6 DEF Next

(* With one thread sending on the socket, recv_message returns the         *)
(* messages whole and in the order sent, wherever send and recv cut the    *)
(* stream (send_all, recv_all).                                            *)
THEOREM OneSenderFrames == ASSUME NEW s, Senders = {s} PROVE Spec => []FramesAsSent
<1>1. Init => OneInv(s)
  BY InitOne
<1>2. OneInv(s) /\ [Next]_vars => OneInv(s)'
  BY NextOne
<1>3. OneInv(s) => FramesAsSent
  <2> SUFFICES ASSUME OneInv(s) PROVE FramesAsSent
    OBVIOUS
  <2>1. frames \in Seq(Seq(Byte)) /\ Len(frames) \in Nat /\ DOMAIN frames = 1 .. Len(frames)
    BY Lengths0 DEF OneInv
  <2>2. ASSUME NEW k \in 1 .. Len(frames)
        PROVE  frames[k] = Frame(s, k) /\ frames[k][1][1] = s /\ frames[k][1][2] = k
    <3>1. k \in 1 .. Len(Payload[s]) /\ frames[k] = Frame(s, k)
      BY DEF OneInv, FramesInv
    <3>2. 1 \in 1 .. Size(s, k)
      BY <3>1, Payloads
    <3>3. Frame(s, k)[1] = <<s, k, 1>>
      BY <3>1, <3>2, FrameBytes
    <3> QED BY <3>1, <3>3
  <2> DEFINE S == {f \in ToSet(frames) : f[1][1] = s}
  <2>3. Keep(frames, S) = frames
    <3>1. frames \in Seq(ToSet(frames))
      <4>1. \A k \in 1 .. Len(frames) : frames[k] \in ToSet(frames)
        BY <2>1 DEF ToSet
      <4>2. frames = [k \in 1 .. Len(frames) |-> frames[k]]
        BY <2>1
      <4>3. frames \in [1 .. Len(frames) -> ToSet(frames)]
        BY <4>1, <4>2
      <4>4. PICK n \in Nat : n = Len(frames)
        BY <2>1
      <4>5. PICK U : U = ToSet(frames)
        OBVIOUS
      <4>6. frames \in [1 .. n -> U]
        BY <4>3, <4>4, <4>5
      <4>7. frames \in Seq(U)
        BY <4>6, SeqDef
      <4> QED BY <4>5, <4>7
    <3>2. ToSet(frames) \subseteq S
      BY <2>1, <2>2 DEF ToSet
    <3> HIDE DEF S
    <3> QED BY <3>1, <3>2, KeepAll
  <2>4. frames = [k \in 1 .. Len(frames) |-> Frame(s, k)]
    BY <2>1, <2>2
  <2>5. \A k \in DOMAIN frames : frames[k] = Frame(frames[k][1][1], frames[k][1][2])
    BY <2>1, <2>2
  <2>6. \A r \in Senders :
          LET mine == Keep(frames, {f \in ToSet(frames) : f[1][1] = r})
          IN  mine = [k \in 1 .. Len(mine) |-> Frame(r, k)]
    BY <2>3, <2>4
  <2> QED BY <2>5, <2>6 DEF FramesAsSent
<1> QED BY <1>1, <1>2, <1>3, PTL DEF Spec

-----------------------------------------------------------------------------
(* z counts the elements of the first n of seqs.                           *)
Counts(seqs, z) ==
    /\ z \in [0 .. Len(seqs) -> Nat] /\ z[0] = 0
    /\ \A n \in 1 .. Len(seqs) : z[n] = z[n - 1] + Len(seqs[n])

(* The equation that the function inside FlattenSeq satisfies.             *)
Flattens(f, seqs) ==
    f = [i \in 1 .. Len(seqs) |-> IF i = 1 THEN seqs[i] ELSE f[i - 1] \o seqs[i]]

LEMMA FlattenExists ==
    ASSUME NEW U, NEW seqs \in Seq(Seq(U))
    PROVE  \E f : Flattens(f, seqs)
<1> DEFINE N == Len(seqs)
           G == [x \in Nat \X Seq(U) |->
                   IF x[1] \in 1 .. N THEN x[2] \o seqs[x[1]] ELSE <<>>]
<1>1. N \in Nat /\ <<>> \in Seq(U) /\ \A k \in 1 .. N : seqs[k] \in Seq(U)
  OBVIOUS
<1>2. G \in [Nat \X Seq(U) -> Seq(U)]
  BY <1>1
<1> HIDE DEF G, N
<1> DEFINE V == Seq(U)
           none == <<>>
<1>3. PICK f \in [0 .. N -> Seq(U)] :
        f[0] = <<>> /\ \A k \in 1 .. N : f[k] = G[<<k, f[k - 1]>>]
  <2>1. N \in Nat /\ none \in V /\ G \in [Nat \X V -> V]
    BY <1>1, <1>2
  <2> HIDE DEF V, none
  <2>2. PICK f : Recurs(f, V, none, G, N)
    BY <2>1, RecursionExists
  <2> QED BY <2>2 DEF Recurs, V, none
<1>4. ASSUME NEW k \in 1 .. N
      PROVE  f[k] = f[k - 1] \o seqs[k] /\ f[k - 1] \in Seq(U)
  <2>1. k \in Nat /\ k - 1 \in 0 .. N
    BY <1>1
  <2>2. f[k - 1] \in Seq(U)
    BY <1>3, <2>1
  <2>3. G[<<k, f[k - 1]>>] = f[k - 1] \o seqs[k]
    BY <2>1, <2>2 DEF G
  <2> QED BY <1>3, <2>2, <2>3
<1> DEFINE g == [i \in 1 .. N |-> f[i]]
<1>5. ASSUME NEW i \in 1 .. N
      PROVE  g[i] = IF i = 1 THEN seqs[i] ELSE g[i - 1] \o seqs[i]
  <2>1. CASE i = 1
    <3>0. g[i] = f[1] /\ 1 \in 1 .. N /\ 1 - 1 = 0
      BY <2>1
    <3>1. g[i] = <<>> \o seqs[1]
      BY <1>3, <1>4, <3>0
    <3>2. <<>> \o seqs[1] = seqs[1]
      BY <1>1, <2>1
    <3> QED BY <2>1, <3>1, <3>2
  <2>2. CASE i # 1
    <3>1. i - 1 \in 1 .. N
      BY <1>1, <2>2
    <3> QED BY <1>4, <2>2, <3>1
  <2> QED BY <2>1, <2>2
<1>6. Flattens(g, seqs)
  <2>1. g = [i \in 1 .. N |-> g[i]]
    OBVIOUS
  <2> HIDE DEF g
  <2> QED BY <1>5, <2>1 DEF Flattens, N
<1> QED BY <1>6

(* The n-th of seqs stands in FlattenSeq(seqs) behind those before it.     *)
Joined(F, seqs, z) ==
    /\ Len(F) = z[Len(seqs)]
    /\ \A n \in 1 .. Len(seqs) : \A j \in 1 .. Len(seqs[n]) :
         z[n - 1] + j \in 1 .. z[Len(seqs)] /\ F[z[n - 1] + j] = seqs[n][j]

LEMMA FlattenValue ==
    ASSUME NEW U, NEW seqs \in Seq(Seq(U)), NEW z, Counts(seqs, z)
    PROVE  FlattenSeq(seqs) \in Seq(U) /\ Joined(FlattenSeq(seqs), seqs, z)
<1> DEFINE N == Len(seqs)
           F == FlattenSeq(seqs)
           f == CHOOSE h : Flattens(h, seqs)
<1>1. N \in Nat /\ \A k \in 1 .. N : seqs[k] \in Seq(U) /\ Len(seqs[k]) \in Nat
  OBVIOUS
<1>2. z \in [0 .. N -> Nat] /\ z[0] = 0 /\ \A n \in 1 .. N : z[n] = z[n - 1] + Len(seqs[n])
  BY DEF Counts
<1>3. CASE N = 0
  BY <1>2, <1>3 DEF FlattenSeq, Joined
<1>4. CASE N # 0
  <2>1. F = f[N]
    BY <1>4 DEF FlattenSeq, Flattens
  <2>2. Flattens(f, seqs)
    BY FlattenExists
  <2> HIDE DEF f
  <2>3. \A i \in 1 .. N : f[i] = IF i = 1 THEN seqs[i] ELSE f[i - 1] \o seqs[i]
    BY <2>2 DEF Flattens
  <2> DEFINE Good(i) == /\ f[i] \in Seq(U) /\ Len(f[i]) = z[i]
                        /\ \A n \in 1 .. i : \A j \in 1 .. Len(seqs[n]) :
                             z[n - 1] + j \in 1 .. z[i] /\ f[i][z[n - 1] + j] = seqs[n][j]
             Q == {i \in Nat : i + 1 <= N => Good(i + 1)}
  <2> HIDE DEF N
  <2>4. 0 \in Q
    <3>1. f[1] = seqs[1] /\ z[1] = Len(seqs[1]) /\ 1 \in 1 .. N
      BY <1>1, <1>2, <1>4, <2>3
    <3> QED BY <1>1, <1>2, <3>1
  <2>5. ASSUME NEW i \in Nat, i \in Q PROVE i + 1 \in Q
    <3> SUFFICES ASSUME i + 2 <= N PROVE Good(i + 2)
      <4>1. i + 1 \in Nat /\ (i + 1) + 1 = i + 2
        OBVIOUS
      <4> HIDE DEF Good
      <4> QED BY <4>1
    <3> DEFINE k == i + 2
    <3>1. k \in 1 .. N /\ k - 1 \in 1 .. N /\ k # 1 /\ k - 1 = i + 1
      BY <1>1
    <3>2. Good(k - 1)
      <4> HIDE DEF Good, k
      <4> QED BY <2>5, <3>1
    <3>3. f[k] = f[k - 1] \o seqs[k] /\ seqs[k] \in Seq(U) /\ f[k - 1] \in Seq(U)
      BY <1>1, <2>3, <3>1, <3>2
    <3>4. z[k] = z[k - 1] + Len(seqs[k]) /\ z[k - 1] \in Nat /\ Len(seqs[k]) \in Nat /\ z[k] \in Nat
      BY <1>1, <1>2, <3>1
    <3> HIDE DEF k
    <3>5. f[k] \in Seq(U) /\ Len(f[k]) = z[k]
          /\ (\A j \in 1 .. z[k - 1] : f[k][j] = f[k - 1][j])
          /\ (\A j \in 1 .. Len(seqs[k]) : f[k][z[k - 1] + j] = seqs[k][j])
      <4> DEFINE a == f[k - 1]
                 b == seqs[k]
      <4>1. a \in Seq(U) /\ b \in Seq(U) /\ Len(a) = z[k - 1] /\ f[k] = a \o b
        BY <3>2, <3>3
      <4> HIDE DEF a, b
      <4>2. /\ a \o b \in Seq(U) /\ Len(a \o b) = Len(a) + Len(b)
            /\ \A j \in 1 .. Len(a) + Len(b) :
                 (a \o b)[j] = IF j <= Len(a) THEN a[j] ELSE b[j - Len(a)]
        BY <4>1, ConcatProperties
      <4>3. Len(a) \in Nat /\ Len(b) \in Nat
        BY <4>1
      <4>4. \A j \in 1 .. Len(a) : (a \o b)[j] = a[j]
        BY <4>2, <4>3
      <4>5. \A j \in 1 .. Len(b) : (a \o b)[Len(a) + j] = b[j]
        BY <4>2, <4>3
      <4>6. Len(b) = Len(seqs[k])
        BY DEF b
      <4> QED BY <3>4, <4>1, <4>2, <4>4, <4>5, <4>6 DEF a, b
    <3>6. ASSUME NEW n \in 1 .. k, NEW j \in 1 .. Len(seqs[n])
          PROVE  z[n - 1] + j \in 1 .. z[k] /\ f[k][z[n - 1] + j] = seqs[n][j]
      <4>1. CASE n = k
        <5>1. j \in 1 .. Len(seqs[k])
          BY <4>1
        <5> QED BY <3>4, <3>5, <4>1, <5>1
      <4>2. CASE n # k
        <5>1. n \in 1 .. k - 1
          BY <3>1, <4>2
        <5>2. z[n - 1] + j \in 1 .. z[k - 1] /\ f[k - 1][z[n - 1] + j] = seqs[n][j]
          BY <3>2, <5>1
        <5>3. f[k][z[n - 1] + j] = f[k - 1][z[n - 1] + j]
          BY <3>5, <5>2
        <5>4. z[n - 1] + j \in 1 .. z[k]
          <6> DEFINE x == z[n - 1] + j
          <6>1. x \in 1 .. z[k - 1]
            BY <5>2
          <6> HIDE DEF x
          <6>2. x \in 1 .. z[k]
            BY <3>4, <6>1
          <6> QED BY <6>2 DEF x
        <5> QED BY <5>2, <5>3, <5>4
      <4> QED BY <4>1, <4>2
    <3>7. Good(k)
      BY <3>5, <3>6
    <3> HIDE DEF Good
    <3> QED BY <3>7 DEF k
  <2>6. Nat \subseteq Q
    <3> HIDE DEF Q
    <3> QED BY <2>4, <2>5, Induct
  <2>7. N - 1 \in Nat /\ (N - 1) + 1 = N
    BY <1>1, <1>4
  <2>8. Good(N)
    <3> HIDE DEF Good
    <3> QED BY <2>6, <2>7
  <2>9. /\ f[N] \in Seq(U) /\ Len(f[N]) = z[N]
        /\ \A n \in 1 .. N : \A j \in 1 .. Len(seqs[n]) :
              z[n - 1] + j \in 1 .. z[N] /\ f[N][z[n - 1] + j] = seqs[n][j]
    BY <2>8
  <2> HIDE DEF F, Good
  <2>10. /\ F \in Seq(U) /\ Len(F) = z[N]
         /\ \A n \in 1 .. N : \A j \in 1 .. Len(seqs[n]) :
               z[n - 1] + j \in 1 .. z[N] /\ F[z[n - 1] + j] = seqs[n][j]
    BY <2>1, <2>9
  <2> QED BY <2>10 DEF F, N, Joined
<1> QED BY <1>3, <1>4

(* The same where every element of seqs is w long.                         *)
Even(seqs, w) == \A n \in 1 .. Len(seqs) : Len(seqs[n]) = w
Stacked(F, seqs, w) ==
    /\ Len(F) = w * Len(seqs)
    /\ \A n \in 1 .. Len(seqs) : \A j \in 1 .. w :
         w * (n - 1) + j \in 1 .. w * Len(seqs) /\ F[w * (n - 1) + j] = seqs[n][j]

LEMMA FlattenEven ==
    ASSUME NEW U, NEW seqs \in Seq(Seq(U)), NEW w \in Nat, Even(seqs, w)
    PROVE  FlattenSeq(seqs) \in Seq(U) /\ Stacked(FlattenSeq(seqs), seqs, w)
<1> DEFINE z == [n \in 0 .. Len(seqs) |-> w * n]
<1>1. Counts(seqs, z)
  <2>1. Len(seqs) \in Nat
    OBVIOUS
  <2>2. \A n \in Nat : w * n \in Nat
    OBVIOUS
  <2>3. \A n \in 1 .. Len(seqs) : w * n = w * (n - 1) + w
    OBVIOUS
  <2>4. \A n \in 1 .. Len(seqs) : z[n] = w * n /\ z[n - 1] = w * (n - 1)
    BY <2>1
  <2>5. z[0] = 0
    BY <2>1
  <2>6. \A n \in 1 .. Len(seqs) : Len(seqs[n]) = w
    BY DEF Even
  <2> QED BY <2>1, <2>2, <2>3, <2>4, <2>5, <2>6 DEF Counts
<1>2. Len(seqs) \in Nat /\ \A n \in 1 .. Len(seqs) : z[n] = w * n /\ z[n - 1] = w * (n - 1)
  OBVIOUS
<1>3. z[Len(seqs)] = w * Len(seqs)
  OBVIOUS
<1> HIDE DEF z
<1>4. /\ FlattenSeq(seqs) \in Seq(U) /\ Len(FlattenSeq(seqs)) = z[Len(seqs)]
      /\ \A n \in 1 .. Len(seqs) : \A j \in 1 .. Len(seqs[n]) :
            /\ z[n - 1] + j \in 1 .. z[Len(seqs)]
            /\ FlattenSeq(seqs)[z[n - 1] + j] = seqs[n][j]
  BY <1>1, FlattenValue DEF Joined
<1>5. ASSUME NEW n \in 1 .. Len(seqs), NEW j \in 1 .. w
      PROVE  /\ w * (n - 1) + j \in 1 .. w * Len(seqs)
             /\ FlattenSeq(seqs)[w * (n - 1) + j] = seqs[n][j]
  <2>1. z[n - 1] = w * (n - 1) /\ j \in 1 .. Len(seqs[n])
    BY <1>2 DEF Even
  <2> QED BY <1>3, <1>4, <2>1
<1> QED BY <1>3, <1>4, <1>5 DEF Stacked

LEMMA ConcatValue ==
    ASSUME NEW U, NEW p \in Seq(U), NEW q \in Seq(U)
    PROVE  /\ p \o q \in Seq(U) /\ Len(p \o q) = Len(p) + Len(q)
           /\ Len(p) \in Nat /\ Len(q) \in Nat
           /\ \A j \in 1 .. Len(p) : (p \o q)[j] = p[j]
           /\ \A j \in 1 .. Len(q) : (p \o q)[Len(p) + j] = q[j]
<1>1. /\ p \o q \in Seq(U) /\ Len(p \o q) = Len(p) + Len(q)
      /\ \A j \in 1 .. Len(p) + Len(q) :
           (p \o q)[j] = IF j <= Len(p) THEN p[j] ELSE q[j - Len(p)]
  BY ConcatProperties
<1>2. Len(p) \in Nat /\ Len(q) \in Nat
  OBVIOUS
<1>3. \A j \in 1 .. Len(p) : (p \o q)[j] = p[j]
  BY <1>1, <1>2
<1>4. \A j \in 1 .. Len(q) : (p \o q)[Len(p) + j] = q[j]
  BY <1>1, <1>2
<1> QED BY <1>1, <1>2, <1>3, <1>4

-----------------------------------------------------------------------------
(* A cast from int to uint32_t and back.                                   *)
LEMMA WordsAgree ==
    /\ \A n \in Ints : Word(n) \in Words /\ Int32(Word(n)) = n
    /\ \A n \in Words : Word(n) = n
    /\ WordRange \in Nat /\ 1 \in Words /\ 0 \in Words
<1>1. WordRange \in Nat \ {0} /\ WordRange > 1
  BY WireAssumption
<1>2. 2 * (WordRange \div 2) = WordRange /\ WordRange \div 2 \in Nat
  BY WireAssumption
<1>3. ASSUME NEW n \in Words PROVE Word(n) = n
  <2>1. n \in Nat /\ n < WordRange
    BY <1>1 DEF Words
  <2> QED BY <1>1, <2>1 DEF Word
<1>4. ASSUME NEW n \in Ints PROVE Word(n) \in Words /\ Int32(Word(n)) = n
  <2> DEFINE h == WordRange \div 2
  <2>1. n \in Int /\ -h <= n /\ n < h /\ h \in Nat /\ 2 * h = WordRange
    BY <1>2 DEF Ints
  <2>2. CASE n >= 0
    <3>1. Word(n) = n
      BY <1>1, <2>1, <2>2 DEF Word
    <3> QED BY <2>1, <2>2, <3>1 DEF Words, Int32
  <2>3. CASE n < 0
    <3>1. Word(n) = n + WordRange
      <4> HIDE DEF h
      <4>1. -WordRange <= n
        BY <2>1
      <4> QED BY <1>1, <2>1, <2>3, <4>1 DEF Word
    <3>2. Word(n) \in Int /\ h <= Word(n) /\ Word(n) < WordRange
      <4> HIDE DEF h
      <4> QED BY <1>1, <2>1, <2>3, <3>1
    <3> QED BY <1>1, <2>1, <3>1, <3>2 DEF Words, Int32
  <2> HIDE DEF h
  <2> QED BY <2>1, <2>2, <2>3
<1>5. 1 \in Words /\ 0 \in Words
  BY <1>1 DEF Words
<1> QED BY <1>1, <1>3, <1>4, <1>5

LEMMA PosValue ==
    ASSUME NEW pos \in Pos
    PROVE  /\ PosWords(pos) \in Seq(Words) /\ Len(PosWords(pos)) = 2
           /\ PosWords(pos)[1] = Word(pos[1]) /\ PosWords(pos)[2] = Word(pos[2])
           /\ pos = <<Int32(Word(pos[1])), Int32(Word(pos[2]))>>
<1>1. pos[1] \in Ints /\ pos[2] \in Ints /\ pos = <<pos[1], pos[2]>>
  BY DEF Pos
<1>2. Word(pos[1]) \in Words /\ Word(pos[2]) \in Words
  BY <1>1, WordsAgree
<1> QED BY <1>1, <1>2, WordsAgree DEF PosWords

LEMMA FruitValue ==
    ASSUME NEW f \in Fruit
    PROVE  /\ FruitWords(f) \in Seq(Words) /\ Len(FruitWords(f)) = 3
           /\ FruitWords(f)[1] = Word(f.pos[1]) /\ FruitWords(f)[2] = Word(f.pos[2])
           /\ FruitWords(f)[3] = IF f.active THEN 1 ELSE 0
<1>1. f.pos \in Pos /\ f.active \in BOOLEAN
  BY DEF Fruit
<1> DEFINE p == PosWords(f.pos)
           q == <<IF f.active THEN 1 ELSE 0>>
<1>2. p \in Seq(Words) /\ Len(p) = 2 /\ p[1] = Word(f.pos[1]) /\ p[2] = Word(f.pos[2])
  BY <1>1, PosValue
<1>3. q \in Seq(Words) /\ Len(q) = 1 /\ q[1] = IF f.active THEN 1 ELSE 0
  BY WordsAgree
<1> HIDE DEF p, q
<1>4. /\ p \o q \in Seq(Words) /\ Len(p \o q) = 3
      /\ (p \o q)[1] = p[1] /\ (p \o q)[2] = p[2] /\ (p \o q)[3] = q[1]
  <2>1. 1 \in 1 .. Len(p) /\ 2 \in 1 .. Len(p) /\ 1 \in 1 .. Len(q) /\ Len(p) + 1 = 3
    BY <1>2, <1>3
  <2>0. p \in Seq(Words) /\ q \in Seq(Words)
    BY <1>2, <1>3
  <2>2. /\ p \o q \in Seq(Words) /\ Len(p \o q) = Len(p) + Len(q)
        /\ Len(p) \in Nat /\ Len(q) \in Nat
        /\ \A j \in 1 .. Len(p) : (p \o q)[j] = p[j]
        /\ \A j \in 1 .. Len(q) : (p \o q)[Len(p) + j] = q[j]
    BY <2>0, ConcatValue
  <2>3. (p \o q)[Len(p) + 1] = q[1] /\ (p \o q)[1] = p[1] /\ (p \o q)[2] = p[2]
    BY <2>1, <2>2
  <2> QED BY <1>2, <1>3, <2>1, <2>2, <2>3
<1> QED BY <1>2, <1>3, <1>4 DEF FruitWords, p, q

LEMMA PositionsValue ==
    ASSUME NEW b \in Seq(Pos)
    PROVE  /\ BodyWords(b) \in Seq(Words) /\ Len(BodyWords(b)) = 2 * Len(b)
           /\ \A k \in 1 .. Len(b) : /\ BodyWords(b)[2 * (k - 1) + 1] = Word(b[k][1])
                                     /\ BodyWords(b)[2 * (k - 1) + 2] = Word(b[k][2])
<1> DEFINE w == [k \in DOMAIN b |-> PosWords(b[k])]
<1>1. Len(b) \in Nat /\ DOMAIN b = 1 .. Len(b) /\ \A k \in 1 .. Len(b) : b[k] \in Pos
  OBVIOUS
<1>2. \A k \in 1 .. Len(b) : /\ PosWords(b[k]) \in Seq(Words) /\ Len(PosWords(b[k])) = 2
                             /\ PosWords(b[k])[1] = Word(b[k][1])
                             /\ PosWords(b[k])[2] = Word(b[k][2])
  BY <1>1, PosValue
<1>3. w \in Seq(Seq(Words)) /\ Len(w) = Len(b) /\ \A k \in 1 .. Len(b) : w[k] = PosWords(b[k])
  BY <1>1, <1>2
<1>4. BodyWords(b) = FlattenSeq(w)
  BY DEF BodyWords
<1> HIDE DEF w
<1>5. Even(w, 2)
  BY <1>2, <1>3 DEF Even
<1>6. FlattenSeq(w) \in Seq(Words) /\ Stacked(FlattenSeq(w), w, 2)
  BY <1>3, <1>5, FlattenEven
<1>7. ASSUME NEW k \in 1 .. Len(b), NEW j \in 1 .. 2
      PROVE  BodyWords(b)[2 * (k - 1) + j] = PosWords(b[k])[j]
  BY <1>3, <1>4, <1>6 DEF Stacked
<1>8. BodyWords(b) \in Seq(Words) /\ Len(BodyWords(b)) = 2 * Len(b)
  BY <1>3, <1>4, <1>6 DEF Stacked
<1> QED BY <1>2, <1>7, <1>8

LEMMA FruitsValue ==
    ASSUME NEW fs \in Seq(Fruit), NEW F, F = FlattenSeq([k \in DOMAIN fs |-> FruitWords(fs[k])])
    PROVE  /\ F \in Seq(Words) /\ Len(F) = 3 * Len(fs)
           /\ \A k \in 1 .. Len(fs) :
                /\ F[3 * (k - 1) + 1] = Word(fs[k].pos[1]) /\ F[3 * (k - 1) + 2] = Word(fs[k].pos[2])
                /\ F[3 * (k - 1) + 3] = IF fs[k].active THEN 1 ELSE 0
<1> DEFINE w == [k \in DOMAIN fs |-> FruitWords(fs[k])]
<1>1. Len(fs) \in Nat /\ DOMAIN fs = 1 .. Len(fs) /\ \A k \in 1 .. Len(fs) : fs[k] \in Fruit
  OBVIOUS
<1>2. \A k \in 1 .. Len(fs) : /\ FruitWords(fs[k]) \in Seq(Words) /\ Len(FruitWords(fs[k])) = 3
                              /\ FruitWords(fs[k])[1] = Word(fs[k].pos[1])
                              /\ FruitWords(fs[k])[2] = Word(fs[k].pos[2])
                              /\ FruitWords(fs[k])[3] = IF fs[k].active THEN 1 ELSE 0
  BY <1>1, FruitValue
<1>3. w \in Seq(Seq(Words)) /\ Len(w) = Len(fs) /\ \A k \in 1 .. Len(fs) : w[k] = FruitWords(fs[k])
  BY <1>1, <1>2
<1>4. F = FlattenSeq(w)
  OBVIOUS
<1> HIDE DEF w
<1>5. Even(w, 3)
  BY <1>2, <1>3 DEF Even
<1>6. FlattenSeq(w) \in Seq(Words) /\ Stacked(FlattenSeq(w), w, 3)
  BY <1>3, <1>5, FlattenEven
<1>7. /\ F \in Seq(Words) /\ Len(F) = 3 * Len(w)
      /\ \A n \in 1 .. Len(w) : \A j \in 1 .. 3 : F[3 * (n - 1) + j] = w[n][j]
  BY <1>4, <1>6 DEF Stacked
<1>8. ASSUME NEW k \in 1 .. Len(fs), NEW j \in 1 .. 3
      PROVE  F[3 * (k - 1) + j] = FruitWords(fs[k])[j]
  BY <1>3, <1>7
<1> HIDE DEF w
<1> QED BY <1>2, <1>3, <1>7, <1>8

LEMMA SnakeValue ==
    ASSUME NEW b \in Array(Pos)
    PROVE  /\ SnakeWords(b) \in Seq(Words) /\ Len(SnakeWords(b)) = 1 + 2 * Len(b)
           /\ SnakeWords(b)[1] = Len(b)
           /\ \A k \in 1 .. Len(b) : /\ SnakeWords(b)[2 * k] = Word(b[k][1])
                                     /\ SnakeWords(b)[2 * k + 1] = Word(b[k][2])
<1>1. b \in Seq(Pos) /\ Len(b) \in Words /\ Len(b) \in Nat
  BY DEF Array
<1> DEFINE l == <<Word(Len(b))>>
           w == BodyWords(b)
<1>2. l \in Seq(Words) /\ Len(l) = 1 /\ l[1] = Len(b)
  BY <1>1, WordsAgree
<1>3. /\ w \in Seq(Words) /\ Len(w) = 2 * Len(b)
      /\ \A k \in 1 .. Len(b) : /\ w[2 * (k - 1) + 1] = Word(b[k][1])
                                /\ w[2 * (k - 1) + 2] = Word(b[k][2])
  BY <1>1, PositionsValue
<1>4. SnakeWords(b) = l \o w
  BY DEF SnakeWords
<1> HIDE DEF l, w
<1>5. /\ l \o w \in Seq(Words) /\ Len(l \o w) = 1 + 2 * Len(b)
      /\ (l \o w)[1] = l[1] /\ \A j \in 1 .. 2 * Len(b) : (l \o w)[1 + j] = w[j]
  <2>1. 1 \in 1 .. Len(l)
    BY <1>2
  <2>0. l \in Seq(Words) /\ w \in Seq(Words)
    BY <1>2, <1>3
  <2>2. /\ l \o w \in Seq(Words) /\ Len(l \o w) = Len(l) + Len(w)
        /\ Len(l) \in Nat /\ Len(w) \in Nat
        /\ \A j \in 1 .. Len(l) : (l \o w)[j] = l[j]
        /\ \A j \in 1 .. Len(w) : (l \o w)[Len(l) + j] = w[j]
    BY <2>0, ConcatValue
  <2> QED BY <1>2, <1>3, <2>1, <2>2
<1>6. ASSUME NEW k \in 1 .. Len(b)
      PROVE  (l \o w)[2 * k] = Word(b[k][1]) /\ (l \o w)[2 * k + 1] = Word(b[k][2])
  <2>1. /\ 2 * (k - 1) + 1 \in 1 .. 2 * Len(b) /\ 2 * (k - 1) + 2 \in 1 .. 2 * Len(b)
        /\ 1 + (2 * (k - 1) + 1) = 2 * k /\ 1 + (2 * (k - 1) + 2) = 2 * k + 1
    BY <1>1
  <2>2. (l \o w)[1 + (2 * (k - 1) + 1)] = w[2 * (k - 1) + 1]
    BY <1>5, <2>1
  <2>3. (l \o w)[1 + (2 * (k - 1) + 2)] = w[2 * (k - 1) + 2]
    BY <1>5, <2>1
  <2>4. (l \o w)[2 * k] = w[2 * (k - 1) + 1] /\ (l \o w)[2 * k + 1] = w[2 * (k - 1) + 2]
    BY <2>1, <2>2, <2>3
  <2> QED BY <1>3, <2>4
<1> QED BY <1>2, <1>4, <1>5, <1>6

(* z[n] is the place of the last word of the n-th snake.                   *)
Ends(bs, z) ==
    /\ z \in [0 .. Len(bs) -> Nat] /\ z[0] = 8
    /\ \A n \in 1 .. Len(bs) : z[n] = z[n - 1] + 1 + 2 * Len(bs[n])

LEMMA SnapshotValue ==
    ASSUME NEW st \in Snapshot
    PROVE  /\ st.snakes \in Seq(Array(Pos)) /\ Len(st.snakes) \in Words
           /\ st.fruits \in Seq(Fruit) /\ Len(st.fruits) \in Words
           /\ st.obstacles \in Seq(Pos) /\ Len(st.obstacles) \in Words
           /\ st.width \in Ints /\ st.height \in Ints /\ st.score \in Words
           /\ st.elapsed \in Ints /\ st.remaining \in Ints
           /\ Words \subseteq Nat
           /\ \A n \in 1 .. Len(st.snakes) :
                st.snakes[n] \in Array(Pos) /\ st.snakes[n] \in Seq(Pos)
                /\ Len(st.snakes[n]) \in Nat /\ Len(st.snakes[n]) \in Words
<1>1. Words \subseteq Nat
  BY DEF Words
<1>2. \A a \in Array(Pos) : a \in Seq(Pos) /\ Len(a) \in Nat /\ Len(a) \in Words
  BY DEF Array
<1>3. st.snakes \in Array(Array(Pos)) /\ st.fruits \in Array(Fruit) /\ st.obstacles \in Array(Pos)
  BY DEF Snapshot
<1>4. st.snakes \in Seq(Array(Pos)) /\ Len(st.snakes) \in Words
  BY <1>3 DEF Array
<1>5. st.fruits \in Seq(Fruit) /\ Len(st.fruits) \in Words
  BY <1>3 DEF Array
<1>6. \A n \in 1 .. Len(st.snakes) : st.snakes[n] \in Array(Pos)
  BY <1>4
<1> QED BY <1>1, <1>2, <1>3, <1>4, <1>5, <1>6 DEF Snapshot

LEMMA PayloadSizeValue ==
    ASSUME NEW st \in Snapshot
    PROVE  \E z : /\ Ends(st.snakes, z)
                  /\ PayloadSize(st)
                     = z[Len(st.snakes)] + 3 * Len(st.fruits) + 2 * Len(st.obstacles)
<1> DEFINE bs == st.snakes
           N == Len(bs)
           Eq(f) == f = [n \in 0 .. N |-> IF n = 0 THEN 8 ELSE f[n - 1] + 1 + 2 * Len(bs[n])]
           G == [x \in Nat \X Nat |-> IF x[1] \in 1 .. N THEN x[2] + 1 + 2 * Len(bs[x[1]]) ELSE 0]
<1>1. N \in Nat /\ \A n \in 1 .. N : Len(bs[n]) \in Nat
  BY SnapshotValue
<1>2. G \in [Nat \X Nat -> Nat]
  BY <1>1
<1> HIDE DEF N, G
<1>3. PICK f : Recurs(f, Nat, 8, G, N)
  BY <1>1, <1>2, RecursionExists
<1>4. f \in [0 .. N -> Nat] /\ f[0] = 8 /\ \A n \in 1 .. N : f[n] = G[<<n, f[n - 1]>>]
  BY <1>3 DEF Recurs
<1>5. ASSUME NEW n \in 1 .. N
      PROVE  f[n] = f[n - 1] + 1 + 2 * Len(bs[n])
  <2>1. n \in Nat /\ n - 1 \in 0 .. N
    BY <1>1
  <2>2. f[n - 1] \in Nat
    BY <1>4, <2>1
  <2>3. G[<<n, f[n - 1]>>] = f[n - 1] + 1 + 2 * Len(bs[n])
    BY <2>1, <2>2 DEF G
  <2> QED BY <1>4, <2>3
<1>6. Eq(f)
  <2>1. \A n \in 0 .. N : f[n] = IF n = 0 THEN 8 ELSE f[n - 1] + 1 + 2 * Len(bs[n])
    BY <1>1, <1>4, <1>5
  <2>2. f = [n \in 0 .. N |-> f[n]]
    BY <1>4
  <2> QED BY <2>1, <2>2
<1> DEFINE z == CHOOSE h : Eq(h)
<1>7. Eq(z)
  <2> HIDE DEF Eq
  <2> QED BY <1>6
<1>8. PayloadSize(st) = z[N] + 3 * Len(st.fruits) + 2 * Len(st.obstacles)
  BY DEF PayloadSize, N
<1> HIDE DEF z
<1>9. \A n \in 0 .. N : z[n] = IF n = 0 THEN 8 ELSE z[n - 1] + 1 + 2 * Len(bs[n])
  BY <1>7
<1>10. ASSUME NEW n \in 0 .. N PROVE z[n] \in Nat
  <2> DEFINE P == {k \in Nat : k <= N => z[k] \in Nat}
  <2>1. 0 \in P
    BY <1>1, <1>9
  <2>2. ASSUME NEW k \in Nat, k \in P PROVE k + 1 \in P
    <3> SUFFICES ASSUME k + 1 <= N PROVE z[k + 1] \in Nat
      OBVIOUS
    <3>1. k + 1 \in 0 .. N /\ k + 1 \in 1 .. N /\ k + 1 # 0 /\ (k + 1) - 1 = k /\ z[k] \in Nat
      BY <1>1, <2>2
    <3>2. Len(bs[k + 1]) \in Nat
      BY <1>1, <3>1
    <3>3. z[k + 1] = z[k] + 1 + 2 * Len(bs[k + 1])
      BY <1>9, <3>1
    <3> QED BY <3>1, <3>2, <3>3
  <2>3. Nat \subseteq P
    <3> HIDE DEF P
    <3> QED BY <2>1, <2>2, Induct
  <2> QED BY <2>3
<1>11. Ends(bs, z)
  <2>1. z \in [0 .. N -> Nat]
    <3>1. z = [n \in 0 .. N |-> z[n]]
      BY <1>7
    <3> QED BY <1>10, <3>1
  <2>2. z[0] = 8
    BY <1>1, <1>9
  <2>3. \A n \in 1 .. N : z[n] = z[n - 1] + 1 + 2 * Len(bs[n])
    BY <1>9
  <2> QED BY <2>1, <2>2, <2>3 DEF Ends, N
<1> QED BY <1>8, <1>11 DEF N

(* Where the words of a payload are.                                       *)
HeaderIn(st, p) ==
    /\ p[1] = Word(st.width) /\ p[2] = Word(st.height) /\ p[3] = st.score
    /\ p[4] = Word(st.elapsed) /\ p[5] = Word(st.remaining)
    /\ p[6] = Len(st.snakes) /\ p[7] = Len(st.fruits) /\ p[8] = Len(st.obstacles)

PosIn(p, k, pos) ==
    k \in DOMAIN p /\ k + 1 \in DOMAIN p /\ p[k] = Word(pos[1]) /\ p[k + 1] = Word(pos[2])

SnakeIn(p, k, b) ==
    /\ k + 1 \in DOMAIN p /\ p[k + 1] = Len(b)
    /\ \A j \in 1 .. Len(b) : PosIn(p, k + 2 * j, b[j])

FruitIn(p, k, f) ==
    /\ PosIn(p, k, f.pos)
    /\ k + 2 \in DOMAIN p /\ p[k + 2] = IF f.active THEN 1 ELSE 0

LaidOut(st, z, p) ==
    LET fruitsEnd == z[Len(st.snakes)] + 3 * Len(st.fruits)
    IN  /\ p \in Seq(Words) /\ Len(p) = fruitsEnd + 2 * Len(st.obstacles)
        /\ \A k \in 1 .. 8 : k \in DOMAIN p
        /\ HeaderIn(st, p)
        /\ \A n \in 1 .. Len(st.snakes) : SnakeIn(p, z[n - 1], st.snakes[n])
        /\ \A n \in 1 .. Len(st.fruits) :
             FruitIn(p, z[Len(st.snakes)] + 3 * (n - 1) + 1, st.fruits[n])
        /\ \A n \in 1 .. Len(st.obstacles) :
             PosIn(p, fruitsEnd + 2 * (n - 1) + 1, st.obstacles[n])

LEMMA HeaderValue ==
    ASSUME NEW st \in Snapshot
    PROVE  /\ HeaderWords(st) \in Seq(Words) /\ Len(HeaderWords(st)) = 8
           /\ HeaderIn(st, HeaderWords(st))
<1>1. /\ Word(st.width) \in Words /\ Word(st.height) \in Words
      /\ Word(st.score) = st.score /\ st.score \in Words
      /\ Word(st.elapsed) \in Words /\ Word(st.remaining) \in Words
  BY SnapshotValue, WordsAgree
<1>2. /\ Word(Len(st.snakes)) = Len(st.snakes) /\ Len(st.snakes) \in Words
      /\ Word(Len(st.fruits)) = Len(st.fruits) /\ Len(st.fruits) \in Words
      /\ Word(Len(st.obstacles)) = Len(st.obstacles) /\ Len(st.obstacles) \in Words
  BY SnapshotValue, WordsAgree
<1> QED BY <1>1, <1>2 DEF HeaderWords, HeaderIn

(* The words of the snakes, seen from the end of the header.               *)
LEMMA SnakesValue ==
    ASSUME NEW st \in Snapshot, NEW z, Ends(st.snakes, z),
           NEW F, F = FlattenSeq([k \in DOMAIN st.snakes |-> SnakeWords(st.snakes[k])])
    PROVE  /\ F \in Seq(Words) /\ 8 + Len(F) = z[Len(st.snakes)] /\ Len(F) \in Nat
           /\ \A n \in 1 .. Len(st.snakes) : z[n - 1] - 8 \in Nat /\ SnakeIn(F, z[n - 1] - 8, st.snakes[n])
<1> DEFINE bs == st.snakes
           N == Len(bs)
           w == [k \in DOMAIN st.snakes |-> SnakeWords(st.snakes[k])]
           y == [n \in 0 .. N |-> z[n] - 8]
<1>1. /\ N \in Nat /\ DOMAIN bs = 1 .. N
      /\ \A n \in 1 .. N : bs[n] \in Array(Pos) /\ Len(bs[n]) \in Nat
  BY SnapshotValue
<1>2. \A n \in 1 .. N :
        /\ SnakeWords(bs[n]) \in Seq(Words) /\ Len(SnakeWords(bs[n])) = 1 + 2 * Len(bs[n])
        /\ SnakeWords(bs[n])[1] = Len(bs[n])
        /\ \A k \in 1 .. Len(bs[n]) : /\ SnakeWords(bs[n])[2 * k] = Word(bs[n][k][1])
                                      /\ SnakeWords(bs[n])[2 * k + 1] = Word(bs[n][k][2])
  BY <1>1, SnakeValue
<1>3. w \in Seq(Seq(Words)) /\ Len(w) = N /\ \A n \in 1 .. N : w[n] = SnakeWords(bs[n])
  BY <1>1, <1>2
<1>4. /\ z \in [0 .. N -> Nat] /\ z[0] = 8
      /\ \A n \in 1 .. N : z[n] = z[n - 1] + 1 + 2 * Len(bs[n])
  BY DEF Ends
<1> HIDE DEF N
<1>5. ASSUME NEW n \in 0 .. N PROVE y[n] \in Nat /\ y[n] = z[n] - 8
  <2> DEFINE P == {k \in Nat : k <= N => z[k] >= 8}
  <2>1. 0 \in P
    BY <1>4
  <2>2. ASSUME NEW k \in Nat, k \in P PROVE k + 1 \in P
    <3> SUFFICES ASSUME k + 1 <= N PROVE z[k + 1] >= 8
      OBVIOUS
    <3>0. k + 1 \in 1 .. N /\ (k + 1) - 1 = k /\ k \in 0 .. N /\ k <= N
      BY <1>1
    <3>1. k + 1 \in 1 .. N /\ (k + 1) - 1 = k /\ z[k] >= 8 /\ z[k] \in Nat
      BY <1>4, <2>2, <3>0
    <3>2. Len(bs[k + 1]) \in Nat /\ z[k + 1] = z[k] + 1 + 2 * Len(bs[k + 1])
      BY <1>1, <1>4, <3>1
    <3> QED BY <3>1, <3>2
  <2>3. Nat \subseteq P
    <3> HIDE DEF P
    <3> QED BY <2>1, <2>2, Induct
  <2>4. n \in Nat /\ n <= N /\ z[n] \in Nat
    BY <1>1, <1>4
  <2>5. z[n] >= 8
    BY <2>3, <2>4
  <2> QED BY <2>4, <2>5
<1>6. F = FlattenSeq(w)
  OBVIOUS
<1> HIDE DEF w
<1>7. Counts(w, y)
  <2>1. y \in [0 .. N -> Nat] /\ y[0] = 0
    BY <1>1, <1>4, <1>5
  <2>2. ASSUME NEW n \in 1 .. N PROVE y[n] = y[n - 1] + Len(w[n])
    <3>1. n \in 0 .. N /\ n - 1 \in 0 .. N
      BY <1>1
    <3>2. y[n] = z[n] - 8 /\ y[n - 1] = z[n - 1] - 8 /\ z[n] \in Nat /\ z[n - 1] \in Nat
      BY <1>4, <1>5, <3>1
    <3>3. z[n] = z[n - 1] + 1 + 2 * Len(bs[n]) /\ Len(w[n]) = 1 + 2 * Len(bs[n]) /\ Len(bs[n]) \in Nat
      BY <1>1, <1>2, <1>3, <1>4
    <3> HIDE DEF y
    <3>4. y[n] = (z[n - 1] + 1 + 2 * Len(bs[n])) - 8
      BY <3>2, <3>3
    <3>5. y[n - 1] + Len(w[n]) = (z[n - 1] - 8) + (1 + 2 * Len(bs[n]))
      BY <3>2, <3>3
    <3>6. \A a \in Nat : \A l \in Nat : (a + 1 + 2 * l) - 8 = (a - 8) + (1 + 2 * l)
      OBVIOUS
    <3>7. (z[n - 1] + 1 + 2 * Len(bs[n])) - 8 = (z[n - 1] - 8) + (1 + 2 * Len(bs[n]))
      BY <3>2, <3>3, <3>6
    <3> QED BY <3>4, <3>5, <3>7, Zenon
  <2> HIDE DEF y
  <2> QED BY <1>3, <2>1, <2>2 DEF Counts
<1> HIDE DEF y
<1>8. F \in Seq(Words) /\ Joined(F, w, y)
  BY <1>3, <1>6, <1>7, FlattenValue
<1>9. /\ F \in Seq(Words) /\ DOMAIN F = 1 .. y[N] /\ Len(F) = y[N] /\ y[N] \in Nat
      /\ \A n \in 1 .. N : \A j \in 1 .. 1 + 2 * Len(bs[n]) :
            y[n - 1] + j \in DOMAIN F /\ F[y[n - 1] + j] = SnakeWords(bs[n])[j]
  <2>1. N \in 0 .. N
    BY <1>1
  <2>2. F \in Seq(Words) /\ DOMAIN F = 1 .. y[N] /\ Len(F) = y[N] /\ y[N] \in Nat
    BY <1>3, <1>5, <1>8, <2>1 DEF Joined
  <2>3. ASSUME NEW n \in 1 .. N, NEW j \in 1 .. 1 + 2 * Len(bs[n])
        PROVE  y[n - 1] + j \in DOMAIN F /\ F[y[n - 1] + j] = SnakeWords(bs[n])[j]
    <3>1. w[n] = SnakeWords(bs[n]) /\ Len(w[n]) = 1 + 2 * Len(bs[n]) /\ n \in 1 .. Len(w)
      BY <1>2, <1>3
    <3>2. j \in 1 .. Len(w[n])
      BY <3>1
    <3> QED BY <1>3, <1>8, <2>2, <3>1, <3>2 DEF Joined
  <2> QED BY <2>2, <2>3
<1>10. ASSUME NEW n \in 1 .. N PROVE y[n - 1] \in Nat /\ SnakeIn(F, y[n - 1], bs[n])
  <2>1. y[n - 1] \in Nat /\ Len(bs[n]) \in Nat
    BY <1>1, <1>5
  <2>2. 1 \in 1 .. 1 + 2 * Len(bs[n])
    BY <2>1
  <2>3. y[n - 1] + 1 \in DOMAIN F /\ F[y[n - 1] + 1] = Len(bs[n])
    BY <1>2, <1>9, <2>2
  <2>4. ASSUME NEW k \in 1 .. Len(bs[n]) PROVE PosIn(F, y[n - 1] + 2 * k, bs[n][k])
    <3>1. 2 * k \in 1 .. 1 + 2 * Len(bs[n]) /\ 2 * k + 1 \in 1 .. 1 + 2 * Len(bs[n])
      BY <2>1
    <3>2. y[n - 1] + 2 * k \in DOMAIN F /\ F[y[n - 1] + 2 * k] = SnakeWords(bs[n])[2 * k]
      BY <1>9, <3>1
    <3>3. y[n - 1] + (2 * k + 1) \in DOMAIN F /\ F[y[n - 1] + (2 * k + 1)] = SnakeWords(bs[n])[2 * k + 1]
      BY <1>9, <3>1
    <3>4. y[n - 1] + (2 * k + 1) = (y[n - 1] + 2 * k) + 1
      BY <2>1
    <3> QED BY <1>2, <3>2, <3>3, <3>4 DEF PosIn
  <2> QED BY <2>1, <2>3, <2>4 DEF SnakeIn
<1>11. ASSUME NEW n \in 1 .. N PROVE y[n - 1] = z[n - 1] - 8
  <2>1. n - 1 \in 0 .. N
    BY <1>1
  <2> QED BY <1>5, <2>1
<1>12. 8 + Len(F) = z[N]
  <2>1. y[N] = z[N] - 8 /\ z[N] \in Nat
    BY <1>1, <1>4, <1>5
  <2> QED BY <1>9, <2>1
<1> QED BY <1>9, <1>10, <1>11, <1>12 DEF N

(* What is laid out in q is laid out in p, k words further on.             *)
Within(q, k, p) == \A j \in DOMAIN q : k + j \in DOMAIN p /\ p[k + j] = q[j]

LEMMA WithinPos ==
    ASSUME NEW q \in Seq(Words), NEW k \in Nat, NEW p, Within(q, k, p), NEW j \in Nat, NEW pos,
           PosIn(q, j, pos)
    PROVE  PosIn(p, k + j, pos)
<1>1. k + (j + 1) = (k + j) + 1
  OBVIOUS
<1> QED BY <1>1 DEF Within, PosIn

LEMMA WithinSnake ==
    ASSUME NEW q \in Seq(Words), NEW k \in Nat, NEW p, Within(q, k, p), NEW j \in Nat, NEW b,
           Len(b) \in Nat, SnakeIn(q, j, b)
    PROVE  SnakeIn(p, k + j, b)
<1>1. k + (j + 1) = (k + j) + 1
  OBVIOUS
<1>2. k + j + 1 \in DOMAIN p /\ p[k + j + 1] = Len(b)
  BY <1>1 DEF Within, SnakeIn
<1>3. ASSUME NEW i \in 1 .. Len(b) PROVE PosIn(p, k + j + 2 * i, b[i])
  <2>1. PosIn(q, j + 2 * i, b[i]) /\ j + 2 * i \in Nat /\ k + (j + 2 * i) = k + j + 2 * i
    BY DEF SnakeIn
  <2> QED BY <2>1, WithinPos
<1> QED BY <1>2, <1>3 DEF SnakeIn

(* Four arrays, one after the other.                                       *)
LEMMA FourWithin ==
    ASSUME NEW h \in Seq(Words), NEW a \in Seq(Words), NEW b \in Seq(Words), NEW c \in Seq(Words),
           NEW p, p = h \o a \o b \o c
    PROVE  /\ p \in Seq(Words) /\ Len(p) = Len(h) + Len(a) + Len(b) + Len(c)
           /\ Within(h, 0, p) /\ Within(a, Len(h), p)
           /\ Within(b, Len(h) + Len(a), p) /\ Within(c, Len(h) + Len(a) + Len(b), p)
<1>1. \A x \in Seq(Words) : \A y \in Seq(Words) :
        /\ x \o y \in Seq(Words) /\ Len(x \o y) = Len(x) + Len(y)
        /\ Len(x) \in Nat /\ Len(y) \in Nat
        /\ \A j \in 1 .. Len(x) : (x \o y)[j] = x[j]
        /\ \A j \in 1 .. Len(y) : (x \o y)[Len(x) + j] = y[j]
  <2> SUFFICES ASSUME NEW x \in Seq(Words), NEW y \in Seq(Words)
               PROVE  /\ x \o y \in Seq(Words) /\ Len(x \o y) = Len(x) + Len(y)
                      /\ Len(x) \in Nat /\ Len(y) \in Nat
                      /\ \A j \in 1 .. Len(x) : (x \o y)[j] = x[j]
                      /\ \A j \in 1 .. Len(y) : (x \o y)[Len(x) + j] = y[j]
    OBVIOUS
  <2> QED BY ConcatValue
<1> DEFINE d == h \o a
           e == d \o b
<1>2. d \in Seq(Words) /\ Len(d) = Len(h) + Len(a) /\ Len(h) \in Nat /\ Len(a) \in Nat
  BY <1>1
<1>3. e \in Seq(Words) /\ Len(e) = Len(d) + Len(b) /\ Len(b) \in Nat
  <2> HIDE DEF d
  <2> QED BY <1>1, <1>2
<1>4. p \in Seq(Words) /\ Len(p) = Len(e) + Len(c) /\ Len(c) \in Nat /\ p = e \o c
  <2>1. p = e \o c
    OBVIOUS
  <2> HIDE DEF e
  <2> QED BY <1>1, <1>3, <2>1
<1>5. /\ \A j \in 1 .. Len(h) : d[j] = h[j]
      /\ \A j \in 1 .. Len(a) : d[Len(h) + j] = a[j]
  BY <1>1
<1>6. /\ \A j \in 1 .. Len(d) : e[j] = d[j]
      /\ \A j \in 1 .. Len(b) : e[Len(d) + j] = b[j]
  <2> HIDE DEF d
  <2> QED BY <1>1, <1>2
<1>7. /\ \A j \in 1 .. Len(e) : p[j] = e[j]
      /\ \A j \in 1 .. Len(c) : p[Len(e) + j] = c[j]
  <2> HIDE DEF e
  <2> QED BY <1>1, <1>3, <1>4
<1> HIDE DEF d, e
<1>8. DOMAIN p = 1 .. Len(p) /\ DOMAIN h = 1 .. Len(h) /\ DOMAIN a = 1 .. Len(a)
      /\ DOMAIN b = 1 .. Len(b) /\ DOMAIN c = 1 .. Len(c)
  BY <1>4
<1>9. Within(h, 0, p)
  <2> SUFFICES ASSUME NEW j \in 1 .. Len(h) PROVE 0 + j \in DOMAIN p /\ p[0 + j] = h[j]
    BY <1>8 DEF Within
  <2>1. 0 + j = j /\ j \in 1 .. Len(d) /\ j \in 1 .. Len(e) /\ j \in 1 .. Len(p)
    BY <1>2, <1>3, <1>4
  <2> QED BY <1>5, <1>6, <1>7, <1>8, <2>1
<1>10. Within(a, Len(h), p)
  <2> SUFFICES ASSUME NEW j \in 1 .. Len(a) PROVE Len(h) + j \in DOMAIN p /\ p[Len(h) + j] = a[j]
    BY <1>8 DEF Within
  <2>1. Len(h) + j \in 1 .. Len(d) /\ Len(h) + j \in 1 .. Len(e) /\ Len(h) + j \in 1 .. Len(p)
    BY <1>2, <1>3, <1>4
  <2> QED BY <1>5, <1>6, <1>7, <1>8, <2>1
<1>11. Within(b, Len(h) + Len(a), p)
  <2> SUFFICES ASSUME NEW j \in 1 .. Len(b) PROVE Len(d) + j \in DOMAIN p /\ p[Len(d) + j] = b[j]
    BY <1>2, <1>8 DEF Within
  <2>1. Len(d) + j \in 1 .. Len(e) /\ Len(d) + j \in 1 .. Len(p)
    BY <1>2, <1>3, <1>4
  <2> QED BY <1>6, <1>7, <1>8, <2>1
<1>12. Within(c, Len(h) + Len(a) + Len(b), p)
  <2> SUFFICES ASSUME NEW j \in 1 .. Len(c) PROVE Len(e) + j \in DOMAIN p /\ p[Len(e) + j] = c[j]
    BY <1>2, <1>3, <1>8 DEF Within
  <2>1. Len(e) + j \in 1 .. Len(p)
    BY <1>2, <1>3, <1>4
  <2> QED BY <1>7, <1>8, <2>1
<1> QED BY <1>2, <1>3, <1>4, <1>9, <1>10, <1>11, <1>12

LEMMA WrittenValue ==
    ASSUME NEW st \in Snapshot, NEW z, Ends(st.snakes, z)
    PROVE  LaidOut(st, z, Written(st))
<1> DEFINE h == HeaderWords(st)
           a == FlattenSeq([k \in DOMAIN st.snakes |-> SnakeWords(st.snakes[k])])
           b == FlattenSeq([k \in DOMAIN st.fruits |-> FruitWords(st.fruits[k])])
           c == FlattenSeq([k \in DOMAIN st.obstacles |-> PosWords(st.obstacles[k])])
           p == h \o a \o b \o c
           N == Len(st.snakes)
<1>1. Written(st) = p
  BY DEF Written
<1>2. h \in Seq(Words) /\ Len(h) = 8 /\ HeaderIn(st, h)
  BY HeaderValue
<1>3. /\ a \in Seq(Words) /\ 8 + Len(a) = z[N] /\ Len(a) \in Nat
      /\ \A n \in 1 .. N : z[n - 1] - 8 \in Nat /\ SnakeIn(a, z[n - 1] - 8, st.snakes[n])
  BY SnakesValue
<1>4. /\ b \in Seq(Words) /\ Len(b) = 3 * Len(st.fruits)
      /\ \A k \in 1 .. Len(st.fruits) :
           /\ b[3 * (k - 1) + 1] = Word(st.fruits[k].pos[1])
           /\ b[3 * (k - 1) + 2] = Word(st.fruits[k].pos[2])
           /\ b[3 * (k - 1) + 3] = IF st.fruits[k].active THEN 1 ELSE 0
  <2>1. st.fruits \in Seq(Fruit)
    BY SnapshotValue
  <2> QED BY <2>1, FruitsValue
<1>5. /\ c \in Seq(Words) /\ Len(c) = 2 * Len(st.obstacles)
      /\ \A k \in 1 .. Len(st.obstacles) : /\ c[2 * (k - 1) + 1] = Word(st.obstacles[k][1])
                                           /\ c[2 * (k - 1) + 2] = Word(st.obstacles[k][2])
  <2>1. st.obstacles \in Seq(Pos) /\ c = BodyWords(st.obstacles)
    BY SnapshotValue DEF BodyWords
  <2> QED BY <2>1, PositionsValue
<1>6. Len(st.fruits) \in Nat /\ Len(st.obstacles) \in Nat /\ N \in Nat /\ z \in [0 .. N -> Nat]
      /\ \A n \in 1 .. N : Len(st.snakes[n]) \in Nat
  BY SnapshotValue DEF Ends
<1> HIDE DEF h, a, b, c, N
<1>7. /\ p \in Seq(Words) /\ Len(p) = Len(h) + Len(a) + Len(b) + Len(c)
      /\ Within(h, 0, p) /\ Within(a, Len(h), p)
      /\ Within(b, Len(h) + Len(a), p) /\ Within(c, Len(h) + Len(a) + Len(b), p)
  BY <1>2, <1>3, <1>4, <1>5, FourWithin
<1> HIDE DEF p
<1>8. Len(h) + Len(a) = z[N] /\ Len(h) + Len(a) + Len(b) = z[N] + 3 * Len(st.fruits) /\ z[N] \in Nat
  <2>1. N \in 0 .. N
    BY <1>6
  <2>2. z[N] \in Nat
    BY <1>6, <2>1
  <2>3. Len(h) + Len(a) = z[N]
    BY <1>2, <1>3
  <2> QED BY <1>4, <2>2, <2>3
<1>9. \A k \in 1 .. 8 : k \in DOMAIN p /\ p[k] = h[k]
  <2> SUFFICES ASSUME NEW k \in 1 .. 8 PROVE k \in DOMAIN p /\ p[k] = h[k]
    OBVIOUS
  <2>1. k \in DOMAIN h /\ 0 + k = k
    BY <1>2
  <2> QED BY <1>7, <2>1 DEF Within
<1>10. HeaderIn(st, p)
  BY <1>2, <1>9 DEF HeaderIn
<1>11. ASSUME NEW n \in 1 .. N PROVE SnakeIn(p, z[n - 1], st.snakes[n])
  <2>1. z[n - 1] - 8 \in Nat /\ SnakeIn(a, z[n - 1] - 8, st.snakes[n]) /\ Len(st.snakes[n]) \in Nat
    BY <1>3, <1>6
  <2>2. n - 1 \in 0 .. N
    BY <1>6
  <2>3. z[n - 1] \in Nat /\ 8 + (z[n - 1] - 8) = z[n - 1]
    BY <1>6, <2>2
  <2>4. SnakeIn(p, 8 + (z[n - 1] - 8), st.snakes[n])
    BY <1>2, <1>3, <1>7, <2>1, WithinSnake
  <2> QED BY <2>3, <2>4
<1>12. ASSUME NEW n \in 1 .. Len(st.fruits)
       PROVE  FruitIn(p, z[N] + 3 * (n - 1) + 1, st.fruits[n])
  <2> DEFINE j == 3 * (n - 1) + 1
  <2>1. j \in DOMAIN b /\ j + 1 \in DOMAIN b /\ j + 2 \in DOMAIN b /\ j \in Nat
    BY <1>4, <1>6
  <2>2. /\ b[j] = Word(st.fruits[n].pos[1]) /\ b[j + 1] = Word(st.fruits[n].pos[2])
        /\ b[j + 2] = IF st.fruits[n].active THEN 1 ELSE 0
    <3>1. j + 1 = 3 * (n - 1) + 2 /\ j + 2 = 3 * (n - 1) + 3
      OBVIOUS
    <3> QED BY <1>4, <3>1
  <2>3. z[N] + 3 * (n - 1) + 1 = z[N] + j /\ z[N] + j + 1 = z[N] + (j + 1)
        /\ z[N] + j + 2 = z[N] + (j + 2)
    BY <1>8
  <2> HIDE DEF j
  <2>4. Within(b, z[N], p)
    BY <1>7, <1>8
  <2> QED BY <2>1, <2>2, <2>3, <2>4 DEF Within, FruitIn, PosIn
<1>13. ASSUME NEW n \in 1 .. Len(st.obstacles)
       PROVE  PosIn(p, z[N] + 3 * Len(st.fruits) + 2 * (n - 1) + 1, st.obstacles[n])
  <2> DEFINE j == 2 * (n - 1) + 1
             k == z[N] + 3 * Len(st.fruits)
  <2>1. j \in DOMAIN c /\ j + 1 \in DOMAIN c /\ j \in Nat /\ k \in Nat
    <3>1. k \in Nat
      BY <1>6, <1>8
    <3>2. DOMAIN c = 1 .. 2 * Len(st.obstacles)
      BY <1>5
    <3>3. j \in 1 .. 2 * Len(st.obstacles) /\ j + 1 \in 1 .. 2 * Len(st.obstacles) /\ j \in Nat
      BY <1>6
    <3> QED BY <3>1, <3>2, <3>3
  <2>2. c[j] = Word(st.obstacles[n][1]) /\ c[j + 1] = Word(st.obstacles[n][2])
    <3>1. j + 1 = 2 * (n - 1) + 2
      OBVIOUS
    <3> QED BY <1>5, <3>1
  <2>3. k + 2 * (n - 1) + 1 = k + j
    <3> HIDE DEF k
    <3> QED BY <2>1
  <2>4. Within(c, k, p)
    BY <1>7, <1>8
  <2>5. PosIn(p, k + j, st.obstacles[n])
    <3> HIDE DEF j, k
    <3>1. PosIn(c, j, st.obstacles[n])
      BY <2>1, <2>2 DEF PosIn
    <3> QED BY <1>5, <2>1, <2>4, <3>1, WithinPos
  <2> QED BY <2>3, <2>5
<1>14. Len(p) = z[N] + 3 * Len(st.fruits) + 2 * Len(st.obstacles)
  BY <1>5, <1>7, <1>8
<1> QED BY <1>1, <1>7, <1>9, <1>10, <1>11, <1>12, <1>13, <1>14 DEF LaidOut, N

-----------------------------------------------------------------------------
(* msg_to_state comes upon every snake at the place where it was put.      *)
LEMMA SnakesFound ==
    ASSUME NEW st \in Snapshot, NEW z, Ends(st.snakes, z), NEW p, LaidOut(st, z, p)
    PROVE  /\ WordAt(p, 6) = Len(st.snakes)
           /\ \A n \in 1 .. Len(st.snakes) + 1 : SnakesAt(p)[n] = z[n - 1] + 1
<1> DEFINE N == Len(st.snakes)
           bs == st.snakes
<1>1. N \in Nat /\ \A n \in 1 .. N : Len(bs[n]) \in Nat
  BY SnapshotValue
<1>2. /\ z \in [0 .. N -> Nat] /\ z[0] = 8
      /\ \A n \in 1 .. N : z[n] = z[n - 1] + 1 + 2 * Len(bs[n])
  BY DEF Ends
<1>3. WordAt(p, 6) = N
  BY DEF LaidOut, HeaderIn, WordAt
<1>4. \A n \in 1 .. N : WordAt(p, z[n - 1] + 1) = Len(bs[n])
  BY DEF LaidOut, SnakeIn, WordAt
<1> DEFINE Eq(f) == f = [n \in 1 .. WordAt(p, 6) + 1 |->
                           IF n = 1 THEN 9 ELSE f[n - 1] + 1 + 2 * WordAt(p, f[n - 1])]
           g == [n \in 1 .. N + 1 |-> z[n - 1] + 1]
           at == CHOOSE f : Eq(f)
<1> HIDE DEF N
<1>5. Eq(g)
  <2>1. ASSUME NEW n \in 1 .. N + 1
        PROVE  g[n] = IF n = 1 THEN 9 ELSE g[n - 1] + 1 + 2 * WordAt(p, g[n - 1])
    <3>1. CASE n = 1
      BY <1>1, <1>2, <3>1
    <3>2. CASE n # 1
      <4> DEFINE m == n - 1
      <4>1. m \in 1 .. N /\ n = m + 1 /\ m \in 1 .. N + 1 /\ m - 1 \in 0 .. N
        BY <1>1, <3>2
      <4>2. g[m] = z[m - 1] + 1 /\ g[n] = z[m] + 1
        BY <4>1
      <4>3. z[m - 1] \in Nat /\ Len(bs[m]) \in Nat /\ z[m] = z[m - 1] + 1 + 2 * Len(bs[m])
        BY <1>1, <1>2, <4>1
      <4>4. WordAt(p, g[m]) = Len(bs[m])
        BY <1>4, <4>1, <4>2
      <4> HIDE DEF g, m
      <4>5. g[n] = g[m] + 1 + 2 * WordAt(p, g[m])
        <5>1. \A a \in Nat : \A l \in Nat : (a + 1 + 2 * l) + 1 = (a + 1) + 1 + 2 * l
          OBVIOUS
        <5>2. (z[m - 1] + 1 + 2 * Len(bs[m])) + 1 = (z[m - 1] + 1) + 1 + 2 * Len(bs[m])
          BY <4>3, <5>1
        <5>3. g[n] = (z[m - 1] + 1 + 2 * Len(bs[m])) + 1
          BY <4>2, <4>3
        <5>4. g[m] + 1 + 2 * WordAt(p, g[m]) = (z[m - 1] + 1) + 1 + 2 * Len(bs[m])
          BY <4>2, <4>4
        <5> QED BY <5>2, <5>3, <5>4
      <4> QED BY <3>2, <4>5 DEF m
    <3> QED BY <3>1, <3>2
  <2>2. g = [n \in 1 .. N + 1 |-> g[n]]
    OBVIOUS
  <2> HIDE DEF g
  <2> QED BY <1>3, <2>1, <2>2
<1>6. Eq(at)
  <2> HIDE DEF Eq, g
  <2> QED BY <1>5
<1>7. SnakesAt(p) = at
  BY DEF SnakesAt
<1> HIDE DEF at
<1>8. \A n \in 1 .. N + 1 :
        at[n] = IF n = 1 THEN 9 ELSE at[n - 1] + 1 + 2 * WordAt(p, at[n - 1])
  BY <1>3, <1>6
<1> HIDE DEF Eq
<1> DEFINE P == {k \in Nat : k <= N => at[k + 1] = z[k] + 1}
<1>9. 0 \in P
  BY <1>1, <1>2, <1>8
<1>10. ASSUME NEW k \in Nat, k \in P PROVE k + 1 \in P
  <2> SUFFICES ASSUME k + 1 <= N PROVE at[k + 2] = z[k + 1] + 1
    OBVIOUS
  <2>1. /\ k + 1 \in 1 .. N /\ (k + 1) - 1 = k /\ k \in 0 .. N /\ k <= N
        /\ k + 2 \in 1 .. N + 1 /\ k + 2 # 1 /\ (k + 2) - 1 = k + 1
    BY <1>1
  <2>2. at[k + 1] = z[k] + 1
    BY <1>10, <2>1
  <2>3. at[k + 2] = at[k + 1] + 1 + 2 * WordAt(p, at[k + 1])
    BY <1>8, <2>1
  <2>4. WordAt(p, at[k + 1]) = Len(bs[k + 1])
    BY <1>4, <2>1, <2>2
  <2>5. z[k + 1] = z[k] + 1 + 2 * Len(bs[k + 1]) /\ z[k] \in Nat /\ Len(bs[k + 1]) \in Nat
    BY <1>1, <1>2, <2>1
  <2>6. at[k + 2] = (z[k] + 1) + 1 + 2 * Len(bs[k + 1])
    BY <2>2, <2>3, <2>4
  <2>7. \A a \in Nat : \A l \in Nat : (a + 1) + 1 + 2 * l = (a + 1 + 2 * l) + 1
    OBVIOUS
  <2>8. (z[k] + 1) + 1 + 2 * Len(bs[k + 1]) = (z[k] + 1 + 2 * Len(bs[k + 1])) + 1
    BY <2>5, <2>7
  <2> QED BY <2>5, <2>6, <2>8
<1>11. Nat \subseteq P
  <2> HIDE DEF P
  <2> QED BY <1>9, <1>10, Induct
<1>12. ASSUME NEW n \in 1 .. N + 1 PROVE at[n] = z[n - 1] + 1
  <2>1. n - 1 \in Nat /\ n - 1 <= N /\ (n - 1) + 1 = n
    BY <1>1
  <2> QED BY <1>11, <2>1
<1> QED BY <1>3, <1>7, <1>12 DEF N

LEMMA PosFound ==
    ASSUME NEW p, NEW k, NEW pos \in Pos, PosIn(p, k, pos)
    PROVE  PosAt(p, k) = pos
BY PosValue DEF PosIn, PosAt, WordAt

LEMMA FruitFound ==
    ASSUME NEW p, NEW k, NEW f \in Fruit, FruitIn(p, k, f)
    PROVE  FruitAt(p, k) = f
<1>1. f.pos \in Pos /\ f.active \in BOOLEAN /\ f = [pos |-> f.pos, active |-> f.active]
  BY DEF Fruit
<1>2. PosAt(p, k) = f.pos
  BY <1>1, PosFound DEF FruitIn
<1>3. (WordAt(p, k + 2) # 0) = f.active
  BY <1>1 DEF FruitIn, WordAt
<1>4. FruitAt(p, k) = [pos |-> f.pos, active |-> f.active]
  BY <1>2, <1>3 DEF FruitAt
<1> QED BY <1>1, <1>4

(* Reading what was written gives the snapshot back.                       *)
LEMMA ParsedLaidOut ==
    ASSUME NEW st \in Snapshot, NEW z, Ends(st.snakes, z), NEW p, LaidOut(st, z, p)
    PROVE  Parsed(p) = st
<1> DEFINE N == Len(st.snakes)
           at == SnakesAt(p)
           fruitsAt == at[WordAt(p, 6) + 1]
           obstaclesAt == fruitsAt + 3 * WordAt(p, 7)
<1>1. /\ \A k \in 1 .. 8 : WordAt(p, k) = p[k]
      /\ HeaderIn(st, p)
  BY DEF LaidOut, WordAt
<1>2. /\ st.snakes \in Seq(Array(Pos)) /\ st.fruits \in Seq(Fruit) /\ st.obstacles \in Seq(Pos)
      /\ N \in Nat /\ Len(st.fruits) \in Nat /\ Len(st.obstacles) \in Nat
      /\ \A n \in 1 .. N : /\ st.snakes[n] \in Seq(Pos) /\ Len(st.snakes[n]) \in Nat
  BY SnapshotValue
<1>3. WordAt(p, 6) = N /\ \A n \in 1 .. N + 1 : at[n] = z[n - 1] + 1
  BY SnakesFound
<1>4. z \in [0 .. N -> Nat]
  BY DEF Ends
<1>5. fruitsAt = z[N] + 1 /\ obstaclesAt = z[N] + 3 * Len(st.fruits) + 1 /\ z[N] \in Nat
  <2>1. N + 1 \in 1 .. N + 1 /\ (N + 1) - 1 = N /\ N \in 0 .. N
    BY <1>2
  <2>2. fruitsAt = z[N] + 1 /\ z[N] \in Nat
    <3> HIDE DEF N, at
    <3> QED BY <1>3, <1>4, <2>1
  <2>3. WordAt(p, 7) = Len(st.fruits)
    BY <1>1 DEF HeaderIn
  <2>4. obstaclesAt = fruitsAt + 3 * Len(st.fruits)
    BY <2>3
  <2> HIDE DEF fruitsAt, obstaclesAt, N
  <2>5. (z[N] + 1) + 3 * Len(st.fruits) = z[N] + 3 * Len(st.fruits) + 1
    <3>1. \A a \in Nat : \A l \in Nat : (a + 1) + 3 * l = a + 3 * l + 1
      OBVIOUS
    <3> QED BY <1>2, <2>2, <3>1
  <2> QED BY <2>2, <2>4, <2>5
<1>6. /\ Int32(WordAt(p, 1)) = st.width /\ Int32(WordAt(p, 2)) = st.height
      /\ WordAt(p, 3) = st.score
      /\ Int32(WordAt(p, 4)) = st.elapsed /\ Int32(WordAt(p, 5)) = st.remaining
      /\ WordAt(p, 7) = Len(st.fruits) /\ WordAt(p, 8) = Len(st.obstacles)
  <2>1. /\ WordAt(p, 1) = Word(st.width) /\ WordAt(p, 2) = Word(st.height)
        /\ WordAt(p, 3) = st.score
        /\ WordAt(p, 4) = Word(st.elapsed) /\ WordAt(p, 5) = Word(st.remaining)
        /\ WordAt(p, 7) = Len(st.fruits) /\ WordAt(p, 8) = Len(st.obstacles)
    BY <1>1 DEF HeaderIn
  <2>2. st.width \in Ints /\ st.height \in Ints /\ st.elapsed \in Ints /\ st.remaining \in Ints
    BY SnapshotValue
  <2>3. /\ Int32(Word(st.width)) = st.width /\ Int32(Word(st.height)) = st.height
        /\ Int32(Word(st.elapsed)) = st.elapsed /\ Int32(Word(st.remaining)) = st.remaining
    BY <2>2, WordsAgree
  <2> QED BY <2>1, <2>3
<1> DEFINE body(n) == [k \in 1 .. WordAt(p, at[n]) |-> PosAt(p, at[n] + 2 * k - 1)]
<1>7. ASSUME NEW n \in 1 .. N PROVE body(n) = st.snakes[n]
  <2> DEFINE b == st.snakes[n]
  <2>1. at[n] = z[n - 1] + 1 /\ z[n - 1] \in Nat
    <3>1. n \in 1 .. N + 1 /\ n - 1 \in 0 .. N
      BY <1>2
    <3> HIDE DEF N, at
    <3> QED BY <1>3, <1>4, <3>1
  <2>2. SnakeIn(p, z[n - 1], b)
    BY DEF LaidOut
  <2>3. b \in Seq(Pos) /\ Len(b) \in Nat /\ b = [k \in 1 .. Len(b) |-> b[k]]
    BY <1>2
  <2> HIDE DEF b, at
  <2>4. WordAt(p, at[n]) = Len(b)
    BY <2>1, <2>2 DEF SnakeIn, WordAt
  <2>5. ASSUME NEW k \in 1 .. Len(b) PROVE PosAt(p, at[n] + 2 * k - 1) = b[k]
    <3>1. at[n] + 2 * k - 1 = z[n - 1] + 2 * k
      BY <2>1
    <3>2. b[k] \in Pos /\ PosIn(p, z[n - 1] + 2 * k, b[k])
      BY <2>2, <2>3 DEF SnakeIn
    <3> QED BY <3>1, <3>2, PosFound
  <2>6. body(n) = [k \in 1 .. Len(b) |-> b[k]]
    BY <2>4, <2>5
  <2> HIDE DEF body
  <2> QED BY <2>3, <2>6 DEF b
<1>8. [n \in 1 .. WordAt(p, 6) |-> body(n)] = st.snakes
  <2>1. st.snakes = [n \in 1 .. N |-> st.snakes[n]]
    BY <1>2
  <2> HIDE DEF body, N
  <2> QED BY <1>3, <1>7, <2>1
<1>9. [n \in 1 .. WordAt(p, 7) |-> FruitAt(p, fruitsAt + 3 * (n - 1))] = st.fruits
  <2>1. ASSUME NEW n \in 1 .. Len(st.fruits)
        PROVE  FruitAt(p, fruitsAt + 3 * (n - 1)) = st.fruits[n]
    <3>1. fruitsAt + 3 * (n - 1) = z[N] + 3 * (n - 1) + 1
      <4> HIDE DEF fruitsAt, N
      <4> QED BY <1>2, <1>5
    <3>2. FruitIn(p, z[N] + 3 * (n - 1) + 1, st.fruits[n]) /\ st.fruits[n] \in Fruit
      BY <1>2 DEF LaidOut
    <3> HIDE DEF fruitsAt, N
    <3> QED BY <3>1, <3>2, FruitFound
  <2>2. st.fruits = [n \in 1 .. Len(st.fruits) |-> st.fruits[n]]
    <3>1. st.fruits \in Seq(Fruit)
      BY <1>2
    <3> QED BY <3>1
  <2> HIDE DEF fruitsAt
  <2> QED BY <1>6, <2>1, <2>2
<1>10. [n \in 1 .. WordAt(p, 8) |-> PosAt(p, obstaclesAt + 2 * (n - 1))] = st.obstacles
  <2>1. ASSUME NEW n \in 1 .. Len(st.obstacles)
        PROVE  PosAt(p, obstaclesAt + 2 * (n - 1)) = st.obstacles[n]
    <3>1. obstaclesAt + 2 * (n - 1) = z[N] + 3 * Len(st.fruits) + 2 * (n - 1) + 1
      <4> HIDE DEF obstaclesAt, N
      <4> QED BY <1>2, <1>5
    <3>2. PosIn(p, z[N] + 3 * Len(st.fruits) + 2 * (n - 1) + 1, st.obstacles[n])
          /\ st.obstacles[n] \in Pos
      BY <1>2 DEF LaidOut
    <3> HIDE DEF obstaclesAt, N
    <3> QED BY <3>1, <3>2, PosFound
  <2>2. st.obstacles = [n \in 1 .. Len(st.obstacles) |-> st.obstacles[n]]
    <3>1. st.obstacles \in Seq(Pos)
      BY <1>2
    <3> QED BY <3>1
  <2> HIDE DEF obstaclesAt
  <2> QED BY <1>6, <2>1, <2>2
<1>11. Parsed(p) = [width |-> st.width, height |-> st.height, score |-> st.score,
                    elapsed |-> st.elapsed, remaining |-> st.remaining,
                    snakes |-> st.snakes, fruits |-> st.fruits, obstacles |-> st.obstacles]
  BY <1>6, <1>8, <1>9, <1>10 DEF Parsed
<1>12. st = [width |-> st.width, height |-> st.height, score |-> st.score,
             elapsed |-> st.elapsed, remaining |-> st.remaining,
             snakes |-> st.snakes, fruits |-> st.fruits, obstacles |-> st.obstacles]
  BY DEF Snapshot
<1> QED BY <1>11, <1>12

(* Neither a word too many nor too few: send_state's size is what it       *)
(* writes, and msg_to_state undoes it.                                     *)
LEMMA RoundTrip ==
    ASSUME NEW st \in Snapshot
    PROVE  /\ PayloadSize(st) \in Nat /\ Len(Written(st)) = PayloadSize(st)
           /\ DOMAIN Buffer(st) = 1 .. PayloadSize(st)
           /\ Parsed(Buffer(st)) = st
<1>1. PICK z : /\ Ends(st.snakes, z)
               /\ PayloadSize(st) = z[Len(st.snakes)] + 3 * Len(st.fruits) + 2 * Len(st.obstacles)
  BY PayloadSizeValue
<1>2. LaidOut(st, z, Written(st))
  BY <1>1, WrittenValue
<1>3. Written(st) \in Seq(Words) /\ Len(Written(st)) = PayloadSize(st) /\ PayloadSize(st) \in Nat
  BY <1>1, <1>2 DEF LaidOut
<1>4. Buffer(st) = Written(st)
  BY <1>3 DEF Buffer
<1> QED BY <1>1, <1>2, <1>3, <1>4, ParsedLaidOut

LEMMA OnlyMessages ==
    ASSUME NEW s \in Senders, NEW n \in 1 .. Len(Payload[s]), Messages[s][n].type = "state"
    PROVE  Messages[s][n].state \in Snapshot /\ Payload[s][n] = PayloadSize(Messages[s][n].state)
<1>1. /\ Payload[s] = [k \in DOMAIN Messages[s] |-> SizeOf(Messages[s][k])]
      /\ \A k \in DOMAIN Messages[s] :
           Messages[s][k].type = "state" => Messages[s][k].state \in Snapshot
  BY MessageAssumption
<1>2. Payload[s] \in Seq(Nat)
  BY FramingAssumption
<1>3. n \in DOMAIN Messages[s]
  BY <1>1, <1>2
<1>4. Payload[s][n] = SizeOf(Messages[s][n])
  BY <1>1, <1>3
<1> QED BY <1>1, <1>3, <1>4 DEF SizeOf

(* The payload of a frame that arrived whole.                              *)
LEMMA PayloadOfFrame ==
    ASSUME NEW s \in Senders, NEW n \in 1 .. Len(Payload[s]), Messages[s][n].type = "state"
    PROVE  PayloadOf(Frame(s, n)) = Buffer(Messages[s][n].state)
<1> DEFINE st == Messages[s][n].state
           f == Frame(s, n)
<1>1. st \in Snapshot /\ Payload[s][n] = PayloadSize(st)
  BY OnlyMessages
<1>2. /\ HeaderSize \in Nat \ {0} /\ Size(s, n) \in Nat /\ Len(f) = Size(s, n)
      /\ \A k \in 1 .. Size(s, n) : f[k] = <<s, n, k>>
  BY FramingAssumption, FrameBytes, Payloads
<1>3. PayloadSize(st) \in Nat /\ Size(s, n) = HeaderSize + PayloadSize(st)
      /\ DOMAIN Buffer(st) = 1 .. PayloadSize(st)
  BY <1>1, RoundTrip DEF Size
<1> HIDE DEF f
<1>4. Len(f) - HeaderSize = PayloadSize(st)
  BY <1>2, <1>3
<1>5. ASSUME NEW k \in 1 .. PayloadSize(st)
      PROVE  /\ f[HeaderSize + k][1] = s /\ f[HeaderSize + k][2] = n
             /\ f[HeaderSize + k][3] > HeaderSize /\ f[HeaderSize + k][3] - HeaderSize = k
  <2>1. HeaderSize + k \in 1 .. Size(s, n)
    BY <1>2, <1>3
  <2>2. f[HeaderSize + k] = <<s, n, HeaderSize + k>>
    BY <1>2, <2>1
  <2>3. HeaderSize + k > HeaderSize /\ (HeaderSize + k) - HeaderSize = k
    BY <1>2, <1>3
  <2> QED BY <2>2, <2>3
<1>6. PayloadOf(f) = [k \in 1 .. PayloadSize(st) |-> Buffer(st)[k]]
  BY <1>4, <1>5 DEF PayloadOf
<1>7. Buffer(st) = [k \in 1 .. PayloadSize(st) |-> Buffer(st)[k]]
  BY DEF Buffer
<1> QED BY <1>6, <1>7 DEF f

(* The state a client draws is the snapshot the server took, for any       *)
(* states that fit in their words, any sizes and any cuts of the stream,   *)
(* with one thread sending (send_state, recv_message, msg_to_state).       *)
THEOREM OneSenderStates == ASSUME NEW s, Senders = {s} PROVE Spec => []StatesAsSent
<1>1. Init => OneInv(s)
  BY InitOne
<1>2. OneInv(s) /\ [Next]_vars => OneInv(s)'
  BY NextOne
<1>3. OneInv(s) => StatesAsSent
  <2> SUFFICES ASSUME OneInv(s), NEW k \in DOMAIN frames,
                      Messages[frames[k][1][1]][frames[k][1][2]].type = "state"
               PROVE  Parsed(PayloadOf(frames[k])) = Messages[frames[k][1][1]][frames[k][1][2]].state
    BY DEF StatesAsSent
  <2>1. frames \in Seq(Seq(Byte)) /\ Len(frames) \in Nat /\ k \in 1 .. Len(frames)
    BY Lengths0 DEF OneInv
  <2>2. k \in 1 .. Len(Payload[s]) /\ frames[k] = Frame(s, k)
    BY <2>1 DEF OneInv, FramesInv
  <2>3. Frame(s, k)[1] = <<s, k, 1>>
    <3>1. 1 \in 1 .. Size(s, k)
      BY <2>2, Payloads
    <3> QED BY <2>2, <3>1, FrameBytes
  <2>4. frames[k][1][1] = s /\ frames[k][1][2] = k
    BY <2>2, <2>3
  <2>5. Messages[s][k].type = "state"
    BY <2>4
  <2>6. PayloadOf(frames[k]) = Buffer(Messages[s][k].state) /\ Messages[s][k].state \in Snapshot
    BY <2>2, <2>5, PayloadOfFrame, OnlyMessages
  <2> QED BY <2>4, <2>6, RoundTrip
<1> QED BY <1>1, <1>2, <1>3, PTL DEF Spec
=============================================================================

------------------------------ MODULE SnakeProofs ------------------------------
(***************************************************************************)
(* One snake of Game and the board it is on, for every size of the board,  *)
(* with walls and without: turning, moving, growing, and coming in again   *)
(* on the other side keep it in one piece, as long as its score says, and  *)
(* never reversed.  GameProofs puts several of them together.              *)
(***************************************************************************)
EXTENDS Game, SelectionProofs

Player == [id : Ids, body : Seq(Board), dir : Dirs, next : Dirs, paused : BOOLEAN,
           score : 0 .. MaxScore]
Fruit  == [pos : Board, active : BOOLEAN]

(* The cell a snake comes to from c in direction d.                        *)
StepTo(c, d) ==
    LET b == <<c[1] + Delta[d][1], c[2] + Delta[d][2]>>
    IN  IF EasyMode THEN <<b[1] % Width, b[2] % Height>> ELSE b

(* The link between a segment and the next, as in InOnePiece.              *)
Linked(b, s) == Near(b[s], b[s + 1]) \/ (s = Len(b) - 1 /\ b[s] = b[s + 1])

(* What a snake is like between two moves: the neck is where the head came *)
(* from in the direction last moved in, which is why comparing a new       *)
(* direction with that one is enough never to reverse.                     *)
Snake(p) ==
    /\ Len(p.body) = InitialLength + p.score
    /\ p.next # Opposite[p.dir]
    /\ p.body[1] = StepTo(p.body[2], p.dir)
    /\ \A s \in 1 .. Len(p.body) - 1 : Linked(p.body, s)

-----------------------------------------------------------------------------
(* The board.                                                              *)

LEMMA Sizes ==
    /\ Width \in Nat /\ Width > 3 /\ Height \in Nat /\ Height > 2
    /\ EasyMode \in BOOLEAN
BY GameAssumption DEF InitialLength

(* A cell has its two coordinates.                                         *)
LEMMA BoardCell ==
    ASSUME NEW x \in Int, NEW y \in Int
    PROVE  <<x, y>> \in Board <=> x \in 0 .. Width - 1 /\ y \in 0 .. Height - 1
BY DEF Board

LEMMA CellParts ==
    ASSUME NEW c \in Board
    PROVE  c[1] \in 0 .. Width - 1 /\ c[2] \in 0 .. Height - 1 /\ c = <<c[1], c[2]>>
BY DEF Board

(* Coming in again on the other side.                                      *)
LEMMA Modulo ==
    ASSUME NEW n \in Nat, n > 0
    PROVE  /\ \A x \in 0 .. n - 1 : x % n = x
           /\ n % n = 0
           /\ (-1) % n = n - 1
           /\ \A x \in Int : x % n \in 0 .. n - 1
OBVIOUS

(* Where a step leads, coordinate by coordinate.                           *)
StepX(x, d) ==
    IF d = "left" THEN IF x = 0 /\ EasyMode THEN Width - 1 ELSE x - 1
    ELSE IF d = "right" THEN IF x = Width - 1 /\ EasyMode THEN 0 ELSE x + 1
    ELSE x

StepY(y, d) ==
    IF d = "up" THEN IF y = 0 /\ EasyMode THEN Height - 1 ELSE y - 1
    ELSE IF d = "down" THEN IF y = Height - 1 /\ EasyMode THEN 0 ELSE y + 1
    ELSE y

LEMMA StepParts ==
    ASSUME NEW c \in Board, NEW d \in Dirs
    PROVE  StepTo(c, d) = <<StepX(c[1], d), StepY(c[2], d)>>
<1> USE Sizes DEF StepX, StepY
<1>1. c[1] \in 0 .. Width - 1 /\ c[2] \in 0 .. Height - 1
  BY CellParts
<1>2. /\ \A x \in 0 .. Width - 1 : x % Width = x
      /\ Width % Width = 0 /\ (-1) % Width = Width - 1
      /\ \A y \in 0 .. Height - 1 : y % Height = y
      /\ Height % Height = 0 /\ (-1) % Height = Height - 1
  BY Modulo
<1>3. CASE d = "left"
  <2>1. Delta[d][1] = -1 /\ Delta[d][2] = 0
    BY <1>3 DEF Delta
  <2>2. c[1] # 0 => c[1] + -1 \in 0 .. Width - 1
    BY <1>1
  <2>3. IF EasyMode THEN (c[1] + -1) % Width = StepX(c[1], d) ELSE c[1] + -1 = StepX(c[1], d)
    BY <1>1, <1>2, <1>3, <2>2
  <2>4. StepY(c[2], d) = c[2] /\ c[2] + 0 = c[2] /\ c[2] % Height = c[2]
    BY <1>1, <1>2, <1>3
  <2> QED BY <2>1, <2>3, <2>4 DEF StepTo
<1>4. CASE d = "right"
  BY <1>1, <1>2, <1>4 DEF StepTo, Delta
<1>5. CASE d = "up"
  BY <1>1, <1>2, <1>5 DEF StepTo, Delta
<1>6. CASE d = "down"
  BY <1>1, <1>2, <1>6 DEF StepTo, Delta
<1> QED BY <1>3, <1>4, <1>5, <1>6 DEF Dirs

LEMMA StepInEasyMode ==
    ASSUME NEW c \in Board, NEW d \in Dirs, EasyMode
    PROVE  StepTo(c, d) \in Board
<1>1. c[1] \in 0 .. Width - 1 /\ c[2] \in 0 .. Height - 1
  BY CellParts
<1>2. StepX(c[1], d) \in 0 .. Width - 1 /\ StepY(c[2], d) \in 0 .. Height - 1
  BY <1>1, Sizes DEF Dirs, StepX, StepY
<1> QED BY <1>2, StepParts, BoardCell DEF Board

(* Back and forth; and only back leads to where one was.                   *)
LEMMA StepBack ==
    ASSUME NEW x \in 0 .. Width - 1, NEW y \in 0 .. Height - 1,
           NEW d \in Dirs, NEW n \in Dirs,
           StepX(x, d) \in 0 .. Width - 1, StepY(y, d) \in 0 .. Height - 1
    PROVE  (StepX(StepX(x, d), n) = x /\ StepY(StepY(y, d), n) = y) <=> n = Opposite[d]
<1> USE Sizes DEF StepX, StepY, Opposite
<1>1. CASE d = "left"
  <2>1. CASE n = "left"
    BY <1>1, <2>1
  <2>2. CASE n = "right"
    BY <1>1, <2>2
  <2>3. CASE n \in {"up", "down"}
    BY <1>1, <2>3
  <2> QED BY <2>1, <2>2, <2>3 DEF Dirs
<1>2. CASE d = "right"
  <2>1. CASE n = "left"
    BY <1>2, <2>1
  <2>2. CASE n = "right"
    BY <1>2, <2>2
  <2>3. CASE n \in {"up", "down"}
    BY <1>2, <2>3
  <2> QED BY <2>1, <2>2, <2>3 DEF Dirs
<1>3. CASE d = "up"
  <2>1. CASE n = "up"
    BY <1>3, <2>1
  <2>2. CASE n = "down"
    BY <1>3, <2>2
  <2>3. CASE n \in {"left", "right"}
    BY <1>3, <2>3
  <2> QED BY <2>1, <2>2, <2>3 DEF Dirs
<1>4. CASE d = "down"
  <2>1. CASE n = "up"
    BY <1>4, <2>1
  <2>2. CASE n = "down"
    BY <1>4, <2>2
  <2>3. CASE n \in {"left", "right"}
    BY <1>4, <2>3
  <2> QED BY <2>1, <2>2, <2>3 DEF Dirs
<1> QED BY <1>1, <1>2, <1>3, <1>4 DEF Dirs

(* A snake that does not turn back does not come to the cell it came from. *)
LEMMA StepForward ==
    ASSUME NEW c \in Board, NEW d \in Dirs, NEW n \in Dirs, StepTo(c, d) \in Board
    PROVE  StepTo(StepTo(c, d), n) = c <=> n = Opposite[d]
<1> DEFINE x == StepX(c[1], d)
           y == StepY(c[2], d)
<1>1. c[1] \in 0 .. Width - 1 /\ c[2] \in 0 .. Height - 1 /\ c = <<c[1], c[2]>>
  BY CellParts
<1>2. StepTo(c, d) = <<x, y>>
  BY StepParts
<1>3. x \in 0 .. Width - 1 /\ y \in 0 .. Height - 1
  <2>1. <<x, y>>[1] = x /\ <<x, y>>[2] = y
    OBVIOUS
  <2> HIDE DEF x, y
  <2> QED BY <1>2, <2>1, CellParts
<1>4. StepTo(StepTo(c, d), n) = <<StepX(x, n), StepY(y, n)>>
  <2> HIDE DEF x, y
  <2>1. <<x, y>>[1] = x /\ <<x, y>>[2] = y
    OBVIOUS
  <2> QED BY <1>2, <2>1, StepParts
<1>5. (StepX(x, n) = c[1] /\ StepY(y, n) = c[2]) <=> n = Opposite[d]
  BY <1>1, <1>3, StepBack
<1> HIDE DEF x, y
<1>6. <<StepX(x, n), StepY(y, n)>> = <<c[1], c[2]>> <=> n = Opposite[d]
  BY <1>5
<1> QED BY <1>1, <1>4, <1>6

(* The cell behind is next to the cell in front.                           *)
LEMMA StepNear ==
    ASSUME NEW c \in Board, NEW d \in Dirs, StepTo(c, d) \in Board
    PROVE  Near(StepTo(c, d), c)
<1>1. Opposite[d] \in Dirs
  BY DEF Opposite, Dirs
<1>2. StepTo(StepTo(c, d), Opposite[d]) = c
  BY <1>1, StepForward
<1> QED BY <1>1, <1>2 DEF Near, StepTo

-----------------------------------------------------------------------------
(* Snakes.                                                                 *)

(* No two segments share a cell: so after each move.                       *)
Taut(p) == \A s \in 1 .. Len(p.body) - 1 : Near(p.body[s], p.body[s + 1])

(* A move within the board, over the border in easy mode.                  *)
Advance(p) ==
    [p EXCEPT !.dir = p.next, !.body = <<StepTo(p.body[1], p.next)>> \o Front(p.body)]

(* The cells of a snake after a move: its new head, then all segments but  *)
(* the last.                                                               *)
LEMMA Shifted ==
    ASSUME NEW b \in Seq(Board), Len(b) >= 3, NEW h
    PROVE  LET m == <<h>> \o Front(b)
           IN  /\ h \in Board => m \in Seq(Board)
               /\ Len(m) = Len(b)
               /\ m[1] = h
               /\ \A s \in 2 .. Len(b) : m[s] = b[s - 1]
<1> DEFINE f == Front(b)
           n == Len(b)
<1>1. n \in Nat /\ n >= 3
  OBVIOUS
<1>2. f \in Seq(Board) /\ Len(f) = n - 1 /\ \A s \in 1 .. n - 1 : f[s] = b[s]
  BY <1>1 DEF Front
<1> HIDE DEF f, n
<1> DEFINE m == <<h>> \o f
<1>3. Len(m) = n /\ m[1] = h /\ \A s \in 2 .. n : m[s] = f[s - 1]
  BY <1>1, <1>2
<1>4. h \in Board => m \in Seq(Board)
  BY <1>2
<1>5. \A s \in 2 .. n : f[s - 1] = b[s - 1]
  BY <1>1, <1>2
<1> QED BY <1>3, <1>4, <1>5 DEF f, n

LEMMA SnakeLen ==
    ASSUME NEW p \in Player, Snake(p)
    PROVE  /\ p.body \in Seq(Board) /\ Len(p.body) \in Nat /\ Len(p.body) >= 3
           /\ p.body[1] \in Board /\ p.body[2] \in Board /\ p.body[3] \in Board
           /\ p.dir \in Dirs /\ p.next \in Dirs
<1>1. p.body \in Seq(Board) /\ p.dir \in Dirs /\ p.next \in Dirs /\ p.score \in 0 .. MaxScore
  BY DEF Player
<1>2. Len(p.body) = 3 + p.score /\ p.score \in Nat
  BY <1>1, GameAssumption DEF Snake, InitialLength
<1>3. Len(p.body) \in Nat /\ Len(p.body) >= 3
  BY <1>2
<1>4. p.body[1] \in Board /\ p.body[2] \in Board /\ p.body[3] \in Board
  <2>1. 1 \in 1 .. Len(p.body) /\ 2 \in 1 .. Len(p.body) /\ 3 \in 1 .. Len(p.body)
    BY <1>3
  <2> QED BY <1>1, <2>1, ElementOfSeq
<1> QED BY <1>1, <1>3, <1>4

LEMMA AdvanceKeeps ==
    ASSUME NEW p \in Player, Snake(p), StepTo(p.body[1], p.next) \in Board
    PROVE  /\ Advance(p) \in Player /\ Snake(Advance(p)) /\ Taut(Advance(p))
           /\ Advance(p).id = p.id /\ Advance(p).score = p.score
<1> DEFINE b == p.body
           h == StepTo(b[1], p.next)
           m == <<h>> \o Front(b)
<1>1. /\ b \in Seq(Board) /\ Len(b) \in Nat /\ Len(b) >= 3
      /\ b[1] \in Board /\ b[2] \in Board /\ b[3] \in Board
      /\ p.dir \in Dirs /\ p.next \in Dirs
  BY SnakeLen
<1>2. /\ m \in Seq(Board) /\ Len(m) = Len(b) /\ m[1] = h
      /\ \A s \in 2 .. Len(b) : m[s] = b[s - 1]
  <2> HIDE DEF b, h
  <2>1. h \in Board
    BY DEF b, h
  <2> QED BY <1>1, <2>1, Shifted
<1>3. Advance(p) = [p EXCEPT !.dir = p.next, !.body = m]
  BY DEF Advance
<1> HIDE DEF m
<1>4. /\ Advance(p) \in Player
      /\ Advance(p).id = p.id /\ Advance(p).score = p.score
      /\ Advance(p).next = p.next /\ Advance(p).dir = p.next /\ Advance(p).body = m
  BY <1>1, <1>2, <1>3 DEF Player
<1>5. Len(m) = InitialLength + p.score
  BY <1>2 DEF Snake
<1>6. p.next # Opposite[p.next]
  BY <1>1 DEF Opposite, Dirs
<1>7. m[1] = StepTo(m[2], p.next)
  <2>1. m[2] = b[1]
    BY <1>1, <1>2
  <2> QED BY <1>2, <2>1
<1>8. ASSUME NEW s \in 1 .. Len(m) - 1
      PROVE  Near(m[s], m[s + 1])
  <2>1. CASE s = 1
    <3>1. m[s + 1] = b[1]
      BY <1>1, <1>2, <2>1
    <3>2. Near(h, b[1])
      BY <1>1, StepNear
    <3> QED BY <1>2, <2>1, <3>1, <3>2
  <2>2. CASE s # 1
    <3>1. m[s] = b[s - 1] /\ m[s + 1] = b[s]
      BY <1>1, <1>2, <2>2
    <3>2. s - 1 \in 1 .. Len(b) - 1 /\ s - 1 # Len(b) - 1 /\ (s - 1) + 1 = s
      BY <1>1, <1>2, <2>2
    <3>3. Linked(b, s - 1)
      BY <3>2 DEF Snake
    <3>4. Near(b[s - 1], b[s])
      BY <3>2, <3>3 DEF Linked
    <3> QED BY <3>1, <3>4
  <2> QED BY <2>1, <2>2
<1> QED BY <1>4, <1>5, <1>6, <1>7, <1>8 DEF Snake, Taut, Linked

(* Replacing the head of a snake that has moved.                           *)
LEMMA NewHead ==
    ASSUME NEW b \in Seq(Board), Len(b) >= 3, NEW r \in Int \X Int, NEW h \in Board
    PROVE  [<<r>> \o Front(b) EXCEPT ![1] = h] = <<h>> \o Front(b)
<1> DEFINE U == Int \X Int
           f == Front(b)
<1>1. Board \subseteq U
  BY Sizes DEF Board
<1>2. f \in Seq(U)
  <2>1. f \in Seq(Board)
    BY DEF Front
  <2> QED BY <1>1, <2>1, SeqMonotonic
<1>3. h \in U /\ r \in U
  BY <1>1
<1> HIDE DEF U, f
<1> DEFINE old == <<r>> \o f
           new == <<h>> \o f
<1>4. <<r>> \in Seq(U) /\ <<h>> \in Seq(U) /\ Len(<<r>>) = 1 /\ Len(<<h>>) = 1
  BY <1>3
<1>5. /\ old \in Seq(U) /\ Len(old) = 1 + Len(f)
      /\ \A k \in 1 .. 1 + Len(f) : old[k] = IF k <= 1 THEN r ELSE f[k - 1]
  BY <1>2, <1>3, <1>4
<1>6. /\ new \in Seq(U) /\ Len(new) = 1 + Len(f)
      /\ \A k \in 1 .. 1 + Len(f) : new[k] = IF k <= 1 THEN h ELSE f[k - 1]
  BY <1>2, <1>3, <1>4
<1>7. Len(f) \in Nat
  BY <1>2
<1> HIDE DEF old, new
<1>8. 1 \in 1 .. Len(old)
  BY <1>5, <1>7
<1> DEFINE x == [old EXCEPT ![1] = h]
<1>9. x \in Seq(U) /\ Len(x) = Len(old) /\ \A k \in 1 .. Len(old) : x[k] = IF k = 1 THEN h ELSE old[k]
  BY <1>3, <1>5, <1>8, ExceptSeq
<1> HIDE DEF x
<1>10. ASSUME NEW k \in 1 .. Len(x) PROVE x[k] = new[k]
  <2>1. k \in 1 .. 1 + Len(f) /\ k \in 1 .. Len(old)
    BY <1>5, <1>9
  <2>2. CASE k = 1
    BY <1>6, <1>9, <2>1, <2>2
  <2>3. CASE k # 1
    <3>1. ~(k <= 1)
      BY <1>7, <2>1, <2>3
    <3>2. x[k] = old[k] /\ old[k] = f[k - 1] /\ new[k] = f[k - 1]
      BY <1>5, <1>6, <1>9, <2>1, <2>3, <3>1
    <3> QED BY <3>2
  <2> QED BY <2>2, <2>3
<1>11. x = new
  BY <1>5, <1>6, <1>9, <1>10, SeqEqual
<1> QED BY <1>11 DEF x, old, new, f

(* The record a move makes of a player.                                    *)
LEMMA TurnedRecord ==
    ASSUME NEW p \in Player, NEW d, NEW b, NEW q, q = [p EXCEPT !.dir = d, !.body = b]
    PROVE  q = [id |-> p.id, body |-> b, dir |-> d, next |-> p.next,
                paused |-> p.paused, score |-> p.score]
<1>1. p = [id |-> p.id, body |-> p.body, dir |-> p.dir, next |-> p.next,
           paused |-> p.paused, score |-> p.score]
  BY DEF Player
<1> QED BY <1>1

(* MovePlayer and, where the head has left the board in easy mode, Wrapped *)
(* amount to Advance; the head lands on the next cell in any case.         *)
LEMMA MoveIsAdvance ==
    ASSUME NEW p \in Player, Snake(p)
    PROVE  /\ ~OffBoard(MovePlayer(p)) =>
                 MovePlayer(p) = Advance(p) /\ StepTo(p.body[1], p.next) \in Board
           /\ OffBoard(MovePlayer(p)) /\ EasyMode =>
                 Wrapped(MovePlayer(p)) = Advance(p) /\ StepTo(p.body[1], p.next) \in Board
           /\ Head1(Landed(MovePlayer(p))) = StepTo(p.body[1], p.next)
           /\ MovePlayer(p).id = p.id /\ MovePlayer(p).score = p.score
<1> DEFINE b == p.body
           r == <<b[1][1] + Delta[p.next][1], b[1][2] + Delta[p.next][2]>>
           h == StepTo(b[1], p.next)
           m == <<r>> \o Front(b)
<1>1. /\ b \in Seq(Board) /\ Len(b) \in Nat /\ Len(b) >= 3
      /\ b[1] \in Board /\ p.dir \in Dirs /\ p.next \in Dirs
  BY SnakeLen
<1>2. b[1][1] \in 0 .. Width - 1 /\ b[1][2] \in 0 .. Height - 1
  BY <1>1, CellParts
<1>3. Delta[p.next][1] \in Int /\ Delta[p.next][2] \in Int
  BY <1>1 DEF Delta, Dirs
<1>4. r[1] \in Int /\ r[2] \in Int /\ r = <<r[1], r[2]>> /\ r \in Int \X Int
  BY <1>2, <1>3, Sizes
<1>5. h = IF EasyMode THEN <<r[1] % Width, r[2] % Height>> ELSE r
  BY DEF StepTo
<1>6. MovePlayer(p) = [p EXCEPT !.dir = p.next, !.body = m]
  BY DEF MovePlayer, Head1
<1>7. p = [id |-> p.id, body |-> p.body, dir |-> p.dir, next |-> p.next,
           paused |-> p.paused, score |-> p.score]
  BY DEF Player
<1> HIDE DEF m
<1>8. MovePlayer(p) = [id |-> p.id, body |-> m, dir |-> p.next, next |-> p.next,
                       paused |-> p.paused, score |-> p.score]
  BY <1>6, <1>7
<1> HIDE DEF r, h, b
<1>9. m[1] = r
  <2>1. Len(Front(b)) \in Nat /\ Front(b) \in Seq(Board)
    BY <1>1 DEF Front
  <2>2. <<r>> \in Seq(Int \X Int) /\ Len(<<r>>) = 1 /\ <<r>>[1] = r
    BY <1>4
  <2>3. Front(b) \in Seq(Int \X Int)
    <3>1. Board \subseteq Int \X Int
      BY Sizes DEF Board
    <3> QED BY <2>1, <3>1, SeqMonotonic
  <2> QED BY <2>1, <2>2, <2>3, ConcatProperties DEF m
<1>10. OffBoard(MovePlayer(p)) <=> r \notin Board
  BY <1>8, <1>9 DEF OffBoard, Head1
<1>11. Advance(p) = [id |-> p.id, body |-> <<h>> \o Front(b), dir |-> p.next,
                     next |-> p.next, paused |-> p.paused, score |-> p.score]
  <2> DEFINE a == <<h>> \o Front(b)
  <2>1. Advance(p) = [p EXCEPT !.dir = p.next, !.body = a]
    BY DEF Advance, h, b
  <2> HIDE DEF a
  <2>2. Advance(p) = [id |-> p.id, body |-> a, dir |-> p.next, next |-> p.next,
                      paused |-> p.paused, score |-> p.score]
    BY <2>1, TurnedRecord
  <2> QED BY <2>2 DEF a
<1>12. ASSUME r \in Board
       PROVE  MovePlayer(p) = Advance(p) /\ h \in Board
  <2>1. r[1] \in 0 .. Width - 1 /\ r[2] \in 0 .. Height - 1
    BY <1>12, CellParts
  <2>2. r[1] % Width = r[1] /\ r[2] % Height = r[2]
    BY <2>1, Modulo, Sizes
  <2>3. h = r
    BY <1>4, <1>5, <2>2
  <2> QED BY <1>8, <1>11, <1>12, <2>3 DEF m
<1>13. ASSUME EasyMode
       PROVE  Wrapped(MovePlayer(p)) = Advance(p) /\ h \in Board
  <2>1. h \in Board
    BY <1>1, <1>13, StepInEasyMode DEF h
  <2>2. [m EXCEPT ![1] = h] = <<h>> \o Front(b)
    BY <1>1, <1>4, <2>1, NewHead DEF m
  <2>3. Wrapped(MovePlayer(p)) = [MovePlayer(p) EXCEPT !.body = [m EXCEPT ![1] = h]]
    <3>1. <<m[1][1] % Width, m[1][2] % Height>> = h
      BY <1>5, <1>9, <1>13
    <3>2. MovePlayer(p).body = m
      BY <1>8
    <3>3. Wrapped(MovePlayer(p))
            = [MovePlayer(p) EXCEPT !.body =
                 [MovePlayer(p).body EXCEPT ![1] =
                    <<MovePlayer(p).body[1][1] % Width, MovePlayer(p).body[1][2] % Height>>]]
      BY DEF Wrapped
    <3> QED BY <3>1, <3>2, <3>3
  <2>4. Wrapped(MovePlayer(p)) = Advance(p)
    <3> DEFINE a == <<h>> \o Front(b)
               q == MovePlayer(p)
    <3>1. Wrapped(q) = [q EXCEPT !.body = a]
      BY <2>2, <2>3
    <3>2. Advance(p) = [id |-> p.id, body |-> a, dir |-> p.next, next |-> p.next,
                        paused |-> p.paused, score |-> p.score]
      BY <1>11
    <3> HIDE DEF a
    <3>3. [q EXCEPT !.body = a] = [id |-> p.id, body |-> a, dir |-> p.next, next |-> p.next,
                                   paused |-> p.paused, score |-> p.score]
      BY <1>8
    <3> QED BY <3>1, <3>2, <3>3
  <2> QED BY <2>1, <2>4
<1>14. Head1(Landed(MovePlayer(p))) = h
  <2>1. CASE EasyMode
    <3>1. (<<h>> \o Front(b))[1] = h
      BY <1>1, Shifted
    <3>2. Advance(p).body = <<h>> \o Front(b)
      BY <1>11
    <3> QED BY <1>13, <2>1, <3>1, <3>2 DEF Landed, Head1
  <2>2. CASE ~EasyMode
    <3>1. h = r /\ MovePlayer(p).body = m
      BY <1>5, <1>8, <2>2
    <3> QED BY <1>9, <2>2, <3>1 DEF Landed, Head1
  <2> QED BY <2>1, <2>2
<1> QED BY <1>8, <1>10, <1>12, <1>13, <1>14 DEF h, b

(* The way to a snake's next cell does not lead back to its neck: the neck *)
(* is where the head came from in the direction it last moved in, and only *)
(* the opposite direction leads there.                                     *)
LEMMA NotToTheNeck ==
    ASSUME NEW p \in Player, Snake(p)
    PROVE  StepTo(p.body[1], p.next) # p.body[2]
<1>1. p.body[1] \in Board /\ p.body[2] \in Board /\ p.dir \in Dirs /\ p.next \in Dirs
  BY SnakeLen
<1>2. p.body[1] = StepTo(p.body[2], p.dir) /\ p.next # Opposite[p.dir]
  BY DEF Snake
<1>3. StepTo(StepTo(p.body[2], p.dir), p.next) # p.body[2]
  BY <1>1, <1>2, StepForward
<1> QED BY <1>2, <1>3

(* Growing keeps a snake that has just moved in one piece, and counts.     *)
LEMMA GrowKeeps ==
    ASSUME NEW p \in Player, Snake(p), Taut(p), p.score < MaxScore
    PROVE  /\ GrowPlayer(p) \in Player /\ Snake(GrowPlayer(p))
           /\ GrowPlayer(p).id = p.id
           /\ Cells(GrowPlayer(p)) = Cells(p) /\ Head1(GrowPlayer(p)) = Head1(p)
<1> DEFINE b == p.body
           n == Len(b)
           l == b[n]
           g == Append(b, l)
<1>1. b \in Seq(Board) /\ n \in Nat /\ n >= 3 /\ p.score \in Nat /\ p.score + 1 \in 0 .. MaxScore
  <2>1. p.score \in 0 .. MaxScore /\ MaxScore \in Nat
    BY GameAssumption DEF Player
  <2> QED BY <2>1, SnakeLen
<1>2. l \in Board
  BY <1>1
<1>3. g \in Seq(Board) /\ Len(g) = n + 1 /\ g[n + 1] = l /\ \A s \in 1 .. n : g[s] = b[s]
  BY <1>1, <1>2, AppendProperties
<1>4. GrowPlayer(p) = [id |-> p.id, body |-> g, dir |-> p.dir, next |-> p.next,
                       paused |-> p.paused, score |-> p.score + 1]
  <2>1. p = [id |-> p.id, body |-> p.body, dir |-> p.dir, next |-> p.next,
             paused |-> p.paused, score |-> p.score]
    BY DEF Player
  <2>2. GrowPlayer(p) = [p EXCEPT !.score = p.score + 1, !.body = g]
    BY DEF GrowPlayer, Last
  <2> HIDE DEF g
  <2> QED BY <2>1, <2>2
<1> HIDE DEF g
<1>5. GrowPlayer(p) \in Player
  BY <1>1, <1>3, <1>4 DEF Player
<1>6. ASSUME NEW s \in 1 .. Len(g) - 1
      PROVE  Linked(g, s)
  <2>1. CASE s = n
    BY <1>1, <1>3, <2>1 DEF Linked
  <2>2. CASE s # n
    <3>1. s \in 1 .. n - 1 /\ s \in 1 .. n /\ s + 1 \in 1 .. n
      BY <1>1, <1>3, <2>2
    <3>2. Near(b[s], b[s + 1])
      BY <3>1 DEF Taut
    <3>3. g[s] = b[s] /\ g[s + 1] = b[s + 1]
      BY <1>3, <3>1
    <3> QED BY <3>2, <3>3 DEF Linked
  <2> QED BY <2>1, <2>2
<1>7. Snake(GrowPlayer(p))
  <2>1. g[1] = b[1] /\ g[2] = b[2]
    BY <1>1, <1>3
  <2>2. Len(g) = InitialLength + (p.score + 1)
    BY <1>1, <1>3 DEF Snake, InitialLength
  <2> HIDE DEF b, n, l
  <2> QED BY <1>4, <1>6, <2>1, <2>2 DEF Snake, b
<1>8. Cells(GrowPlayer(p)) = Cells(p)
  <2>1. DOMAIN g = 1 .. n + 1 /\ DOMAIN b = 1 .. n
    BY <1>1, <1>3
  <2>2. ASSUME NEW s \in 1 .. n + 1 PROVE \E k \in 1 .. n : g[s] = b[k]
    <3>1. CASE s = n + 1
      BY <1>1, <1>3, <3>1
    <3>2. CASE s # n + 1
      BY <1>1, <1>3, <3>2
    <3> QED BY <3>1, <3>2
  <2>3. ASSUME NEW s \in 1 .. n PROVE s \in 1 .. n + 1 /\ g[s] = b[s]
    BY <1>1, <1>3
  <2>4. Cells(GrowPlayer(p)) = {g[s] : s \in 1 .. n + 1}
    <3>1. GrowPlayer(p).body = g
      BY <1>4
    <3> QED BY <2>1, <3>1 DEF Cells, ToSet
  <2>5. Cells(p) = {b[s] : s \in 1 .. n}
    BY <2>1 DEF Cells, ToSet
  <2> HIDE DEF b, n, l
  <2> QED BY <2>2, <2>3, <2>4, <2>5
<1>9. Head1(GrowPlayer(p)) = Head1(p)
  BY <1>1, <1>3, <1>4 DEF Head1
<1> QED BY <1>4, <1>5, <1>7, <1>8, <1>9

(* What game_add_player puts on the board is a snake.                      *)
LEMMA SpawnedSnake ==
    ASSUME NEW id \in Ids, NEW b \in SpawnBodies
    PROVE  LET p == [id |-> id, body |-> b, dir |-> "right", next |-> "right",
                     paused |-> FALSE, score |-> 0]
           IN  p \in Player /\ Snake(p)
<1> DEFINE p == [id |-> id, body |-> b, dir |-> "right", next |-> "right",
                 paused |-> FALSE, score |-> 0]
<1>1. PICK x \in 2 .. Width - 1 : \E y \in 0 .. Height - 1 : b = <<<<x, y>>, <<x - 1, y>>, <<x - 2, y>>>>
  BY DEF SpawnBodies, InitialLength
<1>2. PICK y \in 0 .. Height - 1 : b = <<<<x, y>>, <<x - 1, y>>, <<x - 2, y>>>>
  BY <1>1
<1>3. <<x, y>> \in Board /\ <<x - 1, y>> \in Board /\ <<x - 2, y>> \in Board
  BY Sizes DEF Board
<1>4. b \in Seq(Board) /\ Len(b) = 3 /\ b[1] = <<x, y>> /\ b[2] = <<x - 1, y>> /\ b[3] = <<x - 2, y>>
  BY <1>2, <1>3
<1>5. p \in Player
  BY <1>4, GameAssumption DEF Player, Dirs
<1>6. "right" \in Dirs /\ "right" # Opposite["right"]
  BY DEF Dirs, Opposite
<1>7. ASSUME NEW z \in 1 .. Width - 1
      PROVE  StepTo(<<z - 1, y>>, "right") = <<z, y>> /\ <<z - 1, y>> \in Board /\ <<z, y>> \in Board
  <2>1. <<z - 1, y>> \in Board /\ <<z, y>> \in Board
    BY Sizes DEF Board
  <2>2. StepX(z - 1, "right") = z /\ StepY(y, "right") = y
    BY Sizes DEF StepX, StepY
  <2>3. <<z - 1, y>>[1] = z - 1 /\ <<z - 1, y>>[2] = y
    OBVIOUS
  <2>4. StepTo(<<z - 1, y>>, "right") = <<StepX(z - 1, "right"), StepY(y, "right")>>
    BY <1>6, <2>1, <2>3, StepParts
  <2> QED BY <2>1, <2>2, <2>4
<1>8. StepTo(b[2], "right") = b[1] /\ StepTo(b[3], "right") = b[2]
  <2>1. x \in 1 .. Width - 1 /\ x - 1 \in 1 .. Width - 1 /\ (x - 1) - 1 = x - 2
    BY Sizes
  <2> QED BY <1>4, <1>7, <2>1
<1>9. Near(b[1], b[2]) /\ Near(b[2], b[3])
  BY <1>3, <1>4, <1>6, <1>8, StepNear
<1>10. \A s \in 1 .. Len(b) - 1 : Linked(b, s)
  <2>1. \A s \in 1 .. Len(b) - 1 : s = 1 \/ s = 2
    BY <1>4
  <2>2. Linked(b, 1) /\ Linked(b, 2)
    BY <1>9 DEF Linked
  <2> QED BY <2>1, <2>2
<1>11. p.body = b /\ p.dir = "right" /\ p.next = "right" /\ p.score = 0
  OBVIOUS
<1> HIDE DEF p
<1>12. Snake(p)
  <2>1. Len(b) = InitialLength + 0
    BY <1>4 DEF InitialLength
  <2>2. "right" # Opposite["right"] /\ b[1] = StepTo(b[2], "right")
    BY <1>6, <1>8
  <2> QED BY <1>10, <1>11, <2>1, <2>2 DEF Snake
<1> QED BY <1>5, <1>12 DEF p
=============================================================================

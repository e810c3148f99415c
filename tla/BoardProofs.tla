------------------------------ MODULE BoardProofs ------------------------------
(***************************************************************************)
(* The board with its obstacles, of any size and however they were drawn:  *)
(* since no two of them touch, not even at a corner, there is room for     *)
(* every snake and fruit, and the free cells are connected.                *)
(***************************************************************************)
EXTENDS Game, SelectionProofs, TLAPS

(* HasNeighbor keeps obstacles apart.                                      *)
Touch(a, b) == Abs(a[1] - b[1]) <= 1 /\ Abs(a[2] - b[2]) <= 1

Apart == \A a, b \in obstacles : a = b \/ ~Touch(a, b)

BoardInv == obstacles \subseteq Board /\ Apart

LEMMA BoardSize ==
    /\ Width \in Nat /\ Width > 3 /\ Height \in Nat /\ Height > 2
    /\ InitialLength = 3 /\ Sites \subseteq Board
BY GameAssumption DEF InitialLength, Board

(* A cell as its column and its row.                                       *)
LEMMA BoardCells ==
    /\ \A c \in Board : c = <<c[1], c[2]>> /\ c[1] \in 0 .. Width - 1 /\ c[2] \in 0 .. Height - 1
    /\ \A x \in 0 .. Width - 1 : \A y \in 0 .. Height - 1 : <<x, y>> \in Board
BY DEF Board

LEMMA AbsSmall ==
    ASSUME NEW n \in Int, -1 <= n, n <= 1
    PROVE  Abs(n) <= 1
BY DEF Abs

LEMMA TouchSymmetric ==
    ASSUME NEW a \in Int \X Int, NEW b \in Int \X Int, Touch(a, b)
    PROVE  Touch(b, a)
BY DEF Touch, Abs

LEMMA InitBoard == Init => BoardInv
BY DEF Init, BoardInv, Apart

LEMMA NextBoard == BoardInv /\ [Next]_vars => BoardInv'
<1> SUFFICES ASSUME BoardInv, [Next]_vars PROVE BoardInv'
  OBVIOUS
<1>1. CASE UNCHANGED obstacles
  BY <1>1 DEF BoardInv, Apart
<1>2. CASE PlaceObstacle
  <2>1. PICK pos \in Sites : ~HasNeighbor(pos) /\ obstacles' = obstacles \cup {pos}
    BY <1>2 DEF PlaceObstacle
  <2>2. pos \in Board /\ obstacles' \subseteq Board
    BY <2>1, BoardSize DEF BoardInv
  <2>3. Board \subseteq Int \X Int
    BY BoardSize DEF Board
  <2>4. \A o \in obstacles : ~Touch(o, pos)
    BY <2>1 DEF HasNeighbor, Touch
  <2>5. \A o \in obstacles : ~Touch(pos, o)
    BY <2>2, <2>3, <2>4, TouchSymmetric DEF BoardInv
  <2>6. Apart'
    <3> SUFFICES ASSUME NEW a \in obstacles', NEW b \in obstacles', a # b PROVE ~Touch(a, b)
      BY DEF Apart
    <3> QED BY <2>1, <2>4, <2>5 DEF BoardInv, Apart
  <2> QED BY <2>2, <2>6 DEF BoardInv
<1>3. CASE ~PlaceObstacle
  BY <1>1, <1>3 DEF Next, vars, world, Join, Leave, Turn, SetPaused, StopPlacing, StartGame,
                    StartTick, UpdateStep, SkipPaused, Die, Wrap, Eat, Move, EndTick, Finished,
                    Turns, InLoop
<1> QED BY <1>2, <1>3

(* Obstacles never touch: neither side by side nor at a corner             *)
(* (game_spawn_obstacles_random).                                          *)
LEMMA BoardInvariant == Spec => []BoardInv
<1> QED BY InitBoard, NextBoard, PTL DEF Spec

-----------------------------------------------------------------------------
(* The cells around an obstacle that are on the board are free.            *)
Free == Board \ obstacles

LEMMA NextToObstacle ==
    ASSUME BoardInv, NEW o \in obstacles, NEW x \in 0 .. Width - 1, NEW y \in 0 .. Height - 1,
           x - o[1] \in -1 .. 1, y - o[2] \in -1 .. 1, <<x, y>> # o
    PROVE  <<x, y>> \in Free
<1>1. <<x, y>> \in Board
  BY BoardCells
<1>2. o[1] \in Int /\ o[2] \in Int /\ x \in Int /\ y \in Int
  BY BoardCells, BoardSize DEF BoardInv
<1>3. Touch(<<x, y>>, o)
  BY <1>2, AbsSmall DEF Touch
<1>4. <<x, y>> \notin obstacles
  BY <1>3 DEF BoardInv, Apart
<1> QED BY <1>1, <1>4 DEF Free

(* Three free cells in a row, somewhere.                                   *)
LEMMA RoomForSnake == ASSUME BoardInv PROVE SpawnBodies # {}
<1> DEFINE Body(x, y) == <<<<x, y>>, <<x - 1, y>>, <<x - 2, y>>>>
<1>1. /\ Width \in Nat /\ Width > 3 /\ Height \in Nat /\ Height > 2
      /\ InitialLength - 1 = 2 /\ 0 \in 0 .. Height - 1 /\ 1 \in 0 .. Height - 1
  BY BoardSize
<1>2. ASSUME NEW x \in 2 .. Width - 1, NEW y \in 0 .. Height - 1,
             <<x, y>> \in Free, <<x - 1, y>> \in Free, <<x - 2, y>> \in Free
      PROVE  SpawnBodies # {}
  <2>1. ToSet(Body(x, y)) = {<<x, y>>, <<x - 1, y>>, <<x - 2, y>>}
    BY DEF ToSet
  <2>2. ToSet(Body(x, y)) \cap obstacles = {}
    BY <1>2, <2>1 DEF Free
  <2>3. Body(x, y) \in SpawnBodies
    BY <1>1, <2>2 DEF SpawnBodies
  <2> QED BY <2>3
\* Beside an obstacle that is not in an outer column.
<1>3. CASE \E o \in obstacles : o[1] \in 1 .. Width - 2
  <2>1. PICK o \in obstacles : o[1] \in 1 .. Width - 2
    BY <1>3
  <2>2. o \in Board /\ o = <<o[1], o[2]>> /\ o[2] \in 0 .. Height - 1
    BY BoardCells DEF BoardInv
  <2>3. \E y \in 0 .. Height - 1 : y # o[2] /\ y - o[2] \in -1 .. 1
    <3>1. CASE o[2] = 0
      BY <1>1, <3>1
    <3>2. CASE o[2] # 0
      <4>1. o[2] - 1 \in 0 .. Height - 1 /\ (o[2] - 1) - o[2] = -1 /\ o[2] - 1 # o[2]
        BY <1>1, <2>2, <3>2
      <4> QED BY <4>1
    <3> QED BY <3>1, <3>2
  <2>4. PICK y \in 0 .. Height - 1 : y # o[2] /\ y - o[2] \in -1 .. 1
    BY <2>3
  <2> DEFINE x == o[1] + 1
  <2>5. x \in 2 .. Width - 1 /\ x \in 0 .. Width - 1 /\ x - 1 \in 0 .. Width - 1 /\ x - 2 \in 0 .. Width - 1
        /\ x - o[1] \in -1 .. 1 /\ (x - 1) - o[1] \in -1 .. 1 /\ (x - 2) - o[1] \in -1 .. 1
    BY <1>1, <2>1
  <2> HIDE DEF x
  <2>6. <<x, y>> # o /\ <<x - 1, y>> # o /\ <<x - 2, y>> # o
    BY <2>2, <2>4
  <2>7. <<x, y>> \in Free /\ <<x - 1, y>> \in Free /\ <<x - 2, y>> \in Free
    BY <2>4, <2>5, <2>6, NextToObstacle
  <2> QED BY <1>2, <2>4, <2>5, <2>7
\* Otherwise in one of the two rows at the top.
<1>4. CASE ~ \E o \in obstacles : o[1] \in 1 .. Width - 2
  <2>1. \A y \in 0 .. Height - 1 : <<1, y>> \in Free /\ <<2, y>> \in Free
    <3> SUFFICES ASSUME NEW y \in 0 .. Height - 1 PROVE <<1, y>> \in Free /\ <<2, y>> \in Free
      OBVIOUS
    <3>1. 1 \in 0 .. Width - 1 /\ 2 \in 0 .. Width - 1 /\ 1 \in 1 .. Width - 2 /\ 2 \in 1 .. Width - 2
      BY <1>1
    <3>2. <<1, y>> \in Board /\ <<2, y>> \in Board
      BY <3>1, BoardCells
    <3>3. <<1, y>>[1] = 1 /\ <<2, y>>[1] = 2
      OBVIOUS
    <3> QED BY <1>4, <3>1, <3>2, <3>3 DEF Free
  <2>2. 2 \in 2 .. Width - 1 /\ 2 - 1 = 1 /\ 2 - 2 = 0 /\ 0 \in 0 .. Width - 1
    BY <1>1
  <2>3. CASE <<0, 0>> \in Free
    BY <1>1, <1>2, <2>1, <2>2, <2>3
  <2>4. CASE <<0, 0>> \notin Free
    <3>1. <<0, 0>> \in obstacles
      BY <1>1, <2>2, <2>4, BoardCells DEF Free
    <3>2. <<0, 1>> \in Free
      <4>1. 0 - <<0, 0>>[1] \in -1 .. 1 /\ 1 - <<0, 0>>[2] \in -1 .. 1 /\ <<0, 1>> # <<0, 0>>
        OBVIOUS
      <4> QED BY <1>1, <2>2, <3>1, <4>1, NextToObstacle
    <3> QED BY <1>1, <1>2, <2>1, <2>2, <3>2
  <2> QED BY <2>3, <2>4
<1> QED BY <1>3, <1>4

(* Of two cells that touch, one is free.                                   *)
LEMMA OneOfTwoFree ==
    ASSUME BoardInv, NEW a \in Board, NEW b \in Board, a # b, Touch(a, b)
    PROVE  a \in Free \/ b \in Free
BY DEF BoardInv, Apart, Free

(* A second cell for a fruit, beside any.                                  *)
LEMMA RoomForFruit ==
    ASSUME BoardInv, Height > 3, NEW c
    PROVE  FruitCells(<<[body |-> <<c>>]>>) # {}
<1>1. Width \in Nat /\ Width > 3 /\ Height \in Nat /\ Height > 3
  BY BoardSize
<1> DEFINE k1 == <<1, 1>>
           k2 == <<1, 2>>
           k3 == <<2, 1>>
<1>2. \A k \in {k1, k2, k3} : k \in Board /\ k \in (1 .. Width - 2) \X (1 .. Height - 2)
  BY <1>1 DEF Board
<1>3. Touch(k1, k2) /\ Touch(k1, k3) /\ Touch(k2, k3) /\ k1 # k2 /\ k1 # k3 /\ k2 # k3
  BY AbsSmall DEF Touch
<1> HIDE DEF k1, k2, k3
<1>4. \E k \in {k1, k2, k3} : k \in Free /\ k # c
  <2>1. k1 \in Free \/ k2 \in Free
    BY <1>2, <1>3, OneOfTwoFree
  <2>2. k1 \in Free \/ k3 \in Free
    BY <1>2, <1>3, OneOfTwoFree
  <2>3. k2 \in Free \/ k3 \in Free
    BY <1>2, <1>3, OneOfTwoFree
  <2> QED BY <1>3, <2>1, <2>2, <2>3
<1>5. PICK k \in {k1, k2, k3} : k \in Free /\ k # c
  BY <1>4
<1> DEFINE ps == <<[body |-> <<c>>]>>
<1>6. \A j \in DOMAIN ps : Head1(ps[j]) # k
  BY <1>5 DEF Head1
<1>7. k \in FruitCells(ps)
  <2> HIDE DEF ps
  <2> QED BY <1>2, <1>5, <1>6 DEF FruitCells, Free
<1> QED BY <1>7

(* A way in and another out.                                               *)
LEMMA TwoWays ==
    ASSUME BoardInv, NEW c \in (1 .. Width - 2) \X (1 .. Height - 2)
    PROVE  Cardinality(Around(c) \ obstacles) > 1
<1>1. Width \in Nat /\ Height \in Nat /\ c[1] \in 1 .. Width - 2 /\ c[2] \in 1 .. Height - 2
  BY BoardSize
<1> DEFINE x == c[1]
           y == c[2]
           u == <<x, y - 1>>
           d == <<x, y + 1>>
           l == <<x - 1, y>>
           r == <<x + 1, y>>
<1>2. Around(c) = {u, d, l, r}
  BY <1>1 DEF Around, Delta, Dirs
<1>3. u \in Board /\ d \in Board /\ l \in Board /\ r \in Board
  BY <1>1 DEF Board
<1>4. Touch(u, l) /\ Touch(d, r)
  <2>1. x \in Int /\ y \in Int
    BY <1>1
  <2> HIDE DEF x, y
  <2>2. /\ x - (x - 1) = 1 /\ (y - 1) - y = -1 /\ x - (x + 1) = -1 /\ (y + 1) - y = 1
    BY <2>1
  <2> QED BY <2>2, AbsSmall DEF Touch
<1>5. u # l /\ d # r /\ u # d /\ u # r /\ l # d /\ l # r
  BY <1>1
<1> HIDE DEF u, d, l, r
<1>6. PICK a \in {u, l} : a \in Free
  BY <1>3, <1>4, <1>5, OneOfTwoFree
<1>7. PICK b \in {d, r} : b \in Free
  BY <1>3, <1>4, <1>5, OneOfTwoFree
<1>8. a # b /\ {a, b} \subseteq Around(c) \ obstacles
  BY <1>2, <1>5, <1>6, <1>7 DEF Free
<1>9. IsFiniteSet(Around(c) \ obstacles)
  <2>1. IsFiniteSet(Around(c))
    <3>1. IsFiniteSet({r})
      BY FS_Singleton
    <3>2. IsFiniteSet({r} \cup {l})
      BY <3>1, FS_AddElement
    <3>3. IsFiniteSet(({r} \cup {l}) \cup {d})
      BY <3>2, FS_AddElement
    <3>4. IsFiniteSet((({r} \cup {l}) \cup {d}) \cup {u})
      BY <3>3, FS_AddElement
    <3>5. Around(c) = (({r} \cup {l}) \cup {d}) \cup {u}
      BY <1>2
    <3> QED BY <3>4, <3>5
  <2> QED BY <2>1, FS_Subset
<1>10. Cardinality({a, b}) = 2
  <2>1. IsFiniteSet({a}) /\ Cardinality({a}) = 1
    BY FS_Singleton
  <2>2. {a, b} = {a} \cup {b} /\ b \notin {a}
    BY <1>8
  <2> QED BY <2>1, <2>2, FS_AddElement
<1>11. Cardinality({a, b}) <= Cardinality(Around(c) \ obstacles)
  BY <1>8, <1>9, FS_Subset
<1>12. Cardinality(Around(c) \ obstacles) \in Nat
  BY <1>9, FS_CardinalityType
<1> QED BY <1>10, <1>11, <1>12

-----------------------------------------------------------------------------
(* Reachable                                                               *)
Closed(r, cells) == \A a \in r : Around(a) \cap cells \subseteq r

(* One step out of a set of cells.                                         *)
Wider(r, cells) == r \cup (cells \cap UNION {Around(c) : c \in r})

LEMMA WiderValue ==
    ASSUME NEW cells, NEW r \in SUBSET cells
    PROVE  /\ r \subseteq Wider(r, cells) /\ Wider(r, cells) \subseteq cells
           /\ Wider(r, cells) = r <=> Closed(r, cells)
<1>1. r \subseteq Wider(r, cells) /\ Wider(r, cells) \subseteq cells
  BY DEF Wider
<1>2. ASSUME Wider(r, cells) = r PROVE Closed(r, cells)
  <2> SUFFICES ASSUME NEW a \in r, NEW b \in Around(a) \cap cells PROVE b \in r
    BY DEF Closed
  <2>1. b \in Wider(r, cells)
    BY DEF Wider
  <2> QED BY <1>2, <2>1
<1>3. ASSUME Closed(r, cells) PROVE Wider(r, cells) = r
  <2>1. \A c \in r : Around(c) \cap cells \subseteq r
    BY <1>3 DEF Closed
  <2> QED BY <1>1, <2>1 DEF Wider
<1> QED BY <1>1, <1>2, <1>3

LEMMA ReachableValue ==
    ASSUME NEW cells, IsFiniteSet(cells), NEW from \in cells
    PROVE  /\ from \in Reachable(from, cells) /\ Reachable(from, cells) \subseteq cells
           /\ Closed(Reachable(from, cells), cells)
<1> DEFINE N == Cardinality(cells)
           V == SUBSET cells
           G == [x \in Nat \X V |-> Wider(x[2], cells)]
           Eq(f) == f = [n \in 0 .. N |-> IF n = 0 THEN {from}
                                          ELSE LET r == f[n - 1]
                                               IN  r \cup (cells \cap UNION {Around(c) : c \in r})]
           start == {from}
<1>1. N \in Nat /\ start \in V
  BY FS_CardinalityType
<1>2. G \in [Nat \X V -> V]
  BY WiderValue
<1>3. \A n \in Nat : \A r \in V : G[<<n, r>>] = Wider(r, cells)
  OBVIOUS
<1> HIDE DEF N, V, G, start
<1>4. PICK f : Recurs(f, V, start, G, N)
  BY <1>1, <1>2, RecursionExists
<1>5. /\ f \in [0 .. N -> V] /\ f[0] = start
      /\ \A n \in 1 .. N : f[n - 1] \in V /\ f[n] = Wider(f[n - 1], cells)
  <2>1. f \in [0 .. N -> V] /\ f[0] = start /\ \A n \in 1 .. N : f[n] = G[<<n, f[n - 1]>>]
    BY <1>4 DEF Recurs
  <2>2. ASSUME NEW n \in 1 .. N PROVE f[n - 1] \in V /\ f[n] = Wider(f[n - 1], cells)
    <3>1. n \in Nat /\ n - 1 \in 0 .. N
      BY <1>1
    <3>2. f[n - 1] \in V
      BY <2>1, <3>1
    <3> QED BY <1>3, <2>1, <3>1, <3>2
  <2> QED BY <2>1, <2>2
<1>6. Eq(f)
  <2>1. \A n \in 0 .. N : f[n] = IF n = 0 THEN {from} ELSE Wider(f[n - 1], cells)
    BY <1>1, <1>5 DEF start
  <2>2. f = [n \in 0 .. N |-> f[n]]
    BY <1>5
  <2>3. f = [n \in 0 .. N |-> IF n = 0 THEN {from} ELSE Wider(f[n - 1], cells)]
    BY <2>1, <2>2
  <2> QED BY <2>3 DEF Wider
<1> DEFINE g == CHOOSE h : Eq(h)
<1>7. Eq(g)
  <2> HIDE DEF Eq
  <2> QED BY <1>6
<1>8. Reachable(from, cells) = g[N]
  BY DEF Reachable, N
<1> HIDE DEF g
<1>9. \A n \in 0 .. N : g[n] = IF n = 0 THEN {from} ELSE Wider(g[n - 1], cells)
  BY <1>7 DEF Wider
<1> HIDE DEF Eq
<1> DEFINE Grown(n) == /\ from \in g[n] /\ g[n] \in V
                       /\ Closed(g[n], cells) \/ Cardinality(g[n]) > n
           P == {n \in Nat : n <= N => Grown(n)}
<1>10. 0 \in P
  <2>1. g[0] = {from} /\ 0 \in 0 .. N
    BY <1>1, <1>9
  <2>2. Cardinality({from}) = 1
    BY FS_Singleton
  <2> QED BY <1>1, <2>1, <2>2 DEF start
<1>11. ASSUME NEW n \in Nat, n \in P PROVE n + 1 \in P
  <2> SUFFICES ASSUME n + 1 <= N PROVE Grown(n + 1)
    OBVIOUS
  <2>1. n + 1 \in 0 .. N /\ n + 1 # 0 /\ (n + 1) - 1 = n /\ n <= N
    BY <1>1
  <2>2. from \in g[n] /\ g[n] \in V /\ (Closed(g[n], cells) \/ Cardinality(g[n]) > n)
    BY <1>11, <2>1
  <2>3. g[n + 1] = Wider(g[n], cells)
    BY <1>9, <2>1
  <2>4. g[n] \subseteq g[n + 1] /\ g[n + 1] \in V
    BY <2>2, <2>3, WiderValue DEF V
  <2>5. CASE Closed(g[n], cells)
    <3>1. g[n + 1] = g[n]
      BY <2>2, <2>3, <2>5, WiderValue DEF V
    <3> QED BY <2>2, <2>5, <3>1
  <2>6. CASE ~Closed(g[n], cells)
    <3>1. g[n + 1] # g[n]
      BY <2>2, <2>3, <2>6, WiderValue DEF V
    <3>2. IsFiniteSet(g[n + 1])
      BY <2>4, FS_Subset DEF V
    <3>3. IsFiniteSet(g[n])
      BY <2>4, <3>2, FS_Subset
    <3>4. Cardinality(g[n]) < Cardinality(g[n + 1])
      <4>1. Cardinality(g[n]) <= Cardinality(g[n + 1])
            /\ (Cardinality(g[n]) = Cardinality(g[n + 1]) => g[n] = g[n + 1])
        BY <2>4, <3>2, FS_Subset
      <4>2. Cardinality(g[n]) \in Nat /\ Cardinality(g[n + 1]) \in Nat
        BY <3>2, <3>3, FS_CardinalityType
      <4> QED BY <3>1, <4>1, <4>2
    <3>5. Cardinality(g[n]) \in Nat /\ Cardinality(g[n + 1]) \in Nat
      BY <3>2, <3>3, FS_CardinalityType
    <3>6. Cardinality(g[n + 1]) > n + 1
      BY <2>2, <2>6, <3>4, <3>5
    <3> QED BY <2>2, <2>4, <3>6
  <2> QED BY <2>5, <2>6
<1>12. Nat \subseteq P
  <2> HIDE DEF P
  <2> QED BY <1>10, <1>11, Induct
<1>13. Grown(N)
  <2>1. N \in P
    BY <1>1, <1>12
  <2>2. N <= N
    BY <1>1
  <2> HIDE DEF Grown
  <2> QED BY <2>1, <2>2
<1>14. Closed(g[N], cells)
  <2>1. g[N] \subseteq cells
    BY <1>13 DEF V
  <2>2. Cardinality(g[N]) <= N
    BY <2>1, FS_Subset DEF N
  <2>3. Cardinality(g[N]) \in Nat
    BY <2>1, FS_Subset, FS_CardinalityType
  <2> QED BY <1>1, <1>13, <2>2, <2>3
<1> QED BY <1>8, <1>13, <1>14 DEF V

LEMMA BoardFinite == IsFiniteSet(Board) /\ IsFiniteSet(Free)
<1>1. IsFiniteSet(0 .. Width - 1) /\ IsFiniteSet(0 .. Height - 1)
  BY BoardSize, FS_Interval
<1>2. IsFiniteSet(Board)
  BY <1>1, FS_Product DEF Board
<1> QED BY <1>2, FS_Subset DEF Free

-----------------------------------------------------------------------------
(* The free cells are connected.  An obstacle counts as reached when every *)
(* cell beside it is; then whatever lies beside a reached cell is reached, *)
(* for round a single obstacle there is always a way.                      *)
Reached(r) ==
    {c \in Board : c \in r \/ (c \in obstacles /\ Around(c) \cap Board \subseteq r)}

LEMMA Beside ==
    ASSUME NEW x \in Int, NEW y \in Int, NEW c, c = <<x, y>>
    PROVE  Around(c) = {<<x, y - 1>>, <<x, y + 1>>, <<x - 1, y>>, <<x + 1, y>>}
BY DEF Around, Delta, Dirs

(* Round a corner of an obstacle, over the cell at the corner.             *)
LEMMA RoundCorner ==
    ASSUME BoardInv, NEW r \in SUBSET Free, Closed(r, Free),
           NEW o \in obstacles, NEW s \in {-1, 1}, NEW t \in {-1, 1},
           <<o[1] + s, o[2]>> \in Board, <<o[1], o[2] + t>> \in Board
    PROVE  <<o[1] + s, o[2]>> \in r <=> <<o[1], o[2] + t>> \in r
<1> DEFINE x == o[1]
           y == o[2]
           h == <<x + s, y>>
           v == <<x, y + t>>
           k == <<x + s, y + t>>
<1>1. o = <<x, y>> /\ x \in 0 .. Width - 1 /\ y \in 0 .. Height - 1 /\ x \in Int /\ y \in Int
      /\ Width \in Nat /\ Height \in Nat
  BY BoardCells, BoardSize DEF BoardInv
<1>2. x + s \in 0 .. Width - 1 /\ y + t \in 0 .. Height - 1 /\ x + s \in Int /\ y + t \in Int
  BY <1>1 DEF Board
<1>3. k \in Free
  <2>1. (x + s) - x \in -1 .. 1 /\ (y + t) - y \in -1 .. 1 /\ x + s # x
    BY <1>1
  <2>2. k # o
    BY <1>1, <2>1
  <2> HIDE DEF x, y
  <2>3. (x + s) - o[1] \in -1 .. 1 /\ (y + t) - o[2] \in -1 .. 1
    BY <2>1 DEF x, y
  <2> QED BY <1>2, <2>2, <2>3, NextToObstacle
<1>4. h \in Free /\ v \in Free
  <2>1. /\ (x + s) - x \in -1 .. 1 /\ y - y \in -1 .. 1 /\ x - x \in -1 .. 1 /\ (y + t) - y \in -1 .. 1
        /\ x + s # x /\ y + t # y
    BY <1>1
  <2>2. h # o /\ v # o
    BY <1>1, <2>1
  <2> HIDE DEF x, y
  <2>3. (x + s) - o[1] \in -1 .. 1 /\ y - o[2] \in -1 .. 1 /\ x - o[1] \in -1 .. 1
        /\ (y + t) - o[2] \in -1 .. 1
    BY <2>1 DEF x, y
  <2> QED BY <1>1, <1>2, <2>2, <2>3, NextToObstacle
<1>5. k \in Around(h) /\ k \in Around(v)
  <2> HIDE DEF x, y
  <2>1. Around(h) = {<<x + s, y - 1>>, <<x + s, y + 1>>, <<x + s - 1, y>>, <<x + s + 1, y>>}
    BY <1>1, <1>2, Beside
  <2>2. Around(v) = {<<x, y + t - 1>>, <<x, y + t + 1>>, <<x - 1, y + t>>, <<x + 1, y + t>>}
    BY <1>1, <1>2, Beside
  <2>3. (s = -1 \/ s = 1) /\ (t = -1 \/ t = 1)
    OBVIOUS
  <2>4. y + (-1) = y - 1 /\ x + (-1) = x - 1
    BY <1>1
  <2> QED BY <2>1, <2>2, <2>3, <2>4
<1>6. h \in Around(k) /\ v \in Around(k)
  <2> HIDE DEF x, y
  <2>1. Around(k) = {<<x + s, y + t - 1>>, <<x + s, y + t + 1>>, <<x + s - 1, y + t>>, <<x + s + 1, y + t>>}
    BY <1>1, <1>2, Beside
  <2>2. (s = -1 /\ x + s + 1 = x) \/ (s = 1 /\ x + s - 1 = x)
    BY <1>1
  <2>3. (t = -1 /\ y + t + 1 = y) \/ (t = 1 /\ y + t - 1 = y)
    BY <1>1
  <2> QED BY <2>1, <2>2, <2>3
<1> HIDE DEF h, v, k
<1>7. h \in r <=> v \in r
  BY <1>3, <1>4, <1>5, <1>6 DEF Closed
<1> QED BY <1>7 DEF h, v

(* From one cell beside an obstacle to every other.                        *)
LEMMA RoundObstacle ==
    ASSUME BoardInv, NEW r \in SUBSET Free, Closed(r, Free),
           NEW o \in obstacles, NEW a \in Around(o) \cap r
    PROVE  Around(o) \cap Board \subseteq r
<1> DEFINE x == o[1]
           y == o[2]
           R == <<x + 1, y>>
           L == <<x + (-1), y>>
           U == <<x, y + (-1)>>
           D == <<x, y + 1>>
<1>1. o = <<x, y>> /\ x \in 0 .. Width - 1 /\ y \in 0 .. Height - 1 /\ x \in Int /\ y \in Int
      /\ Width \in Nat /\ Width > 3 /\ Height \in Nat /\ Height > 2
  BY BoardCells, BoardSize DEF BoardInv
<1>2. Around(o) = {U, D, L, R}
  <2>1. x - 1 = x + (-1) /\ y - 1 = y + (-1)
    BY <1>1
  <2> HIDE DEF x, y
  <2> QED BY <1>1, <2>1, Beside
<1>3. (R \in Board \/ L \in Board) /\ (U \in Board \/ D \in Board)
  BY <1>1 DEF Board
<1>4. R \in Board /\ U \in Board => (R \in r <=> U \in r)
  BY RoundCorner
<1>5. R \in Board /\ D \in Board => (R \in r <=> D \in r)
  BY RoundCorner
<1>6. L \in Board /\ U \in Board => (L \in r <=> U \in r)
  BY RoundCorner
<1>7. L \in Board /\ D \in Board => (L \in r <=> D \in r)
  BY RoundCorner
<1>8. r \subseteq Board
  BY DEF Free
<1> HIDE DEF R, L, U, D
<1> QED BY <1>2, <1>3, <1>4, <1>5, <1>6, <1>7, <1>8

LEMMA ReachedSpreads ==
    ASSUME BoardInv, NEW r \in SUBSET Free, Closed(r, Free),
           NEW a \in Reached(r), NEW b \in Board, b \in Around(a), a \in Around(b)
    PROVE  b \in Reached(r)
<1>1. CASE a \in r /\ b \in Free
  BY <1>1 DEF Closed, Reached
<1>2. CASE a \in r /\ b \in obstacles
  <2>1. Around(b) \cap Board \subseteq r
    BY <1>2, RoundObstacle
  <2> QED BY <1>2, <2>1 DEF Reached
<1>3. CASE a \notin r
  <2>1. Around(a) \cap Board \subseteq r
    BY <1>3 DEF Reached
  <2> QED BY <2>1 DEF Reached
<1> QED BY <1>1, <1>2, <1>3 DEF Free

(* A set of numbers that goes on both ways.                                *)
LEMMA WholeInterval ==
    ASSUME NEW N \in Nat, NEW T, NEW k \in 0 .. N, k \in T,
           \A j \in 0 .. N - 1 : j \in T <=> j + 1 \in T
    PROVE  0 .. N \subseteq T
<1> DEFINE P == {n \in Nat : (k + n <= N => k + n \in T) /\ (k - n >= 0 => k - n \in T)}
<1>1. 0 \in P
  OBVIOUS
<1>2. ASSUME NEW n \in Nat, n \in P PROVE n + 1 \in P
  <2>1. ASSUME k + (n + 1) <= N PROVE k + (n + 1) \in T
    <3>1. k + n \in 0 .. N - 1 /\ k + n \in T /\ (k + n) + 1 = k + (n + 1)
      BY <1>2, <2>1
    <3> QED BY <3>1
  <2>2. ASSUME k - (n + 1) >= 0 PROVE k - (n + 1) \in T
    <3>1. k - (n + 1) \in 0 .. N - 1 /\ k - n \in T /\ (k - (n + 1)) + 1 = k - n
      BY <1>2, <2>2
    <3> QED BY <3>1
  <2> QED BY <2>1, <2>2
<1>3. Nat \subseteq P
  <2> HIDE DEF P
  <2> QED BY <1>1, <1>2, Induct
<1> SUFFICES ASSUME NEW j \in 0 .. N PROVE j \in T
  OBVIOUS
<1>4. CASE j >= k
  <2>1. j - k \in Nat /\ k + (j - k) = j
    BY <1>4
  <2> QED BY <1>3, <2>1
<1>5. CASE j < k
  <2>1. k - j \in Nat /\ k - (k - j) = j
    BY <1>5
  <2> QED BY <1>3, <2>1
<1> QED BY <1>4, <1>5

LEMMA AllReached ==
    ASSUME BoardInv, NEW r \in SUBSET Free, Closed(r, Free), r # {}
    PROVE  r = Free
<1>1. Width \in Nat /\ Height \in Nat /\ Width - 1 \in Nat /\ Height - 1 \in Nat
  BY BoardSize
<1>2. PICK c \in r : TRUE
  OBVIOUS
<1>3. c \in Reached(r) /\ c = <<c[1], c[2]>> /\ c[1] \in 0 .. Width - 1 /\ c[2] \in 0 .. Height - 1
  BY BoardCells DEF Reached, Free
<1>4. ASSUME NEW x \in Int, NEW y \in Int, NEW u \in Int, NEW v \in Int,
             \/ u = x + 1 /\ v = y
             \/ u = x /\ v = y + 1,
             <<x, y>> \in Board, <<u, v>> \in Board
      PROVE  <<x, y>> \in Reached(r) <=> <<u, v>> \in Reached(r)
  <2> DEFINE a == <<x, y>>
             b == <<u, v>>
  <2>1. b \in Around(a) /\ a \in Around(b)
    <3>1. Around(a) = {<<x, y - 1>>, <<x, y + 1>>, <<x - 1, y>>, <<x + 1, y>>}
      BY Beside
    <3>2. Around(b) = {<<u, v - 1>>, <<u, v + 1>>, <<u - 1, v>>, <<u + 1, v>>}
      BY Beside
    <3>3. (u = x + 1 /\ v = y /\ u - 1 = x) \/ (u = x /\ v = y + 1 /\ v - 1 = y)
      BY <1>4
    <3> QED BY <3>1, <3>2, <3>3
  <2>2. a \in Board /\ b \in Board
    BY <1>4
  <2> HIDE DEF a, b
  <2>3. a \in Reached(r) <=> b \in Reached(r)
    BY <2>1, <2>2, ReachedSpreads
  <2> QED BY <2>3 DEF a, b
<1> DEFINE Row == {x \in 0 .. Width - 1 : <<x, c[2]>> \in Reached(r)}
<1>5. 0 .. Width - 1 \subseteq Row
  <2>1. c[1] \in Row
    BY <1>3
  <2>2. ASSUME NEW j \in 0 .. (Width - 1) - 1 PROVE j \in Row <=> j + 1 \in Row
    <3>1. j \in 0 .. Width - 1 /\ j + 1 \in 0 .. Width - 1 /\ j \in Int /\ j + 1 \in Int /\ c[2] \in Int
      BY <1>1, <1>3
    <3>2. <<j, c[2]>> \in Board /\ <<j + 1, c[2]>> \in Board
      BY <1>3, <3>1, BoardCells
    <3> QED BY <1>4, <3>1, <3>2
  <2> HIDE DEF Row
  <2> QED BY <1>1, <1>3, <2>1, <2>2, WholeInterval
<1>6. ASSUME NEW x \in 0 .. Width - 1, NEW y \in 0 .. Height - 1
      PROVE  <<x, y>> \in Reached(r)
  <2> DEFINE Column == {z \in 0 .. Height - 1 : <<x, z>> \in Reached(r)}
  <2>1. c[2] \in Column
    BY <1>3, <1>5
  <2>2. ASSUME NEW j \in 0 .. (Height - 1) - 1 PROVE j \in Column <=> j + 1 \in Column
    <3>1. j \in 0 .. Height - 1 /\ j + 1 \in 0 .. Height - 1 /\ j \in Int /\ j + 1 \in Int /\ x \in Int
      BY <1>1
    <3>2. <<x, j>> \in Board /\ <<x, j + 1>> \in Board
      BY <3>1, BoardCells
    <3> QED BY <1>4, <3>1, <3>2
  <2>3. 0 .. Height - 1 \subseteq Column
    <3> HIDE DEF Column
    <3> QED BY <1>1, <1>3, <2>1, <2>2, WholeInterval
  <2> QED BY <2>3
<1>7. ASSUME NEW a \in Free PROVE a \in r
  <2>1. a \in Board /\ a = <<a[1], a[2]>> /\ a[1] \in 0 .. Width - 1 /\ a[2] \in 0 .. Height - 1
    BY BoardCells DEF Free
  <2>2. a \in Reached(r)
    BY <1>6, <2>1
  <2> QED BY <2>2 DEF Reached, Free
<1> QED BY <1>7

(* Wherever the obstacles fall, on any board of at least four rows: there  *)
(* is room for a snake, no fruit takes the last place for a fruit or lies  *)
(* in a dead end, and the free cells are connected (game_init,             *)
(* game_add_player, game_add_fruit).                                       *)
THEOREM AlwaysPlayable == ASSUME Height > 3 PROVE Spec => []WorldPlayable
<1>1. BoardInv => WorldPlayable
  <2> SUFFICES ASSUME BoardInv
               PROVE  /\ SpawnBodies # {}
                      /\ \A c \in FruitCells(<<>>) :
                            /\ FruitCells(<<[body |-> <<c>>]>>) # {}
                            /\ Cardinality(Around(c) \ obstacles) > 1
                      /\ \E c \in Free : Reachable(c, Free) = Free
    BY DEF WorldPlayable, Free
  <2>1. SpawnBodies # {}
    BY RoomForSnake
  <2>2. ASSUME NEW c \in FruitCells(<<>>)
        PROVE  FruitCells(<<[body |-> <<c>>]>>) # {} /\ Cardinality(Around(c) \ obstacles) > 1
    <3>1. c \in (1 .. Width - 2) \X (1 .. Height - 2)
      BY DEF FruitCells
    <3> QED BY <3>1, RoomForFruit, TwoWays
  <2>3. \E c \in Free : Reachable(c, Free) = Free
    <3>1. PICK b \in SpawnBodies : TRUE
      BY <2>1
    <3>2. b[1] \in Free
      BY RoomForSnake, BoardSize DEF SpawnBodies, ToSet, Free, Board
    <3>3. /\ b[1] \in Reachable(b[1], Free) /\ Reachable(b[1], Free) \subseteq Free
          /\ Closed(Reachable(b[1], Free), Free)
      BY <3>2, BoardFinite, ReachableValue
    <3>4. Reachable(b[1], Free) = Free
      BY <3>3, AllReached
    <3> QED BY <3>2, <3>4
  <2> QED BY <2>1, <2>2, <2>3
<1> QED BY <1>1, BoardInvariant, PTL
=============================================================================

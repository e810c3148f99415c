------------------------------ MODULE GameProofs ------------------------------
(***************************************************************************)
(* Game, for every board, every set of players and every choice of         *)
(* obstacles: types, that a snake grows with its score, stays in one piece *)
(* and never reverses, that there is a fruit for every join, and that with *)
(* walls no tick puts one snake on another.                                *)
(***************************************************************************)
EXTENDS SnakeProofs

AreSnakes(ps) == ps \in Seq(Player) /\ \A k \in 1 .. Len(ps) : Snake(ps[k])

(* A player is known by its id, and one that has yet to join is not there. *)
Distinct(ps, w) ==
    /\ \A a, b \in 1 .. Len(ps) : ps[a].id = ps[b].id => a = b
    /\ \A a \in 1 .. Len(ps) : ps[a].id \notin w

(* Fruits are where no obstacle is.                                        *)
AreFruits(fs) == fs \in Seq(Fruit) /\ \A k \in 1 .. Len(fs) : fs[k].pos \notin obstacles

Actives(fs) == {k \in 1 .. Len(fs) : fs[k].active}

FruitsInv ==
    /\ AreFruits(fruits)
    /\ Cardinality(Actives(fruits)) = Cardinality(Ids) - Cardinality(waiting)
    /\ phase = "events" => \A k \in 1 .. Len(fruits) : fruits[k].active

(* A tick begins below MaxScore, and nobody is updated twice in it.        *)
PhaseInv ==
    /\ phase = "world" => players = <<>> /\ fruits = <<>>
    /\ phase = "tick" => \A k \in i .. Len(players) : players[k].score < MaxScore

RestInv ==
    /\ obstacles \subseteq Board /\ toPlace \in 0 .. MaxObstacles
    /\ phase \in {"world", "events", "tick"} /\ i \in Nat \ {0}
    /\ waiting \subseteq Ids /\ moved \subseteq Ids

PlayersInv == AreSnakes(players) /\ Distinct(players, waiting)

GameInv == PlayersInv /\ FruitsInv /\ PhaseInv /\ RestInv

-----------------------------------------------------------------------------
(* The array of players.                                                   *)

(* Putting one in the place of another.                                    *)
Swapped(r, ps, k, q) ==
    Len(r) = Len(ps) /\ \A j \in 1 .. Len(ps) : r[j] = IF j = k THEN q ELSE ps[j]

LEMMA Replaced ==
    ASSUME NEW ps, AreSnakes(ps), NEW w, Distinct(ps, w), NEW k \in 1 .. Len(ps),
           NEW q \in Player, Snake(q), q.id = ps[k].id
    PROVE  LET r == [ps EXCEPT ![k] = q]
           IN  AreSnakes(r) /\ Distinct(r, w) /\ Swapped(r, ps, k, q)
<1> DEFINE r == [ps EXCEPT ![k] = q]
<1>1. ps \in Seq(Player) /\ Len(ps) \in Nat
  BY DEF AreSnakes
<1>2. /\ r \in Seq(Player) /\ Len(r) = Len(ps)
      /\ \A j \in 1 .. Len(ps) : r[j] = IF j = k THEN q ELSE ps[j]
  BY <1>1, ExceptSeq
<1> HIDE DEF r
<1>3. \A j \in 1 .. Len(ps) : Snake(r[j]) /\ r[j].id = ps[j].id
  BY <1>2 DEF AreSnakes
<1>4. AreSnakes(r) /\ Distinct(r, w)
  BY <1>2, <1>3 DEF AreSnakes, Distinct
<1> QED BY <1>2, <1>4 DEF r, Swapped

(* Taking a player out.                                                    *)
Without(r, ps, m) ==
    /\ Len(r) = Len(ps) - 1
    /\ \A k \in 1 .. Len(ps) - 1 : r[k] = IF k < m THEN ps[k] ELSE ps[k + 1]

LEMMA Removed ==
    ASSUME NEW ps, AreSnakes(ps), NEW w, Distinct(ps, w), NEW m \in 1 .. Len(ps),
           NEW U, NEW r \in Seq(U), Without(r, ps, m)
    PROVE  AreSnakes(r) /\ Distinct(r, w)
<1> DEFINE n == Len(ps)
           at(k) == IF k < m THEN k ELSE k + 1
<1>1. ps \in Seq(Player) /\ n \in Nat /\ \A k \in 1 .. n : ps[k] \in Player /\ Snake(ps[k])
  BY DEF AreSnakes
<1>2. Len(r) = n - 1 /\ \A k \in 1 .. n - 1 : at(k) \in 1 .. n /\ r[k] = ps[at(k)]
  BY <1>1 DEF Without
<1>3. \A k, j \in 1 .. n - 1 : at(k) = at(j) => k = j
  BY <1>1
<1> HIDE DEF n, at
<1>4. \A k \in 1 .. n - 1 : r[k] \in Player /\ Snake(r[k])
  BY <1>1, <1>2
<1>5. r \in Seq(Player)
  <2>1. DOMAIN r = 1 .. n - 1 /\ r = [k \in DOMAIN r |-> r[k]]
    BY <1>2, LenProperties
  <2>2. r \in [1 .. n - 1 -> Player] /\ n - 1 \in Nat
    BY <1>1, <1>2, <1>4, <2>1
  <2> QED BY <2>2, SeqDef
<1>6. AreSnakes(r)
  BY <1>2, <1>4, <1>5 DEF AreSnakes
<1>7. Distinct(r, w)
  <2>1. \A a, b \in 1 .. n : ps[a].id = ps[b].id => a = b
    BY DEF Distinct, n
  <2>2. \A a \in 1 .. n : ps[a].id \notin w
    BY DEF Distinct, n
  <2>3. ASSUME NEW a \in 1 .. n - 1, NEW b \in 1 .. n - 1, r[a].id = r[b].id PROVE a = b
    <3>1. at(a) = at(b)
      BY <1>2, <2>1, <2>3
    <3> QED BY <1>3, <3>1
  <2>4. ASSUME NEW a \in 1 .. n - 1 PROVE r[a].id \notin w
    BY <1>2, <2>2
  <2> QED BY <1>2, <2>3, <2>4 DEF Distinct
<1> QED BY <1>6, <1>7

LEMMA Added ==
    ASSUME NEW ps, AreSnakes(ps), NEW w, Distinct(ps, w),
           NEW p \in Player, Snake(p), p.id \in w
    PROVE  AreSnakes(Append(ps, p)) /\ Distinct(Append(ps, p), w \ {p.id})
<1> DEFINE r == Append(ps, p)
           n == Len(ps)
<1>1. ps \in Seq(Player) /\ n \in Nat
  BY DEF AreSnakes
<1>2. r \in Seq(Player) /\ Len(r) = n + 1 /\ r[n + 1] = p /\ \A k \in 1 .. n : r[k] = ps[k]
  BY <1>1, AppendProperties
<1> HIDE DEF r
<1>3. \A k \in 1 .. n + 1 : k = n + 1 \/ k \in 1 .. n
  BY <1>1
<1>4. \A k \in 1 .. n : Snake(ps[k]) /\ ps[k].id \notin w
  BY DEF AreSnakes, Distinct
<1>5. AreSnakes(r)
  BY <1>2, <1>3, <1>4 DEF AreSnakes
<1>6. \A a, b \in 1 .. n : ps[a].id = ps[b].id => a = b
  BY DEF Distinct
<1>7. Distinct(r, w \ {p.id})
  <2> HIDE DEF n
  <2>1. ASSUME NEW a \in 1 .. n + 1, NEW b \in 1 .. n + 1, r[a].id = r[b].id PROVE a = b
    <3>1. CASE a = n + 1
      <4>1. b \notin 1 .. n
        BY <1>2, <1>4, <2>1, <3>1
      <4> QED BY <1>3, <3>1, <4>1
    <3>2. CASE a \in 1 .. n
      <4>1. b # n + 1
        BY <1>2, <1>4, <2>1, <3>2
      <4>2. b \in 1 .. n
        BY <1>3, <4>1
      <4> QED BY <1>2, <1>6, <2>1, <3>2, <4>2
    <3> QED BY <1>3, <3>1, <3>2
  <2>2. ASSUME NEW a \in 1 .. n + 1 PROVE r[a].id \notin w \ {p.id}
    BY <1>2, <1>3, <1>4
  <2> QED BY <1>2, <2>1, <2>2 DEF Distinct
<1> QED BY <1>5, <1>7 DEF r

-----------------------------------------------------------------------------
(* The array of fruits.                                                    *)

LEMMA ActivesFinite ==
    ASSUME NEW fs \in Seq(Fruit)
    PROVE  Actives(fs) \subseteq 1 .. Len(fs) /\ IsFiniteSet(Actives(fs)) /\ Cardinality(Actives(fs)) \in Nat
<1>1. IsFiniteSet(1 .. Len(fs)) /\ Actives(fs) \subseteq 1 .. Len(fs)
  BY FS_Interval DEF Actives
<1> QED BY <1>1, FS_Subset, FS_CardinalityType

(* A place for a fruit.                                                    *)
LEMMA NewFruit ==
    ASSUME NEW ps, NEW pos \in FruitCells(ps), NEW fs, AreFruits(fs)
    PROVE  /\ AreFruits(Append(fs, FruitAt(pos)))
           /\ Cardinality(Actives(Append(fs, FruitAt(pos)))) = Cardinality(Actives(fs)) + 1
           /\ (\A k \in 1 .. Len(fs) : fs[k].active)
                => \A k \in 1 .. Len(Append(fs, FruitAt(pos))) : Append(fs, FruitAt(pos))[k].active
<1> DEFINE f == FruitAt(pos)
           g == Append(fs, f)
           n == Len(fs)
<1>1. pos \in Board /\ pos \notin obstacles
  BY Sizes DEF FruitCells, Board
<1>2. f \in Fruit /\ f.active /\ f.pos = pos
  BY <1>1 DEF FruitAt, Fruit
<1>3. fs \in Seq(Fruit) /\ n \in Nat /\ \A k \in 1 .. n : fs[k].pos \notin obstacles
  BY DEF AreFruits
<1> HIDE DEF f
<1>4. g \in Seq(Fruit) /\ Len(g) = n + 1 /\ g[n + 1] = f /\ \A k \in 1 .. n : g[k] = fs[k]
  BY <1>2, <1>3, AppendProperties
<1> HIDE DEF g
<1>5. \A k \in 1 .. n + 1 : k = n + 1 \/ k \in 1 .. n
  BY <1>3
<1>6. AreFruits(g)
  BY <1>1, <1>2, <1>3, <1>4, <1>5 DEF AreFruits
<1>7. Actives(g) = Actives(fs) \cup {n + 1}
  BY <1>2, <1>3, <1>4 DEF Actives
<1>8. n + 1 \notin Actives(fs)
  BY <1>3 DEF Actives
<1>9. Cardinality(Actives(g)) = Cardinality(Actives(fs)) + 1
  BY <1>3, <1>7, <1>8, ActivesFinite, FS_AddElement
<1>10. (\A k \in 1 .. n : fs[k].active) => \A k \in 1 .. Len(g) : g[k].active
  BY <1>2, <1>4, <1>5
<1> QED BY <1>6, <1>9, <1>10 DEF g, f

(* Eating one.                                                             *)
LEMMA EatenFruit ==
    ASSUME NEW fs, AreFruits(fs), NEW k \in 1 .. Len(fs), fs[k].active
    PROVE  /\ AreFruits([fs EXCEPT ![k].active = FALSE])
           /\ Cardinality(Actives([fs EXCEPT ![k].active = FALSE])) = Cardinality(Actives(fs)) - 1
<1> DEFINE e == [fs[k] EXCEPT !.active = FALSE]
           g == [fs EXCEPT ![k] = e]
<1>1. fs \in Seq(Fruit) /\ fs[k] \in Fruit
  BY DEF AreFruits
<1>2. e \in Fruit /\ e.pos = fs[k].pos /\ ~e.active
  BY <1>1 DEF Fruit
<1>3. g = [fs EXCEPT ![k].active = FALSE]
  OBVIOUS
<1> HIDE DEF e
<1>4. g \in Seq(Fruit) /\ Len(g) = Len(fs) /\ \A j \in 1 .. Len(fs) : g[j] = IF j = k THEN e ELSE fs[j]
  BY <1>1, <1>2, ExceptSeq
<1> HIDE DEF g
<1>5. AreFruits(g)
  BY <1>2, <1>4 DEF AreFruits
<1>6. Actives(g) = Actives(fs) \ {k} /\ k \in Actives(fs)
  BY <1>2, <1>4 DEF Actives
<1>7. Cardinality(Actives(g)) = Cardinality(Actives(fs)) - 1
  BY <1>1, <1>6, ActivesFinite, FS_RemoveElement
<1> QED BY <1>3, <1>5, <1>7

(* Taking the eaten ones out at the end of a tick.                         *)
LEMMA KeptFruits ==
    ASSUME NEW fs, AreFruits(fs)
    PROVE  LET g == Keep(fs, {f \in ToSet(fs) : f.active})
           IN  /\ AreFruits(g) /\ Cardinality(Actives(g)) = Cardinality(Actives(fs))
               /\ \A k \in 1 .. Len(g) : g[k].active
<1> DEFINE S == {f \in ToSet(fs) : f.active}
           g == Keep(fs, S)
<1>1. fs \in Seq(Fruit) /\ Len(fs) \in Nat /\ DOMAIN fs = 1 .. Len(fs)
  BY DEF AreFruits
<1>2. g \in Seq(Fruit \cap S) /\ Len(g) = Cardinality(Chosen(fs, S))
  BY <1>1, KeepType, KeepLen
<1>3. Chosen(fs, S) = Actives(fs)
  BY <1>1 DEF Chosen, Actives, ToSet
<1>4. \A f \in S : f.active /\ f.pos \notin obstacles
  BY <1>1 DEF AreFruits, ToSet
<1> HIDE DEF S, g
<1>5. g \in Seq(Fruit) /\ Len(g) \in Nat /\ \A k \in 1 .. Len(g) : g[k] \in Fruit \cap S
  BY <1>2
<1>6. AreFruits(g) /\ \A k \in 1 .. Len(g) : g[k].active
  BY <1>4, <1>5 DEF AreFruits
<1>7. Actives(g) = 1 .. Len(g)
  BY <1>6 DEF Actives
<1>8. Cardinality(1 .. Len(g)) = Len(g)
  BY <1>5, FS_Interval
<1> QED BY <1>2, <1>3, <1>6, <1>7, <1>8 DEF S, g

-----------------------------------------------------------------------------
(* The handlers keep GameInv.                                              *)

LEMMA InitGame == Init => GameInv
<1> SUFFICES ASSUME Init PROVE GameInv
  OBVIOUS
<1>1. <<>> \in Seq(Player) /\ <<>> \in Seq(Fruit) /\ Len(<<>>) = 0
  OBVIOUS
<1>2. PlayersInv
  BY <1>1 DEF Init, PlayersInv, AreSnakes, Distinct
<1>3. Actives(<<>>) = {}
  BY DEF Actives
<1>4. FruitsInv
  <2>1. Cardinality(Ids) \in Nat
    BY GameAssumption, FS_CardinalityType
  <2>2. Cardinality(Actives(fruits)) = Cardinality(Ids) - Cardinality(waiting)
    <3>1. Cardinality(Actives(<<>>)) = 0
      BY <1>3, FS_EmptySet
    <3>2. Cardinality(Ids) - Cardinality(Ids) = 0
      BY <2>1
    <3> QED BY <3>1, <3>2 DEF Init
  <2>3. AreFruits(fruits)
    BY <1>1 DEF Init, AreFruits
  <2> QED BY <2>2, <2>3 DEF Init, FruitsInv
<1>5. RestInv
  BY GameAssumption DEF Init, RestInv
<1> QED BY <1>2, <1>4, <1>5 DEF Init, GameInv, PhaseInv

(* Steps that leave the fruits, the obstacles and the waiting alone.       *)
LEMMA SameFruits ==
    ASSUME FruitsInv, fruits' = fruits, obstacles' = obstacles, waiting' = waiting,
           phase' = "events" => phase = "events"
    PROVE  FruitsInv'
BY DEF FruitsInv, AreFruits, Actives

LEMMA PlaceKeeps ==
    ASSUME GameInv, PlaceObstacle \/ StopPlacing \/ StartGame
    PROVE  GameInv'
<1>1. phase = "world" /\ players = <<>> /\ fruits = <<>>
  BY DEF GameInv, PhaseInv, PlaceObstacle, StopPlacing, StartGame
<1>2. /\ players' = players /\ fruits' = fruits /\ waiting' = waiting /\ moved' = moved /\ i' = i
      /\ phase' \in {"world", "events"}
  BY <1>1 DEF PlaceObstacle, StopPlacing, StartGame, world
<1>3. obstacles' \subseteq Board /\ toPlace' \in 0 .. MaxObstacles
  <2>1. Sites \subseteq Board
    BY GameAssumption DEF Board
  <2>2. CASE PlaceObstacle
    <3>1. toPlace \in 0 .. MaxObstacles /\ toPlace > 0 /\ MaxObstacles \in Nat
      BY <2>2, GameAssumption DEF GameInv, RestInv, PlaceObstacle
    <3>2. toPlace' = toPlace - 1 /\ toPlace - 1 \in 0 .. MaxObstacles
      BY <2>2, <3>1 DEF PlaceObstacle
    <3> QED BY <2>1, <2>2, <3>2 DEF PlaceObstacle, GameInv, RestInv
  <2>3. CASE StopPlacing
    BY <2>3, GameAssumption DEF StopPlacing, GameInv, RestInv
  <2>4. CASE StartGame
    BY <2>4 DEF StartGame, world, GameInv, RestInv
  <2> QED BY <2>2, <2>3, <2>4
<1>4. FruitsInv'
  <2>1. Len(<<>>) = 0 /\ <<>> \in Seq(Fruit)
    OBVIOUS
  <2>2. AreFruits(fruits)'
    BY <1>1, <1>2, <2>1 DEF AreFruits
  <2>3. \A k \in 1 .. Len(fruits') : fruits'[k].active
    BY <1>1, <1>2, <2>1
  <2> QED BY <1>2, <2>2, <2>3 DEF GameInv, FruitsInv, Actives
<1>5. PlayersInv' /\ PhaseInv'
  BY <1>1, <1>2 DEF GameInv, PlayersInv, PhaseInv
<1>6. RestInv'
  BY <1>2, <1>3 DEF GameInv, RestInv
<1> QED BY <1>4, <1>5, <1>6 DEF GameInv

LEMMA JoinKeeps ==
    ASSUME NEW id \in Ids, GameInv, Join(id)
    PROVE  GameInv'
<1>1. phase = "events" /\ phase' = "events" /\ id \in waiting /\ waiting' = waiting \ {id}
  BY DEF Join
<1>2. i' = i /\ moved' = moved /\ obstacles' = obstacles /\ toPlace' = toPlace
  BY DEF Join, world
<1>3. PICK b \in SpawnBodies :
        players' = Append(players, [id |-> id, body |-> b, dir |-> "right", next |-> "right",
                                    paused |-> FALSE, score |-> 0])
  BY DEF Join
<1> DEFINE p == [id |-> id, body |-> b, dir |-> "right", next |-> "right",
                 paused |-> FALSE, score |-> 0]
<1>4. p \in Player /\ Snake(p) /\ p.id = id
  BY SpawnedSnake
<1>5. players' = Append(players, p)
  BY <1>3
<1> HIDE DEF p
<1>6. PlayersInv'
  BY <1>1, <1>4, <1>5, Added DEF GameInv, PlayersInv
<1>7. PICK pos \in FruitCells(players) : fruits' = Append(fruits, FruitAt(pos))
  BY DEF Join
<1>8. FruitsInv'
  <2>1. AreFruits(fruits) /\ \A k \in 1 .. Len(fruits) : fruits[k].active
    BY <1>1 DEF GameInv, FruitsInv
  <2>2. /\ AreFruits(fruits')
        /\ Cardinality(Actives(fruits')) = Cardinality(Actives(fruits)) + 1
        /\ \A k \in 1 .. Len(fruits') : fruits'[k].active
    BY <1>7, <2>1, NewFruit
  <2>3. IsFiniteSet(waiting) /\ Cardinality(waiting) \in Nat /\ Cardinality(Ids) \in Nat
    BY GameAssumption, FS_Subset, FS_CardinalityType DEF GameInv, RestInv
  <2>4. Cardinality(waiting') = Cardinality(waiting) - 1
    BY <1>1, <2>3, FS_RemoveElement
  <2>5. Cardinality(Actives(fruits')) = Cardinality(Ids) - Cardinality(waiting')
    BY <2>2, <2>3, <2>4 DEF GameInv, FruitsInv
  <2>6. AreFruits(fruits)'
    BY <1>2, <2>2 DEF AreFruits
  <2> QED BY <2>2, <2>5, <2>6 DEF FruitsInv, Actives
<1>9. PhaseInv' /\ RestInv'
  BY <1>1, <1>2 DEF GameInv, PhaseInv, RestInv
<1> QED BY <1>6, <1>8, <1>9 DEF GameInv

(* Where PlayerIndex finds a player.                                       *)
LEMMA Found ==
    ASSUME GameInv, NEW id, PlayerIndex(players, id) # 0
    PROVE  LET k == PlayerIndex(players, id)
           IN  k \in 1 .. Len(players) /\ players[k] \in Player /\ Snake(players[k])
<1>1. players \in Seq(Player)
  BY DEF GameInv, PlayersInv, AreSnakes
<1>2. PlayerIndex(players, id) \in 1 .. Len(players)
  BY <1>1, PlayerIndexValue
<1> QED BY <1>1, <1>2 DEF GameInv, PlayersInv, AreSnakes

LEMMA LeaveKeeps ==
    ASSUME NEW id \in Ids, GameInv, Leave(id)
    PROVE  GameInv'
<1> DEFINE k == PlayerIndex(players, id)
<1>1. phase = "events" /\ k # 0 /\ players' = RemovePlayer(players, id)
  BY DEF Leave
<1>2. /\ fruits' = fruits /\ waiting' = waiting /\ i' = i /\ moved' = moved /\ phase' = phase
      /\ obstacles' = obstacles /\ toPlace' = toPlace
  BY DEF Leave, world
<1>3. k \in 1 .. Len(players) /\ players \in Seq(Player)
  BY <1>1, Found DEF GameInv, PlayersInv, AreSnakes
<1>4. players' \in Seq(Player) /\ Without(players', players, k)
  BY <1>1, <1>3, RemovePlayerValue DEF Without
<1>5. PlayersInv'
  BY <1>2, <1>3, <1>4, Removed DEF GameInv, PlayersInv
<1>6. FruitsInv' /\ PhaseInv' /\ RestInv'
  BY <1>1, <1>2, SameFruits DEF GameInv, PhaseInv, RestInv
<1> QED BY <1>5, <1>6 DEF GameInv

(* Changing one player between two ticks.                                  *)
LEMMA ChangeKeeps ==
    ASSUME GameInv, phase = "events", NEW k \in 1 .. Len(players),
           NEW q \in Player, Snake(q), q.id = players[k].id,
           players' = [players EXCEPT ![k] = q],
           UNCHANGED <<world, fruits, phase, i, waiting, moved>>
    PROVE  GameInv'
<1>1. /\ fruits' = fruits /\ waiting' = waiting /\ i' = i /\ moved' = moved /\ phase' = phase
      /\ obstacles' = obstacles /\ toPlace' = toPlace
  BY DEF world
<1>2. PlayersInv'
  BY <1>1, Replaced DEF GameInv, PlayersInv
<1>3. FruitsInv' /\ PhaseInv' /\ RestInv'
  BY <1>1, SameFruits DEF GameInv, PhaseInv, RestInv
<1> QED BY <1>2, <1>3 DEF GameInv

LEMMA TurnKeeps ==
    ASSUME NEW id \in Ids, NEW d \in Dirs, GameInv, Turn(id, d)
    PROVE  GameInv'
<1> DEFINE k == PlayerIndex(players, id)
           p == players[k]
           q == [p EXCEPT !.next = d]
<1>1. /\ phase = "events" /\ k # 0 /\ d # Opposite[p.dir]
      /\ players' = [players EXCEPT ![k] = q]
      /\ UNCHANGED <<world, fruits, phase, i, waiting, moved>>
  BY DEF Turn
<1>2. k \in 1 .. Len(players) /\ p \in Player /\ Snake(p)
  BY <1>1, Found
<1>3. q \in Player /\ q.id = p.id /\ Snake(q)
  <2> HIDE DEF p
  <2>1. /\ q \in Player /\ q.id = p.id /\ q.body = p.body /\ q.dir = p.dir
        /\ q.next = d /\ q.score = p.score
    BY <1>2 DEF Player
  <2> HIDE DEF q
  <2> QED BY <1>1, <1>2, <2>1 DEF Snake
<1> HIDE DEF k, q
<1> QED BY <1>1, <1>2, <1>3, ChangeKeeps

LEMMA SetPausedKeeps ==
    ASSUME NEW id \in Ids, NEW b \in BOOLEAN, GameInv, SetPaused(id, b)
    PROVE  GameInv'
<1> DEFINE k == PlayerIndex(players, id)
           p == players[k]
           q == [p EXCEPT !.paused = b]
<1>1. /\ phase = "events" /\ k # 0
      /\ players' = [players EXCEPT ![k] = q]
      /\ UNCHANGED <<world, fruits, phase, i, waiting, moved>>
  BY DEF SetPaused
<1>2. k \in 1 .. Len(players) /\ p \in Player /\ Snake(p)
  BY <1>1, Found
<1>3. q \in Player /\ q.id = p.id /\ Snake(q)
  <2> HIDE DEF p
  <2>1. /\ q \in Player /\ q.id = p.id /\ q.body = p.body /\ q.dir = p.dir
        /\ q.next = p.next /\ q.score = p.score
    BY <1>2 DEF Player
  <2> HIDE DEF q
  <2> QED BY <1>2, <2>1 DEF Snake
<1> HIDE DEF k, q
<1> QED BY <1>1, <1>2, <1>3, ChangeKeeps

-----------------------------------------------------------------------------
(* game_update.                                                            *)

LEMMA StartTickKeeps ==
    ASSUME GameInv, StartTick
    PROVE  GameInv'
<1>1. /\ players' = players /\ fruits' = fruits /\ waiting' = waiting /\ i' = 1 /\ moved' = {}
      /\ phase' = "tick" /\ obstacles' = obstacles /\ toPlace' = toPlace
  BY DEF StartTick, world
<1>2. \A k \in 1 .. Len(players) : players[k].score < MaxScore
  <2>1. players \in Seq(Player) /\ DOMAIN players = 1 .. Len(players)
    BY DEF GameInv, PlayersInv, AreSnakes
  <2> QED BY <2>1 DEF StartTick
<1>3. PlayersInv' /\ FruitsInv'
  BY <1>1, SameFruits DEF GameInv, PlayersInv
<1>4. PhaseInv'
  BY <1>1, <1>2 DEF PhaseInv
<1>5. RestInv'
  BY <1>1 DEF GameInv, RestInv
<1> QED BY <1>3, <1>4, <1>5 DEF GameInv

LEMMA EndTickKeeps ==
    ASSUME GameInv, EndTick
    PROVE  GameInv'
<1>1. /\ players' = players /\ waiting' = waiting /\ i' = i /\ moved' = moved
      /\ phase' = "events" /\ obstacles' = obstacles /\ toPlace' = toPlace
      /\ fruits' = Keep(fruits, {f \in ToSet(fruits) : f.active})
  BY DEF EndTick, world
<1>2. /\ AreFruits(fruits') /\ Cardinality(Actives(fruits')) = Cardinality(Actives(fruits))
      /\ \A k \in 1 .. Len(fruits') : fruits'[k].active
  BY <1>1, KeptFruits DEF GameInv, FruitsInv
<1>3. AreFruits(fruits)'
  BY <1>1, <1>2 DEF AreFruits
<1>4. FruitsInv'
  BY <1>1, <1>2, <1>3 DEF GameInv, FruitsInv, Actives
<1>5. PlayersInv' /\ PhaseInv' /\ RestInv'
  BY <1>1 DEF GameInv, PlayersInv, PhaseInv, RestInv
<1> QED BY <1>4, <1>5 DEF GameInv

(* What is known of the player whose turn it is.                           *)
LEMMA TurnOf ==
    ASSUME GameInv, InLoop
    PROVE  /\ phase = "tick" /\ i \in 1 .. Len(players) /\ players \in Seq(Player)
           /\ players[i] \in Player /\ Snake(players[i]) /\ players[i].score < MaxScore
           /\ players[i].id \in Ids
<1>1. phase = "tick" /\ i \in 1 .. Len(players) /\ players \in Seq(Player)
  BY DEF InLoop, GameInv, RestInv, PlayersInv, AreSnakes
<1>2. players[i] \in Player /\ Snake(players[i])
  BY <1>1 DEF GameInv, PlayersInv, AreSnakes
<1>3. players[i].score < MaxScore
  BY <1>1 DEF GameInv, PhaseInv
<1> QED BY <1>1, <1>2, <1>3 DEF Player

(* The array with the player moved holds it at i and is otherwise the same;*)
(* whatever then replaces it replaces it in the array before the move.     *)
LEMMA MovedValue ==
    ASSUME GameInv, InLoop
    PROVE  /\ Moved \in Seq(Player \cup {MovePlayer(players[i])}) /\ Len(Moved) = Len(players)
           /\ \A k \in 1 .. Len(players) :
                 Moved[k] = IF k = i THEN MovePlayer(players[i]) ELSE players[k]
           /\ Moved[i] = MovePlayer(players[i])
           /\ \A q : [Moved EXCEPT ![i] = q] = [players EXCEPT ![i] = q]
<1> DEFINE m == MovePlayer(players[i])
           U == Player \cup {m}
<1>1. i \in 1 .. Len(players) /\ players \in Seq(Player)
  BY TurnOf
<1>2. Moved = [players EXCEPT ![i] = m]
  BY DEF Moved
<1> HIDE DEF m
<1>3. players \in Seq(U)
  BY <1>1, SeqMonotonic
<1>4. /\ Moved \in Seq(U) /\ Len(Moved) = Len(players)
      /\ \A k \in 1 .. Len(players) : Moved[k] = IF k = i THEN m ELSE players[k]
  <2>1. m \in U
    OBVIOUS
  <2> HIDE DEF U
  <2> QED BY <1>1, <1>2, <1>3, <2>1, ExceptSeq
<1>5. Moved[i] = m
  BY <1>1, <1>4
<1>6. ASSUME NEW q PROVE [Moved EXCEPT ![i] = q] = [players EXCEPT ![i] = q]
  BY <1>1, <1>2
<1> QED BY <1>4, <1>5, <1>6 DEF m

LEMMA SkipPausedKeeps ==
    ASSUME GameInv, SkipPaused
    PROVE  GameInv'
<1>1. /\ players' = players /\ fruits' = fruits /\ waiting' = waiting /\ moved' = moved
      /\ phase' = phase /\ obstacles' = obstacles /\ toPlace' = toPlace /\ i' = i + 1
  BY DEF SkipPaused, world
<1>2. phase = "tick" /\ i \in 1 .. Len(players) /\ i \in Nat
  BY TurnOf DEF SkipPaused, GameInv, RestInv
<1>3. PlayersInv' /\ FruitsInv'
  BY <1>1, SameFruits DEF GameInv, PlayersInv
<1>4. PhaseInv'
  BY <1>1, <1>2 DEF GameInv, PhaseInv
<1>5. RestInv'
  BY <1>1, <1>2 DEF GameInv, RestInv
<1> QED BY <1>3, <1>4, <1>5 DEF GameInv

(* What every turn does to the rest of the state.                          *)
LEMMA RestAfterTurn ==
    ASSUME GameInv, Turns, i' = i + 1, UNCHANGED <<world, phase, waiting>>
    PROVE  RestInv' /\ phase = "tick" /\ phase' = "tick" /\ waiting' = waiting /\ obstacles' = obstacles
<1>1. phase = "tick" /\ players[i].id \in Ids /\ moved' = moved \cup {players[i].id}
  BY TurnOf DEF Turns
<1> QED BY <1>1 DEF GameInv, RestInv, world

LEMMA DieKeeps ==
    ASSUME GameInv, Die
    PROVE  GameInv' /\ Without(players', players, i)
<1>1. InLoop /\ Turns /\ i' = i + 1 /\ fruits' = fruits /\ UNCHANGED <<world, phase, waiting>>
  BY DEF Die, Turns
<1>2. RestInv' /\ phase = "tick" /\ phase' = "tick" /\ waiting' = waiting /\ obstacles' = obstacles
  BY <1>1, RestAfterTurn
<1>3. i \in 1 .. Len(players) /\ players \in Seq(Player) /\ players[i] \in Player /\ Snake(players[i])
  BY <1>1, TurnOf
<1> DEFINE U == Player \cup {MovePlayer(players[i])}
           id == players[i].id
<1>4. /\ Moved \in Seq(U) /\ Len(Moved) = Len(players)
      /\ \A k \in 1 .. Len(players) : Moved[k] = IF k = i THEN MovePlayer(players[i]) ELSE players[k]
  BY <1>1, MovedValue
<1>5. MovePlayer(players[i]).id = id
  BY <1>3, MoveIsAdvance
<1>6. players' = RemovePlayer(Moved, id)
  BY DEF Die
<1> HIDE DEF U, id
<1>7. PlayerIndex(Moved, id) = i
  <2>1. \A k \in 1 .. Len(players) : Moved[k].id = id <=> k = i
    BY <1>3, <1>4, <1>5 DEF GameInv, PlayersInv, Distinct, id
  <2>2. /\ PlayerIndex(Moved, id) = 0 => \A k \in 1 .. Len(Moved) : Moved[k].id # id
        /\ PlayerIndex(Moved, id) # 0 =>
              PlayerIndex(Moved, id) \in 1 .. Len(Moved) /\ Moved[PlayerIndex(Moved, id)].id = id
    BY <1>4, PlayerIndexValue
  <2> QED BY <1>3, <1>4, <2>1, <2>2
<1>8. players' \in Seq(U) /\ Without(players', players, i)
  <2>1. i # 0 /\ Len(players) \in Nat
    BY <1>3
  <2>2. /\ players' \in Seq(U) /\ Len(players') = Len(players) - 1
        /\ \A k \in 1 .. Len(players) - 1 : players'[k] = IF k < i THEN Moved[k] ELSE Moved[k + 1]
    BY <1>4, <1>6, <1>7, <2>1, RemovePlayerValue
  <2>3. \A k \in 1 .. Len(players) - 1 : IF k < i THEN Moved[k] = players[k] ELSE Moved[k + 1] = players[k + 1]
    BY <1>3, <1>4, <2>1
  <2> QED BY <2>2, <2>3 DEF Without
<1>9. PlayersInv'
  BY <1>2, <1>3, <1>8, Removed DEF GameInv, PlayersInv
<1>10. PhaseInv'
  <2>1. \A k \in i + 1 .. Len(players') : players'[k] = players[k + 1] /\ k + 1 \in i .. Len(players)
    BY <1>3, <1>8 DEF Without
  <2> QED BY <1>1, <1>2, <2>1 DEF GameInv, PhaseInv
<1>11. FruitsInv'
  BY <1>1, <1>2, SameFruits DEF GameInv
<1> QED BY <1>2, <1>8, <1>9, <1>10, <1>11 DEF GameInv

(* A turn that the player survives: another snake in its place.            *)
LEMMA SurvivorKeeps ==
    ASSUME GameInv, Turns, i' = i + 1, UNCHANGED <<world, phase, waiting>>, FruitsInv',
           NEW q \in Player, Snake(q), q.id = players[i].id,
           players' = [players EXCEPT ![i] = q]
    PROVE  GameInv' /\ Swapped(players', players, i, q)
<1>1. RestInv' /\ phase = "tick" /\ phase' = "tick" /\ waiting' = waiting
  BY RestAfterTurn
<1>2. i \in 1 .. Len(players) /\ Len(players) \in Nat
  BY TurnOf DEF Turns
<1>3. PlayersInv' /\ Swapped(players', players, i, q)
  <2>1. AreSnakes(players) /\ Distinct(players, waiting)
    BY DEF GameInv, PlayersInv
  <2> DEFINE r == [players EXCEPT ![i] = q]
  <2>2. AreSnakes(r) /\ Distinct(r, waiting) /\ Swapped(r, players, i, q)
    BY <1>2, <2>1, Replaced
  <2>3. players' = r
    OBVIOUS
  <2> HIDE DEF r
  <2> QED BY <1>1, <2>2, <2>3 DEF PlayersInv
<1>4. PhaseInv'
  <2>1. \A k \in i + 1 .. Len(players') : players'[k] = players[k] /\ k \in i .. Len(players)
    BY <1>2, <1>3 DEF Swapped
  <2> QED BY <1>1, <2>1 DEF GameInv, PhaseInv
<1> QED BY <1>1, <1>3, <1>4 DEF GameInv

LEMMA WrapKeeps ==
    ASSUME GameInv, Wrap
    PROVE  EasyMode /\ GameInv'
<1> DEFINE p == players[i]
<1>1. InLoop /\ Turns /\ i' = i + 1 /\ fruits' = fruits /\ UNCHANGED <<world, phase, waiting>>
  BY DEF Wrap, Turns
<1>2. p \in Player /\ Snake(p)
  BY <1>1, TurnOf
<1>3. Moved[i] = MovePlayer(p) /\ \A q : [Moved EXCEPT ![i] = q] = [players EXCEPT ![i] = q]
  BY <1>1, MovedValue
<1>4. OffBoard(MovePlayer(p)) /\ EasyMode
  BY <1>3, Sizes DEF Wrap, Dies
<1>5. Wrapped(MovePlayer(p)) = Advance(p) /\ StepTo(p.body[1], p.next) \in Board
  BY <1>2, <1>4, MoveIsAdvance
<1>6. Advance(p) \in Player /\ Snake(Advance(p)) /\ Advance(p).id = p.id
  BY <1>2, <1>5, AdvanceKeeps
<1>7. players' = [players EXCEPT ![i] = Advance(p)]
  <2>1. players' = [Moved EXCEPT ![i] = Wrapped(Moved[i])]
    BY DEF Wrap
  <2> QED BY <1>3, <1>5, <2>1
<1>8. FruitsInv'
  <2>1. phase = "tick" /\ phase' = "tick" /\ waiting' = waiting /\ obstacles' = obstacles
    BY <1>1, RestAfterTurn
  <2> QED BY <1>1, <2>1, SameFruits DEF GameInv
<1> HIDE DEF p
<1> QED BY <1>1, <1>4, <1>6, <1>7, <1>8, SurvivorKeeps DEF p

LEMMA MoveKeeps ==
    ASSUME GameInv, Move
    PROVE  /\ GameInv' /\ Swapped(players', players, i, Advance(players[i]))
           /\ StepTo(players[i].body[1], players[i].next) \in Board
<1> DEFINE p == players[i]
<1>1. InLoop /\ Turns /\ i' = i + 1 /\ fruits' = fruits /\ UNCHANGED <<world, phase, waiting>>
  BY DEF Move, Turns
<1>2. p \in Player /\ Snake(p)
  BY <1>1, TurnOf
<1>3. Moved[i] = MovePlayer(p) /\ \A q : [Moved EXCEPT ![i] = q] = [players EXCEPT ![i] = q]
  BY <1>1, MovedValue
<1>4. ~OffBoard(MovePlayer(p))
  BY <1>3 DEF Move
<1>5. MovePlayer(p) = Advance(p) /\ StepTo(p.body[1], p.next) \in Board
  BY <1>2, <1>4, MoveIsAdvance
<1>6. Advance(p) \in Player /\ Snake(Advance(p)) /\ Advance(p).id = p.id
  BY <1>2, <1>5, AdvanceKeeps
<1>7. players' = [players EXCEPT ![i] = Advance(p)]
  BY <1>5 DEF Move, Moved
<1>8. FruitsInv'
  <2>1. phase = "tick" /\ phase' = "tick" /\ waiting' = waiting /\ obstacles' = obstacles
    BY <1>1, RestAfterTurn
  <2> QED BY <1>1, <2>1, SameFruits DEF GameInv
<1> HIDE DEF p
<1> QED BY <1>1, <1>5, <1>6, <1>7, <1>8, SurvivorKeeps DEF p

(* The fruit that player_fruit_collision finds.                            *)
LEMMA FruitFound ==
    ASSUME NEW pos, NEW fs \in Seq(Fruit), FruitUnder(pos, fs) # 0
    PROVE  FruitUnder(pos, fs) \in 1 .. Len(fs) /\ fs[FruitUnder(pos, fs)].active
<1> DEFINE I == {k \in 1 .. Len(fs) : fs[k].active /\ fs[k].pos = pos}
<1>1. FruitUnder(pos, fs) = IF I # {} THEN Min(I) ELSE 0
  BY DEF FruitUnder, SelectInSeq
<1>2. I # {} /\ I \subseteq Nat
  BY <1>1
<1>3. Min(I) \in I
  <2> HIDE DEF I
  <2> QED BY <1>2, LeastIndex
<1> QED BY <1>1, <1>2, <1>3

LEMMA EatKeeps ==
    ASSUME GameInv, Eat
    PROVE  /\ GameInv' /\ Swapped(players', players, i, GrowPlayer(Advance(players[i])))
           /\ StepTo(players[i].body[1], players[i].next) \in Board
<1> DEFINE p == players[i]
           a == Advance(p)
           q == GrowPlayer(a)
           f == FruitUnder(Head1(Moved[i]), fruits)
           grown == [Moved EXCEPT ![i] = GrowPlayer(@)]
           eaten == [fruits EXCEPT ![f].active = FALSE]
<1>1. InLoop /\ Turns /\ i' = i + 1 /\ UNCHANGED <<world, phase, waiting>>
  BY DEF Eat, Turns
<1>2. p \in Player /\ Snake(p) /\ p.score < MaxScore
  BY <1>1, TurnOf
<1>3. Moved[i] = MovePlayer(p) /\ \A x : [Moved EXCEPT ![i] = x] = [players EXCEPT ![i] = x]
  BY <1>1, MovedValue
<1>4. ~OffBoard(MovePlayer(p))
  BY <1>3 DEF Eat
<1>5. MovePlayer(p) = a /\ StepTo(p.body[1], p.next) \in Board
  BY <1>2, <1>4, MoveIsAdvance
<1>6. a \in Player /\ Snake(a) /\ Taut(a) /\ a.id = p.id /\ a.score < MaxScore
  BY <1>2, <1>5, AdvanceKeeps
<1>7. q \in Player /\ Snake(q) /\ q.id = p.id
  <2> HIDE DEF a
  <2> QED BY <1>6, GrowKeeps
<1>8. players' = [players EXCEPT ![i] = q]
  <2>1. players' = [Moved EXCEPT ![i] = GrowPlayer(Moved[i])]
    BY DEF Eat
  <2> QED BY <1>3, <1>5, <2>1
<1>9. f # 0 /\ \E pos \in FruitCells(grown) : fruits' = Append(eaten, FruitAt(pos))
  BY DEF Eat
<1>10. AreFruits(eaten) /\ Cardinality(Actives(eaten)) = Cardinality(Actives(fruits)) - 1
  <2>1. AreFruits(fruits) /\ fruits \in Seq(Fruit)
    BY DEF GameInv, FruitsInv, AreFruits
  <2>2. f \in 1 .. Len(fruits) /\ fruits[f].active
    BY <1>9, <2>1, FruitFound
  <2> HIDE DEF f
  <2> QED BY <2>1, <2>2, EatenFruit
<1>11. AreFruits(fruits') /\ Cardinality(Actives(fruits')) = Cardinality(Actives(fruits))
  <2>1. PICK pos \in FruitCells(grown) : fruits' = Append(eaten, FruitAt(pos))
    BY <1>9
  <2> HIDE DEF eaten, grown
  <2>2. AreFruits(fruits') /\ Cardinality(Actives(fruits')) = Cardinality(Actives(eaten)) + 1
    BY <1>10, <2>1, NewFruit
  <2>3. Cardinality(Actives(fruits)) \in Nat
    BY ActivesFinite DEF GameInv, FruitsInv, AreFruits
  <2> QED BY <1>10, <2>2, <2>3
<1>12. FruitsInv'
  <2>1. phase' = "tick" /\ waiting' = waiting /\ obstacles' = obstacles
    BY <1>1, RestAfterTurn
  <2>2. AreFruits(fruits)'
    BY <1>11, <2>1 DEF AreFruits
  <2>3. Cardinality(Actives(fruits)) = Cardinality(Ids) - Cardinality(waiting)
    BY DEF GameInv, FruitsInv
  <2> QED BY <1>11, <2>1, <2>2, <2>3 DEF FruitsInv, Actives
<1> HIDE DEF p, a, q
<1> QED BY <1>1, <1>5, <1>7, <1>8, <1>12, SurvivorKeeps DEF p, q, a

(* Every step of the game keeps the invariant.                             *)
LEMMA NextGame == GameInv /\ [Next]_vars => GameInv'
<1> SUFFICES ASSUME GameInv, [Next]_vars PROVE GameInv'
  OBVIOUS
<1>1. ASSUME NEW id \in Ids,
             \/ Join(id) \/ Leave(id)
             \/ \E d \in Dirs : Turn(id, d)
             \/ id \in Pausing /\ \E b \in BOOLEAN : SetPaused(id, b)
      PROVE  GameInv'
  BY <1>1, JoinKeeps, LeaveKeeps, TurnKeeps, SetPausedKeeps
<1>2. CASE PlaceObstacle \/ StopPlacing \/ StartGame
  BY <1>2, PlaceKeeps
<1>3. CASE StartTick \/ EndTick
  BY <1>3, StartTickKeeps, EndTickKeeps
<1>4. CASE UpdateStep
  BY <1>4, SkipPausedKeeps, DieKeeps, WrapKeeps, EatKeeps, MoveKeeps DEF UpdateStep
<1>5. CASE Finished \/ UNCHANGED vars
  <2>1. UNCHANGED <<players, fruits, obstacles, toPlace, phase, i, waiting, moved>>
    BY <1>5 DEF Finished, vars, world
  <2> QED BY <2>1 DEF GameInv, PlayersInv, FruitsInv, AreFruits, Actives, PhaseInv, RestInv
<1> QED BY <1>1, <1>2, <1>3, <1>4, <1>5 DEF Next

THEOREM GameInvariant == Spec => []GameInv
<1> QED BY InitGame, NextGame, PTL DEF Spec

-----------------------------------------------------------------------------
(* What the runs check.                                                    *)

(* Every field of the board keeps its type, whatever the players do.       *)
THEOREM GameTypes == Spec => []TypeOK
<1>1. GameInv => TypeOK
  <2> SUFFICES ASSUME GameInv PROVE TypeOK
    OBVIOUS
  <2>1. /\ players \in Seq(Player) /\ DOMAIN players = 1 .. Len(players)
        /\ fruits \in Seq(Fruit) /\ DOMAIN fruits = 1 .. Len(fruits)
    BY DEF GameInv, PlayersInv, AreSnakes, FruitsInv, AreFruits
  <2>2. ASSUME NEW k \in DOMAIN players
        PROVE  /\ players[k].id \in Ids /\ players[k].body \in Seq(Board)
               /\ players[k].dir \in Dirs /\ players[k].next \in Dirs
               /\ players[k].paused \in BOOLEAN /\ players[k].score \in 0 .. MaxScore
    <3>1. players[k] \in Player
      BY <2>1
    <3> QED BY <3>1 DEF Player
  <2>3. ASSUME NEW k \in DOMAIN fruits
        PROVE  fruits[k].pos \in Board \ obstacles /\ fruits[k].active \in BOOLEAN
    <3>1. fruits[k] \in Fruit /\ fruits[k].pos \notin obstacles
      BY <2>1 DEF GameInv, FruitsInv, AreFruits
    <3> QED BY <3>1 DEF Fruit
  <2> QED BY <2>2, <2>3 DEF TypeOK, GameInv, RestInv
<1> QED BY <1>1, GameInvariant, PTL

(* The score counts the segments grown (grow_player, game_update).         *)
THEOREM GrowthCounted == Spec => []ScoreIsGrowth
<1>1. GameInv => ScoreIsGrowth
  BY DEF GameInv, PlayersInv, AreSnakes, Snake, ScoreIsGrowth
<1> QED BY <1>1, GameInvariant, PTL

(* However many turns arrive between two ticks, no move takes a head back  *)
(* onto its neck, be the snake dead of it in the same step or not, with    *)
(* walls and across the border (game_update_player_direction, move_player).*)
THEOREM NeverBack == Spec => NeverReverses
<1>1. GameInv /\ [Next]_vars => [Turns => Head1(Landed(Moved[i])) # players[i].body[2]]_vars
  <2> SUFFICES ASSUME GameInv, Turns
               PROVE  Head1(Landed(Moved[i])) # players[i].body[2]
    OBVIOUS
  <2>1. players[i] \in Player /\ Snake(players[i]) /\ Moved[i] = MovePlayer(players[i])
    BY TurnOf, MovedValue DEF Turns
  <2>2. Head1(Landed(MovePlayer(players[i]))) = StepTo(players[i].body[1], players[i].next)
    BY <2>1, MoveIsAdvance
  <2>3. StepTo(players[i].body[1], players[i].next) # players[i].body[2]
    BY <2>1, NotToTheNeck
  <2> QED BY <2>1, <2>2, <2>3
<1> QED BY <1>1, GameInvariant, PTL DEF Spec, NeverReverses

(* A snake is one piece, over the border too (move_player, grow_player).   *)
THEOREM OnePiece == Spec => []InOnePiece
<1>1. GameInv => InOnePiece
  <2> SUFFICES ASSUME GameInv, NEW k \in DOMAIN players,
                      NEW s \in 1 .. Len(players[k].body) - 1
               PROVE  Linked(players[k].body, s)
    BY DEF InOnePiece, Linked
  <2>1. DOMAIN players = 1 .. Len(players)
    BY DEF GameInv, PlayersInv, AreSnakes
  <2>2. Snake(players[k])
    BY <2>1 DEF GameInv, PlayersInv, AreSnakes
  <2> QED BY <2>2 DEF Snake
<1> QED BY <1>1, GameInvariant, PTL

(* As many uneaten fruits as players have ever joined, and no eaten one    *)
(* between ticks (game_add_fruit, game_update).                            *)
THEOREM FruitForEveryJoin == Spec => []FruitPerJoin
<1>1. GameInv => FruitPerJoin
  <2> SUFFICES ASSUME GameInv PROVE FruitPerJoin
    OBVIOUS
  <2>1. DOMAIN fruits = 1 .. Len(fruits)
    BY DEF GameInv, FruitsInv, AreFruits
  <2> QED BY <2>1 DEF GameInv, FruitsInv, Actives, FruitPerJoin, Joined
<1> QED BY <1>1, GameInvariant, PTL

-----------------------------------------------------------------------------
(* Snakes apart.                                                           *)

(* A move takes a snake to no cell but that of its new head.               *)
LEMMA CellsOfAdvance ==
    ASSUME NEW p \in Player, Snake(p), StepTo(p.body[1], p.next) \in Board
    PROVE  Cells(Advance(p)) \subseteq Cells(p) \cup {Head1(Advance(p))}
<1> DEFINE b == p.body
           h == StepTo(b[1], p.next)
           m == <<h>> \o Front(b)
<1>1. b \in Seq(Board) /\ Len(b) \in Nat /\ Len(b) >= 3
  BY SnakeLen
<1>2. m \in Seq(Board) /\ Len(m) = Len(b) /\ m[1] = h /\ \A s \in 2 .. Len(b) : m[s] = b[s - 1]
  <2> HIDE DEF b, h
  <2>1. h \in Board
    BY DEF b, h
  <2> QED BY <1>1, <2>1, Shifted
<1>3. Advance(p).body = m
  <2>1. Advance(p) = [p EXCEPT !.dir = p.next, !.body = m]
    BY DEF Advance
  <2> HIDE DEF m
  <2> QED BY <2>1 DEF Player
<1> HIDE DEF m
<1>4. ASSUME NEW s \in 1 .. Len(m)
      PROVE  m[s] = m[1] \/ \E j \in 1 .. Len(b) : m[s] = b[j]
  <2>1. CASE s = 1
    BY <2>1
  <2>2. CASE s # 1
    <3>1. s \in 2 .. Len(b) /\ s - 1 \in 1 .. Len(b)
      BY <1>1, <1>2, <2>2
    <3> QED BY <1>2, <3>1
  <2> QED BY <2>1, <2>2
<1>5. DOMAIN m = 1 .. Len(m) /\ DOMAIN b = 1 .. Len(b)
  BY <1>1, <1>2
<1> QED BY <1>3, <1>4, <1>5 DEF Cells, ToSet, Head1

(* A player that has survived its move comes to no cell of another: that   *)
(* is what player_player_collision has looked at.                          *)
LEMMA SurvivorApart ==
    ASSUME GameInv, InLoop, ~Dies(Moved[i], Moved), ~OffBoard(Moved[i]),
           NEW k \in 1 .. Len(players), k # i
    PROVE  Cells(Advance(players[i])) \cap Cells(players[k]) \subseteq Cells(players[i])
<1> DEFINE p == players[i]
<1>1. i \in 1 .. Len(players) /\ p \in Player /\ Snake(p) /\ players \in Seq(Player)
  BY TurnOf
<1>2. /\ Moved[i] = MovePlayer(p) /\ Moved[k] = players[k] /\ k \in DOMAIN Moved
      /\ MovePlayer(p) = Advance(p) /\ StepTo(p.body[1], p.next) \in Board
  <2>1. /\ Moved \in Seq(Player \cup {MovePlayer(p)}) /\ Len(Moved) = Len(players)
        /\ \A j \in 1 .. Len(players) : Moved[j] = IF j = i THEN MovePlayer(p) ELSE players[j]
    BY MovedValue
  <2>2. Moved[i] = MovePlayer(p) /\ Moved[k] = players[k] /\ k \in DOMAIN Moved
    BY <1>1, <2>1
  <2> QED BY <1>1, <2>2, MoveIsAdvance
<1>3. Moved[k].id # Moved[i].id
  <2>1. Moved[i].id = p.id
    BY <1>1, <1>2, MoveIsAdvance
  <2> QED BY <1>1, <1>2, <2>1 DEF GameInv, PlayersInv, Distinct
<1>4. Head1(Moved[i]) \notin Cells(Moved[k])
  BY <1>2, <1>3 DEF Dies, HitsPlayer
<1>5. Cells(Advance(p)) \subseteq Cells(p) \cup {Head1(Advance(p))}
  BY <1>1, <1>2, CellsOfAdvance
<1> QED BY <1>2, <1>4, <1>5

(* OverlapIds for any array.                                               *)
Overlap(ps, a, b) == a # b /\ Cells(ps[a]) \cap Cells(ps[b]) # {}

IdsOfOverlaps(ps) ==
    {{ps[c[1]].id, ps[c[2]].id} :
        c \in {d \in (DOMAIN ps) \X (DOMAIN ps) : Overlap(ps, d[1], d[2])}}

LEMMA OverlapIdsAre ==
    ASSUME NEW ps, NEW x
    PROVE  x \in IdsOfOverlaps(ps) <=>
             \E a, b \in DOMAIN ps : Overlap(ps, a, b) /\ x = {ps[a].id, ps[b].id}
<1> DEFINE Pairs == {d \in (DOMAIN ps) \X (DOMAIN ps) : Overlap(ps, d[1], d[2])}
<1>1. IdsOfOverlaps(ps) = {{ps[c[1]].id, ps[c[2]].id} : c \in Pairs}
  BY DEF IdsOfOverlaps
<1>2. ASSUME NEW a \in DOMAIN ps, NEW b \in DOMAIN ps
      PROVE  <<a, b>>[1] = a /\ <<a, b>>[2] = b /\ (Overlap(ps, a, b) <=> <<a, b>> \in Pairs)
  OBVIOUS
<1>3. \A c \in Pairs : c[1] \in DOMAIN ps /\ c[2] \in DOMAIN ps /\ Overlap(ps, c[1], c[2])
  OBVIOUS
<1> HIDE DEF Pairs
<1>4. ASSUME x \in IdsOfOverlaps(ps)
      PROVE  \E a, b \in DOMAIN ps : Overlap(ps, a, b) /\ x = {ps[a].id, ps[b].id}
  <2>1. PICK c \in Pairs : x = {ps[c[1]].id, ps[c[2]].id}
    BY <1>1, <1>4
  <2> QED BY <1>3, <2>1
<1>5. ASSUME NEW a \in DOMAIN ps, NEW b \in DOMAIN ps, Overlap(ps, a, b), x = {ps[a].id, ps[b].id}
      PROVE  x \in IdsOfOverlaps(ps)
  <2>1. <<a, b>> \in Pairs /\ <<a, b>>[1] = a /\ <<a, b>>[2] = b
    BY <1>2, <1>5
  <2> QED BY <1>1, <1>5, <2>1
<1> QED BY <1>4, <1>5

(* Each overlap of one array is one of the other.                          *)
LEMMA OverlapsFrom ==
    ASSUME NEW ps, NEW r, NEW at,
           \A a \in DOMAIN r : at[a] \in DOMAIN ps /\ ps[at[a]].id = r[a].id,
           \A a, b \in DOMAIN r : Overlap(r, a, b) => Overlap(ps, at[a], at[b])
    PROVE  IdsOfOverlaps(r) \subseteq IdsOfOverlaps(ps)
<1> SUFFICES ASSUME NEW x \in IdsOfOverlaps(r) PROVE x \in IdsOfOverlaps(ps)
  OBVIOUS
<1>1. PICK a \in DOMAIN r, b \in DOMAIN r : Overlap(r, a, b) /\ x = {r[a].id, r[b].id}
  BY OverlapIdsAre
<1>2. at[a] \in DOMAIN ps /\ at[b] \in DOMAIN ps /\ Overlap(ps, at[a], at[b])
  BY <1>1
<1>3. x = {ps[at[a]].id, ps[at[b]].id}
  BY <1>1
<1> QED BY <1>2, <1>3, OverlapIdsAre

LEMMA DieApart ==
    ASSUME GameInv, Die
    PROVE  IdsOfOverlaps(players') \subseteq IdsOfOverlaps(players)
<1> DEFINE at == [k \in 1 .. Len(players) - 1 |-> IF k < i THEN k ELSE k + 1]
<1>1. players \in Seq(Player) /\ players' \in Seq(Player) /\ i \in 1 .. Len(players)
  BY DieKeeps, TurnOf DEF GameInv, PlayersInv, AreSnakes, Die, Turns
<1>2. Without(players', players, i)
  BY DieKeeps
<1>3. DOMAIN players' = 1 .. Len(players) - 1 /\ DOMAIN players = 1 .. Len(players)
  BY <1>1, <1>2 DEF Without
<1>4. \A k \in 1 .. Len(players) - 1 :
         at[k] \in 1 .. Len(players) /\ players'[k] = players[at[k]]
  BY <1>1, <1>2 DEF Without
<1>5. \A a, b \in 1 .. Len(players) - 1 : a # b => at[a] # at[b]
  BY <1>1
<1> HIDE DEF at
<1>6. ASSUME NEW a \in DOMAIN players', NEW b \in DOMAIN players', Overlap(players', a, b)
      PROVE  Overlap(players, at[a], at[b])
  <2>1. players'[a] = players[at[a]] /\ players'[b] = players[at[b]]
    BY <1>3, <1>4
  <2>2. at[a] # at[b]
    BY <1>3, <1>5, <1>6 DEF Overlap
  <2> QED BY <1>6, <2>1, <2>2 DEF Overlap
<1>7. \A a \in DOMAIN players' : at[a] \in DOMAIN players /\ players[at[a]].id = players'[a].id
  BY <1>3, <1>4
<1> QED BY <1>6, <1>7, OverlapsFrom

(* The player at i is replaced by one that overlaps no more than it did.   *)
LEMMA SwapApart ==
    ASSUME NEW ps \in Seq(Player), NEW r \in Seq(Player), NEW n \in 1 .. Len(ps), NEW q,
           Swapped(r, ps, n, q), q.id = ps[n].id,
           \A k \in 1 .. Len(ps) : k # n => Cells(q) \cap Cells(ps[k]) \subseteq Cells(ps[n])
    PROVE  IdsOfOverlaps(r) \subseteq IdsOfOverlaps(ps)
<1> DEFINE at == [k \in 1 .. Len(ps) |-> k]
<1>1. DOMAIN r = 1 .. Len(ps) /\ DOMAIN ps = 1 .. Len(ps)
  BY DEF Swapped
<1>2. \A k \in 1 .. Len(ps) : at[k] = k /\ r[k] = IF k = n THEN q ELSE ps[k]
  BY DEF Swapped
<1> HIDE DEF at
<1>3. ASSUME NEW a \in 1 .. Len(ps), NEW b \in 1 .. Len(ps), Overlap(r, a, b)
      PROVE  Overlap(ps, at[a], at[b])
  <2>1. a # b /\ at[a] = a /\ at[b] = b
    BY <1>2, <1>3 DEF Overlap
  <2>2. PICK c : c \in Cells(r[a]) /\ c \in Cells(r[b])
    BY <1>3 DEF Overlap
  <2>3. CASE a = n
    <3>1. r[a] = q /\ r[b] = ps[b] /\ b # n
      BY <1>2, <2>1, <2>3
    <3>2. c \in Cells(ps[n]) /\ c \in Cells(ps[b])
      BY <2>2, <3>1
    <3> QED BY <2>1, <2>3, <3>2 DEF Overlap
  <2>4. CASE b = n
    <3>1. r[b] = q /\ r[a] = ps[a] /\ a # n
      BY <1>2, <2>1, <2>4
    <3>2. c \in Cells(ps[n]) /\ c \in Cells(ps[a])
      BY <2>2, <3>1
    <3> QED BY <2>1, <2>4, <3>2 DEF Overlap
  <2>5. CASE a # n /\ b # n
    BY <1>2, <2>1, <2>2, <2>5 DEF Overlap
  <2> QED BY <2>3, <2>4, <2>5
<1>4. \A a \in 1 .. Len(ps) : at[a] \in 1 .. Len(ps) /\ ps[at[a]].id = r[a].id
  BY <1>2
<1> QED BY <1>1, <1>3, <1>4, OverlapsFrom

LEMMA SurviveApart ==
    ASSUME GameInv, Move \/ Eat
    PROVE  IdsOfOverlaps(players') \subseteq IdsOfOverlaps(players)
<1> DEFINE p == players[i]
           a == Advance(p)
           q == IF Move THEN a ELSE GrowPlayer(a)
<1>1. InLoop /\ ~Dies(Moved[i], Moved) /\ ~OffBoard(Moved[i])
  BY DEF Move, Eat, Turns
<1>2. /\ players \in Seq(Player) /\ i \in 1 .. Len(players)
      /\ p \in Player /\ Snake(p) /\ p.score < MaxScore
  BY <1>1, TurnOf
<1>3. GameInv' /\ Swapped(players', players, i, q) /\ StepTo(p.body[1], p.next) \in Board
  BY MoveKeeps, EatKeeps
<1>4. a \in Player /\ Snake(a) /\ Taut(a) /\ a.id = p.id /\ a.score < MaxScore
  BY <1>2, <1>3, AdvanceKeeps
<1>5. q.id = p.id /\ Cells(q) = Cells(a)
  <2> HIDE DEF a
  <2>1. GrowPlayer(a).id = a.id /\ Cells(GrowPlayer(a)) = Cells(a)
    BY <1>4, GrowKeeps
  <2> QED BY <1>4, <2>1
<1>6. \A k \in 1 .. Len(players) : k # i => Cells(q) \cap Cells(players[k]) \subseteq Cells(p)
  BY <1>1, <1>5, SurvivorApart
<1>7. players' \in Seq(Player)
  BY <1>3 DEF GameInv, PlayersInv, AreSnakes
<1> HIDE DEF a, q
<1> QED BY <1>2, <1>3, <1>5, <1>6, <1>7, SwapApart

(* With walls, a tick puts no living snake on another, in whatever order   *)
(* the players are updated and whoever dies between two of them            *)
(* (game_update, player_player_collision).                                 *)
THEOREM SnakesApart == ASSUME ~EasyMode PROVE Spec => TicksKeepSnakesApart
<1>1. ASSUME GameInv, [Next]_vars, phase = "tick"
      PROVE  OverlapIds' \subseteq OverlapIds
  <2>1. OverlapIds = IdsOfOverlaps(players) /\ OverlapIds' = IdsOfOverlaps(players')
    BY DEF OverlapIds, Overlaps, IdsOfOverlaps, Overlap
  <2>2. UpdateStep \/ EndTick \/ UNCHANGED vars
    BY <1>1 DEF Next, Join, Leave, Turn, SetPaused, PlaceObstacle, StopPlacing, StartGame,
                StartTick, Finished
  <2>3. CASE SkipPaused \/ EndTick \/ UNCHANGED vars
    BY <2>1, <2>3 DEF SkipPaused, EndTick, vars
  <2>4. CASE Die
    BY <1>1, <2>1, <2>4, DieApart
  <2>5. CASE Wrap
    BY <1>1, <2>5, WrapKeeps
  <2>6. CASE Move \/ Eat
    BY <1>1, <2>1, <2>6, SurviveApart
  <2> QED BY <2>2, <2>3, <2>4, <2>5, <2>6 DEF UpdateStep
<1>2. GameInv /\ [Next]_vars => [phase = "tick" => OverlapIds' \subseteq OverlapIds]_vars
  BY <1>1
<1> QED BY <1>2, GameInvariant, PTL DEF Spec, TicksKeepSnakesApart
=============================================================================

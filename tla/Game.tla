--------------------------------- MODULE Game ---------------------------------
(***************************************************************************)
(* The board: placing the obstacles before the game (server/game.c         *)
(* game_init), game_update and what it calls (game.c, physics.c), and the  *)
(* event handlers that change the board between two ticks (server.c        *)
(* handle_event: joining, leaving, turning, pausing).  All of it runs in   *)
(* the main thread.  One step of game_update's loop over the players is    *)
(* one action, because the array changes under the loop's index.           *)
(*                                                                         *)
(* rand() is a choice among the cells it can produce.  Allocation failures *)
(* are left out.  Scores stop the model at MaxScore (a bound).             *)
(***************************************************************************)
EXTENDS Naturals, Integers, Sequences, FiniteSets, Players, Selection

CONSTANTS Ids,        \* the players that may join, one EV_CONNECTED each
          Width,      \* WORLD_WIDTH
          Height,     \* WORLD_HEIGHT
          MaxObstacles, \* width * height / 120, or 1 if that is 0
          Sites,      \* the cells obstacles are put on (a bound)
          EasyMode,   \* !obstacles_enabled
          Pausing,    \* the ids whose clients ever pause (a bound)
          MaxScore    \* no tick starts once a player has this score (a bound)

InitialLength == 3    \* INITIAL_SNAKE_LENGTH

ASSUME GameAssumption ==
    /\ IsFiniteSet(Ids) /\ Pausing \subseteq Ids
    /\ Width \in Nat /\ Width > InitialLength /\ Height \in Nat /\ Height > 2
    /\ Sites \subseteq (0 .. Width - 1) \X (0 .. Height - 1)
    /\ MaxObstacles \in Nat \ {0} /\ EasyMode \in BOOLEAN
    /\ MaxScore \in Nat

Dirs  == {"up", "down", "left", "right"}
Board == (0 .. Width - 1) \X (0 .. Height - 1)

VARIABLES
    players,  \* game->players: id, body (head first), dir, next, paused, score
    fruits,   \* game->fruits: pos, active
    obstacles, \* game->obstacles[..].pos
    toPlace,  \* how many are yet to be placed
    phase,    \* "world": game_init; "events": between ticks; "tick": in
              \* game_update's loop
    i,        \* its index, from 1
    waiting,  \* ids that have not joined yet
    moved     \* not in the code: the ids moved in this tick

world == <<obstacles, toPlace>>
vars == <<players, fruits, world, phase, i, waiting, moved>>

Abs(n)    == IF n < 0 THEN -n ELSE n
Head1(p)  == p.body[1]
Cells(p)  == ToSet(p.body)
Joined    == Cardinality(Ids) - Cardinality(waiting)

-----------------------------------------------------------------------------
(* physics.c                                                               *)

Opposite == [up |-> "down", down |-> "up", left |-> "right", right |-> "left"]
Delta    == [up |-> <<0, -1>>, down |-> <<0, 1>>, left |-> <<-1, 0>>, right |-> <<1, 0>>]

(* The head moves, every other segment takes the place before it.          *)
MovePlayer(p) ==
    LET head == <<Head1(p)[1] + Delta[p.next][1], Head1(p)[2] + Delta[p.next][2]>>
    IN  [p EXCEPT !.dir = p.next, !.body = <<head>> \o Front(p.body)]

\* Mutant: the length is raised twice.
GrowPlayerTwice(p) ==
    [p EXCEPT !.score = @ + 1, !.body = @ \o <<Last(@), Last(@)>>]

(* grow_player, with the score of game_update: the tail is doubled.        *)
GrowPlayer(p) == [p EXCEPT !.score = @ + 1, !.body = Append(@, Last(@))]

\* Mutant: only the heads of the others count.
HitsOnlyHeads(p, ps) ==
    \/ Head1(p) \in ToSet(Tail(p.body))
    \/ \E k \in DOMAIN ps : ps[k].id # p.id /\ Head1(p) = Head1(ps[k])

(* player_player_collision: another player's segment, or one's own body.   *)
HitsPlayer(p, ps) ==
    \/ Head1(p) \in ToSet(Tail(p.body))
    \/ \E k \in DOMAIN ps : ps[k].id # p.id /\ Head1(p) \in Cells(ps[k])

\* Mutant: > for >= on the right and at the bottom.
OffBoardLate(p) == Head1(p) \notin (0 .. Width) \X (0 .. Height)

(* player_wall_collision.                                                  *)
OffBoard(p) == Head1(p) \notin Board

\* Mutant: the head is put back where it left the board.
WrappedBack(p) ==
    [p EXCEPT !.body[1] = <<IF @[1] < 0 THEN 0 ELSE IF @[1] >= Width THEN Width - 1 ELSE @[1],
                            IF @[2] < 0 THEN 0 ELSE IF @[2] >= Height THEN Height - 1 ELSE @[2]>>]

(* Easy mode: the head comes in again on the other side.                   *)
Wrapped(p) == [p EXCEPT !.body[1] = <<@[1] % Width, @[2] % Height>>]

(* player_fruit_collision: the first active fruit under the head, or 0.    *)
FruitUnder(pos, fs) == SelectInSeq(fs, LAMBDA f : f.active /\ f.pos = pos)

-----------------------------------------------------------------------------
(* Cells game_add_fruit may choose: off the border, off heads and          *)
(* obstacles; other segments and other fruits do not matter.               *)
FruitCells(ps) ==
    {pos \in (1 .. Width - 2) \X (1 .. Height - 2) :
        pos \notin obstacles /\ \A k \in DOMAIN ps : Head1(ps[k]) # pos}

FruitAt(pos) == [pos |-> pos, active |-> TRUE]

(* Bodies game_add_player may give: a row of three cells that are not      *)
(* obstacles; other players do not matter.                                 *)
SpawnBodies ==
    {b \in {<<<<x, y>>, <<x - 1, y>>, <<x - 2, y>>>> :
              x \in InitialLength - 1 .. Width - 1, y \in 0 .. Height - 1} :
        ToSet(b) \cap obstacles = {}}

Init ==
    /\ players = <<>> /\ fruits = <<>>
    /\ obstacles = {} /\ toPlace \in IF EasyMode THEN {0} ELSE 1 .. MaxObstacles
    /\ phase = "world" /\ i = 1
    /\ waiting = Ids /\ moved = {}

-----------------------------------------------------------------------------
(* game_init, game_spawn_obstacles_random; a world from a file is random   *)
(* too (game_spawn_obstacles_from_file).                                   *)

\* Mutant: only the four neighbours count.
HasNeighborBeside(pos) ==
    \E o \in obstacles : <<Abs(o[1] - pos[1]), Abs(o[2] - pos[2])>> \in {<<0, 0>>, <<0, 1>>, <<1, 0>>}

(* An obstacle on the cell or on one of the eight around it.               *)
HasNeighbor(pos) ==
    \E o \in obstacles : Abs(o[1] - pos[1]) <= 1 /\ Abs(o[2] - pos[2]) <= 1

PlaceObstacle ==
    /\ phase = "world" /\ toPlace > 0
    /\ \E pos \in Sites : ~HasNeighbor(pos) /\ obstacles' = obstacles \cup {pos}
    /\ toPlace' = toPlace - 1
    /\ UNCHANGED <<players, fruits, phase, i, waiting, moved>>

(* A thousand draws in a row had a neighbour.                              *)
StopPlacing ==
    /\ phase = "world" /\ toPlace > 0 /\ obstacles # {}
    /\ toPlace' = 0
    /\ UNCHANGED <<players, fruits, obstacles, phase, i, waiting, moved>>

StartGame ==
    /\ phase = "world" /\ toPlace = 0
    /\ phase' = "events"
    /\ UNCHANGED <<players, fruits, world, i, waiting, moved>>

-----------------------------------------------------------------------------
(* Events between two ticks.                                               *)

(* EV_CONNECTED: first a fruit, then the player.                           *)
Join(id) ==
    /\ phase = "events" /\ id \in waiting
    /\ \E pos \in FruitCells(players) : fruits' = Append(fruits, FruitAt(pos))
    /\ \E b \in SpawnBodies :
         players' = Append(players, [id |-> id, body |-> b, dir |-> "right",
                                     next |-> "right", paused |-> FALSE, score |-> 0])
    /\ waiting' = waiting \ {id}
    /\ UNCHANGED <<world, phase, i, moved>>

(* EV_DISCONNECTED.                                                        *)
Leave(id) ==
    /\ phase = "events" /\ PlayerIndex(players, id) # 0
    /\ players' = RemovePlayer(players, id)
    /\ UNCHANGED <<world, fruits, phase, i, waiting, moved>>

\* Mutant: compares with the direction asked for last.
TurnAgainstNext(id, d) ==
    LET k == PlayerIndex(players, id)
    IN  /\ phase = "events" /\ k # 0
        /\ d # Opposite[players[k].next]
        /\ players' = [players EXCEPT ![k].next = d]
        /\ UNCHANGED <<world, fruits, phase, i, waiting, moved>>

(* EV_INPUT, game_update_player_direction: any direction but the opposite  *)
(* of the one the snake has last moved in.                                 *)
Turn(id, d) ==
    LET k == PlayerIndex(players, id)
    IN  /\ phase = "events" /\ k # 0
        /\ d # Opposite[players[k].dir]
        /\ players' = [players EXCEPT ![k].next = d]
        /\ UNCHANGED <<world, fruits, phase, i, waiting, moved>>

(* EV_PAUSED and EV_WAITED_AFTER_RESUME; Server models when they come.     *)
SetPaused(id, b) ==
    LET k == PlayerIndex(players, id)
    IN  /\ phase = "events" /\ k # 0
        /\ players' = [players EXCEPT ![k].paused = b]
        /\ UNCHANGED <<world, fruits, phase, i, waiting, moved>>

-----------------------------------------------------------------------------
(* game_update                                                             *)

StartTick ==
    /\ phase = "events" /\ players # <<>>
    /\ \A k \in DOMAIN players : players[k].score < MaxScore
    /\ phase' = "tick" /\ i' = 1 /\ moved' = {}
    /\ UNCHANGED <<world, players, fruits, waiting>>

InLoop == phase = "tick" /\ i <= Len(players)

SkipPaused ==
    /\ InLoop /\ players[i].paused
    /\ i' = i + 1
    /\ UNCHANGED <<world, players, fruits, phase, waiting, moved>>

(* The array with player i moved, as all the checks see it.                *)
Moved == [players EXCEPT ![i] = MovePlayer(@)]

Dies(p, ps) == HitsPlayer(p, ps) \/ Head1(p) \in obstacles \/ (~EasyMode /\ OffBoard(p))

Turns == InLoop /\ ~players[i].paused /\ moved' = moved \cup {players[i].id}

(* game_remove_player shifts the array, and i goes up all the same.        *)
Die ==
    /\ Turns /\ Dies(Moved[i], Moved)
    /\ players' = RemovePlayer(Moved, players[i].id)
    /\ i' = i + 1
    /\ UNCHANGED <<world, fruits, phase, waiting>>

(* continue: neither fruits nor collisions are looked at where it comes in.*)
Wrap ==
    /\ Turns /\ ~Dies(Moved[i], Moved) /\ OffBoard(Moved[i])
    /\ players' = [Moved EXCEPT ![i] = Wrapped(@)]
    /\ i' = i + 1
    /\ UNCHANGED <<world, fruits, phase, waiting>>

\* Mutant: no new fruit in the place of the eaten one.
EatWithoutNewFruit ==
    LET f == FruitUnder(Head1(Moved[i]), fruits)
    IN  /\ Turns /\ ~Dies(Moved[i], Moved) /\ ~OffBoard(Moved[i]) /\ f # 0
        /\ players' = [Moved EXCEPT ![i] = GrowPlayer(@)]
        /\ fruits' = [fruits EXCEPT ![f].active = FALSE]
        /\ i' = i + 1
        /\ UNCHANGED <<world, phase, waiting>>

(* One fruit is eaten, the snake grows, a new fruit is placed.             *)
Eat ==
    LET f == FruitUnder(Head1(Moved[i]), fruits)
        grown == [Moved EXCEPT ![i] = GrowPlayer(@)]
    IN  /\ Turns /\ ~Dies(Moved[i], Moved) /\ ~OffBoard(Moved[i]) /\ f # 0
        /\ players' = grown
        /\ \E pos \in FruitCells(grown) :
             fruits' = Append([fruits EXCEPT ![f].active = FALSE], FruitAt(pos))
        /\ i' = i + 1
        /\ UNCHANGED <<world, phase, waiting>>

Move ==
    /\ Turns /\ ~Dies(Moved[i], Moved) /\ ~OffBoard(Moved[i])
    /\ FruitUnder(Head1(Moved[i]), fruits) = 0
    /\ players' = Moved
    /\ i' = i + 1
    /\ UNCHANGED <<world, fruits, phase, waiting>>

(* The loop ends; eaten fruits are taken out of the array.                 *)
EndTick ==
    /\ phase = "tick" /\ i > Len(players)
    /\ fruits' = Keep(fruits, {f \in ToSet(fruits) : f.active})
    /\ phase' = "events"
    /\ UNCHANGED <<world, players, i, waiting, moved>>

UpdateStep == SkipPaused \/ Die \/ Wrap \/ Eat \/ Move

(* The bound has been reached, or nobody is left and nobody will come.     *)
Finished ==
    /\ phase = "events"
    /\ \/ players = <<>> /\ waiting = {}
       \/ \E k \in DOMAIN players : players[k].score >= MaxScore
    /\ UNCHANGED vars

Next ==
    \/ \E id \in Ids :
         \/ Join(id) \/ Leave(id)
         \/ \E d \in Dirs : Turn(id, d)
         \/ id \in Pausing /\ \E b \in BOOLEAN : SetPaused(id, b)
    \/ PlaceObstacle \/ StopPlacing \/ StartGame
    \/ StartTick \/ UpdateStep \/ EndTick
    \/ Finished

Spec == Init /\ [][Next]_vars

-----------------------------------------------------------------------------
TypeOK ==
    /\ \A k \in DOMAIN players :
         /\ players[k].id \in Ids /\ players[k].body \in Seq(Board)
         /\ players[k].dir \in Dirs /\ players[k].next \in Dirs
         /\ players[k].paused \in BOOLEAN /\ players[k].score \in 0 .. MaxScore
    /\ \A k \in DOMAIN fruits :
         fruits[k].pos \in Board \ obstacles /\ fruits[k].active \in BOOLEAN
    /\ obstacles \subseteq Board /\ toPlace \in 0 .. MaxObstacles
    /\ phase \in {"world", "events", "tick"} /\ i \in Nat \ {0}
    /\ waiting \subseteq Ids /\ moved \subseteq Ids

(* The cells one step away from a cell, on a board with walls.             *)
Around(c) == {<<c[1] + Delta[d][1], c[2] + Delta[d][2]>> : d \in Dirs}

(* The cells of a set that can be reached from one of them inside the set. *)
Reachable(from, cells) ==
    LET reach[n \in 0 .. Cardinality(cells)] ==
            IF n = 0 THEN {from}
            ELSE LET r == reach[n - 1] IN r \cup (cells \cap UNION {Around(c) : c \in r})
    IN  reach[Cardinality(cells)]

(* Wherever the obstacles fall: the loops that look for a place for a      *)
(* snake or a fruit find one, every free cell can be reached from every    *)
(* other, and a cell that may hold a fruit has a way in and another out,   *)
(* since snakes cannot turn back.                                          *)
WorldPlayable ==
    phase # "world" /\ players = <<>> =>
        /\ SpawnBodies # {}
        /\ \A c \in FruitCells(<<>>) :
              /\ FruitCells(<<[body |-> <<c>>]>>) # {}
              /\ Cardinality(Around(c) \ obstacles) > 1
        /\ LET free == Board \ obstacles
           IN  \E c \in free : Reachable(c, free) = free

(* A moved player where its head belongs: in easy mode, on the other side  *)
(* of a border it has crossed.                                             *)
Landed(p) == IF EasyMode THEN Wrapped(p) ELSE p

(* However many keys arrive between two ticks, no move takes a head back   *)
(* onto its own neck.  It is said of the move, before collisions are       *)
(* looked for: a snake that turned back would die of it in the same step   *)
(* and be gone, unless it was across the border.                           *)
NeverReverses == [][Turns => Head1(Landed(Moved[i])) # players[i].body[2]]_vars

(* Two neighbouring cells, across the border too in easy mode.             *)
Near(a, b) ==
    \E d \in Dirs :
       LET c == <<a[1] + Delta[d][1], a[2] + Delta[d][2]>>
       IN  b = IF EasyMode THEN <<c[1] % Width, c[2] % Height>> ELSE c

(* A snake is one piece: each segment is next to the one before it, except *)
(* that the last two share a cell right after growing.                     *)
InOnePiece ==
    \A k \in DOMAIN players :
       LET b == players[k].body
       IN  \A s \in 1 .. Len(b) - 1 :
              Near(b[s], b[s + 1]) \/ (s = Len(b) - 1 /\ b[s] = b[s + 1])

(* The score counts the segments grown.                                    *)
ScoreIsGrowth == \A k \in DOMAIN players : Len(players[k].body) = InitialLength + players[k].score

(* Every player that has ever joined has left its fruit behind: between    *)
(* ticks the board holds that many, none of them eaten.                    *)
FruitPerJoin ==
    /\ Cardinality({k \in DOMAIN fruits : fruits[k].active}) = Joined
    /\ phase = "events" => \A k \in DOMAIN fruits : fruits[k].active

(* The pairs of players whose snakes share a cell.                         *)
Overlaps ==
    {pair \in (DOMAIN players) \X (DOMAIN players) :
        pair[1] # pair[2] /\ Cells(players[pair[1]]) \cap Cells(players[pair[2]]) # {}}

OverlapIds == {{players[pair[1]].id, players[pair[2]].id} : pair \in Overlaps}

(* With walls, no tick ever puts one living snake on another, whatever the *)
(* order the players are updated in: only a new player can be put on one.  *)
TicksKeepSnakesApart == [][phase = "tick" => OverlapIds' \subseteq OverlapIds]_vars

-----------------------------------------------------------------------------
(* "update each player's snake position" (game.c:351): every living player *)
(* that is not paused moves in every tick.                                 *)
EveryPlayerMoves ==
    phase = "tick" /\ i > Len(players) =>
        \A k \in DOMAIN players : players[k].paused \/ players[k].id \in moved

(* "away from walls/obstacles" (game.c:223): a new snake that goes on the  *)
(* way it is put has a free cell before it.                                *)
SpawnsAwayFromWalls ==
    [][\A id \in Ids : Join(id) =>
          ~OffBoard(MovePlayer(Last(players')))
          /\ Head1(MovePlayer(Last(players'))) \notin obstacles]_vars
=============================================================================

# Serpent: TLA+ models, model checking and proofs

Serpent is a terminal snake game for several players: a client process per
player and one server process, written in C, talking over a Unix domain socket.
The models here are translated from the C sources; file and line references
are to the repository.

## The system

| Component | State | Operations | Interacts by |
|---|---|---|---|
| Event and action queues (`server/events.c`) | array, count, mutex, `not_full` | enqueue (blocks when full), dequeue (never blocks) | shared by all server threads |
| Client message queue (`client/input.c`) | the same | `enqueue_msg`, `dequeue_msg` | receiving thread to main thread of the client |
| Client key queue (`client/input.c`) | 16 keys, mutex | enqueue (drops when full), dequeue, flush | keyboard thread to main thread |
| Accept thread (`server.c`, `main.c`) | listening socket, `accepting` | accept, start a receiving thread, register | registry, shared thread arguments |
| Receiving threads (`server.c`) | one descriptor each | announce, poll, receive, translate, stop | event queue |
| Worker (`server.c`) | none of its own | sends, unregistering, starting waits | action queue, registry, sockets |
| Waiting threads (`server.c`) | a duration | sleep, then one event | event queue |
| Client registry (`registry.c`) | descriptor and thread per client | register, remove (close, join), destroy | accept thread, worker, main |
| Game loop (`game.c`) | players, end-wait flag, timer | wait for the first player, tick, drain, end | both queues, registry at the end |
| Board (`game.c`, `physics.c`) | snakes, fruits, obstacles | move, collide, wrap, eat, grow, place | main thread only |
| Wire protocol (`protocol.c`) | a byte stream | header + payload, both ways | sockets |
| Client main loop (`client.c`, `callbacks.c`, `menu.c`) | mode, menu stack, text prompt, socket, server pid | keys, menu buttons, texts, server messages, spawning and reaping servers | its two queues, sockets, child processes |
| Client threads (`input.c`, `client.c`) | none of their own | read a key; poll and read a message | the queues, `socket_fd` and `running`, shared with main without a lock |
| Rendering, timers, logging | | | |

What is hard here: nothing identifies a player but its descriptor number, which
the kernel reuses; departures are announced twice; timers are detached threads
that cannot be cancelled; three kinds of threads block on each other through
two bounded queues and `pthread_join`; shutdown runs while connections still
arrive; two threads write to the same socket; a loop removes elements of the
array it walks; a client that stops reading makes `send` block in the worker or
under the registry's lock. In the client, three threads share a descriptor
number that one of them closes and opens; messages of a former server are still
queued when the next one is joined; menus, mode and prompt are changed by keys,
by messages and by the end of a child process. `PROJECT.json` lists each hazard with its line.

What makes each part correct: queues neither lose, duplicate nor reorder items,
never overflow and never lose a wakeup; the registry knows exactly the open
descriptors; a disconnection touches only its own client; pauses and end waits
have exactly the wake-ups they need; a client sees READY, then states, then
GAME_OVER; the server ends when it should and not before; snakes move once a
tick, stay in one piece and do not overlap; obstacles leave every cell within
reach; frames arrive whole and mean what they meant to the sender; the client's
menus fit its mode, its descriptor is that of its last connection, what it shows
as paused is paused, and it can be left.

## Modules

| Module | Models | Runs |
|---|---|---|
| `FifoQueue` | what a queue promises: an atomic bounded channel | (as a property of `queue`) |
| `BoundedQueue` | `enqueue_*` and `dequeue_*` step by step | `queue` |
| `BoundedQueueProofs` | theorems about `BoundedQueue` | |
| `Selection` | closing the gaps in an array some of whose elements go | (used by `BoundedQueue`, `Server`, `Game`) |
| `SelectionProofs` | lemmas about `Selection` and `Players`, and the induction they rest on | |
| `Players` | the players array: lookup, join, leave, pause, resume | (used by `Server`, `Game`) |
| `Server` | all threads of the server and its clients' sockets | `server_*`, twelve `v_*` |
| `Session` | what the server promises to say to one client | (`KeepsItsWord` of `server_multi`) |
| `ServerProofs` | theorems about `Server`, its refinement of `Session` among them | |
| `Game` | `game_init` with its obstacles, `game_update` and `physics.c` | `game_*`, `v_every_moves`, `v_spawn` |
| `SnakeProofs`, `GameProofs`, `BoardProofs` | lemmas about one snake; theorems about `Game`, about the board with its obstacles | |
| `Framing` | `send_message` and `recv_message` over a stream | `framing`, `v_framing` |
| `Wire` | `Framing` composed with the payloads of `send_state` and `msg_to_state` | `framing`, `v_framing` |
| `FramingProofs` | theorems about `Framing` and `Wire` | |
| `Client` | the client: main loop, menus, keyboard and receiving thread, spawning | `client`, `client_live`, `v_keyboard`, `v_zombie`, `v_wrong_server`, `v_stale_ready` |
| `ClientProofs` | theorems about `Client` | |
| `MCBoundedQueue`, `MCServer`, `MCGame`, `MCFraming`, `MCClient` | instances for TLC | |

**BoundedQueue.** `queue` is the array, `owner` the mutex, `pc[p]` a producer's
place in `enqueue_event`: outside, at the lock, in the loop, asleep, woken.
What is done under the mutex up to its release is one step. `cpc` is the same
for the only consumer. `next` and `out` number the items and record what came
out. A signal wakes any one sleeper; spurious wakeups are allowed.

**Server.** `mainPc` walks through `main` and `game_run`; actions main is about
to enqueue are in `todo`, since `enqueue_action` may block in the middle of a
handler; nothing else of main happens until `todo` is empty. `recv[c]` is the
thread created for connection `c`; its `fd` is what it read from the shared
arguments, which need not be `c`'s. `fdTable` is the kernel's descriptor table:
`accept` gives out the lowest free number, `close` frees it. Every handler of
`handle_event`, `exec_action` and `msg_to_event` is a disjunct. Clients connect,
play, pause, resume, leave and die whenever their own state allows; those in
`Stalling` may also stop reading, after which every `send` to them blocks: the
worker's, with the action queue filling behind it, or main's in a broadcast,
which holds the registry's lock. The command line is a variable (`args`), so
that one run covers several kinds of game.
Two variables of the server are not in the code: `revived` records that a
player came during an end wait, and events and players carry the connection
they come from (`src`, `conn`); only properties read them.

**Game.** One step per iteration of `game_update`'s loop. `rand()` is a choice
among the cells it can produce. `moved` is not in the code. Obstacles are placed
one by one before the first event.

**Framing.** A byte is named by its sender, message and place, so a frame put
together from two messages shows. `Wire` looks such a byte up in the payload its
message was given, one unit per `uint32_t`, and parses what was received.

**Client.** `mode`, `menus`, `text`, `fd`, `pid` and `ctxRunning` are the
`ClientContext`. A handler maps a context record to the set of contexts it may
leave behind, so that `Press`, `Submit`, `HandleKey` and `HandleMsg` read like
the callbacks; `MainKey`, `MainMsg` and `MainTurns` apply them. `recv` is the
receiving thread between its reads of `*socket_fd`, `poll`, `recv` and
`enqueue_msg`. `sockets` is the descriptor table, `conn[k]` the k-th connection
with what both ends know of it. A queue of keys is a count: which key it is, is
chosen when main takes it, as is the type of a message when the thread reads it.
Pausing counts as told when the message is sent, to a server that has closed
as well. Servers are what `src/server` lets a client see: they send states only
after a READY and anything else at any time, and close or exit whenever they
like, which is what `Server` lets a connection hear. READY may come twice, since
`Server` has behaviours in which two receiving threads announce the same
connection.

**Coarse steps.** `remove_client` unlocks the registry and then closes the
descriptor, one step in `Server`: the client is in no entry any more and its
number is not free yet, so whatever others do in between they could as well do
before. A receiving thread's `poll` and `recv_message` are one step as well.
That leaves out a thread that finds data, loses the descriptor to `remove_client`
and waits in `recv` for the next client to get that number, which the worker,
joining the thread, would wait for too. In `Framing` a stream that ends in the
middle of a frame (`recv_all` returns -1) is one at whose end the receiver closes.

## Runs and what they show

Passing runs:

| Run | Shows | Bounds, and why they are enough |
|---|---|---|
| `queue` | nothing lost, duplicated, reordered or overrun, no lost wakeup; every producer gets its items in; `FifoQueue` implemented | three producers, capacity 2, two items each: sleepers and newcomers compete for one slot with another sleeper behind them, every shape of contention the loop tells apart; the theorems cover all other sizes |
| `server_multi` | descriptors, registry, end wait, READY before states, none after GAME_OVER, threads joined; what is asked for about each client is a session of `Session` | two connections without inputs: one descriptor is closed and given to the other, a slow thread serves the other's; ends and joins cross; symmetric in the connections. An action queue of one: main still runs ahead by what it holds, by the worker's present request and by a handler's own, and every disagreement found with two connections (`v_identity`, `v_state_after_over`, `v_own_client`, `v_joins_all`, `v_game_over_all`, `v_end_wait`) is found with it; with two it passes too (1.9 million states, up to five minutes) |
| `server_one` | pauses have their wake-up, requests are kept, the server ends, a timed one although its client stays | one connection, three messages, in all four kinds of game (timed or not, for one player or open); the client may stop reading, which `TimedGameEnds` allows to keep the server (`v_stall`) |
| `client` | menus fit the mode, no menu is pushed twice, `socket_fd` is the newest connection and open, a paused screen is a paused player | two connections, so that one can be closed, overwritten or outlived by its messages; one spawned server; two messages in all; a queue that does not fill |
| `client_live` | Exit Game completes, the spawner notices the end of its server | two connections, so that `socket_fd` may be another by the time the receiving thread reads it again; one server, one message |
| `game_walls` | fruits, no overlap made by a tick | two snakes on five by three cells with an obstacle, one point: the three inner cells hold fruits and the snakes meet head to head, head to body and head to tail; symmetric in the players |
| `game_easy` | no move back onto the neck, one piece, as long as the score says | one snake wrapping on five by four, pausing, two points, which may be made on consecutive ticks |
| `game_world` | a board that can be played whatever the obstacles | all placements of one to five obstacles on five by five cells: corners, edges and rows of three are all there |
| `framing` | frames and states as sent, by one sender | READY, two states (of 18 and 34 words) and GAME_OVER, a header of two units, a buffer of five, every cut of the stream; `WordRange` 32 in place of 2^32 with values on both sides of the sign |

Runs that show a disagreement. Each checks what a comment or the repository's
README says of the code, and TLC finds it violated (`findings` in
`PROJECT.json` tells each at length):

| Run | Quoted | What the code does |
|---|---|---|
| `v_identity` | "acts as unique identifier for client" (`registry.h:7`) | a second disconnection of one client removes the player of the next owner of its descriptor |
| `v_every_moves` | "update each player's snake position" (`game.c:351`) | a death costs the next player of the array its move |
| `v_keyboard` | "It runs until the shared running flag becomes false" (`client.c:817`) | `getchar` blocks: after Exit Game the client stays until one more key is typed |

### Further configurations

Run these by hand (`tlc -config X.cfg MCServer`; `MCGame` for `v_spawn`,
`MCFraming` for `v_framing`, `MCClient` for `v_zombie`, `v_wrong_server` and
`v_stale_ready`); each is violated as well.

| Configuration | Property | Quoted | What the code does |
|---|---|---|---|
| `v_game_over_all` | `GameOverToAll` | "so we are sure all clients get it" (`game.c:101`) | the first failing send ends the broadcast |
| `v_joins_all` | `JoinsAllClientThreads` | "joins all client threads" (`main.c:140`) | a client accepted during shutdown leaves a thread nobody joins |
| `v_state_after_over` | `OverIsTheEnd` | "server notifies client of game over (or some sort of correct ending)" (`protocol.h:15`) | two threads that read the same descriptor make two players of one id; GAME_OVER for the first is followed by states of the second |
| `v_framing` | `FramesAsSent` | "To ensure correct message framing" (`README.md:112`) | two threads mix header and payload on one socket |
| `v_stall` | `TicksGoOn` | "the server to be non-blocking" (`README.md:64`) | one client that reads no more blocks the worker in `send`; the action queue fills and main stops for all players |
| `v_zombie` | `ChildrenReapable` | "reaping server process if exited so we do not create zombies" (`client.c:42`) | a second spawn overwrites the pid of a server that still runs |
| `v_wrong_server` | `ClosesOwnServer` | "server is gone" (`client.c:259`) | the end of the spawned server closes the connection to another one joined since |
| `v_stale_ready` | `PlaysConnected` | (no claim; a game without a server is never meant) | a READY still queued when its server was left puts a client without a connection into the game |
| `v_own_client` | `ServesItsClient` | "avoids common issues such as race conditions" (`README.md:65`) | a slow receiving thread reads the descriptor of the next connection, which then hears READY twice |
| `v_circular_wait` | `NoCircularWait` | "the server to be non-blocking" (`README.md:64`) | main, worker and a receiving thread wait for each other when both queues are full (two entries in place of 1024; no deadlock check, which is what the property is about) |
| `v_full_exit` | `DestroyUnblocked` | "joins all client threads" (`main.c:140`) | after the last drain nobody empties the event queue; a receiving thread that waits for room is joined for ever (two entries in place of 1024; no deadlock check, as above) |
| `v_over_lost` | `GameOverHeard` | "so we are sure all clients get it (its blocking)" (`game.c:101`) | the client looks at the hangup before the unread message |
| `v_first_accept` | `FirstAcceptEnds` | "with a 10-second timeout" (`README.md:69`) | the first accept has no timeout |
| `v_end_wait` | `EndWaitFull` | "game over after 10 sec when last player left" (`main.c:28`) | a wait from an earlier departure ends the game |
| `v_resume_wait` | `ResumeWaitFull` | "resume game  player is paused for 3 seconds" (`server.c:147`) | an earlier wake-up ends a later wait |
| `v_spawn` | `SpawnsAwayFromWalls` | "away from walls/obstacles" (`game.c:223`) | a new snake may face the wall |

`v_framing` does not check for deadlock, since mixed-up frames can leave the
reader waiting, nor do the runs of `Client`, which really stops when its user
and its servers do nothing more. All other passing runs do: `Terminated` and
`Finished` name the only states in which nothing more may happen.

**Bounds in the models.** `Quota` (items per producer), `MaxSent` (messages per
client before LEAVE), `MaxScore` and `Pausing` (no tick starts once a player has
`MaxScore` points; only players in `Pausing` pause), `MaxObstacles` and `Sites`
(how many obstacles, and where), `Stalling` (clients that may stop reading),
`MaxConns`, `MaxSpawns` and `MaxSaid` (what a client opens and spawns, and what
servers say to it in all), the sizes of queues, boards and buffers. A client
makes one connection; a new one is another element of `Conn`. Queue capacities
in the passing runs of `Server` are above what can be in flight, except for the
action queue, which fills.

**Fairness.** Threads are scheduled (weak fairness of each thread's steps).
In `BoundedQueue` getting the mutex is strongly fair: its holders never block and
the consumer sleeps between drains (`game.c` a frame, `server.c` 100 ms), so it
is free again and again. Sleeping threads wake (`sleep` returns). A timed
game's timer stays expired, hence strong fairness of leaving the loop (`TimesUp`).
Nothing is assumed of clients. In `Client` main and the receiving thread are
scheduled; keys come slower than main's loop turns, hence strong fairness of
leaving the key loop; a server says something or closes (it sends a state
every tick), without which a `recv` on a connection opened since the poll would
not return. `FairSpec` also lets the user go on pressing keys, which
`ExitCompletes` needs and `v_keyboard` goes without. `ExitCompletes` is checked
with a message queue that holds all that servers say: main joins the receiving
thread without emptying the queue any more, so 1024 messages read after its last
drain would block it; the thread stops at the flag long before.

## What is proved

With the assumptions on the constants that each module names, and for every
value of the constants that meets them. All safety invariants of the runs are
theorems, and so are the action properties `TicksKeepSnakesApart` and
`NeverReverses` and the refinements `FifoSpec` and `KeepsItsWord`. Three theorems need a
hypothesis that TLC shows to be needed: one sender for the two about the stream, four rows for the board; one,
`StackStaysLow`, a capacity of six menus.

`BoundedQueueProofs`, for every number of producers, capacity and quota:

- `TypeCorrect`, `Exclusion`, `NoOverflow`: from the inductive invariant
  `BaseInv`, the conjunction of the type invariant, mutual exclusion, `Bounded`
  and `Submitting` (a producer inside has an item left). The type of `queue`
  needs `Submitting`; `Bounded` is kept by the test in the loop because the
  tester owns the mutex.
- `NoLostWakeupHolds`: while someone sleeps, free slots are not more than awake
  producers. A dequeue frees one slot and wakes one; storing takes a slot and a
  producer out of the count; a thread that goes to sleep does so when there is
  no free slot. The cardinality facts need the set of producers finite.
- `Delivery`: what is out followed by what is in the array, with the items of
  one producer picked out of it, is 1, 2, ... up to its last. It is inductive
  with `BaseInv`: a put appends to that sequence, a take moves a border inside
  it, and `KeepAppend` (of `SelectionProofs`) says what picking makes of either.
- `ImplementsFifo`: every step of the queue is a put, a take or a stutter of
  `FifoQueue`.

`ServerProofs`, for any number of connections, queue sizes, argument lists and
clients that hang. `WhoChanges` says which actions change each variable; a proof
about an invariant then splits on the actions that touch its variables.

- `ServerTypes`, from `TypeInv`. Besides the types it holds what each phase of a
  thread has in its record, and `PhaseInv` what each phase of shutdown has done
  (main asks for nothing once it stops, the worker ends after `running` falls
  and with nothing left). Everything else rests on these two; `NothingLost`
  follows from them at once.
- `NobodyThrownOut`, from `EmptyInv`: `end_game` implies an empty array. It is
  not enough that the event that set it found it empty, since others may be
  drained behind it: they overwrite the flag.
- `DescriptorsOwned`, from `OwnInv`, which adds to the property the connection
  that has been accepted and not been registered: its descriptor is open and in
  no entry. Without that, registering could make an entry twice.
- `ThreadsJoined`, from `ThreadInv`: a thread that runs is being registered, is
  being joined by the worker, or has an entry `registry_destroy` has yet to
  reach. That is why the swap in `remove_client` loses no thread.
- `OneEndWait`: requests, sleeping threads and events of an end wait add up to
  what the flag says. Each of the four steps of a wait moves one unit, and
  `Keep`'s lemmas say what that does to the count.
- `NobodyPausedForEver`, from `WakeInv`: of several players with one id, which
  two threads on one descriptor can make, only the first is ever paused, since
  the lookup of `EV_PAUSED` stops there. Waits are told apart by their id only;
  so none is owed to two players.
- `ReadyFirst` and `SilentAfterDeath`, from `FdsInv`: as long as one thread only
  has served descriptor `f` (`OneThreadOn`), its connection is announced once
  and before anything else is told of it; at most one player has that id; none
  has it while it is not announced or when its end has been asked for; between
  requests for `f` the order is READY, states, end; and `f` stays open for as
  long. `ServeInv` says that every player, end and event of `f` stems from a
  thread that has served it, which makes the second owner of a closed descriptor
  a second thread.

  `OneThreadOn` is part of both properties. Without it they are wrong, and TLC
  shows it: the accept thread overwrites the descriptor that a new thread has
  yet to read (`v_own_client`), two threads announce one connection, and the
  server keeps two players of one id. One of them dies and the other's states go
  on (`v_state_after_over`, two connections); one leaves, the descriptor is
  closed and reused, and what is left of the other is sent to the new owner
  before its READY (three connections).

- `ImplementsSession` and `WordKept`: the server implements `Session` for each
  of its clients. Each descriptor `f` has a mapping of its own, `Talk(f)`. The
  session's `pending` is what main has asked of the worker about `f`, in `aq` or
  in `todo`; its `stage` is "playing" while a player has the id `f`, "new"
  before the connection on `f` has been announced, "over" otherwise and once
  main is `Down`; it is `crossed` when two threads have read `f`, after which
  nothing is promised. Then the EV_CONNECTED of `handle_event` is `Welcome`, a
  broadcast `Show`, a death in `game_update` `Finish`, EV_DISCONNECTED `Part`,
  `exec_action` `Do`, the end of the game `GoDown`; every other step, and each of
  these about another client, is a stutter.

  Where the work lies: one handler may ask for things about several clients, so
  the lemmas say what `Keep` makes of what it appends (where the ids
  differ at most one request is about `f`: `KeepDistinct`, `KeepOne`). A
  player's connection is never unannounced (`PlayerNotNew`, from `FdsInv`), so
  what joins is new and what has gone does not become new again. And a crossed
  descriptor stays so: a thread that has not begun to read holds none
  (`Starting`), and no other step changes what a thread has read
  (`ServedStays`). `WordInv`, the conjunction of `TypeInv`, `PhaseInv`,
  `FdsInv` and `Starting`, carries all of it; `Starting` is in `FdsInv` as well,
  but only until the registry is destroyed, and the session goes on for longer.

  `KeepsItsWord` says `\A f \in Fd : Talk(f)!SessionSpec` in one action formula,
  the form TLC can check: it skips the steps that leave `talkVars` alone, of
  which the mapping is made. `UpdateUntold`, a server that forgets to tell who
  has died, keeps every invariant about orders and breaks it.

`GameProofs`, on `SnakeProofs`, for every board that holds a snake, any players,
obstacles and bound of the score:

- `GameTypes`, `GrowthCounted`, `NeverBack`, `OnePiece`, `FruitForEveryJoin`:
  from the inductive invariant `GameInv`. `Snake(p)` says that the head is one
  step in direction `dir` from the neck; with `next` not opposite to `dir` the
  next move cannot go back (`NotToTheNeck`), which is why comparing with the
  direction last moved in is right and with the one last asked for would not be.
  `NeverReverses` is an action property, about where a move takes the head
  before collisions are looked for: a snake that turned back inside the board
  would be removed in the same step. `Linked` allows the
  two last segments on one cell, and only them: growing copies the tail, and a
  snake that eats on consecutive ticks has moved the copy apart before it is
  copied again. `FruitsInv` counts active fruits against joins, so that eaten
  ones may stay in the array until the tick ends, and after it all are active.
- `SnakesApart`, an action property: no iteration of `game_update` makes two
  players overlap that did not before. It is stated for `~EasyMode`: with
  wrapping, the collision is looked for before the head is put on the other
  side, and a snake may come in on another's body.

`BoardProofs`, for every board of at least four rows (the code has 40; three
leave one row for fruits, and TLC finds it without room for one):

- `AlwaysPlayable`: `has_neighbor` keeps any two obstacles from touching, even
  at a corner; with their being on the board, that is the inductive invariant
  (`BoardInv`), and the rest follows from it. Of two cells that touch one is
  free, which makes room for snakes and fruits and leaves two ways out of a
  fruit's cell. The cells around an obstacle are free, so there is a way round
  it, along a border too (`RoundCorner`, `RoundObstacle`); hence a set of free
  cells closed under steps spreads over the board as if there were no obstacles
  (`ReachedSpreads`), first along a row, then along every column. `Reachable`,
  defined as the result of `Cardinality(cells)` rounds of widening, is shown to
  be such a set (`ReachableValue`): a round that adds nothing comes in time.

`FramingProofs`, for any payloads, sizes of header and of the receiver's buffer:

- `FramingTypes`: for any number of senders.
- `OneSenderFrames`: with one sender every frame received is the one sent in
  its place. `OneInv` says that the stream is a stretch of what the sender sends
  without gap or repetition, from the byte `recv_message` needs next to the one
  that is sent next; that what has been read is the beginning of the present
  message; and that the length believed is that message's. With two senders it
  is false (`v_framing`), so `Senders = {s}` is a hypothesis.
- `OneSenderStates`: from `OneSenderFrames`, and from what `msg_to_state` makes of
  the words of `send_state`. The buffer is a `FlattenSeq` of the parts of the
  state; the lemmas say where each part begins (the lengths of those before it
  added up), that a slice at that place is the part, and so that each counted
  loop of the reader ends where the writer's did. A signed field comes back
  from its word modulo `WordRange`.

`ClientProofs`, for any number of connections, spawned servers and messages and
any capacity of the queues:

- `NewestConnection`, `PauseIsTold`, `ScreenFits`: from the inductive invariant
  `Consistent(Ctx)`, the conjunction of the types (`Contexts`), `Wired`, `Told`
  and `Shown`. `Wired` adds to `SocketFdIsNewest` what connecting needs:
  connections are opened in order, and a `recv` at work, which outlives a
  disconnection, is on one that was opened. `Shown` adds that no text is
  prompted for beside the pause menu: a text would connect, and the new
  connection was never told of the pause. The invariant is stated about a
  context record, so that each handler has a lemma (`PressKeeps`,
  `SubmitKeeps`, `HandleKeyKeeps`, `HandleMsgKeeps`, ...) that says it leads
  from consistent contexts to consistent ones; `BecomesKeeps` carries that over
  to the steps of main, and `WorldKeeps` covers the steps of everybody else,
  which leave the context alone.
- `TypeCorrect`: from the same invariant and `Threads`, the types of the queues
  and the two threads.
- `StackStaysLow`: menus have ranks, those that are only shown alone the lowest,
  and are pushed on lower ones only, so that there are at most five, all
  different. `Stack` adds what a prompt needs: while a time or a file is asked
  for, a message may replace the menus, but the menu the text leads to still
  goes on top of lower ones. The hypothesis is `MenuStackMax > 5`;
  `MENU_STACK_MAX` is 12.

The library's induction theorems take an operator as a parameter, which the
provers here cannot instantiate. What the proofs need of induction is had from
least elements (`LeastNat` and `Induct` in `SelectionProofs`). `SelectSeq` is a
recursive definition that cannot be expanded in a proof, hence `Keep` in its
place, a function on prefixes.

Folds over sequences (`FlattenSeq`) are recursive in the library as well: what
`StatesAsSent` needs of them is had from the function each is defined by, which
exists (`RecursionExists`) and is worked out by the same induction.

Only model-checked: `AllDelivered`, `EndsWithoutClients`, `TimedGameEnds`,
`ExitCompletes` and `SpawnerNotices`, being liveness. `FramesAsSent` and
`StatesAsSent` are false with several senders (`v_framing`), `WorldPlayable` on
three rows, and `StateAfterReady` and `NoStateAfterDeath` without `OneThreadOn`.

## Plan

1. Done: `FifoQueue` and `BoundedQueue`, `Players`, `Server` with sends that
   block, `Game` with the placement of obstacles, `Framing` and `Wire`,
   `Client`; proofs of all their safety properties.
2. Left to model: two connections with inputs in one run of `Server` (beyond
   the reach of a five-minute run so far); `Session`, which `Server`
   implements, assumed by `Client` in place of the guards in `RecvMessage`;
   payloads of MSG_INPUT and MSG_ERROR.
3. Left to prove: no safety property that a run checks; liveness is out of the
   provers' reach.

## Not modelled

Rendering, terminal settings, logging, clock arithmetic and the build; failing
allocations, thread creations and polls; payloads of MSG_INPUT and MSG_ERROR;
events and actions the program never produces (`ACT_LOAD_WORLD`, `EV_LOADED`,
`EV_ERROR`, `ACT_SEND_ERROR`). A world from a file is placed at random by the code as well
(`game_spawn_obstacles_from_file`), so the model has no file. In `Client`, the
contents of a state, the selected menu entry and the letters of a text: no
property is about them.

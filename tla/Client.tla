-------------------------------- MODULE Client --------------------------------
(***************************************************************************)
(* The client process (client/): the main thread with its menus, its state *)
(* machine and the two queues it drains (client.c, callbacks.c, menu.c),   *)
(* the keyboard thread (input.c), the receiving thread (client.c           *)
(* recv_server_thread), spawning and reaping servers, and the way out of   *)
(* main.c.                                                                 *)
(*                                                                         *)
(* Servers are shown by what module Server lets a connection hear: a       *)
(* STATE only after a READY, anything else at any time, and then its end.  *)
(* There may be several READYs: a receiving thread of the server that      *)
(* takes the next connection for its own announces it again.  A message is *)
(* read whole (Framing looks inside).                                      *)
(*                                                                         *)
(* Abstracted: moving the selection (ENTER presses any button of the menu),*)
(* what is typed (a text is accepted or not), the game's settings, the     *)
(* contents of a state, and rendering.  Which key a queued key is, and     *)
(* which message an unread message is, is chosen when it is taken out.     *)
(***************************************************************************)
EXTENDS Naturals, Sequences, SequencesExt

CONSTANTS MaxConns,     \* sockets the client opens (a bound)
          MaxSpawns,    \* servers it spawns (a bound)
          MaxSaid,      \* messages the servers send in all (a bound)
          MaxKeys,      \* MAX_KEY_EVENTS
          MaxMessages,  \* MAX_MESSAGES
          MenuStackMax  \* MENU_STACK_MAX

ASSUME ClientAssumption ==
    /\ {MaxConns, MaxSpawns, MaxSaid} \subseteq Nat
    /\ {MaxKeys, MaxMessages, MenuStackMax} \subseteq Nat \ {0}

Conns   == 1 .. MaxConns          \* in the order they are opened
Fds     == 1 .. MaxConns          \* never exhausted
Spawned == 1 .. MaxSpawns         \* the servers of this client
Foreign == 0                      \* a server that somebody else has spawned
None    == 0                      \* -1 as a descriptor or pid; no connection

Keys     == {"move", "pause", "esc", "quit", "enter"}
MsgTypes == {"ready", "state", "over", "error"}
Modes    == {"menu", "playing", "paused", "over"}

(* The menus and their buttons (init_*_menu).                              *)
Buttons ==
    [main    |-> {"new_game", "join", "exit_game"},
     mode    |-> {"standard", "timed", "back"},
     world   |-> {"easy", "hard", "back"},
     load    |-> {"random", "file", "back"},
     player  |-> {"single", "multi", "back"},
     pause   |-> {"resume", "main_menu"},
     over    |-> {"new_game", "main_menu", "exit_game"},
     waiting |-> {"cancel"},
     error   |-> {"main_menu"}]

VARIABLES
    mode, menus, text, fd, pid, ctxRunning, \* ClientContext; text: the callback
                  \* that awaits a text, "none" in INPUT_KEY; fd: socket_fd
    mainPc,       \* where client_run and main are
    running,      \* main's flag for the two other threads
    keys, msgs,   \* ClientInputQueue, ServerInputQueue
    input,        \* the keyboard thread
    recv,         \* recv_server_thread: where it is, its pfd.fd, the connection
                  \* recv() is at work on, the message about to be queued
    sockets,      \* sockets[f]: the connection descriptor f stands for
    conn,         \* conn[k]: its server, whether that has it open, its unread
                  \* messages, whether READY was among those read, and whether
                  \* the client's last word there is PAUSE
    said,         \* messages the servers have sent, for the bound
    srv           \* srv[s]: a spawned server, "reaped" once waitpid returns it

ctxVars    == <<mode, menus, text, fd, pid, ctxRunning>>
mainVars   == <<mainPc, running>>
queueVars  == <<keys, msgs>>
threadVars == <<input, recv>>
worldVars  == <<sockets, conn, said, srv>>
vars == <<ctxVars, mainVars, queueVars, threadVars, worldVars>>

Unopened == [server |-> Foreign, opened |-> FALSE, up |-> FALSE, unread |-> 0,
              ready |-> FALSE, paused |-> FALSE]
Gone     == [Unopened EXCEPT !.opened = TRUE]
AtLoop   == [pc |-> "loop", fd |-> None, conn |-> None, msg |-> "none"]

Init ==
    /\ mode = "menu" /\ menus = <<"main">> /\ text = "none"
    /\ fd = None /\ pid = None /\ ctxRunning = TRUE
    /\ mainPc = "keys" /\ running = TRUE
    /\ keys = 0 /\ msgs = <<>>
    /\ input = "getchar" /\ recv = AtLoop
    /\ sockets = [f \in Fds |-> None] /\ conn = [k \in Conns |-> Unopened]
    /\ said = 0 /\ srv = [s \in Spawned |-> "unborn"]

Alive == mainPc # "done"

-----------------------------------------------------------------------------
(* Servers, by what a client sees of them (exec_action, remove_client).    *)

ServerOnly == UNCHANGED <<ctxVars, mainVars, queueVars, threadVars, sockets>>

ServerSays(k) ==
    /\ conn[k].up /\ said < MaxSaid
    /\ conn' = [conn EXCEPT ![k].unread = @ + 1] /\ said' = said + 1
    /\ ServerOnly /\ UNCHANGED srv

ServerCloses(k) ==
    /\ conn[k].up
    /\ conn' = [conn EXCEPT ![k].up = FALSE]
    /\ ServerOnly /\ UNCHANGED <<srv, said>>

ServerExits(s) ==
    /\ srv[s] = "running"
    /\ srv' = [srv EXCEPT ![s] = "exited"]
    /\ conn' = [k \in Conns |-> IF conn[k].server = s THEN [conn[k] EXCEPT !.up = FALSE]
                                ELSE conn[k]]
    /\ ServerOnly /\ UNCHANGED said

ServerStep(k) == ServerSays(k) \/ ServerCloses(k)

-----------------------------------------------------------------------------
(* The keyboard thread (read_keyboard_input, enqueue_key).                 *)

\* Mutant: a full queue is not looked at.
EnqueueKeyUnbounded == keys' = keys + 1

(* A key that finds the queue full is dropped.                             *)
EnqueueKey == keys' = IF keys < MaxKeys THEN keys + 1 ELSE keys

(* getchar() blocks; running is tested only after a key.  The end of the   *)
(* input ends the thread.                                                  *)
TypeKey ==
    /\ input = "getchar" /\ Alive
    /\ EnqueueKey
    /\ input' = IF running THEN "getchar" ELSE "done"
    /\ UNCHANGED <<ctxVars, mainVars, msgs, recv, worldVars>>

EndOfInput ==
    /\ input = "getchar" /\ Alive
    /\ input' = "done"
    /\ UNCHANGED <<ctxVars, mainVars, queueVars, recv, worldVars>>

-----------------------------------------------------------------------------
(* recv_server_thread.                                                     *)

RecvOnly == UNCHANGED <<ctxVars, mainVars, keys, input, sockets, said, srv>>

\* Mutant: without a socket it goes back to sleep before it looks at running.
RecvLoopAsleep ==
    /\ recv.pc = "loop" /\ Alive
    /\ fd # None
    /\ recv' = IF running THEN [AtLoop EXCEPT !.pc = "poll", !.fd = fd]
               ELSE [AtLoop EXCEPT !.pc = "done"]
    /\ RecvOnly /\ UNCHANGED <<msgs, conn>>

(* The test of running, and pfd.fd = *socket_fd; without a socket it sleeps*)
(* and comes back.                                                         *)
RecvLoop ==
    /\ recv.pc = "loop" /\ Alive
    /\ ~running \/ fd # None
    /\ recv' = IF running THEN [AtLoop EXCEPT !.pc = "poll", !.fd = fd]
               ELSE [AtLoop EXCEPT !.pc = "done"]
    /\ RecvOnly /\ UNCHANGED <<msgs, conn>>

(* poll: POLLNVAL, POLLHUP (looked at before POLLIN) or a timeout lead     *)
(* back to the loop, POLLIN to recv_message.                               *)
RecvPoll ==
    /\ recv.pc = "poll" /\ Alive
    /\ LET k == sockets[recv.fd]
           readable == k # None /\ conn[k].up /\ conn[k].unread > 0
       IN  recv' = IF readable THEN [AtLoop EXCEPT !.pc = "recv"] ELSE AtLoop
    /\ RecvOnly /\ UNCHANGED <<msgs, conn>>

(* The descriptor is read again for recv_message.                          *)
RecvEnter ==
    /\ recv.pc = "recv" /\ recv.conn = None /\ Alive
    /\ recv' = IF fd = None THEN AtLoop ELSE [recv EXCEPT !.conn = sockets[fd]]
    /\ RecvOnly /\ UNCHANGED <<msgs, conn>>

ReadFrom(c, m) == [c EXCEPT !.unread = @ - 1, !.ready = @ \/ m = "ready"]

(* If the descriptor was closed meanwhile, recv() was its last user.       *)
AfterRecv(k, c) == IF \E f \in Fds : sockets[f] = k THEN c ELSE Gone

(* A message has come, or the connection has ended without one.            *)
RecvMessage ==
    /\ recv.pc = "recv" /\ recv.conn # None /\ Alive
    /\ LET k == recv.conn
       IN  \/ \E m \in MsgTypes :
              /\ conn[k].unread > 0
              /\ m = "state" => conn[k].ready
              /\ conn' = [conn EXCEPT ![k] = AfterRecv(k, ReadFrom(@, m))]
              /\ recv' = [AtLoop EXCEPT !.pc = "post", !.msg = m]
           \/ /\ conn[k].unread = 0 /\ ~conn[k].up
              /\ conn' = [conn EXCEPT ![k] = AfterRecv(k, @)]
              /\ recv' = AtLoop
    /\ RecvOnly /\ UNCHANGED msgs

(* enqueue_msg waits for room, and does not look at running.               *)
RecvPost ==
    /\ recv.pc = "post" /\ Alive
    /\ Len(msgs) < MaxMessages
    /\ msgs' = Append(msgs, recv.msg)
    /\ recv' = AtLoop
    /\ RecvOnly /\ UNCHANGED conn

RecvStep == RecvLoop \/ RecvPoll \/ RecvEnter \/ RecvMessage \/ RecvPost

-----------------------------------------------------------------------------
(* What the main thread's handlers do to the context.  A context record c  *)
(* holds ctxVars, the sockets and the servers; each handler maps it to the *)
(* contexts it may leave behind.                                           *)

Ctx == [mode |-> mode, menus |-> menus, text |-> text, fd |-> fd, pid |-> pid,
        run |-> ctxRunning, sockets |-> sockets, conn |-> conn, srv |-> srv]

Becomes(c) ==
    /\ mode' = c.mode /\ menus' = c.menus /\ text' = c.text
    /\ fd' = c.fd /\ pid' = c.pid /\ ctxRunning' = c.run
    /\ sockets' = c.sockets /\ conn' = c.conn /\ srv' = c.srv

(* menu_push, menu_pop, clear_menus_stack followed by menu_push            *)
Push(c, menu) ==
    IF Len(c.menus) < MenuStackMax THEN [c EXCEPT !.menus = Append(@, menu)] ELSE c
Pop(c) == IF Len(c.menus) > 1 THEN [c EXCEPT !.menus = Front(@)] ELSE c
Show(c, menu) == Push([c EXCEPT !.menus = <<>>], menu)
ShowIn(m, c, menu) == Show([c EXCEPT !.mode = m], menu)

(* send_pause and send_resume; without a descriptor they fail, unnoticed.  *)
(* So they do when the server has closed: what it was told last then is of *)
(* no consequence, and counts as told.                                     *)
SaysPaused(c, b) ==
    IF c.fd = None THEN c ELSE [c EXCEPT !.conn[c.sockets[c.fd]].paused = b]

\* Mutant: socket_fd is not reset.
DisconnectKeepsFd(c) ==
    IF c.fd = None THEN c
    ELSE LET k == c.sockets[c.fd]
         IN  [c EXCEPT !.sockets[c.fd] = None,
                       !.conn[k] = IF recv.conn = k THEN @ ELSE Gone]

(* disconnect_from_server; a recv() at work keeps the connection.          *)
Disconnect(c) ==
    IF c.fd = None THEN c
    ELSE LET k == c.sockets[c.fd]
         IN  [c EXCEPT !.sockets[c.fd] = None, !.fd = None,
                       !.conn[k] = IF recv.conn = k THEN @ ELSE Gone]

(* connect_to_server: success, on the lowest free descriptor; whatever     *)
(* socket_fd held before is forgotten, not closed.                         *)
LowestFree(c) == {f \in Fds : c.sockets[f] = None /\ \A g \in 1 .. f - 1 : c.sockets[g] # None}
NextConn(c)   == {k \in Conns : ~c.conn[k].opened /\ \A j \in 1 .. k - 1 : c.conn[j].opened}
Opens(c, s, f, k) ==
    [c EXCEPT !.fd = f, !.sockets[f] = k,
              !.conn[k] = [Unopened EXCEPT !.server = s, !.opened = TRUE, !.up = TRUE]]
Connects(c, s) == {Opens(c, s, f, k) : f \in LowestFree(c), k \in NextConn(c)}

(* spawn_connect_create_server: the address is taken or fork fails; the    *)
(* server is started but cannot be reached in time; or all went well.      *)
SpawnFails(c) ==
    {c} \cup {[c EXCEPT !.pid = s, !.srv[s] = "running"] :
                s \in {s \in Spawned : c.srv[s] = "unborn"}}
SpawnConnects(c) ==
    UNION {Connects([c EXCEPT !.pid = s, !.srv[s] = "running"], s) :
             s \in {s \in Spawned : c.srv[s] = "unborn"}}

\* Mutant: only a paused game is given up.
ServerGoneIfPaused(c) ==
    LET d == Disconnect(c)
    IN  IF c.mode = "paused" THEN ShowIn("menu", d, "error") ELSE d

(* handle_server_disconnect                                                *)
ServerGone(c) ==
    LET d == Disconnect(c)
    IN  IF c.mode \in {"playing", "paused"} THEN ShowIn("menu", d, "error") ELSE d

PollServerExit(c) ==
    IF c.pid # None /\ c.srv[c.pid] = "exited"
    THEN ServerGone([c EXCEPT !.pid = None, !.srv[c.pid] = "reaped"]) ELSE c

-----------------------------------------------------------------------------
(* Buttons (callbacks.c).                                                  *)

ToMainMenu(c) == ShowIn("menu", Disconnect(c), "main")
Asks(c, callback) == [c EXCEPT !.text = callback]
Resume(c) == [SaysPaused(Pop(c), FALSE) EXCEPT !.mode = "playing"]
SinglePlayer(c) ==
    LET w == Show(c, "waiting")
    IN  SpawnConnects(w) \cup {ShowIn("menu", d, "error") : d \in SpawnFails(w)}

Press(c, button) ==
    CASE button = "new_game"            -> {Push(Show(c, "main"), "mode")}
      [] button = "join"                -> {Asks(c, "join")}
      [] button = "exit_game"           -> {[c EXCEPT !.run = FALSE]}
      [] button = "resume"              -> {Resume(c)}
      [] button \in {"main_menu", "cancel"} -> {ToMainMenu(c)}
      [] button = "standard"            -> {Push(c, "world")}
      [] button = "timed"               -> {Asks(c, "time")}
      [] button = "hard"                -> {Push(c, "load")}
      [] button \in {"easy", "random"} -> {Push(c, "player")}
      [] button = "file"                -> {Asks(c, "file")}
      [] button = "single"              -> SinglePlayer(c)
      [] button = "multi"               -> {Asks(c, "create")}
      [] button = "back"                -> {Pop(c)}

(* Text callbacks.                                                         *)
Submit(c) ==
    LET waiting(d) == Show(d, "waiting")
        failed(d)  == ShowIn("menu", d, "error")
        next == [time |-> "world", file |-> "player"]
    IN  CASE c.text \in {"time", "file"} -> {Push(c, next[c.text]), Show(c, "error")}
          [] c.text = "join"   -> {waiting(d) : d \in Connects(c, Foreign)} \cup {failed(c)}
          [] c.text = "create" -> {waiting(d) : d \in SpawnConnects(c)}
                                    \cup {failed(d) : d \in SpawnFails(c)}

-----------------------------------------------------------------------------
(* Keys (client.c).                                                        *)

TextKey(c, key) ==
    CASE key = "enter" -> {Asks(d, "none") : d \in Submit(c)}
      [] key = "esc"   -> {Asks(c, "none")}
      [] OTHER         -> {c}

MenuKey(c, key) ==
    CASE key = "enter" -> UNION {Press(c, b) : b \in Buttons[Last(c.menus)]}
      [] key = "quit"  -> Press(c, "exit_game")
      [] key = "esc"   -> Press(c, "back")
      [] OTHER         -> {c}

\* Mutant: the pause menu is put on top of what the stack holds.
GameKeyPushes(c, key) ==
    IF key \in {"quit", "pause", "esc"}
    THEN {Push(SaysPaused([c EXCEPT !.mode = "paused"], TRUE), "pause")}
    ELSE {c}

\* Mutant: escape opens the pause menu and tells the server nothing.
GameKeyUntold(c, key) ==
    IF key \in {"quit", "pause", "esc"}
    THEN LET p == [c EXCEPT !.mode = "paused"]
         IN  {Show(IF key = "esc" THEN p ELSE SaysPaused(p, TRUE), "pause")}
    ELSE {c}

(* A move changes nothing here: the server hears a direction.              *)
GameKey(c, key) ==
    IF key \in {"quit", "pause", "esc"}
    THEN {Show(SaysPaused([c EXCEPT !.mode = "paused"], TRUE), "pause")}
    ELSE {c}

HandleKey(c, key) ==
    IF c.text # "none" THEN TextKey(c, key)
    ELSE IF c.mode = "playing" THEN GameKey(c, key) ELSE MenuKey(c, key)

\* Mutant: an error is shown on top of the stack.
HandleMsgPushes(c, type) ==
    CASE type = "ready" -> [c EXCEPT !.mode = "playing"]
      [] type = "over"  -> ShowIn("over", c, "over")
      [] type = "error" -> Push([c EXCEPT !.mode = "menu"], "error")
      [] OTHER          -> c

(* handle_server_msg                                                       *)
HandleMsg(c, type) ==
    CASE type = "ready" -> [c EXCEPT !.mode = "playing"]
      [] type = "over"  -> ShowIn("over", c, "over")
      [] type = "error" -> ShowIn("menu", c, "error")
      [] OTHER          -> c

-----------------------------------------------------------------------------
(* client_run and the way out of main.                                     *)

MainAt(a, b) == mainPc = a /\ mainPc' = b

(* dequeue_key; a key typed while a menu or the game was handling the one  *)
(* before it is flushed.                                                   *)
TakeKey == keys > 0 /\ keys' = IF text # "none" THEN keys - 1 ELSE 0

(* One turn of the key loop.                                               *)
MainKey ==
    /\ mainPc = "keys" /\ TakeKey
    /\ \E key \in Keys : \E c \in HandleKey(Ctx, key) : Becomes(c)
    /\ UNCHANGED <<mainVars, msgs, threadVars, said>>

MainKeysDone ==
    /\ MainAt("keys", "msgs") /\ keys = 0
    /\ UNCHANGED <<ctxVars, running, queueVars, threadVars, worldVars>>

MainMsg ==
    /\ mainPc = "msgs" /\ msgs # <<>>
    /\ Becomes(HandleMsg(Ctx, Head(msgs)))
    /\ msgs' = Tail(msgs)
    /\ UNCHANGED <<mainVars, keys, threadVars, said>>

(* The queue is empty: rendering, the test of ctx->running, and the next   *)
(* turn's poll_server_exit.                                                *)
MainTurns ==
    /\ MainAt("msgs", IF ctxRunning THEN "keys" ELSE "drain") /\ msgs = <<>>
    /\ Becomes(IF ctxRunning THEN PollServerExit(Ctx) ELSE Ctx)
    /\ UNCHANGED <<running, queueVars, threadVars, said>>

MainDrain ==
    /\ mainPc = "drain"
    /\ IF msgs # <<>>
       THEN msgs' = Tail(msgs) /\ UNCHANGED mainPc
       ELSE mainPc' = "stop" /\ UNCHANGED msgs
    /\ UNCHANGED <<ctxVars, running, keys, threadVars, worldVars>>

MainStops ==
    /\ MainAt("stop", "join_input") /\ running' = FALSE
    /\ UNCHANGED <<ctxVars, queueVars, threadVars, worldVars>>

MainJoinInput ==
    /\ MainAt("join_input", "join_recv") /\ input = "done"
    /\ UNCHANGED <<ctxVars, running, queueVars, threadVars, worldVars>>

(* client_cleanup; the process ends and all its descriptors with it.       *)
MainJoinRecv ==
    /\ MainAt("join_recv", "done") /\ recv.pc = "done"
    /\ fd' = None /\ sockets' = [f \in Fds |-> None]
    /\ UNCHANGED <<mode, menus, text, pid, ctxRunning, running, queueVars, threadVars,
                   conn, said, srv>>

MainStep == \/ MainKey \/ MainKeysDone \/ MainMsg \/ MainTurns
            \/ MainDrain \/ MainStops \/ MainJoinInput \/ MainJoinRecv

-----------------------------------------------------------------------------
Next ==
    \/ MainStep \/ RecvStep \/ TypeKey \/ EndOfInput
    \/ \E k \in Conns : ServerStep(k)
    \/ \E s \in Spawned : ServerExits(s)

Spec == Init /\ [][Next]_vars

(* The scheduler runs the main and the receiving thread; keys come slower  *)
(* than the main loop turns, so that the key loop comes to its end; a      *)
(* server says something or goes away.                                     *)
QuietSpec ==
    /\ Spec
    /\ WF_vars(MainStep) /\ SF_vars(MainKeysDone) /\ WF_vars(RecvStep)
    /\ \A k \in Conns : WF_vars(ServerStep(k))

(* And the user goes on pressing keys.                                     *)
FairSpec == QuietSpec /\ WF_vars(TypeKey)

-----------------------------------------------------------------------------
(* Properties.                                                             *)

(* The types of the variables.                                             *)
TypeOK ==
    /\ mode \in Modes /\ Range(menus) \subseteq DOMAIN Buttons
    /\ text \in {"none", "time", "file", "create", "join"}
    /\ fd \in Fds \cup {None} /\ pid \in Spawned \cup {None}
    /\ keys \in 0 .. MaxKeys /\ Len(msgs) <= MaxMessages
    /\ input \in {"getchar", "done"}
    /\ recv.pc \in {"loop", "poll", "recv", "post", "done"}
    /\ sockets \in [Fds -> Conns \cup {None}]
    /\ srv \in [Spawned -> {"unborn", "running", "exited", "reaped"}]

(* Whatever order keys, messages and the end of a server come in, there is *)
(* a menu to handle the next key (menu_current is not NULL), a paused      *)
(* player sees the pause menu and nothing else, and outside a game no      *)
(* pause or game-over menu is left on the stack to go back to.             *)
ScreenMatchesMode ==
    /\ menus # <<>>
    /\ mode = "paused" => menus = <<"pause">>
    /\ mode = "menu"   => Range(menus) \cap {"pause", "over"} = {}
    /\ mode = "over"   => "pause" \notin Range(menus)

(* No sequence of buttons, texts and messages puts a menu on the stack     *)
(* twice or fills it: menu_push never drops a menu, and menu_pop never     *)
(* clears the entry past the end of the array.                             *)
MenusFit == IsInjective(menus) /\ Len(menus) < MenuStackMax

(* The main thread never sends on a closed descriptor, nor on a former     *)
(* server's: socket_fd is open and is the last connection made, although   *)
(* descriptors are closed, reused and overwritten on six paths.            *)
SocketFdIsNewest ==
    fd # None => /\ sockets[fd] # None
                 /\ \A k \in Conns : conn[k].opened => k <= sockets[fd]

(* A player who sees the pause menu and has a connection is paused for the *)
(* server on that connection: PAUSE is the last thing it was told there.   *)
PausedMeansTold == mode = "paused" /\ fd # None => conn[sockets[fd]].paused

(* Exit Game ends the process, once the user has pressed one key more.     *)
ExitCompletes == ~ctxRunning ~> mainPc = "done"

(* The client that has spawned a server does not stay in the game when the *)
(* server ends, without an error and a way back to the menus.              *)
SpawnerNotices ==
    \A s \in Spawned :
        (pid = s /\ srv[s] = "exited" /\ ctxRunning /\ mode = "playing")
            ~> mode # "playing"
-----------------------------------------------------------------------------
(* Claims the code does not keep.                                          *)

(* "It runs until the shared running flag becomes false" (read_input_thread*)
(* in client.c): clearing the flag ends the keyboard thread.               *)
KeyboardStops == ~running ~> input = "done"

(* "reaping server process if exited so we do not create zombies"          *)
(* (client_run): every child of a running client is the one waitpid asks   *)
(* for.                                                                    *)
ChildrenReapable ==
    \A s \in Spawned : srv[s] \in {"running", "exited"} => pid = s

(* "server is gone" (poll_server_exit): when the process it has spawned    *)
(* ends, the client closes the connection to that process.                 *)
ClosesOwnServer ==
    [][\A s \in Spawned : srv[s] = "exited" /\ srv'[s] = "reaped" /\ fd # None
         => conn[sockets[fd]].server = s]_vars

(* A client in the game has a connection to play on: handle_server_msg     *)
(* does not know which server a queued READY is from.                      *)
PlaysConnected == mode = "playing" => fd # None
=============================================================================

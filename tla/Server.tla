-------------------------------- MODULE Server --------------------------------
(***************************************************************************)
(* The server process: main thread (server/main.c, game.c), accept thread, *)
(* worker, one receiving thread per connection and the detached waiting    *)
(* threads (server.c), the client registry (registry.c) and the two queues *)
(* between them, from the first accept to the exit of the process,         *)
(* together with what its clients do on their sockets (client/).           *)
(*                                                                         *)
(* A player is known by the descriptor of its socket (registry.h, "acts as *)
(* unique identifier for client"), and the kernel gives a closed           *)
(* descriptor to the next connection.  Connections and receiving threads   *)
(* are named by the connection they were made for.                         *)
(*                                                                         *)
(* Abstracted: what happens on the board (any players that may die in one  *)
(* tick of game_update may; Game models it), the contents of MSG_STATE,    *)
(* and the bytes in a socket: a send blocks once its client hangs, and     *)
(* never before.  BoundedQueue models the queues step by step; here        *)
(* enqueueing is one step that waits for room.                             *)
(***************************************************************************)
EXTENDS Naturals, Sequences, FiniteSets, Players, Selection

CONSTANTS Conn,          \* the connections clients make, one each
          NoConn,        \* no connection
          Args,          \* the argv the server may be started with
          Stalling,      \* connections whose client may hang
          MaxEvents,     \* MAX_EVENTS
          MaxActions,    \* MAX_ACTIONS
          MaxSent        \* messages a client sends before LEAVE (a bound)

ASSUME ServerAssumption ==
    /\ IsFiniteSet(Conn) /\ Conn # {} /\ NoConn \notin Conn
    /\ Args \subseteq [single : BOOLEAN, timed : BOOLEAN] /\ Stalling \subseteq Conn
    /\ MaxEvents \in Nat \ {0} /\ MaxActions \in Nat \ {0}
    /\ MaxSent \in Nat

Fd   == 1 .. Cardinality(Conn)   \* never exhausted: accept always gets one
NoFd == 0                        \* the -1 of main.c

Modes      == {"none", "awaiting", "playing", "paused", "over", "leaving", "gone",
               "stalled"}
MsgTypes   == {"input", "pause", "resume", "leave"}
MailTypes  == {"ready", "over", "error"}
EventTypes == {"connected", "input", "paused", "resumed", "waited_resume",
               "disconnected", "waited_end"}
ActTypes   == {"send_ready", "send_over", "send_state", "unregister",
               "wait_end", "wait_paused"}

(* src is not in the code: it records the thread an event comes from.      *)
Event(t, id, src) == [type |-> t, id |-> id, src |-> src]
Act(t, id) == [type |-> t, id |-> id]
Events  == [type : EventTypes, id : Fd \cup {NoFd}, src : Conn \cup {NoConn}]
Actions == [type : ActTypes, id : Fd \cup {NoFd}]
Idle    == [pc |-> "none", fd |-> NoFd, ev |-> Event("input", NoFd, NoConn), last |-> FALSE]
NoAcc   == [conn |-> NoConn, fd |-> NoFd]

VARIABLES
    args,        \* argv[2], and whether argv[3] limits the time
    client,      \* client[c]: ctx->mode of the client of connection c
    sent,        \* sent[c]: messages it has sent, up to MaxSent
    inbox,       \* inbox[c]: bytes it has sent that no thread has read
    mail,        \* mail[c]: READY, GAME_OVER and ERROR it has yet to handle
    backlog,     \* connections waiting for accept()
    listening,   \* the listening socket is open
    fdTable,     \* fdTable[f]: the connection descriptor f stands for
    acc,         \* accept_connection between accept() and register_client
    argFd,       \* RecvInputThreadArgs.client_fd, shared by all threads
    acceptPc,    \* the accept thread
    recv,        \* recv[c]: the receiving thread created for c
    registry,    \* ClientRegistry.clients
    eq, aq,      \* events and actions
    worker,      \* the worker and the thread it joins, if any
    endWait,     \* number of end_wait_threads asleep
    resumeWait,  \* resumeWait[f]: resume_wait_threads asleep for player f
    mainPc, todo,\* the main thread and the actions it is about to enqueue
    players, waitPending, endGame, \* GameState, end_game of game_run
    revived,     \* not in the code: a player came since the end wait began
    accepting, running, destroyed  \* the flags; entries registry_destroy has freed

clientVars == <<client, sent, inbox, mail>>
kernelVars == <<backlog, listening, fdTable>>
acceptVars == <<acc, argFd, acceptPc>>
gameVars   == <<players, waitPending, endGame, revived>>
flagVars   == <<accepting, running, destroyed>>
waitVars   == <<endWait, resumeWait>>
mainVars   == <<mainPc, todo, gameVars, flagVars>>
serverVars == <<acceptVars, recv, registry, eq, aq, worker, waitVars, mainVars, args>>
vars == <<clientVars, kernelVars, serverVars>>

SinglePlayer == args.single
TimedMode    == args.timed

Alive == mainPc # "done"        \* every thread dies with the process

Init ==
    /\ args \in Args
    /\ client = [c \in Conn |-> "none"] /\ sent = [c \in Conn |-> 0]
    /\ inbox = [c \in Conn |-> <<>>] /\ mail = [c \in Conn |-> <<>>]
    /\ backlog = <<>> /\ listening = TRUE /\ fdTable = [f \in Fd |-> NoConn]
    /\ acc = NoAcc /\ argFd = NoFd /\ acceptPc = "off"
    /\ recv = [c \in Conn |-> Idle] /\ registry = <<>>
    /\ eq = <<>> /\ aq = <<>>
    /\ worker = [pc |-> "off", thread |-> NoConn]
    /\ endWait = 0 /\ resumeWait = [f \in Fd |-> 0]
    /\ mainPc = "accept" /\ todo = <<>>
    /\ players = <<>> /\ waitPending = FALSE /\ endGame = FALSE /\ revived = FALSE
    /\ accepting = TRUE /\ running = TRUE /\ destroyed = 0

-----------------------------------------------------------------------------
(* Clients (client/client.c, callbacks.c), as seen from their sockets.     *)

Connected(c) == client[c] \notin {"none", "gone"}
Open(c) == c \in ToSet(backlog) \/ \E f \in Fd : fdTable[f] = c

(* connect_to_server.                                                      *)
Connect(c) ==
    /\ client[c] = "none" /\ listening
    /\ client' = [client EXCEPT ![c] = "awaiting"]
    /\ backlog' = Append(backlog, c)
    /\ UNCHANGED <<sent, inbox, mail, listening, fdTable, serverVars>>

(* handle_server_msg: READY makes any client play, whatever it was doing.  *)
Hear(c) ==
    /\ Connected(c) /\ client[c] \notin {"leaving", "stalled"} /\ mail[c] # <<>>
    /\ client' = [client EXCEPT ![c] =
                    IF Head(mail[c]) = "ready" THEN "playing" ELSE "over"]
    /\ mail' = [mail EXCEPT ![c] = Tail(@)]
    /\ UNCHANGED <<sent, inbox, kernelVars, serverVars>>

(* A send fails with EPIPE once the server has closed its end.             *)
ClientSends(c, m, mode) ==
    /\ client' = [client EXCEPT ![c] = mode]
    /\ inbox' = IF Open(c) THEN [inbox EXCEPT ![c] = Append(@, m)] ELSE inbox
    /\ UNCHANGED <<mail, kernelVars, serverVars>>

(* handle_game_key while playing; btn_resume_game in the pause menu.       *)
Play(c) ==
    /\ sent[c] < MaxSent
    /\ sent' = [sent EXCEPT ![c] = @ + 1]
    /\ \/ client[c] = "playing" /\ ClientSends(c, "input", "playing")
       \/ client[c] = "playing" /\ ClientSends(c, "pause", "paused")
       \/ client[c] = "paused"  /\ ClientSends(c, "resume", "playing")

(* btn_exit_to_main_menu and btn_cancel_awaiting: LEAVE, and only then     *)
(* (Quit) the socket is closed.                                            *)
Leave(c) ==
    /\ client[c] \in {"awaiting", "paused", "over"}
    /\ ClientSends(c, "leave", "leaving")
    /\ UNCHANGED sent

(* The client is stopped, or its receiving thread waits in enqueue_msg: it *)
(* reads no more, and from now on what the server sends finds its socket's *)
(* buffer full.                                                            *)
Stall(c) ==
    /\ c \in Stalling /\ client[c] = "playing"
    /\ client' = [client EXCEPT ![c] = "stalled"]
    /\ UNCHANGED <<sent, inbox, mail, kernelVars, serverVars>>

(* disconnect_from_server, client_cleanup or the death of the client: the  *)
(* socket is closed.  poll reports POLLHUP from now on and the threads     *)
(* look at that first, so what was not read is lost.                       *)
Quit(c) ==
    /\ Connected(c)
    /\ client' = [client EXCEPT ![c] = "gone"]
    /\ inbox' = [inbox EXCEPT ![c] = <<>>]
    /\ mail' = [mail EXCEPT ![c] = <<>>]
    /\ UNCHANGED <<sent, kernelVars, serverVars>>

(* recv_server_thread looks at POLLHUP before POLLIN: of what the server   *)
(* sent before it closed, the rest is never read.                          *)
MissRest(c) ==
    /\ Connected(c) /\ client[c] # "stalled" /\ ~Open(c) /\ mail[c] # <<>>
    /\ mail' = [mail EXCEPT ![c] = <<>>]
    /\ UNCHANGED <<client, sent, inbox, kernelVars, serverVars>>

ClientStep(c) ==
    Connect(c) \/ Hear(c) \/ MissRest(c) \/ Play(c) \/ Leave(c)
    \/ Stall(c) \/ Quit(c)

(* send_message on f sleeps in send().                                     *)
Blocks(f) == fdTable[f] # NoConn /\ client[fdTable[f]] = "stalled"

(* What reaches the client when m is sent on descriptor f.                 *)
Delivered(box, f, m) ==
    IF fdTable[f] = NoConn \/ client[fdTable[f]] = "gone" THEN box
    ELSE [box EXCEPT ![fdTable[f]] = Append(@, m)]

(* Sending m to the first n entries of the registry.                       *)
SentToFirst(n, m) ==
    [c \in Conn |->
       IF \E i \in 1 .. n : fdTable[registry[i].fd] = c /\ client[c] # "gone"
       THEN Append(mail[c], m) ELSE mail[c]]

(* broadcast_game_over and broadcast_error, under the registry's lock: the *)
(* first failed send, to a client that has gone, ends the loop; until then *)
(* any send may block.                                                     *)
Reached ==
    LET failed == {i \in DOMAIN registry :
                     LET c == fdTable[registry[i].fd]
                     IN  IF c = NoConn THEN TRUE ELSE client[c] = "gone"}
    IN  IF failed = {} THEN Len(registry) ELSE Min(failed) - 1
BroadcastBlocks == \E i \in 1 .. Reached : Blocks(registry[i].fd)
Broadcast(m) == ~BroadcastBlocks /\ mail' = SentToFirst(Reached, m)

(* The lock of the registry is held for longer than a step only then.      *)
RegistryLocked == mainPc \in {"over", "error"} /\ todo = <<>> /\ BroadcastBlocks

-----------------------------------------------------------------------------
(* Accepting (server.c accept_connection, accept_loop_thread; main.c).     *)

(* accept(), args->client_fd = client_fd, pthread_create.                  *)
AcceptConnection ==
    /\ mainPc = "accept" \/ (acceptPc = "poll" /\ Alive)
    /\ acc = NoAcc /\ listening /\ backlog # <<>>
    /\ LET c == Head(backlog)
           f == Min({g \in Fd : fdTable[g] = NoConn})
       IN  /\ fdTable' = [fdTable EXCEPT ![f] = c]
           /\ argFd' = f
           /\ acc' = [conn |-> c, fd |-> f]
           /\ recv' = [recv EXCEPT ![c].pc = "start"]
    /\ backlog' = Tail(backlog)
    /\ UNCHANGED <<clientVars, listening, acceptPc, registry, eq, aq, worker,
                   waitVars, mainVars, args>>

(* register_client, under the registry's lock, only after the thread runs. *)
RegisterClient ==
    /\ acc # NoAcc /\ acc' = NoAcc /\ ~RegistryLocked
    /\ registry' = Append(registry, [fd |-> acc.fd, thread |-> acc.conn])

(* The first connection: main goes on to close the listening socket (one   *)
(* player) or to start the accept thread, and starts the worker.           *)
RegisterFirst ==
    /\ mainPc = "accept" /\ RegisterClient
    /\ mainPc' = "await"
    /\ worker' = [worker EXCEPT !.pc = "run"]
    /\ IF SinglePlayer
       THEN listening' = FALSE /\ backlog' = <<>> /\ UNCHANGED acceptPc
       ELSE acceptPc' = "poll" /\ UNCHANGED <<listening, backlog>>
    /\ UNCHANGED <<clientVars, fdTable, argFd, recv, eq, aq, waitVars, todo,
                   gameVars, flagVars, args>>

(* Later ones: back to the test of the accept thread's loop.               *)
RegisterNext ==
    /\ acceptPc = "poll" /\ Alive /\ RegisterClient
    /\ acceptPc' = IF accepting THEN "poll" ELSE "done"
    /\ UNCHANGED <<clientVars, kernelVars, argFd, recv, eq, aq, worker, waitVars,
                   mainVars, args>>

(* poll times out and the loop finds accepting false.                      *)
AcceptStop ==
    /\ acceptPc = "poll" /\ acc = NoAcc /\ ~accepting /\ Alive
    /\ acceptPc' = "done"
    /\ UNCHANGED <<clientVars, kernelVars, acc, argFd, recv, registry, eq, aq, worker,
                   waitVars, mainVars, args>>

AcceptStep == AcceptConnection \/ RegisterFirst \/ RegisterNext \/ AcceptStop

-----------------------------------------------------------------------------
(* Receiving threads (server.c recv_input_thread).                         *)

RecvOnly == UNCHANGED <<client, sent, mail, kernelVars, acceptVars, registry, aq,
                        worker, waitVars, mainVars, args>>

(* About to call enqueue_event; last: the loop is left after it.           *)
Post(t, f, type, last) ==
    recv' = [recv EXCEPT ![t] =
               [pc |-> "post", fd |-> f, ev |-> Event(type, f, t), last |-> last]]

(* The thread reads args->client_fd, whatever accept_connection has put    *)
(* there since it was created.                                             *)
RecvStart(t) ==
    /\ recv[t].pc = "start" /\ Alive
    /\ Post(t, argFd, "connected", FALSE)
    /\ RecvOnly /\ UNCHANGED <<inbox, eq>>

RecvPost(t) ==
    /\ recv[t].pc = "post" /\ Alive
    /\ Len(eq) < MaxEvents
    /\ eq' = Append(eq, recv[t].ev)
    /\ recv' = [recv EXCEPT ![t] =
                  [Idle EXCEPT !.pc = IF running /\ ~recv[t].last THEN "poll" ELSE "done",
                               !.fd = recv[t].fd]]
    /\ RecvOnly /\ UNCHANGED inbox

\* Mutant: the loop ends without telling anybody.
RecvHangupSilently(t) ==
    /\ recv[t].pc = "poll" /\ Alive
    /\ LET c == fdTable[recv[t].fd]
       IN  IF c = NoConn THEN TRUE ELSE client[c] = "gone"
    /\ recv' = [recv EXCEPT ![t].pc = "done"]
    /\ RecvOnly /\ UNCHANGED <<inbox, eq>>

(* POLLNVAL after close(), POLLHUP after the client's.                     *)
RecvHangup(t) ==
    /\ recv[t].pc = "poll" /\ Alive
    /\ LET c == fdTable[recv[t].fd]
       IN  IF c = NoConn THEN TRUE ELSE client[c] = "gone"
    /\ Post(t, recv[t].fd, "disconnected", TRUE)
    /\ RecvOnly /\ UNCHANGED <<inbox, eq>>

(* msg_to_event.  LEAVE does not end the loop.                             *)
MsgToEvent == [input |-> "input", pause |-> "paused", resume |-> "resumed",
               leave |-> "disconnected"]

RecvMessage(t) ==
    /\ recv[t].pc = "poll" /\ Alive
    /\ LET c == fdTable[recv[t].fd]
       IN  /\ c # NoConn
           /\ inbox[c] # <<>>
           /\ Post(t, recv[t].fd, MsgToEvent[Head(inbox[c])], FALSE)
           /\ inbox' = [inbox EXCEPT ![c] = Tail(@)]
    /\ RecvOnly /\ UNCHANGED eq

(* poll times out and the loop finds running false.                        *)
RecvStop(t) ==
    /\ recv[t].pc = "poll" /\ ~running /\ Alive
    /\ recv' = [recv EXCEPT ![t].pc = "done"]
    /\ RecvOnly /\ UNCHANGED <<inbox, eq>>

RecvStep(t) == RecvStart(t) \/ RecvPost(t) \/ RecvHangup(t) \/ RecvMessage(t) \/ RecvStop(t)

-----------------------------------------------------------------------------
(* The worker (server.c action_thread, exec_action) and waiting threads.   *)

WorkerOnly == UNCHANGED <<client, sent, inbox, backlog, listening, acceptVars, recv, eq,
                          mainVars, args>>

\* Mutant: count-- without moving the last entry into the free place.
RemoveClientNoSwap(f) ==
    LET i == SelectInSeq(registry, LAMBDA e : e.fd = f)
        n == Len(registry)
    IN  IF i = 0 THEN UNCHANGED <<registry, fdTable, worker>>
        ELSE /\ registry' = SubSeq(registry, 1, n - 1)
             /\ fdTable' = [fdTable EXCEPT ![f] = NoConn]
             /\ worker' = [pc |-> "join", thread |-> registry[i].thread]

(* remove_client takes the entry out under the lock (the last entry moves  *)
(* into its place), closes the descriptor and joins the thread.            *)
RemoveClient(f) ==
    LET i == SelectInSeq(registry, LAMBDA e : e.fd = f)
        n == Len(registry)
    IN  IF i = 0 THEN UNCHANGED <<registry, fdTable, worker>>
        ELSE /\ registry' = SubSeq([registry EXCEPT ![i] = registry[n]], 1, n - 1)
             /\ fdTable' = [fdTable EXCEPT ![f] = NoConn]
             /\ worker' = [pc |-> "join", thread |-> registry[i].thread]

(* dequeue_action and exec_action.                                         *)
WorkerExec ==
    /\ worker.pc = "run" /\ aq # <<>> /\ Alive
    /\ aq' = Tail(aq)
    /\ LET a == Head(aq)
       IN  \/ /\ a.type = "send_ready" /\ ~Blocks(a.id)
              /\ mail' = Delivered(mail, a.id, "ready")
              /\ UNCHANGED <<registry, fdTable, worker, waitVars>>
           \/ /\ a.type = "send_over" /\ ~Blocks(a.id)
              /\ mail' = Delivered(mail, a.id, "over")
              /\ UNCHANGED <<registry, fdTable, worker, waitVars>>
           \/ /\ a.type = "send_state" /\ ~Blocks(a.id)
              /\ UNCHANGED <<mail, registry, fdTable, worker, waitVars>>
           \/ /\ a.type = "unregister" /\ ~RegistryLocked
              /\ RemoveClient(a.id)
              /\ UNCHANGED <<mail, waitVars>>
           \/ /\ a.type = "wait_end"
              /\ endWait' = endWait + 1
              /\ UNCHANGED <<mail, registry, fdTable, worker, resumeWait>>
           \/ /\ a.type = "wait_paused"
              /\ resumeWait' = [resumeWait EXCEPT ![a.id] = @ + 1]
              /\ UNCHANGED <<mail, registry, fdTable, worker, endWait>>
    /\ WorkerOnly

(* pthread_join in remove_client.                                          *)
WorkerJoin ==
    /\ worker.pc = "join" /\ recv[worker.thread].pc = "done" /\ Alive
    /\ worker' = [pc |-> "run", thread |-> NoConn]
    /\ WorkerOnly /\ UNCHANGED <<mail, fdTable, registry, aq, waitVars>>

\* Mutant: no drain after the loop.
WorkerStopAtOnce ==
    /\ worker.pc = "run" /\ ~running /\ Alive
    /\ worker' = [worker EXCEPT !.pc = "done"]
    /\ WorkerOnly /\ UNCHANGED <<mail, fdTable, registry, aq, waitVars>>

(* running is false and the last drain has come to its end.                *)
WorkerStop ==
    /\ worker.pc = "run" /\ aq = <<>> /\ ~running /\ Alive
    /\ worker' = [worker EXCEPT !.pc = "done"]
    /\ WorkerOnly /\ UNCHANGED <<mail, fdTable, registry, aq, waitVars>>

WorkerStep == WorkerExec \/ WorkerJoin \/ WorkerStop

(* end_wait_thread and resume_wait_thread wake up and enqueue their event. *)
EndWaitOver ==
    /\ endWait > 0 /\ Len(eq) < MaxEvents /\ Alive
    /\ endWait' = endWait - 1
    /\ eq' = Append(eq, Event("waited_end", NoFd, NoConn))
    /\ UNCHANGED <<clientVars, kernelVars, acceptVars, recv, registry, aq, worker,
                   resumeWait, mainVars, args>>

ResumeWaitOver(f) ==
    /\ resumeWait[f] > 0 /\ Len(eq) < MaxEvents /\ Alive
    /\ resumeWait' = [resumeWait EXCEPT ![f] = @ - 1]
    /\ eq' = Append(eq, Event("waited_resume", f, NoConn))
    /\ UNCHANGED <<clientVars, kernelVars, acceptVars, recv, registry, aq, worker,
                   endWait, mainVars, args>>

-----------------------------------------------------------------------------
(* The main thread: game_run (game.c) and handle_event (server.c).         *)

MainOnly == UNCHANGED <<client, sent, inbox, acceptVars, recv, worker, waitVars, args>>

\* Mutant: enqueue_action does not wait.
SubmitUnbounded ==
    /\ todo # <<>> /\ Alive
    /\ aq' = Append(aq, Head(todo))
    /\ todo' = Tail(todo)
    /\ MainOnly /\ UNCHANGED <<mail, kernelVars, registry, eq, mainPc, gameVars, flagVars>>

(* enqueue_action, which waits for room: main does nothing else meanwhile. *)
Submit ==
    /\ todo # <<>> /\ Len(aq) < MaxActions /\ Alive
    /\ aq' = Append(aq, Head(todo))
    /\ todo' = Tail(todo)
    /\ MainOnly /\ UNCHANGED <<mail, kernelVars, registry, eq, mainPc, gameVars, flagVars>>

At(pc) == mainPc = pc /\ todo = <<>>

\* Mutant: the new player is never told MSG_READY.
OnConnectedNotReady(ev) ==
    /\ ev.type = "connected"
    /\ players' = AddPlayer(players, ev.id, ev.src)
    /\ revived' = (revived \/ waitPending)
    /\ UNCHANGED <<todo, waitPending>>

(* handle_event, one disjunct per event type.                              *)
OnConnected(ev) ==
    /\ ev.type = "connected"
    /\ players' = AddPlayer(players, ev.id, ev.src)
    /\ todo' = <<Act("send_ready", ev.id)>>
    /\ revived' = (revived \/ waitPending)
    /\ UNCHANGED waitPending

(* The direction belongs to Game.                                          *)
OnInput(ev) == ev.type = "input" /\ UNCHANGED <<players, todo, waitPending, revived>>

OnPaused(ev) ==
    /\ ev.type = "paused"
    /\ players' = PausePlayer(players, ev.id)
    /\ UNCHANGED <<todo, waitPending, revived>>

\* Mutant: no wait is started.
OnResumedNoWait(ev) ==
    /\ ev.type = "resumed"
    /\ players' = ScheduleResume(players, ev.id)
    /\ UNCHANGED <<todo, waitPending, revived>>

OnResumed(ev) ==
    /\ ev.type = "resumed"
    /\ players' = ScheduleResume(players, ev.id)
    /\ todo' = <<Act("wait_paused", ev.id)>>
    /\ UNCHANGED <<waitPending, revived>>

OnWaitedResume(ev) ==
    /\ ev.type = "waited_resume"
    /\ players' = ResumePlayer(players, ev.id)
    /\ UNCHANGED <<todo, waitPending, revived>>

OnDisconnected(ev) ==
    /\ ev.type = "disconnected"
    /\ players' = RemovePlayer(players, ev.id)
    /\ todo' = <<Act("unregister", ev.id)>>
    /\ UNCHANGED <<waitPending, revived>>

OnWaitedEnd(ev) ==
    /\ ev.type = "waited_end"
    /\ waitPending' = FALSE
    /\ UNCHANGED <<players, todo, revived>>

\* Mutant: end_game |= handle_event(...).
HandleEventAccumulating ==
    /\ At("await") \/ At("drain")
    /\ eq # <<>> /\ eq' = Tail(eq)
    /\ LET ev == Head(eq)
       IN  /\ \/ OnConnected(ev) \/ OnInput(ev) \/ OnPaused(ev) \/ OnResumed(ev)
              \/ OnWaitedResume(ev) \/ OnDisconnected(ev) \/ OnWaitedEnd(ev)
           /\ endGame' = (endGame \/ (ev.type = "waited_end" /\ players = <<>>))
    /\ MainOnly /\ UNCHANGED <<mail, kernelVars, registry, aq, mainPc, flagVars>>

(* One turn of while (dequeue_event(...)) end_game = handle_event(...).    *)
HandleEvent ==
    /\ At("await") \/ At("drain")
    /\ eq # <<>> /\ eq' = Tail(eq)
    /\ LET ev == Head(eq)
       IN  /\ \/ OnConnected(ev) \/ OnInput(ev) \/ OnPaused(ev) \/ OnResumed(ev)
              \/ OnWaitedResume(ev) \/ OnDisconnected(ev) \/ OnWaitedEnd(ev)
           /\ endGame' = (ev.type = "waited_end" /\ players = <<>>)
    /\ MainOnly /\ UNCHANGED <<mail, kernelVars, registry, aq, mainPc, flagVars>>

MainLocal == MainOnly /\ UNCHANGED <<kernelVars, registry, eq, aq>>

(* The first loop of game_run ends with a player.                          *)
StartGame ==
    /\ At("await") /\ eq = <<>> /\ players # <<>>
    /\ mainPc' = "broadcast"
    /\ MainLocal /\ UNCHANGED <<mail, todo, gameVars, flagVars>>

(* ... or with its timer of 10 s: no player has come and stayed.           *)
AwaitTimeout ==
    /\ At("await") /\ eq = <<>> /\ players = <<>>
    /\ mainPc' = "error"
    /\ MainLocal /\ UNCHANGED <<mail, todo, gameVars, flagVars>>

BroadcastError ==
    /\ At("error")
    /\ Broadcast("error")
    /\ mainPc' = "stop"
    /\ MainLocal /\ UNCHANGED <<todo, gameVars, flagVars>>

(* game_broadcast_snapshot.                                                *)
BroadcastSnapshot ==
    /\ At("broadcast")
    /\ todo' = [i \in DOMAIN players |-> Act("send_state", players[i].id)]
    /\ mainPc' = "update"
    /\ MainLocal /\ UNCHANGED <<mail, gameVars, flagVars>>

(* game_update: each unpaused player may die, except the one after a dead  *)
(* player, which the loop skips because the array has moved under it.      *)
MayDie == {D \in SUBSET {i \in DOMAIN players : ~players[i].paused} :
             \A i \in D : i + 1 \notin D}

IndicesIn(D) == Keep([i \in DOMAIN players |-> i], D)

\* Mutant: a dead player stays in the array.
UpdateKeepsDead ==
    /\ At("update")
    /\ \E D \in MayDie :
         LET dead == IndicesIn(D)
         IN  todo' = [k \in DOMAIN dead |-> Act("send_over", players[dead[k]].id)]
    /\ mainPc' = "drain" /\ endGame' = FALSE
    /\ MainLocal /\ UNCHANGED <<mail, players, waitPending, revived, flagVars>>

\* Mutant: who dies is not told.
UpdateUntold ==
    /\ At("update")
    /\ \E D \in MayDie :
         LET which == IndicesIn(D)
         IN  players' = RemovePlayers(players, [k \in DOMAIN which |-> players[which[k]].id])
    /\ mainPc' = "drain" /\ endGame' = FALSE
    /\ MainLocal /\ UNCHANGED <<mail, todo, waitPending, revived, flagVars>>

(* game_remove_player looks the dead one up by its id.                     *)
Update ==
    /\ At("update")
    /\ \E D \in MayDie :
         LET which == IndicesIn(D)
             dead  == [k \in DOMAIN which |-> players[which[k]].id]
         IN  /\ todo' = [k \in DOMAIN dead |-> Act("send_over", dead[k])]
             /\ players' = RemovePlayers(players, dead)
    /\ mainPc' = "drain" /\ endGame' = FALSE
    /\ MainLocal /\ UNCHANGED <<mail, waitPending, revived, flagVars>>

\* Mutant: wait_for_end_pending is not set.
ArmEndWaitAgain ==
    IF ~TimedMode /\ ~SinglePlayer /\ players = <<>> /\ ~waitPending
    THEN /\ todo' = <<Act("wait_end", NoFd)>>
         /\ revived' = FALSE /\ UNCHANGED waitPending
    ELSE UNCHANGED <<todo, waitPending, revived>>

(* handle_end_event in standard mode with several players allowed: the     *)
(* last one has left, wait 10 s, once.                                     *)
ArmEndWait ==
    IF ~TimedMode /\ ~SinglePlayer /\ players = <<>> /\ ~waitPending
    THEN /\ todo' = <<Act("wait_end", NoFd)>>
         /\ waitPending' = TRUE /\ revived' = FALSE
    ELSE UNCHANGED <<todo, waitPending, revived>>

(* handle_end_event returns true (the timer may expire in any tick).       *)
EndEvent ==
    \/ SinglePlayer /\ players = <<>>
    \/ TimedMode

(* The queue is empty: leave the loop or go on with the next tick.         *)
EndDrain ==
    /\ At("drain") /\ eq = <<>>
    /\ \/ /\ endGame \/ EndEvent
          /\ mainPc' = "over"
          /\ UNCHANGED <<todo, waitPending, revived>>
       \/ /\ ~endGame
          /\ ~(SinglePlayer /\ players = <<>>)
          /\ mainPc' = "broadcast"
          /\ ArmEndWait
    /\ MainLocal /\ UNCHANGED <<mail, players, endGame, flagVars>>

(* broadcast_game_over, by main itself and not through the worker.         *)
BroadcastGameOver ==
    /\ At("over")
    /\ Broadcast("over")
    /\ mainPc' = "stop"
    /\ MainLocal /\ UNCHANGED <<todo, gameVars, flagVars>>

-----------------------------------------------------------------------------
(* Shutting down (main.c from line 128, registry_destroy).                 *)

\* Mutant: running stays true.
StopForgetsRunning ==
    /\ At("stop")
    /\ accepting' = FALSE /\ UNCHANGED running
    /\ players' = <<>>
    /\ mainPc' = "join_worker"
    /\ MainLocal /\ UNCHANGED <<mail, todo, waitPending, endGame, revived, destroyed>>

Stop ==
    /\ At("stop")
    /\ accepting' = FALSE /\ running' = FALSE
    /\ players' = <<>>
    /\ mainPc' = "join_worker"
    /\ MainLocal /\ UNCHANGED <<mail, todo, waitPending, endGame, revived, destroyed>>

JoinWorker ==
    /\ At("join_worker") /\ worker.pc = "done"
    /\ mainPc' = "destroy"
    /\ MainLocal /\ UNCHANGED <<mail, todo, gameVars, flagVars>>

(* registry_destroy, without the lock: close an entry's socket, join its   *)
(* thread; count is read afresh for every entry.                           *)
DestroyClose ==
    /\ At("destroy") /\ destroyed < Len(registry)
    /\ fdTable' = [fdTable EXCEPT ![registry[destroyed + 1].fd] = NoConn]
    /\ mainPc' = "join_client"
    /\ MainOnly /\ UNCHANGED <<mail, backlog, listening, registry, eq, aq, todo,
                               gameVars, flagVars>>

\* Mutant: the thread is not joined.
DestroyNoJoin ==
    /\ At("join_client")
    /\ destroyed' = destroyed + 1
    /\ mainPc' = "destroy"
    /\ MainLocal /\ UNCHANGED <<mail, todo, gameVars, accepting, running>>

DestroyJoin ==
    /\ At("join_client") /\ recv[registry[destroyed + 1].thread].pc = "done"
    /\ destroyed' = destroyed + 1
    /\ mainPc' = "destroy"
    /\ MainLocal /\ UNCHANGED <<mail, todo, gameVars, accepting, running>>

(* The array, both mutexes and both condition variables are gone.          *)
DestroyDone ==
    /\ At("destroy") /\ destroyed = Len(registry)
    /\ mainPc' = "join_accept"
    /\ MainLocal /\ UNCHANGED <<mail, todo, gameVars, flagVars>>

(* The accept thread exists only with several players.  Returning from     *)
(* main ends the process: every thread stops, every descriptor is closed.  *)
Exit ==
    /\ At("join_accept") /\ (SinglePlayer \/ acceptPc = "done")
    /\ mainPc' = "done"
    /\ listening' = FALSE /\ backlog' = <<>> /\ fdTable' = [f \in Fd |-> NoConn]
    /\ MainOnly /\ UNCHANGED <<mail, registry, eq, aq, todo, gameVars, flagVars>>

MainStep ==
    \/ Submit \/ HandleEvent \/ StartGame \/ AwaitTimeout \/ BroadcastError
    \/ BroadcastSnapshot \/ Update \/ EndDrain \/ BroadcastGameOver
    \/ Stop \/ JoinWorker \/ DestroyClose \/ DestroyJoin \/ DestroyDone \/ Exit

(* The process has exited and its clients have closed their sockets.       *)
Terminated == ~Alive /\ (\A c \in Conn : ~Connected(c)) /\ UNCHANGED vars

Next ==
    \/ \E c \in Conn : ClientStep(c) \/ RecvStep(c)
    \/ AcceptStep \/ WorkerStep \/ EndWaitOver \/ (\E f \in Fd : ResumeWaitOver(f))
    \/ MainStep
    \/ Terminated

Spec == Init /\ [][Next]_vars

(* Threads are scheduled and timers fire, and a timed game's timer, once   *)
(* expired, stays so: SF says that it expires (in other modes the way out  *)
(* of the loop is no choice).  Nothing is asked of clients.                *)
TimesUp == EndDrain /\ mainPc' = "over"

Fairness ==
    /\ WF_vars(AcceptStep) /\ WF_vars(WorkerStep) /\ WF_vars(MainStep)
    /\ \A c \in Conn : WF_vars(RecvStep(c))
    /\ WF_vars(EndWaitOver) /\ \A f \in Fd : WF_vars(ResumeWaitOver(f))
    /\ SF_vars(TimesUp)

FairSpec == Spec /\ Fairness

-----------------------------------------------------------------------------
TypeOK ==
    /\ args \in Args
    /\ client \in [Conn -> Modes] /\ sent \in [Conn -> 0 .. MaxSent]
    /\ inbox \in [Conn -> Seq(MsgTypes)] /\ mail \in [Conn -> Seq(MailTypes)]
    /\ backlog \in Seq(Conn) /\ listening \in BOOLEAN
    /\ fdTable \in [Fd -> Conn \cup {NoConn}]
    /\ acc \in [conn : Conn \cup {NoConn}, fd : Fd \cup {NoFd}]
    /\ argFd \in Fd \cup {NoFd} /\ acceptPc \in {"off", "poll", "done"}
    /\ recv \in [Conn -> [pc : {"none", "start", "post", "poll", "done"},
                          fd : Fd \cup {NoFd}, ev : Events, last : BOOLEAN]]
    /\ registry \in Seq([fd : Fd, thread : Conn])
    /\ eq \in Seq(Events) /\ Len(eq) <= MaxEvents
    /\ aq \in Seq(Actions) /\ Len(aq) <= MaxActions
    /\ worker \in [pc : {"off", "run", "join", "done"}, thread : Conn \cup {NoConn}]
    /\ endWait \in Nat /\ resumeWait \in [Fd -> Nat]
    /\ mainPc \in {"accept", "await", "broadcast", "update", "drain", "over", "error", "stop",
                   "join_worker", "destroy", "join_client", "join_accept", "done"}
    /\ todo \in Seq(Actions)
    /\ players \in Seq([id : Fd, conn : Conn, paused : BOOLEAN, pending : BOOLEAN])
    /\ {waitPending, endGame, revived, accepting, running} \subseteq BOOLEAN
    /\ destroyed \in 0 .. Len(registry)

(* What main has asked of the worker, in order.                            *)
Requests == aq \o todo

(* Until registry_destroy, an entry's descriptor is open, belongs to the   *)
(* connection its thread was made for and to no other entry, and every     *)
(* open descriptor has an entry or is being registered: the swap in        *)
(* remove_client, the close and the reuse of descriptors by accept() leave *)
(* nothing open that shutdown would not close.                             *)
RegistryOwnsDescriptors ==
    mainPc \notin {"destroy", "join_client", "join_accept", "done"} =>
        /\ \A i \in DOMAIN registry : fdTable[registry[i].fd] = registry[i].thread
        /\ \A i, j \in DOMAIN registry : registry[i].fd = registry[j].fd => i = j
        /\ \A f \in Fd : fdTable[f] # NoConn =>
              acc.fd = f \/ \E i \in DOMAIN registry : registry[i].fd = f

(* No player is paused for ever by a lost wake-up: one that has asked to   *)
(* resume has a wait on its way, as a request, a sleeping thread or an     *)
(* event; and only a paused player awaits a RESUME.                        *)
WakeOnItsWay(f) ==
    \/ Act("wait_paused", f) \in ToSet(Requests)
    \/ resumeWait[f] > 0
    \/ \E i \in DOMAIN eq : eq[i].type = "waited_resume" /\ eq[i].id = f

PausedHasWake ==
    \A p \in ToSet(players) :
        /\ p.paused /\ ~p.pending => WakeOnItsWay(p.id)
        /\ p.pending => p.paused

(* wait_for_end_pending says exactly whether an end wait is under way, and *)
(* there is never a second one, so the server neither forgets to end nor   *)
(* piles up timers while it stands empty.                                  *)
EndWaitsUnderWay ==
    Len(Keep(Requests, {a \in Actions : a.type = "wait_end"})) + endWait
        + Len(Keep(eq, {e \in Events : e.type = "waited_end"}))

EndWaitToken == EndWaitsUnderWay = IF waitPending THEN 1 ELSE 0

(* In standard mode the game is declared over only with nobody in it: a    *)
(* player whose EV_CONNECTED follows the end of the wait in the same drain *)
(* is not thrown out.                                                      *)
EndsOnlyWhenEmpty == ~TimedMode /\ mainPc = "over" => players = <<>>

(* No two threads have ever served descriptor f: none has read another's   *)
(* (ServesItsClient says that one may), and if f has had several owners,   *)
(* only one has been announced.                                            *)
OneThreadOn(f) == \A t, u \in Conn : recv[t].fd = f /\ recv[u].fd = f => t = u

(* A client gets no MSG_STATE before its MSG_READY, whoever had its        *)
(* descriptor before, unless two threads have served that descriptor: then *)
(* a player left over from one is sent its states on the other's           *)
(* connection.                                                             *)
StateAfterReady ==
    \A k \in DOMAIN Requests :
        LET c == fdTable[Requests[k].id]
        IN  /\ Requests[k].type = "send_state" /\ c # NoConn
            /\ OneThreadOn(Requests[k].id)
            => \/ client[c] # "awaiting" \/ "ready" \in ToSet(mail[c])
               \/ \E j \in 1 .. k - 1 : Requests[j] = Act("send_ready", Requests[k].id)

(* After MSG_GAME_OVER a player gets no further MSG_STATE from the tick    *)
(* that killed it or a later one, under the same condition: of two players *)
(* with one descriptor the other lives on (OverIsTheEnd).                  *)
NoStateAfterDeath ==
    \A j, k \in DOMAIN Requests :
        j < k /\ Requests[j].type = "send_over" /\ OneThreadOn(Requests[j].id)
        => Requests[k] # Act("send_state", Requests[j].id)

(* What each client is told is a session of module Session: its stage is   *)
(* whether it has a player or is yet to get one, and what is pending for   *)
(* it is what main has asked of the worker about it.                       *)
Down == mainPc \in {"join_worker", "destroy", "join_client", "join_accept", "done"}

Unannounced(f) ==
    \/ \A t \in Conn : recv[t].fd # f
    \/ \E t \in Conn : recv[t].pc = "post" /\ recv[t].ev.type = "connected" /\ recv[t].fd = f
    \/ \E i \in DOMAIN eq : eq[i].type = "connected" /\ eq[i].id = f

Stage(f) ==
    IF ~Down /\ (\E i \in DOMAIN players : players[i].id = f) THEN "playing"
    ELSE IF ~Down /\ Unannounced(f) THEN "new" ELSE "over"

About(f) == [type : {"send_ready", "send_state", "send_over", "unregister"}, id : {f}]

Talk(f) == INSTANCE Session
    WITH Id      <- f,
         stage   <- Stage(f),
         pending <- Keep(Requests, About(f)),
         crossed <- ~OneThreadOn(f),
         down    <- Down

(* The server keeps its word to every client (handle_event, game_update,   *)
(* game_broadcast_snapshot and exec_action between them): \A f \in Fd :     *)
(* Talk(f)!SessionSpec, in a form that TLC can check.                      *)
talkVars == <<aq, todo, players, eq, recv, mainPc>>

KeepsItsWord ==
    /\ \A f \in Fd : Talk(f)!SessionInit
    /\ [][UNCHANGED talkVars \/ \A f \in Fd : Talk(f)!SessionStep]_vars

(* The worker leaves no request behind when it ends: main stops asking     *)
(* before it clears running.                                               *)
NoRequestLost == worker.pc = "done" => Requests = <<>>

(* When registry_destroy is through, a receiving thread runs only for a    *)
(* connection accepted after it looked at the registry's count for the     *)
(* last time; those of remove_client and all others have been joined.      *)
JoinsRegisteredThreads ==
    mainPc \in {"join_accept", "done"} =>
        \A c \in Conn : \/ recv[c].pc \in {"none", "done"} \/ acc.conn = c
                        \/ \E i \in destroyed + 1 .. Len(registry) : registry[i].thread = c

(* When every client has gone, the server ends.                            *)
EndsWithoutClients == (\A c \in Conn : client[c] = "gone") ~> (mainPc = "done")

(* A timed game that has begun ends, though its clients stay connected and *)
(* keep sending, and the server goes down with it; only a client that      *)
(* hangs can keep it (TicksGoOn).                                          *)
Hung == \E c \in Conn : client[c] = "stalled"
TimedGameEnds == (TimedMode /\ mainPc = "broadcast") ~> (mainPc = "done" \/ Hung)

-----------------------------------------------------------------------------
(* What comments and the README say and the code does not do.              *)

(* "resume game  player is paused for 3 seconds" (server.c:147): a player  *)
(* is not released while the wait of its latest RESUME still runs.         *)
ResumeWaitFull ==
    [][\A i \in DOMAIN players :
         /\ HandleEvent /\ OnWaitedResume(Head(eq))
         /\ players[i].paused /\ ~players'[i].paused
         => /\ resumeWait[players[i].id] = 0
            /\ Act("wait_paused", players[i].id) \notin ToSet(aq)]_vars

(* "game over after 10 sec when last player left" (main.c:28): the wait    *)
(* that ends the game began when the last player left.                     *)
EndWaitFull == ~TimedMode /\ ~SinglePlayer /\ mainPc = "over" => ~revived

(* The descriptor "acts as unique identifier for client" (registry.h:7):   *)
(* one client's disconnection never removes another one's player.          *)
IdentifiesClient ==
    [][HandleEvent /\ OnDisconnected(Head(eq)) /\ players' # players
       => players[PlayerIndex(players, Head(eq).id)].conn = Head(eq).src]_vars

(* "must be done here before shutdown so we are sure all clients get it"   *)
(* (game.c:101): the broadcast reaches every connected client.             *)
GameOverToAll ==
    [][BroadcastGameOver =>
         \A i \in DOMAIN registry :
            LET c == fdTable[registry[i].fd]
            IN  c # NoConn /\ client[c] # "gone" => mail'[c] # mail[c]]_vars

(* The same comment: when the server has exited, no client is left playing *)
(* without the message that ends its game.                                 *)
GameOverHeard ==
    ~Alive => \A c \in Conn : client[c] \in {"playing", "paused"} =>
                 ToSet(mail[c]) \cap {"over", "error"} # {}

(* Queues let the server avoid "common issues such as race conditions"     *)
(* (README): a receiving thread serves the connection it was created for.  *)
ServesItsClient ==
    \A t \in Conn : recv[t].pc \in {"post", "poll"} =>
        fdTable[recv[t].fd] \in {t, NoConn}

(* registry_destroy "joins all client threads" (main.c:140): none runs     *)
(* once the queues are destroyed.                                          *)
JoinsAllClientThreads ==
    mainPc \in {"join_accept", "done"} =>
        \A c \in Conn : recv[c].pc \in {"none", "done"}

(* "server notifies client of game over (or some sort of correct ending)"  *)
(* (protocol.h:15): no state follows, however many threads serve the       *)
(* descriptor, before the next player gets its READY.                      *)
OverIsTheEnd ==
    \A j, k \in DOMAIN Requests :
        /\ j < k
        /\ Requests[j].type = "send_over"
        /\ Requests[k] = Act("send_state", Requests[j].id)
        => \E m \in j .. k : Requests[m] = Act("send_ready", Requests[j].id)

(* Queues allow "the server to be non-blocking" (README): main, worker and *)
(* a receiving thread never wait for each other in a circle.               *)
NoCircularWait ==
    ~ /\ todo # <<>> /\ Len(aq) = MaxActions
      /\ worker.pc = "join"
      /\ recv[worker.thread].pc = "post" /\ Len(eq) = MaxEvents

(* registry_destroy "joins all client threads" (main.c:140): none of them  *)
(* waits for room in an event queue that nobody empties any more.          *)
DestroyUnblocked ==
    ~ /\ mainPc = "join_client" /\ Len(eq) = MaxEvents
      /\ recv[registry[destroyed + 1].thread].pc = "post"

(* "non-blocking" again: whatever one client does, the game loop goes on   *)
(* to the next tick.                                                       *)
TicksGoOn == (mainPc = "update") ~> (mainPc # "update")

(* Main accepts the first connection "with a 10-second timeout" (README).  *)
FirstAcceptEnds == <>(mainPc # "accept")
=============================================================================

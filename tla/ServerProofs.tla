----------------------------- MODULE ServerProofs -----------------------------
(***************************************************************************)
(* The safety invariants of Server, for any number of connections, any     *)
(* sizes of the queues, any clients that hang and any argv.  After a lemma *)
(* that says which actions change a variable come the types and the phases *)
(* of shutdown (TypeInv, PhaseInv), on which everything else rests, and    *)
(* then one inductive invariant for each property.                         *)
(***************************************************************************)
EXTENDS Server, SelectionProofs, FiniteSetTheorems

-----------------------------------------------------------------------------
(***************************************************************************)
(* Who changes what: a variable keeps its value unless one of the actions  *)
(* named with it is taken.                                                 *)
(***************************************************************************)
Changes ==
    /\ UNCHANGED args
    /\ UNCHANGED <<client, sent>> \/ \E c \in Conn : ClientStep(c)
    /\ UNCHANGED inbox \/ (\E c \in Conn : ClientStep(c)) \/ \E t \in Conn : RecvMessage(t)
    /\ UNCHANGED mail \/ (\E c \in Conn : ClientStep(c)) \/ WorkerExec
                      \/ BroadcastError \/ BroadcastGameOver
    /\ UNCHANGED backlog \/ (\E c \in Conn : Connect(c)) \/ AcceptConnection
                         \/ RegisterFirst \/ Exit
    /\ UNCHANGED listening \/ RegisterFirst \/ Exit
    /\ UNCHANGED fdTable \/ AcceptConnection \/ WorkerExec \/ DestroyClose \/ Exit
    /\ UNCHANGED acc \/ AcceptConnection \/ RegisterFirst \/ RegisterNext
    /\ UNCHANGED argFd \/ AcceptConnection
    /\ UNCHANGED acceptPc \/ RegisterFirst \/ RegisterNext \/ AcceptStop
    /\ UNCHANGED recv \/ AcceptConnection \/ \E t \in Conn : RecvStep(t)
    /\ UNCHANGED registry \/ RegisterFirst \/ RegisterNext \/ WorkerExec
    /\ UNCHANGED eq \/ HandleEvent \/ EndWaitOver \/ (\E f \in Fd : ResumeWaitOver(f))
                    \/ \E t \in Conn : RecvPost(t)
    /\ UNCHANGED aq \/ Submit \/ WorkerExec
    /\ UNCHANGED worker \/ RegisterFirst \/ WorkerStep
    /\ UNCHANGED endWait \/ WorkerExec \/ EndWaitOver
    /\ UNCHANGED resumeWait \/ WorkerExec \/ \E f \in Fd : ResumeWaitOver(f)
    /\ UNCHANGED mainPc \/ RegisterFirst \/ MainStep
    /\ UNCHANGED todo \/ MainStep
    /\ UNCHANGED <<players, endGame>> \/ HandleEvent \/ Update \/ Stop
    /\ UNCHANGED <<waitPending, revived>> \/ HandleEvent \/ EndDrain
    /\ UNCHANGED <<accepting, running>> \/ Stop
    /\ UNCHANGED destroyed \/ DestroyJoin

(* Every step of the server changes what Changes says, and nothing else.   *)
LEMMA WhoChanges == [Next]_vars => Changes
<1> USE DEF Changes, clientVars, kernelVars, acceptVars, gameVars, flagVars, waitVars, mainVars, serverVars, vars
<1> SUFFICES ASSUME [Next]_vars PROVE Changes
  OBVIOUS
<1>1. ASSUME NEW c \in Conn, Connect(c) PROVE Changes
  BY <1>1 DEF Connect, ClientStep, ClientSends
<1>2. ASSUME NEW c \in Conn, Hear(c) PROVE Changes
  BY <1>2 DEF Hear, ClientStep, ClientSends
<1>3. ASSUME NEW c \in Conn, MissRest(c) PROVE Changes
  BY <1>3 DEF MissRest, ClientStep, ClientSends
<1>4. ASSUME NEW c \in Conn, Play(c) PROVE Changes
  BY <1>4 DEF Play, ClientStep, ClientSends
<1>5. ASSUME NEW c \in Conn, Leave(c) PROVE Changes
  BY <1>5 DEF Leave, ClientStep, ClientSends
<1>6. ASSUME NEW c \in Conn, Stall(c) PROVE Changes
  BY <1>6 DEF Stall, ClientStep, ClientSends
<1>7. ASSUME NEW c \in Conn, Quit(c) PROVE Changes
  BY <1>7 DEF Quit, ClientStep, ClientSends
<1>8. ASSUME NEW t \in Conn, RecvStart(t) PROVE Changes
  BY <1>8 DEF RecvStart, RecvStep, RecvOnly, Post
<1>9. ASSUME NEW t \in Conn, RecvPost(t) PROVE Changes
  BY <1>9 DEF RecvPost, RecvStep, RecvOnly, Post
<1>10. ASSUME NEW t \in Conn, RecvHangup(t) PROVE Changes
  BY <1>10 DEF RecvHangup, RecvStep, RecvOnly, Post
<1>11. ASSUME NEW t \in Conn, RecvMessage(t) PROVE Changes
  BY <1>11 DEF RecvMessage, RecvStep, RecvOnly, Post
<1>12. ASSUME NEW t \in Conn, RecvStop(t) PROVE Changes
  BY <1>12 DEF RecvStop, RecvStep, RecvOnly, Post
<1>13. ASSUME AcceptConnection PROVE Changes
  BY <1>13 DEF AcceptConnection, AcceptStep, RegisterClient
<1>14. ASSUME RegisterFirst PROVE Changes
  BY <1>14 DEF RegisterFirst, AcceptStep, RegisterClient
<1>15. ASSUME RegisterNext PROVE Changes
  BY <1>15 DEF RegisterNext, AcceptStep, RegisterClient
<1>16. ASSUME AcceptStop PROVE Changes
  BY <1>16 DEF AcceptStop, AcceptStep, RegisterClient
<1>17. ASSUME WorkerExec PROVE Changes
  BY <1>17 DEF WorkerExec, WorkerStep, WorkerOnly, RemoveClient
<1>18. ASSUME WorkerJoin PROVE Changes
  BY <1>18 DEF WorkerJoin, WorkerStep, WorkerOnly, RemoveClient
<1>19. ASSUME WorkerStop PROVE Changes
  BY <1>19 DEF WorkerStop, WorkerStep, WorkerOnly, RemoveClient
<1>20. ASSUME Submit PROVE Changes
  BY <1>20 DEF Submit, MainStep, MainOnly, MainLocal
<1>21. ASSUME HandleEvent PROVE Changes
  BY <1>21 DEF HandleEvent, MainStep, MainOnly, MainLocal, OnConnected, OnInput, OnPaused, OnResumed, OnWaitedResume, OnDisconnected, OnWaitedEnd
<1>22. ASSUME StartGame PROVE Changes
  BY <1>22 DEF StartGame, MainStep, MainOnly, MainLocal
<1>23. ASSUME AwaitTimeout PROVE Changes
  BY <1>23 DEF AwaitTimeout, MainStep, MainOnly, MainLocal
<1>24. ASSUME BroadcastError PROVE Changes
  BY <1>24 DEF BroadcastError, MainStep, MainOnly, MainLocal, Broadcast
<1>25. ASSUME BroadcastSnapshot PROVE Changes
  BY <1>25 DEF BroadcastSnapshot, MainStep, MainOnly, MainLocal
<1>26. ASSUME Update PROVE Changes
  BY <1>26 DEF Update, MainStep, MainOnly, MainLocal
<1>27. ASSUME EndDrain PROVE Changes
  BY <1>27 DEF EndDrain, MainStep, MainOnly, MainLocal, ArmEndWait
<1>28. ASSUME BroadcastGameOver PROVE Changes
  BY <1>28 DEF BroadcastGameOver, MainStep, MainOnly, MainLocal, Broadcast
<1>29. ASSUME Stop PROVE Changes
  BY <1>29 DEF Stop, MainStep, MainOnly, MainLocal
<1>30. ASSUME JoinWorker PROVE Changes
  BY <1>30 DEF JoinWorker, MainStep, MainOnly, MainLocal
<1>31. ASSUME DestroyClose PROVE Changes
  BY <1>31 DEF DestroyClose, MainStep, MainOnly, MainLocal
<1>32. ASSUME DestroyJoin PROVE Changes
  BY <1>32 DEF DestroyJoin, MainStep, MainOnly, MainLocal
<1>33. ASSUME DestroyDone PROVE Changes
  BY <1>33 DEF DestroyDone, MainStep, MainOnly, MainLocal
<1>34. ASSUME Exit PROVE Changes
  BY <1>34 DEF Exit, MainStep, MainOnly, MainLocal
<1>35. ASSUME EndWaitOver PROVE Changes
  BY <1>35 DEF EndWaitOver
<1>36. ASSUME NEW f \in Fd, ResumeWaitOver(f) PROVE Changes
  BY <1>36 DEF ResumeWaitOver
<1>37. CASE UNCHANGED vars
  BY <1>37
<1> QED
  BY <1>1, <1>2, <1>3, <1>4, <1>5, <1>6, <1>7, <1>8, <1>9, <1>10, <1>11, <1>12, <1>13, <1>14, <1>15, <1>16, <1>17, <1>18, <1>19, <1>20, <1>21, <1>22, <1>23, <1>24, <1>25, <1>26, <1>27, <1>28, <1>29, <1>30, <1>31, <1>32, <1>33, <1>34, <1>35, <1>36, <1>37
  DEF Next, ClientStep, RecvStep, AcceptStep, WorkerStep, MainStep, Terminated

-----------------------------------------------------------------------------
(***************************************************************************)
(* Connections and descriptors.  A connection waits in the backlog or has  *)
(* one descriptor or neither; until it is accepted it has no thread.       *)
(***************************************************************************)
ClientTypes ==
    /\ client \in [Conn -> Modes] /\ sent \in [Conn -> 0 .. MaxSent]
    /\ inbox \in [Conn -> Seq(MsgTypes)] /\ mail \in [Conn -> Seq(MailTypes)]

KernelTypes ==
    /\ backlog \in Seq(Conn) /\ listening \in BOOLEAN
    /\ fdTable \in [Fd -> Conn \cup {NoConn}]

ConnInv ==
    /\ \A i, j \in DOMAIN backlog : backlog[i] = backlog[j] => i = j
    /\ \A f, g \in Fd : fdTable[f] = fdTable[g] /\ fdTable[f] # NoConn => f = g
    /\ \A i \in DOMAIN backlog, f \in Fd : fdTable[f] # backlog[i]
    /\ \A i \in DOMAIN backlog : recv[backlog[i]].pc = "none" /\ client[backlog[i]] # "none"
    /\ \A f \in Fd : fdTable[f] # NoConn => client[fdTable[f]] # "none"
    /\ \A c \in Conn : client[c] = "none" => recv[c].pc = "none"

(* The accept thread.                                                      *)
AcceptTypes ==
    /\ acc = NoAcc \/ (acc.conn \in Conn /\ acc.fd \in Fd /\ acc = [conn |-> acc.conn, fd |-> acc.fd])
    /\ argFd \in Fd \cup {NoFd} /\ acceptPc \in {"off", "poll", "done"}
    /\ \A t \in Conn : recv[t].pc # "none" => argFd \in Fd

(* The receiving threads: what a thread is about to tell is of its kind    *)
(* and about the descriptor it polls.                                      *)
FromClients == {"connected", "input", "paused", "resumed", "disconnected"}
RecvTypes ==
    /\ recv \in [Conn -> [pc : {"none", "start", "post", "poll", "done"},
                          fd : Fd \cup {NoFd}, ev : Events, last : BOOLEAN]]
    /\ \A t \in Conn :
         /\ recv[t].pc \in {"post", "poll"} => recv[t].fd \in Fd
         /\ recv[t].pc = "post" => /\ recv[t].ev.type \in FromClients
                                   /\ recv[t].ev.id = recv[t].fd
                                   /\ recv[t].ev.src = t

(* Only the end wait is about nobody.                                      *)
GoodEvents == {e \in Events : /\ e.type # "waited_end" => e.id \in Fd
                              /\ e.type = "connected" => e.src \in Conn}
GoodActions == {a \in Actions : a.type # "wait_end" => a.id \in Fd}

QueueTypes ==
    /\ eq \in Seq(GoodEvents) /\ Len(eq) <= MaxEvents
    /\ aq \in Seq(GoodActions) /\ Len(aq) <= MaxActions
    /\ todo \in Seq(GoodActions)

WorkerTypes ==
    /\ registry \in Seq([fd : Fd, thread : Conn])
    /\ worker \in [pc : {"off", "run", "join", "done"}, thread : Conn \cup {NoConn}]
    /\ worker.pc = "join" => worker.thread \in Conn
    /\ endWait \in Nat /\ resumeWait \in [Fd -> Nat]

Player == Records(Fd, Conn)
MainTypes ==
    /\ args \in Args
    /\ mainPc \in {"accept", "await", "broadcast", "update", "drain", "over", "error", "stop",
                   "join_worker", "destroy", "join_client", "join_accept", "done"}
    /\ players \in Seq(Player)
    /\ waitPending \in BOOLEAN /\ endGame \in BOOLEAN /\ revived \in BOOLEAN
    /\ accepting \in BOOLEAN /\ running \in BOOLEAN
    /\ destroyed \in Nat /\ destroyed <= Len(registry)
    /\ mainPc = "join_client" => destroyed < Len(registry)

TypeInv ==
    /\ ClientTypes /\ KernelTypes /\ ConnInv /\ AcceptTypes /\ RecvTypes
    /\ QueueTypes /\ WorkerTypes /\ MainTypes

-----------------------------------------------------------------------------
(* There are as many descriptors as connections, so while a connection     *)
(* waits one is free.                                                      *)
LEMMA FreeDescriptor ==
    ASSUME KernelTypes, ConnInv, backlog # <<>>
    PROVE  LET f == Min({g \in Fd : fdTable[g] = NoConn})
           IN  f \in Fd /\ fdTable[f] = NoConn
<1> DEFINE free == {g \in Fd : fdTable[g] = NoConn}
           c == Head(backlog)
<1>1. c \in Conn /\ 1 \in DOMAIN backlog /\ c = backlog[1]
  BY DEF KernelTypes
<1>2. IsFiniteSet(Conn) /\ NoConn \notin Conn
  BY ServerAssumption
<1>3. Cardinality(Conn) \in Nat
  BY <1>2, FS_CardinalityType
<1>4. free # {}
  <2> SUFFICES ASSUME free = {} PROVE FALSE
    OBVIOUS
  <2>1. fdTable \in [Fd -> Conn \ {c}]
    BY <1>1 DEF KernelTypes, ConnInv
  <2>2. IsFiniteSet(Conn \ {c}) /\ Cardinality(Conn \ {c}) = Cardinality(Conn) - 1
    BY <1>1, <1>2, FS_RemoveElement
  <2>3. IsFiniteSet(Fd) /\ Cardinality(Fd) = Cardinality(Conn)
    BY <1>3, FS_Interval DEF Fd
  <2>4. \E f, g \in Fd : f # g /\ fdTable[f] = fdTable[g]
    <3>1. Cardinality(Conn \ {c}) < Cardinality(Fd)
      BY <1>3, <2>2, <2>3
    <3> QED BY <2>1, <2>2, <2>3, <3>1, FS_PigeonHole
  <2>5. \A f \in Fd : fdTable[f] # NoConn
    OBVIOUS
  <2> QED BY <2>4, <2>5 DEF ConnInv
<1>5. free \subseteq Nat
  BY <1>3 DEF Fd
<1>6. Min(free) \in free
  <2> HIDE DEF free
  <2> QED BY <1>4, <1>5, LeastIndex
<1> QED BY <1>6

(* All types hold at the start.                                            *)
LEMMA ClientTypesInit == Init => TypeInv
<1> SUFFICES ASSUME Init PROVE TypeInv
  OBVIOUS
<1>1. ClientTypes /\ KernelTypes /\ ConnInv /\ AcceptTypes
  BY ServerAssumption DEF Init, ClientTypes, KernelTypes, ConnInv, AcceptTypes, Modes, Idle
<1>2. RecvTypes
  BY DEF Init, RecvTypes, Idle, Events, Event, EventTypes
<1>3. QueueTypes
  BY ServerAssumption, EmptySeq DEF Init, QueueTypes
<1>4. WorkerTypes
  BY EmptySeq DEF Init, WorkerTypes
<1>5. MainTypes
  <2>1. Len(registry) = 0 /\ players \in Seq(Player)
    BY EmptySeq DEF Init
  <2>2. /\ waitPending \in BOOLEAN /\ endGame \in BOOLEAN /\ revived \in BOOLEAN
        /\ accepting \in BOOLEAN /\ running \in BOOLEAN
    BY DEF Init
  <2>3. destroyed = 0 /\ mainPc = "accept" /\ args \in Args
    BY DEF Init
  <2> QED BY <2>1, <2>2, <2>3 DEF MainTypes
<1> QED BY <1>1, <1>2, <1>3, <1>4, <1>5 DEF TypeInv

-----------------------------------------------------------------------------
(* Types, part by part.                                                    *)

(* A request that is about a client names a descriptor.                    *)
LEMMA AqHead ==
    ASSUME QueueTypes, aq # <<>>
    PROVE  /\ Head(aq) \in GoodActions /\ Tail(aq) \in Seq(GoodActions)
           /\ Len(Tail(aq)) <= MaxActions
<1> QED BY ServerAssumption DEF QueueTypes

(* The event main takes is a proper one.                                   *)
LEMMA EqHead ==
    ASSUME QueueTypes, eq # <<>>
    PROVE  /\ Head(eq) \in GoodEvents /\ Tail(eq) \in Seq(GoodEvents)
           /\ Len(Tail(eq)) <= MaxEvents
<1> QED BY ServerAssumption DEF QueueTypes

(* Sending puts a message into one client's mail ...                       *)
LEMMA DeliveredType ==
    ASSUME ClientTypes, KernelTypes, NEW f \in Fd, NEW m \in MailTypes
    PROVE  Delivered(mail, f, m) \in [Conn -> Seq(MailTypes)]
<1> QED BY DEF ClientTypes, KernelTypes, Delivered

(* ... or, for a broadcast, into those of the first entries.               *)
LEMMA SentType ==
    ASSUME ClientTypes, NEW n, NEW m \in MailTypes
    PROVE  SentToFirst(n, m) \in [Conn -> Seq(MailTypes)]
<1>1. \A c \in Conn : mail[c] \in Seq(MailTypes) /\ Append(mail[c], m) \in Seq(MailTypes)
  BY DEF ClientTypes
<1> QED BY <1>1 DEF SentToFirst

(* accept() gives a waiting connection a free descriptor.                  *)
LEMMA Accepted ==
    ASSUME KernelTypes, ConnInv, AcceptConnection
    PROVE  \E f \in Fd, c \in Conn :
             /\ fdTable[f] = NoConn /\ c = Head(backlog) /\ backlog' = Tail(backlog)
             /\ fdTable' = [fdTable EXCEPT ![f] = c]
             /\ argFd' = f /\ acc' = [conn |-> c, fd |-> f]
             /\ recv' = [recv EXCEPT ![c].pc = "start"]
<1> DEFINE f == Min({g \in Fd : fdTable[g] = NoConn})
<1>1. backlog # <<>>
  BY DEF AcceptConnection
<1>2. f \in Fd /\ fdTable[f] = NoConn
  BY <1>1, FreeDescriptor
<1>3. Head(backlog) \in Conn
  BY <1>1 DEF KernelTypes
<1>4. /\ backlog' = Tail(backlog)
      /\ fdTable' = [fdTable EXCEPT ![f] = Head(backlog)]
      /\ argFd' = f /\ acc' = [conn |-> Head(backlog), fd |-> f]
      /\ recv' = [recv EXCEPT ![Head(backlog)].pc = "start"]
  BY DEF AcceptConnection
<1> HIDE DEF f
<1> QED BY <1>2, <1>3, <1>4

(* What a client sends lands among its unread messages.                    *)
LEMMA SendTypes ==
    ASSUME ClientTypes, NEW c \in Conn, NEW m \in MsgTypes, NEW mode \in Modes,
           ClientSends(c, m, mode)
    PROVE  client' \in [Conn -> Modes] /\ inbox' \in [Conn -> Seq(MsgTypes)] /\ mail' = mail
<1>1. inbox[c] \in Seq(MsgTypes)
  BY DEF ClientTypes
<1>2. Append(inbox[c], m) \in Seq(MsgTypes)
  BY <1>1
<1> QED BY <1>2 DEF ClientTypes, ClientSends

(* No step of a client breaks the types of the clients.                    *)
LEMMA ClientStepTypes ==
    ASSUME ClientTypes, NEW c \in Conn, ClientStep(c)
    PROVE  ClientTypes'
<1>0. /\ {"awaiting", "playing", "paused", "over", "leaving", "gone", "stalled"} \subseteq Modes
      /\ {"input", "pause", "resume", "leave"} \subseteq MsgTypes
      /\ <<>> \in Seq(MsgTypes) /\ <<>> \in Seq(MailTypes)
  BY EmptySeq DEF Modes, MsgTypes
<1>1. CASE Connect(c)
  BY <1>0, <1>1 DEF Connect, ClientTypes
<1>2. CASE Hear(c)
  <2>1. Tail(mail[c]) \in Seq(MailTypes)
    BY <1>2 DEF Hear, ClientTypes
  <2> QED BY <1>0, <1>2, <2>1 DEF Hear, ClientTypes
<1>3. CASE Play(c)
  <2>1. sent' \in [Conn -> 0 .. MaxSent]
    BY <1>3, ServerAssumption DEF Play, ClientTypes
  <2> QED BY <1>0, <1>3, <2>1, SendTypes DEF Play, ClientTypes
<1>4. CASE Leave(c)
  BY <1>0, <1>4, SendTypes DEF Leave, ClientTypes
<1>5. CASE MissRest(c)
  BY <1>0, <1>5 DEF MissRest, ClientTypes
<1>6. CASE Stall(c)
  BY <1>0, <1>6 DEF Stall, ClientTypes
<1>7. CASE Quit(c)
  BY <1>0, <1>7 DEF Quit, ClientTypes
<1> QED BY <1>1, <1>2, <1>3, <1>4, <1>5, <1>6, <1>7 DEF ClientStep

(* Nor does any step of the server.                                        *)
LEMMA ClientTypesStep == TypeInv /\ [Next]_vars => ClientTypes'
<1> SUFFICES ASSUME TypeInv, [Next]_vars PROVE ClientTypes'
  OBVIOUS
<1>0. Changes
  BY WhoChanges
<1>1. CASE \E c \in Conn : ClientStep(c)
  BY <1>1, ClientStepTypes DEF TypeInv
<1>2. CASE ~ \E c \in Conn : ClientStep(c)
  <2>1. UNCHANGED <<client, sent>>
    BY <1>0, <1>2 DEF Changes
  <2>2. inbox' \in [Conn -> Seq(MsgTypes)]
    <3>1. ASSUME NEW t \in Conn, RecvMessage(t) PROVE inbox' \in [Conn -> Seq(MsgTypes)]
      BY <3>1 DEF RecvMessage, TypeInv, ClientTypes, KernelTypes, RecvTypes
    <3> QED BY <1>0, <1>2, <3>1 DEF Changes, TypeInv, ClientTypes
  <2>3. mail' \in [Conn -> Seq(MailTypes)]
    <3> USE DEF TypeInv, MailTypes
    <3>1. CASE WorkerExec
      <4>1. Head(aq) \in GoodActions
        BY <3>1, AqHead DEF WorkerExec
      <4> QED BY <3>1, <4>1, DeliveredType DEF WorkerExec, GoodActions, ClientTypes
    <3>2. CASE BroadcastError \/ BroadcastGameOver
      BY <3>2, SentType DEF BroadcastError, BroadcastGameOver, Broadcast
    <3> QED BY <1>0, <1>2, <3>1, <3>2 DEF Changes, ClientTypes
  <2> QED BY <2>1, <2>2, <2>3 DEF TypeInv, ClientTypes
<1> QED BY <1>1, <1>2

(* Backlog and descriptors keep their types.                               *)
LEMMA KernelTypesStep == TypeInv /\ [Next]_vars => KernelTypes'
<1> SUFFICES ASSUME TypeInv, [Next]_vars PROVE KernelTypes'
  OBVIOUS
<1> USE DEF TypeInv, KernelTypes
<1>0. Changes
  BY WhoChanges
<1>1. backlog' \in Seq(Conn)
  <2>1. CASE AcceptConnection
    BY <2>1 DEF AcceptConnection
  <2>2. CASE RegisterFirst \/ Exit
    BY <2>2, EmptySeq DEF RegisterFirst, Exit
  <2>3. ASSUME NEW c \in Conn, Connect(c) PROVE backlog' \in Seq(Conn)
    BY <2>3 DEF Connect
  <2> QED BY <1>0, <2>1, <2>2, <2>3 DEF Changes
<1>2. listening' \in BOOLEAN
  BY <1>0 DEF Changes, RegisterFirst, Exit
<1>3. fdTable' \in [Fd -> Conn \cup {NoConn}]
  <2>1. CASE AcceptConnection
    BY <2>1, Accepted
  <2>2. CASE WorkerExec
    BY <2>2 DEF WorkerExec, RemoveClient
  <2>3. CASE DestroyClose \/ Exit
    BY <2>3 DEF DestroyClose, Exit
  <2> QED BY <1>0, <2>1, <2>2, <2>3 DEF Changes
<1> QED BY <1>1, <1>2, <1>3

(* The accept thread keeps its types: between accept() and register_client *)
(* it holds a connection and a descriptor.                                 *)
LEMMA AcceptTypesStep == TypeInv /\ [Next]_vars => AcceptTypes'
<1> SUFFICES ASSUME TypeInv, [Next]_vars PROVE AcceptTypes'
  OBVIOUS
<1> USE DEF TypeInv, AcceptTypes
<1>0. Changes
  BY WhoChanges
<1>1. CASE AcceptConnection
  <2>1. acceptPc' = acceptPc
    BY <1>1 DEF AcceptConnection
  <2> QED BY <1>1, <2>1, Accepted
<1>2. CASE RegisterFirst \/ RegisterNext
  <2>1. ~AcceptConnection
    BY <1>2 DEF RegisterFirst, RegisterNext, RegisterClient, AcceptConnection
  <2>2. argFd' = argFd
    BY <1>0, <2>1 DEF Changes
  <2>3. recv' = recv
    BY <1>2 DEF RegisterFirst, RegisterNext
  <2> QED BY <1>2, <2>2, <2>3 DEF RegisterFirst, RegisterNext, RegisterClient
<1>3. ASSUME NEW t \in Conn, RecvStep(t) PROVE AcceptTypes'
  <2>1. UNCHANGED <<acc, argFd, acceptPc>>
    BY <1>3 DEF RecvStep, RecvStart, RecvPost, RecvHangup, RecvMessage, RecvStop, RecvOnly, acceptVars
  <2>2. recv[t].pc # "none" /\ \A u \in Conn : u # t => recv'[u] = recv[u]
    BY <1>3 DEF RecvStep, RecvStart, RecvPost, RecvHangup, RecvMessage, RecvStop, Post, RecvTypes
  <2> QED BY <2>1, <2>2
<1>4. CASE AcceptStop
  BY <1>4 DEF AcceptStop
<1> QED BY <1>0, <1>1, <1>2, <1>3, <1>4 DEF Changes

-----------------------------------------------------------------------------
(* The receiving threads keep theirs: what a thread posts is about the     *)
(* descriptor it polls.                                                    *)
LEMMA RecvTypesStep == TypeInv /\ [Next]_vars => RecvTypes'
<1> SUFFICES ASSUME TypeInv, [Next]_vars PROVE RecvTypes'
  OBVIOUS
<1> USE DEF TypeInv, RecvTypes
<1>0. Changes
  BY WhoChanges
<1> DEFINE R == [pc : {"none", "start", "post", "poll", "done"},
                 fd : Fd \cup {NoFd}, ev : Events, last : BOOLEAN]
<1>1. CASE AcceptConnection
  <2>1. PICK c \in Conn : recv' = [recv EXCEPT ![c].pc = "start"]
    BY <1>1, Accepted
  <2>2. recv[c] \in R
    OBVIOUS
  <2> DEFINE q == [recv[c] EXCEPT !.pc = "start"]
  <2>3. q \in R /\ q.pc = "start"
    BY <2>2
  <2>4. recv' = [recv EXCEPT ![c] = q]
    BY <2>1
  <2> HIDE DEF q
  <2> QED BY <2>3, <2>4
<1>2. ASSUME NEW t \in Conn, RecvStep(t) PROVE RecvTypes'
  <2>0. recv[t] \in R /\ NoFd \in Fd \cup {NoFd} /\ NoConn \in Conn \cup {NoConn}
    OBVIOUS
  <2>1. ASSUME NEW f \in Fd, NEW type \in FromClients, NEW last \in BOOLEAN,
               Post(t, f, type, last)
        PROVE  RecvTypes'
    <3> DEFINE q == [pc |-> "post", fd |-> f, ev |-> Event(type, f, t), last |-> last]
    <3>1. q \in R /\ q.pc = "post" /\ q.fd = f /\ q.ev.type = type /\ q.ev.id = f /\ q.ev.src = t
      BY DEF Event, Events, FromClients, EventTypes
    <3>2. recv' = [recv EXCEPT ![t] = q]
      BY <2>1 DEF Post
    <3> HIDE DEF q
    <3> QED BY <3>1, <3>2
  <2>2. CASE RecvStart(t)
    BY <2>1, <2>2 DEF RecvStart, AcceptTypes, FromClients
  <2>3. CASE RecvPost(t)
    <3> DEFINE pc == IF running /\ ~recv[t].last THEN "poll" ELSE "done"
               q == [Idle EXCEPT !.pc = pc, !.fd = recv[t].fd]
    <3>1. q \in R /\ q.pc \in {"poll", "done"} /\ q.fd = recv[t].fd /\ recv[t].fd \in Fd
      BY <2>0, <2>3 DEF Idle, Event, Events, EventTypes, RecvPost
    <3>2. recv' = [recv EXCEPT ![t] = q]
      BY <2>3 DEF RecvPost
    <3> HIDE DEF q
    <3> QED BY <3>1, <3>2
  <2>4. CASE RecvHangup(t)
    BY <2>1, <2>4 DEF RecvHangup, FromClients
  <2>5. CASE RecvMessage(t)
    <3> DEFINE c == fdTable[recv[t].fd]
    <3>1. recv[t].fd \in Fd /\ c # NoConn /\ inbox[c] # <<>>
      BY <2>5 DEF RecvMessage
    <3>2. Head(inbox[c]) \in MsgTypes
      BY <3>1 DEF KernelTypes, ClientTypes
    <3>3. MsgToEvent[Head(inbox[c])] \in FromClients
      BY <3>2 DEF MsgToEvent, MsgTypes, FromClients
    <3>4. Post(t, recv[t].fd, MsgToEvent[Head(inbox[c])], FALSE)
      BY <2>5 DEF RecvMessage
    <3> QED BY <2>1, <3>1, <3>3, <3>4
  <2>6. CASE RecvStop(t)
    <3> DEFINE q == [recv[t] EXCEPT !.pc = "done"]
    <3>1. q \in R /\ q.pc = "done"
      BY <2>0
    <3>2. recv' = [recv EXCEPT ![t] = q]
      BY <2>6 DEF RecvStop
    <3> HIDE DEF q
    <3> QED BY <3>1, <3>2
  <2> QED BY <1>2, <2>2, <2>3, <2>4, <2>5, <2>6 DEF RecvStep
<1> QED BY <1>0, <1>1, <1>2 DEF Changes

(* What one element of the array of players is like.                       *)
LEMMA PlayerAt ==
    ASSUME NEW ps \in Seq(Player)
    PROVE  /\ DOMAIN ps = 1 .. Len(ps) /\ Len(ps) \in Nat
           /\ \A i \in 1 .. Len(ps) : /\ ps[i] \in Player /\ ps[i].id \in Fd /\ ps[i].conn \in Conn
                                      /\ ps[i].paused \in BOOLEAN /\ ps[i].pending \in BOOLEAN
<1>1. \A i \in 1 .. Len(ps) : ps[i] \in Player
  OBVIOUS
<1>2. DOMAIN ps = 1 .. Len(ps) /\ Len(ps) \in Nat
  OBVIOUS
<1> QED BY <1>1, <1>2 DEF Player, Records

(* What the handlers of events do to the players and ask for.              *)
LEMMA HandleEventTypes ==
    ASSUME TypeInv, HandleEvent
    PROVE  players' \in Seq(Player) /\ todo' \in Seq(GoodActions) /\ waitPending' \in BOOLEAN
           /\ revived' \in BOOLEAN
<1> DEFINE ev == Head(eq)
<1>0. ev \in GoodEvents
  BY EqHead DEF HandleEvent, TypeInv
<1>1. \/ OnConnected(ev) \/ OnInput(ev) \/ OnPaused(ev) \/ OnResumed(ev)
      \/ OnWaitedResume(ev) \/ OnDisconnected(ev) \/ OnWaitedEnd(ev)
  BY DEF HandleEvent
<1> HIDE DEF ev
<1>2. /\ players \in Seq(Player) /\ todo \in Seq(GoodActions)
      /\ waitPending \in BOOLEAN /\ revived \in BOOLEAN
  BY DEF TypeInv, MainTypes, QueueTypes
<1>3. ASSUME NEW type \in {"send_ready", "wait_paused", "unregister"}, ev.id \in Fd
      PROVE  <<Act(type, ev.id)>> \in Seq(GoodActions)
  BY <1>3 DEF GoodActions, Act, Actions, ActTypes
<1>4. CASE OnConnected(ev)
  <2>1. ev.id \in Fd /\ ev.src \in Conn
    BY <1>0, <1>4 DEF OnConnected, GoodEvents
  <2>2. NewPlayer(ev.id, ev.src) \in Player
    BY <2>1 DEF NewPlayer, Records, Player
  <2>3. players' \in Seq(Player)
    BY <1>2, <1>4, <2>2, AppendProperties DEF OnConnected, AddPlayer
  <2> QED BY <1>2, <1>3, <1>4, <2>1, <2>3 DEF OnConnected
<1>5. CASE OnInput(ev)
  BY <1>2, <1>5 DEF OnInput
<1>6. CASE OnPaused(ev)
  BY <1>2, <1>6, PauseValue DEF OnPaused, Player
<1>7. CASE OnResumed(ev)
  <2>1. ev.id \in Fd
    BY <1>0, <1>7 DEF OnResumed, GoodEvents
  <2> QED BY <1>2, <1>3, <1>7, <2>1, ScheduleValue DEF OnResumed, Player
<1>8. CASE OnWaitedResume(ev)
  BY <1>2, <1>8, ResumeValue DEF OnWaitedResume, Player
<1>9. CASE OnDisconnected(ev)
  <2>1. ev.id \in Fd
    BY <1>0, <1>9 DEF OnDisconnected, GoodEvents
  <2> QED BY <1>2, <1>3, <1>9, <2>1, RemovePlayerValue DEF OnDisconnected
<1>10. CASE OnWaitedEnd(ev)
  BY <1>2, <1>10 DEF OnWaitedEnd
<1> QED BY <1>1, <1>4, <1>5, <1>6, <1>7, <1>8, <1>9, <1>10

(* The players that die in a tick: an array of ids, all of them players'.  *)
LEMMA DeadOnes ==
    ASSUME players \in Seq(Player), Update
    PROVE  \E which, dead :
             /\ which \in Seq(DOMAIN players) /\ dead \in Seq(Fd) /\ Len(dead) = Len(which)
             /\ \A k \in 1 .. Len(dead) : dead[k] = players[which[k]].id
             /\ todo' = [k \in 1 .. Len(dead) |-> Act("send_over", dead[k])]
             /\ players' = RemovePlayers(players, dead)
<1>1. PICK D \in MayDie :
        LET which == IndicesIn(D)
            dead  == [k \in DOMAIN which |-> players[which[k]].id]
        IN  /\ todo' = [k \in DOMAIN dead |-> Act("send_over", dead[k])]
            /\ players' = RemovePlayers(players, dead)
  BY DEF Update
<1> DEFINE which == IndicesIn(D)
           dead  == [k \in DOMAIN which |-> players[which[k]].id]
           all   == [i \in DOMAIN players |-> i]
<1>2. DOMAIN players = 1 .. Len(players) /\ Len(players) \in Nat
  OBVIOUS
<1>3. all \in Seq(DOMAIN players)
  BY <1>2
<1>4. which \in Seq(DOMAIN players)
  <2>1. Keep(all, D) \in Seq(DOMAIN players \cap D)
    BY <1>3, KeepType
  <2>2. DOMAIN players \cap D \subseteq DOMAIN players
    OBVIOUS
  <2> HIDE DEF all
  <2>3. Keep(all, D) \in Seq(DOMAIN players)
    BY <2>1, <2>2, SeqMonotonic
  <2> QED BY <2>3 DEF IndicesIn, all
<1> HIDE DEF which
<1>5. DOMAIN which = 1 .. Len(which) /\ Len(which) \in Nat
      /\ \A k \in 1 .. Len(which) : which[k] \in DOMAIN players
  BY <1>4
<1>6. \A i \in DOMAIN players : players[i].id \in Fd
  BY PlayerAt
<1>7. dead \in Seq(Fd) /\ Len(dead) = Len(which) /\ DOMAIN dead = 1 .. Len(dead)
      /\ \A k \in 1 .. Len(dead) : dead[k] = players[which[k]].id
  BY <1>5, <1>6
<1>8. todo' = [k \in DOMAIN dead |-> Act("send_over", dead[k])] /\ players' = RemovePlayers(players, dead)
  BY <1>1 DEF which
<1> HIDE DEF dead
<1>9. todo' = [k \in 1 .. Len(dead) |-> Act("send_over", dead[k])]
  BY <1>7, <1>8
<1> QED BY <1>4, <1>7, <1>8, <1>9

(* A tick leaves an array of players and asks for proper things.           *)
LEMMA UpdateTypes ==
    ASSUME TypeInv, Update
    PROVE  players' \in Seq(Player) /\ todo' \in Seq(GoodActions)
<1>0. players \in Seq(Player)
  BY DEF TypeInv, MainTypes
<1>1. PICK dead \in Seq(Fd) :
        /\ todo' = [k \in 1 .. Len(dead) |-> Act("send_over", dead[k])]
        /\ players' = RemovePlayers(players, dead)
  BY <1>0, DeadOnes
<1>2. \A k \in 1 .. Len(dead) : Act("send_over", dead[k]) \in GoodActions
  BY DEF GoodActions, Act, Actions, ActTypes
<1>3. todo' \in Seq(GoodActions)
  <2>1. Len(dead) \in Nat
    OBVIOUS
  <2> QED BY <1>1, <1>2, <2>1
<1>4. ClosedUnderRemoval(Seq(Player), Fd)
  BY RemovePlayerValue DEF ClosedUnderRemoval
<1>5. RemovePlayers(players, dead) \in Seq(Player)
  BY <1>0, <1>4, RemovePlayersKeeps
<1> QED BY <1>1, <1>3, <1>5

(* Both queues and what main is about to ask for keep their types, and the *)
(* queues their bounds.                                                    *)
LEMMA QueueTypesStep == TypeInv /\ [Next]_vars => QueueTypes'
<1> SUFFICES ASSUME TypeInv, [Next]_vars PROVE QueueTypes'
  OBVIOUS
<1>0. Changes /\ QueueTypes
  BY WhoChanges DEF TypeInv
<1>1. eq' \in Seq(GoodEvents) /\ Len(eq') <= MaxEvents
  <2>1. ASSUME NEW e \in GoodEvents, Len(eq) < MaxEvents, eq' = Append(eq, e)
        PROVE  eq' \in Seq(GoodEvents) /\ Len(eq') <= MaxEvents
    <3>1. eq \in Seq(GoodEvents)
      BY <1>0 DEF QueueTypes
    <3>2. eq' \in Seq(GoodEvents) /\ Len(eq') = Len(eq) + 1
      BY <2>1, <3>1, AppendProperties
    <3> QED BY <2>1, <3>1, <3>2, ServerAssumption
  <2>2. CASE HandleEvent
    BY <1>0, <2>2, EqHead DEF HandleEvent
  <2>3. CASE EndWaitOver
    <3>1. Event("waited_end", NoFd, NoConn) \in GoodEvents
      BY DEF Event, GoodEvents, Events, EventTypes
    <3> QED BY <2>1, <2>3, <3>1 DEF EndWaitOver
  <2>4. ASSUME NEW f \in Fd, ResumeWaitOver(f) PROVE eq' \in Seq(GoodEvents) /\ Len(eq') <= MaxEvents
    <3>1. Event("waited_resume", f, NoConn) \in GoodEvents
      BY DEF Event, GoodEvents, Events, EventTypes
    <3> QED BY <2>1, <2>4, <3>1 DEF ResumeWaitOver
  <2>5. ASSUME NEW t \in Conn, RecvPost(t) PROVE eq' \in Seq(GoodEvents) /\ Len(eq') <= MaxEvents
    <3>1. recv[t].ev \in Events /\ recv[t].ev.id \in Fd /\ recv[t].ev.src \in Conn
      BY <2>5 DEF RecvPost, TypeInv, RecvTypes
    <3>2. recv[t].ev \in GoodEvents
      BY <3>1 DEF GoodEvents
    <3> QED BY <2>1, <2>5, <3>2 DEF RecvPost
  <2> QED BY <1>0, <2>2, <2>3, <2>4, <2>5 DEF Changes, QueueTypes
<1>2. aq' \in Seq(GoodActions) /\ Len(aq') <= MaxActions
  <2>1. CASE Submit
    <3>1. aq \in Seq(GoodActions) /\ Head(todo) \in GoodActions /\ Len(aq) < MaxActions
      BY <1>0, <2>1 DEF QueueTypes, Submit
    <3>2. aq' \in Seq(GoodActions) /\ Len(aq') = Len(aq) + 1
      BY <2>1, <3>1, AppendProperties DEF Submit
    <3> QED BY <3>1, <3>2, ServerAssumption
  <2>2. CASE WorkerExec
    BY <1>0, <2>2, AqHead DEF WorkerExec
  <2> QED BY <1>0, <2>1, <2>2 DEF Changes, QueueTypes
<1>3. todo' \in Seq(GoodActions)
  <2>0. todo \in Seq(GoodActions)
    BY <1>0 DEF QueueTypes
  <2>1. CASE Submit
    BY <2>0, <2>1 DEF Submit
  <2>2. CASE HandleEvent
    BY <2>2, HandleEventTypes
  <2>3. CASE BroadcastSnapshot
    <3>1. \A i \in DOMAIN players : Act("send_state", players[i].id) \in GoodActions
      BY PlayerAt DEF TypeInv, MainTypes, GoodActions, Act, Actions, ActTypes
    <3>2. DOMAIN players = 1 .. Len(players) /\ Len(players) \in Nat
      BY DEF TypeInv, MainTypes
    <3> QED BY <2>3, <3>1, <3>2 DEF BroadcastSnapshot
  <2>4. CASE Update
    BY <2>4, UpdateTypes
  <2>5. CASE EndDrain
    <3>1. <<Act("wait_end", NoFd)>> \in Seq(GoodActions)
      BY DEF GoodActions, Act, Actions, ActTypes
    <3> QED BY <2>0, <2>5, <3>1 DEF EndDrain, ArmEndWait
  <2>6. CASE UNCHANGED todo
    BY <2>0, <2>6
  <2>7. MainStep => UNCHANGED todo \/ Submit \/ HandleEvent \/ BroadcastSnapshot \/ Update \/ EndDrain
    BY DEF MainStep, StartGame, AwaitTimeout, BroadcastError, BroadcastGameOver, Stop, JoinWorker,
           DestroyClose, DestroyJoin, DestroyDone, Exit
  <2> QED BY <1>0, <2>1, <2>2, <2>3, <2>4, <2>5, <2>6, <2>7 DEF Changes
<1> QED BY <1>1, <1>2, <1>3 DEF QueueTypes

-----------------------------------------------------------------------------
Entry == [fd : Fd, thread : Conn]
EntryIndex(f) == SelectInSeq(registry, LAMBDA e : e.fd = f)

(* remove_client finds an entry with the descriptor, or none.              *)
LEMMA EntryIndexValue ==
    ASSUME registry \in Seq(Entry), NEW f
    PROVE  /\ EntryIndex(f) = 0 => \A k \in 1 .. Len(registry) : registry[k].fd # f
           /\ EntryIndex(f) # 0 => /\ EntryIndex(f) \in 1 .. Len(registry)
                                   /\ registry[EntryIndex(f)].fd = f
<1> DEFINE I == {k \in 1 .. Len(registry) : registry[k].fd = f}
<1>1. EntryIndex(f) = IF I # {} THEN Min(I) ELSE 0
  BY DEF EntryIndex, SelectInSeq
<1>2. Len(registry) \in Nat /\ I \subseteq Nat /\ I \subseteq 1 .. Len(registry)
  OBVIOUS
<1>3. CASE I = {}
  BY <1>1, <1>3
<1>4. CASE I # {}
  <2>1. Min(I) \in I
    <3> HIDE DEF I
    <3> QED BY <1>2, <1>4, LeastIndex
  <2>2. Min(I) \in 1 .. Len(registry) /\ registry[Min(I)].fd = f
    BY <2>1
  <2>3. EntryIndex(f) = Min(I)
    BY <1>1, <1>4
  <2> HIDE DEF I
  <2> QED BY <1>2, <2>2, <2>3
<1> QED BY <1>3, <1>4

(* remove_client: the entry of f goes, the last one takes its place, f is  *)
(* closed and the worker joins the entry's thread.                         *)
LEMMA RemoveClientValue ==
    ASSUME registry \in Seq(Entry), NEW f, RemoveClient(f)
    PROVE  \/ UNCHANGED <<registry, fdTable, worker>> /\ \A k \in 1 .. Len(registry) : registry[k].fd # f
           \/ \E i \in 1 .. Len(registry) :
                 /\ registry[i].fd = f /\ registry' \in Seq(Entry)
                 /\ Len(registry') = Len(registry) - 1
                 /\ \A k \in 1 .. Len(registry) - 1 :
                       registry'[k] = IF k = i THEN registry[Len(registry)] ELSE registry[k]
                 /\ fdTable' = [fdTable EXCEPT ![f] = NoConn]
                 /\ worker' = [pc |-> "join", thread |-> registry[i].thread]
<1> DEFINE i == EntryIndex(f)
           n == Len(registry)
<1>1. IF i = 0 THEN UNCHANGED <<registry, fdTable, worker>>
      ELSE /\ registry' = SubSeq([registry EXCEPT ![i] = registry[n]], 1, n - 1)
           /\ fdTable' = [fdTable EXCEPT ![f] = NoConn]
           /\ worker' = [pc |-> "join", thread |-> registry[i].thread]
  BY DEF RemoveClient, EntryIndex
<1>2. /\ i = 0 => \A k \in 1 .. n : registry[k].fd # f
      /\ i # 0 => i \in 1 .. n /\ registry[i].fd = f
  BY EntryIndexValue
<1> HIDE DEF i
<1>3. CASE i = 0
  BY <1>1, <1>2, <1>3
<1>4. CASE i # 0
  <2>1. i \in 1 .. n /\ n \in 1 .. n /\ n \in Nat /\ registry[n] \in Entry
    BY <1>2, <1>4
  <2> DEFINE r == [registry EXCEPT ![i] = registry[n]]
  <2>2. /\ r \in Seq(Entry) /\ Len(r) = n
        /\ \A k \in 1 .. n : r[k] = IF k = i THEN registry[n] ELSE registry[k]
    BY <2>1, ExceptSeq
  <2> HIDE DEF r
  <2>3. /\ SubSeq(r, 1, n - 1) \in Seq(Entry) /\ Len(SubSeq(r, 1, n - 1)) = n - 1
        /\ \A k \in 1 .. n - 1 : SubSeq(r, 1, n - 1)[k] = r[k]
    BY <2>1, <2>2
  <2>4. registry' = SubSeq(r, 1, n - 1)
    BY <1>1, <1>4 DEF r
  <2>5. \A k \in 1 .. n - 1 : k \in 1 .. n
    BY <2>1
  <2> QED BY <1>1, <1>2, <1>4, <2>1, <2>2, <2>3, <2>4, <2>5
<1> QED BY <1>3, <1>4

(* The registry, the worker and the waiting threads keep their types.      *)
LEMMA WorkerTypesStep == TypeInv /\ [Next]_vars => WorkerTypes'
<1> SUFFICES ASSUME TypeInv, [Next]_vars PROVE WorkerTypes'
  OBVIOUS
<1>0. Changes /\ WorkerTypes
  BY WhoChanges DEF TypeInv
<1>00. registry \in Seq(Entry) /\ worker.pc \in {"off", "run", "join", "done"}
  BY <1>0 DEF WorkerTypes, Entry
<1>1. CASE RegisterFirst \/ RegisterNext
  <2>1. acc.conn \in Conn /\ acc.fd \in Fd
    BY <1>1 DEF TypeInv, AcceptTypes, RegisterFirst, RegisterNext, RegisterClient
  <2>2. [fd |-> acc.fd, thread |-> acc.conn] \in Entry
    BY <2>1 DEF Entry
  <2>3. registry' \in Seq(Entry)
    BY <1>00, <1>1, <2>2, AppendProperties DEF RegisterFirst, RegisterNext, RegisterClient
  <2> QED BY <1>0, <1>1, <2>3 DEF WorkerTypes, RegisterFirst, RegisterNext, waitVars, Entry
<1>2. CASE WorkerExec
  <2>0. Head(aq) \in GoodActions
    BY <1>2, AqHead DEF WorkerExec, TypeInv
  <2>1. CASE RemoveClient(Head(aq).id) /\ UNCHANGED waitVars
    <3>1. CASE UNCHANGED <<registry, fdTable, worker>>
      BY <1>0, <2>1, <3>1 DEF WorkerTypes, waitVars
    <3>2. CASE ~UNCHANGED <<registry, fdTable, worker>>
      <4>1. PICK i \in 1 .. Len(registry) :
              registry' \in Seq(Entry) /\ worker' = [pc |-> "join", thread |-> registry[i].thread]
        BY <1>00, <2>1, <3>2, RemoveClientValue
      <4>2. registry[i] \in Entry
        BY <1>00
      <4>3. registry[i].thread \in Conn
        BY <4>2 DEF Entry
      <4> QED BY <1>0, <2>1, <4>1, <4>3 DEF WorkerTypes, waitVars, Entry
    <3> QED BY <3>1, <3>2
  <2>2. CASE UNCHANGED <<registry, worker>> /\ UNCHANGED waitVars
    BY <1>0, <2>2 DEF WorkerTypes, waitVars
  <2>3. CASE /\ UNCHANGED <<registry, worker>> /\ endWait' = endWait + 1 /\ UNCHANGED resumeWait
    BY <1>0, <2>3 DEF WorkerTypes
  <2>4. CASE /\ UNCHANGED <<registry, worker>> /\ UNCHANGED endWait /\ Head(aq).type = "wait_paused"
             /\ resumeWait' = [resumeWait EXCEPT ![Head(aq).id] = @ + 1]
    <3>1. PICK f \in Fd : f = Head(aq).id
      BY <2>0, <2>4 DEF GoodActions
    <3>2. resumeWait \in [Fd -> Nat]
      BY <1>0 DEF WorkerTypes
    <3>3. resumeWait' = [resumeWait EXCEPT ![f] = resumeWait[f] + 1]
      BY <2>4, <3>1
    <3>4. resumeWait' \in [Fd -> Nat]
      BY <3>2, <3>3
    <3> QED BY <1>0, <2>4, <3>4 DEF WorkerTypes
  <2> QED BY <1>2, <2>1, <2>2, <2>3, <2>4 DEF WorkerExec
<1>3. CASE WorkerJoin
  <2>1. worker' = [pc |-> "run", thread |-> NoConn] /\ UNCHANGED <<registry, endWait, resumeWait>>
    BY <1>3 DEF WorkerJoin, waitVars
  <2> QED BY <1>0, <2>1 DEF WorkerTypes
<1>4. CASE WorkerStop
  <2>1. worker' = [worker EXCEPT !.pc = "done"] /\ UNCHANGED <<registry, endWait, resumeWait>>
    BY <1>4 DEF WorkerStop, waitVars
  <2> QED BY <1>0, <2>1 DEF WorkerTypes
<1>5. CASE EndWaitOver
  <2>1. endWait > 0 /\ endWait' = endWait - 1 /\ UNCHANGED <<registry, worker, resumeWait>>
    BY <1>5 DEF EndWaitOver
  <2> QED BY <1>0, <2>1 DEF WorkerTypes
<1>6. ASSUME NEW f \in Fd, ResumeWaitOver(f) PROVE WorkerTypes'
  <2>1. /\ resumeWait[f] > 0 /\ resumeWait' = [resumeWait EXCEPT ![f] = @ - 1]
        /\ UNCHANGED <<registry, worker, endWait>>
    BY <1>6 DEF ResumeWaitOver
  <2> QED BY <1>0, <2>1 DEF WorkerTypes
<1>7. CASE UNCHANGED <<registry, worker, endWait, resumeWait>>
  BY <1>0, <1>7 DEF WorkerTypes
<1> QED BY <1>0, <1>1, <1>2, <1>3, <1>4, <1>5, <1>6, <1>7 DEF Changes, WorkerStep

-----------------------------------------------------------------------------
(* Only the worker takes entries out of the registry.                      *)
LEMMA RegistryGrows ==
    ASSUME TypeInv, [Next]_vars
    PROVE  \/ WorkerExec
           \/ Len(registry') \in Nat /\ Len(registry) \in Nat /\ Len(registry) <= Len(registry')
<1>0. Changes /\ registry \in Seq(Entry)
  BY WhoChanges DEF TypeInv, WorkerTypes, Entry
<1>1. CASE RegisterFirst \/ RegisterNext
  <2>1. acc.conn \in Conn /\ acc.fd \in Fd
    BY <1>1 DEF TypeInv, AcceptTypes, RegisterFirst, RegisterNext, RegisterClient
  <2>2. [fd |-> acc.fd, thread |-> acc.conn] \in Entry
    BY <2>1 DEF Entry
  <2>3. registry' = Append(registry, [fd |-> acc.fd, thread |-> acc.conn])
    BY <1>1 DEF RegisterFirst, RegisterNext, RegisterClient
  <2>4. Len(registry') = Len(registry) + 1 /\ Len(registry) \in Nat
    BY <1>0, <2>2, <2>3, AppendProperties
  <2> QED BY <2>4
<1>2. CASE UNCHANGED registry
  BY <1>0, <1>2
<1> QED BY <1>0, <1>1, <1>2 DEF Changes

(***************************************************************************)
(* The phases of main, the worker and shutdown.                            *)
(***************************************************************************)
Destroying == {"destroy", "join_client", "join_accept", "done"}
Late == {"join_worker"} \cup Destroying

PhaseInv ==
    /\ mainPc \in Late => todo = <<>>
    /\ ~running => mainPc \in Late
    /\ worker.pc = "done" => aq = <<>> /\ ~running
    /\ mainPc \in Destroying => worker.pc = "done"
    /\ destroyed # 0 => mainPc \in Destroying

(* The phases are kept.                                                    *)
LEMMA PhaseStep == TypeInv /\ PhaseInv /\ [Next]_vars => PhaseInv'
<1> SUFFICES ASSUME TypeInv, PhaseInv, [Next]_vars PROVE PhaseInv'
  OBVIOUS
<1>0. Changes
  BY WhoChanges
<1>1. CASE RegisterFirst
  <2>1. worker.pc # "done" /\ mainPc \notin Late /\ mainPc' = "await" /\ worker'.pc = "run"
    BY <1>1 DEF RegisterFirst, PhaseInv, Late, Destroying, TypeInv, WorkerTypes
  <2>2. UNCHANGED <<aq, todo, running, destroyed>>
    BY <1>1 DEF RegisterFirst, flagVars
  <2> QED BY <2>1, <2>2 DEF PhaseInv, Late, Destroying
<1>2. CASE WorkerStep
  <2>1. UNCHANGED <<mainPc, todo, running, destroyed>>
    BY <1>2 DEF WorkerStep, WorkerExec, WorkerJoin, WorkerStop, WorkerOnly, mainVars, flagVars
  <2>2. worker.pc # "done"
    BY <1>2 DEF WorkerStep, WorkerExec, WorkerJoin, WorkerStop
  <2>3. worker'.pc = "done" => aq' = <<>> /\ ~running
    <3>1. CASE WorkerExec
      <4>1. worker' = worker \/ worker'.pc = "join"
        <5>1. registry \in Seq(Entry)
          BY DEF TypeInv, WorkerTypes, Entry
        <5>2. ASSUME NEW f, RemoveClient(f) PROVE worker' = worker \/ worker'.pc = "join"
          BY <5>1, <5>2, RemoveClientValue
        <5> QED BY <3>1, <5>2 DEF WorkerExec
      <4> QED BY <2>2, <4>1
    <3>2. CASE WorkerJoin
      BY <3>2 DEF WorkerJoin
    <3>3. CASE WorkerStop
      BY <3>3 DEF WorkerStop
    <3> QED BY <1>2, <3>1, <3>2, <3>3 DEF WorkerStep
  <2> QED BY <2>1, <2>2, <2>3 DEF PhaseInv
<1>3. CASE MainStep
  <2>0. UNCHANGED worker
    BY <1>3 DEF MainStep, Submit, HandleEvent, StartGame, AwaitTimeout, BroadcastError, BroadcastSnapshot,
                Update, EndDrain, BroadcastGameOver, Stop, JoinWorker, DestroyClose, DestroyJoin,
                DestroyDone, Exit, MainLocal, MainOnly
  <2>1. CASE Submit
    BY <2>0, <2>1 DEF Submit, PhaseInv, flagVars
  <2>2. CASE HandleEvent
    BY <2>0, <2>2 DEF HandleEvent, At, PhaseInv, Late, Destroying, flagVars
  <2>3. CASE StartGame \/ AwaitTimeout \/ BroadcastSnapshot \/ Update \/ EndDrain
    BY <2>0, <2>3 DEF StartGame, AwaitTimeout, BroadcastSnapshot, Update, EndDrain, At, PhaseInv, Late,
                Destroying, MainLocal, flagVars
  <2>4. CASE BroadcastError \/ BroadcastGameOver
    BY <2>0, <2>4 DEF BroadcastError, BroadcastGameOver, At, PhaseInv, Late, Destroying, MainLocal, flagVars
  <2>5. CASE Stop \/ JoinWorker
    BY <2>0, <2>5 DEF Stop, JoinWorker, At, PhaseInv, Late, Destroying, MainLocal, flagVars
  <2>6. CASE DestroyClose \/ DestroyJoin \/ DestroyDone \/ Exit
    BY <2>0, <2>6 DEF DestroyClose, DestroyJoin, DestroyDone, Exit, At, PhaseInv, Late, Destroying,
                MainLocal, flagVars
  <2> QED BY <1>3, <2>1, <2>2, <2>3, <2>4, <2>5, <2>6 DEF MainStep
<1>4. CASE UNCHANGED <<mainPc, todo, running, worker, aq, destroyed>>
  BY <1>4 DEF PhaseInv
<1>5. \/ RegisterFirst \/ WorkerStep \/ MainStep
      \/ UNCHANGED <<mainPc, todo, running, worker, aq, destroyed>>
  BY <1>0 DEF Changes, WorkerStep, MainStep
<1> QED BY <1>1, <1>2, <1>3, <1>4, <1>5

(* Main keeps its types: in particular registry_destroy never counts past  *)
(* the entries, since the worker, which could take some out, has ended by  *)
(* then (PhaseInv).                                                        *)
LEMMA MainTypesStep == TypeInv /\ PhaseInv /\ [Next]_vars => MainTypes'
<1> SUFFICES ASSUME TypeInv, PhaseInv, [Next]_vars PROVE MainTypes'
  OBVIOUS
<1>0. Changes /\ MainTypes
  BY WhoChanges DEF TypeInv
<1>1. args' \in Args
  BY <1>0 DEF Changes, MainTypes
<1>2. mainPc' \in {"accept", "await", "broadcast", "update", "drain", "over", "error", "stop",
                   "join_worker", "destroy", "join_client", "join_accept", "done"}
  <2>1. CASE MainStep
    BY <1>0, <2>1 DEF MainTypes, MainStep, Submit, HandleEvent, StartGame, AwaitTimeout, BroadcastError,
                BroadcastSnapshot, Update, EndDrain, BroadcastGameOver, Stop, JoinWorker, DestroyClose,
                DestroyJoin, DestroyDone, Exit
  <2> QED BY <1>0, <2>1 DEF Changes, MainTypes, RegisterFirst
<1>3. players' \in Seq(Player) /\ endGame' \in BOOLEAN
  <2>1. CASE HandleEvent
    BY <2>1, HandleEventTypes DEF HandleEvent
  <2>2. CASE Update
    BY <2>2, UpdateTypes DEF Update
  <2>3. CASE Stop
    BY <1>0, <2>3, EmptySeq DEF Stop, MainTypes
  <2> QED BY <1>0, <2>1, <2>2, <2>3 DEF Changes, MainTypes
<1>4. waitPending' \in BOOLEAN /\ revived' \in BOOLEAN
  <2>1. CASE HandleEvent
    BY <2>1, HandleEventTypes
  <2>2. CASE EndDrain
    BY <1>0, <2>2 DEF EndDrain, ArmEndWait, MainTypes
  <2> QED BY <1>0, <2>1, <2>2 DEF Changes, MainTypes
<1>5. accepting' \in BOOLEAN /\ running' \in BOOLEAN
  BY <1>0 DEF Changes, MainTypes, Stop
<1>6. /\ destroyed' \in Nat /\ destroyed' <= Len(registry')
      /\ mainPc' = "join_client" => destroyed' < Len(registry')
  <2>0. registry' \in Seq(Entry) /\ registry \in Seq(Entry)
    BY WorkerTypesStep DEF WorkerTypes, Entry, TypeInv
  <2>1. CASE WorkerExec
    <3>1. destroyed = 0 /\ destroyed' = destroyed /\ mainPc' = mainPc /\ mainPc # "join_client"
      BY <2>1 DEF WorkerExec, WorkerOnly, mainVars, flagVars, PhaseInv, Destroying
    <3>2. Len(registry') \in Nat
      BY <2>0
    <3> QED BY <3>1, <3>2
  <2>2. CASE ~WorkerExec
    <3>1. Len(registry') \in Nat /\ Len(registry) \in Nat /\ Len(registry) <= Len(registry')
      BY <2>2, RegistryGrows
    <3>2. CASE DestroyJoin
      <4>1. destroyed < Len(registry) /\ destroyed' = destroyed + 1 /\ mainPc' = "destroy"
        BY <1>0, <3>2 DEF DestroyJoin, At, MainTypes
      <4> QED BY <1>0, <3>1, <4>1 DEF MainTypes
    <3>3. CASE DestroyClose
      <4>1. destroyed < Len(registry) /\ destroyed' = destroyed
        BY <3>3 DEF DestroyClose, flagVars
      <4> QED BY <1>0, <3>1, <4>1 DEF MainTypes
    <3>4. CASE ~DestroyJoin /\ ~DestroyClose
      <4>1. destroyed' = destroyed
        BY <1>0, <3>4 DEF Changes
      <4>2. mainPc' = "join_client" => mainPc = "join_client"
        BY <1>0, <3>4 DEF Changes, RegisterFirst, MainStep, Submit, HandleEvent, StartGame, AwaitTimeout,
                BroadcastError, BroadcastSnapshot, Update, EndDrain, BroadcastGameOver, Stop, JoinWorker,
                DestroyDone, Exit
      <4> QED BY <1>0, <3>1, <4>1, <4>2 DEF MainTypes
    <3> QED BY <3>2, <3>3, <3>4
  <2> QED BY <2>1, <2>2
<1> QED BY <1>1, <1>2, <1>3, <1>4, <1>5, <1>6 DEF MainTypes

(* Connections and descriptors stay apart.                                 *)
LEMMA ConnStep == TypeInv /\ [Next]_vars => ConnInv'
<1> SUFFICES ASSUME TypeInv, [Next]_vars PROVE ConnInv'
  OBVIOUS
<1>0. Changes /\ ConnInv /\ ClientTypes /\ KernelTypes /\ RecvTypes /\ NoConn \notin Conn
  BY WhoChanges, ServerAssumption DEF TypeInv
<1>1. ASSUME NEW c \in Conn, Connect(c) PROVE ConnInv'
  <2>1. /\ client[c] = "none" /\ client' = [client EXCEPT ![c] = "awaiting"]
        /\ backlog' = Append(backlog, c) /\ UNCHANGED <<fdTable, recv>>
    BY <1>1 DEF Connect, serverVars
  <2>2. /\ Len(backlog) \in Nat /\ Len(backlog') = Len(backlog) + 1
        /\ DOMAIN backlog = 1 .. Len(backlog) /\ DOMAIN backlog' = 1 .. Len(backlog) + 1
        /\ backlog'[Len(backlog) + 1] = c /\ \A i \in 1 .. Len(backlog) : backlog'[i] = backlog[i]
    BY <1>0, <2>1 DEF KernelTypes
  <2>3. \A i \in 1 .. Len(backlog) : backlog[i] \in Conn /\ backlog[i] # c
    BY <1>0, <2>1, <2>2 DEF ConnInv, KernelTypes
  <2>4. \A f \in Fd : fdTable[f] # c
    BY <1>0, <1>1, <2>1 DEF ConnInv
  <2>5. recv[c].pc = "none"
    BY <1>0, <2>1 DEF ConnInv
  <2>6. \A d \in Conn : client'[d] = IF d = c THEN "awaiting" ELSE client[d]
    BY <1>0, <2>1 DEF ClientTypes
  <2> QED BY <1>0, <2>1, <2>2, <2>3, <2>4, <2>5, <2>6 DEF ConnInv, KernelTypes
<1>2. CASE AcceptConnection
  <2>1. PICK f \in Fd, c \in Conn :
          /\ fdTable[f] = NoConn /\ c = Head(backlog) /\ backlog' = Tail(backlog)
          /\ fdTable' = [fdTable EXCEPT ![f] = c]
          /\ recv' = [recv EXCEPT ![c].pc = "start"]
    BY <1>0, <1>2, Accepted
  <2>2. backlog # <<>> /\ UNCHANGED client
    BY <1>2 DEF AcceptConnection, clientVars
  <2>3. /\ Len(backlog) \in Nat /\ 1 \in 1 .. Len(backlog) /\ DOMAIN backlog = 1 .. Len(backlog)
        /\ c = backlog[1]
        /\ DOMAIN backlog' = 1 .. Len(backlog) - 1
        /\ \A i \in 1 .. Len(backlog) - 1 : i + 1 \in 1 .. Len(backlog) /\ backlog'[i] = backlog[i + 1]
    BY <1>0, <2>1, <2>2 DEF KernelTypes
  <2>4. \A i \in 1 .. Len(backlog) - 1 : backlog'[i] # c /\ backlog'[i] \in Conn
    <3>1. \A i \in 1 .. Len(backlog) : backlog[i] \in Conn
      BY <1>0 DEF KernelTypes
    <3>2. \A i \in 1 .. Len(backlog) - 1 : i + 1 # 1
      BY <2>3
    <3> QED BY <1>0, <2>3, <3>1, <3>2 DEF ConnInv
  <2>5. \A d \in Conn : d # c => recv'[d].pc = recv[d].pc
    BY <1>0, <2>1 DEF RecvTypes
  <2>6. \A g \in Fd : fdTable'[g] = IF g = f THEN c ELSE fdTable[g]
    BY <1>0, <2>1 DEF KernelTypes
  <2>7. client[c] # "none" /\ c # NoConn /\ \A g \in Fd : fdTable[g] # c
    BY <1>0, <2>3 DEF ConnInv
  <2>8. \A i, j \in DOMAIN backlog' : backlog'[i] = backlog'[j] => i = j
    BY <1>0, <2>3 DEF ConnInv
  <2>9. \A i \in DOMAIN backlog' : /\ recv'[backlog'[i]].pc = "none" /\ client[backlog'[i]] # "none"
                                   /\ \A g \in Fd : fdTable'[g] # backlog'[i]
    BY <1>0, <2>3, <2>4, <2>5, <2>6 DEF ConnInv
  <2>10. \A d \in Conn : client[d] = "none" => recv'[d].pc = "none"
    BY <1>0, <2>5, <2>7 DEF ConnInv
  <2>11. \A g, h \in Fd : fdTable'[g] = fdTable'[h] /\ fdTable'[g] # NoConn => g = h
    BY <1>0, <2>6, <2>7 DEF ConnInv
  <2>12. \A g \in Fd : fdTable'[g] # NoConn => client[fdTable'[g]] # "none"
    BY <1>0, <2>6, <2>7 DEF ConnInv
  <2> QED BY <2>2, <2>8, <2>9, <2>10, <2>11, <2>12 DEF ConnInv
<1>3. CASE /\ UNCHANGED <<client, recv>>
           /\ backlog' = backlog \/ backlog' = <<>>
           /\ \A f \in Fd : fdTable'[f] \in {fdTable[f], NoConn}
  <2>1. \A i \in DOMAIN backlog' : i \in DOMAIN backlog /\ backlog'[i] = backlog[i] /\ backlog[i] \in Conn
    BY <1>0, <1>3 DEF KernelTypes
  <2>2. \A i \in DOMAIN backlog', f \in Fd : fdTable'[f] # backlog'[i]
    BY <1>0, <1>3, <2>1 DEF ConnInv
  <2>3. \A f, g \in Fd : fdTable'[f] = fdTable'[g] /\ fdTable'[f] # NoConn => f = g
    BY <1>0, <1>3 DEF ConnInv
  <2>4. \A f \in Fd : fdTable'[f] # NoConn => client'[fdTable'[f]] # "none"
    BY <1>0, <1>3 DEF ConnInv
  <2> QED BY <1>0, <1>3, <2>1, <2>2, <2>3, <2>4 DEF ConnInv
<1>4. ASSUME NEW c \in Conn, ClientStep(c), ~Connect(c) PROVE ConnInv'
  <2>1. UNCHANGED <<recv, backlog, fdTable>>
    BY <1>4 DEF ClientStep, Hear, MissRest, Play, Leave, Stall, Quit, ClientSends, kernelVars, serverVars
  <2>2. client[c] # "none"
    BY <1>4 DEF ClientStep, Hear, MissRest, Play, Leave, Stall, Quit, Connected
  <2>3. client' = client \/ \E m : m # "none" /\ client' = [client EXCEPT ![c] = m]
    <3>1. CASE Play(c)
      BY <3>1 DEF Play, ClientSends
    <3>2. CASE Leave(c)
      BY <3>2 DEF Leave, ClientSends
    <3> QED BY <1>4, <3>1, <3>2 DEF ClientStep, Hear, MissRest, Stall, Quit
  <2>4. \A d \in Conn : client'[d] = "none" <=> client[d] = "none"
    BY <1>0, <2>2, <2>3 DEF ClientTypes
  <2>5. \A f \in Fd : fdTable[f] # NoConn => fdTable[f] \in Conn
    BY <1>0 DEF KernelTypes
  <2>6. \A i \in DOMAIN backlog : backlog[i] \in Conn
    BY <1>0 DEF KernelTypes
  <2> QED BY <1>0, <2>1, <2>4, <2>5, <2>6 DEF ConnInv
<1>5. ASSUME NEW t \in Conn, RecvStep(t) PROVE ConnInv'
  <2>1. UNCHANGED <<client, backlog, fdTable>>
    BY <1>5 DEF RecvStep, RecvStart, RecvPost, RecvHangup, RecvMessage, RecvStop, RecvOnly, kernelVars
  <2>2. recv[t].pc # "none" /\ \A u \in Conn : u # t => recv'[u] = recv[u]
    BY <1>0, <1>5 DEF RecvStep, RecvStart, RecvPost, RecvHangup, RecvMessage, RecvStop, Post, RecvTypes
  <2>3. \A i \in DOMAIN backlog : backlog[i] \in Conn
    BY <1>0 DEF KernelTypes
  <2> QED BY <1>0, <2>1, <2>2, <2>3 DEF ConnInv
<1>6. \/ AcceptConnection \/ (\E c \in Conn : ClientStep(c)) \/ (\E t \in Conn : RecvStep(t))
      \/ /\ UNCHANGED <<client, recv>>
         /\ backlog' = backlog \/ backlog' = <<>>
         /\ \A f \in Fd : fdTable'[f] \in {fdTable[f], NoConn}
  <2>1. CASE RegisterFirst
    BY <1>0, <2>1 DEF Changes, RegisterFirst, clientVars
  <2>2. CASE WorkerExec
    BY <1>0, <2>2 DEF Changes, WorkerExec, WorkerOnly, RemoveClient, KernelTypes
  <2>3. CASE DestroyClose \/ Exit
    BY <1>0, <2>3 DEF Changes, DestroyClose, Exit, MainOnly, KernelTypes
  <2>4. CASE ~(RegisterFirst \/ WorkerExec \/ DestroyClose \/ Exit)
    BY <1>0, <2>4 DEF Changes, ClientStep
  <2> QED BY <2>1, <2>2, <2>3, <2>4
<1> QED BY <1>1, <1>2, <1>3, <1>4, <1>5, <1>6

(* All of this together is inductive.                                      *)
LEMMA TypeInvariant == Spec => [](TypeInv /\ PhaseInv)
<1>1. Init => TypeInv /\ PhaseInv
  BY ClientTypesInit DEF Init, PhaseInv, Late, Destroying
<1>2. TypeInv /\ PhaseInv /\ [Next]_vars => (TypeInv /\ PhaseInv)'
  BY ClientTypesStep, KernelTypesStep, ConnStep, AcceptTypesStep, RecvTypesStep, QueueTypesStep,
     WorkerTypesStep, MainTypesStep, PhaseStep DEF TypeInv
<1> QED BY <1>1, <1>2, PTL DEF Spec

-----------------------------------------------------------------------------
(* The first invariants.                                                   *)

(* The server keeps the types of Server, whatever the number of connections*)
(* and the sizes of the queues: every queue its bound, every event and     *)
(* every request a client it is about.                                     *)
THEOREM ServerTypes == Spec => []TypeOK
<1>1. TypeInv => TypeOK
  <2> SUFFICES ASSUME TypeInv PROVE TypeOK
    OBVIOUS
  <2> USE DEF TypeInv
  <2>1. /\ args \in Args
        /\ client \in [Conn -> Modes] /\ sent \in [Conn -> 0 .. MaxSent]
        /\ inbox \in [Conn -> Seq(MsgTypes)] /\ mail \in [Conn -> Seq(MailTypes)]
        /\ backlog \in Seq(Conn) /\ listening \in BOOLEAN
        /\ fdTable \in [Fd -> Conn \cup {NoConn}]
    BY DEF MainTypes, ClientTypes, KernelTypes
  <2>2. acc \in [conn : Conn \cup {NoConn}, fd : Fd \cup {NoFd}]
    BY DEF AcceptTypes, NoAcc
  <2>3. /\ argFd \in Fd \cup {NoFd} /\ acceptPc \in {"off", "poll", "done"}
        /\ recv \in [Conn -> [pc : {"none", "start", "post", "poll", "done"},
                              fd : Fd \cup {NoFd}, ev : Events, last : BOOLEAN]]
        /\ registry \in Seq([fd : Fd, thread : Conn])
    BY DEF AcceptTypes, RecvTypes, WorkerTypes
  <2>4. eq \in Seq(Events) /\ aq \in Seq(Actions) /\ todo \in Seq(Actions)
        /\ Len(eq) <= MaxEvents /\ Len(aq) <= MaxActions
    <3>1. GoodEvents \subseteq Events /\ GoodActions \subseteq Actions
      BY DEF GoodEvents, GoodActions
    <3> QED BY <3>1, SeqMonotonic DEF QueueTypes
  <2>5. /\ worker \in [pc : {"off", "run", "join", "done"}, thread : Conn \cup {NoConn}]
        /\ endWait \in Nat /\ resumeWait \in [Fd -> Nat]
    BY DEF WorkerTypes
  <2>6. /\ mainPc \in {"accept", "await", "broadcast", "update", "drain", "over", "error", "stop",
                   "join_worker", "destroy", "join_client", "join_accept", "done"}
        /\ players \in Seq([id : Fd, conn : Conn, paused : BOOLEAN, pending : BOOLEAN])
    BY DEF MainTypes, Player, Records
  <2>7. {waitPending, endGame, revived, accepting, running} \subseteq BOOLEAN
    BY DEF MainTypes
  <2>8. destroyed \in 0 .. Len(registry)
    <3>1. Len(registry) \in Nat
      BY <2>3
    <3> QED BY <3>1 DEF MainTypes
  <2> QED BY <2>1, <2>2, <2>3, <2>4, <2>5, <2>6, <2>7, <2>8 DEF TypeOK
<1> QED BY <1>1, TypeInvariant, PTL

(* When the worker has ended (action_thread's last drain) main has nothing *)
(* more to ask: it clears running only after its last request.             *)
THEOREM NothingLost == Spec => []NoRequestLost
<1>1. TypeInv /\ PhaseInv => NoRequestLost
  <2> SUFFICES ASSUME PhaseInv, worker.pc = "done" PROVE Requests = <<>>
    BY DEF NoRequestLost
  <2>1. aq = <<>> /\ todo = <<>>
    BY DEF PhaseInv
  <2> QED BY <2>1 DEF Requests
<1> QED BY <1>1, TypeInvariant, PTL

EmptyInv == /\ endGame => players = <<>>
            /\ EndsOnlyWhenEmpty

(* end_game is true only with nobody in the array.                         *)
LEMMA EmptyStep == TypeInv /\ EmptyInv /\ [Next]_vars => EmptyInv'
<1> SUFFICES ASSUME TypeInv, EmptyInv, [Next]_vars PROVE EmptyInv'
  OBVIOUS
<1> USE DEF EmptyInv, EndsOnlyWhenEmpty, TimedMode
<1>0. Changes /\ endGame \in BOOLEAN
  BY WhoChanges DEF TypeInv, MainTypes
<1>1. CASE HandleEvent
  <2>1. endGame' <=> Head(eq).type = "waited_end" /\ players = <<>>
    BY <1>1 DEF HandleEvent
  <2>2. endGame' => players' = <<>>
    BY <1>1, <2>1 DEF HandleEvent, OnConnected, OnInput, OnPaused, OnResumed, OnWaitedResume,
                      OnDisconnected, OnWaitedEnd
  <2>3. mainPc' # "over"
    BY <1>1 DEF HandleEvent, At
  <2> QED BY <2>2, <2>3
<1>2. CASE Update
  BY <1>2 DEF Update
<1>3. CASE Stop
  BY <1>3 DEF Stop
<1>4. CASE EndDrain
  <2>1. args' = args /\ UNCHANGED <<players, endGame>>
    BY <1>0, <1>4 DEF Changes, EndDrain
  <2>2. mainPc' = "over" => endGame \/ (SinglePlayer /\ players = <<>>) \/ TimedMode
    BY <1>4 DEF EndDrain, EndEvent
  <2> QED BY <2>1, <2>2
<1>5. CASE ~(HandleEvent \/ Update \/ Stop \/ EndDrain)
  <2>1. args' = args /\ UNCHANGED <<players, endGame>>
    BY <1>0, <1>5 DEF Changes
  <2>2. mainPc' = "over" => mainPc = "over"
    BY <1>0, <1>5 DEF Changes, RegisterFirst, MainStep, Submit, StartGame, AwaitTimeout,
                BroadcastError, BroadcastSnapshot, BroadcastGameOver, JoinWorker, DestroyClose, DestroyJoin,
                DestroyDone, Exit
  <2> QED BY <2>1, <2>2
<1> QED BY <1>1, <1>2, <1>3, <1>4, <1>5

(* In standard mode the game is declared over (handle_end_event, end_game  *)
(* of game_run) only with nobody in it.                                    *)
THEOREM NobodyThrownOut == Spec => []EndsOnlyWhenEmpty
<1>1. Init => EmptyInv
  BY DEF Init, EmptyInv, EndsOnlyWhenEmpty
<1>2. TypeInv /\ EmptyInv /\ [Next]_vars => EmptyInv'
  BY EmptyStep
<1>3. EmptyInv => EndsOnlyWhenEmpty
  BY DEF EmptyInv
<1> QED BY <1>1, <1>2, <1>3, TypeInvariant, PTL DEF Spec

-----------------------------------------------------------------------------
(* The registry and its descriptors.                                       *)

(* Descriptors and entries belong together until registry_destroy.         *)
OwnInv ==
    mainPc \notin Destroying =>
        /\ \A i \in 1 .. Len(registry) : fdTable[registry[i].fd] = registry[i].thread
        /\ \A i, j \in 1 .. Len(registry) : registry[i].fd = registry[j].fd => i = j
        /\ \A f \in Fd : fdTable[f] # NoConn =>
              acc.fd = f \/ \E i \in 1 .. Len(registry) : registry[i].fd = f
        /\ acc # NoAcc => /\ fdTable[acc.fd] = acc.conn
                          /\ \A i \in 1 .. Len(registry) : registry[i].fd # acc.fd

(* What one entry of the registry is like.                                 *)
LEMMA EntryAt ==
    ASSUME TypeInv
    PROVE  /\ DOMAIN registry = 1 .. Len(registry) /\ Len(registry) \in Nat
           /\ \A i \in 1 .. Len(registry) : registry[i] \in Entry /\ registry[i].fd \in Fd
                                            /\ registry[i].thread \in Conn
<1>1. registry \in Seq(Entry)
  BY DEF TypeInv, WorkerTypes, Entry
<1>2. \A i \in 1 .. Len(registry) : registry[i] \in Entry
  BY <1>1
<1> QED BY <1>1, <1>2 DEF Entry

(* registry_destroy is never left for the game again.                      *)
LEMMA DestroyingStays == [Next]_vars /\ mainPc \in Destroying => mainPc' \in Destroying
<1>1. [Next]_vars => Changes
  BY WhoChanges
<1> QED BY <1>1 DEF Changes, RegisterFirst, MainStep, Submit, HandleEvent, StartGame, AwaitTimeout,
            BroadcastError, BroadcastSnapshot, Update, EndDrain, BroadcastGameOver, Stop, JoinWorker,
            DestroyClose, DestroyJoin, DestroyDone, Exit, At, Destroying, MainStep

(* What register_client does: the entry goes to the end.                   *)
LEMMA Registered ==
    ASSUME TypeInv, RegisterClient
    PROVE  /\ acc.conn \in Conn /\ acc.fd \in Fd /\ acc' = NoAcc /\ acc # NoAcc
           /\ Len(registry') = Len(registry) + 1
           /\ registry'[Len(registry) + 1] = [fd |-> acc.fd, thread |-> acc.conn]
           /\ \A i \in 1 .. Len(registry) : registry'[i] = registry[i]
<1>1. acc.conn \in Conn /\ acc.fd \in Fd
  BY DEF TypeInv, AcceptTypes, RegisterClient
<1>2. registry \in Seq(Entry) /\ [fd |-> acc.fd, thread |-> acc.conn] \in Entry
  BY <1>1 DEF TypeInv, WorkerTypes, Entry
<1>3. registry' = Append(registry, [fd |-> acc.fd, thread |-> acc.conn]) /\ acc' = NoAcc /\ acc # NoAcc
  BY DEF RegisterClient
<1> QED BY <1>1, <1>2, <1>3

(* The entries keep their descriptors.                                     *)
LEMMA OwnStep == TypeInv /\ PhaseInv /\ OwnInv /\ [Next]_vars => OwnInv'
<1> SUFFICES ASSUME TypeInv, PhaseInv, OwnInv, [Next]_vars, mainPc' \notin Destroying PROVE OwnInv'
  BY DEF OwnInv
<1>0. Changes /\ mainPc \notin Destroying /\ NoConn \notin Conn /\ fdTable \in [Fd -> Conn \cup {NoConn}]
  BY WhoChanges, DestroyingStays, ServerAssumption DEF TypeInv, KernelTypes
<1> DEFINE n == Len(registry)
<1>1. n \in Nat /\ \A i \in 1 .. n : registry[i] \in Entry /\ registry[i].fd \in Fd
                                     /\ registry[i].thread \in Conn
  BY EntryAt
<1>2. /\ \A i \in 1 .. n : fdTable[registry[i].fd] = registry[i].thread
      /\ \A i, j \in 1 .. n : registry[i].fd = registry[j].fd => i = j
      /\ \A f \in Fd : fdTable[f] # NoConn => acc.fd = f \/ \E i \in 1 .. n : registry[i].fd = f
      /\ acc # NoAcc => /\ fdTable[acc.fd] = acc.conn
                        /\ \A i \in 1 .. n : registry[i].fd # acc.fd
  BY <1>0 DEF OwnInv
<1>3. CASE AcceptConnection
  <2>1. PICK f \in Fd, c \in Conn : /\ fdTable[f] = NoConn /\ fdTable' = [fdTable EXCEPT ![f] = c]
                                    /\ acc' = [conn |-> c, fd |-> f]
    BY <1>3, Accepted DEF TypeInv
  <2>2. registry' = registry /\ acc = NoAcc
    BY <1>3 DEF AcceptConnection
  <2>3. \A g \in Fd : fdTable'[g] = IF g = f THEN c ELSE fdTable[g]
    BY <1>0, <2>1
  <2>4. \A i \in 1 .. n : registry[i].fd # f
    BY <1>0, <1>1, <1>2, <2>1
  <2>5. \A g \in Fd : acc.fd # g
    BY <2>2 DEF NoAcc, NoFd, Fd
  <2>6. acc'.fd = f /\ acc'.conn = c
    BY <2>1
  <2> QED BY <1>1, <1>2, <2>2, <2>3, <2>4, <2>5, <2>6 DEF OwnInv
<1>4. CASE RegisterFirst \/ RegisterNext
  <2>1. RegisterClient /\ fdTable' = fdTable
    BY <1>4 DEF RegisterFirst, RegisterNext, kernelVars
  <2> DEFINE x == [fd |-> acc.fd, thread |-> acc.conn]
  <2>2. /\ acc' = NoAcc /\ acc # NoAcc /\ acc.fd \in Fd /\ Len(registry') = n + 1
        /\ registry'[n + 1] = x /\ \A i \in 1 .. n : registry'[i] = registry[i]
    BY <2>1, Registered
  <2>3. \A i \in 1 .. n + 1 : i \in 1 .. n \/ i = n + 1
    BY <1>1
  <2>4. \A f \in Fd : acc'.fd # f
    BY <2>2 DEF NoAcc, NoFd, Fd
  <2>5. x.fd = acc.fd /\ x.thread = acc.conn
    OBVIOUS
  <2> HIDE DEF x
  <2>6. \A i \in 1 .. n + 1 : fdTable[registry'[i].fd] = registry'[i].thread
    BY <1>2, <2>2, <2>3, <2>5
  <2>7. \A i, j \in 1 .. n + 1 : registry'[i].fd = registry'[j].fd => i = j
    BY <1>2, <2>2, <2>3, <2>5
  <2>8. ASSUME NEW f \in Fd, fdTable[f] # NoConn PROVE \E i \in 1 .. n + 1 : registry'[i].fd = f
    <3>1. acc.fd = f \/ \E i \in 1 .. n : registry[i].fd = f
      BY <1>2, <2>8
    <3>2. CASE acc.fd = f
      <4>1. n + 1 \in 1 .. n + 1
        BY <1>1
      <4> QED BY <2>2, <2>5, <3>2, <4>1
    <3>3. ASSUME NEW i \in 1 .. n, registry[i].fd = f PROVE \E j \in 1 .. n + 1 : registry'[j].fd = f
      <4>1. i \in 1 .. n + 1
        BY <1>1
      <4> QED BY <2>2, <3>3, <4>1
    <3> QED BY <3>1, <3>2, <3>3
  <2> QED BY <2>1, <2>2, <2>6, <2>7, <2>8 DEF OwnInv
<1>5. CASE WorkerExec
  <2>1. UNCHANGED acc
    BY <1>5 DEF WorkerExec, WorkerOnly, acceptVars
  <2>2. CASE UNCHANGED <<registry, fdTable>>
    BY <1>2, <2>1, <2>2 DEF OwnInv
  <2>3. CASE ~UNCHANGED <<registry, fdTable>>
    <3>1. RemoveClient(Head(aq).id)
      BY <1>5, <2>3 DEF WorkerExec
    <3> DEFINE f == Head(aq).id
    <3>2. PICK i \in 1 .. n :
             /\ registry[i].fd = f /\ registry' \in Seq(Entry)
             /\ Len(registry') = n - 1
             /\ \A k \in 1 .. n - 1 : registry'[k] = IF k = i THEN registry[n] ELSE registry[k]
             /\ fdTable' = [fdTable EXCEPT ![f] = NoConn]
      <4>1. registry \in Seq(Entry)
        BY DEF TypeInv, WorkerTypes, Entry
      <4> QED BY <2>3, <3>1, <4>1, RemoveClientValue
    <3> HIDE DEF f
    <3>3. f \in Fd
      BY <1>1, <3>2
    <3>4. \A g \in Fd : fdTable'[g] = IF g = f THEN NoConn ELSE fdTable[g]
      BY <1>0, <3>2, <3>3
    <3>5. \A k \in 1 .. n : k # i => registry[k].fd # f
      BY <1>2, <3>2
    <3>6. n \in 1 .. n /\ \A k \in 1 .. n - 1 : k \in 1 .. n /\ k # n
      BY <1>1
    <3>7. \A k \in 1 .. n - 1 :
             \E m \in 1 .. n : m # i /\ registry'[k] = registry[m] /\ m = IF k = i THEN n ELSE k
      BY <3>2, <3>6
    <3>8. \A m \in 1 .. n : m # i => \E k \in 1 .. n - 1 : registry'[k] = registry[m]
      <4> SUFFICES ASSUME NEW m \in 1 .. n, m # i PROVE \E k \in 1 .. n - 1 : registry'[k] = registry[m]
        OBVIOUS
      <4>1. CASE m = n
        <5>1. i \in 1 .. n - 1
          BY <1>1, <4>1
        <5> QED BY <3>2, <4>1, <5>1
      <4>2. CASE m # n
        <5>1. m \in 1 .. n - 1
          BY <1>1, <4>2
        <5> QED BY <3>2, <5>1
      <4> QED BY <4>1, <4>2
    <3>9. \A k \in 1 .. n - 1 : fdTable'[registry'[k].fd] = registry'[k].thread
      BY <1>1, <1>2, <3>4, <3>5, <3>7
    <3>10. \A j, k \in 1 .. n - 1 : registry'[j].fd = registry'[k].fd => j = k
      <4> SUFFICES ASSUME NEW j \in 1 .. n - 1, NEW k \in 1 .. n - 1, registry'[j].fd = registry'[k].fd
                   PROVE j = k
        OBVIOUS
      <4>1. PICK m \in 1 .. n : registry'[j] = registry[m] /\ m = IF j = i THEN n ELSE j
        BY <3>7
      <4>2. PICK l \in 1 .. n : registry'[k] = registry[l] /\ l = IF k = i THEN n ELSE k
        BY <3>7
      <4>3. m = l
        BY <1>2, <4>1, <4>2
      <4> QED BY <3>6, <4>1, <4>2, <4>3
    <3>11. \A g \in Fd : fdTable'[g] # NoConn => acc.fd = g \/ \E k \in 1 .. n - 1 : registry'[k].fd = g
      <4> SUFFICES ASSUME NEW g \in Fd, fdTable'[g] # NoConn, acc.fd # g
                   PROVE \E k \in 1 .. n - 1 : registry'[k].fd = g
        OBVIOUS
      <4>1. g # f /\ fdTable[g] # NoConn
        BY <3>4
      <4>2. PICK m \in 1 .. n : registry[m].fd = g
        BY <1>2, <4>1
      <4>3. m # i
        BY <3>2, <4>1, <4>2
      <4> QED BY <3>8, <4>2, <4>3
    <3>12. acc # NoAcc => /\ fdTable'[acc.fd] = acc.conn
                          /\ \A k \in 1 .. n - 1 : registry'[k].fd # acc.fd
      <4> SUFFICES ASSUME acc # NoAcc
                   PROVE  /\ fdTable'[acc.fd] = acc.conn
                          /\ \A k \in 1 .. n - 1 : registry'[k].fd # acc.fd
        OBVIOUS
      <4>1. acc.fd \in Fd
        BY DEF TypeInv, AcceptTypes
      <4>2. acc.fd # f
        BY <1>2, <3>2
      <4> QED BY <1>2, <3>4, <3>7, <4>1, <4>2
    <3> QED BY <2>1, <3>2, <3>9, <3>10, <3>11, <3>12 DEF OwnInv
  <2> QED BY <2>2, <2>3
<1>6. CASE DestroyClose \/ Exit
  BY <1>6 DEF DestroyClose, Exit, Destroying
<1>7. CASE UNCHANGED <<acc, registry, fdTable>>
  BY <1>2, <1>7 DEF OwnInv
<1> QED BY <1>0, <1>3, <1>4, <1>5, <1>6, <1>7 DEF Changes

(* Until registry_destroy every entry's descriptor is open, its thread's   *)
(* and no other entry's, and every open descriptor has an entry or is being*)
(* registered (register_client, remove_client).                            *)
THEOREM DescriptorsOwned == Spec => []RegistryOwnsDescriptors
<1>1. Init => OwnInv
  BY DEF Init, OwnInv, NoAcc
<1>2. TypeInv /\ PhaseInv /\ OwnInv /\ [Next]_vars => OwnInv'
  BY OwnStep
<1>3. TypeInv /\ OwnInv => RegistryOwnsDescriptors
  <2> SUFFICES ASSUME TypeInv, OwnInv PROVE RegistryOwnsDescriptors
    OBVIOUS
  <2>1. DOMAIN registry = 1 .. Len(registry)
    BY EntryAt
  <2> QED BY <2>1 DEF OwnInv, RegistryOwnsDescriptors, Destroying
<1> QED BY <1>1, <1>2, <1>3, TypeInvariant, PTL DEF Spec

-----------------------------------------------------------------------------
(* The threads of shutdown.                                                *)

(* A thread that runs is about to be registered, or being joined, or has an *)
(* entry that registry_destroy has yet to come to.                         *)
Accounted(c) ==
    \/ recv[c].pc \in {"none", "done"} \/ acc.conn = c
    \/ worker.pc = "join" /\ worker.thread = c
    \/ \E i \in 1 .. Len(registry) : destroyed < i /\ registry[i].thread = c

ThreadInv == /\ \A c \in Conn : Accounted(c)
             /\ mainPc = "accept" => worker.pc = "off"

(* No thread is forgotten.                                                 *)
LEMMA AccountedStep ==
    TypeInv /\ PhaseInv /\ ThreadInv /\ [Next]_vars => \A c \in Conn : Accounted(c)'
<1> SUFFICES ASSUME TypeInv, PhaseInv, ThreadInv, [Next]_vars, NEW c \in Conn
             PROVE  Accounted(c)'
  OBVIOUS
<1>0. Changes /\ NoConn \notin Conn /\ Accounted(c)
  BY WhoChanges, ServerAssumption DEF ThreadInv
<1> DEFINE n == Len(registry)
<1>1. n \in Nat /\ \A i \in 1 .. n : registry[i].thread \in Conn
  BY EntryAt
<1>2. destroyed \in Nat /\ destroyed <= n
  BY DEF TypeInv, MainTypes
<1>3. CASE AcceptConnection
  <2>1. PICK f \in Fd, d \in Conn : acc' = [conn |-> d, fd |-> f] /\ recv' = [recv EXCEPT ![d].pc = "start"]
    BY <1>3, Accepted DEF TypeInv
  <2>2. acc = NoAcc /\ UNCHANGED <<registry, worker, destroyed>>
    BY <1>3 DEF AcceptConnection, mainVars, flagVars
  <2>3. acc.conn # c
    BY <1>0, <2>2 DEF NoAcc
  <2>4. c # d => recv'[c] = recv[c]
    BY <2>1 DEF TypeInv, RecvTypes
  <2> QED BY <1>0, <2>1, <2>2, <2>3, <2>4 DEF Accounted
<1>4. CASE RegisterFirst \/ RegisterNext
  <2>0. RegisterClient
    BY <1>4 DEF RegisterFirst, RegisterNext
  <2>1. /\ Len(registry') = n + 1 /\ registry'[n + 1] = [fd |-> acc.fd, thread |-> acc.conn]
        /\ \A i \in 1 .. n : registry'[i] = registry[i]
    BY <2>0, Registered
  <2>2. UNCHANGED <<recv, destroyed>>
    BY <1>4 DEF RegisterFirst, RegisterNext, mainVars, flagVars
  <2>3. worker.pc = "join" => worker' = worker
    BY <1>4 DEF RegisterFirst, RegisterNext, ThreadInv
  <2>4. n + 1 \in 1 .. n + 1 /\ destroyed < n + 1 /\ \A i \in 1 .. n : i \in 1 .. n + 1
    BY <1>1, <1>2
  <2>5. acc.conn = c => registry'[n + 1].thread = c
    BY <2>1
  <2> QED BY <1>0, <2>1, <2>2, <2>3, <2>4, <2>5 DEF Accounted
<1>5. ASSUME NEW t \in Conn, RecvStep(t) PROVE Accounted(c)'
  <2>1. UNCHANGED <<acc, worker, registry, destroyed>>
    BY <1>5 DEF RecvStep, RecvStart, RecvPost, RecvHangup, RecvMessage, RecvStop, RecvOnly, acceptVars,
                mainVars, flagVars
  <2>2. recv[t].pc \notin {"none", "done"} /\ \A u \in Conn : u # t => recv'[u] = recv[u]
    BY <1>5 DEF RecvStep, RecvStart, RecvPost, RecvHangup, RecvMessage, RecvStop, Post, TypeInv, RecvTypes
  <2> QED BY <1>0, <2>1, <2>2 DEF Accounted
<1>6. CASE WorkerExec
  <2>1. UNCHANGED <<acc, recv, destroyed>> /\ worker.pc = "run"
    BY <1>6 DEF WorkerExec, WorkerOnly, acceptVars, mainVars, flagVars
  <2>2. CASE UNCHANGED <<registry, worker>>
    BY <1>0, <2>1, <2>2 DEF Accounted
  <2>3. CASE ~UNCHANGED <<registry, worker>>
    <3>1. RemoveClient(Head(aq).id) /\ registry \in Seq(Entry)
      BY <1>6, <2>3 DEF WorkerExec, TypeInv, WorkerTypes, Entry
    <3>2. PICK i \in 1 .. n :
             /\ Len(registry') = n - 1
             /\ \A k \in 1 .. n - 1 : registry'[k] = IF k = i THEN registry[n] ELSE registry[k]
             /\ worker' = [pc |-> "join", thread |-> registry[i].thread]
      BY <2>3, <3>1, RemoveClientValue
    <3>3. destroyed = 0
      BY <2>1 DEF PhaseInv
    <3>4. ASSUME NEW m \in 1 .. n, m # i PROVE \E k \in 1 .. n - 1 : registry'[k] = registry[m]
      <4>1. CASE m = n
        <5>1. i \in 1 .. n - 1
          BY <1>1, <3>4, <4>1
        <5> QED BY <3>2, <4>1, <5>1
      <4>2. CASE m # n
        <5>1. m \in 1 .. n - 1
          BY <1>1, <4>2
        <5> QED BY <3>2, <3>4, <5>1
      <4> QED BY <4>1, <4>2
    <3>5. ASSUME NEW m \in 1 .. n, registry[m].thread = c PROVE Accounted(c)'
      <4>1. CASE m = i
        BY <3>2, <3>5, <4>1 DEF Accounted
      <4>2. CASE m # i
        <5>1. PICK k \in 1 .. n - 1 : registry'[k] = registry[m]
          BY <3>4, <4>2
        <5>2. k \in 1 .. Len(registry') /\ 0 < k
          BY <3>2, <1>1
        <5> QED BY <2>1, <3>3, <3>5, <5>1, <5>2 DEF Accounted
      <4> QED BY <4>1, <4>2
    <3> QED BY <1>0, <2>1, <3>5 DEF Accounted
  <2> QED BY <2>2, <2>3
<1>7. CASE WorkerJoin
  <2>1. UNCHANGED <<acc, recv, registry, destroyed>> /\ recv[worker.thread].pc = "done"
    BY <1>7 DEF WorkerJoin, WorkerOnly, acceptVars, mainVars, flagVars
  <2> QED BY <1>0, <2>1 DEF Accounted
<1>8. CASE WorkerStop
  <2>1. UNCHANGED <<acc, recv, registry, destroyed>> /\ worker.pc = "run"
    BY <1>8 DEF WorkerStop, WorkerOnly, acceptVars, mainVars, flagVars
  <2> QED BY <1>0, <2>1 DEF Accounted
<1>9. CASE DestroyJoin
  <2>1. /\ UNCHANGED <<acc, recv, registry, worker>> /\ destroyed' = destroyed + 1
        /\ recv[registry[destroyed + 1].thread].pc = "done"
    BY <1>9 DEF DestroyJoin, MainLocal, MainOnly, acceptVars
  <2>2. ASSUME NEW i \in 1 .. n, destroyed < i, registry[i].thread = c PROVE Accounted(c)'
    <3>1. CASE i = destroyed + 1
      BY <2>1, <2>2, <3>1 DEF Accounted
    <3>2. CASE i # destroyed + 1
      <4>1. destroyed + 1 < i
        BY <1>1, <1>2, <2>2, <3>2
      <4> QED BY <2>1, <2>2, <4>1 DEF Accounted
    <3> QED BY <3>1, <3>2
  <2> QED BY <1>0, <2>1, <2>2 DEF Accounted
<1>10. CASE UNCHANGED <<acc, recv, registry, worker, destroyed>>
  BY <1>0, <1>10 DEF Accounted
<1> QED BY <1>0, <1>3, <1>4, <1>5, <1>6, <1>7, <1>8, <1>9, <1>10 DEF Changes, WorkerStep

(* The worker starts with the first registration.                          *)
LEMMA AcceptingFirst == TypeInv /\ ThreadInv /\ [Next]_vars => (mainPc' = "accept" => worker'.pc = "off")
<1> SUFFICES ASSUME ThreadInv, [Next]_vars, mainPc' = "accept" PROVE worker'.pc = "off"
  OBVIOUS
<1>0. Changes
  BY WhoChanges
<1>1. mainPc = "accept" /\ ~RegisterFirst
  BY <1>0 DEF Changes, RegisterFirst, MainStep, Submit, HandleEvent, StartGame, AwaitTimeout, BroadcastError,
            BroadcastSnapshot, Update, EndDrain, BroadcastGameOver, Stop, JoinWorker,
            DestroyClose, DestroyJoin, DestroyDone, Exit, At
<1>2. worker.pc = "off"
  BY <1>1 DEF ThreadInv
<1>3. ~WorkerStep
  BY <1>2 DEF WorkerStep, WorkerExec, WorkerJoin, WorkerStop
<1> QED BY <1>0, <1>1, <1>2, <1>3 DEF Changes

(* When registry_destroy is through it has joined every thread but those of*)
(* connections accepted too late for it.                                   *)
THEOREM ThreadsJoined == Spec => []JoinsRegisteredThreads
<1>1. Init => ThreadInv
  BY DEF Init, ThreadInv, Accounted, Idle
<1>2. TypeInv /\ PhaseInv /\ ThreadInv /\ [Next]_vars => ThreadInv'
  BY AccountedStep, AcceptingFirst DEF ThreadInv
<1>3. TypeInv /\ PhaseInv /\ ThreadInv => JoinsRegisteredThreads
  <2> SUFFICES ASSUME TypeInv, PhaseInv, ThreadInv, mainPc \in {"join_accept", "done"}, NEW c \in Conn
               PROVE \/ recv[c].pc \in {"none", "done"} \/ acc.conn = c
                     \/ \E i \in destroyed + 1 .. Len(registry) : registry[i].thread = c
    BY DEF JoinsRegisteredThreads
  <2>1. worker.pc = "done" /\ Accounted(c)
    BY DEF PhaseInv, Destroying, ThreadInv
  <2>2. Len(registry) \in Nat /\ destroyed \in Nat
    BY EntryAt DEF TypeInv, MainTypes
  <2>3. \A i \in 1 .. Len(registry) : destroyed < i => i \in destroyed + 1 .. Len(registry)
    BY <2>2
  <2> QED BY <2>1, <2>3 DEF Accounted
<1> QED BY <1>1, <1>2, <1>3, TypeInvariant, PTL DEF Spec

-----------------------------------------------------------------------------
(* The end wait: a token that is never lost nor doubled.                   *)

EndRequest == {a \in Actions : a.type = "wait_end"}
EndNotice  == {e \in Events : e.type = "waited_end"}
Asked(s)   == Len(Keep(s, EndRequest))
Told(s)    == Len(Keep(s, EndNotice))

Token == Asked(aq) + Asked(todo) + endWait + Told(eq) = IF waitPending THEN 1 ELSE 0

(* The counts are numbers.                                                 *)
LEMMA Counts ==
    ASSUME QueueTypes
    PROVE  Asked(aq) \in Nat /\ Asked(todo) \in Nat /\ Told(eq) \in Nat
<1>1. aq \in Seq(GoodActions) /\ todo \in Seq(GoodActions) /\ eq \in Seq(GoodEvents)
  BY DEF QueueTypes
<1>2. /\ Keep(aq, EndRequest) \in Seq(GoodActions \cap EndRequest)
      /\ Keep(todo, EndRequest) \in Seq(GoodActions \cap EndRequest)
      /\ Keep(eq, EndNotice) \in Seq(GoodEvents \cap EndNotice)
  BY <1>1, KeepType
<1> QED BY <1>2 DEF Asked, Told

(* Nothing is counted in an empty sequence ...                             *)
LEMMA AskedEmpty == Asked(<<>>) = 0 /\ Told(<<>>) = 0
<1>1. Len(<<>>) = 0
  OBVIOUS
<1> QED BY <1>1, KeepEmpty DEF Asked, Told

(* ... nor in one without end waits.                                       *)
LEMMA AskedNone ==
    ASSUME NEW n \in Nat, NEW s, s = [k \in 1 .. n |-> s[k]],
           \A k \in 1 .. n : s[k] \in GoodActions /\ s[k].type # "wait_end"
    PROVE  Asked(s) = 0
<1> DEFINE U == {a \in GoodActions : a.type # "wait_end"}
<1>1. s \in Seq(U)
  OBVIOUS
<1>2. U \cap EndRequest = {}
  BY DEF EndRequest
<1> HIDE DEF U
<1> QED BY <1>1, <1>2, KeepLenNone DEF Asked

(* A single request counts if it is for the end wait.                      *)
LEMMA AskedOne ==
    ASSUME NEW a \in GoodActions
    PROVE  Asked(<<a>>) = IF a.type = "wait_end" THEN 1 ELSE 0
<1>1. <<>> \in Seq(GoodActions) /\ <<a>> = Append(<<>>, a)
  BY EmptySeq
<1>2. Len(Keep(Append(<<>>, a), EndRequest)) = Len(Keep(<<>>, EndRequest)) + IF a \in EndRequest THEN 1 ELSE 0
  BY <1>1, KeepLenAppend
<1>3. a \in EndRequest <=> a.type = "wait_end"
  BY DEF EndRequest, GoodActions
<1> QED BY <1>1, <1>2, <1>3, AskedEmpty DEF Asked

(* EndWaitsUnderWay, place by place.                                       *)
LEMMA UnderWay == QueueTypes => EndWaitsUnderWay = Asked(aq) + Asked(todo) + endWait + Told(eq)
<1> SUFFICES ASSUME QueueTypes PROVE EndWaitsUnderWay = Asked(aq) + Asked(todo) + endWait + Told(eq)
  OBVIOUS
<1>1. aq \in Seq(GoodActions) /\ todo \in Seq(GoodActions)
  BY DEF QueueTypes
<1>2. Keep(Requests, EndRequest) = Keep(aq, EndRequest) \o Keep(todo, EndRequest)
  BY <1>1, KeepConcat DEF Requests
<1>3. /\ Keep(aq, EndRequest) \in Seq(GoodActions \cap EndRequest)
      /\ Keep(todo, EndRequest) \in Seq(GoodActions \cap EndRequest)
  BY <1>1, KeepType
<1>4. Len(Keep(Requests, EndRequest)) = Asked(aq) + Asked(todo)
  BY <1>2, <1>3, ConcatProperties DEF Asked
<1> QED BY <1>4 DEF EndWaitsUnderWay, EndRequest, EndNotice, Told

(* Every step hands the one wait on, starts it when there is none, or ends *)
(* it.                                                                     *)
LEMMA TokenStep == TypeInv /\ Token /\ [Next]_vars => Token'
<1> SUFFICES ASSUME TypeInv, Token, [Next]_vars PROVE Token'
  OBVIOUS
<1>0. Changes /\ QueueTypes /\ endWait \in Nat /\ waitPending \in BOOLEAN
  BY WhoChanges DEF TypeInv, WorkerTypes, MainTypes
<1>1. /\ aq \in Seq(GoodActions) /\ todo \in Seq(GoodActions) /\ eq \in Seq(GoodEvents)
      /\ Asked(aq) \in Nat /\ Asked(todo) \in Nat /\ Told(eq) \in Nat
  BY <1>0, Counts DEF QueueTypes
<1>2. ASSUME NEW e \in GoodEvents
      PROVE  Told(Append(eq, e)) = Told(eq) + IF e.type = "waited_end" THEN 1 ELSE 0
  <2>1. Len(Keep(Append(eq, e), EndNotice)) = Len(Keep(eq, EndNotice)) + IF e \in EndNotice THEN 1 ELSE 0
    BY <1>1, KeepLenAppend
  <2>2. e \in EndNotice <=> e.type = "waited_end"
    BY DEF EndNotice, GoodEvents
  <2> QED BY <2>1, <2>2 DEF Told
<1>3. CASE Submit
  <2>1. /\ todo # <<>> /\ aq' = Append(aq, Head(todo)) /\ todo' = Tail(todo)
        /\ UNCHANGED <<eq, endWait, waitPending>>
    BY <1>3 DEF Submit, MainOnly, waitVars, gameVars
  <2>2. Head(todo) \in GoodActions
    BY <1>1, <2>1
  <2>3. Asked(aq') = Asked(aq) + IF Head(todo) \in EndRequest THEN 1 ELSE 0
    BY <1>1, <2>1, <2>2, KeepLenAppend DEF Asked
  <2>4. /\ Asked(todo') \in Nat
        /\ Asked(todo) = Asked(todo') + IF Head(todo) \in EndRequest THEN 1 ELSE 0
    BY <1>1, <2>1, KeepLenHead DEF Asked
  <2> QED BY <1>1, <2>1, <2>3, <2>4 DEF Token
<1>4. CASE WorkerExec
  <2> DEFINE a == Head(aq)
  <2>1. aq # <<>> /\ aq' = Tail(aq) /\ UNCHANGED <<eq, todo, waitPending>>
    BY <1>4 DEF WorkerExec, WorkerOnly, mainVars, gameVars
  <2>2. a \in GoodActions
    BY <1>0, <2>1, AqHead
  <2>3. a \in EndRequest <=> a.type = "wait_end"
    BY <2>2 DEF EndRequest, GoodActions
  <2>4. /\ Asked(aq') \in Nat
        /\ Asked(aq) = Asked(aq') + IF a \in EndRequest THEN 1 ELSE 0
    BY <1>1, <2>1, KeepLenHead DEF Asked
  <2>5. endWait' = endWait + IF a.type = "wait_end" THEN 1 ELSE 0
    BY <1>0, <1>4 DEF WorkerExec, waitVars
  <2> HIDE DEF a
  <2> QED BY <1>0, <1>1, <2>1, <2>3, <2>4, <2>5 DEF Token
<1>5. CASE HandleEvent
  <2> DEFINE ev == Head(eq)
  <2>1. eq # <<>> /\ eq' = Tail(eq) /\ todo = <<>> /\ UNCHANGED <<aq, endWait>>
    BY <1>5 DEF HandleEvent, At, MainOnly, waitVars
  <2>2. ev \in GoodEvents
    BY <1>0, <2>1, EqHead
  <2>3. ev \in EndNotice <=> ev.type = "waited_end"
    BY <2>2 DEF EndNotice, GoodEvents
  <2>4. /\ Told(eq') \in Nat
        /\ Told(eq) = Told(eq') + IF ev \in EndNotice THEN 1 ELSE 0
    BY <1>1, <2>1, KeepLenHead DEF Told
  <2>5. Asked(todo) = 0
    BY <2>1, AskedEmpty
  <2>6. Asked(todo') = 0
    <3>1. ASSUME NEW type \in {"send_ready", "wait_paused", "unregister"}, todo' = <<Act(type, ev.id)>>,
                 ev.type # "waited_end"
          PROVE  Asked(todo') = 0
      <4>1. Act(type, ev.id) \in GoodActions /\ Act(type, ev.id).type # "wait_end"
        BY <2>2, <3>1 DEF GoodEvents, Events, GoodActions, Act, Actions, ActTypes
      <4> QED BY <3>1, <4>1, AskedOne
    <3>2. CASE UNCHANGED todo
      BY <2>5, <3>2
    <3>3. CASE OnConnected(ev)
      BY <3>1, <3>3 DEF OnConnected
    <3>4. CASE OnResumed(ev)
      BY <3>1, <3>4 DEF OnResumed
    <3>5. CASE OnDisconnected(ev)
      BY <3>1, <3>5 DEF OnDisconnected
    <3> QED BY <1>5, <3>2, <3>3, <3>4, <3>5 DEF HandleEvent, OnInput, OnPaused, OnWaitedResume, OnWaitedEnd
  <2>7. IF ev.type = "waited_end" THEN waitPending' = FALSE ELSE waitPending' = waitPending
    BY <1>5 DEF HandleEvent, OnConnected, OnInput, OnPaused, OnResumed, OnWaitedResume, OnDisconnected,
                OnWaitedEnd
  <2> HIDE DEF ev
  <2> QED BY <1>0, <1>1, <2>1, <2>3, <2>4, <2>5, <2>6, <2>7 DEF Token
<1>6. CASE BroadcastSnapshot
  <2>1. /\ todo = <<>> /\ todo' = [i \in DOMAIN players |-> Act("send_state", players[i].id)]
        /\ UNCHANGED <<aq, eq, endWait, waitPending>>
    BY <1>6 DEF BroadcastSnapshot, At, MainLocal, MainOnly, waitVars, gameVars
  <2>2. /\ DOMAIN players = 1 .. Len(players) /\ Len(players) \in Nat
        /\ \A i \in 1 .. Len(players) : players[i].id \in Fd
    BY PlayerAt DEF TypeInv, MainTypes
  <2>3. \A i \in 1 .. Len(players) : /\ todo'[i] = Act("send_state", players[i].id)
                                     /\ todo'[i] \in GoodActions /\ todo'[i].type # "wait_end"
    BY <2>1, <2>2 DEF GoodActions, Act, Actions, ActTypes
  <2>4. todo' = [i \in 1 .. Len(players) |-> todo'[i]]
    BY <2>1, <2>2
  <2>5. Asked(todo') = 0
    BY <2>2, <2>3, <2>4, AskedNone
  <2> QED BY <2>1, <2>5, AskedEmpty DEF Token
<1>7. CASE Update
  <2>1. PICK dead \in Seq(Fd) : todo' = [k \in 1 .. Len(dead) |-> Act("send_over", dead[k])]
    BY <1>7, DeadOnes DEF TypeInv, MainTypes
  <2>2. todo = <<>> /\ UNCHANGED <<aq, eq, endWait, waitPending>>
    BY <1>7 DEF Update, At, MainLocal, MainOnly, waitVars
  <2>3. \A i \in 1 .. Len(dead) : /\ todo'[i] \in GoodActions /\ todo'[i].type # "wait_end"
    BY <2>1 DEF GoodActions, Act, Actions, ActTypes
  <2>4. Len(dead) \in Nat /\ todo' = [i \in 1 .. Len(dead) |-> todo'[i]]
    BY <2>1
  <2>5. Asked(todo') = 0
    BY <2>3, <2>4, AskedNone
  <2> QED BY <2>2, <2>5, AskedEmpty DEF Token
<1>8. CASE EndDrain
  <2>1. todo = <<>> /\ UNCHANGED <<aq, eq, endWait>>
    BY <1>8 DEF EndDrain, At, MainLocal, MainOnly, waitVars
  <2>2. \/ UNCHANGED <<todo, waitPending>>
        \/ todo' = <<Act("wait_end", NoFd)>> /\ ~waitPending /\ waitPending' = TRUE
    BY <1>8 DEF EndDrain, ArmEndWait
  <2>3. CASE UNCHANGED <<todo, waitPending>>
    BY <2>1, <2>3 DEF Token
  <2>4. CASE todo' = <<Act("wait_end", NoFd)>> /\ ~waitPending /\ waitPending' = TRUE
    <3>1. Act("wait_end", NoFd) \in GoodActions /\ Act("wait_end", NoFd).type = "wait_end"
      BY DEF GoodActions, Act, Actions, ActTypes
    <3>2. Asked(todo') = 1
      BY <2>4, <3>1, AskedOne
    <3>3. Asked(aq) + Asked(todo) + endWait + Told(eq) = 0 /\ Asked(todo) = 0
      BY <2>1, <2>4, AskedEmpty DEF Token
    <3>4. Asked(aq') = Asked(aq) /\ endWait' = endWait /\ Told(eq') = Told(eq)
      BY <2>1
    <3>5. Asked(aq') + Asked(todo') + endWait' + Told(eq') = 1
      BY <1>0, <1>1, <3>2, <3>3, <3>4
    <3> QED BY <2>4, <3>5 DEF Token
  <2> QED BY <2>2, <2>3, <2>4
<1>9. CASE EndWaitOver
  <2>1. /\ endWait > 0 /\ endWait' = endWait - 1 /\ eq' = Append(eq, Event("waited_end", NoFd, NoConn))
        /\ UNCHANGED <<aq, todo, waitPending>>
    BY <1>9 DEF EndWaitOver, mainVars, gameVars
  <2>2. Event("waited_end", NoFd, NoConn) \in GoodEvents /\ Event("waited_end", NoFd, NoConn).type = "waited_end"
    BY DEF Event, GoodEvents, Events, EventTypes
  <2>3. Told(eq') = Told(eq) + 1
    BY <1>2, <2>1, <2>2
  <2> QED BY <1>0, <1>1, <2>1, <2>3 DEF Token
<1>10. ASSUME NEW f \in Fd, ResumeWaitOver(f) PROVE Token'
  <2>1. eq' = Append(eq, Event("waited_resume", f, NoConn)) /\ UNCHANGED <<aq, todo, endWait, waitPending>>
    BY <1>10 DEF ResumeWaitOver, mainVars, gameVars
  <2>2. Event("waited_resume", f, NoConn) \in GoodEvents /\ Event("waited_resume", f, NoConn).type # "waited_end"
    BY DEF Event, GoodEvents, Events, EventTypes
  <2>3. Told(eq') = Told(eq)
    BY <1>1, <1>2, <2>1, <2>2
  <2> QED BY <2>1, <2>3 DEF Token
<1>11. ASSUME NEW t \in Conn, RecvPost(t) PROVE Token'
  <2>1. eq' = Append(eq, recv[t].ev) /\ UNCHANGED <<aq, todo, endWait, waitPending>>
    BY <1>11 DEF RecvPost, RecvOnly, mainVars, gameVars, waitVars
  <2>2. /\ recv[t].ev \in Events /\ recv[t].ev.id \in Fd /\ recv[t].ev.src \in Conn
        /\ recv[t].ev.type # "waited_end"
    BY <1>11 DEF RecvPost, TypeInv, RecvTypes, FromClients
  <2>3. recv[t].ev \in GoodEvents
    BY <2>2 DEF GoodEvents
  <2>4. Told(eq') = Told(eq)
    BY <1>1, <1>2, <2>1, <2>2, <2>3
  <2> QED BY <2>1, <2>4 DEF Token
<1>12. CASE UNCHANGED <<aq, todo, eq, endWait, waitPending>>
  BY <1>12 DEF Token
<1>13. UNCHANGED <<aq, todo, eq, endWait, waitPending>> \/ Submit \/ WorkerExec \/ HandleEvent
       \/ BroadcastSnapshot \/ Update \/ EndDrain \/ EndWaitOver \/ (\E f \in Fd : ResumeWaitOver(f))
       \/ \E t \in Conn : RecvPost(t)
  <2>1. MainStep => \/ UNCHANGED todo \/ Submit \/ HandleEvent \/ BroadcastSnapshot \/ Update \/ EndDrain
    BY DEF MainStep, StartGame, AwaitTimeout, BroadcastError, BroadcastGameOver, Stop, JoinWorker,
           DestroyClose, DestroyJoin, DestroyDone, Exit
  <2> QED BY <1>0, <2>1 DEF Changes
<1> QED BY <1>3, <1>4, <1>5, <1>6, <1>7, <1>8, <1>9, <1>10, <1>11, <1>12, <1>13

(* wait_for_end_pending says exactly whether an end wait is under way, as a*)
(* request, a sleeping end_wait_thread or an event, and there is never a   *)
(* second one.                                                             *)
THEOREM OneEndWait == Spec => []EndWaitToken
<1>1. Init => Token
  <2> SUFFICES ASSUME Init PROVE Token
    OBVIOUS
  <2>1. aq = <<>> /\ todo = <<>> /\ eq = <<>> /\ endWait = 0 /\ waitPending = FALSE
    BY DEF Init
  <2>2. Asked(aq) = 0 /\ Asked(todo) = 0 /\ Told(eq) = 0
    BY <2>1, AskedEmpty
  <2> QED BY <2>1, <2>2 DEF Token
<1>2. TypeInv /\ Token /\ [Next]_vars => Token'
  BY TokenStep
<1>3. TypeInv /\ Token => EndWaitToken
  BY UnderWay DEF Token, EndWaitToken, TypeInv
<1> QED BY <1>1, <1>2, <1>3, TypeInvariant, PTL DEF Spec

-----------------------------------------------------------------------------
(* Pausing and resuming.                                                   *)

(* Of several players with one id only the first can be paused: the lookup *)
(* of EV_PAUSED stops there.  So the waits, which are told apart by their  *)
(* id only, never owe a wake-up to more than one player each.              *)
Waits(ps, W) ==
    /\ \A i, j \in 1 .. Len(ps) : i < j /\ ps[i].id = ps[j].id => ~ps[j].paused
    /\ \A i \in 1 .. Len(ps) : ps[i].pending => ps[i].paused
    /\ \A i \in 1 .. Len(ps) : ps[i].paused /\ ~ps[i].pending => ps[i].id \in W

(* More waits do no harm.                                                  *)
LEMMA WaitsMore ==
    ASSUME NEW ps, NEW W, NEW V, Waits(ps, W), W \subseteq V
    PROVE  Waits(ps, V)
<1> QED BY DEF Waits

(* Nor does a player that leaves,                                          *)
LEMMA WaitsRemove ==
    ASSUME NEW ps \in Seq(Player), NEW W, NEW id, Waits(ps, W)
    PROVE  Waits(RemovePlayer(ps, id), W)
<1> DEFINE m == PlayerIndex(ps, id)
           r == RemovePlayer(ps, id)
           n == Len(ps)
<1>1. n \in Nat /\ m \in 0 .. n /\ (m # 0 => m \in 1 .. n)
  BY PlayerIndexValue
<1>2. /\ m = 0 => r = ps
      /\ m # 0 => /\ Len(r) = n - 1
                  /\ \A k \in 1 .. n - 1 : r[k] = IF k < m THEN ps[k] ELSE ps[k + 1]
  BY RemovePlayerValue
<1> HIDE DEF m, r, n
<1>3. CASE m = 0
  BY <1>2, <1>3 DEF r
<1>4. CASE m # 0
  <2> DEFINE at(k) == IF k < m THEN k ELSE k + 1
  <2>1. \A k \in 1 .. n - 1 : at(k) \in 1 .. n /\ r[k] = ps[at(k)]
    BY <1>1, <1>2, <1>4
  <2>2. \A i, j \in 1 .. n - 1 : i < j => at(i) < at(j)
    BY <1>1, <1>4
  <2> HIDE DEF at
  <2>3. Len(r) = n - 1
    BY <1>2, <1>4
  <2>4. \A i, j \in 1 .. n : i < j /\ ps[i].id = ps[j].id => ~ps[j].paused
    BY DEF Waits, n
  <2>5. \A i, j \in 1 .. n - 1 : i < j /\ r[i].id = r[j].id => ~r[j].paused
    BY <2>1, <2>2, <2>4
  <2> QED BY <2>1, <2>3, <2>5 DEF Waits, n, r
<1> QED BY <1>3, <1>4

(* nor one that joins.                                                     *)
LEMMA WaitsAdd ==
    ASSUME NEW ps \in Seq(Player), NEW W, NEW id \in Fd, NEW c \in Conn, Waits(ps, W)
    PROVE  Waits(AddPlayer(ps, id, c), W)
<1> DEFINE n == Len(ps)
           r == AddPlayer(ps, id, c)
           p == NewPlayer(id, c)
<1>1. n \in Nat /\ Len(r) = n + 1 /\ r[n + 1] = p /\ \A k \in 1 .. n : r[k] = ps[k]
  BY DEF AddPlayer
<1>2. ~p.paused /\ ~p.pending
  BY DEF NewPlayer
<1> HIDE DEF n, r, p
<1>3. \A k \in 1 .. n + 1 : k \in 1 .. n \/ k = n + 1
  BY <1>1
<1>4. \A i, j \in 1 .. n + 1 : i < j => i \in 1 .. n
  BY <1>1
<1>5. /\ \A i, j \in 1 .. n : i < j /\ ps[i].id = ps[j].id => ~ps[j].paused
      /\ \A i \in 1 .. n : ps[i].pending => ps[i].paused
      /\ \A i \in 1 .. n : ps[i].paused /\ ~ps[i].pending => ps[i].id \in W
  BY DEF Waits, n
<1>6. \A i, j \in 1 .. n + 1 : i < j /\ r[i].id = r[j].id => ~r[j].paused
  BY <1>1, <1>2, <1>3, <1>4, <1>5
<1>7. \A i \in 1 .. n + 1 : /\ r[i].pending => r[i].paused
                            /\ r[i].paused /\ ~r[i].pending => r[i].id \in W
  BY <1>1, <1>2, <1>3, <1>5
<1> QED BY <1>1, <1>6, <1>7 DEF Waits, r

(* A player that pauses awaits a RESUME, so nobody owes it a wait.         *)
LEMMA WaitsPause ==
    ASSUME NEW ps \in Seq(Player), NEW W, NEW id, Waits(ps, W)
    PROVE  Waits(PausePlayer(ps, id), W)
<1> DEFINE m == PlayerIndex(ps, id)
           r == PausePlayer(ps, id)
           n == Len(ps)
<1>0. ps \in Seq(Records(Fd, Conn))
  BY DEF Player
<1>1. /\ n \in Nat /\ (m # 0 => r[m].paused /\ r[m].pending)
      /\ m \in 0 .. n
      /\ m # 0 => m \in 1 .. n /\ ps[m].id = id /\ \A k \in 1 .. m - 1 : ps[k].id # id
  BY <1>0, PauseValue, PlayerIndexValue
<1>12. Others(ps, r, m)
  BY <1>0, PauseValue
<1> HIDE DEF m, r
<1>2. Len(r) = n /\ \A k \in 1 .. n : r[k].id = ps[k].id /\ (k # m => r[k] = ps[k])
  BY <1>12 DEF Others
<1> HIDE DEF n
<1>3. /\ \A i, j \in 1 .. n : i < j /\ ps[i].id = ps[j].id => ~ps[j].paused
      /\ \A i \in 1 .. n : ps[i].pending => ps[i].paused
      /\ \A i \in 1 .. n : ps[i].paused /\ ~ps[i].pending => ps[i].id \in W
  BY DEF Waits, n
<1>4. ASSUME NEW i \in 1 .. n, NEW j \in 1 .. n, i < j, r[i].id = r[j].id PROVE ~r[j].paused
  <2>1. j # m
    <3>1. CASE j = m
      <4>1. i \in 1 .. m - 1
        BY <1>1, <1>4, <3>1
      <4> QED BY <1>1, <1>2, <1>4, <3>1, <4>1
    <3> QED BY <3>1
  <2> QED BY <1>2, <1>3, <1>4, <2>1
<1>5. ASSUME NEW i \in 1 .. n
      PROVE (r[i].pending => r[i].paused) /\ (r[i].paused /\ ~r[i].pending => r[i].id \in W)
  <2>1. CASE i = m
    BY <1>1, <2>1
  <2>2. CASE i # m
    BY <1>2, <1>3, <2>2
  <2> QED BY <2>1, <2>2
<1> QED BY <1>2, <1>4, <1>5 DEF Waits, r

(* One that has asked to resume needs its wait.                            *)
LEMMA WaitsSchedule ==
    ASSUME NEW ps \in Seq(Player), NEW W, NEW id \in W, Waits(ps, W)
    PROVE  Waits(ScheduleResume(ps, id), W)
<1> DEFINE m == PlayerIndex(ps, id)
           r == ScheduleResume(ps, id)
           n == Len(ps)
<1>0. ps \in Seq(Records(Fd, Conn))
  BY DEF Player
<1>1. /\ n \in Nat
      /\ m \in 0 .. n
      /\ m # 0 => m \in 1 .. n /\ ps[m].id = id /\ \A k \in 1 .. m - 1 : ps[k].id # id
  BY <1>0, ScheduleValue, PlayerIndexValue
<1>11. m # 0 => r[m].paused = ps[m].paused /\ ~r[m].pending
  BY <1>0, ScheduleValue
<1>12. Others(ps, r, m)
  BY <1>0, ScheduleValue
<1> HIDE DEF m, r
<1>2. Len(r) = n /\ \A k \in 1 .. n : r[k].id = ps[k].id /\ (k # m => r[k] = ps[k])
  BY <1>12 DEF Others
<1> HIDE DEF n
<1>3. /\ \A i, j \in 1 .. n : i < j /\ ps[i].id = ps[j].id => ~ps[j].paused
      /\ \A i \in 1 .. n : ps[i].pending => ps[i].paused
      /\ \A i \in 1 .. n : ps[i].paused /\ ~ps[i].pending => ps[i].id \in W
  BY DEF Waits, n
<1>4. ASSUME NEW i \in 1 .. n, NEW j \in 1 .. n, i < j, r[i].id = r[j].id PROVE ~r[j].paused
  <2>1. j # m
    <3>1. CASE j = m
      <4>1. i \in 1 .. m - 1
        BY <1>1, <1>4, <3>1
      <4> QED BY <1>1, <1>2, <1>4, <3>1, <4>1
    <3> QED BY <3>1
  <2> QED BY <1>2, <1>3, <1>4, <2>1
<1>5. ASSUME NEW i \in 1 .. n
      PROVE (r[i].pending => r[i].paused) /\ (r[i].paused /\ ~r[i].pending => r[i].id \in W)
  <2>1. CASE i = m
    <3>1. m # 0 /\ r[i].id = id
      BY <1>1, <1>2, <2>1
    <3> QED BY <1>11, <2>1, <3>1
  <2>2. CASE i # m
    BY <1>2, <1>3, <2>2
  <2> QED BY <2>1, <2>2
<1> QED BY <1>2, <1>4, <1>5 DEF Waits, r

(* A wait that is over is no longer needed, because the one player that    *)
(* could need it is released.                                              *)
LEMMA WaitsResume ==
    ASSUME NEW ps \in Seq(Player), NEW W, NEW id, Waits(ps, W)
    PROVE  Waits(ResumePlayer(ps, id), W \ {id})
<1> DEFINE m == ReadyIndex(ps, id)
           r == ResumePlayer(ps, id)
           n == Len(ps)
<1>0. ps \in Seq(Records(Fd, Conn)) /\ \A i \in 1 .. n : ps[i].paused \in BOOLEAN /\ ps[i].pending \in BOOLEAN
  BY PlayerAt DEF Player
<1>1. /\ n \in Nat
      /\ m # 0 => ~r[m].paused /\ ~r[m].pending
      /\ m = 0 => \A k \in 1 .. n : ~(ps[k].id = id /\ ~ps[k].pending)
      /\ m # 0 => /\ m \in 1 .. n /\ ps[m].id = id /\ ~ps[m].pending
                  /\ \A k \in 1 .. m - 1 : ~(ps[k].id = id /\ ~ps[k].pending)
  BY <1>0, ResumeValue, ReadyIndexValue
<1>12. Others(ps, r, m)
  BY <1>0, ResumeValue
<1> HIDE DEF m, r
<1>2. Len(r) = n /\ \A k \in 1 .. n : r[k].id = ps[k].id /\ (k # m => r[k] = ps[k])
  BY <1>12 DEF Others
<1> HIDE DEF n
<1>3. /\ \A i, j \in 1 .. n : i < j /\ ps[i].id = ps[j].id => ~ps[j].paused
      /\ \A i \in 1 .. n : ps[i].pending => ps[i].paused
      /\ \A i \in 1 .. n : ps[i].paused /\ ~ps[i].pending => ps[i].id \in W
  BY DEF Waits, n
<1>4. ASSUME NEW i \in 1 .. n, NEW j \in 1 .. n, i < j, r[i].id = r[j].id PROVE ~r[j].paused
  <2>1. CASE j = m
    BY <1>1, <2>1
  <2>2. CASE j # m
    BY <1>2, <1>3, <1>4, <2>2
  <2> QED BY <2>1, <2>2
<1>5. ASSUME NEW i \in 1 .. n
      PROVE (r[i].pending => r[i].paused) /\ (r[i].paused /\ ~r[i].pending => r[i].id \in W \ {id})
  <2>1. CASE i = m
    BY <1>1, <2>1
  <2>2. CASE i # m
    <3>1. r[i] = ps[i]
      BY <1>2, <2>2
    <3>2. SUFFICES ASSUME ps[i].paused, ~ps[i].pending, ps[i].id = id PROVE FALSE
      BY <1>3, <3>1
    <3>3. m # 0 /\ m \in 1 .. n /\ ps[m].id = id
      BY <1>1, <3>2
    <3>4. CASE m < i
      BY <1>3, <3>2, <3>3, <3>4
    <3>5. CASE i < m
      <4>1. i \in 1 .. m - 1
        BY <1>1, <3>3, <3>5
      <4> QED BY <1>1, <3>2, <3>3, <4>1
    <3> QED BY <1>1, <2>2, <3>3, <3>4, <3>5
  <2> QED BY <2>1, <2>2
<1> QED BY <1>2, <1>4, <1>5 DEF Waits, r

(* Several players leave.                                                  *)
LEMMA WaitsRemoveAll ==
    ASSUME NEW ps \in Seq(Player), NEW W, Waits(ps, W), NEW dead \in Seq(Fd)
    PROVE  Waits(RemovePlayers(ps, dead), W)
<1> DEFINE P == {q \in Seq(Player) : Waits(q, W)}
<1>1. ClosedUnderRemoval(P, Fd)
  BY RemovePlayerValue, WaitsRemove DEF ClosedUnderRemoval
<1>2. ps \in P
  OBVIOUS
<1> HIDE DEF P
<1>3. RemovePlayers(ps, dead) \in P
  BY <1>1, <1>2, RemovePlayersKeeps
<1> QED BY <1>3 DEF P

-----------------------------------------------------------------------------
(* Sequences that hold an element of a set.                                *)

Some(s, S)  == \E k \in 1 .. Len(s) : s[k] \in S
Among(s, a) == Some(s, {a})

(* Where an element of two sequences, ...                                  *)
LEMMA SomeConcat ==
    ASSUME NEW U, NEW s \in Seq(U), NEW t \in Seq(U), NEW S
    PROVE  Some(s \o t, S) <=> Some(s, S) \/ Some(t, S)
<1> DEFINE r == s \o t
           m == Len(s)
           n == Len(t)
<1>1. /\ m \in Nat /\ n \in Nat /\ Len(r) = m + n
      /\ \A k \in 1 .. m + n : r[k] = IF k <= m THEN s[k] ELSE t[k - m]
  OBVIOUS
<1> HIDE DEF r, m, n
<1>2. \A k \in 1 .. m : k \in 1 .. m + n /\ r[k] = s[k]
  BY <1>1
<1>3. \A k \in 1 .. n : m + k \in 1 .. m + n /\ ~(m + k <= m) /\ (m + k) - m = k
  BY <1>1
<1>4. \A k \in 1 .. n : r[m + k] = t[k]
  BY <1>1, <1>3
<1>5. \A k \in 1 .. m + n : (k \in 1 .. m /\ r[k] = s[k]) \/ (k - m \in 1 .. n /\ r[k] = t[k - m])
  BY <1>1
<1>6. Some(r, S) => Some(s, S) \/ Some(t, S)
  BY <1>1, <1>5 DEF Some, m, n
<1>7. Some(s, S) \/ Some(t, S) => Some(r, S)
  BY <1>1, <1>2, <1>3, <1>4 DEF Some, m, n
<1> QED BY <1>6, <1>7 DEF r

(* ... of a sequence and its tail, ...                                     *)
LEMMA SomeHead ==
    ASSUME NEW U, NEW s \in Seq(U), s # <<>>, NEW S
    PROVE  Some(s, S) <=> Some(Tail(s), S) \/ Head(s) \in S
<1> DEFINE t == Tail(s)
           n == Len(s)
<1>1. /\ n \in Nat /\ n # 0 /\ Len(t) = n - 1 /\ s[1] = Head(s)
      /\ \A k \in 1 .. n - 1 : t[k] = s[k + 1]
  OBVIOUS
<1> HIDE DEF t, n
<1>2. 1 \in 1 .. n /\ \A k \in 1 .. n - 1 : k + 1 \in 1 .. n
  BY <1>1
<1>3. \A k \in 1 .. n : k = 1 \/ (k - 1 \in 1 .. n - 1 /\ (k - 1) + 1 = k)
  BY <1>1
<1>4. \A k \in 1 .. n : k = 1 \/ (k - 1 \in 1 .. n - 1 /\ t[k - 1] = s[k])
  BY <1>1, <1>3
<1> QED BY <1>1, <1>2, <1>4 DEF Some, t, n

(* ... of none, ...                                                        *)
LEMMA SomeEmpty == ASSUME NEW S PROVE ~Some(<<>>, S)
<1>1. Len(<<>>) = 0
  OBVIOUS
<1> QED BY <1>1 DEF Some

(* ... of one ...                                                          *)
LEMMA SomeOne == ASSUME NEW e, NEW S PROVE Some(<<e>>, S) <=> e \in S
<1> DEFINE s == <<e>>
<1>1. Len(s) = 1 /\ s[1] = e /\ 1 \in 1 .. 1 /\ \A k \in 1 .. 1 : k = 1
  OBVIOUS
<1> HIDE DEF s
<1>2. Some(s, S) <=> e \in S
  BY <1>1 DEF Some
<1> QED BY <1>2 DEF s

(* ... and of one more is.                                                 *)
LEMMA SomeAppend ==
    ASSUME NEW U, NEW s \in Seq(U), NEW e \in U, NEW S
    PROVE  Some(Append(s, e), S) <=> Some(s, S) \/ e \in S
<1> DEFINE t == Append(s, e)
           n == Len(s)
<1>1. n \in Nat /\ Len(t) = n + 1 /\ t[n + 1] = e /\ \A k \in 1 .. n : t[k] = s[k]
  OBVIOUS
<1> HIDE DEF t, n
<1>2. n + 1 \in 1 .. n + 1 /\ \A k \in 1 .. n : k \in 1 .. n + 1
  BY <1>1
<1>3. \A k \in 1 .. n + 1 : k \in 1 .. n \/ k = n + 1
  BY <1>1
<1> QED BY <1>1, <1>2, <1>3 DEF Some, t, n

WakeUp(f) == {e \in Events : e.type = "waited_resume" /\ e.id = f}

(* WakeOnItsWay, place by place.                                           *)
Wake(f) ==
    \/ Among(aq, Act("wait_paused", f)) \/ Among(todo, Act("wait_paused", f))
    \/ resumeWait[f] > 0
    \/ Some(eq, WakeUp(f))

Woken == {f \in Fd : Wake(f)}

WakeInv == Waits(players, Woken)

(* What main has asked for, and the events, as sequences.                  *)
LEMMA RequestsType ==
    ASSUME QueueTypes
    PROVE  /\ aq \in Seq(GoodActions) /\ todo \in Seq(GoodActions) /\ Requests \in Seq(GoodActions)
           /\ eq \in Seq(GoodEvents) /\ DOMAIN eq = 1 .. Len(eq)
           /\ DOMAIN Requests = 1 .. Len(Requests) /\ Len(Requests) \in Nat
<1> QED BY ConcatProperties DEF QueueTypes, Requests

(* The definition of the property and its form by places agree.            *)
LEMMA WakeMeans ==
    ASSUME QueueTypes, NEW f \in Fd
    PROVE  WakeOnItsWay(f) <=> Wake(f)
<1> DEFINE a == Act("wait_paused", f)
<1>1. /\ aq \in Seq(GoodActions) /\ todo \in Seq(GoodActions) /\ DOMAIN eq = 1 .. Len(eq)
      /\ DOMAIN Requests = 1 .. Len(Requests) /\ eq \in Seq(GoodEvents)
  BY RequestsType
<1>2. a \in ToSet(Requests) <=> Among(Requests, a)
  BY <1>1 DEF ToSet, Among, Some
<1>3. Among(Requests, a) <=> Among(aq, a) \/ Among(todo, a)
  <2> HIDE DEF a
  <2> QED BY <1>1, SomeConcat DEF Among, Requests
<1>4. \A i \in 1 .. Len(eq) : eq[i] \in Events
  BY <1>1 DEF GoodEvents
<1>5. Some(eq, WakeUp(f)) <=> \E i \in 1 .. Len(eq) : eq[i].type = "waited_resume" /\ eq[i].id = f
  BY <1>4 DEF Some, WakeUp
<1> QED BY <1>1, <1>2, <1>3, <1>5 DEF WakeOnItsWay, Wake

(* A wake-up on its way stays so until it is handled.                      *)
LEMMA WakeStays ==
    ASSUME TypeInv, [Next]_vars, NEW f \in Fd, Wake(f),
           ~(HandleEvent /\ Head(eq).type = "waited_resume" /\ Head(eq).id = f)
    PROVE  Wake(f)'
<1> DEFINE a == Act("wait_paused", f)
           Coming(q) == Some(q, WakeUp(f))
<1>0. Changes /\ QueueTypes /\ resumeWait \in [Fd -> Nat]
  BY WhoChanges DEF TypeInv, WorkerTypes
<1>1. aq \in Seq(GoodActions) /\ todo \in Seq(GoodActions) /\ eq \in Seq(GoodEvents)
  BY <1>0 DEF QueueTypes
<1>2. ASSUME NEW e \in GoodEvents, eq' = Append(eq, e), Coming(eq) \/ e \in WakeUp(f) PROVE Coming(eq')
  BY <1>1, <1>2, SomeAppend
<1>3. CASE Submit
  <2>1. /\ todo # <<>> /\ aq' = Append(aq, Head(todo)) /\ todo' = Tail(todo)
        /\ UNCHANGED <<eq, resumeWait>>
    BY <1>3 DEF Submit, MainOnly, waitVars
  <2>2. Head(todo) \in GoodActions
    BY <1>1, <2>1
  <2>3. Among(aq', a) <=> Among(aq, a) \/ Head(todo) = a
    <3> HIDE DEF a
    <3> QED BY <1>1, <2>1, <2>2, SomeAppend DEF Among
  <2>4. Among(todo, a) <=> Among(todo', a) \/ Head(todo) = a
    <3> HIDE DEF a
    <3> QED BY <1>1, <2>1, SomeHead DEF Among
  <2> QED BY <2>1, <2>3, <2>4 DEF Wake
<1>4. CASE WorkerExec
  <2>1. aq # <<>> /\ aq' = Tail(aq) /\ UNCHANGED <<eq, todo>>
    BY <1>4 DEF WorkerExec, WorkerOnly, mainVars
  <2>2. Among(aq, a) <=> Among(aq', a) \/ Head(aq) = a
    <3> HIDE DEF a
    <3> QED BY <1>1, <2>1, SomeHead DEF Among
  <2>3. Head(aq) \in GoodActions
    BY <1>0, <2>1, AqHead
  <2>4. (resumeWait[f] > 0 => resumeWait'[f] > 0) /\ (Head(aq) = a => resumeWait'[f] > 0)
    <3>1. CASE Head(aq).type = "wait_paused"
      <4>1. PICK g \in Fd : g = Head(aq).id
        BY <2>3, <3>1 DEF GoodActions
      <4>2. resumeWait' = [resumeWait EXCEPT ![g] = @ + 1]
        BY <1>4, <3>1, <4>1 DEF WorkerExec
      <4>3. Head(aq) = a => g = f
        BY <4>1 DEF Act
      <4> QED BY <1>0, <4>2, <4>3
    <3>2. CASE Head(aq).type # "wait_paused"
      <4>1. resumeWait' = resumeWait
        BY <1>4, <3>2 DEF WorkerExec, waitVars
      <4>2. Head(aq) # a
        BY <3>2 DEF Act
      <4> QED BY <4>1, <4>2
    <3> QED BY <3>1, <3>2
  <2> QED BY <2>1, <2>2, <2>4 DEF Wake
<1>5. CASE HandleEvent
  <2>1. eq # <<>> /\ eq' = Tail(eq) /\ todo = <<>> /\ UNCHANGED <<aq, resumeWait>>
    BY <1>5 DEF HandleEvent, At, MainOnly, waitVars
  <2>2. ~Among(todo, a)
    BY <2>1, SomeEmpty DEF Among
  <2>3. Coming(eq) => Coming(eq')
    <3>1. Head(eq) \notin WakeUp(f)
      BY <1>5 DEF WakeUp
    <3> QED BY <1>1, <2>1, <3>1, SomeHead
  <2> QED BY <2>1, <2>2, <2>3 DEF Wake
<1>6. ASSUME NEW g \in Fd, ResumeWaitOver(g) PROVE Wake(f)'
  <2>1. /\ eq' = Append(eq, Event("waited_resume", g, NoConn)) /\ UNCHANGED <<aq, todo>>
        /\ resumeWait' = [resumeWait EXCEPT ![g] = @ - 1]
    BY <1>6 DEF ResumeWaitOver, mainVars
  <2>2. Event("waited_resume", g, NoConn) \in GoodEvents
    BY DEF Event, GoodEvents, Events, EventTypes
  <2>3. g = f => Coming(eq')
    <3>1. g = f => Event("waited_resume", g, NoConn) \in WakeUp(f)
      BY <2>2 DEF Event, WakeUp, GoodEvents
    <3> QED BY <1>2, <2>1, <2>2, <3>1
  <2>4. g # f => resumeWait'[f] = resumeWait[f]
    BY <1>0, <2>1
  <2>5. Coming(eq) => Coming(eq')
    BY <1>2, <2>1, <2>2
  <2> QED BY <2>1, <2>3, <2>4, <2>5 DEF Wake
<1>7. CASE EndWaitOver
  <2>1. eq' = Append(eq, Event("waited_end", NoFd, NoConn)) /\ UNCHANGED <<aq, todo, resumeWait>>
    BY <1>7 DEF EndWaitOver, mainVars
  <2>2. Event("waited_end", NoFd, NoConn) \in GoodEvents
    BY DEF Event, GoodEvents, Events, EventTypes
  <2>3. Coming(eq) => Coming(eq')
    BY <1>2, <2>1, <2>2
  <2> QED BY <2>1, <2>3 DEF Wake
<1>8. ASSUME NEW t \in Conn, RecvPost(t) PROVE Wake(f)'
  <2>1. eq' = Append(eq, recv[t].ev) /\ UNCHANGED <<aq, todo, resumeWait>>
    BY <1>8 DEF RecvPost, RecvOnly, mainVars, waitVars
  <2>2. recv[t].ev \in Events /\ recv[t].ev.id \in Fd /\ recv[t].ev.src \in Conn
    BY <1>8 DEF RecvPost, TypeInv, RecvTypes
  <2>3. recv[t].ev \in GoodEvents
    BY <2>2 DEF GoodEvents
  <2>4. Coming(eq) => Coming(eq')
    BY <1>2, <2>1, <2>3
  <2> QED BY <2>1, <2>4 DEF Wake
<1>9. CASE BroadcastSnapshot \/ Update \/ EndDrain
  <2>1. todo = <<>> /\ UNCHANGED <<aq, eq, resumeWait>>
    BY <1>9 DEF BroadcastSnapshot, Update, EndDrain, At, MainLocal, MainOnly, waitVars
  <2>2. ~Among(todo, a)
    BY <2>1, SomeEmpty DEF Among
  <2> QED BY <2>1, <2>2 DEF Wake
<1>10. CASE UNCHANGED <<aq, todo, eq, resumeWait>>
  BY <1>10 DEF Wake
<1>11. UNCHANGED <<aq, todo, eq, resumeWait>> \/ Submit \/ WorkerExec \/ HandleEvent
       \/ BroadcastSnapshot \/ Update \/ EndDrain \/ EndWaitOver \/ (\E g \in Fd : ResumeWaitOver(g))
       \/ \E t \in Conn : RecvPost(t)
  <2>1. MainStep => \/ UNCHANGED todo \/ Submit \/ HandleEvent \/ BroadcastSnapshot \/ Update \/ EndDrain
    BY DEF MainStep, StartGame, AwaitTimeout, BroadcastError, BroadcastGameOver, Stop, JoinWorker,
           DestroyClose, DestroyJoin, DestroyDone, Exit
  <2> QED BY <1>0, <2>1 DEF Changes
<1> QED BY <1>3, <1>4, <1>5, <1>6, <1>7, <1>8, <1>9, <1>10, <1>11

(* Whoever is paused and has asked to resume keeps its wait.               *)
LEMMA WakeStep == TypeInv /\ WakeInv /\ [Next]_vars => WakeInv'
<1> SUFFICES ASSUME TypeInv, WakeInv, [Next]_vars PROVE WakeInv'
  OBVIOUS
<1>0. Changes /\ players \in Seq(Player) /\ QueueTypes /\ Waits(players, Woken)
  BY WhoChanges DEF TypeInv, MainTypes, WakeInv
<1>1. CASE HandleEvent
  <2> DEFINE ev == Head(eq)
  <2>1. ev \in GoodEvents
    BY <1>0, <1>1, EqHead DEF HandleEvent
  <2>2. \/ OnConnected(ev) \/ OnInput(ev) \/ OnPaused(ev) \/ OnResumed(ev)
        \/ OnWaitedResume(ev) \/ OnDisconnected(ev) \/ OnWaitedEnd(ev)
    BY <1>1 DEF HandleEvent
  <2>3. ev.type # "waited_resume" => Woken \subseteq Woken'
    BY WakeStays DEF Woken
  <2>4. ev.type = "waited_resume" => Woken \ {ev.id} \subseteq Woken'
    BY WakeStays DEF Woken
  <2> HIDE DEF ev
  <2>5. CASE OnConnected(ev)
    <3>1. ev.id \in Fd /\ ev.src \in Conn
      BY <2>1, <2>5 DEF OnConnected, GoodEvents
    <3>2. Waits(players', Woken)
      BY <1>0, <2>5, <3>1, WaitsAdd DEF OnConnected
    <3> QED BY <2>3, <2>5, <3>2, WaitsMore DEF WakeInv, OnConnected
  <2>6. CASE OnInput(ev) \/ OnWaitedEnd(ev)
    <3>1. players' = players /\ ev.type # "waited_resume"
      BY <2>6 DEF OnInput, OnWaitedEnd
    <3> QED BY <1>0, <2>3, <3>1, WaitsMore DEF WakeInv
  <2>7. CASE OnPaused(ev)
    <3>1. Waits(players', Woken)
      BY <1>0, <2>7, WaitsPause DEF OnPaused
    <3> QED BY <2>3, <2>7, <3>1, WaitsMore DEF WakeInv, OnPaused
  <2>8. CASE OnResumed(ev)
    <3>1. ev.id \in Fd /\ todo' = <<Act("wait_paused", ev.id)>> /\ ev.type # "waited_resume"
          /\ players' = ScheduleResume(players, ev.id)
      BY <2>1, <2>8 DEF OnResumed, GoodEvents
    <3>2. Among(todo', Act("wait_paused", ev.id))
      <4> DEFINE a == Act("wait_paused", ev.id)
      <4>1. a \in {a} /\ todo' = <<a>>
        BY <3>1
      <4> HIDE DEF a
      <4>2. Among(todo', a)
        BY <4>1, SomeOne DEF Among
      <4> QED BY <4>2 DEF a
    <3>3. ev.id \in Woken'
      <4>1. PICK f \in Fd : f = ev.id
        BY <3>1
      <4>2. f \in Woken'
        BY <3>2, <4>1 DEF Woken, Wake
      <4> QED BY <4>1, <4>2
    <3>4. Waits(players, Woken')
      BY <1>0, <2>3, <3>1, WaitsMore
    <3>5. Waits(ScheduleResume(players, ev.id), Woken')
      BY <1>0, <3>3, <3>4, WaitsSchedule
    <3> QED BY <3>1, <3>5 DEF WakeInv
  <2>9. CASE OnWaitedResume(ev)
    <3>1. players' = ResumePlayer(players, ev.id) /\ ev.type = "waited_resume"
      BY <2>9 DEF OnWaitedResume
    <3>2. Waits(players', Woken \ {ev.id})
      BY <1>0, <3>1, WaitsResume
    <3> QED BY <2>4, <3>1, <3>2, WaitsMore DEF WakeInv
  <2>10. CASE OnDisconnected(ev)
    <3>1. Waits(players', Woken)
      BY <1>0, <2>10, WaitsRemove DEF OnDisconnected
    <3> QED BY <2>3, <2>10, <3>1, WaitsMore DEF WakeInv, OnDisconnected
  <2> QED BY <2>2, <2>5, <2>6, <2>7, <2>8, <2>9, <2>10
<1>2. CASE ~HandleEvent
  <2>1. Woken \subseteq Woken'
    BY <1>2, WakeStays DEF Woken
  <2>2. CASE Update
    <3>1. PICK dead \in Seq(Fd) : players' = RemovePlayers(players, dead)
      BY <1>0, <2>2, DeadOnes
    <3>2. Waits(players', Woken)
      BY <1>0, <3>1, WaitsRemoveAll
    <3> QED BY <2>1, <3>2, WaitsMore DEF WakeInv
  <2>3. CASE Stop
    <3>1. players' = <<>> /\ Len(<<>>) = 0
      BY <2>3 DEF Stop
    <3> QED BY <3>1 DEF WakeInv, Waits
  <2>4. CASE UNCHANGED players
    BY <1>0, <2>1, <2>4, WaitsMore DEF WakeInv
  <2> QED BY <1>0, <1>2, <2>2, <2>3, <2>4 DEF Changes
<1> QED BY <1>1, <1>2

(* A player that has asked to resume (schedule_resume_player) is paused    *)
(* only as long as its resume_wait_thread, the request for it or its event *)
(* is on its way, and only a paused player awaits a RESUME.                *)
THEOREM NobodyPausedForEver == Spec => []PausedHasWake
<1>1. Init => WakeInv
  <2>1. Len(<<>>) = 0
    OBVIOUS
  <2> QED BY <2>1 DEF Init, WakeInv, Waits
<1>2. TypeInv /\ WakeInv /\ [Next]_vars => WakeInv'
  BY WakeStep
<1>3. TypeInv /\ WakeInv => PausedHasWake
  <2> SUFFICES ASSUME TypeInv, WakeInv, NEW p \in ToSet(players)
               PROVE  /\ p.paused /\ ~p.pending => WakeOnItsWay(p.id)
                      /\ p.pending => p.paused
    BY DEF PausedHasWake
  <2>1. players \in Seq(Player) /\ QueueTypes
    BY DEF TypeInv, MainTypes
  <2>2. PICK i \in 1 .. Len(players) : p = players[i]
    BY <2>1 DEF ToSet
  <2>3. p.id \in Fd
    BY <2>1, <2>2, PlayerAt
  <2>4. (p.pending => p.paused) /\ (p.paused /\ ~p.pending => p.id \in Woken)
    BY <2>2 DEF WakeInv, Waits
  <2>5. p.id \in Woken => WakeOnItsWay(p.id)
    BY <2>1, WakeMeans DEF Woken
  <2> QED BY <2>4, <2>5
<1> QED BY <1>1, <1>2, <1>3, TypeInvariant, PTL DEF Spec

-----------------------------------------------------------------------------
(***************************************************************************)
(* Order in a sequence: no element of B comes after one of A; every one of *)
(* B comes after one of A.                                                 *)
(***************************************************************************)
NoneAfter(s, A, B) == \A k \in 1 .. Len(s) : s[k] \in B => \A j \in 1 .. k - 1 : s[j] \notin A
Preceded(s, A, B)  == \A k \in 1 .. Len(s) : s[k] \in B => \E j \in 1 .. k - 1 : s[j] \in A

(* Where the elements of s \o t come from.                                 *)
LEMMA ConcatAt ==
    ASSUME NEW U, NEW s \in Seq(U), NEW t \in Seq(U)
    PROVE  /\ Len(s) \in Nat /\ Len(t) \in Nat /\ Len(s \o t) = Len(s) + Len(t)
           /\ \A k \in 1 .. Len(s) : k \in 1 .. Len(s) + Len(t) /\ (s \o t)[k] = s[k]
           /\ \A k \in 1 .. Len(s) + Len(t) :
                 \/ k \in 1 .. Len(s) /\ (s \o t)[k] = s[k]
                 \/ k - Len(s) \in 1 .. Len(t) /\ (s \o t)[k] = t[k - Len(s)]
<1> DEFINE r == s \o t
           m == Len(s)
           n == Len(t)
<1>1. /\ m \in Nat /\ n \in Nat /\ Len(r) = m + n
      /\ \A k \in 1 .. m + n : r[k] = IF k <= m THEN s[k] ELSE t[k - m]
  OBVIOUS
<1> HIDE DEF r, m, n
<1>2. \A k \in 1 .. m : k \in 1 .. m + n /\ r[k] = s[k]
  BY <1>1
<1>3. \A k \in 1 .. m + n : (k \in 1 .. m /\ r[k] = s[k]) \/ (k - m \in 1 .. n /\ r[k] = t[k - m])
  BY <1>1
<1> QED BY <1>1, <1>2, <1>3 DEF r, m, n

(* When order is kept by joining two sequences, ...                        *)
LEMMA NoneAfterConcat ==
    ASSUME NEW U, NEW s \in Seq(U), NEW t \in Seq(U), NEW A, NEW B,
           NoneAfter(s, A, B), NoneAfter(t, A, B), ~Some(s, A) \/ ~Some(t, B)
    PROVE  NoneAfter(s \o t, A, B)
<1> DEFINE r == s \o t
           m == Len(s)
           n == Len(t)
<1>1. /\ m \in Nat /\ n \in Nat /\ Len(r) = m + n
      /\ \A k \in 1 .. m + n : (k \in 1 .. m /\ r[k] = s[k]) \/ (k - m \in 1 .. n /\ r[k] = t[k - m])
  BY ConcatAt
<1> HIDE DEF r
<1>2. SUFFICES ASSUME NEW k \in 1 .. m + n, r[k] \in B, NEW j \in 1 .. k - 1, r[j] \in A PROVE FALSE
  BY <1>1 DEF NoneAfter, r
<1>3. j \in 1 .. m + n /\ j < k
  BY <1>1, <1>2
<1>4. CASE k \in 1 .. m /\ r[k] = s[k]
  <2>1. j \in 1 .. m /\ ~(j - m \in 1 .. n)
    BY <1>1, <1>3, <1>4
  <2>2. r[j] = s[j]
    BY <1>1, <1>3, <2>1
  <2> QED BY <1>2, <1>4, <2>1, <2>2 DEF NoneAfter
<1>5. CASE k - m \in 1 .. n /\ r[k] = t[k - m]
  <2>1. Some(t, B)
    BY <1>2, <1>5 DEF Some
  <2>2. CASE j \in 1 .. m /\ r[j] = s[j]
    <3>1. Some(s, A)
      BY <1>2, <2>2 DEF Some
    <3> QED BY <2>1, <3>1
  <2>3. CASE j - m \in 1 .. n /\ r[j] = t[j - m]
    <3>1. j - m \in 1 .. (k - m) - 1
      BY <1>1, <1>3, <2>3
    <3> QED BY <1>2, <1>5, <2>3, <3>1 DEF NoneAfter
  <2> QED BY <1>1, <1>3, <2>2, <2>3
<1> QED BY <1>1, <1>4, <1>5

(* ... in one that has none of one kind, ...                               *)
LEMMA NoneAfterNone ==
    ASSUME NEW s, NEW A, NEW B, Len(s) \in Nat, ~Some(s, A) \/ ~Some(s, B)
    PROVE  NoneAfter(s, A, B)
<1>1. SUFFICES ASSUME NEW k \in 1 .. Len(s), s[k] \in B, NEW j \in 1 .. k - 1, s[j] \in A PROVE FALSE
  BY DEF NoneAfter
<1>2. j \in 1 .. Len(s)
  BY <1>1
<1> QED BY <1>1, <1>2 DEF Some

(* ... by one more element ...                                             *)
LEMMA NoneAfterAppend ==
    ASSUME NEW U, NEW s \in Seq(U), NEW e \in U, NEW A, NEW B,
           NoneAfter(s, A, B), ~Some(s, A) \/ e \notin B
    PROVE  NoneAfter(Append(s, e), A, B)
<1> DEFINE t == Append(s, e)
           n == Len(s)
<1>1. n \in Nat /\ Len(t) = n + 1 /\ t[n + 1] = e /\ \A k \in 1 .. n : t[k] = s[k]
  OBVIOUS
<1> HIDE DEF t
<1>2. SUFFICES ASSUME NEW k \in 1 .. n + 1, t[k] \in B, NEW j \in 1 .. k - 1, t[j] \in A PROVE FALSE
  BY <1>1 DEF NoneAfter, t
<1>3. j \in 1 .. n /\ s[j] \in A
  BY <1>1, <1>2
<1>4. k \in 1 .. n \/ k = n + 1
  BY <1>1
<1>5. Some(s, A)
  BY <1>3 DEF Some
<1> QED BY <1>1, <1>2, <1>3, <1>4, <1>5 DEF NoneAfter

(* The elements of a tail are those of the sequence.                       *)
LEMMA TailAt ==
    ASSUME NEW U, NEW s \in Seq(U), s # <<>>
    PROVE  /\ Len(s) \in Nat /\ Len(Tail(s)) = Len(s) - 1 /\ s[1] = Head(s) /\ 1 \in 1 .. Len(s)
           /\ \A k \in 1 .. Len(s) - 1 : k + 1 \in 1 .. Len(s) /\ Tail(s)[k] = s[k + 1]
<1> QED OBVIOUS

(* ... and by taking the head.                                             *)
LEMMA NoneAfterTail ==
    ASSUME NEW U, NEW s \in Seq(U), s # <<>>, NEW A, NEW B, NoneAfter(s, A, B)
    PROVE  NoneAfter(Tail(s), A, B) /\ (Head(s) \in A => ~Some(Tail(s), B))
<1> DEFINE t == Tail(s)
           n == Len(s)
<1>1. /\ n \in Nat /\ Len(t) = n - 1 /\ s[1] = Head(s) /\ 1 \in 1 .. n
      /\ \A k \in 1 .. n - 1 : k + 1 \in 1 .. n /\ t[k] = s[k + 1]
  BY TailAt
<1> HIDE DEF t
<1>2. ASSUME NEW k \in 1 .. n - 1, t[k] \in B, NEW j \in 1 .. k - 1, t[j] \in A PROVE FALSE
  <2>1. j \in 1 .. n - 1 /\ j + 1 \in 1 .. (k + 1) - 1
    BY <1>1
  <2> QED BY <1>1, <1>2, <2>1 DEF NoneAfter
<1>3. ASSUME Head(s) \in A, NEW k \in 1 .. n - 1, t[k] \in B PROVE FALSE
  <2>1. 1 \in 1 .. (k + 1) - 1
    BY <1>1
  <2> QED BY <1>1, <1>3, <2>1 DEF NoneAfter
<1> QED BY <1>1, <1>2, <1>3 DEF NoneAfter, Some, t

(* The same for what must come first.                                      *)
LEMMA PrecededConcat ==
    ASSUME NEW U, NEW s \in Seq(U), NEW t \in Seq(U), NEW A, NEW B,
           Preceded(s, A, B), Some(t, B) => Some(s, A)
    PROVE  Preceded(s \o t, A, B)
<1> DEFINE r == s \o t
           m == Len(s)
           n == Len(t)
<1>1. /\ m \in Nat /\ n \in Nat /\ Len(r) = m + n
      /\ \A k \in 1 .. m : r[k] = s[k]
      /\ \A k \in 1 .. m + n : (k \in 1 .. m /\ r[k] = s[k]) \/ (k - m \in 1 .. n /\ r[k] = t[k - m])
  BY ConcatAt
<1> HIDE DEF r
<1>2. SUFFICES ASSUME NEW k \in 1 .. m + n, r[k] \in B PROVE \E j \in 1 .. k - 1 : r[j] \in A
  BY <1>1 DEF Preceded, r
<1>3. CASE k \in 1 .. m /\ r[k] = s[k]
  <2>1. PICK j \in 1 .. k - 1 : s[j] \in A
    BY <1>2, <1>3 DEF Preceded
  <2>2. j \in 1 .. m
    BY <1>1, <1>3
  <2> QED BY <1>1, <2>1, <2>2
<1>4. CASE k - m \in 1 .. n /\ r[k] = t[k - m]
  <2>1. Some(s, A)
    BY <1>2, <1>4 DEF Some
  <2>2. PICK j \in 1 .. m : s[j] \in A
    BY <2>1 DEF Some
  <2>3. j \in 1 .. k - 1
    BY <1>1, <1>4
  <2> QED BY <1>1, <2>2, <2>3
<1> QED BY <1>1, <1>3, <1>4

(* Taking the head of another kind.                                        *)
LEMMA PrecededTail ==
    ASSUME NEW U, NEW s \in Seq(U), s # <<>>, NEW A, NEW B, Preceded(s, A, B), Head(s) \notin A
    PROVE  Preceded(Tail(s), A, B)
<1> DEFINE t == Tail(s)
           n == Len(s)
<1>1. /\ n \in Nat /\ Len(t) = n - 1 /\ s[1] = Head(s) /\ 1 \in 1 .. n
      /\ \A k \in 1 .. n - 1 : k + 1 \in 1 .. n /\ t[k] = s[k + 1]
  BY TailAt
<1> HIDE DEF t
<1>2. SUFFICES ASSUME NEW k \in 1 .. n - 1, t[k] \in B PROVE \E j \in 1 .. k - 1 : t[j] \in A
  BY <1>1 DEF Preceded, t
<1>3. PICK j \in 1 .. (k + 1) - 1 : s[j] \in A
  BY <1>1, <1>2 DEF Preceded
<1>4. j # 1
  BY <1>1, <1>3
<1>5. j - 1 \in 1 .. k - 1 /\ j - 1 \in 1 .. n - 1 /\ (j - 1) + 1 = j
  BY <1>1, <1>4
<1>6. t[j - 1] = s[j]
  BY <1>1, <1>5
<1> QED BY <1>3, <1>5, <1>6

-----------------------------------------------------------------------------
(* The players of one descriptor.                                          *)
Plays(ps, f) == \E i \in 1 .. Len(ps) : ps[i].id = f
Once(ps, f)  == \A i, j \in 1 .. Len(ps) : ps[i].id = f /\ ps[j].id = f => i = j

SameIds(ps, qs) == Len(qs) = Len(ps) /\ \A i \in 1 .. Len(ps) : qs[i].id = ps[i].id

(* Pausing and resuming, which keep the ids, change none of this.          *)
LEMMA PlaysSame ==
    ASSUME NEW ps, NEW qs, SameIds(ps, qs), NEW f
    PROVE  (Plays(qs, f) <=> Plays(ps, f)) /\ (Once(ps, f) => Once(qs, f))
<1> QED BY DEF SameIds, Plays, Once

(* A player that joins is the only one with its id if there was none.      *)
LEMMA PlaysAdd ==
    ASSUME NEW ps \in Seq(Player), NEW id \in Fd, NEW c \in Conn, NEW f
    PROVE  /\ Plays(AddPlayer(ps, id, c), f) <=> Plays(ps, f) \/ f = id
           /\ Once(ps, f) /\ (f = id => ~Plays(ps, f)) => Once(AddPlayer(ps, id, c), f)
<1> DEFINE p == NewPlayer(id, c)
           r == Append(ps, p)
           n == Len(ps)
<1>1. p \in Player /\ p.id = id
  BY DEF NewPlayer, Player, Records
<1> HIDE DEF p
<1>2. n \in Nat /\ Len(r) = n + 1 /\ r[n + 1] = p /\ \A k \in 1 .. n : r[k] = ps[k]
  BY <1>1
<1>3. AddPlayer(ps, id, c) = r
  BY DEF AddPlayer, p
<1> HIDE DEF r
<1>4. \A k \in 1 .. n + 1 : k \in 1 .. n \/ k = n + 1
  BY <1>2
<1>5. n + 1 \in 1 .. n + 1 /\ \A k \in 1 .. n : k \in 1 .. n + 1
  BY <1>2
<1>6. Plays(r, f) <=> Plays(ps, f) \/ f = id
  BY <1>1, <1>2, <1>4, <1>5 DEF Plays
<1>7. ASSUME Once(ps, f), f = id => ~Plays(ps, f) PROVE Once(r, f)
  <2> SUFFICES ASSUME NEW i \in 1 .. n + 1, NEW j \in 1 .. n + 1, r[i].id = f, r[j].id = f PROVE i = j
    BY <1>2 DEF Once
  <2>1. CASE i \in 1 .. n /\ j \in 1 .. n
    BY <1>2, <1>7, <2>1 DEF Once
  <2>2. CASE i = n + 1 \/ j = n + 1
    <3>1. f = id
      BY <1>1, <1>2, <2>2
    <3>2. \A k \in 1 .. n : r[k].id # f
      BY <1>2, <1>7, <3>1 DEF Plays
    <3> QED BY <1>4, <3>2
  <2> QED BY <1>4, <2>1, <2>2
<1> QED BY <1>3, <1>6, <1>7

(* The removal of a player leaves none with its id if there was one only.  *)
LEMMA PlaysRemove ==
    ASSUME NEW ps \in Seq(Player), NEW id, NEW f, Once(ps, f)
    PROVE  /\ Plays(RemovePlayer(ps, id), f) => Plays(ps, f) /\ f # id
           /\ Once(RemovePlayer(ps, id), f)
<1> DEFINE m == PlayerIndex(ps, id)
           r == RemovePlayer(ps, id)
           n == Len(ps)
<1>1. /\ n \in Nat /\ m \in 0 .. n /\ (m # 0 => m \in 1 .. n /\ ps[m].id = id)
      /\ m = 0 => \A k \in 1 .. n : ps[k].id # id
  BY PlayerIndexValue
<1>2. /\ m = 0 => r = ps
      /\ m # 0 => /\ Len(r) = n - 1
                  /\ \A k \in 1 .. n - 1 : r[k] = IF k < m THEN ps[k] ELSE ps[k + 1]
  BY RemovePlayerValue
<1> HIDE DEF m, r
<1>3. CASE m = 0
  <2>1. r = ps
    BY <1>2, <1>3
  <2>2. Plays(ps, f) => f # id
    BY <1>1, <1>3 DEF Plays
  <2> QED BY <2>1, <2>2 DEF r
<1>4. CASE m # 0
  <2> DEFINE at(k) == IF k < m THEN k ELSE k + 1
  <2>1. \A k \in 1 .. n - 1 : at(k) \in 1 .. n /\ at(k) # m /\ r[k] = ps[at(k)]
    BY <1>1, <1>2, <1>4
  <2>2. \A i, j \in 1 .. n - 1 : at(i) = at(j) => i = j
    BY <1>1, <1>4
  <2> HIDE DEF at
  <2>3. Len(r) = n - 1 /\ m \in 1 .. n /\ ps[m].id = id
    BY <1>1, <1>2, <1>4
  <2>4. ASSUME NEW k \in 1 .. n - 1, r[k].id = f PROVE Plays(ps, f) /\ f # id
    <3>1. at(k) \in 1 .. n /\ at(k) # m /\ ps[at(k)].id = f
      BY <2>1, <2>4
    <3>2. f = id => at(k) = m
      BY <2>3, <3>1 DEF Once
    <3> QED BY <3>1, <3>2 DEF Plays
  <2>5. ASSUME NEW i \in 1 .. n - 1, NEW j \in 1 .. n - 1, r[i].id = f, r[j].id = f PROVE i = j
    <3>1. at(i) \in 1 .. n /\ at(j) \in 1 .. n /\ ps[at(i)].id = f /\ ps[at(j)].id = f
      BY <2>1, <2>5
    <3>2. at(i) = at(j)
      BY <3>1 DEF Once
    <3> QED BY <2>2, <3>2
  <2>6. Plays(r, f) => Plays(ps, f) /\ f # id
    BY <2>3, <2>4 DEF Plays
  <2>7. Once(r, f)
    BY <2>3, <2>5 DEF Once
  <2> QED BY <2>6, <2>7 DEF r
<1> QED BY <1>3, <1>4

(* However many had the id, a removal brings nobody in.                    *)
LEMMA PlaysLess ==
    ASSUME NEW ps \in Seq(Player), NEW id, NEW f, Plays(RemovePlayer(ps, id), f)
    PROVE  Plays(ps, f)
<1> DEFINE m == PlayerIndex(ps, id)
           r == RemovePlayer(ps, id)
           n == Len(ps)
<1>1. n \in Nat /\ m \in 0 .. n
  BY PlayerIndexValue
<1>2. /\ m = 0 => r = ps
      /\ m # 0 => /\ Len(r) = n - 1
                  /\ \A k \in 1 .. n - 1 : r[k] = IF k < m THEN ps[k] ELSE ps[k + 1]
  BY RemovePlayerValue
<1>3. PICK k \in 1 .. Len(r) : r[k].id = f
  BY DEF Plays
<1> HIDE DEF m, r
<1>4. CASE m # 0
  <2>1. k \in 1 .. n - 1 /\ k \in 1 .. n /\ k + 1 \in 1 .. n
    BY <1>1, <1>2, <1>3, <1>4
  <2> QED BY <1>2, <1>3, <1>4, <2>1 DEF Plays
<1> QED BY <1>2, <1>3, <1>4 DEF Plays

(* Nor do several.                                                         *)
LEMMA PlaysLessAll ==
    ASSUME NEW ps \in Seq(Player), NEW ids \in Seq(Fd), NEW f, Plays(RemovePlayers(ps, ids), f)
    PROVE  Plays(ps, f)
<1> DEFINE P == {q \in Seq(Player) : Plays(q, f) => Plays(ps, f)}
<1>1. ClosedUnderRemoval(P, Fd)
  <2> SUFFICES ASSUME NEW q \in P, NEW id \in Fd PROVE RemovePlayer(q, id) \in P
    BY DEF ClosedUnderRemoval
  <2>1. q \in Seq(Player) /\ RemovePlayer(q, id) \in Seq(Player)
    BY RemovePlayerValue
  <2> QED BY <2>1, PlaysLess
<1>2. ps \in P
  OBVIOUS
<1> HIDE DEF P
<1>3. RemovePlayers(ps, ids) \in P
  BY <1>1, <1>2, RemovePlayersKeeps
<1> QED BY <1>3 DEF P

(* And so does the removal of several, for each of them.                   *)
LEMMA PlaysRemoveAll ==
    ASSUME NEW ps \in Seq(Player), NEW ids \in Seq(Fd), NEW f, Once(ps, f)
    PROVE  /\ Plays(RemovePlayers(ps, ids), f) => Plays(ps, f) /\ ~\E k \in 1 .. Len(ids) : ids[k] = f
           /\ Once(RemovePlayers(ps, ids), f)
<1> DEFINE n == Len(ids)
<1>1. n \in Nat /\ \A k \in 1 .. n : ids[k] \in Fd
  OBVIOUS
<1>2. PICK g : RemovesUpTo(g, n, ps, ids) /\ RemovePlayers(ps, ids) = g[n]
  BY <1>1, RemovePlayersValue
<1> HIDE DEF n
<1>3. \A k \in 0 .. n : g[k] = IF k = 0 THEN ps ELSE RemovePlayer(g[k - 1], ids[k])
  BY <1>2 DEF RemovesUpTo
<1> DEFINE Fine(q, k) == /\ q \in Seq(Player) /\ Once(q, f)
                         /\ Plays(q, f) => Plays(ps, f) /\ \A m \in 1 .. k : ids[m] # f
           Q == {k \in Nat : k <= n => Fine(g[k], k)}
<1>4. 0 \in Q
  <2>1. g[0] = ps /\ \A m \in 1 .. 0 : FALSE
    BY <1>1, <1>3
  <2> QED BY <2>1
<1>5. ASSUME NEW k \in Nat, k \in Q PROVE k + 1 \in Q
  <2> SUFFICES ASSUME k + 1 <= n PROVE Fine(g[k + 1], k + 1)
    OBVIOUS
  <2>1. k + 1 \in 0 .. n /\ k + 1 # 0 /\ (k + 1) - 1 = k /\ k <= n /\ k + 1 \in 1 .. n
    BY <1>1
  <2>2. g[k + 1] = RemovePlayer(g[k], ids[k + 1])
    BY <1>3, <2>1
  <2>3. Fine(g[k], k)
    BY <1>5, <2>1
  <2>4. RemovePlayer(g[k], ids[k + 1]) \in Seq(Player)
    BY <2>3, RemovePlayerValue
  <2>5. /\ Plays(RemovePlayer(g[k], ids[k + 1]), f) => Plays(g[k], f) /\ f # ids[k + 1]
        /\ Once(RemovePlayer(g[k], ids[k + 1]), f)
    BY <2>3, PlaysRemove
  <2>6. \A m \in 1 .. k + 1 : m \in 1 .. k \/ m = k + 1
    OBVIOUS
  <2> QED BY <2>2, <2>3, <2>4, <2>5, <2>6
<1> HIDE DEF Q
<1>6. n \in Q
  BY <1>1, <1>4, <1>5, Induct
<1>7. Fine(g[n], n)
  BY <1>1, <1>6 DEF Q
<1> QED BY <1>2, <1>7 DEF n

-----------------------------------------------------------------------------
(* One descriptor f, as long as only one thread has served it.             *)
Served(f) == \E t \in Conn : recv[t].fd = f

Announcing(f) ==
    \E t \in Conn : recv[t].pc = "post" /\ recv[t].ev.type = "connected" /\ recv[t].fd = f

MineOf(f)  == {e \in Events : e.type \in FromClients /\ e.id = f}
JoinsOf(f) == {e \in Events : e.type = "connected" /\ e.id = f}
EndOf(f)   == {Act("send_over", f), Act("unregister", f)}
StateOf(f) == {Act("send_state", f)}
ReadyOf(f) == {Act("send_ready", f)}

(* The client behind f has been told READY, or has been so and has gone on. *)
Knows(f) ==
    fdTable[f] # NoConn => \/ client[fdTable[f]] # "awaiting"
                           \/ Some(mail[fdTable[f]], {"ready"})

NotYet(f) == ~Plays(players, f) /\ ~Some(Requests, EndOf(f))

(* A connection is announced once, before anything else is told of it, and *)
(* while it is not there is no player; there is one at most, and none once *)
(* its end is asked for; nothing is asked for it before READY nor after    *)
(* its end; and its descriptor is open for as long.                        *)
FdOk(f) ==
    /\ Announcing(f) => NotYet(f) /\ ~Some(eq, MineOf(f))
    /\ Some(eq, JoinsOf(f)) => NotYet(f)
    /\ NoneAfter(eq, MineOf(f), JoinsOf(f))
    /\ Once(players, f)
    /\ Some(Requests, EndOf(f)) => ~Plays(players, f)
    /\ NoneAfter(Requests, EndOf(f), StateOf(f))
    /\ Knows(f) \/ Preceded(Requests, ReadyOf(f), StateOf(f))
    /\ Plays(players, f) => Knows(f) \/ Some(Requests, ReadyOf(f))
    /\ Announcing(f) \/ Some(eq, JoinsOf(f)) \/ Plays(players, f) \/ Some(Requests, StateOf(f))
       => fdTable[f] # NoConn

FdInv(f) == OneThreadOn(f) => FdOk(f)

(* A thread that has not begun has no descriptor yet.                      *)
Starting == \A t \in Conn : recv[t].pc \in {"none", "start"} => recv[t].fd = NoFd

(* Whoever has a player, an event or an end asked for has had a thread; a  *)
(* thread that has not begun finds its descriptor open.                    *)
ServeInv ==
    /\ Starting
    /\ \A f \in Fd : Plays(players, f) \/ Some(Requests, EndOf(f)) \/ Some(eq, MineOf(f)) => Served(f)
    /\ argFd \in Fd /\ ~Served(argFd) => fdTable[argFd] # NoConn

FdsInv == mainPc \notin Destroying => ServeInv /\ \A f \in Fd : FdInv(f)

-----------------------------------------------------------------------------
(* A thread takes its descriptor once.                                     *)
LEMMA FdTaken ==
    ASSUME TypeInv, [Next]_vars, NEW t \in Conn
    PROVE  recv'[t].fd = recv[t].fd \/ RecvStart(t)
<1>0. Changes /\ recv \in [Conn -> [pc : {"none", "start", "post", "poll", "done"},
                          fd : Fd \cup {NoFd}, ev : Events, last : BOOLEAN]]
  BY WhoChanges DEF TypeInv, RecvTypes
<1>1. CASE AcceptConnection
  <2>1. PICK c : recv' = [recv EXCEPT ![c].pc = "start"]
    BY <1>1 DEF AcceptConnection
  <2> QED BY <1>0, <2>1
<1>2. ASSUME NEW u \in Conn, RecvStep(u) PROVE recv'[t].fd = recv[t].fd \/ RecvStart(t)
  <2>1. CASE RecvStart(u)
    BY <1>0, <2>1 DEF RecvStart, Post
  <2>2. CASE RecvPost(u)
    <3> DEFINE q == [Idle EXCEPT !.pc = IF running /\ ~recv[u].last THEN "poll" ELSE "done",
                                 !.fd = recv[u].fd]
    <3>1. recv' = [recv EXCEPT ![u] = q]
      BY <2>2 DEF RecvPost
    <3>2. q.fd = recv[u].fd
      BY DEF Idle
    <3> HIDE DEF q
    <3> QED BY <1>0, <3>1, <3>2
  <2>3. CASE RecvHangup(u) \/ RecvMessage(u)
    BY <1>0, <2>3 DEF RecvHangup, RecvMessage, Post
  <2>4. CASE RecvStop(u)
    BY <1>0, <2>4 DEF RecvStop
  <2> QED BY <1>2, <2>1, <2>2, <2>3, <2>4 DEF RecvStep
<1> QED BY <1>0, <1>1, <1>2 DEF Changes

(* So a descriptor that has been served stays so, and once two threads     *)
(* have served one, they always have.                                      *)
LEMMA ServedStays ==
    ASSUME TypeInv, Starting, [Next]_vars, NEW f \in Fd
    PROVE  /\ Served(f) => Served(f)'
           /\ OneThreadOn(f)' => OneThreadOn(f)
<1>1. \A t \in Conn : RecvStart(t) => recv[t].fd = NoFd
  BY DEF RecvStart, Starting
<1>2. NoFd \notin Fd
  BY DEF Fd, NoFd
<1>3. \A t \in Conn : recv[t].fd = f => recv'[t].fd = f
  BY <1>1, <1>2, FdTaken
<1> QED BY <1>3 DEF Served, OneThreadOn

(* What main has asked of the worker grows at its end when main had        *)
(* nothing left to ask, and the worker takes from its head.                *)
LEMMA RequestsStep ==
    ASSUME TypeInv, [Next]_vars
    PROVE  \/ Requests' = Requests /\ ~WorkerExec
           \/ aq # <<>> /\ Requests # <<>> /\ Requests' = Tail(Requests)
              /\ Head(Requests) = Head(aq) /\ Head(aq) \in GoodActions /\ WorkerExec
           \/ todo = <<>> /\ Requests' = Requests \o todo' /\ todo' \in Seq(GoodActions)
              /\ (HandleEvent \/ BroadcastSnapshot \/ Update \/ EndDrain)
<1>0. Changes /\ QueueTypes /\ QueueTypes'
  BY WhoChanges, QueueTypesStep DEF TypeInv
<1>1. aq \in Seq(GoodActions) /\ todo \in Seq(GoodActions) /\ todo' \in Seq(GoodActions)
  BY <1>0 DEF QueueTypes
<1>2. CASE Submit
  <2>1. todo # <<>> /\ aq' = Append(aq, Head(todo)) /\ todo' = Tail(todo)
    BY <1>2 DEF Submit
  <2>2. Append(aq, Head(todo)) \o Tail(todo) = aq \o todo
    BY <1>1, <2>1
  <2>3. ~WorkerExec
    <3>1. WorkerExec => UNCHANGED todo
      BY DEF WorkerExec, WorkerOnly, mainVars
    <3>2. Tail(todo) # todo
      BY <1>1, <2>1
    <3> QED BY <2>1, <3>1, <3>2
  <2> QED BY <2>1, <2>2, <2>3 DEF Requests
<1>3. CASE WorkerExec
  <2>1. aq # <<>> /\ aq' = Tail(aq) /\ todo' = todo
    BY <1>3 DEF WorkerExec, WorkerOnly, mainVars
  <2>2. Tail(aq) \o todo = Tail(aq \o todo) /\ aq \o todo # <<>> /\ Head(aq \o todo) = Head(aq)
    BY <1>1, <2>1
  <2>3. Head(aq) \in GoodActions
    BY <1>1, <2>1
  <2> QED BY <1>3, <2>1, <2>2, <2>3 DEF Requests
<1>4. CASE HandleEvent \/ BroadcastSnapshot \/ Update \/ EndDrain
  <2>1. todo = <<>> /\ aq' = aq
    BY <1>4 DEF HandleEvent, BroadcastSnapshot, Update, EndDrain, At, MainLocal, MainOnly
  <2>2. aq \o <<>> = aq
    BY <1>1
  <2> QED BY <1>1, <1>4, <2>1, <2>2 DEF Requests
<1>5. CASE UNCHANGED <<aq, todo>> /\ ~WorkerExec
  BY <1>5 DEF Requests
<1>6. MainStep => \/ UNCHANGED todo \/ Submit \/ HandleEvent \/ BroadcastSnapshot \/ Update \/ EndDrain
  BY DEF MainStep, StartGame, AwaitTimeout, BroadcastError, BroadcastGameOver, Stop, JoinWorker,
         DestroyClose, DestroyJoin, DestroyDone, Exit
<1> QED BY <1>0, <1>2, <1>3, <1>4, <1>5, <1>6 DEF Changes

(* The client behind f does not forget that it has been told READY as long *)
(* as f is its descriptor.                                                 *)
LEMMA KnowsStays ==
    ASSUME TypeInv, [Next]_vars, mainPc' \notin Destroying, NEW f \in Fd, Knows(f),
           fdTable'[f] \in {fdTable[f], NoConn}
    PROVE  Knows(f)'
<1> SUFFICES ASSUME fdTable[f] # NoConn, fdTable'[f] = fdTable[f] PROVE Knows(f)'
  BY DEF Knows
<1> DEFINE c == fdTable[f]
<1>0. /\ Changes /\ c \in Conn /\ client \in [Conn -> Modes] /\ client[c] # "none"
      /\ mail \in [Conn -> Seq(MailTypes)]
      /\ client[c] # "awaiting" \/ Some(mail[c], {"ready"})
  BY WhoChanges DEF TypeInv, KernelTypes, ClientTypes, ConnInv, Knows
<1>1. PICK d \in Conn : d = c
  BY <1>0
<1> SUFFICES client'[d] # "awaiting" \/ Some(mail'[d], {"ready"})
  BY <1>1 DEF Knows
<1>2. mail[d] \in Seq(MailTypes) /\ Open(d) /\ client[d] # "none"
      /\ (client[d] # "awaiting" \/ Some(mail[d], {"ready"}))
  BY <1>0, <1>1 DEF Open
<1> HIDE DEF c
<1>3. ASSUME NEW e \in Conn, ClientStep(e) PROVE client'[d] # "awaiting" \/ Some(mail'[d], {"ready"})
  <2>1. CASE Connect(e)
    BY <1>0, <1>2, <2>1 DEF Connect
  <2>2. CASE Hear(e)
    <3>1. CASE e = d
      <4>1. client'[d] = IF Head(mail[d]) = "ready" THEN "playing" ELSE "over"
        BY <1>0, <2>2, <3>1 DEF Hear
      <4> QED BY <4>1
    <3>2. CASE e # d
      <4>1. client'[d] = client[d] /\ mail'[d] = mail[d]
        BY <1>0, <2>2, <3>2 DEF Hear
      <4> QED BY <1>2, <4>1
    <3> QED BY <3>1, <3>2
  <2>3. CASE MissRest(e)
    <3>1. e # d
      BY <1>2, <2>3 DEF MissRest
    <3>2. client'[d] = client[d] /\ mail'[d] = mail[d]
      BY <1>0, <2>3, <3>1 DEF MissRest
    <3> QED BY <1>2, <3>2
  <2>4. CASE Play(e) \/ Leave(e) \/ Stall(e)
    <3>1. mail' = mail
      BY <2>4 DEF Play, Leave, Stall, ClientSends
    <3>2. client'[d] = client[d] \/ client'[d] # "awaiting"
      BY <1>0, <2>4 DEF Play, Leave, Stall, ClientSends
    <3> QED BY <1>2, <3>1, <3>2
  <2>5. CASE Quit(e)
    <3>1. CASE e = d
      BY <1>0, <2>5, <3>1 DEF Quit
    <3>2. CASE e # d
      <4>1. client'[d] = client[d] /\ mail'[d] = mail[d]
        BY <1>0, <2>5, <3>2 DEF Quit
      <4> QED BY <1>2, <4>1
    <3> QED BY <3>1, <3>2
  <2> QED BY <1>3, <2>1, <2>2, <2>3, <2>4, <2>5 DEF ClientStep
<1>4. ASSUME NEW m \in MailTypes, client' = client, mail'[d] = Append(mail[d], m) \/ mail'[d] = mail[d]
      PROVE  client'[d] # "awaiting" \/ Some(mail'[d], {"ready"})
  <2>1. Some(mail[d], {"ready"}) => Some(Append(mail[d], m), {"ready"})
    BY <1>2, SomeAppend
  <2> QED BY <1>2, <1>4, <2>1
<1>5. ASSUME UNCHANGED client, WorkerExec \/ BroadcastError \/ BroadcastGameOver
      PROVE  client'[d] # "awaiting" \/ Some(mail'[d], {"ready"})
  <2>1. CASE WorkerExec
    <3>0. \E m \in {"ready", "over"} : \E g : mail' = Delivered(mail, g, m) \/ mail' = mail
      BY <2>1 DEF WorkerExec
    <3>1. PICK m \in {"ready", "over"} : \E g : mail' = Delivered(mail, g, m) \/ mail' = mail
      BY <3>0
    <3>2. mail'[d] = Append(mail[d], m) \/ mail'[d] = mail[d]
      BY <1>0, <3>1 DEF Delivered
    <3> QED BY <1>4, <1>5, <3>2 DEF MailTypes
  <2>2. CASE BroadcastError \/ BroadcastGameOver
    <3>1. PICK m \in {"error", "over"} : mail' = SentToFirst(Reached, m)
      BY <2>2 DEF BroadcastError, BroadcastGameOver, Broadcast
    <3>2. mail'[d] = Append(mail[d], m) \/ mail'[d] = mail[d]
      BY <1>0, <3>1 DEF SentToFirst
    <3> QED BY <1>4, <1>5, <3>2 DEF MailTypes
  <2> QED BY <1>5, <2>1, <2>2
<1>6. CASE UNCHANGED <<client, mail>>
  BY <1>2, <1>6
<1> QED BY <1>0, <1>3, <1>5, <1>6 DEF Changes

-----------------------------------------------------------------------------
(* Nobody plays on a descriptor who did not before, unless its connection  *)
(* is announced.                                                           *)
LEMMA PlaysStep ==
    ASSUME TypeInv, [Next]_vars, NEW f \in Fd, Plays(players', f)
    PROVE  Plays(players, f) \/ (HandleEvent /\ Head(eq).type = "connected" /\ Head(eq).id = f)
<1>0. Changes /\ players \in Seq(Player) /\ QueueTypes
  BY WhoChanges DEF TypeInv, MainTypes
<1>1. CASE HandleEvent
  <2> DEFINE ev == Head(eq)
  <2>1. ev \in GoodEvents
    BY <1>0, <1>1, EqHead DEF HandleEvent
  <2>2. \/ OnConnected(ev) \/ OnInput(ev) \/ OnPaused(ev) \/ OnResumed(ev)
        \/ OnWaitedResume(ev) \/ OnDisconnected(ev) \/ OnWaitedEnd(ev)
    BY <1>1 DEF HandleEvent
  <2> HIDE DEF ev
  <2>3. CASE OnConnected(ev)
    <3>1. ev.id \in Fd /\ ev.src \in Conn /\ ev.type = "connected"
      BY <2>1, <2>3 DEF OnConnected, GoodEvents
    <3> QED BY <1>0, <1>1, <2>3, <3>1, PlaysAdd DEF OnConnected, ev
  <2>4. CASE OnDisconnected(ev)
    BY <1>0, <2>4, PlaysLess DEF OnDisconnected
  <2>5. CASE OnInput(ev) \/ OnWaitedEnd(ev)
    BY <2>5 DEF OnInput, OnWaitedEnd
  <2>6. CASE OnPaused(ev) \/ OnResumed(ev) \/ OnWaitedResume(ev)
    <3>1. SameIds(players, players')
      BY <1>0, <2>6, PauseValue, ScheduleValue, ResumeValue
      DEF OnPaused, OnResumed, OnWaitedResume, Others, SameIds, Player
    <3> QED BY <3>1, PlaysSame
  <2> QED BY <2>2, <2>3, <2>4, <2>5, <2>6
<1>2. CASE Update
  <2>1. PICK dead \in Seq(Fd) : players' = RemovePlayers(players, dead)
    BY <1>0, <1>2, DeadOnes
  <2> QED BY <1>0, <2>1, PlaysLessAll
<1>3. CASE Stop
  <2>1. players' = <<>> /\ Len(<<>>) = 0
    BY <1>3 DEF Stop
  <2> QED BY <2>1 DEF Plays
<1> QED BY <1>0, <1>1, <1>2, <1>3 DEF Changes

(* Where the events come from.                                             *)
LEMMA EqStep ==
    ASSUME TypeInv, [Next]_vars
    PROVE  \/ UNCHANGED eq
           \/ HandleEvent /\ eq # <<>> /\ eq' = Tail(eq) /\ Head(eq) \in GoodEvents
           \/ \E t \in Conn : /\ RecvPost(t) /\ eq' = Append(eq, recv[t].ev)
                              /\ recv[t].ev \in GoodEvents /\ recv[t].ev.type \in FromClients
                              /\ recv[t].ev.id = recv[t].fd
           \/ \E e \in GoodEvents : e.type \notin FromClients /\ eq' = Append(eq, e)
                                    /\ UNCHANGED <<recv, fdTable, players, aq, todo, mail, client, argFd>>
<1>0. Changes /\ QueueTypes
  BY WhoChanges DEF TypeInv
<1>1. CASE HandleEvent
  BY <1>0, <1>1, EqHead DEF HandleEvent
<1>2. ASSUME NEW t \in Conn, RecvPost(t)
      PROVE  /\ eq' = Append(eq, recv[t].ev) /\ recv[t].ev \in GoodEvents
             /\ recv[t].ev.type \in FromClients /\ recv[t].ev.id = recv[t].fd
  <2>1. eq' = Append(eq, recv[t].ev) /\ recv[t].pc = "post"
    BY <1>2 DEF RecvPost
  <2>2. recv[t].ev \in Events /\ recv[t].ev.id \in Fd /\ recv[t].ev.src \in Conn
        /\ recv[t].ev.type \in FromClients /\ recv[t].ev.id = recv[t].fd
    BY <2>1 DEF TypeInv, RecvTypes
  <2> QED BY <2>1, <2>2 DEF GoodEvents
<1>3. ASSUME EndWaitOver \/ \E f \in Fd : ResumeWaitOver(f)
      PROVE  \E e \in GoodEvents : e.type \notin FromClients /\ eq' = Append(eq, e)
                                    /\ UNCHANGED <<recv, fdTable, players, aq, todo, mail, client, argFd>>
  <2>1. UNCHANGED <<recv, fdTable, players, aq, todo, mail, client, argFd>>
    BY <1>3 DEF EndWaitOver, ResumeWaitOver, clientVars, kernelVars, acceptVars, mainVars, gameVars
  <2>2. CASE EndWaitOver
    <3> DEFINE e == Event("waited_end", NoFd, NoConn)
    <3>1. e \in GoodEvents /\ e.type = "waited_end"
      BY DEF GoodEvents, Events, Event, EventTypes
    <3>2. eq' = Append(eq, e)
      BY <2>2 DEF EndWaitOver
    <3> HIDE DEF e
    <3> QED BY <2>1, <3>1, <3>2 DEF FromClients
  <2>3. ASSUME NEW f \in Fd, ResumeWaitOver(f)
        PROVE  \E e \in GoodEvents : e.type \notin FromClients /\ eq' = Append(eq, e)
    <3> DEFINE e == Event("waited_resume", f, NoConn)
    <3>1. e \in GoodEvents /\ e.type = "waited_resume"
      BY DEF GoodEvents, Events, Event, EventTypes
    <3>2. eq' = Append(eq, e)
      BY <2>3 DEF ResumeWaitOver
    <3> HIDE DEF e
    <3> QED BY <3>1, <3>2 DEF FromClients
  <2> QED BY <1>3, <2>1, <2>2, <2>3
<1> QED BY <1>0, <1>1, <1>2, <1>3 DEF Changes

(* Until registry_destroy a descriptor is opened by accept_connection and  *)
(* closed by remove_client only.                                           *)
LEMMA FdTableStep ==
    ASSUME TypeInv, [Next]_vars, mainPc' \notin Destroying, NEW f \in Fd
    PROVE  \/ fdTable'[f] = fdTable[f]
           \/ AcceptConnection /\ fdTable[f] = NoConn /\ fdTable'[f] # NoConn
           \/ WorkerExec /\ Head(aq) = Act("unregister", f) /\ fdTable'[f] = NoConn
<1>0. Changes /\ KernelTypes /\ ConnInv /\ QueueTypes /\ fdTable \in [Fd -> Conn \cup {NoConn}]
  BY WhoChanges DEF TypeInv, KernelTypes
<1>1. CASE AcceptConnection
  <2> DEFINE g == Min({h \in Fd : fdTable[h] = NoConn})
             c == Head(backlog)
  <2>1. backlog # <<>> /\ fdTable' = [fdTable EXCEPT ![g] = c]
    BY <1>1 DEF AcceptConnection
  <2>2. g \in Fd /\ fdTable[g] = NoConn
    BY <1>0, <2>1, FreeDescriptor
  <2>3. c \in Conn /\ NoConn \notin Conn
    BY <1>0, <2>1, ServerAssumption DEF KernelTypes
  <2> HIDE DEF g, c
  <2> QED BY <1>0, <1>1, <2>1, <2>2, <2>3
<1>2. CASE WorkerExec
  <2>1. Head(aq) \in GoodActions
    BY <1>2, <1>0 DEF WorkerExec, QueueTypes
  <2>2. \/ fdTable' = fdTable
        \/ Head(aq).type = "unregister" /\ fdTable' = [fdTable EXCEPT ![Head(aq).id] = NoConn]
    BY <1>2 DEF WorkerExec, RemoveClient
  <2>3. Head(aq).type = "unregister" => Head(aq) = Act("unregister", Head(aq).id)
    BY <2>1 DEF GoodActions, Actions, Act
  <2> QED BY <1>0, <1>2, <2>2, <2>3
<1>3. ~DestroyClose /\ ~Exit
  BY DEF DestroyClose, Exit, Destroying
<1> QED BY <1>0, <1>1, <1>2, <1>3 DEF Changes

(* A thread is about to announce its connection once it has read its       *)
(* descriptor, and no more when it has done so.                            *)
LEMMA AnnouncingStep ==
    ASSUME TypeInv, [Next]_vars, NEW f \in Fd, Announcing(f)'
    PROVE  /\ Announcing(f) \/ (argFd = f /\ \E t \in Conn : RecvStart(t))
           /\ \A t \in Conn : RecvPost(t) /\ recv[t].fd = f => ~OneThreadOn(f)
<1>0. Changes /\ recv \in [Conn -> [pc : {"none", "start", "post", "poll", "done"},
                          fd : Fd \cup {NoFd}, ev : Events, last : BOOLEAN]]
  BY WhoChanges DEF TypeInv, RecvTypes
<1>1. PICK u \in Conn : recv'[u].pc = "post" /\ recv'[u].ev.type = "connected" /\ recv'[u].fd = f
  BY DEF Announcing
<1>2. CASE recv'[u] = recv[u]
  <2>1. Announcing(f)
    BY <1>1, <1>2 DEF Announcing
  <2>2. ASSUME NEW t \in Conn, RecvPost(t), recv[t].fd = f, OneThreadOn(f) PROVE FALSE
    <3>1. t = u
      BY <1>1, <1>2, <2>2 DEF OneThreadOn
    <3> DEFINE q == [Idle EXCEPT !.pc = IF running /\ ~recv[t].last THEN "poll" ELSE "done",
                                 !.fd = recv[t].fd]
    <3>2. recv' = [recv EXCEPT ![t] = q]
      BY <2>2 DEF RecvPost
    <3>3. q.pc # "post"
      BY DEF Idle
    <3> HIDE DEF q
    <3> QED BY <1>0, <1>1, <3>1, <3>2, <3>3
  <2> QED BY <2>1, <2>2
<1>3. CASE recv'[u] # recv[u]
  <2>1. ~AcceptConnection
    <3> SUFFICES ASSUME AcceptConnection PROVE FALSE
      OBVIOUS
    <3>1. PICK c : recv' = [recv EXCEPT ![c].pc = "start"]
      BY DEF AcceptConnection
    <3> QED BY <1>0, <1>1, <1>3, <3>1
  <2>2. PICK t \in Conn : RecvStep(t)
    BY <1>0, <1>3, <2>1 DEF Changes
  <2>3. CASE RecvStart(t)
    <3> DEFINE q == [pc |-> "post", fd |-> argFd, ev |-> Event("connected", argFd, t), last |-> FALSE]
    <3>1. recv' = [recv EXCEPT ![t] = q] /\ recv[t].pc = "start"
      BY <2>3 DEF RecvStart, Post
    <3>2. q.fd = argFd
      OBVIOUS
    <3> HIDE DEF q
    <3>3. u = t /\ argFd = f
      BY <1>0, <1>1, <1>3, <3>1, <3>2
    <3>4. \A v \in Conn : RecvPost(v) => v = t
      <4>1. \A v \in Conn : RecvPost(v) => recv'[v] # recv[v]
        <5> SUFFICES ASSUME NEW v \in Conn, RecvPost(v) PROVE recv'[v] # recv[v]
          OBVIOUS
        <5> DEFINE r == [Idle EXCEPT !.pc = IF running /\ ~recv[v].last THEN "poll" ELSE "done",
                                     !.fd = recv[v].fd]
        <5>1. recv' = [recv EXCEPT ![v] = r] /\ recv[v].pc = "post"
          BY DEF RecvPost
        <5>2. r.pc # "post"
          BY DEF Idle
        <5> HIDE DEF r
        <5> QED BY <1>0, <5>1, <5>2
      <4> QED BY <1>0, <3>1, <4>1
    <3>5. \A v \in Conn : ~RecvPost(v)
      BY <3>1, <3>4 DEF RecvPost
    <3> QED BY <2>3, <3>3, <3>5
  <2>4. CASE RecvPost(t)
    <3> DEFINE q == [Idle EXCEPT !.pc = IF running /\ ~recv[t].last THEN "poll" ELSE "done",
                                 !.fd = recv[t].fd]
    <3>1. recv' = [recv EXCEPT ![t] = q]
      BY <2>4 DEF RecvPost
    <3>2. q.pc # "post"
      BY DEF Idle
    <3> HIDE DEF q
    <3> QED BY <1>0, <1>1, <1>3, <3>1, <3>2
  <2>5. ASSUME NEW type, NEW last, type # "connected", Post(t, recv[t].fd, type, last) PROVE FALSE
    <3> DEFINE q == [pc |-> "post", fd |-> recv[t].fd, ev |-> Event(type, recv[t].fd, t), last |-> last]
    <3>1. recv' = [recv EXCEPT ![t] = q]
      BY <2>5 DEF Post
    <3>2. q.ev.type = type
      BY DEF Event
    <3> HIDE DEF q
    <3> QED BY <1>0, <1>1, <1>3, <2>5, <3>1, <3>2
  <2>6. ~RecvHangup(t)
    <3>1. "disconnected" # "connected"
      OBVIOUS
    <3> QED BY <2>5, <3>1 DEF RecvHangup
  <2>7. ~RecvMessage(t)
    <3> SUFFICES ASSUME RecvMessage(t) PROVE FALSE
      OBVIOUS
    <3> DEFINE c == fdTable[recv[t].fd]
    <3>1. Post(t, recv[t].fd, MsgToEvent[Head(inbox[c])], FALSE) /\ c # NoConn /\ inbox[c] # <<>>
          /\ recv[t].pc = "poll"
      BY DEF RecvMessage
    <3>2. recv[t].fd \in Fd
      BY <3>1 DEF TypeInv, RecvTypes
    <3>3. c \in Conn
      BY <3>1, <3>2 DEF TypeInv, KernelTypes
    <3>4. Head(inbox[c]) \in MsgTypes
      <4>1. inbox[c] \in Seq(MsgTypes)
        BY <3>3 DEF TypeInv, ClientTypes
      <4> HIDE DEF c
      <4> QED BY <3>1, <4>1
    <3>5. MsgToEvent[Head(inbox[c])] # "connected"
      <4> HIDE DEF c
      <4> QED BY <3>4 DEF MsgTypes, MsgToEvent
    <3> QED BY <2>5, <3>1, <3>5
  <2>8. ~RecvStop(t)
    BY <1>0, <1>1, <1>3 DEF RecvStop
  <2> QED BY <2>2, <2>3, <2>4, <2>6, <2>7, <2>8 DEF RecvStep
<1> QED BY <1>2, <1>3

-----------------------------------------------------------------------------
(* What main asks for, handler by handler.                                 *)
LEMMA EventAsks ==
    ASSUME TypeInv, HandleEvent, NEW f \in Fd
    PROVE  /\ Some(todo', EndOf(f)) => Head(eq).type = "disconnected" /\ Head(eq).id = f
           /\ ~Some(todo', StateOf(f))
           /\ Head(eq).type = "connected" /\ Head(eq).id = f => Some(todo', ReadyOf(f))
<1> DEFINE ev == Head(eq)
<1>1. \/ OnConnected(ev) \/ OnInput(ev) \/ OnPaused(ev) \/ OnResumed(ev)
      \/ OnWaitedResume(ev) \/ OnDisconnected(ev) \/ OnWaitedEnd(ev)
  BY DEF HandleEvent
<1>2. todo = <<>>
  BY DEF HandleEvent, At
<1> HIDE DEF ev
<1>3. CASE UNCHANGED todo /\ ev.type # "connected"
  <2>1. todo' = <<>>
    BY <1>2, <1>3
  <2>2. ~Some(todo', EndOf(f)) /\ ~Some(todo', StateOf(f))
    BY <2>1, SomeEmpty
  <2> QED BY <1>3, <2>2 DEF ev
<1>4. ASSUME NEW type, type \notin {"send_over", "send_state"}, todo' = <<Act(type, ev.id)>>
      PROVE  /\ Some(todo', EndOf(f)) => type = "unregister" /\ ev.id = f
             /\ ~Some(todo', StateOf(f))
             /\ type = "send_ready" /\ ev.id = f => Some(todo', ReadyOf(f))
  <2> DEFINE a == Act(type, ev.id)
  <2>1. /\ a \in EndOf(f) => type = "unregister" /\ ev.id = f
        /\ a \notin StateOf(f)
        /\ type = "send_ready" /\ ev.id = f => a \in ReadyOf(f)
    BY <1>4 DEF EndOf, StateOf, ReadyOf, Act
  <2>2. todo' = <<a>>
    BY <1>4
  <2> HIDE DEF a
  <2>3. /\ Some(todo', EndOf(f)) <=> a \in EndOf(f)
        /\ Some(todo', StateOf(f)) <=> a \in StateOf(f)
        /\ Some(todo', ReadyOf(f)) <=> a \in ReadyOf(f)
    BY <2>2, SomeOne
  <2> QED BY <2>1, <2>3
<1>5. CASE OnConnected(ev)
  <2>1. todo' = <<Act("send_ready", ev.id)>> /\ ev.type = "connected"
    BY <1>5 DEF OnConnected
  <2> QED BY <1>4, <2>1 DEF ev
<1>6. CASE OnResumed(ev)
  <2>1. todo' = <<Act("wait_paused", ev.id)>> /\ ev.type = "resumed"
    BY <1>6 DEF OnResumed
  <2> QED BY <1>4, <2>1 DEF ev
<1>7. CASE OnDisconnected(ev)
  <2>1. todo' = <<Act("unregister", ev.id)>> /\ ev.type = "disconnected"
    BY <1>7 DEF OnDisconnected
  <2> QED BY <1>4, <2>1 DEF ev
<1>8. CASE OnInput(ev) \/ OnPaused(ev) \/ OnWaitedResume(ev) \/ OnWaitedEnd(ev)
  BY <1>3, <1>8 DEF OnInput, OnPaused, OnWaitedResume, OnWaitedEnd
<1> QED BY <1>1, <1>5, <1>6, <1>7, <1>8

(* A state is asked for for each player and for nobody else.               *)
LEMMA SnapshotAsks ==
    ASSUME TypeInv, BroadcastSnapshot, NEW f \in Fd
    PROVE  /\ ~Some(todo', EndOf(f))
           /\ Some(todo', StateOf(f)) => Plays(players, f)
<1>1. todo' = [i \in DOMAIN players |-> Act("send_state", players[i].id)]
  BY DEF BroadcastSnapshot
<1>2. DOMAIN players = 1 .. Len(players) /\ Len(players) \in Nat
  BY PlayerAt DEF TypeInv, MainTypes
<1>3. Len(todo') = Len(players)
      /\ \A i \in 1 .. Len(players) : todo'[i] = Act("send_state", players[i].id)
  BY <1>1, <1>2
<1>5. \A g : Act("send_state", g) \notin EndOf(f) /\ (Act("send_state", g) \in StateOf(f) => g = f)
  BY DEF StateOf, EndOf, Act
<1>4. ~Some(todo', EndOf(f))
  BY <1>3, <1>5 DEF Some
<1>6. Some(todo', StateOf(f)) => Plays(players, f)
  BY <1>3, <1>5 DEF Some, Plays
<1> QED BY <1>4, <1>6

(* MSG_GAME_OVER is asked for for players that leave the array with it.    *)
LEMMA UpdateAsks ==
    ASSUME TypeInv, Update, NEW f \in Fd
    PROVE  /\ ~Some(todo', StateOf(f))
           /\ Some(todo', EndOf(f)) => Plays(players, f)
           /\ Once(players, f) => /\ Once(players', f)
                                  /\ Some(todo', EndOf(f)) => ~Plays(players', f)
<1>0. players \in Seq(Player)
  BY DEF TypeInv, MainTypes
<1>1. PICK which, dead :
        /\ which \in Seq(DOMAIN players) /\ dead \in Seq(Fd) /\ Len(dead) = Len(which)
        /\ \A k \in 1 .. Len(dead) : dead[k] = players[which[k]].id
        /\ todo' = [k \in 1 .. Len(dead) |-> Act("send_over", dead[k])]
        /\ players' = RemovePlayers(players, dead)
  BY <1>0, DeadOnes
<1>2. Len(dead) \in Nat /\ DOMAIN players = 1 .. Len(players)
  BY <1>0, <1>1
<1>3. \A k \in 1 .. Len(dead) : which[k] \in 1 .. Len(players)
  BY <1>1, <1>2
<1>4. Len(todo') = Len(dead) /\ \A k \in 1 .. Len(dead) : todo'[k] = Act("send_over", dead[k])
  BY <1>1, <1>2
<1>6. \A g : Act("send_over", g) \notin StateOf(f) /\ (Act("send_over", g) \in EndOf(f) => g = f)
  BY DEF StateOf, EndOf, Act
<1>5. ~Some(todo', StateOf(f))
  BY <1>4, <1>6 DEF Some
<1>7. Some(todo', EndOf(f)) => \E k \in 1 .. Len(dead) : dead[k] = f
  BY <1>4, <1>6 DEF Some
<1>8. (\E k \in 1 .. Len(dead) : dead[k] = f) => Plays(players, f)
  BY <1>1, <1>3 DEF Plays
<1>9. Once(players, f) =>
        /\ Plays(players', f) => ~\E k \in 1 .. Len(dead) : dead[k] = f
        /\ Once(players', f)
  BY <1>0, <1>1, PlaysRemoveAll
<1> QED BY <1>5, <1>7, <1>8, <1>9

(* The end of the drain asks for an end wait or for nothing.               *)
LEMMA EndAsks ==
    ASSUME TypeInv, EndDrain, NEW f \in Fd
    PROVE  ~Some(todo', EndOf(f)) /\ ~Some(todo', StateOf(f))
<1>1. todo = <<>> /\ (todo' = todo \/ todo' = <<Act("wait_end", NoFd)>>)
  BY DEF EndDrain, At, ArmEndWait
<1>2. CASE todo' = todo
  <2>1. todo' = <<>>
    BY <1>1, <1>2
  <2> QED BY <2>1, SomeEmpty
<1>3. CASE todo' = <<Act("wait_end", NoFd)>>
  <2> DEFINE a == Act("wait_end", NoFd)
  <2>1. a \notin EndOf(f) /\ a \notin StateOf(f)
    BY DEF EndOf, StateOf, Act
  <2>2. todo' = <<a>>
    BY <1>3
  <2> HIDE DEF a
  <2>3. (Some(todo', EndOf(f)) <=> a \in EndOf(f)) /\ (Some(todo', StateOf(f)) <=> a \in StateOf(f))
    BY <2>2, SomeOne
  <2> QED BY <2>1, <2>3
<1> QED BY <1>1, <1>2, <1>3

-----------------------------------------------------------------------------
(* A thread without a descriptor takes one when it begins.                 *)
LEMMA ServeThreads ==
    ASSUME TypeInv, Starting, [Next]_vars
    PROVE  Starting'
<1> SUFFICES ASSUME NEW t \in Conn, recv'[t].pc \in {"none", "start"} PROVE recv'[t].fd = NoFd
  BY DEF Starting
<1>0. Changes /\ recv \in [Conn -> [pc : {"none", "start", "post", "poll", "done"},
                          fd : Fd \cup {NoFd}, ev : Events, last : BOOLEAN]]
      /\ ConnInv /\ backlog \in Seq(Conn)
      /\ \A u \in Conn : recv[u].pc \in {"none", "start"} => recv[u].fd = NoFd
  BY WhoChanges DEF TypeInv, RecvTypes, Starting, KernelTypes
<1>1. CASE AcceptConnection
  <2> DEFINE c == Head(backlog)
  <2>1. backlog # <<>> /\ recv' = [recv EXCEPT ![c].pc = "start"]
    BY <1>1 DEF AcceptConnection
  <2>2. c \in Conn /\ 1 \in DOMAIN backlog /\ c = backlog[1]
    BY <1>0, <2>1
  <2>3. recv[c].pc = "none"
    BY <1>0, <2>2 DEF ConnInv
  <2> HIDE DEF c
  <2>4. recv'[t].fd = recv[t].fd /\ recv[t].pc \in {"none", "start"}
    BY <1>0, <2>1, <2>2, <2>3
  <2> QED BY <1>0, <2>4
<1>2. ASSUME NEW u \in Conn, RecvStep(u) PROVE recv'[t].fd = NoFd
  <2>1. PICK q : recv' = [recv EXCEPT ![u] = q] /\ q.pc \in {"post", "poll", "done"}
    <3>1. CASE RecvStart(u) \/ RecvHangup(u) \/ RecvMessage(u)
      <4>1. PICK f, type, last : Post(u, f, type, last)
        BY <3>1 DEF RecvStart, RecvHangup, RecvMessage
      <4> DEFINE q == [pc |-> "post", fd |-> f, ev |-> Event(type, f, u), last |-> last]
      <4>2. recv' = [recv EXCEPT ![u] = q] /\ q.pc = "post"
        BY <4>1 DEF Post
      <4> HIDE DEF q
      <4> QED BY <4>2
    <3>2. CASE RecvPost(u)
      <4> DEFINE q == [Idle EXCEPT !.pc = IF running /\ ~recv[u].last THEN "poll" ELSE "done",
                                   !.fd = recv[u].fd]
      <4>1. recv' = [recv EXCEPT ![u] = q]
        BY <3>2 DEF RecvPost
      <4>2. q.pc \in {"poll", "done"}
        BY DEF Idle
      <4> HIDE DEF q
      <4> QED BY <4>1, <4>2
    <3>3. CASE RecvStop(u)
      <4> DEFINE q == [recv[u] EXCEPT !.pc = "done"]
      <4>1. recv' = [recv EXCEPT ![u] = q]
        BY <3>3 DEF RecvStop
      <4>2. q.pc = "done"
        BY <1>0
      <4> HIDE DEF q
      <4> QED BY <4>1, <4>2
    <3> QED BY <1>2, <3>1, <3>2, <3>3 DEF RecvStep
  <2>2. recv'[t] = recv[t]
    BY <1>0, <2>1
  <2> QED BY <1>0, <2>2
<1> QED BY <1>0, <1>1, <1>2 DEF Changes

(* ServeInv is kept.                                                       *)
LEMMA ServeStep == TypeInv /\ ServeInv /\ [Next]_vars /\ mainPc' \notin Destroying => ServeInv'
<1> SUFFICES ASSUME TypeInv, ServeInv, [Next]_vars, mainPc' \notin Destroying PROVE ServeInv'
  OBVIOUS
<1>0. Changes /\ QueueTypes /\ eq \in Seq(GoodEvents) /\ Requests \in Seq(GoodActions)
  BY WhoChanges, RequestsType DEF TypeInv
<1>1. Starting'
  BY ServeThreads DEF ServeInv
<1>2. ASSUME NEW f \in Fd, Plays(players', f) \/ Some(Requests', EndOf(f)) \/ Some(eq', MineOf(f))
      PROVE  Served(f)'
  <2>1. Served(f) => Served(f)'
    BY ServedStays DEF ServeInv
  <2>2. Plays(players, f) \/ Some(Requests, EndOf(f)) \/ Some(eq, MineOf(f)) => Served(f)
    BY DEF ServeInv
  <2>3. ASSUME HandleEvent, Head(eq).type \in FromClients, Head(eq).id = f PROVE Served(f)
    <3>1. eq # <<>> /\ Head(eq) \in Events
      BY <1>0, <2>3, EqHead DEF HandleEvent, GoodEvents
    <3>2. Head(eq) \in MineOf(f)
      BY <2>3, <3>1 DEF MineOf
    <3> QED BY <1>0, <2>2, <3>1, <3>2, SomeHead
  <2>4. CASE Plays(players', f)
    BY <2>1, <2>2, <2>3, <2>4, PlaysStep DEF FromClients
  <2>5. CASE Some(Requests', EndOf(f))
    <3>1. CASE Requests # <<>> /\ Requests' = Tail(Requests)
      BY <1>0, <2>1, <2>2, <2>5, <3>1, SomeHead
    <3>2. CASE /\ Requests' = Requests \o todo' /\ todo' \in Seq(GoodActions)
               /\ HandleEvent \/ BroadcastSnapshot \/ Update \/ EndDrain
      <4>1. Some(Requests, EndOf(f)) \/ Some(todo', EndOf(f))
        BY <1>0, <2>5, <3>2, SomeConcat
      <4> QED BY <2>1, <2>2, <2>3, <3>2, <4>1, EventAsks, SnapshotAsks, UpdateAsks, EndAsks DEF FromClients
    <3> QED BY <2>1, <2>2, <2>5, <3>1, <3>2, RequestsStep
  <2>6. CASE Some(eq', MineOf(f))
    <3>1. CASE HandleEvent /\ eq # <<>> /\ eq' = Tail(eq)
      BY <1>0, <2>1, <2>2, <2>6, <3>1, SomeHead
    <3>2. ASSUME NEW t \in Conn, eq' = Append(eq, recv[t].ev), recv[t].ev \in GoodEvents, recv[t].ev.id = recv[t].fd
          PROVE  Served(f)
      <4>1. Some(eq, MineOf(f)) \/ recv[t].ev \in MineOf(f)
        BY <1>0, <2>6, <3>2, SomeAppend
      <4>2. recv[t].ev \in MineOf(f) => recv[t].fd = f
        BY <3>2 DEF MineOf
      <4> QED BY <2>2, <4>1, <4>2 DEF Served
    <3>3. ASSUME NEW e \in GoodEvents, e.type \notin FromClients, eq' = Append(eq, e)
          PROVE  Served(f)
      <4>1. Some(eq, MineOf(f)) \/ e \in MineOf(f)
        BY <1>0, <2>6, <3>3, SomeAppend
      <4> QED BY <2>2, <3>3, <4>1 DEF MineOf
    <3> QED BY <2>1, <2>2, <2>6, <3>1, <3>2, <3>3, EqStep
  <2> QED BY <1>2, <2>4, <2>5, <2>6
<1>3. ASSUME argFd' \in Fd, ~Served(argFd)' PROVE fdTable'[argFd'] # NoConn
  <2>1. CASE AcceptConnection
    <3> DEFINE g == Min({h \in Fd : fdTable[h] = NoConn})
               c == Head(backlog)
    <3>1. backlog # <<>> /\ fdTable' = [fdTable EXCEPT ![g] = c] /\ argFd' = g
      BY <2>1 DEF AcceptConnection
    <3>2. c \in Conn /\ NoConn \notin Conn /\ fdTable \in [Fd -> Conn \cup {NoConn}]
      BY <3>1, ServerAssumption DEF TypeInv, KernelTypes
    <3> HIDE DEF g, c
    <3> QED BY <1>3, <3>1, <3>2
  <2>2. CASE UNCHANGED argFd /\ ~AcceptConnection
    <3>1. PICK f \in Fd : f = argFd
      BY <1>3, <2>2
    <3>2. ~Served(f)'
      BY <1>3, <3>1, <2>2 DEF Served
    <3>3. ~Served(f)
      BY <3>2, ServedStays DEF ServeInv
    <3>4. fdTable[f] # NoConn /\ ~Some(Requests, EndOf(f))
      BY <3>1, <3>3 DEF ServeInv
    <3>5. WorkerExec => Head(aq) # Act("unregister", f)
      <4> SUFFICES ASSUME WorkerExec PROVE Head(aq) # Act("unregister", f)
        OBVIOUS
      <4>1. aq # <<>> /\ aq \in Seq(GoodActions) /\ todo \in Seq(GoodActions)
        BY <1>0 DEF WorkerExec, QueueTypes
      <4>2. Some(aq, EndOf(f)) => Some(Requests, EndOf(f))
        BY <4>1, SomeConcat DEF Requests
      <4>3. Head(aq) \in EndOf(f) => Some(aq, EndOf(f))
        BY <4>1, SomeHead
      <4> QED BY <3>4, <4>2, <4>3 DEF EndOf
    <3> QED BY <2>2, <3>1, <3>4, <3>5, FdTableStep
  <2> QED BY <1>0, <2>1, <2>2 DEF Changes
<1> QED BY <1>1, <1>2, <1>3 DEF ServeInv

-----------------------------------------------------------------------------
(* A step that asks for nothing, tells nothing and brings nobody in.       *)
LEMMA FdQuiet ==
    ASSUME NEW f, FdOk(f), Requests' = Requests, eq' = eq,
           Plays(players', f) => Plays(players, f), Once(players', f),
           Announcing(f)' => Announcing(f), Knows(f) => Knows(f)',
           fdTable[f] # NoConn => fdTable'[f] # NoConn
    PROVE  FdOk(f)'
<1> QED BY DEF FdOk, NotYet

(* What the requests are like when main has added its new ones to them.    *)
LEMMA FdAsks ==
    ASSUME TypeInv, [Next]_vars, NEW f \in Fd, FdOk(f), todo = <<>>, aq' = aq,
           Some(todo', StateOf(f)) => Plays(players, f),
           ~(Some(todo', StateOf(f)) /\ Some(todo', EndOf(f)))
    PROVE  /\ Some(Requests', EndOf(f)) <=> Some(Requests, EndOf(f)) \/ Some(todo', EndOf(f))
           /\ Some(Requests', StateOf(f)) <=> Some(Requests, StateOf(f)) \/ Some(todo', StateOf(f))
           /\ Some(Requests, ReadyOf(f)) \/ Some(todo', ReadyOf(f)) => Some(Requests', ReadyOf(f))
           /\ NoneAfter(Requests', EndOf(f), StateOf(f))
           /\ Knows(f) \/ Preceded(Requests', ReadyOf(f), StateOf(f))
<1>1. Requests \in Seq(GoodActions) /\ todo' \in Seq(GoodActions) /\ aq \in Seq(GoodActions)
  BY RequestsType, QueueTypesStep DEF TypeInv, QueueTypes
<1>2. Requests' = Requests \o todo'
  <2>1. aq \o <<>> = aq
    BY <1>1
  <2> QED BY <2>1 DEF Requests
<1>3. \A S : Some(Requests', S) <=> Some(Requests, S) \/ Some(todo', S)
  BY <1>1, <1>2, SomeConcat
<1>4. NoneAfter(Requests', EndOf(f), StateOf(f))
  <2>1. NoneAfter(todo', EndOf(f), StateOf(f))
    BY <1>1, NoneAfterNone
  <2>2. NoneAfter(Requests, EndOf(f), StateOf(f)) /\ (Some(Requests, EndOf(f)) => ~Some(todo', StateOf(f)))
    BY DEF FdOk
  <2> QED BY <1>1, <1>2, <2>1, <2>2, NoneAfterConcat
<1>5. Knows(f) \/ Preceded(Requests', ReadyOf(f), StateOf(f))
  <2> SUFFICES ASSUME ~Knows(f) PROVE Preceded(Requests', ReadyOf(f), StateOf(f))
    OBVIOUS
  <2>1. /\ Preceded(Requests, ReadyOf(f), StateOf(f))
        /\ Some(todo', StateOf(f)) => Some(Requests, ReadyOf(f))
    BY DEF FdOk
  <2> QED BY <1>1, <1>2, <2>1, PrecededConcat
<1> QED BY <1>3, <1>4, <1>5

(* The handling of an event.                                               *)
LEMMA FdHandle ==
    ASSUME TypeInv, [Next]_vars, mainPc' \notin Destroying, NEW f \in Fd, FdOk(f), HandleEvent
    PROVE  FdOk(f)'
<1> DEFINE ev == Head(eq)
<1>0. /\ players \in Seq(Player) /\ eq \in Seq(GoodEvents) /\ eq # <<>> /\ ev \in GoodEvents
      /\ eq' = Tail(eq) /\ todo = <<>> /\ aq' = aq
      /\ UNCHANGED <<recv, fdTable, client, mail>>
  BY EqHead DEF HandleEvent, TypeInv, MainTypes, QueueTypes, At, MainOnly, kernelVars
<1>1. \/ OnConnected(ev) \/ OnInput(ev) \/ OnPaused(ev) \/ OnResumed(ev)
      \/ OnWaitedResume(ev) \/ OnDisconnected(ev) \/ OnWaitedEnd(ev)
  BY DEF HandleEvent
<1>2. /\ Some(todo', EndOf(f)) => ev.type = "disconnected" /\ ev.id = f
      /\ ~Some(todo', StateOf(f))
      /\ ev.type = "connected" /\ ev.id = f => Some(todo', ReadyOf(f))
  BY EventAsks
<1>3. /\ Some(Requests', EndOf(f)) <=> Some(Requests, EndOf(f)) \/ Some(todo', EndOf(f))
      /\ Some(Requests', StateOf(f)) <=> Some(Requests, StateOf(f)) \/ Some(todo', StateOf(f))
      /\ Some(Requests, ReadyOf(f)) \/ Some(todo', ReadyOf(f)) => Some(Requests', ReadyOf(f))
      /\ NoneAfter(Requests', EndOf(f), StateOf(f))
      /\ Knows(f) \/ Preceded(Requests', ReadyOf(f), StateOf(f))
  BY <1>0, <1>2, FdAsks
<1>4. /\ Knows(f)' <=> Knows(f)
      /\ Announcing(f)' <=> Announcing(f)
      /\ fdTable'[f] = fdTable[f]
  BY <1>0 DEF Knows, Announcing
<1>5. /\ NoneAfter(eq', MineOf(f), JoinsOf(f))
      /\ ev \in MineOf(f) => ~Some(eq', JoinsOf(f)) /\ Some(eq, MineOf(f))
      /\ ev \in JoinsOf(f) => Some(eq, JoinsOf(f))
      /\ \A S : Some(eq', S) => Some(eq, S)
  <2>1. NoneAfter(eq, MineOf(f), JoinsOf(f))
    BY DEF FdOk
  <2> HIDE DEF ev
  <2>2. NoneAfter(Tail(eq), MineOf(f), JoinsOf(f)) /\ (Head(eq) \in MineOf(f) => ~Some(Tail(eq), JoinsOf(f)))
    BY <1>0, <2>1, NoneAfterTail
  <2>3. \A S : Some(eq, S) <=> Some(Tail(eq), S) \/ Head(eq) \in S
    BY <1>0, SomeHead
  <2> QED BY <1>0, <2>2, <2>3 DEF ev
<1>6. /\ ev.type = "connected" /\ ev.id = f => ev \in MineOf(f) /\ ev \in JoinsOf(f)
      /\ ev.type = "disconnected" /\ ev.id = f => ev \in MineOf(f)
  <2>1. ev \in Events
    BY <1>0 DEF GoodEvents
  <2> HIDE DEF ev
  <2> QED BY <2>1 DEF MineOf, JoinsOf, FromClients
<1> HIDE DEF ev
<1>7. CASE OnConnected(ev) /\ ev.id = f
  <2>1. ev.type = "connected" /\ ev.id \in Fd /\ ev.src \in Conn
    BY <1>0, <1>7 DEF OnConnected, GoodEvents
  <2>2. /\ Some(eq, JoinsOf(f)) /\ Some(eq, MineOf(f)) /\ ~Some(eq', JoinsOf(f))
        /\ Some(Requests', ReadyOf(f)) /\ ~Some(todo', EndOf(f))
    BY <1>2, <1>3, <1>5, <1>6, <1>7, <2>1
  <2>3. ~Plays(players, f) /\ ~Some(Requests, EndOf(f)) /\ ~Announcing(f) /\ fdTable[f] # NoConn
        /\ Once(players, f)
    BY <2>2 DEF FdOk, NotYet
  <2>4. Once(players', f)
    BY <1>0, <1>7, <2>1, <2>3, PlaysAdd DEF OnConnected
  <2> QED BY <1>3, <1>4, <1>5, <2>2, <2>3, <2>4 DEF FdOk, NotYet
<1>8. CASE OnDisconnected(ev) /\ ev.id = f
  <2>1. ev.type = "disconnected"
    BY <1>8 DEF OnDisconnected
  <2>2. Some(eq, MineOf(f)) /\ ~Some(eq', JoinsOf(f))
    BY <1>5, <1>6, <1>8, <2>1
  <2>3. ~Announcing(f) /\ Once(players, f)
    BY <2>2 DEF FdOk
  <2>4. Once(players', f) /\ ~Plays(players', f)
    BY <1>0, <1>8, <2>3, PlaysRemove DEF OnDisconnected
  <2> QED BY <1>2, <1>3, <1>4, <1>5, <2>2, <2>3, <2>4 DEF FdOk, NotYet
<1>9. ASSUME Plays(players', f) => Plays(players, f), Once(players', f), ~Some(todo', EndOf(f))
      PROVE  FdOk(f)'
  BY <1>2, <1>3, <1>4, <1>5, <1>9 DEF FdOk, NotYet
<1>10. Once(players, f)
  BY DEF FdOk
<1>11. CASE OnConnected(ev) /\ ev.id # f
  <2>1. ev.type = "connected" /\ ev.id \in Fd /\ ev.src \in Conn
    BY <1>0, <1>11 DEF OnConnected, GoodEvents
  <2>2. (Plays(players', f) => Plays(players, f)) /\ Once(players', f)
    BY <1>0, <1>10, <1>11, <2>1, PlaysAdd DEF OnConnected
  <2> QED BY <1>2, <1>9, <1>11, <2>2
<1>12. CASE OnDisconnected(ev) /\ ev.id # f
  <2>1. (Plays(players', f) => Plays(players, f)) /\ Once(players', f)
    BY <1>0, <1>10, <1>12, PlaysRemove DEF OnDisconnected
  <2> QED BY <1>2, <1>9, <1>12, <2>1
<1>13. CASE OnInput(ev) \/ OnWaitedEnd(ev)
  <2>1. players' = players /\ ev.type # "disconnected"
    BY <1>13 DEF OnInput, OnWaitedEnd
  <2> QED BY <1>2, <1>9, <1>10, <2>1
<1>14. CASE OnPaused(ev) \/ OnResumed(ev) \/ OnWaitedResume(ev)
  <2>1. SameIds(players, players')
    BY <1>0, <1>14, PauseValue, ScheduleValue, ResumeValue
    DEF OnPaused, OnResumed, OnWaitedResume, Others, SameIds, Player
  <2>2. ev.type # "disconnected"
    BY <1>14 DEF OnPaused, OnResumed, OnWaitedResume
  <2>3. (Plays(players', f) => Plays(players, f)) /\ Once(players', f)
    BY <1>10, <2>1, PlaysSame
  <2> QED BY <1>2, <1>9, <2>2, <2>3
<1> QED BY <1>1, <1>7, <1>8, <1>11, <1>12, <1>13, <1>14

(* The loop's other three ways to ask for something.                       *)
LEMMA FdLoop ==
    ASSUME TypeInv, [Next]_vars, NEW f \in Fd, FdOk(f), BroadcastSnapshot \/ Update \/ EndDrain
    PROVE  FdOk(f)'
<1>0. todo = <<>> /\ UNCHANGED <<aq, eq, recv, fdTable, client>> /\ Once(players, f)
  BY DEF BroadcastSnapshot, Update, EndDrain, At, MainLocal, MainOnly, kernelVars, FdOk
<1>1. mail' = mail
  BY DEF BroadcastSnapshot, Update, EndDrain
<1>2. /\ Some(todo', StateOf(f)) => Plays(players, f)
      /\ Some(todo', EndOf(f)) => Plays(players, f) /\ ~Plays(players', f) /\ ~Some(todo', StateOf(f))
      /\ Once(players', f) /\ (Plays(players', f) => Plays(players, f))
  <2>1. CASE BroadcastSnapshot
    <3>1. players' = players
      BY <2>1 DEF BroadcastSnapshot, gameVars
    <3> QED BY <1>0, <2>1, <3>1, SnapshotAsks
  <2>2. CASE Update
    <3>1. Plays(players', f) => Plays(players, f)
      <4>1. ~HandleEvent
        BY <2>2 DEF Update, HandleEvent, At
      <4> QED BY <4>1, PlaysStep
    <3> QED BY <1>0, <2>2, <3>1, UpdateAsks
  <2>3. CASE EndDrain
    <3>1. players' = players
      BY <2>3 DEF EndDrain
    <3> QED BY <1>0, <2>3, <3>1, EndAsks
  <2> QED BY <2>1, <2>2, <2>3
<1>3. /\ Some(Requests', EndOf(f)) <=> Some(Requests, EndOf(f)) \/ Some(todo', EndOf(f))
      /\ Some(Requests', StateOf(f)) <=> Some(Requests, StateOf(f)) \/ Some(todo', StateOf(f))
      /\ Some(Requests, ReadyOf(f)) \/ Some(todo', ReadyOf(f)) => Some(Requests', ReadyOf(f))
      /\ NoneAfter(Requests', EndOf(f), StateOf(f))
      /\ Knows(f) \/ Preceded(Requests', ReadyOf(f), StateOf(f))
  BY <1>0, <1>2, FdAsks
<1>4. /\ Knows(f)' <=> Knows(f)
      /\ Announcing(f)' <=> Announcing(f)
      /\ fdTable'[f] = fdTable[f]
  BY <1>0, <1>1 DEF Knows, Announcing
<1> QED BY <1>0, <1>2, <1>3, <1>4 DEF FdOk, NotYet

-----------------------------------------------------------------------------
(* An event comes in.                                                      *)
LEMMA FdTold ==
    ASSUME NEW f \in Fd, FdOk(f), eq \in Seq(GoodEvents), NEW e \in GoodEvents, eq' = Append(eq, e),
           UNCHANGED <<aq, todo, players, fdTable, client, mail>>,
           Announcing(f)' => Announcing(f) /\ e \notin MineOf(f),
           e \in JoinsOf(f) => Announcing(f)
    PROVE  FdOk(f)'
<1>1. JoinsOf(f) \subseteq MineOf(f)
  BY DEF JoinsOf, MineOf, FromClients
<1>2. \A S : Some(eq', S) <=> Some(eq, S) \/ e \in S
  BY SomeAppend
<1>3. NoneAfter(eq', MineOf(f), JoinsOf(f))
  <2>1. NoneAfter(eq, MineOf(f), JoinsOf(f)) /\ (e \in JoinsOf(f) => ~Some(eq, MineOf(f)))
    BY DEF FdOk
  <2> QED BY <2>1, NoneAfterAppend
<1>4. Requests' = Requests /\ (Knows(f)' <=> Knows(f)) /\ fdTable'[f] = fdTable[f]
  BY DEF Requests, Knows
<1> QED BY <1>1, <1>2, <1>3, <1>4 DEF FdOk, NotYet

(* A thread posts what it had to tell; if it is the connection, it was     *)
(* announced.                                                              *)
LEMMA FdPost ==
    ASSUME TypeInv, ServeInv, [Next]_vars, NEW f \in Fd, OneThreadOn(f), FdOk(f),
           NEW t \in Conn, RecvPost(t), eq' = Append(eq, recv[t].ev), recv[t].ev \in GoodEvents,
           recv[t].ev.id = recv[t].fd
    PROVE  FdOk(f)'
<1>1. eq \in Seq(GoodEvents) /\ recv[t].pc = "post"
      /\ UNCHANGED <<aq, todo, players, fdTable, client, mail>>
  BY DEF TypeInv, QueueTypes, RecvPost, RecvOnly, kernelVars, mainVars, gameVars
<1>2. \A u \in Conn : ~RecvStart(u)
  <2>1. Append(eq, recv[t].ev) # eq
    BY <1>1
  <2> QED BY <2>1 DEF RecvStart
<1>3. Announcing(f)' => Announcing(f) /\ recv[t].fd # f
  BY <1>2, AnnouncingStep
<1>4. recv[t].ev \in MineOf(f) => recv[t].fd = f
  BY DEF MineOf
<1>5. recv[t].ev \in JoinsOf(f) => Announcing(f)
  BY <1>1 DEF JoinsOf, Announcing
<1> QED BY <1>1, <1>3, <1>4, <1>5, FdTold

(* A thread takes its descriptor, which nobody has served before.          *)
LEMMA FdStart ==
    ASSUME TypeInv, ServeInv, [Next]_vars, mainPc' \notin Destroying,
           NEW f \in Fd, FdOk(f), OneThreadOn(f)', NEW t \in Conn, RecvStart(t)
    PROVE  FdOk(f)'
<1>0. /\ UNCHANGED <<eq, aq, todo, players, fdTable, client, mail>>
      /\ recv' = [recv EXCEPT ![t] = [pc |-> "post", fd |-> argFd,
                                      ev |-> Event("connected", argFd, t), last |-> FALSE]]
      /\ recv[t].pc = "start"
  BY DEF RecvStart, Post, RecvOnly, kernelVars, mainVars, gameVars
<1>1. Requests' = Requests /\ (Knows(f)' <=> Knows(f)) /\ fdTable'[f] = fdTable[f]
  BY <1>0 DEF Requests, Knows
<1>2. CASE argFd # f
  <2>1. Announcing(f)' => Announcing(f)
    BY <1>2, AnnouncingStep
  <2>2. Once(players', f)
    BY <1>0 DEF FdOk
  <2> QED BY <1>0, <1>1, <2>1, <2>2, FdQuiet
<1>3. CASE argFd = f
  <2>1. recv \in [Conn -> [pc : {"none", "start", "post", "poll", "done"},
                           fd : Fd \cup {NoFd}, ev : Events, last : BOOLEAN]]
    BY DEF TypeInv, RecvTypes
  <2>2. recv'[t].fd = f /\ \A u \in Conn : u # t => recv'[u] = recv[u]
    BY <1>0, <1>3, <2>1
  <2>3. \A u \in Conn : u # t => recv[u].fd # f
    BY <2>2 DEF OneThreadOn
  <2>4. recv[t].fd # f
    BY <1>0 DEF ServeInv, Starting, Fd, NoFd
  <2>5. ~Served(f)
    BY <2>3, <2>4 DEF Served
  <2>6. /\ ~Plays(players, f) /\ ~Some(Requests, EndOf(f)) /\ ~Some(eq, MineOf(f))
        /\ fdTable[f] # NoConn
    BY <1>3, <2>5 DEF ServeInv
  <2>7. ~Some(eq, JoinsOf(f))
    <3>1. JoinsOf(f) \subseteq MineOf(f)
      BY DEF JoinsOf, MineOf, FromClients
    <3> QED BY <2>6, <3>1 DEF Some
  <2> QED BY <1>0, <1>1, <2>6, <2>7 DEF FdOk, NotYet
<1> QED BY <1>2, <1>3

(* accept_connection takes a descriptor that means nothing to anybody.     *)
LEMMA FdAccept ==
    ASSUME TypeInv, ServeInv, [Next]_vars, mainPc' \notin Destroying,
           NEW f \in Fd, FdOk(f), AcceptConnection
    PROVE  FdOk(f)'
<1>0. /\ UNCHANGED <<eq, aq, todo, players, client, mail>>
      /\ backlog # <<>> /\ backlog' = Tail(backlog)
  BY DEF AcceptConnection, clientVars, mainVars, gameVars
<1>1. Requests' = Requests /\ Once(players', f)
  BY <1>0 DEF Requests, FdOk
<1>2. Announcing(f)' => Announcing(f)
  <2>1. backlog' # backlog
    <3>1. backlog \in Seq(Conn)
      BY DEF TypeInv, KernelTypes
    <3> QED BY <1>0, <3>1
  <2>2. \A t \in Conn : ~RecvStart(t)
    BY <2>1 DEF RecvStart, RecvOnly, kernelVars
  <2> QED BY <2>2, AnnouncingStep
<1>3. CASE fdTable'[f] = fdTable[f]
  <2>1. Knows(f) => Knows(f)'
    BY <1>3, KnowsStays
  <2> QED BY <1>0, <1>1, <1>2, <1>3, <2>1, FdQuiet
<1>4. CASE fdTable[f] = NoConn
  <2>1. ~Announcing(f) /\ ~Some(eq, JoinsOf(f)) /\ ~Plays(players, f) /\ ~Some(Requests, StateOf(f))
    BY <1>4 DEF FdOk
  <2>2. Preceded(Requests, ReadyOf(f), StateOf(f))
    BY <2>1 DEF Some, Preceded
  <2> QED BY <1>0, <1>1, <1>2, <2>1, <2>2 DEF FdOk, NotYet
<1>5. ~WorkerExec
  <2>1. WorkerExec => UNCHANGED backlog
    BY DEF WorkerExec, WorkerOnly
  <2>2. backlog \in Seq(Conn)
    BY DEF TypeInv, KernelTypes
  <2>3. Tail(backlog) # backlog
    BY <1>0, <2>2
  <2> QED BY <1>0, <2>1, <2>3
<1> QED BY <1>3, <1>4, <1>5, FdTableStep

(* The worker carries out a request.                                       *)
LEMMA FdWorker ==
    ASSUME TypeInv, ServeInv, [Next]_vars, mainPc' \notin Destroying,
           NEW f \in Fd, FdOk(f), WorkerExec, Requests # <<>>, Requests' = Tail(Requests),
           Head(Requests) = Head(aq)
    PROVE  FdOk(f)'
<1> DEFINE a == Head(aq)
<1>0. /\ UNCHANGED <<eq, players, client, recv>> /\ Once(players, f)
      /\ Requests \in Seq(GoodActions) /\ aq # <<>> /\ aq' = Tail(aq) /\ aq \in Seq(GoodActions)
      /\ a \in GoodActions
  BY RequestsType DEF WorkerExec, WorkerOnly, mainVars, gameVars, FdOk, TypeInv, QueueTypes
<1>1. Announcing(f)' <=> Announcing(f)
  BY <1>0 DEF Announcing
<1>2. \A S : Some(Requests, S) <=> Some(Requests', S) \/ a \in S
  BY <1>0, SomeHead
<1>3. /\ NoneAfter(Requests', EndOf(f), StateOf(f))
      /\ a \in EndOf(f) => ~Some(Requests', StateOf(f))
  BY <1>0, NoneAfterTail DEF FdOk
<1> HIDE DEF a
<1>4. CASE a = Act("unregister", f)
  <2>1. a \in EndOf(f)
    BY <1>4 DEF EndOf
  <2>2. /\ ~Plays(players, f) /\ ~Announcing(f) /\ ~Some(eq, JoinsOf(f))
        /\ NoneAfter(eq, MineOf(f), JoinsOf(f)) /\ ~Some(Requests', StateOf(f))
    BY <1>2, <1>3, <2>1 DEF FdOk, NotYet
  <2>3. Preceded(Requests', ReadyOf(f), StateOf(f))
    BY <2>2 DEF Some, Preceded
  <2> QED BY <1>0, <1>1, <1>3, <2>2, <2>3 DEF FdOk, NotYet
<1>5. CASE a # Act("unregister", f)
  <2>1. ~AcceptConnection
    <3>1. AcceptConnection => UNCHANGED aq
      BY DEF AcceptConnection
    <3>2. Tail(aq) # aq
      BY <1>0
    <3> QED BY <1>0, <3>1, <3>2
  <2>2. fdTable'[f] = fdTable[f]
    BY <1>5, <2>1, FdTableStep DEF a
  <2>3. Knows(f) => Knows(f)'
    BY <2>2, KnowsStays
  <2>4. CASE a = Act("send_ready", f)
    <3>1. a.type = "send_ready" /\ a.id = f
      BY <2>4 DEF Act
    <3>2. mail' = Delivered(mail, f, "ready")
      BY <3>1 DEF WorkerExec, a
    <3>3. Knows(f)'
      <4> SUFFICES ASSUME fdTable[f] # NoConn
                   PROVE  client[fdTable[f]] # "awaiting" \/ Some(mail'[fdTable[f]], {"ready"})
        BY <1>0, <2>2 DEF Knows
      <4>1. PICK c \in Conn : c = fdTable[f]
        BY DEF TypeInv, KernelTypes
      <4>2. CASE client[c] = "gone"
        BY <4>1, <4>2
      <4>3. CASE client[c] # "gone"
        <5>1. mail' = [mail EXCEPT ![c] = Append(@, "ready")]
          BY <3>2, <4>1, <4>3 DEF Delivered
        <5>2. mail \in [Conn -> Seq(MailTypes)] /\ "ready" \in MailTypes
          BY DEF TypeInv, ClientTypes, MailTypes
        <5>3. mail'[c] = Append(mail[c], "ready") /\ mail[c] \in Seq(MailTypes)
          BY <5>1, <5>2
        <5>4. Some(mail'[c], {"ready"})
          BY <5>2, <5>3, SomeAppend
        <5> QED BY <4>1, <5>4
      <4> QED BY <4>1, <4>2, <4>3
    <3> QED BY <1>0, <1>1, <1>2, <1>3, <2>2, <3>3 DEF FdOk, NotYet
  <2>5. CASE a # Act("send_ready", f)
    <3>1. a \notin ReadyOf(f)
      BY <2>5 DEF ReadyOf
    <3>2. Knows(f) \/ Preceded(Requests', ReadyOf(f), StateOf(f))
      <4> SUFFICES ASSUME ~Knows(f) PROVE Preceded(Requests', ReadyOf(f), StateOf(f))
        OBVIOUS
      <4>1. Preceded(Requests, ReadyOf(f), StateOf(f))
        BY DEF FdOk
      <4> QED BY <1>0, <3>1, <4>1, PrecededTail DEF a
    <3> QED BY <1>0, <1>1, <1>2, <1>3, <2>2, <2>3, <3>1, <3>2 DEF FdOk, NotYet
  <2> QED BY <2>4, <2>5
<1> QED BY <1>4, <1>5

(* Every step keeps every descriptor in order.                             *)
LEMMA FdStep ==
    ASSUME TypeInv, ServeInv, [Next]_vars, mainPc' \notin Destroying, NEW f \in Fd, FdInv(f)
    PROVE  FdInv(f)'
<1> SUFFICES ASSUME OneThreadOn(f)' PROVE FdOk(f)'
  BY DEF FdInv
<1>0. Changes /\ OneThreadOn(f) /\ FdOk(f) /\ eq \in Seq(GoodEvents)
  BY WhoChanges, ServedStays DEF FdInv, ServeInv, TypeInv, QueueTypes
<1>1. CASE HandleEvent
  BY <1>0, <1>1, FdHandle
<1>2. CASE BroadcastSnapshot \/ Update \/ EndDrain
  BY <1>0, <1>2, FdLoop
<1>3. CASE WorkerExec
  <2>1. ~HandleEvent /\ ~BroadcastSnapshot /\ ~Update /\ ~EndDrain
    <3>1. aq # <<>> /\ aq' = Tail(aq) /\ aq \in Seq(GoodActions)
      BY <1>3 DEF WorkerExec, TypeInv, QueueTypes
    <3>2. aq' # aq
      BY <3>1
    <3> QED BY <3>2 DEF HandleEvent, BroadcastSnapshot, Update, EndDrain, MainLocal
  <2>2. Requests # <<>> /\ Requests' = Tail(Requests) /\ Head(Requests) = Head(aq)
    BY <1>3, <2>1, RequestsStep
  <2> QED BY <1>0, <1>3, <2>2, FdWorker
<1>4. CASE AcceptConnection
  BY <1>0, <1>4, FdAccept
<1>5. CASE \E t \in Conn : RecvStart(t)
  BY <1>0, <1>5, FdStart
<1>6. CASE \E t \in Conn : /\ RecvPost(t) /\ eq' = Append(eq, recv[t].ev)
                           /\ recv[t].ev \in GoodEvents /\ recv[t].ev.id = recv[t].fd
  BY <1>0, <1>6, FdPost
<1>7. CASE \E e \in GoodEvents : e.type \notin FromClients /\ eq' = Append(eq, e)
                                 /\ UNCHANGED <<recv, fdTable, players, aq, todo, mail, client, argFd>>
  <2>1. PICK e \in GoodEvents : e.type \notin FromClients /\ eq' = Append(eq, e)
                                 /\ UNCHANGED <<recv, fdTable, players, aq, todo, mail, client, argFd>>
    BY <1>7
  <2>2. e \notin MineOf(f) /\ e \notin JoinsOf(f)
    BY <2>1 DEF MineOf, JoinsOf, FromClients
  <2>3. Announcing(f)' <=> Announcing(f)
    BY <2>1 DEF Announcing
  <2> QED BY <1>0, <2>1, <2>2, <2>3, FdTold
<1>8. CASE /\ ~HandleEvent /\ ~BroadcastSnapshot /\ ~Update /\ ~EndDrain /\ ~WorkerExec
           /\ ~AcceptConnection /\ ~\E t \in Conn : RecvStart(t)
           /\ UNCHANGED eq
  <2>1. Requests' = Requests /\ fdTable'[f] = fdTable[f]
    BY <1>8, RequestsStep, FdTableStep
  <2>2. Plays(players', f) => Plays(players, f)
    BY <1>8, PlaysStep
  <2>3. Once(players', f)
    <3>1. CASE Stop
      <4>1. players' = <<>> /\ Len(<<>>) = 0
        BY <3>1 DEF Stop
      <4> QED BY <4>1 DEF Once
    <3>2. CASE players' = players
      BY <1>0, <3>2 DEF FdOk
    <3> QED BY <1>0, <1>8, <3>1, <3>2 DEF Changes
  <2>4. Announcing(f)' => Announcing(f)
    BY <1>8, AnnouncingStep
  <2>5. Knows(f) => Knows(f)'
    BY <2>1, KnowsStays
  <2> QED BY <1>0, <1>8, <2>1, <2>2, <2>3, <2>4, <2>5, FdQuiet
<1> QED BY <1>1, <1>2, <1>3, <1>4, <1>5, <1>6, <1>7, <1>8, EqStep

-----------------------------------------------------------------------------
(* All of them together, until registry_destroy.                           *)
LEMMA FdsStep == TypeInv /\ FdsInv /\ [Next]_vars => FdsInv'
<1> SUFFICES ASSUME TypeInv, FdsInv, [Next]_vars, mainPc' \notin Destroying
             PROVE  ServeInv' /\ \A f \in Fd : FdInv(f)'
  BY DEF FdsInv
<1>1. mainPc \notin Destroying
  BY DestroyingStays
<1>2. ServeInv /\ \A f \in Fd : FdInv(f)
  BY <1>1 DEF FdsInv
<1>3. ServeInv'
  BY <1>2, ServeStep
<1>4. \A f \in Fd : FdInv(f)'
  BY <1>2, FdStep
<1> QED BY <1>3, <1>4

(* They are in order from the start on.                                    *)
LEMMA FdsInvariant == Spec => [](TypeInv /\ PhaseInv /\ FdsInv)
<1>1. Init => FdsInv
  <2> SUFFICES ASSUME Init PROVE ServeInv /\ \A f \in Fd : FdOk(f)
    BY DEF FdsInv, FdInv
  <2>1. /\ recv = [c \in Conn |-> Idle] /\ eq = <<>> /\ players = <<>> /\ argFd = NoFd
        /\ aq = <<>> /\ todo = <<>>
    BY DEF Init
  <2>2. \A t \in Conn : recv[t].pc = "none" /\ recv[t].fd = NoFd
    BY <2>1 DEF Idle
  <2>3. Requests = <<>> /\ Len(<<>>) = 0
    BY <2>1 DEF Requests
  <2>4. argFd \notin Fd
    BY <2>1 DEF Fd, NoFd
  <2>5. \A f, S : ~Plays(players, f) /\ ~Some(Requests, S) /\ ~Some(eq, S) /\ Once(players, f)
    BY <2>1, <2>3 DEF Plays, Some, Once
  <2>6. \A f : ~Announcing(f)
    BY <2>2 DEF Announcing
  <2>7. \A A, B : NoneAfter(eq, A, B) /\ NoneAfter(Requests, A, B) /\ Preceded(Requests, A, B)
    BY <2>1, <2>3 DEF NoneAfter, Preceded
  <2>8. ServeInv
    BY <2>2, <2>4, <2>5 DEF ServeInv, Starting
  <2> QED BY <2>5, <2>6, <2>7, <2>8 DEF FdOk
<1>2. TypeInv /\ FdsInv /\ [Next]_vars => FdsInv'
  BY FdsStep
<1> QED BY <1>1, <1>2, TypeInvariant, PTL DEF Spec

(* Past shutdown's start nothing is asked of the worker any more.          *)
LEMMA RequestAt ==
    ASSUME TypeInv, PhaseInv, FdsInv, NEW k \in DOMAIN Requests, Requests[k].type # "wait_end",
           OneThreadOn(Requests[k].id)
    PROVE  /\ k \in 1 .. Len(Requests) /\ Requests[k].id \in Fd /\ FdOk(Requests[k].id)
           /\ Requests[k] = Act(Requests[k].type, Requests[k].id)
<1>0. Requests \in Seq(GoodActions) /\ DOMAIN Requests = 1 .. Len(Requests)
  BY RequestsType DEF TypeInv
<1>1. Requests[k] \in GoodActions
  BY <1>0
<1>2. mainPc \notin Destroying
  <2> SUFFICES ASSUME mainPc \in Destroying PROVE FALSE
    OBVIOUS
  <2>1. aq = <<>> /\ todo = <<>>
    BY DEF PhaseInv, Late
  <2>2. Requests = <<>> /\ Len(<<>>) = 0
    BY <2>1 DEF Requests
  <2> QED BY <1>0, <2>2
<1> QED BY <1>0, <1>1, <1>2 DEF GoodActions, Actions, Act, FdsInv, FdInv

(* While only one thread has served its descriptor, no client is sent a    *)
(* MSG_STATE before its MSG_READY (game_broadcast_snapshot after           *)
(* handle_event's EV_CONNECTED), although its descriptor may have been     *)
(* another client's before.                                                *)
THEOREM ReadyFirst == Spec => []StateAfterReady
<1>1. TypeInv /\ PhaseInv /\ FdsInv => StateAfterReady
  <2> SUFFICES ASSUME TypeInv, PhaseInv, FdsInv, NEW k \in DOMAIN Requests,
                      Requests[k].type = "send_state", fdTable[Requests[k].id] # NoConn,
                      OneThreadOn(Requests[k].id)
               PROVE  \/ client[fdTable[Requests[k].id]] # "awaiting"
                      \/ "ready" \in ToSet(mail[fdTable[Requests[k].id]])
                      \/ \E j \in 1 .. k - 1 : Requests[j] = Act("send_ready", Requests[k].id)
    BY DEF StateAfterReady
  <2> DEFINE f == Requests[k].id
  <2>1. k \in 1 .. Len(Requests) /\ f \in Fd /\ FdOk(f) /\ Requests[k] = Act("send_state", f)
    BY RequestAt
  <2>2. Requests[k] \in StateOf(f)
    BY <2>1 DEF StateOf
  <2> HIDE DEF f
  <2>3. Knows(f) \/ Preceded(Requests, ReadyOf(f), StateOf(f))
    BY <2>1 DEF FdOk
  <2>4. CASE Knows(f)
    <3>1. PICK c \in Conn : c = fdTable[f]
      BY <2>1 DEF TypeInv, KernelTypes, f
    <3>2. mail[c] \in Seq(MailTypes)
      BY DEF TypeInv, ClientTypes
    <3>3. Some(mail[c], {"ready"}) => "ready" \in ToSet(mail[c])
      BY <3>2 DEF Some, ToSet
    <3>4. client[c] # "awaiting" \/ Some(mail[c], {"ready"})
      BY <2>4, <3>1 DEF Knows, f
    <3> QED BY <3>1, <3>3, <3>4 DEF f
  <2>5. CASE Preceded(Requests, ReadyOf(f), StateOf(f))
    <3>1. \E j \in 1 .. k - 1 : Requests[j] \in ReadyOf(f)
      BY <2>1, <2>2, <2>5 DEF Preceded
    <3> QED BY <3>1 DEF ReadyOf, f
  <2> QED BY <2>3, <2>4, <2>5
<1> QED BY <1>1, FdsInvariant, PTL

(* Under the same condition no MSG_STATE is asked for once a player's      *)
(* MSG_GAME_OVER is (game_update, game_remove_player).                     *)
THEOREM SilentAfterDeath == Spec => []NoStateAfterDeath
<1>1. TypeInv /\ PhaseInv /\ FdsInv => NoStateAfterDeath
  <2> SUFFICES ASSUME TypeInv, PhaseInv, FdsInv, NEW j \in DOMAIN Requests, NEW k \in DOMAIN Requests,
                      j < k, Requests[j].type = "send_over", OneThreadOn(Requests[j].id),
                      Requests[k] = Act("send_state", Requests[j].id)
               PROVE  FALSE
    BY DEF NoStateAfterDeath
  <2> DEFINE f == Requests[j].id
  <2>1. j \in 1 .. Len(Requests) /\ FdOk(f) /\ Requests[j] = Act("send_over", f)
    BY RequestAt
  <2>2. k \in 1 .. Len(Requests) /\ j \in 1 .. k - 1
    <3>1. DOMAIN Requests = 1 .. Len(Requests) /\ Len(Requests) \in Nat
      BY RequestsType DEF TypeInv
    <3> QED BY <2>1, <3>1
  <2>3. Requests[j] \in EndOf(f) /\ Requests[k] \in StateOf(f)
    BY <2>1 DEF EndOf, StateOf
  <2> QED BY <2>1, <2>2, <2>3 DEF FdOk, NoneAfter
<1> QED BY <1>1, FdsInvariant, PTL

-----------------------------------------------------------------------------
(* The server keeps its word: what it says to a client is a session of     *)
(* module Session. A request about the client is one of Keep(Requests,     *)
(* About(f)), so the first lemmas say what Keep makes of what the handlers *)
(* append; then each step of the server is a step of the session or none.  *)

(* What Keep makes of sequences with nothing to keep, with one thing to    *)
(* keep, and of the first of several.                                      *)
LEMMA KeepNone ==
    ASSUME NEW U, NEW s \in Seq(U), NEW S, ~Some(s, S)
    PROVE  Keep(s, S) = <<>>
<1> DEFINE P == {t \in Seq(U) : ~Some(t, S) => Keep(t, S) = <<>>}
<1>1. <<>> \in P
  BY KeepEmpty
<1>2. ASSUME NEW t \in Seq(U), NEW e \in U, t \in P PROVE Append(t, e) \in P
  <2>1. Some(Append(t, e), S) <=> Some(t, S) \/ e \in S
    BY SomeAppend
  <2>2. Keep(Append(t, e), S) = IF e \in S THEN Append(Keep(t, S), e) ELSE Keep(t, S)
    BY KeepAppend
  <2>3. Append(t, e) \in Seq(U)
    OBVIOUS
  <2> QED BY <1>2, <2>1, <2>2, <2>3
<1>3. Seq(U) \subseteq P
  <2> HIDE DEF P
  <2> QED BY <1>1, <1>2, InductSeq
<1> QED BY <1>3

OnlyAt(s, j, S) == s[j] \in S /\ \A k \in 1 .. Len(s) : k # j => s[k] \notin S

LEMMA KeepOne ==
    ASSUME NEW U, NEW s \in Seq(U), NEW S, NEW j \in 1 .. Len(s), OnlyAt(s, j, S)
    PROVE  Keep(s, S) = <<s[j]>>
<1> DEFINE P == {t \in Seq(U) : \A i \in 1 .. Len(t) : OnlyAt(t, i, S) => Keep(t, S) = <<t[i]>>}
<1>1. <<>> \in P
  <2>1. Len(<<>>) = 0 /\ <<>> \in Seq(U)
    OBVIOUS
  <2> QED BY <2>1
<1>2. ASSUME NEW t \in Seq(U), NEW e \in U, t \in P PROVE Append(t, e) \in P
  <2> DEFINE u == Append(t, e)
             n == Len(t)
  <2>1. u \in Seq(U) /\ n \in Nat /\ Len(u) = n + 1 /\ u[n + 1] = e /\ \A k \in 1 .. n : u[k] = t[k]
    OBVIOUS
  <2>2. Keep(u, S) = IF e \in S THEN Append(Keep(t, S), e) ELSE Keep(t, S)
    BY KeepAppend
  <2> HIDE DEF u
  <2>3. ASSUME NEW i \in 1 .. Len(u), OnlyAt(u, i, S) PROVE Keep(u, S) = <<u[i]>>
    <3>1. CASE i = n + 1
      <4>1. e \in S /\ ~Some(t, S)
        BY <2>1, <2>3, <3>1 DEF OnlyAt, Some
      <4>2. Keep(t, S) = <<>>
        BY <4>1, KeepNone
      <4>3. Append(<<>>, e) = <<e>>
        OBVIOUS
      <4> QED BY <2>1, <2>2, <3>1, <4>1, <4>2, <4>3
    <3>2. CASE i # n + 1
      <4>1. i \in 1 .. n /\ n + 1 \in 1 .. Len(u)
        BY <2>1, <2>3, <3>2
      <4>2. OnlyAt(t, i, S) /\ e \notin S
        BY <2>1, <2>3, <3>2, <4>1 DEF OnlyAt
      <4>3. Keep(t, S) = <<t[i]>>
        BY <1>2, <4>1, <4>2
      <4> QED BY <2>1, <2>2, <4>1, <4>2, <4>3
    <3> QED BY <3>1, <3>2
  <2> QED BY <2>1, <2>3 DEF u
<1>3. Seq(U) \subseteq P
  <2> HIDE DEF P
  <2> QED BY <1>1, <1>2, InductSeq
<1> QED BY <1>3

LEMMA KeepSingle ==
    ASSUME NEW e, NEW S
    PROVE  Keep(<<e>>, S) = IF e \in S THEN <<e>> ELSE <<>>
<1> DEFINE s == <<e>>
<1>1. s \in Seq({e}) /\ Len(s) = 1 /\ s[1] = e
  OBVIOUS
<1> HIDE DEF s
<1>2. CASE e \in S
  <2>1. 1 \in 1 .. Len(s) /\ OnlyAt(s, 1, S)
    BY <1>1, <1>2 DEF OnlyAt
  <2>2. Keep(s, S) = <<s[1]>>
    BY <1>1, <2>1, KeepOne
  <2> QED BY <1>1, <1>2, <2>2 DEF s
<1>3. CASE e \notin S
  <2>1. ~Some(s, S)
    BY <1>1, <1>3 DEF Some
  <2> QED BY <1>1, <1>3, <2>1, KeepNone DEF s
<1> QED BY <1>2, <1>3

LEMMA KeepHead ==
    ASSUME NEW U, NEW s \in Seq(U), s # <<>>, NEW S
    PROVE  /\ Head(s) \in S => Keep(s, S) # <<>> /\ Keep(Tail(s), S) = Tail(Keep(s, S))
           /\ Head(s) \notin S => Keep(Tail(s), S) = Keep(s, S)
<1> DEFINE h == Head(s)
           t == Tail(s)
           k == Keep(t, S)
<1>1. h \in U /\ t \in Seq(U) /\ <<h>> \in Seq(U) /\ s = <<h>> \o t
  OBVIOUS
<1>2. k \in Seq(U \cap S)
  BY <1>1, KeepType
<1> HIDE DEF h, t
<1> DEFINE g == <<h>>
<1>3. Keep(s, S) = Keep(<<h>>, S) \o k
  <2>1. g \in Seq(U) /\ s = g \o t
    BY <1>1
  <2> HIDE DEF g
  <2>2. Keep(g \o t, S) = Keep(g, S) \o Keep(t, S)
    BY <1>1, <2>1, KeepConcat
  <2> QED BY <2>1, <2>2 DEF g, k
<1> HIDE DEF k
<1>4. CASE h \in S
  <2>1. Keep(s, S) = <<h>> \o k
    BY <1>3, <1>4, KeepSingle
  <2>2. <<h>> \o k # <<>> /\ Tail(<<h>> \o k) = k
    BY <1>1, <1>2, <1>4
  <2> QED BY <1>4, <2>1, <2>2 DEF h, t, k
<1>5. CASE h \notin S
  <2>1. Keep(s, S) = <<>> \o k
    BY <1>3, <1>5, KeepSingle
  <2>2. <<>> \o k = k
    BY <1>2
  <2> QED BY <1>5, <2>1, <2>2 DEF h, t, k
<1> QED BY <1>4, <1>5

(* Of different elements different ones are kept.                          *)
Distinct(s) == \A i, j \in 1 .. Len(s) : s[i] = s[j] => i = j

LEMMA DistinctAppend ==
    ASSUME NEW U, NEW s \in Seq(U), NEW e
    PROVE  /\ Distinct(Append(s, e)) => Distinct(s) /\ ~Some(s, {e})
           /\ Distinct(s) /\ ~Some(s, {e}) => Distinct(Append(s, e))
<1> DEFINE t == Append(s, e)
           n == Len(s)
<1>1. n \in Nat /\ Len(t) = n + 1 /\ t[n + 1] = e /\ \A k \in 1 .. n : t[k] = s[k]
  OBVIOUS
<1> HIDE DEF t
<1>2. ASSUME Distinct(t) PROVE Distinct(s) /\ ~Some(s, {e})
  <2>1. \A k \in 1 .. n : k \in 1 .. Len(t) /\ n + 1 \in 1 .. Len(t) /\ k # n + 1
    BY <1>1
  <2> QED BY <1>1, <1>2, <2>1 DEF Distinct, Some
<1>3. ASSUME Distinct(s), ~Some(s, {e}) PROVE Distinct(t)
  <2>1. \A k \in 1 .. Len(t) : k \in 1 .. n \/ k = n + 1
    BY <1>1
  <2> QED BY <1>1, <1>3, <2>1 DEF Distinct, Some
<1> QED BY <1>2, <1>3 DEF t

LEMMA KeepDistinct ==
    ASSUME NEW U, NEW s \in Seq(U), NEW S, Distinct(s)
    PROVE  Distinct(Keep(s, S))
<1> DEFINE P == {t \in Seq(U) : Distinct(t) => Distinct(Keep(t, S))}
<1>1. <<>> \in P
  <2>1. <<>> \in Seq(U) /\ Len(<<>>) = 0
    OBVIOUS
  <2>2. Distinct(Keep(<<>>, S))
    BY <2>1, KeepEmpty DEF Distinct
  <2> QED BY <2>1, <2>2
<1>2. ASSUME NEW t \in Seq(U), NEW e \in U, t \in P PROVE Append(t, e) \in P
  <2>1. Append(t, e) \in Seq(U) /\ t \in Seq(U)
    OBVIOUS
  <2>2. Keep(Append(t, e), S) = IF e \in S THEN Append(Keep(t, S), e) ELSE Keep(t, S)
    BY KeepAppend
  <2> SUFFICES ASSUME Distinct(Append(t, e)) PROVE Distinct(Keep(Append(t, e), S))
    BY <2>1
  <2>3. Distinct(t) /\ ~Some(t, {e})
    BY DistinctAppend
  <2>4. Distinct(Keep(t, S))
    BY <1>2, <2>3
  <2> DEFINE V == U \ {e}
  <2>5. t \in Seq(V)
    <3>1. \A k \in 1 .. Len(t) : t[k] \in V
      BY <2>3 DEF Some
    <3> HIDE DEF V
    <3> QED BY <3>1
  <2>6. Keep(t, S) \in Seq(V \cap S)
    BY <2>5, KeepType
  <2>7. ~Some(Keep(t, S), {e})
    <3>1. \A k \in 1 .. Len(Keep(t, S)) : Keep(t, S)[k] \in V \cap S
      BY <2>6
    <3> QED BY <3>1 DEF Some
  <2>8. Distinct(Append(Keep(t, S), e))
    BY <2>4, <2>6, <2>7, DistinctAppend
  <2> QED BY <2>2, <2>4, <2>8
<1>3. Seq(U) \subseteq P
  <2> HIDE DEF P
  <2> QED BY <1>1, <1>2, InductSeq
<1> QED BY <1>3

-----------------------------------------------------------------------------
(* A removal by another id, and several, leave a player where it was.      *)
LEMMA PlaysOthers ==
    ASSUME NEW ps \in Seq(Player), NEW id, NEW f, f # id, Plays(ps, f)
    PROVE  Plays(RemovePlayer(ps, id), f)
<1> DEFINE m == PlayerIndex(ps, id)
           r == RemovePlayer(ps, id)
           n == Len(ps)
<1>1. /\ n \in Nat /\ m \in 0 .. n /\ (m # 0 => m \in 1 .. n /\ ps[m].id = id)
  BY PlayerIndexValue
<1>2. /\ m = 0 => r = ps
      /\ m # 0 => /\ Len(r) = n - 1
                  /\ \A k \in 1 .. n - 1 : r[k] = IF k < m THEN ps[k] ELSE ps[k + 1]
  BY RemovePlayerValue
<1>3. PICK i \in 1 .. n : ps[i].id = f
  BY DEF Plays
<1> HIDE DEF m, r
<1>4. CASE m # 0
  <2>1. i # m
    BY <1>1, <1>3, <1>4
  <2>2. CASE i < m
    <3>1. i \in 1 .. n - 1 /\ r[i] = ps[i]
      BY <1>1, <1>2, <1>4, <2>2
    <3> QED BY <1>2, <1>3, <1>4, <3>1 DEF Plays, r
  <2>3. CASE i > m
    <3>1. i - 1 \in 1 .. n - 1 /\ ~(i - 1 < m) /\ (i - 1) + 1 = i
      BY <1>1, <1>4, <2>3
    <3>2. r[i - 1] = ps[i]
      BY <1>2, <1>4, <3>1
    <3> QED BY <1>2, <1>3, <1>4, <3>1, <3>2 DEF Plays, r
  <2> QED BY <1>1, <2>1, <2>2, <2>3
<1> QED BY <1>2, <1>4 DEF r

LEMMA PlaysOthersAll ==
    ASSUME NEW ps \in Seq(Player), NEW f, Plays(ps, f), NEW ids \in Seq(Fd),
           \A k \in 1 .. Len(ids) : ids[k] # f
    PROVE  Plays(RemovePlayers(ps, ids), f)
<1> DEFINE P == {q \in Seq(Player) : Plays(q, f)}
           W == Fd \ {f}
<1>1. ClosedUnderRemoval(P, W)
  <2> SUFFICES ASSUME NEW q \in P, NEW id \in W PROVE RemovePlayer(q, id) \in P
    BY DEF ClosedUnderRemoval
  <2>1. q \in Seq(Player) /\ RemovePlayer(q, id) \in Seq(Player)
    BY RemovePlayerValue
  <2> QED BY <2>1, PlaysOthers
<1>2. ps \in P
  OBVIOUS
<1>3. ids \in Seq(W)
  <2>1. \A k \in 1 .. Len(ids) : ids[k] \in W
    OBVIOUS
  <2> HIDE DEF W
  <2> QED BY <2>1
<1> HIDE DEF P, W
<1>4. RemovePlayers(ps, ids) \in P
  BY <1>1, <1>2, <1>3, RemovePlayersKeeps
<1> QED BY <1>4 DEF P

-----------------------------------------------------------------------------
(* Which part of the talk with f a request is.                             *)
Asks(f) == Keep(Requests, About(f))

LEMMA AboutIs ==
    ASSUME NEW f
    PROVE  /\ \A type, g : Act(type, g) \in About(f)
                <=> g = f /\ type \in {"send_ready", "send_state", "send_over", "unregister"}
           /\ \A a \in About(f) : a = Act(a.type, f) /\ a.type \notin {"wait_end", "wait_paused"}
BY DEF About, Act

(* What main asks for goes to the end of what is pending, and the worker   *)
(* takes from its head.                                                    *)
LEMMA AsksMore ==
    ASSUME TypeInv, [Next]_vars, NEW f, todo = <<>>, aq' = aq
    PROVE  Asks(f)' = Asks(f) \o Keep(todo', About(f))
<1>1. Requests \in Seq(GoodActions) /\ aq \in Seq(GoodActions) /\ todo' \in Seq(GoodActions)
  BY RequestsType, QueueTypesStep DEF TypeInv, QueueTypes
<1>2. Requests' = Requests \o todo'
  <2>1. aq \o <<>> = aq
    BY <1>1
  <2> QED BY <2>1 DEF Requests
<1>3. Keep(Requests \o todo', About(f)) = Keep(Requests, About(f)) \o Keep(todo', About(f))
  BY <1>1, KeepConcat
<1> QED BY <1>2, <1>3 DEF Asks, About

LEMMA AsksLess ==
    ASSUME TypeInv, NEW f, Requests # <<>>, Requests' = Tail(Requests)
    PROVE  Asks(f)' = Asks(f) \/ (Asks(f) # <<>> /\ Asks(f)' = Tail(Asks(f)))
<1>1. Requests \in Seq(GoodActions)
  BY RequestsType DEF TypeInv
<1>2. /\ Head(Requests) \in About(f) =>
            Keep(Requests, About(f)) # <<>> /\ Keep(Tail(Requests), About(f)) = Tail(Keep(Requests, About(f)))
      /\ Head(Requests) \notin About(f) => Keep(Tail(Requests), About(f)) = Keep(Requests, About(f))
  BY <1>1, KeepHead
<1> QED BY <1>2 DEF Asks, About

LEMMA AsksType ==
    ASSUME TypeInv, NEW f
    PROVE  \A a : Asks(f) \o <<>> = Asks(f) /\ Asks(f) \o <<a>> = Append(Asks(f), a)
<1>1. Requests \in Seq(GoodActions)
  BY RequestsType DEF TypeInv
<1>2. Asks(f) \in Seq(GoodActions \cap About(f))
  BY <1>1, KeepType DEF Asks
<1> QED BY <1>2

(* MSG_READY for one that joins, the end of one that leaves.               *)
LEMMA HandleSays ==
    ASSUME TypeInv, HandleEvent, NEW f \in Fd
    PROVE  Keep(todo', About(f)) =
             IF Head(eq).id = f /\ Head(eq).type = "connected" THEN <<Act("send_ready", f)>>
             ELSE IF Head(eq).id = f /\ Head(eq).type = "disconnected" THEN <<Act("unregister", f)>>
             ELSE <<>>
<1> DEFINE ev == Head(eq)
<1>1. \/ OnConnected(ev) \/ OnInput(ev) \/ OnPaused(ev) \/ OnResumed(ev)
      \/ OnWaitedResume(ev) \/ OnDisconnected(ev) \/ OnWaitedEnd(ev)
  BY DEF HandleEvent
<1>2. todo = <<>>
  BY DEF HandleEvent, At
<1> HIDE DEF ev
<1>3. ASSUME NEW type, todo' = <<Act(type, ev.id)>>
      PROVE  Keep(todo', About(f)) = IF Act(type, ev.id) \in About(f) THEN <<Act(type, ev.id)>> ELSE <<>>
  BY <1>3, KeepSingle
<1>4. CASE OnConnected(ev)
  <2>1. ev.type = "connected" /\ todo' = <<Act("send_ready", ev.id)>>
    BY <1>4 DEF OnConnected
  <2>2. Act("send_ready", ev.id) \in About(f) <=> ev.id = f
    BY AboutIs
  <2> QED BY <1>3, <2>1, <2>2 DEF ev
<1>5. CASE OnDisconnected(ev)
  <2>1. ev.type = "disconnected" /\ todo' = <<Act("unregister", ev.id)>>
    BY <1>5 DEF OnDisconnected
  <2>2. Act("unregister", ev.id) \in About(f) <=> ev.id = f
    BY AboutIs
  <2> QED BY <1>3, <2>1, <2>2 DEF ev
<1>6. CASE OnResumed(ev)
  <2>1. ev.type = "resumed" /\ todo' = <<Act("wait_paused", ev.id)>>
    BY <1>6 DEF OnResumed
  <2>2. Act("wait_paused", ev.id) \notin About(f)
    BY AboutIs
  <2> QED BY <1>3, <2>1, <2>2 DEF ev
<1>7. CASE OnInput(ev) \/ OnPaused(ev) \/ OnWaitedResume(ev) \/ OnWaitedEnd(ev)
  <2>1. ev.type \notin {"connected", "disconnected"} /\ todo' = <<>>
    BY <1>2, <1>7 DEF OnInput, OnPaused, OnWaitedResume, OnWaitedEnd
  <2> QED BY <2>1, KeepEmpty DEF ev
<1> QED BY <1>1, <1>4, <1>5, <1>6, <1>7

(* A state for a player, nothing for others.                               *)
LEMMA SnapshotSays ==
    ASSUME TypeInv, BroadcastSnapshot, NEW f \in Fd, Once(players, f), todo' \in Seq(GoodActions)
    PROVE  Keep(todo', About(f)) = IF Plays(players, f) THEN <<Act("send_state", f)>> ELSE <<>>
<1>1. todo' = [i \in DOMAIN players |-> Act("send_state", players[i].id)]
  BY DEF BroadcastSnapshot
<1>2. DOMAIN players = 1 .. Len(players) /\ Len(players) \in Nat
  BY PlayerAt DEF TypeInv, MainTypes
<1>3. Len(todo') = Len(players)
      /\ \A i \in 1 .. Len(players) : todo'[i] = Act("send_state", players[i].id)
  BY <1>1, <1>2
<1>4. \A i \in 1 .. Len(todo') : todo'[i] \in About(f) <=> players[i].id = f
  BY <1>3, AboutIs
<1>5. CASE Plays(players, f)
  <2>1. PICK i \in 1 .. Len(players) : players[i].id = f
    BY <1>5 DEF Plays
  <2>2. i \in 1 .. Len(todo') /\ OnlyAt(todo', i, About(f))
    BY <1>3, <1>4, <2>1 DEF OnlyAt, Once
  <2>3. Keep(todo', About(f)) = <<todo'[i]>>
    BY <2>2, KeepOne
  <2> QED BY <1>3, <1>5, <2>1, <2>3
<1>6. CASE ~Plays(players, f)
  <2>1. ~Some(todo', About(f))
    BY <1>3, <1>4, <1>6 DEF Some, Plays
  <2> QED BY <1>6, <2>1, KeepNone
<1> QED BY <1>5, <1>6

(* The end of the drain says nothing to anybody.                           *)
LEMMA EndSays ==
    ASSUME TypeInv, EndDrain, NEW f
    PROVE  Keep(todo', About(f)) = <<>>
<1>1. todo = <<>> /\ (todo' = todo \/ todo' = <<Act("wait_end", NoFd)>>)
  BY DEF EndDrain, At, ArmEndWait
<1>2. Act("wait_end", NoFd) \notin About(f)
  BY AboutIs
<1> QED BY <1>1, <1>2, KeepEmpty, KeepSingle

(* GAME_OVER for a player that leaves the array with it, once.             *)
LEMMA IndicesDistinct ==
    ASSUME players \in Seq(Player), NEW D
    PROVE  IndicesIn(D) \in Seq(1 .. Len(players)) /\ Distinct(IndicesIn(D))
<1> DEFINE all == [i \in DOMAIN players |-> i]
           n   == Len(players)
<1>1. DOMAIN players = 1 .. n /\ n \in Nat
  OBVIOUS
<1> HIDE DEF n
<1>2. all \in Seq(1 .. n) /\ Len(all) = n /\ \A k \in 1 .. n : all[k] = k
  BY <1>1
<1> HIDE DEF all
<1>3. Distinct(all)
  BY <1>2 DEF Distinct
<1>4. Keep(all, D) \in Seq(1 .. n \cap D)
  BY <1>2, KeepType
<1>5. 1 .. n \cap D \subseteq 1 .. n
  OBVIOUS
<1>6. Keep(all, D) \in Seq(1 .. n)
  BY <1>4, <1>5, SeqMonotonic
<1>7. Distinct(Keep(all, D))
  BY <1>2, <1>3, KeepDistinct
<1> QED BY <1>6, <1>7 DEF IndicesIn, all, n

LEMMA UpdateSays ==
    ASSUME TypeInv, Update, NEW f \in Fd, Once(players, f), todo' \in Seq(GoodActions)
    PROVE  \/ /\ Keep(todo', About(f)) = <<Act("send_over", f)>>
              /\ Plays(players, f) /\ ~Plays(players', f)
           \/ Keep(todo', About(f)) = <<>> /\ (Plays(players', f) <=> Plays(players, f))
<1>0. players \in Seq(Player)
  BY DEF TypeInv, MainTypes
<1>1. PICK D \in MayDie :
        LET which == IndicesIn(D)
            dead  == [k \in DOMAIN which |-> players[which[k]].id]
        IN  /\ todo' = [k \in DOMAIN dead |-> Act("send_over", dead[k])]
            /\ players' = RemovePlayers(players, dead)
  BY DEF Update
<1> DEFINE which == IndicesIn(D)
           dead  == [k \in DOMAIN which |-> players[which[k]].id]
<1>2. which \in Seq(1 .. Len(players)) /\ Distinct(which)
  BY <1>0, IndicesDistinct
<1>3. todo' = [k \in DOMAIN dead |-> Act("send_over", dead[k])] /\ players' = RemovePlayers(players, dead)
  BY <1>1
<1> HIDE DEF which
<1>4. DOMAIN which = 1 .. Len(which) /\ Len(which) \in Nat
      /\ \A k \in 1 .. Len(which) : which[k] \in 1 .. Len(players)
  BY <1>2
<1>5. \A i \in 1 .. Len(players) : players[i].id \in Fd
  BY <1>0, PlayerAt
<1>6. dead \in Seq(Fd) /\ Len(dead) = Len(which) /\ DOMAIN dead = 1 .. Len(dead)
      /\ \A k \in 1 .. Len(dead) : dead[k] = players[which[k]].id
  BY <1>4, <1>5
<1> HIDE DEF dead
<1>7. Len(todo') = Len(dead) /\ \A k \in 1 .. Len(dead) : todo'[k] = Act("send_over", dead[k])
  BY <1>3, <1>4, <1>6
<1>8. \A k \in 1 .. Len(todo') : todo'[k] \in About(f) <=> dead[k] = f
  BY <1>7, AboutIs
<1>9. CASE \E k \in 1 .. Len(dead) : dead[k] = f
  <2>1. PICK k \in 1 .. Len(dead) : dead[k] = f
    BY <1>9
  <2>2. ASSUME NEW j \in 1 .. Len(dead), dead[j] = f PROVE j = k
    <3>1. which[j] = which[k]
      BY <1>4, <1>6, <2>1, <2>2 DEF Once
    <3> QED BY <1>2, <1>6, <3>1 DEF Distinct
  <2>3. k \in 1 .. Len(todo') /\ OnlyAt(todo', k, About(f))
    BY <1>7, <1>8, <2>1, <2>2 DEF OnlyAt
  <2>4. Keep(todo', About(f)) = <<todo'[k]>>
    BY <2>3, KeepOne
  <2>5. Plays(players, f)
    BY <1>4, <1>6, <2>1 DEF Plays
  <2>6. ~Plays(players', f)
    BY <1>0, <1>3, <1>6, <2>1, PlaysRemoveAll
  <2> QED BY <1>7, <2>1, <2>4, <2>5, <2>6
<1>10. CASE \A k \in 1 .. Len(dead) : dead[k] # f
  <2>1. ~Some(todo', About(f))
    BY <1>7, <1>8, <1>10 DEF Some
  <2>2. Keep(todo', About(f)) = <<>>
    BY <2>1, KeepNone
  <2>3. Plays(players', f) => Plays(players, f)
    BY <1>0, <1>3, <1>6, PlaysLessAll
  <2>4. Plays(players, f) => Plays(players', f)
    BY <1>0, <1>3, <1>6, <1>10, PlaysOthersAll
  <2> QED BY <2>2, <2>3, <2>4
<1> QED BY <1>9, <1>10

-----------------------------------------------------------------------------
(* The stage of f in the words of the invariant.                           *)
New(f) == ~Served(f) \/ Announcing(f) \/ Some(eq, JoinsOf(f))

LEMMA JoinsMeans ==
    ASSUME NEW f, NEW s \in Seq(GoodEvents)
    PROVE  (\E i \in DOMAIN s : s[i].type = "connected" /\ s[i].id = f) <=> Some(s, JoinsOf(f))
<1>1. DOMAIN s = 1 .. Len(s) /\ \A i \in 1 .. Len(s) : s[i] \in Events
  BY DEF GoodEvents
<1> QED BY <1>1 DEF Some, JoinsOf

LEMMA PlaysMeans ==
    ASSUME NEW f, NEW ps \in Seq(Player)
    PROVE  (\E i \in DOMAIN ps : ps[i].id = f) <=> Plays(ps, f)
<1>1. DOMAIN ps = 1 .. Len(ps)
  OBVIOUS
<1> QED BY <1>1 DEF Plays

StageIs(f) == Stage(f) = IF ~Down /\ Plays(players, f) THEN "playing"
                         ELSE IF ~Down /\ New(f) THEN "new" ELSE "over"

LEMMA StageValue ==
    ASSUME NEW f, TypeInv, TypeInv'
    PROVE  StageIs(f) /\ StageIs(f)'
<1>1. eq \in Seq(GoodEvents) /\ players \in Seq(Player) /\ eq' \in Seq(GoodEvents) /\ players' \in Seq(Player)
  BY DEF TypeInv, QueueTypes, MainTypes
<1>2. (\E i \in DOMAIN eq : eq[i].type = "connected" /\ eq[i].id = f) <=> Some(eq, JoinsOf(f))
  BY <1>1, JoinsMeans
<1>3. (\E i \in DOMAIN eq' : eq'[i].type = "connected" /\ eq'[i].id = f) <=> Some(eq', JoinsOf(f))
  BY <1>1, JoinsMeans
<1>4. (\E i \in DOMAIN players : players[i].id = f) <=> Plays(players, f)
  BY <1>1, PlaysMeans
<1>5. (\E i \in DOMAIN players' : players'[i].id = f) <=> Plays(players', f)
  BY <1>1, PlaysMeans
<1>6. Unannounced(f) <=> New(f)
  BY <1>2 DEF Unannounced, New, Served, Announcing
<1>7. Unannounced(f)' <=> New(f)'
  BY <1>3 DEF Unannounced, New, Served, Announcing
<1>8. StageIs(f)
  BY <1>4, <1>6 DEF Stage, StageIs
<1>9. StageIs(f)'
  BY <1>5, <1>7 DEF Stage, StageIs
<1> QED BY <1>8, <1>9

-----------------------------------------------------------------------------
(* The steps of a session.                                                 *)
LEMMA Crossing == ASSUME NEW f, ~OneThreadOn(f)' PROVE Talk(f)!SessionStep
BY DEF Talk!SessionStep, Talk!SessionNext

LEMMA Staying ==
    ASSUME NEW f, Asks(f)' = Asks(f), Stage(f)' = Stage(f), OneThreadOn(f), OneThreadOn(f)', Down' <=> Down
    PROVE  Talk(f)!SessionStep
BY DEF Talk!SessionStep, Talk!sessionVars, Asks

LEMMA Saying ==
    ASSUME NEW f, NEW m, Asks(f)' = Append(Asks(f), Act(m, f)), OneThreadOn(f), OneThreadOn(f)', ~Down, ~Down',
           \/ m = "send_ready" /\ Stage(f) = "new"     /\ Stage(f)' = "playing"
           \/ m = "send_state" /\ Stage(f) = "playing" /\ Stage(f)' = "playing"
           \/ m = "send_over"  /\ Stage(f) = "playing" /\ Stage(f)' = "over"
           \/ m = "unregister" /\ Stage(f) # "new"     /\ Stage(f)' = "over"
    PROVE  Talk(f)!SessionStep
BY DEF Talk!SessionStep, Talk!SessionNext, Talk!Welcome, Talk!Show, Talk!Finish, Talk!Part, Talk!Say, Asks, Act

LEMMA Doing ==
    ASSUME NEW f, Asks(f) # <<>>, Asks(f)' = Tail(Asks(f)), Stage(f)' = Stage(f),
           OneThreadOn(f), OneThreadOn(f)', Down' <=> Down
    PROVE  Talk(f)!SessionStep
BY DEF Talk!SessionStep, Talk!SessionNext, Talk!Do, Asks

LEMMA GoingDown ==
    ASSUME NEW f, Asks(f)' = Asks(f), Stage(f)' = "over", OneThreadOn(f), OneThreadOn(f)', ~Down, Down'
    PROVE  Talk(f)!SessionStep
BY DEF Talk!SessionStep, Talk!SessionNext, Talk!GoDown, Asks

-----------------------------------------------------------------------------
(* A thread about to announce its connection goes on to be until it does.  *)
LEMMA AnnouncingEnds ==
    ASSUME TypeInv, [Next]_vars, NEW f \in Fd, Announcing(f)
    PROVE  Announcing(f)' \/ Some(eq', JoinsOf(f))
<1>0. /\ Changes /\ ConnInv /\ backlog \in Seq(Conn) /\ eq \in Seq(GoodEvents)
      /\ recv \in [Conn -> [pc : {"none", "start", "post", "poll", "done"},
                          fd : Fd \cup {NoFd}, ev : Events, last : BOOLEAN]]
  BY WhoChanges DEF TypeInv, RecvTypes, KernelTypes, QueueTypes
<1>1. PICK t \in Conn : recv[t].pc = "post" /\ recv[t].ev.type = "connected" /\ recv[t].fd = f
  BY DEF Announcing
<1>2. CASE recv'[t] = recv[t]
  BY <1>1, <1>2 DEF Announcing
<1>3. CASE AcceptConnection
  <2> DEFINE c == Head(backlog)
  <2>1. backlog # <<>> /\ recv' = [recv EXCEPT ![c].pc = "start"]
    BY <1>3 DEF AcceptConnection
  <2>2. c \in Conn /\ 1 \in DOMAIN backlog /\ c = backlog[1]
    BY <1>0, <2>1
  <2>3. recv[c].pc = "none"
    BY <1>0, <2>2 DEF ConnInv
  <2> HIDE DEF c
  <2>4. recv'[t] = recv[t]
    BY <1>0, <1>1, <2>1, <2>2, <2>3
  <2> QED BY <1>2, <2>4
<1>4. ASSUME NEW u \in Conn, RecvStep(u), recv'[t] # recv[t] PROVE Some(eq', JoinsOf(f))
  <2>1. u = t
    <3>1. PICK q : recv' = [recv EXCEPT ![u] = q]
      <4>1. CASE RecvStart(u) \/ RecvHangup(u) \/ RecvMessage(u)
        BY <4>1 DEF RecvStart, RecvHangup, RecvMessage, Post
      <4>2. CASE RecvPost(u)
        BY <4>2 DEF RecvPost
      <4>3. CASE RecvStop(u)
        BY <4>3 DEF RecvStop
      <4> QED BY <1>4, <4>1, <4>2, <4>3 DEF RecvStep
    <3> QED BY <1>0, <1>4, <3>1
  <2>2. RecvPost(t)
    BY <1>1, <1>4, <2>1 DEF RecvStep, RecvStart, RecvHangup, RecvMessage, RecvStop
  <2>3. eq' = Append(eq, recv[t].ev)
    BY <2>2 DEF RecvPost
  <2>4. recv[t].ev \in Events /\ recv[t].ev.id = f /\ recv[t].ev.src \in Conn /\ f # NoFd
    BY <1>1 DEF TypeInv, RecvTypes, Fd, NoFd
  <2>5. recv[t].ev \in JoinsOf(f) /\ recv[t].ev \in GoodEvents
    BY <1>1, <2>4 DEF JoinsOf, GoodEvents
  <2> QED BY <1>0, <2>3, <2>5, SomeAppend
<1> QED BY <1>0, <1>2, <1>3, <1>4 DEF Changes

(* Whether f is new changes by the handling of an event only.              *)
LEMMA NewStays ==
    ASSUME TypeInv, Starting, [Next]_vars, NEW f \in Fd, OneThreadOn(f)', ~HandleEvent
    PROVE  New(f)' <=> New(f)
<1>0. eq \in Seq(GoodEvents) /\ recv \in [Conn -> [pc : {"none", "start", "post", "poll", "done"},
                          fd : Fd \cup {NoFd}, ev : Events, last : BOOLEAN]]
  BY DEF TypeInv, QueueTypes, RecvTypes
<1>1. ASSUME NEW t \in Conn, RecvStart(t), argFd = f PROVE ~Served(f) /\ Announcing(f)'
  <2>1. recv' = [recv EXCEPT ![t] = [pc |-> "post", fd |-> argFd,
                                     ev |-> Event("connected", argFd, t), last |-> FALSE]]
        /\ recv[t].pc = "start"
    BY <1>1 DEF RecvStart, Post
  <2>2. recv'[t].fd = f /\ recv'[t].pc = "post" /\ recv'[t].ev.type = "connected"
        /\ \A u \in Conn : u # t => recv'[u] = recv[u]
    BY <1>0, <1>1, <2>1 DEF Event
  <2>3. \A u \in Conn : u # t => recv[u].fd # f
    BY <2>2 DEF OneThreadOn
  <2>4. recv[t].fd # f
    BY <2>1 DEF Starting, Fd, NoFd
  <2>5. ~Served(f)
    BY <2>3, <2>4 DEF Served
  <2> QED BY <2>2, <2>5 DEF Announcing
<1>2. Served(f)' => Served(f) \/ \E t \in Conn : RecvStart(t) /\ argFd = f
  <2> SUFFICES ASSUME NEW t \in Conn, recv'[t].fd = f, recv[t].fd # f PROVE RecvStart(t) /\ argFd = f
    BY DEF Served
  <2>1. RecvStart(t)
    BY FdTaken
  <2>2. recv' = [recv EXCEPT ![t] = [pc |-> "post", fd |-> argFd,
                                     ev |-> Event("connected", argFd, t), last |-> FALSE]]
    BY <2>1 DEF RecvStart, Post
  <2> QED BY <1>0, <2>1, <2>2
<1>3. Served(f) => Served(f)'
  BY ServedStays
<1>4. Announcing(f)' => Announcing(f) \/ \E t \in Conn : RecvStart(t) /\ argFd = f
  BY AnnouncingStep
<1>5. Announcing(f) => Announcing(f)' \/ Some(eq', JoinsOf(f))
  BY AnnouncingEnds
<1>6. /\ Some(eq, JoinsOf(f)) => Some(eq', JoinsOf(f))
      /\ Some(eq', JoinsOf(f)) => Some(eq, JoinsOf(f)) \/ Announcing(f)
  <2>1. CASE UNCHANGED eq
    BY <2>1
  <2>2. ASSUME NEW t \in Conn, RecvPost(t), eq' = Append(eq, recv[t].ev), recv[t].ev \in GoodEvents,
               recv[t].ev.id = recv[t].fd
        PROVE  /\ Some(eq, JoinsOf(f)) => Some(eq', JoinsOf(f))
               /\ Some(eq', JoinsOf(f)) => Some(eq, JoinsOf(f)) \/ Announcing(f)
    <3>1. Some(eq', JoinsOf(f)) <=> Some(eq, JoinsOf(f)) \/ recv[t].ev \in JoinsOf(f)
      BY <1>0, <2>2, SomeAppend
    <3>2. recv[t].pc = "post"
      BY <2>2 DEF RecvPost
    <3>3. recv[t].ev \in JoinsOf(f) => Announcing(f)
      BY <2>2, <3>2 DEF JoinsOf, Announcing
    <3> QED BY <3>1, <3>3
  <2>3. ASSUME NEW e \in GoodEvents, e.type \notin FromClients, eq' = Append(eq, e)
        PROVE  Some(eq', JoinsOf(f)) <=> Some(eq, JoinsOf(f))
    <3>1. Some(eq', JoinsOf(f)) <=> Some(eq, JoinsOf(f)) \/ e \in JoinsOf(f)
      BY <1>0, <2>3, SomeAppend
    <3>2. e \notin JoinsOf(f)
      BY <2>3 DEF JoinsOf, FromClients
    <3> QED BY <3>1, <3>2
  <2> QED BY <2>1, <2>2, <2>3, EqStep
<1> QED BY <1>1, <1>2, <1>3, <1>4, <1>5, <1>6 DEF New

-----------------------------------------------------------------------------
(* The server goes down once and for all, when main has left the game.     *)
LEMMA DownStep ==
    ASSUME [Next]_vars
    PROVE  /\ (Down' <=> Down) \/ (~Down /\ Down' /\ Stop)
           /\ HandleEvent \/ BroadcastSnapshot \/ Update \/ EndDrain => ~Down /\ ~Down'
           /\ Stop => ~Down
<1>0. Changes
  BY WhoChanges
<1>1. CASE RegisterFirst
  BY <1>1 DEF RegisterFirst, Down, HandleEvent, BroadcastSnapshot, Update, EndDrain, Stop, At
<1>2. CASE UNCHANGED mainPc
  BY <1>2 DEF Down, HandleEvent, BroadcastSnapshot, Update, EndDrain, Stop, At
<1>3. CASE MainStep
  <2>1. CASE Submit
    BY <1>2, <2>1 DEF Submit
  <2>2. CASE HandleEvent
    BY <1>2, <2>2 DEF HandleEvent
  <2>3. CASE StartGame \/ AwaitTimeout \/ BroadcastError \/ BroadcastGameOver
    BY <2>3 DEF StartGame, AwaitTimeout, BroadcastError, BroadcastGameOver,
                Down, HandleEvent, BroadcastSnapshot, Update, EndDrain, Stop, At
  <2>4. CASE BroadcastSnapshot \/ Update \/ EndDrain \/ Stop
    BY <2>4 DEF Down, HandleEvent, BroadcastSnapshot, Update, EndDrain, Stop, At
  <2>5. CASE JoinWorker \/ DestroyClose \/ DestroyJoin \/ DestroyDone \/ Exit
    BY <2>5 DEF JoinWorker, DestroyClose, DestroyJoin, DestroyDone, Exit,
                Down, HandleEvent, BroadcastSnapshot, Update, EndDrain, Stop, At
  <2> QED BY <1>3, <2>1, <2>2, <2>3, <2>4, <2>5 DEF MainStep
<1> QED BY <1>0, <1>1, <1>2, <1>3 DEF Changes

(* Who plays has been announced.                                           *)
LEMMA PlayerNotNew ==
    ASSUME ServeInv, NEW f \in Fd, FdOk(f), Plays(players, f)
    PROVE  ~New(f)
BY DEF ServeInv, FdOk, NotYet, New

(* An event is handled: the client is welcomed, or leaves, or nothing is   *)
(* said to it.                                                             *)
LEMMA HandleTalks ==
    ASSUME TypeInv, TypeInv', ServeInv, [Next]_vars, NEW f \in Fd, OneThreadOn(f), OneThreadOn(f)',
           FdOk(f), HandleEvent
    PROVE  Talk(f)!SessionStep
<1> DEFINE ev == Head(eq)
<1>0. /\ players \in Seq(Player) /\ eq \in Seq(GoodEvents) /\ eq # <<>> /\ ev \in GoodEvents
      /\ eq' = Tail(eq) /\ todo = <<>> /\ aq' = aq /\ recv' = recv /\ ~Down /\ ~Down'
  BY EqHead, DownStep DEF HandleEvent, TypeInv, MainTypes, QueueTypes, At, MainOnly
<1>1. /\ Stage(f)  = IF Plays(players, f) THEN "playing" ELSE IF New(f) THEN "new" ELSE "over"
      /\ Stage(f)' = IF Plays(players', f) THEN "playing" ELSE IF New(f)' THEN "new" ELSE "over"
  BY <1>0, StageValue DEF StageIs
<1>2. Asks(f)' = Asks(f) \o Keep(todo', About(f))
  BY <1>0, AsksMore
<1>3. Keep(todo', About(f)) =
             IF ev.id = f /\ ev.type = "connected" THEN <<Act("send_ready", f)>>
             ELSE IF ev.id = f /\ ev.type = "disconnected" THEN <<Act("unregister", f)>>
             ELSE <<>>
  BY HandleSays
<1>4. /\ Some(eq, JoinsOf(f)) <=> Some(eq', JoinsOf(f)) \/ ev \in JoinsOf(f)
      /\ Some(eq, MineOf(f)) <=> Some(eq', MineOf(f)) \/ ev \in MineOf(f)
      /\ ev \in MineOf(f) => ~Some(eq', JoinsOf(f))
  <2>1. NoneAfter(eq, MineOf(f), JoinsOf(f))
    BY DEF FdOk
  <2> QED BY <1>0, <2>1, SomeHead, NoneAfterTail
<1>5. /\ ev \in JoinsOf(f) <=> ev.type = "connected" /\ ev.id = f
      /\ ev.type \in {"connected", "disconnected"} /\ ev.id = f => ev \in MineOf(f)
  <2>1. ev \in Events
    BY <1>0 DEF GoodEvents
  <2> HIDE DEF ev
  <2> QED BY <2>1 DEF JoinsOf, MineOf, FromClients
<1>6. New(f)' <=> ~Served(f) \/ Announcing(f) \/ Some(eq', JoinsOf(f))
  BY <1>0 DEF New, Served, Announcing
<1>7. \/ OnConnected(ev) \/ OnInput(ev) \/ OnPaused(ev) \/ OnResumed(ev)
      \/ OnWaitedResume(ev) \/ OnDisconnected(ev) \/ OnWaitedEnd(ev)
  BY DEF HandleEvent
<1>8. \A a : Asks(f) \o <<>> = Asks(f) /\ Asks(f) \o <<a>> = Append(Asks(f), a)
  BY AsksType
<1>9. Once(players, f)
  BY DEF FdOk
<1> HIDE DEF ev
<1>10. CASE OnConnected(ev) /\ ev.id = f
  <2>1. ev.type = "connected" /\ ev.id \in Fd /\ ev.src \in Conn
    BY <1>0, <1>10 DEF OnConnected, GoodEvents
  <2>2. Some(eq, JoinsOf(f))
    BY <1>4, <1>5, <1>10, <2>1
  <2>3. ~Plays(players, f) /\ New(f)
    BY <2>2 DEF FdOk, NotYet, New
  <2>4. Plays(players', f)
    BY <1>0, <1>10, <2>1, PlaysAdd DEF OnConnected
  <2>5. Asks(f)' = Append(Asks(f), Act("send_ready", f))
    BY <1>2, <1>3, <1>8, <1>10, <2>1
  <2>6. Stage(f) = "new" /\ Stage(f)' = "playing"
    BY <1>1, <2>3, <2>4
  <2> QED BY <1>0, <2>5, <2>6, Saying
<1>11. CASE OnDisconnected(ev) /\ ev.id = f
  <2>1. ev.type = "disconnected"
    BY <1>11 DEF OnDisconnected
  <2>2. Some(eq, MineOf(f)) /\ ~Some(eq', JoinsOf(f)) /\ ev \notin JoinsOf(f)
    BY <1>4, <1>5, <1>11, <2>1
  <2>3. Served(f) /\ ~Announcing(f)
    BY <2>2 DEF ServeInv, FdOk
  <2>4. ~New(f) /\ ~New(f)'
    BY <1>4, <1>6, <2>2, <2>3 DEF New
  <2>5. ~Plays(players', f)
    BY <1>0, <1>9, <1>11, PlaysRemove DEF OnDisconnected
  <2>6. Asks(f)' = Append(Asks(f), Act("unregister", f))
    BY <1>2, <1>3, <1>8, <1>11, <2>1
  <2>7. Stage(f) # "new" /\ Stage(f)' = "over"
    BY <1>1, <2>4, <2>5
  <2> QED BY <1>0, <2>6, <2>7, Saying
<1>12. ASSUME Plays(players', f) <=> Plays(players, f), ev.type \in {"connected", "disconnected"} => ev.id # f
       PROVE  Talk(f)!SessionStep
  <2>1. New(f)' <=> New(f)
    BY <1>4, <1>5, <1>6, <1>12 DEF New
  <2>2. Stage(f)' = Stage(f)
    BY <1>1, <1>12, <2>1
  <2>3. Asks(f)' = Asks(f)
    BY <1>2, <1>3, <1>8, <1>12
  <2> QED BY <1>0, <2>2, <2>3, Staying
<1>13. CASE OnConnected(ev) /\ ev.id # f
  <2>1. ev.type = "connected" /\ ev.id \in Fd /\ ev.src \in Conn
    BY <1>0, <1>13 DEF OnConnected, GoodEvents
  <2>2. Plays(players', f) <=> Plays(players, f)
    BY <1>0, <1>13, <2>1, PlaysAdd DEF OnConnected
  <2> QED BY <1>12, <1>13, <2>2
<1>14. CASE OnDisconnected(ev) /\ ev.id # f
  <2>1. Plays(players', f) <=> Plays(players, f)
    BY <1>0, <1>9, <1>14, PlaysRemove, PlaysOthers DEF OnDisconnected
  <2> QED BY <1>12, <1>14, <2>1
<1>15. CASE OnInput(ev) \/ OnWaitedEnd(ev)
  <2>1. players' = players /\ ev.type \notin {"connected", "disconnected"}
    BY <1>15 DEF OnInput, OnWaitedEnd
  <2> QED BY <1>12, <2>1
<1>16. CASE OnPaused(ev) \/ OnResumed(ev) \/ OnWaitedResume(ev)
  <2>1. SameIds(players, players')
    BY <1>0, <1>16, PauseValue, ScheduleValue, ResumeValue
    DEF OnPaused, OnResumed, OnWaitedResume, Others, SameIds, Player
  <2>2. ev.type \notin {"connected", "disconnected"}
    BY <1>16 DEF OnPaused, OnResumed, OnWaitedResume
  <2>3. Plays(players', f) <=> Plays(players, f)
    BY <2>1, PlaysSame
  <2> QED BY <1>12, <2>2, <2>3
<1> QED BY <1>7, <1>10, <1>11, <1>13, <1>14, <1>15, <1>16

(* A tick: a state for who plays, GAME_OVER for who dies.                  *)
LEMMA TickTalks ==
    ASSUME TypeInv, TypeInv', ServeInv, [Next]_vars, NEW f \in Fd, OneThreadOn(f), OneThreadOn(f)',
           FdOk(f), BroadcastSnapshot \/ Update \/ EndDrain
    PROVE  Talk(f)!SessionStep
<1>0. /\ todo = <<>> /\ UNCHANGED <<aq, eq, recv>> /\ todo' \in Seq(GoodActions)
      /\ Once(players, f) /\ ~Down /\ ~Down'
  BY DownStep DEF BroadcastSnapshot, Update, EndDrain, At, MainLocal, MainOnly, FdOk, TypeInv, QueueTypes
<1>1. /\ Stage(f)  = IF Plays(players, f) THEN "playing" ELSE IF New(f) THEN "new" ELSE "over"
      /\ Stage(f)' = IF Plays(players', f) THEN "playing" ELSE IF New(f)' THEN "new" ELSE "over"
  BY <1>0, StageValue DEF StageIs
<1>2. Asks(f)' = Asks(f) \o Keep(todo', About(f))
  BY <1>0, AsksMore
<1>3. \A a : Asks(f) \o <<>> = Asks(f) /\ Asks(f) \o <<a>> = Append(Asks(f), a)
  BY AsksType
<1>4. New(f)' <=> New(f)
  BY <1>0 DEF New, Served, Announcing
<1>5. ASSUME Keep(todo', About(f)) = <<>>, Plays(players', f) <=> Plays(players, f)
      PROVE  Talk(f)!SessionStep
  <2>1. Asks(f)' = Asks(f) /\ Stage(f)' = Stage(f)
    BY <1>1, <1>2, <1>3, <1>4, <1>5
  <2> QED BY <1>0, <2>1, Staying
<1>6. CASE BroadcastSnapshot
  <2>1. players' = players
    BY <1>6 DEF BroadcastSnapshot, gameVars
  <2>2. Keep(todo', About(f)) = IF Plays(players, f) THEN <<Act("send_state", f)>> ELSE <<>>
    BY <1>0, <1>6, SnapshotSays
  <2>3. CASE Plays(players, f)
    <3>1. Asks(f)' = Append(Asks(f), Act("send_state", f)) /\ Stage(f) = "playing" /\ Stage(f)' = "playing"
      BY <1>1, <1>2, <1>3, <2>1, <2>2, <2>3
    <3> QED BY <1>0, <3>1, Saying
  <2> QED BY <1>5, <2>1, <2>2, <2>3
<1>7. CASE Update
  <2>1. \/ /\ Keep(todo', About(f)) = <<Act("send_over", f)>>
           /\ Plays(players, f) /\ ~Plays(players', f)
        \/ Keep(todo', About(f)) = <<>> /\ (Plays(players', f) <=> Plays(players, f))
    BY <1>0, <1>7, UpdateSays
  <2>2. CASE /\ Keep(todo', About(f)) = <<Act("send_over", f)>>
             /\ Plays(players, f) /\ ~Plays(players', f)
    <3>1. ~New(f)
      BY <2>2, PlayerNotNew
    <3>2. Asks(f)' = Append(Asks(f), Act("send_over", f)) /\ Stage(f) = "playing" /\ Stage(f)' = "over"
      BY <1>1, <1>2, <1>3, <1>4, <2>2, <3>1
    <3> QED BY <1>0, <3>2, Saying
  <2> QED BY <1>5, <2>1, <2>2
<1>8. CASE EndDrain
  <2>1. players' = players
    BY <1>8 DEF EndDrain
  <2> QED BY <1>5, <1>8, <2>1, EndSays
<1> QED BY <1>6, <1>7, <1>8

(* What main has not asked for: the worker does what was asked first, or   *)
(* nothing happens to the talk, or the server goes down.                   *)
LEMMA OthersTalk ==
    ASSUME TypeInv, TypeInv', Starting, [Next]_vars, NEW f \in Fd, OneThreadOn(f), OneThreadOn(f)',
           ~HandleEvent, ~BroadcastSnapshot, ~Update, ~EndDrain
    PROVE  Talk(f)!SessionStep
<1>0. Changes /\ StageIs(f) /\ StageIs(f)' /\ (New(f)' <=> New(f))
  BY WhoChanges, StageValue, NewStays
<1>1. Asks(f)' = Asks(f) \/ (Asks(f) # <<>> /\ Asks(f)' = Tail(Asks(f)) /\ WorkerExec)
  <2>1. CASE Requests' = Requests
    BY <2>1 DEF Asks, About
  <2>2. CASE Requests # <<>> /\ Requests' = Tail(Requests) /\ WorkerExec
    BY <2>2, AsksLess
  <2> QED BY <2>1, <2>2, RequestsStep
<1>2. CASE Stop
  <2>1. ~Down /\ Down'
    BY <1>2, DownStep DEF Stop, Down
  <2>2. Stage(f)' = "over"
    BY <1>0, <2>1 DEF StageIs
  <2>3. ~WorkerExec
    <3>1. WorkerExec => UNCHANGED mainPc
      BY DEF WorkerExec, WorkerOnly, mainVars
    <3>2. mainPc' # mainPc
      BY <1>2 DEF Stop, At
    <3> QED BY <3>1, <3>2
  <2> QED BY <1>1, <2>1, <2>2, <2>3, GoingDown
<1>3. CASE ~Stop
  <2>1. players' = players /\ (Down' <=> Down)
    BY <1>0, <1>3, DownStep DEF Changes
  <2>2. Stage(f)' = Stage(f)
    BY <1>0, <2>1 DEF StageIs
  <2> QED BY <1>1, <2>1, <2>2, Staying, Doing
<1> QED BY <1>2, <1>3

(* So every step of the server is a step of the session with f.            *)
WordInv == TypeInv /\ PhaseInv /\ FdsInv /\ Starting

LEMMA NextTalks ==
    ASSUME WordInv, TypeInv', [Next]_vars, NEW f \in Fd
    PROVE  Talk(f)!SessionStep
<1>1. CASE ~OneThreadOn(f)'
  BY <1>1, Crossing
<1>2. CASE OneThreadOn(f)'
  <2>1. OneThreadOn(f) /\ TypeInv /\ Starting
    BY <1>2, ServedStays DEF WordInv
  <2>2. CASE HandleEvent \/ BroadcastSnapshot \/ Update \/ EndDrain
    <3>1. ~Down
      BY <2>2, DownStep
    <3>2. mainPc \notin Destroying
      BY <3>1 DEF Down, Destroying
    <3>3. ServeInv /\ FdOk(f)
      BY <2>1, <3>2 DEF WordInv, FdsInv, FdInv
    <3> QED BY <1>2, <2>1, <2>2, <3>3, HandleTalks, TickTalks
  <2>3. CASE ~HandleEvent /\ ~BroadcastSnapshot /\ ~Update /\ ~EndDrain
    BY <1>2, <2>1, <2>3, OthersTalk
  <2> QED BY <2>2, <2>3
<1> QED BY <1>1, <1>2

LEMMA WordInvariant == Spec => []WordInv
<1>1. Init => Starting
  BY DEF Init, Starting, Idle
<1>2. TypeInv /\ Starting /\ [Next]_vars => Starting'
  BY ServeThreads
<1> QED BY <1>1, <1>2, FdsInvariant, PTL DEF Spec, WordInv

LEMMA InitTalks == ASSUME Init, NEW f \in Fd PROVE Talk(f)!SessionInit
<1>1. recv = [c \in Conn |-> Idle] /\ players = <<>> /\ aq = <<>> /\ todo = <<>> /\ mainPc = "accept"
  BY DEF Init
<1>2. \A t \in Conn : recv[t].fd # f
  BY <1>1 DEF Idle, Fd, NoFd
<1>3. Requests = <<>> /\ ~Down /\ Unannounced(f) /\ OneThreadOn(f)
  BY <1>1, <1>2 DEF Requests, Down, Unannounced, OneThreadOn
<1>4. Stage(f) = "new"
  BY <1>1, <1>3 DEF Stage
<1>5. Keep(Requests, About(f)) = <<>>
  BY <1>3, KeepEmpty
<1> QED BY <1>3, <1>4, <1>5 DEF Talk!SessionInit

(* The talk of the server with a client (what handle_event, game_update    *)
(* and game_broadcast_snapshot ask the worker to do about its descriptor)  *)
(* is a session of module Session, as long as one receiving thread only    *)
(* has served the descriptor.                                              *)
THEOREM ImplementsSession == ASSUME NEW f \in Fd PROVE Spec => Talk(f)!SessionSpec
<1>1. Init => Talk(f)!SessionInit
  BY InitTalks
<1>2. WordInv /\ TypeInv' /\ [Next]_vars => [Talk(f)!SessionNext]_(Talk(f)!sessionVars)
  BY NextTalks DEF Talk!SessionStep
<1>3. WordInv => TypeInv
  BY DEF WordInv
<1> QED BY <1>1, <1>2, <1>3, WordInvariant, PTL DEF Spec, Talk!SessionSpec

(* The same with the word kept to all the clients at once, as the run      *)
(* server_multi checks it: whatever handle_event, game_update and          *)
(* game_broadcast_snapshot ask for and exec_action does, each client hears *)
(* READY first, states while it plays, GAME_OVER when it dies, nothing     *)
(* about the game after that, in the order asked and with nothing left out.*)
THEOREM WordKept == Spec => KeepsItsWord
<1>1. Init => \A f \in Fd : Talk(f)!SessionInit
  BY InitTalks
<1>2. WordInv /\ TypeInv' /\ [Next]_vars
        => [UNCHANGED talkVars \/ \A f \in Fd : Talk(f)!SessionStep]_vars
  BY NextTalks
<1>3. WordInv => TypeInv
  BY DEF WordInv
<1> QED BY <1>1, <1>2, <1>3, WordInvariant, PTL DEF Spec, KeepsItsWord
=============================================================================

----------------------------- MODULE ClientProofs -----------------------------
(***************************************************************************)
(* Proofs about Client, for any number of connections, spawned servers and *)
(* messages and any capacity of its queues and its menu stack: the         *)
(* descriptor is that of the last connection, the screen fits the mode,    *)
(* the menu stack is never full, and a player shown as paused is paused    *)
(* for its server.                                                         *)
(*                                                                         *)
(* The inductive invariant is stated about a context record, as the        *)
(* handlers are, so that each handler has a lemma of its own: it leads     *)
(* from a consistent context to consistent ones.  The height of the stack  *)
(* has an invariant of its own (Stack), at the end.                        *)
(***************************************************************************)
EXTENDS Client, TLAPS

Texts == {"none", "time", "file", "create", "join"}

Connection == [server : Spawned \cup {Foreign}, opened : BOOLEAN, up : BOOLEAN,
               unread : Nat, ready : BOOLEAN, paused : BOOLEAN]

Contexts ==
    [mode : Modes, menus : Seq(DOMAIN Buttons), text : Texts,
     fd : Fds \cup {None}, pid : Spawned \cup {None}, run : BOOLEAN,
     sockets : [Fds -> Conns \cup {None}], conn : [Conns -> Connection],
     srv : [Spawned -> {"unborn", "running", "exited", "reaped"}]]

(* socket_fd stands for the newest connection; connections are opened in   *)
(* order, and recv() is at work on one that was opened.                    *)
Wired(c) ==
    /\ c.fd # None => /\ c.sockets[c.fd] # None
                      /\ c.conn[c.sockets[c.fd]].opened
                      /\ \A k \in Conns : c.conn[k].opened => k <= c.sockets[c.fd]
    /\ \A k \in Conns : c.conn[k].opened => \A j \in 1 .. k - 1 : c.conn[j].opened
    /\ recv.conn \in Conns \cup {None}
    /\ recv.conn # None => c.conn[recv.conn].opened

(* What the pause menu says was said to the server.                        *)
Told(c) == c.mode = "paused" /\ c.fd # None => c.conn[c.sockets[c.fd]].paused

(* ScreenMatchesMode, and no prompt beside the pause menu: its buttons ask *)
(* for none, and the keys that open it are those of a game without one.    *)
Shown(c) ==
    /\ c.menus # <<>>
    /\ c.mode = "paused" => c.menus = <<"pause">> /\ c.text = "none"
    /\ c.mode = "menu"   => Range(c.menus) \cap {"pause", "over"} = {}
    /\ c.mode = "over"   => "pause" \notin Range(c.menus)

Consistent(c) == c \in Contexts /\ Wired(c) /\ Told(c) /\ Shown(c)

LEMMA ConsistentInit == Init => Consistent(Ctx)
BY ClientAssumption
   DEF Init, Consistent, Contexts, Wired, Told, Shown, Ctx, Connection, Modes, Texts,
       Unopened, AtLoop, Conns, Fds, None, Foreign, Buttons, Range

-----------------------------------------------------------------------------
(* The menu stack.                                                         *)

LEMMA AppendedRange ==
    ASSUME NEW S, NEW s \in Seq(S), NEW e \in S
    PROVE  /\ Append(s, e) \in Seq(S)
           /\ Append(s, e) # <<>>
           /\ Range(Append(s, e)) = Range(s) \cup {e}
<1>1. /\ Len(Append(s, e)) = Len(s) + 1
      /\ Append(s, e)[Len(s) + 1] = e
      /\ \A i \in 1 .. Len(s) : Append(s, e)[i] = s[i]
      /\ Len(s) \in Nat /\ DOMAIN s = 1 .. Len(s)
      /\ DOMAIN Append(s, e) = 1 .. Len(s) + 1
  OBVIOUS
<1>2. Range(Append(s, e)) = Range(s) \cup {e}
  <2>1. ASSUME NEW x \in Range(Append(s, e)) PROVE x \in Range(s) \cup {e}
    <3>1. PICK i \in 1 .. Len(s) + 1 : x = Append(s, e)[i]
      BY <1>1, <2>1 DEF Range
    <3> QED
      BY <1>1, <3>1 DEF Range
  <2>2. ASSUME NEW x \in Range(s) PROVE x \in Range(Append(s, e))
    <3>1. PICK i \in 1 .. Len(s) : x = s[i]
      BY <1>1, <2>2 DEF Range
    <3>2. i \in DOMAIN Append(s, e) /\ x = Append(s, e)[i]
      BY <1>1, <3>1
    <3> QED
      BY <3>2 DEF Range
  <2>3. e \in Range(Append(s, e))
    <3>1. Len(s) + 1 \in DOMAIN Append(s, e) /\ e = Append(s, e)[Len(s) + 1]
      BY <1>1
    <3> QED
      BY <3>1 DEF Range
  <2> QED
    BY <2>1, <2>2, <2>3
<1> QED
  BY <1>1, <1>2

LEMMA FrontRange ==
    ASSUME NEW S, NEW s \in Seq(S), Len(s) > 1
    PROVE  /\ Front(s) \in Seq(S)
           /\ Front(s) # <<>>
           /\ Range(Front(s)) \subseteq Range(s)
<1>1. /\ Len(Front(s)) = Len(s) - 1 /\ Len(s) \in Nat
      /\ DOMAIN Front(s) = 1 .. Len(s) - 1 /\ DOMAIN s = 1 .. Len(s)
      /\ \A i \in 1 .. Len(s) - 1 : Front(s)[i] = s[i]
      /\ Front(s) \in Seq(S)
  BY DEF Front
<1>2. ASSUME NEW x \in Range(Front(s)) PROVE x \in Range(s)
  <2>1. PICK i \in 1 .. Len(s) - 1 : x = Front(s)[i]
    BY <1>1, <1>2 DEF Range
  <2>2. i \in DOMAIN s /\ x = s[i]
    BY <1>1, <2>1
  <2> QED
    BY <2>2 DEF Range
<1> QED
  BY <1>1, <1>2

LEMMA NotAlone ==
    ASSUME NEW S, NEW s \in Seq(S), Len(s) > 1, NEW e
    PROVE  s # <<e>>
<1>1. \A n \in Nat : n > 1 => n # 1
  OBVIOUS
<1>2. Len(s) \in Nat /\ Len(<<e>>) = 1
  OBVIOUS
<1> QED
  BY <1>1, <1>2, Zenon

(* The menus that may be shown or pushed outside the pause.                *)
PlainMenus == DOMAIN Buttons \ {"pause", "over"}

(* Pushing onto a stack outside the pause, and popping, keep a context     *)
(* consistent and change the menus only.                                   *)
LEMMA PushKeeps ==
    ASSUME NEW c, Consistent(c), c.mode # "paused", NEW menu \in PlainMenus
    PROVE  /\ Consistent(Push(c, menu))
           /\ Push(c, menu).mode = c.mode
           /\ Push(c, menu).fd = c.fd
<1>1. /\ Append(c.menus, menu) \in Seq(DOMAIN Buttons)
      /\ Append(c.menus, menu) # <<>>
      /\ Range(Append(c.menus, menu)) = Range(c.menus) \cup {menu}
  <2>1. c.menus \in Seq(DOMAIN Buttons) /\ menu \in DOMAIN Buttons
    BY DEF Consistent, Contexts, PlainMenus
  <2> QED
    BY <2>1, AppendedRange
<1>2. CASE Len(c.menus) < MenuStackMax
  <2> DEFINE d == [c EXCEPT !.menus = Append(c.menus, menu)]
  <2>1. Push(c, menu) = d
    BY <1>2 DEF Push
  <2>2. d \in Contexts /\ Wired(d) /\ Told(d)
    BY <1>1 DEF Consistent, Contexts, Wired, Told
  <2>3. Shown(d)
    BY <1>1 DEF Consistent, Contexts, Shown, PlainMenus
  <2> QED
    BY <2>1, <2>2, <2>3 DEF Consistent, Contexts
<1>3. CASE ~(Len(c.menus) < MenuStackMax)
  BY <1>3 DEF Push
<1> QED
  BY <1>2, <1>3

LEMMA PopKeeps ==
    ASSUME NEW c, Consistent(c)
    PROVE  /\ Consistent(Pop(c))
           /\ Pop(c).fd = c.fd /\ Pop(c).sockets = c.sockets
           /\ Pop(c).mode = c.mode
<1>1. CASE Len(c.menus) > 1
  <2> DEFINE d == [c EXCEPT !.menus = Front(c.menus)]
  <2>1. Pop(c) = d
    BY <1>1 DEF Pop
  <2>2. /\ Front(c.menus) \in Seq(DOMAIN Buttons)
        /\ Front(c.menus) # <<>>
        /\ Range(Front(c.menus)) \subseteq Range(c.menus)
    BY <1>1, FrontRange DEF Consistent, Contexts
  <2>3. c.mode # "paused"
    BY <1>1, NotAlone DEF Consistent, Contexts, Shown
  <2>4. d \in Contexts /\ Wired(d) /\ Told(d)
    BY <2>2 DEF Consistent, Contexts, Wired, Told
  <2>5. Shown(d)
    BY <2>2, <2>3 DEF Consistent, Contexts, Shown
  <2>6. d.fd = c.fd /\ d.sockets = c.sockets /\ d.mode = c.mode
    BY DEF Consistent, Contexts
  <2> QED
    BY <2>1, <2>4, <2>5, <2>6 DEF Consistent
<1>2. CASE ~(Len(c.menus) > 1)
  BY <1>2 DEF Pop
<1> QED
  BY <1>1, <1>2

(* Showing a menu leaves it alone on the stack.                            *)
LEMMA ShowIs ==
    ASSUME NEW c \in Contexts, NEW menu \in DOMAIN Buttons
    PROVE  /\ Show(c, menu) = [c EXCEPT !.menus = <<menu>>]
           /\ <<menu>> \in Seq(DOMAIN Buttons)
           /\ Range(<<menu>>) = {menu}
<1> DEFINE d == [c EXCEPT !.menus = <<>>]
<1>1. Len(<<>>) < MenuStackMax
  BY ClientAssumption
<1>2. d.menus = <<>> /\ [d EXCEPT !.menus = <<menu>>] = [c EXCEPT !.menus = <<menu>>]
  BY DEF Contexts
<1>3. Append(<<>>, menu) = <<menu>> /\ <<menu>> \in Seq(DOMAIN Buttons)
  OBVIOUS
<1>4. Range(<<menu>>) = {menu}
  BY DEF Range
<1> QED
  BY <1>1, <1>2, <1>3, <1>4 DEF Show, Push

LEMMA ShowInKeeps ==
    ASSUME NEW c, Consistent(c), NEW m \in {"menu", "over"},
           NEW menu \in PlainMenus \cup {"over"}, menu = "over" => m = "over"
    PROVE  /\ Consistent(ShowIn(m, c, menu))
           /\ ShowIn(m, c, menu).mode # "paused"
<1> DEFINE d == [c EXCEPT !.mode = m]
           e == [d EXCEPT !.menus = <<menu>>]
<1>1. d \in Contexts /\ menu \in DOMAIN Buttons
  BY DEF Consistent, Contexts, Modes, PlainMenus, Buttons
<1>2. /\ ShowIn(m, c, menu) = e
      /\ <<menu>> \in Seq(DOMAIN Buttons)
      /\ Range(<<menu>>) = {menu}
  BY <1>1, ShowIs DEF ShowIn
<1>3. e \in Contexts /\ Wired(e) /\ Told(e)
  BY <1>1, <1>2 DEF Consistent, Contexts, Wired, Told
<1>4. e.mode = m /\ e.menus = <<menu>>
  BY DEF Consistent, Contexts
<1>5. Shown(e)
  BY <1>2, <1>4 DEF Shown, PlainMenus
<1> QED
  BY <1>2, <1>3, <1>4, <1>5 DEF Consistent

LEMMA ShowKeeps ==
    ASSUME NEW c, Consistent(c), c.mode # "paused", NEW menu \in PlainMenus
    PROVE  /\ Consistent(Show(c, menu))
           /\ Show(c, menu).mode = c.mode
<1> DEFINE e == [c EXCEPT !.menus = <<menu>>]
<1>1. /\ Show(c, menu) = e
      /\ <<menu>> \in Seq(DOMAIN Buttons)
      /\ Range(<<menu>>) = {menu}
  BY ShowIs DEF Consistent, PlainMenus
<1>2. e \in Contexts /\ Wired(e) /\ Told(e)
  BY <1>1 DEF Consistent, Contexts, Wired, Told
<1>3. e.mode = c.mode /\ e.menus = <<menu>>
  BY DEF Consistent, Contexts
<1>4. Shown(e)
  BY <1>1, <1>3 DEF Shown, PlainMenus
<1> QED
  BY <1>1, <1>2, <1>3, <1>4 DEF Consistent

-----------------------------------------------------------------------------
(* The connection.                                                         *)

LEMMA DisconnectKeeps ==
    ASSUME NEW c, Consistent(c)
    PROVE  /\ Consistent(Disconnect(c))
           /\ Disconnect(c).fd = None
           /\ Disconnect(c).mode = c.mode
<1>1. CASE c.fd = None
  BY <1>1 DEF Disconnect
<1>2. CASE c.fd # None
  <2> DEFINE k == c.sockets[c.fd]
             r == IF recv.conn = k THEN c.conn[k] ELSE Gone
             d == [c EXCEPT !.sockets[c.fd] = None, !.fd = None, !.conn[k] = r]
  <2>1. Disconnect(c) = d
    BY <1>2 DEF Disconnect
  <2>2. c.fd \in Fds /\ k \in Conns /\ c.conn[k] \in Connection /\ c.conn[k].opened
    BY <1>2 DEF Consistent, Contexts, Wired
  <2>3. Gone \in Connection /\ Gone.opened
    BY DEF Gone, Unopened, Connection, Foreign
  <2>4. r \in Connection /\ r.opened
    BY <2>2, <2>3
  <2> HIDE DEF k, r
  <2>5. /\ d.sockets = [c.sockets EXCEPT ![c.fd] = None] /\ d.fd = None
        /\ d.conn = [c.conn EXCEPT ![k] = r]
        /\ d.mode = c.mode /\ d.menus = c.menus /\ d.text = c.text
    BY DEF Consistent, Contexts
  <2>6. d \in Contexts
    BY <2>2, <2>4 DEF Consistent, Contexts, None
  <2>7. Wired(d) /\ Told(d) /\ Shown(d)
    BY <2>2, <2>4, <2>5 DEF Consistent, Contexts, Wired, Told, Shown
  <2> QED
    BY <2>1, <2>5, <2>6, <2>7 DEF Consistent
<1> QED
  BY <1>1, <1>2

(* A new connection is the newest, and PAUSE was not said on it: nothing   *)
(* connects while the pause menu is there.                                 *)
LEMMA ConnectsKeeps ==
    ASSUME NEW c, Consistent(c), c.mode # "paused", NEW s \in Spawned \cup {Foreign},
           NEW d \in Connects(c, s)
    PROVE  Consistent(d) /\ d.mode = c.mode
<1> DEFINE new == [Unopened EXCEPT !.server = s, !.opened = TRUE, !.up = TRUE]
<1> HIDE DEF new
<1>1. PICK f \in LowestFree(c), k \in NextConn(c) : d = Opens(c, s, f, k)
  BY DEF Connects
<1>0. d = [c EXCEPT !.fd = f, !.sockets[f] = k, !.conn[k] = new]
  BY <1>1 DEF Opens, new
<1>2. new \in Connection /\ new.opened
  BY DEF new, Unopened, Connection, Foreign
<1>3. /\ f \in Fds /\ k \in Conns
      /\ ~c.conn[k].opened /\ \A j \in 1 .. k - 1 : c.conn[j].opened
  BY DEF LowestFree, NextConn
<1>4. /\ d.sockets = [c.sockets EXCEPT ![f] = k] /\ d.fd = f
      /\ d.conn = [c.conn EXCEPT ![k] = new]
      /\ d.mode = c.mode /\ d.menus = c.menus /\ d.text = c.text
  BY <1>0 DEF Consistent, Contexts
<1>5. d \in Contexts
  BY <1>0, <1>2, <1>3 DEF Consistent, Contexts
<1>6. /\ d.sockets[d.fd] = k
      /\ d.conn[k].opened
      /\ \A j \in Conns \ {k} : d.conn[j] = c.conn[j]
  BY <1>2, <1>3, <1>4 DEF Consistent, Contexts
<1>7. \A j \in Conns : d.conn[j].opened => j <= k
  BY <1>3, <1>6 DEF Consistent, Wired, Conns
<1>8. \A j \in Conns : d.conn[j].opened => \A i \in 1 .. j - 1 : d.conn[i].opened
  BY <1>3, <1>6, ClientAssumption DEF Consistent, Wired, Conns
<1>9. Wired(d)
  BY <1>3, <1>4, <1>6, <1>7, <1>8 DEF Consistent, Wired, Conns, None
<1> QED
  BY <1>4, <1>5, <1>9 DEF Consistent, Told, Shown

(* Fields that no part of the invariant but the type looks at.             *)
LEMMA SpawnKeeps ==
    ASSUME NEW c, Consistent(c), NEW p \in Spawned \cup {None}, NEW s \in Spawned,
           NEW state \in {"running", "reaped"}
    PROVE  /\ Consistent([c EXCEPT !.pid = p, !.srv[s] = state])
           /\ [c EXCEPT !.pid = p, !.srv[s] = state].mode = c.mode
BY DEF Consistent, Contexts, Wired, Told, Shown

LEMMA SpawnFailsKeeps ==
    ASSUME NEW c, Consistent(c), NEW d \in SpawnFails(c)
    PROVE  Consistent(d) /\ d.mode = c.mode
<1>1. CASE d # c
  <2>1. PICK s \in Spawned : d = [c EXCEPT !.pid = s, !.srv[s] = "running"]
    BY <1>1 DEF SpawnFails
  <2> QED
    BY <2>1, SpawnKeeps
<1> QED
  BY <1>1

LEMMA SpawnConnectsKeeps ==
    ASSUME NEW c, Consistent(c), c.mode # "paused", NEW d \in SpawnConnects(c)
    PROVE  Consistent(d) /\ d.mode = c.mode
<1>1. PICK s \in Spawned : d \in Connects([c EXCEPT !.pid = s, !.srv[s] = "running"], s)
  BY DEF SpawnConnects
<1> DEFINE e == [c EXCEPT !.pid = s, !.srv[s] = "running"]
<1>2. Consistent(e) /\ e.mode = c.mode
  BY SpawnKeeps
<1> HIDE DEF e
<1> QED
  BY <1>1, <1>2, ConnectsKeeps DEF e

LEMMA ServerGoneKeeps ==
    ASSUME NEW c, Consistent(c)
    PROVE  Consistent(ServerGone(c))
<1>1. Consistent(Disconnect(c))
  BY DisconnectKeeps
<1>2. Consistent(ShowIn("menu", Disconnect(c), "error"))
  BY <1>1, ShowInKeeps DEF PlainMenus, Buttons
<1> QED
  BY <1>1, <1>2 DEF ServerGone

LEMMA PollServerExitKeeps ==
    ASSUME NEW c, Consistent(c)
    PROVE  Consistent(PollServerExit(c))
<1>1. CASE c.pid # None /\ c.srv[c.pid] = "exited"
  <2> DEFINE d == [c EXCEPT !.pid = None, !.srv[c.pid] = "reaped"]
  <2>1. c.pid \in Spawned
    BY <1>1 DEF Consistent, Contexts
  <2>2. Consistent(d)
    BY <2>1, SpawnKeeps
  <2> HIDE DEF d
  <2>3. Consistent(ServerGone(d))
    BY <2>2, ServerGoneKeeps
  <2> QED
    BY <1>1, <2>3 DEF PollServerExit, d
<1> QED
  BY <1>1 DEF PollServerExit

-----------------------------------------------------------------------------
(* Buttons, texts, keys and messages.                                      *)

LEMMA ToMainMenuKeeps ==
    ASSUME NEW c, Consistent(c)
    PROVE  Consistent(ToMainMenu(c))
BY DisconnectKeeps, ShowInKeeps DEF ToMainMenu, PlainMenus, Buttons

(* A prompt opens outside the pause, and may close anywhere.               *)
LEMMA AsksKeeps ==
    ASSUME NEW c, Consistent(c), NEW callback \in Texts,
           c.mode = "paused" => callback = "none"
    PROVE  Consistent(Asks(c, callback))
BY DEF Asks, Consistent, Contexts, Wired, Told, Shown

LEMMA ResumeKeeps ==
    ASSUME NEW c, Consistent(c)
    PROVE  Consistent(Resume(c))
<1> DEFINE p == Pop(c)
<1>1. Consistent(p)
  BY PopKeeps
<1> HIDE DEF p
<1>2. CASE p.fd = None
  <2>1. Resume(c) = [p EXCEPT !.mode = "playing"]
    BY <1>2 DEF Resume, SaysPaused, p
  <2> QED
    BY <1>1, <2>1 DEF Consistent, Contexts, Wired, Told, Shown, Modes
<1>3. CASE p.fd # None
  <2> DEFINE k == p.sockets[p.fd]
             r == [p.conn[k] EXCEPT !.paused = FALSE]
             d == [p EXCEPT !.conn[k] = r, !.mode = "playing"]
  <2>1. k \in Conns /\ p.conn[k] \in Connection
    BY <1>1, <1>3 DEF Consistent, Contexts, Wired
  <2>2. r \in Connection /\ r.opened = p.conn[k].opened
    BY <2>1 DEF Connection
  <2>3. Resume(c) = d
    BY <1>1, <1>3 DEF Resume, SaysPaused, p, Consistent, Contexts
  <2> HIDE DEF k, r
  <2>4. /\ d.conn = [p.conn EXCEPT ![k] = r] /\ d.mode = "playing"
        /\ d.fd = p.fd /\ d.sockets = p.sockets
        /\ d.menus = p.menus /\ d.text = p.text
    BY <1>1 DEF Consistent, Contexts
  <2>5. d \in Contexts
    BY <1>1, <2>1, <2>2 DEF Consistent, Contexts, Modes
  <2>6. Wired(d)
    BY <1>1, <2>1, <2>2, <2>4 DEF Consistent, Contexts, Wired
  <2>7. Told(d) /\ Shown(d)
    BY <1>1, <2>4 DEF Consistent, Told, Shown
  <2> QED
    BY <2>3, <2>5, <2>6, <2>7 DEF Consistent
<1> QED
  BY <1>2, <1>3

(* The pause: the server is told before the menu is there.                 *)
LEMMA GameKeyKeeps ==
    ASSUME NEW c, Consistent(c), c.text = "none", NEW key, NEW d \in GameKey(c, key)
    PROVE  Consistent(d)
<1>1. CASE d # c
  <2> DEFINE p == [c EXCEPT !.mode = "paused"]
             q == SaysPaused(p, TRUE)
  <2>1. d = Show(q, "pause")
    BY <1>1 DEF GameKey
  <2>2. p \in Contexts /\ Wired(p) /\ p.mode = "paused" /\ p.text = "none"
    BY DEF Consistent, Contexts, Wired, Modes
  <2> HIDE DEF p
  <2>3. /\ q \in Contexts /\ Wired(q)
        /\ q.mode = "paused" /\ q.text = "none" /\ Told(q)
    <3>1. CASE p.fd = None
      BY <2>2, <3>1 DEF SaysPaused, Told
    <3>2. CASE p.fd # None
      <4> DEFINE k == p.sockets[p.fd]
                 r == [p.conn[k] EXCEPT !.paused = TRUE]
                 e == [p EXCEPT !.conn[k] = r]
      <4>1. k \in Conns /\ p.conn[k] \in Connection
        BY <2>2, <3>2 DEF Contexts, Wired
      <4>2. r \in Connection /\ r.opened = p.conn[k].opened /\ r.paused
        BY <4>1 DEF Connection
      <4>3. q = e
        BY <2>2, <3>2 DEF SaysPaused, Contexts
      <4> HIDE DEF k, r
      <4>4. /\ e.conn = [p.conn EXCEPT ![k] = r] /\ e.mode = p.mode
            /\ e.fd = p.fd /\ e.sockets = p.sockets /\ e.text = p.text
        BY <2>2 DEF Contexts
      <4>5. e \in Contexts
        BY <2>2, <4>1, <4>2 DEF Contexts
      <4>6. Wired(e)
        BY <2>2, <4>1, <4>2, <4>4 DEF Contexts, Wired
      <4>7. Told(e)
        BY <2>2, <4>1, <4>2, <4>4 DEF Contexts, Told, k
      <4> QED
        BY <2>2, <4>3, <4>4, <4>5, <4>6, <4>7
    <3> QED
      BY <3>1, <3>2
  <2> HIDE DEF q
  <2> DEFINE e == [q EXCEPT !.menus = <<"pause">>]
  <2>4. d = e /\ <<"pause">> \in Seq(DOMAIN Buttons)
    BY <2>1, <2>3, ShowIs DEF Buttons
  <2>5. e \in Contexts /\ Wired(e) /\ Told(e)
    BY <2>3, <2>4 DEF Contexts, Wired, Told
  <2>6. e.mode = "paused" /\ e.text = "none" /\ e.menus = <<"pause">>
    BY <2>3 DEF Contexts
  <2>7. Shown(e)
    BY <2>6 DEF Shown
  <2> QED
    BY <2>4, <2>5, <2>7 DEF Consistent
<1> QED
  BY <1>1

AnyButton == UNION {Buttons[menu] : menu \in DOMAIN Buttons}

(* The buttons within reach of a paused player; none of them connects,     *)
(* asks or pushes.                                                         *)
LeavesPause == {"resume", "main_menu", "back", "exit_game"}

LEMMA PressKeeps ==
    ASSUME NEW c, Consistent(c), NEW button \in AnyButton,
           c.mode = "paused" => button \in LeavesPause,
           NEW d \in Press(c, button)
    PROVE  Consistent(d)
<1> USE DEF LeavesPause
<1>1. button \in {"new_game", "join", "exit_game", "standard", "timed", "back", "easy",
                  "hard", "random", "file", "single", "multi", "resume", "main_menu",
                  "cancel"}
  BY DEF AnyButton, Buttons
<1>2. CASE button = "new_game"
  <2>1. Consistent(Show(c, "main")) /\ Show(c, "main").mode # "paused"
    BY <1>2, ShowKeeps DEF PlainMenus, Buttons
  <2>2. d = Push(Show(c, "main"), "mode")
    BY <1>2 DEF Press
  <2> QED
    BY <2>1, <2>2, PushKeeps DEF PlainMenus, Buttons
<1>3. CASE button \in {"join", "timed", "file", "multi"}
  <2>1. PICK callback \in {"join", "time", "file", "create"} : d = Asks(c, callback)
    BY <1>3 DEF Press
  <2> QED
    BY <1>3, <2>1, AsksKeeps DEF Texts
<1>4. CASE button = "exit_game"
  <2>1. d = [c EXCEPT !.run = FALSE]
    BY <1>4 DEF Press
  <2> QED
    BY <2>1 DEF Consistent, Contexts, Wired, Told, Shown
<1>5. CASE button = "resume"
  <2>1. d = Resume(c)
    BY <1>5 DEF Press
  <2> QED
    BY <2>1, ResumeKeeps
<1>6. CASE button \in {"main_menu", "cancel"}
  <2>1. d = ToMainMenu(c)
    BY <1>6 DEF Press
  <2> QED
    BY <2>1, ToMainMenuKeeps
<1>7. CASE button \in {"standard", "hard", "easy", "random"}
  <2>1. PICK menu \in {"world", "load", "player"} : d = Push(c, menu)
    BY <1>7 DEF Press
  <2> QED
    BY <1>7, <2>1, PushKeeps DEF PlainMenus, Buttons
<1>8. CASE button = "single"
  <2> DEFINE w == Show(c, "waiting")
  <2>1. Consistent(w) /\ w.mode # "paused"
    BY <1>8, ShowKeeps DEF PlainMenus, Buttons
  <2>2. d \in SpawnConnects(w) \/ \E e \in SpawnFails(w) : d = ShowIn("menu", e, "error")
    BY <1>8 DEF Press, SinglePlayer
  <2> HIDE DEF w
  <2>3. ASSUME NEW e \in SpawnFails(w)
        PROVE  Consistent(ShowIn("menu", e, "error"))
    <3>1. Consistent(e)
      BY <2>1, SpawnFailsKeeps
    <3> QED
      BY <3>1, ShowInKeeps DEF PlainMenus, Buttons
  <2> QED
    BY <2>1, <2>2, <2>3, SpawnConnectsKeeps
<1>9. CASE button = "back"
  <2>1. d = Pop(c)
    BY <1>9 DEF Press
  <2> QED
    BY <2>1, PopKeeps
<1> QED
  BY <1>1, <1>2, <1>3, <1>4, <1>5, <1>6, <1>7, <1>8, <1>9

LEMMA SubmitKeeps ==
    ASSUME NEW c, Consistent(c), c.text # "none", NEW d \in Submit(c)
    PROVE  Consistent(d)
<1>1. c.mode # "paused"
  BY DEF Consistent, Shown
<1>2. ASSUME NEW e, Consistent(e), e.mode = c.mode
      PROVE  Consistent(Show(e, "waiting"))
  BY <1>1, <1>2, ShowKeeps DEF PlainMenus, Buttons
<1>3. ASSUME NEW e, Consistent(e)
      PROVE  Consistent(ShowIn("menu", e, "error"))
  BY <1>3, ShowInKeeps DEF PlainMenus, Buttons
<1>4. CASE c.text \in {"time", "file"}
  <2>1. Consistent(Push(c, "world")) /\ Consistent(Push(c, "player"))
    BY <1>1, PushKeeps DEF PlainMenus, Buttons
  <2>2. Consistent(Show(c, "error"))
    BY <1>1, ShowKeeps DEF PlainMenus, Buttons
  <2> QED
    BY <1>4, <2>1, <2>2 DEF Submit
<1>5. CASE c.text = "join"
  <2>1. ASSUME NEW e \in Connects(c, Foreign)
        PROVE  Consistent(Show(e, "waiting"))
    BY <1>1, <1>2, ConnectsKeeps
  <2>2. \/ \E e \in Connects(c, Foreign) : d = Show(e, "waiting")
        \/ d = ShowIn("menu", c, "error")
    BY <1>5 DEF Submit
  <2> QED
    BY <1>3, <2>1, <2>2
<1>6. CASE c.text = "create"
  <2>1. ASSUME NEW e \in SpawnConnects(c)
        PROVE  Consistent(Show(e, "waiting"))
    BY <1>1, <1>2, SpawnConnectsKeeps
  <2>2. ASSUME NEW e \in SpawnFails(c)
        PROVE  Consistent(ShowIn("menu", e, "error"))
    BY <1>3, SpawnFailsKeeps
  <2>3. \/ \E e \in SpawnConnects(c) : d = Show(e, "waiting")
        \/ \E e \in SpawnFails(c) : d = ShowIn("menu", e, "error")
    BY <1>6 DEF Submit
  <2> QED
    BY <2>1, <2>2, <2>3
<1> QED
  BY <1>4, <1>5, <1>6 DEF Consistent, Contexts, Texts

LEMMA HandleKeyKeeps ==
    ASSUME NEW c, Consistent(c), NEW key \in Keys, NEW d \in HandleKey(c, key)
    PROVE  Consistent(d)
<1>1. CASE c.text # "none"
  <2>1. ASSUME NEW e \in Submit(c)
        PROVE  Consistent(Asks(e, "none"))
    <3>1. Consistent(e)
      BY <1>1, SubmitKeeps
    <3> QED
      BY <3>1, AsksKeeps DEF Texts
  <2>2. Consistent(Asks(c, "none"))
    BY AsksKeeps DEF Texts
  <2>3. d \in TextKey(c, key)
    BY <1>1 DEF HandleKey
  <2>4. \/ \E e \in Submit(c) : d = Asks(e, "none")
        \/ d = Asks(c, "none")
        \/ d = c
    BY <2>3 DEF TextKey
  <2> QED
    BY <2>1, <2>2, <2>4
<1>2. CASE c.text = "none" /\ c.mode = "playing"
  BY <1>2, GameKeyKeeps DEF HandleKey
<1>3. CASE c.text = "none" /\ c.mode # "playing"
  <2>1. d \in MenuKey(c, key)
    BY <1>3 DEF HandleKey
  <2>2. Last(c.menus) \in DOMAIN Buttons
    BY DEF Last, Consistent, Contexts, Shown
  <2>3. c.mode = "paused" => Last(c.menus) = "pause"
    BY DEF Last, Consistent, Shown
  <2>4. ASSUME NEW b \in Buttons[Last(c.menus)], d \in Press(c, b)
        PROVE  Consistent(d)
    <3>1. b \in AnyButton
      BY <2>2 DEF AnyButton
    <3>2. c.mode = "paused" => b \in LeavesPause
      BY <2>3 DEF Buttons, LeavesPause
    <3> QED
      BY <2>4, <3>1, <3>2, PressKeeps
  <2>5. ASSUME NEW b \in {"exit_game", "back"}, d \in Press(c, b)
        PROVE  Consistent(d)
    <3>1. b \in AnyButton /\ b \in LeavesPause
      BY DEF AnyButton, LeavesPause, Buttons
    <3> QED
      BY <2>5, <3>1, PressKeeps
  <2> QED
    BY <2>1, <2>4, <2>5 DEF MenuKey
<1> QED
  BY <1>1, <1>2, <1>3

(* READY leads out of the pause without a word to the server, GAME_OVER    *)
(* and ERROR out of any game.                                              *)
LEMMA HandleMsgKeeps ==
    ASSUME NEW c, Consistent(c), NEW type
    PROVE  Consistent(HandleMsg(c, type))
<1>1. Consistent([c EXCEPT !.mode = "playing"])
  BY DEF Consistent, Contexts, Wired, Told, Shown, Modes
<1>2. Consistent(ShowIn("over", c, "over")) /\ Consistent(ShowIn("menu", c, "error"))
  BY ShowInKeeps DEF PlainMenus, Buttons
<1> QED
  BY <1>1, <1>2 DEF HandleMsg

-----------------------------------------------------------------------------
(* Steps.                                                                  *)

LEMMA BecomesKeeps ==
    ASSUME NEW c, Consistent(c), Becomes(c), recv' = recv
    PROVE  Consistent(Ctx)'
<1>1. Ctx' = c
  BY DEF Becomes, Ctx, Consistent, Contexts
<1> QED
  BY <1>1 DEF Consistent, Wired, Told, Shown

LEMMA CtxType ==
    ASSUME Ctx \in Contexts
    PROVE  /\ mode \in Modes /\ menus \in Seq(DOMAIN Buttons) /\ text \in Texts
           /\ fd \in Fds \cup {None} /\ pid \in Spawned \cup {None}
           /\ ctxRunning \in BOOLEAN
           /\ sockets \in [Fds -> Conns \cup {None}] /\ conn \in [Conns -> Connection]
           /\ srv \in [Spawned -> {"unborn", "running", "exited", "reaped"}]
BY DEF Ctx, Contexts

LEMMA CtxTypePrimed ==
    ASSUME mode' \in Modes, menus' \in Seq(DOMAIN Buttons), text' \in Texts,
           fd' \in Fds \cup {None}, pid' \in Spawned \cup {None},
           ctxRunning' \in BOOLEAN,
           sockets' \in [Fds -> Conns \cup {None}], conn' \in [Conns -> Connection],
           srv' \in [Spawned -> {"unborn", "running", "exited", "reaped"}]
    PROVE  Ctx' \in Contexts
BY DEF Ctx, Contexts

(* A step that opens nothing and changes no word on a connection keeps the *)
(* context consistent, whatever else it does to connections.               *)
LEMMA WorldKeeps ==
    ASSUME Consistent(Ctx), UNCHANGED <<ctxVars, sockets>>,
           conn' \in [Conns -> Connection],
           srv' \in [Spawned -> {"unborn", "running", "exited", "reaped"}],
           \A k \in Conns : conn'[k].opened = conn[k].opened,
           fd # None => conn'[sockets[fd]].paused = conn[sockets[fd]].paused,
           recv'.conn \in Conns \cup {None},
           recv'.conn # None => conn[recv'.conn].opened
    PROVE  Consistent(Ctx)'
<1>1. /\ mode' = mode /\ menus' = menus /\ text' = text
      /\ fd' = fd /\ pid' = pid /\ ctxRunning' = ctxRunning /\ sockets' = sockets
  BY DEF ctxVars
<1>2. Ctx' \in Contexts
  BY <1>1, CtxType, CtxTypePrimed DEF Consistent
<1>3. Wired(Ctx)'
  <2>1. /\ fd # None => /\ sockets[fd] \in Conns
                        /\ conn[sockets[fd]].opened
                        /\ \A k \in Conns : conn[k].opened => k <= sockets[fd]
        /\ \A k \in Conns : conn[k].opened => \A j \in 1 .. k - 1 : conn[j].opened
    BY CtxType DEF Consistent, Wired, Ctx
  <2>2. \A k \in Conns : \A j \in 1 .. k - 1 : j \in Conns
    BY ClientAssumption DEF Conns
  <2>3. /\ fd' # None => /\ sockets'[fd'] # None
                         /\ conn'[sockets'[fd']].opened
                         /\ \A k \in Conns : conn'[k].opened => k <= sockets'[fd']
        /\ \A k \in Conns : conn'[k].opened => \A j \in 1 .. k - 1 : conn'[j].opened
    BY <1>1, <2>1, <2>2 DEF Conns, None
  <2>4. recv'.conn # None => conn'[recv'.conn].opened
    OBVIOUS
  <2> QED
    BY <2>3, <2>4 DEF Wired, Ctx
<1>4. Told(Ctx)' /\ Shown(Ctx)'
  BY <1>1 DEF Consistent, Told, Shown, Ctx
<1> QED
  BY <1>2, <1>3, <1>4 DEF Consistent

LEMMA ConsistentStep == Consistent(Ctx) /\ [Next]_vars => Consistent(Ctx)'
<1> SUFFICES ASSUME Consistent(Ctx), [Next]_vars
             PROVE  Consistent(Ctx)'
  OBVIOUS
<1> USE DEF ctxVars, mainVars, queueVars, threadVars, worldVars
<1>0. /\ conn \in [Conns -> Connection]
      /\ srv \in [Spawned -> {"unborn", "running", "exited", "reaped"}]
      /\ recv.conn \in Conns \cup {None}
      /\ recv.conn # None => conn[recv.conn].opened
      /\ fd # None => /\ sockets[fd] \in Conns
                      /\ conn[sockets[fd]].opened
      /\ fd \in Fds \cup {None}
  BY DEF Consistent, Contexts, Wired, Ctx
<1>1. CASE MainKey
  <2>1. PICK key \in Keys : \E c \in HandleKey(Ctx, key) : Becomes(c)
    BY <1>1 DEF MainKey
  <2>2. PICK c \in HandleKey(Ctx, key) : Becomes(c)
    BY <2>1
  <2>3. Consistent(c)
    BY HandleKeyKeeps
  <2> QED
    BY <1>1, <2>2, <2>3, BecomesKeeps DEF MainKey
<1>2. CASE MainMsg
  <2>1. Consistent(HandleMsg(Ctx, Head(msgs)))
    BY HandleMsgKeeps
  <2> QED
    BY <1>2, <2>1, BecomesKeeps DEF MainMsg
<1>3. CASE MainTurns
  <2>1. Consistent(PollServerExit(Ctx))
    BY PollServerExitKeeps
  <2> QED
    BY <1>3, <2>1, BecomesKeeps DEF MainTurns
<1>4. CASE MainJoinRecv
  <2>1. /\ mode' = mode /\ menus' = menus /\ text' = text /\ fd' = None
        /\ pid' = pid /\ ctxRunning' = ctxRunning
        /\ sockets' = [f \in Fds |-> None] /\ conn' = conn /\ srv' = srv
        /\ recv' = recv
    BY <1>4 DEF MainJoinRecv
  <2>2. Ctx' \in Contexts
    BY <2>1, CtxType, CtxTypePrimed DEF Consistent
  <2>3. Wired(Ctx)' /\ Told(Ctx)' /\ Shown(Ctx)'
    BY <2>1 DEF Consistent, Wired, Told, Shown, Ctx
  <2> QED
    BY <2>2, <2>3 DEF Consistent
<1>5. CASE \/ MainKeysDone \/ MainDrain \/ MainStops \/ MainJoinInput
           \/ TypeKey \/ EndOfInput \/ UNCHANGED vars
  <2>1. UNCHANGED <<ctxVars, sockets, conn, srv, recv>>
    BY <1>5 DEF MainKeysDone, MainDrain, MainStops, MainJoinInput, TypeKey, EndOfInput, vars
  <2> QED
    BY <1>0, <2>1, WorldKeeps
<1>6. CASE RecvLoop \/ RecvPoll \/ RecvPost
  <2>1. UNCHANGED <<ctxVars, sockets, conn, srv>>
    BY <1>6 DEF RecvLoop, RecvPoll, RecvPost, RecvOnly
  <2>2. recv'.conn = None
    <3>1. CASE RecvLoop
      BY <3>1 DEF RecvLoop, AtLoop
    <3>2. CASE RecvPoll
      BY <3>2 DEF RecvPoll, AtLoop
    <3>3. CASE RecvPost
      BY <3>3 DEF RecvPost, AtLoop
    <3> QED
      BY <1>6, <3>1, <3>2, <3>3
  <2> QED
    BY <1>0, <2>1, <2>2, WorldKeeps DEF None
<1>7. CASE RecvEnter
  <2>1. /\ UNCHANGED <<ctxVars, sockets, conn, srv>>
        /\ recv' = IF fd = None THEN AtLoop ELSE [recv EXCEPT !.conn = sockets[fd]]
    BY <1>7 DEF RecvEnter, RecvOnly
  <2>2. recv'.conn \in Conns \cup {None} /\ (recv'.conn # None => conn[recv'.conn].opened)
    BY <1>0, <2>1 DEF AtLoop
  <2> QED
    BY <1>0, <2>1, <2>2, WorldKeeps
<1>8. CASE RecvMessage
  <2> DEFINE k == recv.conn
  <2>1. k \in Conns /\ conn[k] \in Connection /\ conn[k].opened
    BY <1>8, <1>0 DEF RecvMessage
  <2>2. PICK r \in Connection :
          /\ r.opened
          /\ (\E f \in Fds : sockets[f] = k) => r.paused = conn[k].paused
          /\ conn' = [conn EXCEPT ![k] = r]
    <3>1. \/ /\ conn[k].unread > 0
             /\ \E m \in MsgTypes : conn' = [conn EXCEPT ![k] = AfterRecv(k, ReadFrom(conn[k], m))]
          \/ conn' = [conn EXCEPT ![k] = AfterRecv(k, conn[k])]
      BY <1>8 DEF RecvMessage
    <3>2. ASSUME NEW c \in Connection, c.opened, c.paused = conn[k].paused
          PROVE  /\ AfterRecv(k, c) \in Connection /\ AfterRecv(k, c).opened
                 /\ (\E f \in Fds : sockets[f] = k)
                      => AfterRecv(k, c).paused = conn[k].paused
      BY <3>2 DEF AfterRecv, Gone, Unopened, Connection, Foreign
    <3>3. ASSUME NEW m \in MsgTypes, conn[k].unread > 0
          PROVE  /\ ReadFrom(conn[k], m) \in Connection /\ ReadFrom(conn[k], m).opened
                 /\ ReadFrom(conn[k], m).paused = conn[k].paused
      <4> DEFINE b == conn[k].ready \/ m = "ready"
                 u == conn[k].unread - 1
      <4>1. b \in BOOLEAN /\ u \in Nat
        BY <2>1, <3>3 DEF Connection
      <4>2. ReadFrom(conn[k], m) = [conn[k] EXCEPT !.unread = u, !.ready = b]
        BY DEF ReadFrom
      <4> HIDE DEF b, u
      <4> QED
        BY <2>1, <4>1, <4>2 DEF Connection
    <3> QED
      BY <2>1, <3>1, <3>2, <3>3
  <2>3. /\ UNCHANGED <<ctxVars, sockets, srv>>
        /\ recv'.conn = None
    <3>1. recv' = AtLoop \/ \E m \in MsgTypes : recv' = [AtLoop EXCEPT !.pc = "post", !.msg = m]
      BY <1>8 DEF RecvMessage
    <3>2. ASSUME NEW m \in MsgTypes, recv' = [AtLoop EXCEPT !.pc = "post", !.msg = m]
          PROVE  recv'.conn = None
      BY <3>2 DEF AtLoop
    <3>3. ASSUME recv' = AtLoop
          PROVE  recv'.conn = None
      BY <3>3 DEF AtLoop
    <3> QED
      BY <1>8, <3>1, <3>2, <3>3 DEF RecvMessage, RecvOnly
  <2>4. fd # None => conn'[sockets[fd]].paused = conn[sockets[fd]].paused
    BY <1>0, <2>1, <2>2
  <2> QED
    BY <1>0, <2>1, <2>2, <2>3, <2>4, WorldKeeps DEF None
<1>9. CASE \E k \in Conns : ServerStep(k)
  <2>1. PICK k \in Conns : ServerStep(k)
    BY <1>9
  <2>2. PICK r \in Connection :
          /\ r.opened = conn[k].opened /\ r.paused = conn[k].paused
          /\ conn' = [conn EXCEPT ![k] = r]
    <3>1. CASE ServerSays(k)
      <4> DEFINE r == [conn[k] EXCEPT !.unread = @ + 1]
      <4>1. r \in Connection /\ r.opened = conn[k].opened /\ r.paused = conn[k].paused
        <5>1. conn[k] \in Connection /\ conn[k].unread + 1 \in Nat
          BY <1>0 DEF Connection
        <5> QED
          BY <5>1 DEF Connection
      <4>2. conn' = [conn EXCEPT ![k] = r]
        BY <3>1 DEF ServerSays
      <4> QED
        BY <4>1, <4>2
    <3>2. CASE ServerCloses(k)
      <4> DEFINE r == [conn[k] EXCEPT !.up = FALSE]
      <4>1. r \in Connection /\ r.opened = conn[k].opened /\ r.paused = conn[k].paused
        <5>1. conn[k] \in Connection
          BY <1>0
        <5> QED
          BY <5>1 DEF Connection
      <4>2. conn' = [conn EXCEPT ![k] = r]
        BY <3>2 DEF ServerCloses
      <4> QED
        BY <4>1, <4>2
    <3> QED
      BY <2>1, <3>1, <3>2 DEF ServerStep
  <2>3. UNCHANGED <<ctxVars, sockets, srv, recv>>
    BY <2>1 DEF ServerStep, ServerSays, ServerCloses, ServerOnly
  <2> QED
    BY <1>0, <2>2, <2>3, WorldKeeps
<1>10. CASE \E s \in Spawned : ServerExits(s)
  <2>1. PICK s \in Spawned : ServerExits(s)
    BY <1>10
  <2>2. /\ conn' \in [Conns -> Connection]
        /\ \A k \in Conns : /\ conn'[k].opened = conn[k].opened
                            /\ conn'[k].paused = conn[k].paused
    <3>1. ASSUME NEW k \in Conns
          PROVE  /\ conn'[k] \in Connection
                 /\ conn'[k].opened = conn[k].opened /\ conn'[k].paused = conn[k].paused
      <4>1. conn[k] \in Connection
        BY <1>0
      <4>2. conn'[k] = conn[k] \/ conn'[k] = [conn[k] EXCEPT !.up = FALSE]
        BY <2>1 DEF ServerExits
      <4> QED
        BY <4>1, <4>2 DEF Connection
    <3>2. conn' = [k \in Conns |-> conn'[k]]
      BY <2>1 DEF ServerExits
    <3> QED
      BY <3>1, <3>2
  <2>3. srv' \in [Spawned -> {"unborn", "running", "exited", "reaped"}]
    BY <1>0, <2>1 DEF ServerExits
  <2>4. UNCHANGED <<ctxVars, sockets, recv>>
    BY <2>1 DEF ServerExits, ServerOnly
  <2> QED
    BY <1>0, <2>2, <2>3, <2>4, WorldKeeps
<1> QED
  BY <1>1, <1>2, <1>3, <1>4, <1>5, <1>6, <1>7, <1>8, <1>9, <1>10
     DEF Next, MainStep, RecvStep

(* Whatever the user, the servers and the scheduler do.                    *)
LEMMA ConsistentAlways == Spec => []Consistent(Ctx)
BY ConsistentInit, ConsistentStep, PTL DEF Spec

(* The client never sends on a closed descriptor or to a former server.    *)
THEOREM NewestConnection == Spec => []SocketFdIsNewest
<1>1. Consistent(Ctx) => SocketFdIsNewest
  BY DEF Consistent, Wired, Ctx, SocketFdIsNewest
<1> QED
  BY <1>1, ConsistentAlways, PTL

(* A paused screen is a paused player.                                     *)
THEOREM PauseIsTold == Spec => []PausedMeansTold
<1>1. Consistent(Ctx) => PausedMeansTold
  BY DEF Consistent, Told, Ctx, PausedMeansTold
<1> QED
  BY <1>1, ConsistentAlways, PTL

(* The menus fit the mode.                                                 *)
THEOREM ScreenFits == Spec => []ScreenMatchesMode
<1>1. Consistent(Ctx) => ScreenMatchesMode
  BY DEF Consistent, Shown, Ctx, ScreenMatchesMode
<1> QED
  BY <1>1, ConsistentAlways, PTL

-----------------------------------------------------------------------------
(* The type of the rest of the state: the queues and the two threads.      *)
RecvThread ==
    [pc : {"loop", "poll", "recv", "post", "done"}, fd : Fds \cup {None},
     conn : Conns \cup {None}, msg : MsgTypes \cup {"none"}]

Threads ==
    /\ keys \in 0 .. MaxKeys
    /\ msgs \in Seq(MsgTypes \cup {"none"}) /\ Len(msgs) <= MaxMessages
    /\ input \in {"getchar", "done"}
    /\ recv \in RecvThread

LEMMA ThreadsInit == Init => Threads
BY ClientAssumption DEF Init, Threads, RecvThread, AtLoop, Fds, Conns, None

LEMMA ThreadsStep == Consistent(Ctx) /\ Threads /\ [Next]_vars => Threads'
<1> SUFFICES ASSUME Consistent(Ctx), Threads, [Next]_vars
             PROVE  Threads'
  OBVIOUS
<1> USE ClientAssumption DEF ctxVars, mainVars, queueVars, threadVars, worldVars, Threads
<1>1. CASE TypeKey \/ EndOfInput
  BY <1>1 DEF TypeKey, EndOfInput, EnqueueKey
<1>2. CASE MainKey
  BY <1>2 DEF MainKey, TakeKey
<1>3. CASE MainMsg \/ MainDrain
  <2>1. /\ msgs' = msgs \/ (msgs # <<>> /\ msgs' = Tail(msgs))
        /\ UNCHANGED <<keys, input, recv>>
    BY <1>3 DEF MainMsg, MainDrain
  <2>2. msgs # <<>> => /\ Tail(msgs) \in Seq(MsgTypes \cup {"none"})
                       /\ Len(Tail(msgs)) <= MaxMessages
    OBVIOUS
  <2> QED
    BY <2>1, <2>2
<1>4. CASE \/ MainKeysDone \/ MainTurns \/ MainStops \/ MainJoinInput \/ MainJoinRecv
           \/ (\E k \in Conns : ServerStep(k)) \/ (\E s \in Spawned : ServerExits(s))
           \/ UNCHANGED vars
  <2>1. UNCHANGED <<keys, msgs, input, recv>>
    BY <1>4 DEF MainKeysDone, MainTurns, MainStops, MainJoinInput, MainJoinRecv,
                ServerStep, ServerSays, ServerCloses, ServerExits, ServerOnly, vars
  <2> QED
    BY <2>1
<1>5. CASE RecvStep
  <2> USE DEF RecvThread, AtLoop, None
  <2>1. fd \in Fds \cup {None} /\ (fd # None => sockets[fd] \in Conns)
    BY CtxType DEF Consistent, Wired, Ctx
  <2>2. CASE RecvLoop
    BY <2>1, <2>2 DEF RecvLoop, RecvOnly
  <2>3. CASE RecvPoll
    BY <2>3 DEF RecvPoll, RecvOnly
  <2>4. CASE RecvEnter
    BY <2>1, <2>4 DEF RecvEnter, RecvOnly
  <2>5. CASE RecvMessage
    <3>1. recv' = AtLoop \/ \E m \in MsgTypes : recv' = [AtLoop EXCEPT !.pc = "post", !.msg = m]
      BY <2>5 DEF RecvMessage
    <3>2. UNCHANGED <<keys, msgs, input>>
      BY <2>5 DEF RecvMessage, RecvOnly
    <3>3. recv' \in RecvThread
      <4>1. AtLoop \in RecvThread
        OBVIOUS
      <4>2. ASSUME NEW m \in MsgTypes
            PROVE  [AtLoop EXCEPT !.pc = "post", !.msg = m] \in RecvThread
        OBVIOUS
      <4> QED
        BY ONLY <3>1, <4>1, <4>2
    <3> QED
      BY <3>2, <3>3
  <2>6. CASE RecvPost
    <3>1. /\ Append(msgs, recv.msg) \in Seq(MsgTypes \cup {"none"})
          /\ Len(Append(msgs, recv.msg)) <= MaxMessages
      BY <2>6 DEF RecvPost
    <3>2. recv' \in RecvThread /\ msgs' = Append(msgs, recv.msg) /\ UNCHANGED <<keys, input>>
      BY <2>6 DEF RecvPost, RecvOnly
    <3> QED
      BY <3>1, <3>2
  <2> QED
    BY <1>5, <2>2, <2>3, <2>4, <2>5, <2>6 DEF RecvStep
<1> QED
  BY <1>1, <1>2, <1>3, <1>4, <1>5 DEF Next, MainStep

(* The types hold, the queues' bounds among them.                          *)
THEOREM TypeCorrect == Spec => []TypeOK
<1>1. Consistent(Ctx) /\ Threads => TypeOK
  <2> SUFFICES ASSUME Consistent(Ctx), Threads
               PROVE  TypeOK
    OBVIOUS
  <2>1. Range(menus) \subseteq DOMAIN Buttons
    BY CtxType DEF Consistent, Range
  <2>2. recv.pc \in {"loop", "poll", "recv", "post", "done"}
    BY DEF Threads, RecvThread
  <2> QED
    BY <2>1, <2>2, CtxType DEF Consistent, Threads, TypeOK, Texts
<1> QED
  BY <1>1, ConsistentAlways, ThreadsInit, ThreadsStep, PTL DEF Spec

-----------------------------------------------------------------------------
(* How deep the menus go: a menu is pushed on one of a lower rank only.    *)

Rank == [main |-> 1, pause |-> 1, over |-> 1, waiting |-> 1, error |-> 1,
         mode |-> 2, world |-> 3, load |-> 4, player |-> 5]

Rising(s) ==
    /\ s \in Seq(DOMAIN Buttons) /\ Len(s) > 0
    /\ \A i, j \in 1 .. Len(s) : i < j => Rank[s[i]] < Rank[s[j]]

Below(s, n) == \A i \in 1 .. Len(s) : Rank[s[i]] <= n

(* A text asked for in a menu may be submitted when others are shown, but  *)
(* then the menu it leads to still goes on top of lower ones.              *)
Ascending(c) ==
    /\ Rising(c.menus) /\ c.text \in Texts
    /\ c.text = "time" => Below(c.menus, 2)
    /\ c.text = "file" => Below(c.menus, 4)

HasFields(c) == DOMAIN c = {"mode", "menus", "text", "fd", "pid", "run", "sockets", "conn", "srv"}

(* What leaves menus and prompt alone.                                     *)
Same(d, c) == HasFields(d) /\ d.menus = c.menus /\ d.text = c.text

LEMMA Ranks ==
    /\ DOMAIN Buttons = {"main", "mode", "world", "load", "player", "pause", "over", "waiting", "error"}
    /\ DOMAIN Rank = DOMAIN Buttons
    /\ \A m \in DOMAIN Buttons : Rank[m] \in 1 .. 5
    /\ Rank["main"] = 1 /\ Rank["pause"] = 1 /\ Rank["over"] = 1 /\ Rank["waiting"] = 1
    /\ Rank["error"] = 1 /\ Rank["mode"] = 2 /\ Rank["world"] = 3 /\ Rank["load"] = 4
    /\ Rank["player"] = 5
BY DEF Rank, Buttons

(* Calls that have nothing to do with menus.                               *)
LEMMA CallsSame ==
    ASSUME NEW c, HasFields(c)
    PROVE  /\ Same(c, c)
           /\ \A b : Same(SaysPaused(c, b), c)
           /\ Same(Disconnect(c), c)
           /\ \A m : Same([c EXCEPT !.mode = m], c)
           /\ \A s : \A d \in Connects(c, s) : Same(d, c)
           /\ \A d \in SpawnFails(c) : Same(d, c)
           /\ \A d \in SpawnConnects(c) : Same(d, c)
<1> USE DEF Same, HasFields
<1>1. \A p, s, v : Same([c EXCEPT !.pid = p, !.srv[s] = v], c)
  OBVIOUS
<1>2. ASSUME NEW e, Same(e, c), NEW s, NEW d \in Connects(e, s) PROVE Same(d, c)
  <2>1. PICK f \in LowestFree(e), k \in NextConn(e) : d = Opens(e, s, f, k)
    BY <1>2 DEF Connects
  <2> QED BY <1>2, <2>1 DEF Opens
<1>3. \A b : Same(SaysPaused(c, b), c)
  BY DEF SaysPaused
<1>4. Same(Disconnect(c), c)
  <2>1. ASSUME NEW f, NEW k, NEW v
        PROVE  Same([c EXCEPT !.sockets[f] = None, !.fd = None, !.conn[k] = v], c)
    OBVIOUS
  <2> QED BY <2>1 DEF Disconnect
<1>5. \A d \in SpawnFails(c) : Same(d, c)
  BY <1>1 DEF SpawnFails
<1>6. ASSUME NEW d \in SpawnConnects(c) PROVE Same(d, c)
  <2>1. PICK s \in Spawned : d \in Connects([c EXCEPT !.pid = s, !.srv[s] = "running"], s)
    BY DEF SpawnConnects
  <2> DEFINE e == [c EXCEPT !.pid = s, !.srv[s] = "running"]
  <2>2. Same(e, c)
    BY <1>1
  <2> HIDE DEF e
  <2> QED BY <1>2, <2>1, <2>2 DEF e
<1>7. Same(c, c) /\ \A m : Same([c EXCEPT !.mode = m], c)
  OBVIOUS
<1> QED BY <1>2, <1>3, <1>4, <1>5, <1>6, <1>7

(* A menu on lower ones.                                                   *)
LEMMA PushAscends ==
    ASSUME NEW c, HasFields(c), Rising(c.menus), NEW menu \in DOMAIN Buttons,
           Below(c.menus, Rank[menu] - 1)
    PROVE  /\ HasFields(Push(c, menu)) /\ Push(c, menu).text = c.text
           /\ Rising(Push(c, menu).menus)
<1>1. c.menus \in Seq(DOMAIN Buttons) /\ Len(c.menus) \in Nat /\ Rank[menu] \in 1 .. 5
      /\ \A i \in 1 .. Len(c.menus) : Rank[c.menus[i]] \in 1 .. 5
  BY Ranks DEF Rising
<1> DEFINE s == Append(c.menus, menu)
<1>2. /\ s \in Seq(DOMAIN Buttons) /\ Len(s) = Len(c.menus) + 1
      /\ \A i \in 1 .. Len(c.menus) : s[i] = c.menus[i]
      /\ s[Len(c.menus) + 1] = menu
  BY <1>1
<1> HIDE DEF s
<1>3. Rising(s)
  <2>1. ASSUME NEW i \in 1 .. Len(s), NEW j \in 1 .. Len(s), i < j
        PROVE  Rank[s[i]] < Rank[s[j]]
    <3>1. CASE j = Len(s)
      <4>1. i \in 1 .. Len(c.menus) /\ s[j] = menu
        BY <1>1, <1>2, <2>1, <3>1
      <4>2. Rank[c.menus[i]] <= Rank[menu] - 1 /\ Rank[c.menus[i]] \in 1 .. 5
        BY <1>1, <4>1 DEF Below
      <4>3. s[i] = c.menus[i]
        BY <1>2, <4>1
      <4> QED BY <1>1, <4>1, <4>2, <4>3
    <3>2. CASE j # Len(s)
      <4>1. i \in 1 .. Len(c.menus) /\ j \in 1 .. Len(c.menus)
        BY <1>1, <1>2, <2>1, <3>2
      <4> QED BY <1>2, <2>1, <4>1 DEF Rising
    <3> QED BY <3>1, <3>2
  <2> QED BY <1>1, <1>2, <2>1 DEF Rising
<1>4. Push(c, menu) = c \/ Push(c, menu) = [c EXCEPT !.menus = s]
  BY DEF Push, s
<1> QED BY <1>3, <1>4 DEF HasFields

(* One menu less, one menu alone.                                          *)
LEMMA PopAscends ==
    ASSUME NEW c, HasFields(c), Rising(c.menus)
    PROVE  HasFields(Pop(c)) /\ Rising(Pop(c).menus) /\ Pop(c).text = c.text
<1>1. CASE Len(c.menus) > 1
  <2> DEFINE s == Front(c.menus)
  <2>1. /\ s \in Seq(DOMAIN Buttons) /\ Len(s) = Len(c.menus) - 1 /\ Len(c.menus) \in Nat
        /\ \A i \in 1 .. Len(c.menus) - 1 : s[i] = c.menus[i]
    BY <1>1 DEF Front, Rising
  <2>2. Pop(c) = [c EXCEPT !.menus = s]
    BY <1>1 DEF Pop
  <2> HIDE DEF s
  <2>3. Rising(s)
    <3>1. \A i \in 1 .. Len(s) : i \in 1 .. Len(c.menus) /\ s[i] = c.menus[i]
      BY <2>1
    <3>2. \A i, j \in 1 .. Len(c.menus) : i < j => Rank[c.menus[i]] < Rank[c.menus[j]]
      BY DEF Rising
    <3>3. \A i, j \in 1 .. Len(s) : i < j => Rank[s[i]] < Rank[s[j]]
      BY <3>1, <3>2
    <3> QED BY <1>1, <2>1, <3>3 DEF Rising
  <2> QED BY <2>2, <2>3 DEF HasFields
<1>2. CASE ~(Len(c.menus) > 1)
  BY <1>2 DEF Pop
<1> QED BY <1>1, <1>2

LEMMA ShowAscends ==
    ASSUME NEW c, HasFields(c), NEW menu \in DOMAIN Buttons
    PROVE  /\ HasFields(Show(c, menu)) /\ Show(c, menu).text = c.text
           /\ Rising(Show(c, menu).menus) /\ Below(Show(c, menu).menus, Rank[menu])
<1> DEFINE e == [c EXCEPT !.menus = <<>>]
<1>1. e.menus = <<>> /\ HasFields(e) /\ e.text = c.text
  BY DEF HasFields
<1>2. Show(c, menu) = Push(e, menu)
  BY DEF Show
<1> HIDE DEF e
<1>3. Len(<<>>) < MenuStackMax
  BY ClientAssumption
<1>4. Append(<<>>, menu) = <<menu>>
  OBVIOUS
<1>5. Show(c, menu) = [e EXCEPT !.menus = <<menu>>]
  BY <1>1, <1>2, <1>3, <1>4 DEF Push
<1>6. HasFields(Show(c, menu)) /\ Show(c, menu).text = c.text /\ Show(c, menu).menus = <<menu>>
  BY <1>1, <1>5 DEF HasFields
<1>7. Rank[menu] \in 1 .. 5
  BY Ranks
<1> QED BY <1>6, <1>7 DEF Rising, Below

(* A menu of the lowest rank, shown alone, fits every prompt.              *)
LEMMA BaseAscends ==
    ASSUME NEW c, HasFields(c), c.text \in Texts,
           NEW menu \in {"main", "pause", "over", "waiting", "error"}
    PROVE  /\ HasFields(Show(c, menu)) /\ Ascending(Show(c, menu))
           /\ \A m : HasFields(ShowIn(m, c, menu)) /\ Ascending(ShowIn(m, c, menu))
<1>1. ASSUME NEW e, HasFields(e), e.text \in Texts
      PROVE  HasFields(Show(e, menu)) /\ Ascending(Show(e, menu))
  <2>1. menu \in DOMAIN Buttons /\ Rank[menu] = 1
    BY Ranks
  <2> DEFINE d == Show(e, menu)
  <2>2. HasFields(d) /\ d.text = e.text /\ Rising(d.menus) /\ Below(d.menus, 1)
    BY <1>1, <2>1, ShowAscends
  <2> HIDE DEF d
  <2>3. \A i \in 1 .. Len(d.menus) : Rank[d.menus[i]] \in 1 .. 5
    BY <2>2, Ranks DEF Rising
  <2>4. Below(d.menus, 2) /\ Below(d.menus, 4)
    BY <2>2, <2>3 DEF Below
  <2> QED BY <1>1, <2>2, <2>4 DEF Ascending, d
<1>2. ASSUME NEW m PROVE HasFields(ShowIn(m, c, menu)) /\ Ascending(ShowIn(m, c, menu))
  <2> DEFINE e == [c EXCEPT !.mode = m]
  <2>1. HasFields(e) /\ e.text \in Texts
    BY DEF HasFields
  <2>2. ShowIn(m, c, menu) = Show(e, menu)
    BY DEF ShowIn
  <2> HIDE DEF e
  <2> QED BY <1>1, <2>1, <2>2
<1> QED BY <1>1, <1>2

(* The menu on top has the highest rank.                                   *)
LEMMA TopRank ==
    ASSUME NEW s, Rising(s)
    PROVE  Last(s) \in DOMAIN Buttons /\ Below(s, Rank[Last(s)])
<1>1. s \in Seq(DOMAIN Buttons) /\ Len(s) \in Nat /\ Len(s) > 0 /\ Last(s) = s[Len(s)]
  BY DEF Rising, Last
<1>2. \A i \in 1 .. Len(s) : Rank[s[i]] \in 1 .. 5
  BY <1>1, Ranks
<1>3. ASSUME NEW i \in 1 .. Len(s) PROVE Rank[s[i]] <= Rank[s[Len(s)]]
  <2>1. Len(s) \in 1 .. Len(s) /\ (i = Len(s) \/ i < Len(s))
    BY <1>1
  <2>2. i < Len(s) => Rank[s[i]] < Rank[s[Len(s)]]
    BY <2>1 DEF Rising
  <2> QED BY <1>2, <2>1, <2>2
<1> QED BY <1>1, <1>3 DEF Below

Fine(d) == HasFields(d) /\ Ascending(d)

(* Every button of the menu on top, and the two keys that press one.       *)
LEMMA PressAscends ==
    ASSUME NEW c, HasFields(c), Rising(c.menus), c.text = "none",
           NEW button \in Buttons[Last(c.menus)] \cup {"exit_game", "back"},
           NEW d \in Press(c, button)
    PROVE  Fine(d)
<1> DEFINE top == Last(c.menus)
<1>0. top \in DOMAIN Buttons /\ Below(c.menus, Rank[top]) /\ c.text \in Texts
  BY TopRank DEF Texts
<1>1. /\ button \in {"standard", "timed"} => top = "mode"
      /\ button \in {"easy", "hard"} => top = "world"
      /\ button \in {"random", "file"} => top = "load"
      /\ button \in {"new_game", "join", "exit_game", "standard", "timed", "back", "easy", "hard",
                     "random", "file", "single", "multi", "resume", "main_menu", "cancel"}
  BY <1>0 DEF Buttons
<1> HIDE DEF top
<1>2. ASSUME NEW menu \in DOMAIN Buttons, Rank[top] <= Rank[menu] - 1, d = Push(c, menu)
      PROVE  Fine(d)
  <2>1. Below(c.menus, Rank[menu] - 1)
    <3>1. \A i \in 1 .. Len(c.menus) : Rank[c.menus[i]] \in 1 .. 5
      BY Ranks DEF Rising
    <3>2. Rank[top] \in 1 .. 5 /\ Rank[menu] \in 1 .. 5
      BY <1>0, Ranks
    <3> QED BY <1>0, <1>2, <3>1, <3>2 DEF Below
  <2> QED BY <1>2, <2>1, PushAscends DEF Fine, Ascending, Texts
<1>3. ASSUME NEW t \in Texts, d = Asks(c, t), t = "time" => Below(c.menus, 2),
             t = "file" => Below(c.menus, 4)
      PROVE  Fine(d)
  BY <1>3 DEF Asks, Fine, Ascending, HasFields
<1>4. CASE button = "new_game"
  <2> DEFINE e == Show(c, "main")
  <2>1. HasFields(e) /\ e.text = "none" /\ Rising(e.menus) /\ Below(e.menus, 1)
    BY ShowAscends, Ranks
  <2>2. d = Push(e, "mode")
    BY <1>4 DEF Press
  <2> HIDE DEF e
  <2>3. HasFields(d) /\ d.text = "none" /\ Rising(d.menus)
    BY <2>1, <2>2, PushAscends, Ranks
  <2> QED BY <2>3 DEF Fine, Ascending, Texts
<1>5. CASE button \in {"join", "timed", "file", "multi"}
  <2>1. PICK t \in Texts : /\ d = Asks(c, t)
                           /\ t = "time" => button = "timed"
                           /\ t = "file" => button = "file"
    BY <1>5 DEF Press, Texts
  <2>2. /\ button = "timed" => Below(c.menus, 2)
        /\ button = "file" => Below(c.menus, 4)
    BY <1>0, <1>1, Ranks
  <2> QED BY <1>3, <2>1, <2>2
<1>6. CASE button = "exit_game"
  <2>1. d = [c EXCEPT !.run = FALSE]
    BY <1>6 DEF Press
  <2> QED BY <1>0, <2>1 DEF Fine, Ascending, HasFields
<1>7. CASE button \in {"resume", "back"}
  <2> DEFINE p == Pop(c)
             q == SaysPaused(p, FALSE)
  <2>1. HasFields(p) /\ Rising(p.menus) /\ p.text = "none"
    BY PopAscends
  <2>2. d = p \/ d = [q EXCEPT !.mode = "playing"]
    BY <1>7 DEF Press, Resume
  <2> HIDE DEF p
  <2>3. HasFields(q) /\ q.menus = p.menus /\ q.text = "none"
    BY <2>1, CallsSame DEF Same
  <2> HIDE DEF q
  <2>4. HasFields(d) /\ d.menus = p.menus /\ d.text = "none"
    BY <2>1, <2>2, <2>3 DEF HasFields
  <2> QED BY <2>1, <2>4 DEF Fine, Ascending, Texts
<1>8. CASE button \in {"main_menu", "cancel"}
  <2> DEFINE e == Disconnect(c)
  <2>1. d = ShowIn("menu", e, "main")
    BY <1>8 DEF Press, ToMainMenu
  <2>2. HasFields(e) /\ e.text \in Texts
    BY <1>0, CallsSame DEF Same
  <2> HIDE DEF e
  <2> QED BY <2>1, <2>2, BaseAscends DEF Fine
<1>9. CASE button \in {"standard", "easy", "hard", "random"}
  <2>1. /\ button = "standard" => d = Push(c, "world")
        /\ button = "hard" => d = Push(c, "load")
        /\ button \in {"easy", "random"} => d = Push(c, "player")
    BY <1>9 DEF Press
  <2> QED BY <1>1, <1>2, <1>9, <2>1, Ranks
<1>10. CASE button = "single"
  <2> DEFINE w == Show(c, "waiting")
  <2>1. HasFields(w) /\ Ascending(w)
    BY <1>0, BaseAscends
  <2>2. d \in SpawnConnects(w) \/ \E e \in SpawnFails(w) : d = ShowIn("menu", e, "error")
    BY <1>10 DEF Press, SinglePlayer
  <2> HIDE DEF w
  <2>3. w.text \in Texts
    BY <2>1 DEF Ascending
  <2>4. ASSUME NEW e \in SpawnFails(w) PROVE Fine(ShowIn("menu", e, "error"))
    <3>1. HasFields(e) /\ e.text \in Texts
      BY <2>1, <2>3, CallsSame DEF Same
    <3> QED BY <3>1, BaseAscends DEF Fine
  <2>5. d \in SpawnConnects(w) => Fine(d)
    BY <2>1, CallsSame DEF Same, Fine, Ascending
  <2> QED BY <2>2, <2>4, <2>5
<1> QED BY <1>1, <1>4, <1>5, <1>6, <1>7, <1>8, <1>9, <1>10

(* A text may be submitted on top of menus it was not asked for in.        *)
LEMMA SubmitAscends ==
    ASSUME NEW c, HasFields(c), Ascending(c), c.text # "none", NEW d \in Submit(c)
    PROVE  HasFields(d) /\ Rising(d.menus)
<1>1. c.text \in {"time", "file", "create", "join"} /\ c.text \in Texts /\ Rising(c.menus)
  BY DEF Ascending, Texts
<1>2. ASSUME NEW e, Same(e, c) PROVE Fine(Show(e, "waiting")) /\ Fine(ShowIn("menu", e, "error"))
  <2>1. HasFields(e) /\ e.text \in Texts
    BY <1>1, <1>2 DEF Same
  <2> QED BY <2>1, BaseAscends DEF Fine
<1>3. Fine(Show(c, "error"))
  BY <1>1, BaseAscends DEF Fine
<1>4. c.text = "time" => Rising(Push(c, "world").menus) /\ HasFields(Push(c, "world"))
  BY <1>1, PushAscends, Ranks DEF Ascending
<1>5. c.text = "file" => Rising(Push(c, "player").menus) /\ HasFields(Push(c, "player"))
  BY <1>1, PushAscends, Ranks DEF Ascending
<1>6. CASE c.text \in {"time", "file"}
  <2>1. \/ c.text = "time" /\ d = Push(c, "world")
        \/ c.text = "file" /\ d = Push(c, "player")
        \/ d = Show(c, "error")
    BY <1>6 DEF Submit
  <2> QED BY <1>3, <1>4, <1>5, <2>1 DEF Fine, Ascending
<1>7. CASE c.text \in {"join", "create"}
  <2>1. \E e : Same(e, c) /\ (d = Show(e, "waiting") \/ d = ShowIn("menu", e, "error"))
    <3>1. CASE c.text = "join"
      <4>1. (\E e \in Connects(c, Foreign) : d = Show(e, "waiting")) \/ d = ShowIn("menu", c, "error")
        BY <3>1 DEF Submit
      <4> QED BY <4>1, CallsSame
    <3>2. CASE c.text = "create"
      <4>1. \/ \E e \in SpawnConnects(c) : d = Show(e, "waiting")
            \/ \E e \in SpawnFails(c) : d = ShowIn("menu", e, "error")
        BY <3>2 DEF Submit
      <4> QED BY <4>1, CallsSame
    <3> QED BY <1>7, <3>1, <3>2
  <2> QED BY <1>2, <2>1 DEF Fine, Ascending
<1> QED BY <1>1, <1>6, <1>7

(* Keys.                                                                   *)
LEMMA KeyAscends ==
    ASSUME NEW c, HasFields(c), Ascending(c), NEW key, NEW d \in HandleKey(c, key)
    PROVE  Fine(d)
<1>0. Rising(c.menus) /\ c.text \in Texts /\ Fine(c)
  BY DEF Ascending, Fine
<1>1. CASE c.text # "none"
  <2>1. \/ \E e \in Submit(c) : d = Asks(e, "none")
        \/ d = Asks(c, "none")
        \/ d = c
    BY <1>1 DEF HandleKey, TextKey
  <2>2. ASSUME NEW e, HasFields(e), Rising(e.menus) PROVE Fine(Asks(e, "none"))
    BY <2>2 DEF Asks, Fine, Ascending, HasFields, Texts
  <2> QED BY <1>0, <1>1, <2>1, <2>2, SubmitAscends
<1>2. CASE c.text = "none" /\ c.mode = "playing"
  <2> DEFINE p == [c EXCEPT !.mode = "paused"]
             q == SaysPaused(p, TRUE)
  <2>1. HasFields(p) /\ p.text \in Texts
    BY <1>0 DEF HasFields
  <2>2. d = c \/ d = Show(q, "pause")
    BY <1>2 DEF HandleKey, GameKey
  <2> HIDE DEF p
  <2>3. HasFields(q) /\ q.text \in Texts
    BY <2>1, CallsSame DEF Same
  <2> HIDE DEF q
  <2> QED BY <1>0, <2>2, <2>3, BaseAscends DEF Fine
<1>3. CASE c.text = "none" /\ c.mode # "playing"
  <2>1. d = c \/ \E b \in Buttons[Last(c.menus)] \cup {"exit_game", "back"} : d \in Press(c, b)
    BY <1>3 DEF HandleKey, MenuKey
  <2> QED BY <1>0, <1>3, <2>1, PressAscends
<1> QED BY <1>1, <1>2, <1>3

(* Messages, and the end of the spawned server.                            *)
LEMMA MsgAscends ==
    ASSUME NEW c, HasFields(c), Ascending(c), NEW type
    PROVE  Fine(HandleMsg(c, type))
<1>1. c.text \in Texts
  BY DEF Ascending
<1>2. Fine(ShowIn("over", c, "over")) /\ Fine(ShowIn("menu", c, "error"))
  BY <1>1, BaseAscends DEF Fine
<1>3. Fine([c EXCEPT !.mode = "playing"]) /\ Fine(c)
  BY DEF Fine, Ascending, HasFields
<1> QED BY <1>2, <1>3 DEF HandleMsg

LEMMA PollAscends ==
    ASSUME NEW c, HasFields(c), Ascending(c)
    PROVE  Fine(PollServerExit(c))
<1>1. Fine(c) /\ c.text \in Texts
  BY DEF Fine, Ascending
<1>2. CASE c.pid # None /\ c.srv[c.pid] = "exited"
  <2> DEFINE e == [c EXCEPT !.pid = None, !.srv[c.pid] = "reaped"]
             g == Disconnect(e)
  <2>1. PollServerExit(c) = ServerGone(e)
    BY <1>2 DEF PollServerExit
  <2>2. Same(e, c)
    BY DEF Same, HasFields
  <2> HIDE DEF e
  <2>3. Same(g, e)
    BY <2>2, CallsSame DEF Same
  <2>4. ServerGone(e) = g \/ ServerGone(e) = ShowIn("menu", g, "error")
    BY DEF ServerGone
  <2> HIDE DEF g
  <2>5. HasFields(g) /\ g.menus = c.menus /\ g.text = c.text
    BY <2>2, <2>3 DEF Same
  <2>6. Fine(ShowIn("menu", g, "error"))
    BY <1>1, <2>5, BaseAscends DEF Fine
  <2> QED BY <1>1, <2>1, <2>4, <2>5, <2>6 DEF Fine, Ascending
<1>3. CASE ~(c.pid # None /\ c.srv[c.pid] = "exited")
  BY <1>1, <1>3 DEF PollServerExit
<1> QED BY <1>2, <1>3

Stack == Rising(menus) /\ text \in Texts /\ (text = "time" => Below(menus, 2))
                       /\ (text = "file" => Below(menus, 4))

LEMMA StackStep == Stack /\ [Next]_vars => Stack'
<1> SUFFICES ASSUME Stack, [Next]_vars PROVE Stack'
  OBVIOUS
<1>1. HasFields(Ctx) /\ Ascending(Ctx)
  BY DEF Stack, Ctx, HasFields, Ascending
<1>2. ASSUME NEW c, Fine(c), Becomes(c) PROVE Stack'
  BY <1>2 DEF Fine, Becomes, Ascending, Stack
<1>3. CASE MainKey
  <2>1. PICK key \in Keys : \E c \in HandleKey(Ctx, key) : Becomes(c)
    BY <1>3 DEF MainKey
  <2> QED BY <1>1, <1>2, <2>1, KeyAscends
<1>4. CASE MainMsg
  BY <1>1, <1>2, <1>4, MsgAscends DEF MainMsg
<1>5. CASE MainTurns
  BY <1>1, <1>2, <1>5, PollAscends DEF MainTurns, Fine
<1>6. CASE UNCHANGED <<menus, text>>
  BY <1>6 DEF Stack
<1>7. CASE ~(MainKey \/ MainMsg \/ MainTurns)
  <2>1. MainKeysDone \/ MainDrain \/ MainStops \/ MainJoinInput \/ MainJoinRecv => UNCHANGED <<menus, text>>
    BY DEF MainKeysDone, MainDrain, MainStops, MainJoinInput, MainJoinRecv, ctxVars
  <2>2. RecvStep \/ TypeKey \/ EndOfInput \/ UNCHANGED vars => UNCHANGED <<menus, text>>
    BY DEF RecvStep, RecvLoop, RecvPoll, RecvEnter, RecvMessage, RecvPost, RecvOnly, TypeKey,
           EndOfInput, vars, ctxVars
  <2>3. ASSUME NEW k \in Conns, ServerStep(k) PROVE UNCHANGED <<menus, text>>
    BY <2>3 DEF ServerStep, ServerSays, ServerCloses, ServerOnly, ctxVars
  <2>4. ASSUME NEW s \in Spawned, ServerExits(s) PROVE UNCHANGED <<menus, text>>
    BY <2>4 DEF ServerExits, ServerOnly, ctxVars
  <2>5. UNCHANGED <<menus, text>>
    BY <1>7, <2>1, <2>2, <2>3, <2>4 DEF Next, MainStep
  <2> QED BY <1>6, <2>5
<1> QED BY <1>3, <1>4, <1>5, <1>7

(* No menu is ever dropped or cleared past the end of the array, as long   *)
(* as the array holds one menu of each rank and one more (MENU_STACK_MAX   *)
(* is 12).                                                                 *)
THEOREM StackStaysLow == ASSUME MenuStackMax > 5 PROVE Spec => []MenusFit
<1>1. Init => Stack
  <2> SUFFICES ASSUME Init PROVE Stack
    OBVIOUS
  <2>1. menus = <<"main">> /\ text = "none"
    BY DEF Init
  <2> QED BY <2>1 DEF Stack, Rising, Texts, Buttons
<1>2. Stack => MenusFit
  <2> SUFFICES ASSUME Stack PROVE MenusFit
    OBVIOUS
  <2>1. /\ DOMAIN menus = 1 .. Len(menus) /\ Len(menus) \in Nat
        /\ \A k \in 1 .. Len(menus) : Rank[menus[k]] \in 1 .. 5
        /\ \A j, k \in 1 .. Len(menus) : j < k => Rank[menus[j]] < Rank[menus[k]]
    BY Ranks DEF Stack, Rising
  <2>2. Len(menus) <= 5
    <3> SUFFICES ASSUME Len(menus) > 5 PROVE FALSE
      BY <2>1
    <3>1. \A k \in 1 .. 6 : k \in 1 .. Len(menus)
      BY <2>1
    <3>2. /\ Rank[menus[1]] < Rank[menus[2]] /\ Rank[menus[2]] < Rank[menus[3]]
          /\ Rank[menus[3]] < Rank[menus[4]] /\ Rank[menus[4]] < Rank[menus[5]]
          /\ Rank[menus[5]] < Rank[menus[6]]
      BY <2>1, <3>1
    <3>3. Rank[menus[1]] \in 1 .. 5 /\ Rank[menus[2]] \in 1 .. 5 /\ Rank[menus[3]] \in 1 .. 5
          /\ Rank[menus[4]] \in 1 .. 5 /\ Rank[menus[5]] \in 1 .. 5 /\ Rank[menus[6]] \in 1 .. 5
      BY <2>1, <3>1
    <3> QED BY <3>2, <3>3
  <2>3. IsInjective(menus)
    <3> SUFFICES ASSUME NEW j \in 1 .. Len(menus), NEW k \in 1 .. Len(menus), menus[j] = menus[k]
                 PROVE  j = k
      BY <2>1 DEF IsInjective
    <3>1. ~(Rank[menus[j]] < Rank[menus[k]]) /\ ~(Rank[menus[k]] < Rank[menus[j]])
      BY <2>1
    <3> QED BY <2>1, <3>1
  <2>4. Len(menus) < MenuStackMax
    BY <2>1, <2>2, ClientAssumption
  <2> QED BY <2>3, <2>4 DEF MenusFit
<1> QED BY <1>1, <1>2, StackStep, PTL DEF Spec
=============================================================================

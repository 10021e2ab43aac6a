------------------------- MODULE Esp8266LinkProofs -------------------------
(***************************************************************************)
(* The link of the application, for any number of WebSockets: what the     *)
(* manager says of its connection is true of the WebSocket it holds,       *)
(* although it listens to all those it ever made.                          *)
(***************************************************************************)
EXTENDS Esp8266Link, WebSocketProofs

Manager == [connected : BOOLEAN, pinging : BOOLEAN,
            told : {"none", "connectSuccess", "connectFail", "connectClose"}]

\* The objects: those not made yet are new, those replaced are closed.
ObjectInv(s) ==
    /\ ws[s] \in Socket /\ Sound(ws[s]) /\ ws[s].events = <<>>
    /\ s > current => ws[s] = NewSocket
    /\ s < current => ws[s].state = "CLOSED"
    /\ s = current => ws[s].state # "INIT"

\* The manager is connected only to an open object, which is the current one.
ManagerInv ==
    /\ manager \in Manager
    /\ manager.connected => current # 0 /\ ws[current].state = "OPEN"
    /\ manager.pinging => manager.connected

\* The network: nothing is on its way without a connection, and during the
\* handshake the first thing to arrive is the answer to it.
Answering(w, items, view) ==
    w.state = "CONNECTING" /\ w.tcp = "connected" =>
        \/ view = "connected" /\ items = <<>>
        \/ view = "none" /\ items = <<>>
        \/ view = "none" /\ Len(items) = 1 /\ Head(items).op \in Responses
        \/ view = "upgraded" /\ items # <<>> /\ Head(items).op = "accept"
WireOK(w, items, view) ==
    /\ items \in Seq(Item) /\ view \in {"none", "connected", "upgraded"}
    /\ w.tcp # "connected" => items = <<>> /\ view = "none"
    /\ Answering(w, items, view)

LinkInv ==
    /\ current \in 0..MaxSockets
    /\ wire \in [Sockets -> Seq(Item)]
    /\ server \in [Sockets -> {"none", "connected", "upgraded"}]
    /\ ws \in [Sockets -> Socket]
    /\ ManagerInv
    /\ \A s \in Sockets : ObjectInv(s) /\ WireOK(ws[s], wire[s], server[s])

-----------------------------------------------------------------------------
(* What the manager hears *)

LEMMA ListenIs ==
    ASSUME NEW m \in Manager, NEW e
    PROVE  /\ Listen(m, e) \in Manager
           /\ e \notin Loud => Listen(m, e) = m
           /\ e = "CLOSED" => ~Listen(m, e).connected /\ ~Listen(m, e).pinging
<1>1. CASE e = "CONNECTION_FAIL"
    BY <1>1 DEF Listen, OnConnectionFailed, Manager, Loud
<1>2. CASE e = "OPEN"
    BY <1>2 DEF Listen, OnConnectionOpened, Manager, Loud
<1>3. CASE e = "CLOSED"
    BY <1>3 DEF Listen, OnConnectionClosed, Manager, Loud
<1>4. CASE e \notin Loud
    BY <1>4 DEF Listen, Loud
<1>. QED
    BY <1>1, <1>2, <1>3, <1>4 DEF Loud

LEMMA HeardAtIs ==
    ASSUME NEW m \in Manager, NEW events, NEW i
    PROVE  /\ HeardAt(m, events, i) \in Manager
           /\ i \notin DOMAIN events => HeardAt(m, events, i) = m
           /\ i \in DOMAIN events => HeardAt(m, events, i) = Listen(m, events[i])
BY ListenIs DEF HeardAt

LEMMA HeardQuiet ==
    ASSUME NEW m \in Manager, NEW events, Quiet(events)
    PROVE  Heard(m, events) = m
<1>1. ASSUME NEW i PROVE HeardAt(m, events, i) = m
    BY HeardAtIs, ListenIs DEF Quiet
<1>. QED
    BY <1>1 DEF Heard

\* The last event decides.
LEMMA HeardEndsClosed ==
    ASSUME NEW m \in Manager, NEW events \in Seq(Event), EndsClosed(events)
    PROVE  /\ Heard(m, events) \in Manager
           /\ ~Heard(m, events).connected /\ ~Heard(m, events).pinging
<1> DEFINE a == HeardAt(m, events, 1)
           b == HeardAt(a, events, 2)
           c == HeardAt(b, events, 3)
           d == HeardAt(c, events, 4)
<1>1. Heard(m, events) = d
    BY DEF Heard
<1>2. a \in Manager
    BY HeardAtIs
<1>. HIDE DEF a
<1>3. b \in Manager
    BY <1>2, HeardAtIs
<1>. HIDE DEF b
<1>4. c \in Manager
    BY <1>3, HeardAtIs
<1>. HIDE DEF c
<1>5. d \in Manager
    BY <1>4, HeardAtIs
<1>6. DOMAIN events = 1..Len(events) /\ Len(events) \in 1..4 /\ events[Len(events)] = "CLOSED"
    <2>1. DOMAIN events = 1..Len(events)
        BY LenProperties
    <2>2. Len(events) \in 1..4
        BY DEF EndsClosed
    <2>3. Len(events) \in 1..Len(events)
        BY <2>2
    <2>. QED
        BY <2>1, <2>2, <2>3 DEF EndsClosed
<1>7. CASE Len(events) = 1
    <2>1. 1 \in DOMAIN events /\ 2 \notin DOMAIN events /\ 3 \notin DOMAIN events /\ 4 \notin DOMAIN events
        BY <1>6, <1>7
    <2>2. b = a /\ c = b /\ d = c
        BY <1>2, <1>3, <1>4, <2>1, HeardAtIs DEF b, c
    <2>3. a = Listen(m, "CLOSED")
        BY <1>6, <1>7, <2>1, HeardAtIs DEF a
    <2>. QED
        BY <1>1, <1>5, <2>2, <2>3, ListenIs
<1>8. CASE Len(events) = 2
    <2>1. 2 \in DOMAIN events /\ 3 \notin DOMAIN events /\ 4 \notin DOMAIN events
        BY <1>6, <1>8
    <2>2. c = b /\ d = c
        BY <1>3, <1>4, <2>1, HeardAtIs DEF c
    <2>3. b = Listen(a, "CLOSED")
        BY <1>2, <1>6, <1>8, <2>1, HeardAtIs DEF b
    <2>. QED
        BY <1>1, <1>2, <1>5, <2>2, <2>3, ListenIs
<1>9. CASE Len(events) = 3
    <2>1. 3 \in DOMAIN events /\ 4 \notin DOMAIN events
        BY <1>6, <1>9
    <2>2. d = c
        BY <1>4, <2>1, HeardAtIs
    <2>3. c = Listen(b, "CLOSED")
        BY <1>3, <1>6, <1>9, <2>1, HeardAtIs DEF c
    <2>. QED
        BY <1>1, <1>3, <1>5, <2>2, <2>3, ListenIs
<1>10. CASE Len(events) = 4
    <2>1. 4 \in DOMAIN events
        BY <1>6, <1>10
    <2>2. d = Listen(c, "CLOSED")
        BY <1>4, <1>6, <1>10, <2>1, HeardAtIs
    <2>. QED
        BY <1>1, <1>4, <1>5, <2>2, ListenIs
<1>. QED
    BY <1>6, <1>7, <1>8, <1>9, <1>10

LEMMA HeardOpen ==
    ASSUME NEW m \in Manager
    PROVE  Heard(m, <<"OPEN">>) = OnConnectionOpened(m) /\ OnConnectionOpened(m) \in Manager
<1> DEFINE o == <<"OPEN">>
           n == OnConnectionOpened(m)
<1>1. 1 \in DOMAIN o /\ 2 \notin DOMAIN o /\ 3 \notin DOMAIN o /\ 4 \notin DOMAIN o /\ o[1] = "OPEN"
    OBVIOUS
<1>2. n \in Manager
    BY DEF OnConnectionOpened, Manager
<1>3. Listen(m, "OPEN") = n
    BY DEF Listen
<1>. HIDE DEF o, n
<1>4. HeardAt(m, o, 1) = n
    BY <1>1, <1>3, HeardAtIs
<1>5. HeardAt(n, o, 2) = n /\ HeardAt(n, o, 3) = n /\ HeardAt(n, o, 4) = n
    BY <1>1, <1>2, HeardAtIs
<1>6. Heard(m, o) = n
    BY <1>4, <1>5 DEF Heard
<1>. QED
    BY <1>2, <1>6 DEF o, n

-----------------------------------------------------------------------------
(* Steps of one object *)

\* What a handler of the object o, which it makes w, does to its connection.
Change(o, w) ==
    (w.state = o.state /\ Quiet(w.events)) \/ Opens(o, w) \/ Closes(o, w) \/ GivesUp(o, w)

LEMMA IdleChange ==
    ASSUME NEW o \in Socket, Sound(o), NEW w, Effect(Idle(o), w)
    PROVE  w \in Socket /\ Sound(w) /\ Change(o, w)
<1> DEFINE i == Idle(o)
<1>1. /\ i.tcp = o.tcp /\ i.state = o.state /\ i.handshakeTimer = o.handshakeTimer
      /\ Sound(i)
    BY IdleIs DEF Sound
<1>2. Effect(i, w)
    OBVIOUS
<1>. HIDE DEF i
<1>. QED
    BY <1>1, <1>2 DEF Effect, Outcome, Change, Stays, Opens, Closes, GivesUp, Keeps

\* Only objects that were made have a connection or a timer.
LEMMA MadeSockets ==
    ASSUME LinkInv, NEW s \in Sockets, ws[s].tcp # "none" \/ ws[s].handshakeTimer
    PROVE  s <= current
<1>1. s \in Int /\ current \in Int
    BY LinkBoundsAssumption DEF LinkInv, Sockets
<1>2. s > current => ws[s] = NewSocket
    BY DEF LinkInv, ObjectInv
<1>3. NewSocket.tcp = "none" /\ ~NewSocket.handshakeTimer
    BY DEF NewSocket
<1>. QED
    BY <1>1, <1>2, <1>3

\* The listeners after the events of object s, which became w.
LEMMA ManagerStep ==
    ASSUME LinkInv, NEW s \in Sockets, s <= current, NEW w \in Socket, Sound(w),
           Change(ws[s], w)
    PROVE  /\ Heard(manager, w.events) \in Manager
           /\ Heard(manager, w.events).pinging => Heard(manager, w.events).connected
           /\ Heard(manager, w.events).connected =>
                 \/ s = current /\ w.state = "OPEN"
                 \/ s # current /\ ws[current].state = "OPEN"
<1> DEFINE h == Heard(manager, w.events)
           n == OnConnectionOpened(manager)
<1>1. s \in Int /\ current \in Int
    BY LinkBoundsAssumption DEF LinkInv, Sockets
<1>2. /\ manager \in Manager
      /\ manager.connected => ws[current].state = "OPEN"
      /\ manager.pinging => manager.connected
    BY DEF LinkInv, ManagerInv
<1>3. s < current => ws[s].state = "CLOSED"
    BY DEF LinkInv, ObjectInv
<1>4. CASE w.state = ws[s].state /\ Quiet(w.events)
    BY <1>2, <1>4, HeardQuiet
<1>5. CASE Opens(ws[s], w)
    <2>1. h = n /\ n \in Manager
        BY <1>2, <1>5, HeardOpen DEF Opens
    <2>2. s = current /\ w.state = "OPEN"
        BY <1>1, <1>3, <1>5 DEF Opens
    <2>3. n.connected
        BY <1>2 DEF OnConnectionOpened, Manager
    <2>. QED
        BY <2>1, <2>2, <2>3
<1>6. CASE Closes(ws[s], w)
    <2>1. w.events \in Seq(Event)
        BY DEF Socket
    <2>. QED
        BY <1>2, <1>6, <2>1, HeardEndsClosed DEF Closes
<1>7. CASE GivesUp(ws[s], w)
    BY <1>2, <1>7, HeardQuiet DEF GivesUp
<1>. QED
    BY <1>4, <1>5, <1>6, <1>7 DEF Change

LEMMA WireIdle ==
    ASSUME NEW w \in Socket, NEW items, NEW view
    PROVE  WireOK(Idle(w), items, view) <=> WireOK(w, items, view)
BY IdleIs DEF WireOK, Answering

\* A step of object s keeps the invariant if what is on its wire stays in order.
LEMMA HandledStep ==
    ASSUME LinkInv, NEW s \in Sockets, s <= current, NEW w \in Socket, Sound(w),
           Change(ws[s], w), Handled(s, w),
           wire' \in [Sockets -> Seq(Item)],
           server' \in [Sockets -> {"none", "connected", "upgraded"}],
           \A r \in Sockets : r # s => wire'[r] = wire[r] /\ server'[r] = server[r],
           WireOK(w, wire'[s], server'[s])
    PROVE  LinkInv'
<1> DEFINE i == Idle(w)
<1>1. s \in Int /\ current \in 0..MaxSockets /\ current \in Int /\ s >= 1
    BY LinkBoundsAssumption DEF LinkInv, Sockets
<1>2. ws \in [Sockets -> Socket] /\ current \in Sockets
    BY <1>1, LinkBoundsAssumption DEF LinkInv, Sockets
<1>3. i \in Socket /\ i.state = w.state /\ Sound(i) /\ i.events = <<>>
    BY IdleIs DEF Sound
<1>4. ws' = [ws EXCEPT ![s] = i] /\ current' = current /\ manager' = Heard(manager, w.events)
    BY DEF Handled
<1>5. WireOK(i, wire'[s], server'[s])
    BY WireIdle
<1>. HIDE DEF i
<1>6. ws' \in [Sockets -> Socket] /\ ws'[s] = i /\ \A r \in Sockets : r # s => ws'[r] = ws[r]
    BY <1>2, <1>3, <1>4
<1>7. ManagerInv'
    <2>1. /\ manager' \in Manager
          /\ manager'.pinging => manager'.connected
          /\ manager'.connected =>
                \/ s = current /\ w.state = "OPEN"
                \/ s # current /\ ws[current].state = "OPEN"
        BY <1>4, ManagerStep
    <2>2. manager'.connected => current' # 0 /\ ws'[current'].state = "OPEN"
        BY <1>1, <1>2, <1>3, <1>4, <1>6, <2>1
    <2>. QED
        BY <2>1, <2>2 DEF ManagerInv
<1>8. ASSUME NEW r \in Sockets PROVE ObjectInv(r)'
    <2>1. ObjectInv(r) /\ ObjectInv(s)
        BY DEF LinkInv
    <2>2. CASE r # s
        BY <1>4, <1>6, <2>1, <2>2 DEF ObjectInv
    <2>3. CASE r = s
        <3>1. s < current => w.state = "CLOSED"
            BY <2>1 DEF ObjectInv, Change, Opens, Closes, GivesUp
        <3>2. s = current => w.state # "INIT"
            BY <2>1 DEF ObjectInv, Change, Opens, Closes, GivesUp
        <3>3. ~(s > current)
            BY <1>1
        <3>. QED
            BY <1>3, <1>4, <1>6, <2>3, <3>1, <3>2, <3>3 DEF ObjectInv
    <2>. QED
        BY <2>2, <2>3
<1>9. ASSUME NEW r \in Sockets PROVE WireOK(ws[r], wire[r], server[r])'
    <2>1. WireOK(ws[r], wire[r], server[r])
        BY DEF LinkInv
    <2>2. WireOK(ws'[r], wire'[r], server'[r])
        BY <1>5, <1>6, <2>1
    <2>. QED
        BY <2>2
<1>10. (current \in 0..MaxSockets)'
    BY <1>1, <1>4
<1>. QED
    BY <1>6, <1>7, <1>8, <1>9, <1>10 DEF LinkInv

LEMMA LostIs ==
    ASSUME LinkInv, NEW s \in Sockets, Lost(s), NEW w, w.tcp # "connected"
    PROVE  /\ wire' \in [Sockets -> Seq(Item)]
           /\ server' \in [Sockets -> {"none", "connected", "upgraded"}]
           /\ \A r \in Sockets : r # s => wire'[r] = wire[r] /\ server'[r] = server[r]
           /\ WireOK(w, wire'[s], server'[s])
<1>1. <<>> \in Seq(Item)
    BY EmptySeq
<1>2. wire \in [Sockets -> Seq(Item)] /\ server \in [Sockets -> {"none", "connected", "upgraded"}]
    BY DEF LinkInv
<1>3. wire' = [wire EXCEPT ![s] = <<>>] /\ server' = [server EXCEPT ![s] = "none"]
    BY DEF Lost
<1>4. wire' \in [Sockets -> Seq(Item)] /\ wire'[s] = <<>> /\ \A r \in Sockets : r # s => wire'[r] = wire[r]
    BY <1>1, <1>2, <1>3
<1>5. /\ server' \in [Sockets -> {"none", "connected", "upgraded"}] /\ server'[s] = "none"
      /\ \A r \in Sockets : r # s => server'[r] = server[r]
    BY <1>2, <1>3
<1>. QED
    BY <1>1, <1>4, <1>5 DEF WireOK, Answering

\* What is known of an object before one of its handlers runs.
LEMMA BeforeHandler ==
    ASSUME LinkInv, NEW s \in Sockets
    PROVE  /\ ws[s] \in Socket /\ Sound(ws[s])
           /\ Idle(ws[s]) \in Socket /\ Sound(Idle(ws[s])) /\ Idle(ws[s]).events = <<>>
           /\ Idle(ws[s]).tcp = ws[s].tcp /\ Idle(ws[s]).state = ws[s].state
           /\ Idle(ws[s]).handshakeTimer = ws[s].handshakeTimer
           /\ WireOK(ws[s], wire[s], server[s])
<1>1. ws[s] \in Socket /\ Sound(ws[s]) /\ WireOK(ws[s], wire[s], server[s])
    BY DEF LinkInv, ObjectInv
<1>. QED
    BY <1>1, IdleIs DEF Sound

LEMMA SocketConnectStep ==
    ASSUME LinkInv, NEW s \in Sockets, SocketConnect(s)
    PROVE  LinkInv'
<1>1. PICK w \in HandleSocketConnect(Idle(ws[s])) : Handled(s, w)
    BY DEF SocketConnect
<1>2. /\ ws[s].tcp = "connecting"
      /\ server' = [server EXCEPT ![s] = "connected"] /\ wire' = wire
    BY DEF SocketConnect
<1>3. /\ w \in Socket /\ Sound(w) /\ w.tcp = "connected" /\ w.state = ws[s].state
      /\ w.events = <<>>
    BY <1>2, BeforeHandler, SocketConnectIs DEF Keeps
<1>4. Change(ws[s], w)
    BY <1>3, NoEvents DEF Change
<1>5. s <= current
    BY <1>2, MadeSockets
<1>6. wire \in [Sockets -> Seq(Item)] /\ server \in [Sockets -> {"none", "connected", "upgraded"}]
    BY DEF LinkInv
<1>7. /\ wire' \in [Sockets -> Seq(Item)]
      /\ server' \in [Sockets -> {"none", "connected", "upgraded"}] /\ server'[s] = "connected"
      /\ \A r \in Sockets : r # s => wire'[r] = wire[r] /\ server'[r] = server[r]
    BY <1>2, <1>6
<1>8. wire'[s] = <<>>
    BY <1>2, BeforeHandler DEF WireOK
<1>9. WireOK(w, wire'[s], server'[s])
    BY <1>3, <1>7, <1>8 DEF WireOK, Answering
<1>. QED
    BY <1>1, <1>3, <1>4, <1>5, <1>7, <1>9, HandledStep

\* A handler that leaves the object without its connection.
LEMMA LostStep ==
    ASSUME LinkInv, NEW s \in Sockets, s <= current, NEW w, Effect(Idle(ws[s]), w),
           w.tcp # "connected", Handled(s, w), Lost(s)
    PROVE  LinkInv'
<1>1. w \in Socket /\ Sound(w) /\ Change(ws[s], w)
    BY BeforeHandler, IdleChange
<1>. QED
    BY <1>1, LostIs, HandledStep

LEMMA SocketIOErrorStep ==
    ASSUME LinkInv, NEW s \in Sockets, SocketIOError(s)
    PROVE  LinkInv'
<1>1. PICK w \in HandleSocketIOError(Idle(ws[s])) : Handled(s, w)
    BY DEF SocketIOError
<1>2. ws[s].tcp # "none" /\ Lost(s)
    BY DEF SocketIOError
<1>3. w.tcp = "none" /\ Effect(Idle(ws[s]), w)
    BY BeforeHandler, SocketIOErrorEffect
<1>. QED
    BY <1>1, <1>2, <1>3, MadeSockets, LostStep

LEMMA SocketClosedStep ==
    ASSUME LinkInv, NEW s \in Sockets, SocketClosed(s)
    PROVE  LinkInv'
<1>1. PICK w \in HandleSocketClose(Idle(ws[s])) : Handled(s, w)
    BY DEF SocketClosed
<1>2. ws[s].tcp # "none" /\ Lost(s)
    BY DEF SocketClosed
<1>3. w.tcp = "none" /\ Effect(Idle(ws[s]), w)
    BY BeforeHandler, SocketClosedEffect
<1>. QED
    BY <1>1, <1>2, <1>3, MadeSockets, LostStep

LEMMA HandshakeTimerStep ==
    ASSUME LinkInv, NEW s \in Sockets, HandshakeTimer(s)
    PROVE  LinkInv'
<1>1. PICK w \in HandleHandshakeTimer(Idle(ws[s])) : Handled(s, w)
    BY DEF HandshakeTimer
<1>2. ws[s].handshakeTimer
    BY DEF HandshakeTimer
<1>3. w.tcp = "none" /\ Effect(Idle(ws[s]), w)
    BY <1>2, BeforeHandler, HandshakeTimerEffect
<1>4. ws'[s].tcp # "connected"
    <2>1. ws' = [ws EXCEPT ![s] = Idle(w)] /\ ws \in [Sockets -> Socket]
        BY <1>1 DEF Handled, LinkInv
    <2>2. w \in Socket
        BY <1>3 DEF Effect, Outcome
    <2>. QED
        BY <1>3, <2>1, <2>2, IdleIs
<1>5. Lost(s)
    BY <1>4 DEF HandshakeTimer
<1>. QED
    BY <1>1, <1>2, <1>3, <1>5, MadeSockets, LostStep

LEMMA SocketDataStep ==
    ASSUME LinkInv, NEW s \in Sockets, SocketData(s)
    PROVE  LinkInv'
<1> DEFINE o == Idle(ws[s])
           item == Head(wire[s])
           rest == Tail(wire[s])
<1>1. PICK w \in HandleSocketData(o, item) : Handled(s, w)
    BY DEF SocketData
<1>2. ws[s].tcp = "connected" /\ wire[s] # <<>>
    BY DEF SocketData
<1>3. /\ o \in Socket /\ Sound(o) /\ o.events = <<>> /\ o.tcp = "connected"
      /\ o.state = ws[s].state /\ WireOK(ws[s], wire[s], server[s]) /\ wire[s] \in Seq(Item)
    BY <1>2, BeforeHandler DEF WireOK
<1>4. item \in Item /\ rest \in Seq(Item) /\ Len(rest) = Len(wire[s]) - 1
    BY <1>2, <1>3, HeadTailProperties
<1>5. ws[s].state = "CONNECTING" =>
         \/ item.op = "accept"
         \/ server[s] = "none" /\ rest = <<>> /\ item.op \in Responses
    <2>1. Len(wire[s]) = 1 => rest = <<>>
        <3>1. Len(wire[s]) = 1 => Len(rest) = 0
            BY <1>4
        <3>2. rest # <<>> => Len(rest) \in Nat \ {0}
            BY <1>4, EmptySeq
        <3>. QED
            BY <3>1, <3>2
    <2>. QED
        BY <1>2, <1>3, <2>1 DEF WireOK, Answering
<1>6. ws[s].state = "CONNECTING" => item.op \in Responses
    BY <1>5 DEF Responses
<1>7. /\ Effect(o, w)
      /\ ws[s].state # "CONNECTING" => Outcome(o, w)
      /\ ws[s].state = "CONNECTING" /\ item.op = "accept" => Opens(o, w)
    BY <1>1, <1>3, <1>4, <1>6, SocketDataEffect
<1>8. s <= current
    BY <1>2, MadeSockets
<1>9. w \in Socket /\ Sound(w) /\ Change(ws[s], w)
    BY <1>7, BeforeHandler, IdleChange
<1>10. ws'[s].tcp = w.tcp
    BY <1>1, <1>9, IdleIs DEF Handled, LinkInv
<1>11. CASE w.tcp # "connected"
    <2>1. Lost(s)
        BY <1>10, <1>11 DEF SocketData
    <2>. QED
        BY <1>1, <1>7, <1>8, <1>11, <2>1, LostStep
<1>12. CASE w.tcp = "connected"
    <2>1. wire' = [wire EXCEPT ![s] = rest] /\ server' = server
        BY <1>10, <1>12 DEF SocketData
    <2>2. wire \in [Sockets -> Seq(Item)] /\ server \in [Sockets -> {"none", "connected", "upgraded"}]
        BY DEF LinkInv
    <2>. HIDE DEF rest, item, o
    <2>3. /\ wire' \in [Sockets -> Seq(Item)] /\ wire'[s] = rest
          /\ server' \in [Sockets -> {"none", "connected", "upgraded"}] /\ server'[s] = server[s]
          /\ \A r \in Sockets : r # s => wire'[r] = wire[r] /\ server'[r] = server[r]
        BY <1>4, <2>1, <2>2
    <2>4. w.state = "CONNECTING" => ws[s].state = "CONNECTING" /\ item.op # "accept"
        BY <1>3, <1>7 DEF Effect, Outcome, Stays, Opens, Closes, GivesUp
    <2>5. w.state = "CONNECTING" => server[s] = "none" /\ rest = <<>>
        BY <1>5, <2>4
    <2>6. server[s] \in {"none", "connected", "upgraded"}
        BY <2>2
    <2>7. WireOK(w, rest, server[s])
        BY <1>4, <1>12, <2>5, <2>6 DEF WireOK, Answering
    <2>. QED
        BY <1>1, <1>8, <1>9, <2>3, <2>7, HandledStep
<1>. QED
    BY <1>11, <1>12

-----------------------------------------------------------------------------
(* Steps of the network *)

LEMMA NetStep ==
    ASSUME LinkInv, NEW s \in Sockets, UNCHANGED <<ws, current, manager>>,
           NEW items, NEW view, wire' = [wire EXCEPT ![s] = items],
           server' = [server EXCEPT ![s] = view], WireOK(ws[s], items, view)
    PROVE  LinkInv'
<1>1. wire \in [Sockets -> Seq(Item)] /\ server \in [Sockets -> {"none", "connected", "upgraded"}]
    BY DEF LinkInv
<1>2. items \in Seq(Item) /\ view \in {"none", "connected", "upgraded"}
    BY DEF WireOK
<1>3. /\ wire' \in [Sockets -> Seq(Item)] /\ wire'[s] = items
      /\ server' \in [Sockets -> {"none", "connected", "upgraded"}] /\ server'[s] = view
      /\ \A r \in Sockets : r # s => wire'[r] = wire[r] /\ server'[r] = server[r]
    BY <1>1, <1>2
<1>4. ws' = ws /\ current' = current /\ manager' = manager
    OBVIOUS
<1>5. ManagerInv'
    BY <1>4 DEF LinkInv, ManagerInv
<1>6. ASSUME NEW r \in Sockets PROVE (ObjectInv(r) /\ WireOK(ws[r], wire[r], server[r]))'
    <2>1. ObjectInv(r) /\ WireOK(ws[r], wire[r], server[r])
        BY DEF LinkInv
    <2>2. ObjectInv(r)'
        BY <1>4, <2>1 DEF ObjectInv
    <2>3. WireOK(ws'[r], wire'[r], server'[r])
        BY <1>3, <1>4, <2>1
    <2>. QED
        BY <2>2, <2>3
<1>7. (current \in 0..MaxSockets /\ ws \in [Sockets -> Socket])'
    BY <1>4 DEF LinkInv
<1>. QED
    BY <1>3, <1>5, <1>6, <1>7 DEF LinkInv

LEMMA SendPingStep ==
    ASSUME LinkInv, SendPing
    PROVE  LinkInv'
<1> DEFINE echo == [op |-> "text", fin |-> TRUE, len |-> 1]
           items == Append(wire[current], echo)
<1>1. current \in Sockets
    BY LinkBoundsAssumption DEF LinkInv, SendPing, Sockets, ManagerInv
<1>2. ws[current].state = "OPEN" /\ ws[current].tcp = "connected"
    BY <1>1 DEF LinkInv, SendPing, ManagerInv, ObjectInv, Sound
<1>3. /\ wire[current] \in Seq(Item) /\ server[current] \in {"none", "connected", "upgraded"}
    BY <1>1 DEF LinkInv
<1>4. echo \in Item
    BY DEF Item
<1>5. items \in Seq(Item)
    BY <1>3, <1>4, AppendProperties
<1>6. /\ UNCHANGED <<ws, current, manager>> /\ server' = server
      /\ wire' = [wire EXCEPT ![current] = items]
    BY DEF SendPing
<1>7. server' = [server EXCEPT ![current] = server[current]]
    BY <1>1, <1>6 DEF LinkInv
<1>. HIDE DEF items
<1>8. WireOK(ws[current], items, server[current])
    BY <1>2, <1>3, <1>5 DEF WireOK, Answering
<1>. QED
    BY <1>1, <1>6, <1>7, <1>8, NetStep

LEMMA ServerAnswersStep ==
    ASSUME LinkInv, NEW s \in Sockets, ServerAnswers(s)
    PROVE  LinkInv'
<1>1. PICK response \in Responses :
          /\ wire' = [wire EXCEPT ![s] = Append(@, [op |-> response, fin |-> TRUE, len |-> 0])]
          /\ server' = [server EXCEPT ![s] = IF response = "accept" THEN "upgraded" ELSE "none"]
    BY DEF ServerAnswers
<1> DEFINE answer == [op |-> response, fin |-> TRUE, len |-> 0]
           items == Append(wire[s], answer)
           view == IF response = "accept" THEN "upgraded" ELSE "none"
<1>2. server[s] = "connected" /\ UNCHANGED <<ws, current, manager>>
    BY DEF ServerAnswers
<1>3. WireOK(ws[s], wire[s], server[s]) /\ wire[s] \in Seq(Item)
    BY BeforeHandler DEF WireOK
<1>4. answer \in Item /\ answer.op = response
    BY DEF Item
<1>. HIDE DEF answer
<1>5. /\ items \in Seq(Item) /\ Len(items) = Len(wire[s]) + 1
      /\ items[Len(wire[s]) + 1] = answer
    BY <1>3, <1>4, AppendProperties
<1>6. wire' = [wire EXCEPT ![s] = items] /\ server' = [server EXCEPT ![s] = view]
    BY <1>1 DEF LinkInv, answer
<1>. HIDE DEF items
<1>7. ws[s].tcp = "connected"
    BY <1>2, <1>3 DEF WireOK
<1>8. ws[s].state = "CONNECTING" => Len(items) = 1 /\ items # <<>> /\ Head(items) = answer
    <2>1. ws[s].state = "CONNECTING" => wire[s] = <<>>
        BY <1>2, <1>3, <1>7 DEF WireOK, Answering
    <2>2. ws[s].state = "CONNECTING" => Len(items) = 1 /\ items[1] = answer
        BY <1>5, <2>1, EmptySeq
    <2>3. items # <<>> => Head(items) = items[1]
        BY <1>5
    <2>4. Len(items) = 1 => items # <<>>
        BY EmptySeq
    <2>. QED
        BY <2>2, <2>3, <2>4
<1>9. WireOK(ws[s], items, view)
    BY <1>4, <1>5, <1>7, <1>8 DEF WireOK, Answering
<1>. QED
    BY <1>2, <1>6, <1>9, NetStep

LEMMA ServerFrameStep ==
    ASSUME LinkInv, NEW s \in Sockets, ServerFrame(s)
    PROVE  LinkInv'
<1>1. PICK op \in {"close", "bad"} :
          wire' = [wire EXCEPT ![s] = Append(@, [op |-> op, fin |-> TRUE, len |-> 0])]
    BY DEF ServerFrame
<1> DEFINE frame == [op |-> op, fin |-> TRUE, len |-> 0]
           items == Append(wire[s], frame)
<1>2. server[s] = "upgraded" /\ UNCHANGED <<ws, current, manager, server>>
    BY DEF ServerFrame
<1>3. WireOK(ws[s], wire[s], server[s]) /\ wire[s] \in Seq(Item)
    BY BeforeHandler DEF WireOK
<1>4. frame \in Item
    BY DEF Item
<1>. HIDE DEF frame
<1>5. /\ items \in Seq(Item) /\ Len(items) = Len(wire[s]) + 1
      /\ \A i \in 1..Len(wire[s]) : items[i] = wire[s][i]
    BY <1>3, <1>4, AppendProperties
<1>6. wire' = [wire EXCEPT ![s] = items] /\ server' = [server EXCEPT ![s] = "upgraded"]
    BY <1>1, <1>2 DEF LinkInv, frame
<1>. HIDE DEF items
<1>7. ws[s].tcp = "connected"
    BY <1>2, <1>3 DEF WireOK
<1>8. wire[s] # <<>> => items # <<>> /\ Head(items) = Head(wire[s])
    <2>1. wire[s] # <<>> => Len(wire[s]) \in Nat \ {0}
        BY <1>3, EmptySeq
    <2>2. wire[s] # <<>> => 1 \in 1..Len(wire[s]) /\ Len(items) # 0
        BY <1>5, <2>1
    <2>3. wire[s] # <<>> => items # <<>> /\ items[1] = wire[s][1]
        BY <1>5, <2>2, EmptySeq
    <2>. QED
        BY <1>3, <1>5, <2>3
<1>9. WireOK(ws[s], items, "upgraded")
    BY <1>2, <1>3, <1>5, <1>7, <1>8 DEF WireOK, Answering
<1>. QED
    BY <1>2, <1>6, <1>9, NetStep

-----------------------------------------------------------------------------
(* A new connection *)

LEMMA NewSocketIs ==
    /\ NewSocket \in Socket /\ Sound(NewSocket) /\ Idle(NewSocket) = NewSocket
    /\ NewSocket.events = <<>> /\ NewSocket.tcp = "none" /\ NewSocket.state = "INIT"
<1>1. <<>> \in Seq(Event) /\ <<>> \in Seq(Nat)
    BY EmptySeq
<1>2. NewSocket \in Socket
    BY <1>1 DEF NewSocket, Socket, NoFrames
<1>3. Idle(NewSocket) = NewSocket
    <2>1. NewSocket.events = <<>> /\ NewSocket.messages = <<>>
        BY DEF NewSocket
    <2>2. [NewSocket EXCEPT !.events = <<>>] = NewSocket
        BY <1>2, <2>1 DEF Socket
    <2>3. [NewSocket EXCEPT !.messages = <<>>] = NewSocket
        BY <1>2, <2>1 DEF Socket
    <2>. QED
        BY <2>2, <2>3 DEF Idle
<1>. QED
    BY <1>2, <1>3 DEF NewSocket, Sound

LEMMA CloseIdle ==
    ASSUME NEW o \in Socket, Sound(o), o.events = <<>>, NEW v \in Close(o, FALSE)
    PROVE  /\ Effect(o, v) /\ v.state # "OPEN" /\ (o.state # "INIT" => v.state = "CLOSED")
           /\ o.tcp = "connected" => v.tcp = "connected"
<1>1. Quiet(o.events) /\ Len(o.events) <= 1
    BY NoEvents
<1>. QED
    BY <1>1, CloseEffect

\* The objects once the current one is closed.
LEMMA ReplacedIs ==
    ASSUME LinkInv, NEW closed \in Replaced(ws, current), NEW r \in Sockets
    PROVE  /\ closed[r] \in Socket /\ Sound(closed[r])
           /\ r <= current => closed[r].state = "CLOSED"
           /\ r > current => closed[r] = NewSocket
           /\ WireOK(closed[r], wire[r], server[r])
<1>1. r \in Int /\ current \in 0..MaxSockets /\ current \in Int
    BY LinkBoundsAssumption DEF LinkInv, Sockets
<1>2. ws \in [Sockets -> Socket] /\ ObjectInv(r) /\ WireOK(ws[r], wire[r], server[r])
    BY DEF LinkInv
<1>3. CASE closed[r] = ws[r] /\ r # current
    BY <1>1, <1>2, <1>3 DEF ObjectInv
<1>4. CASE current # 0 /\ r = current
    <2>1. PICK v \in Close(Idle(ws[current]), FALSE) : closed = [ws EXCEPT ![current] = v]
        BY <1>4 DEF Replaced
    <2>2. closed[r] = v
        BY <1>2, <1>4, <2>1
    <2> DEFINE o == Idle(ws[r])
    <2>3. /\ o \in Socket /\ Sound(o) /\ o.events = <<>>
          /\ o.tcp = ws[r].tcp /\ o.state # "INIT" /\ v \in Close(o, FALSE)
        BY <1>2, <1>4, <2>1, BeforeHandler DEF ObjectInv
    <2>. HIDE DEF o
    <2>4. /\ Effect(o, v) /\ (ws[r].tcp = "connected" => v.tcp = "connected")
          /\ v.state = "CLOSED"
        BY <2>3, CloseIdle
    <2>5. v \in Socket /\ Sound(v)
        BY <2>3, <2>4 DEF Effect, Outcome, Keeps
    <2>6. WireOK(v, wire[r], server[r])
        BY <1>2, <2>4 DEF WireOK, Answering
    <2>. QED
        BY <1>1, <1>4, <2>2, <2>4, <2>5, <2>6
<1>5. closed[r] = ws[r] \/ r = current
    <2>1. CASE current = 0
        BY <2>1 DEF Replaced
    <2>2. CASE current # 0
        BY <1>2, <2>2 DEF Replaced
    <2>. QED
        BY <2>1, <2>2
<1>6. r # 0
    BY <1>1 DEF Sockets
<1>. QED
    BY <1>3, <1>4, <1>5, <1>6

\* The close of the current object leaves the manager unconnected.
LEMMA ReplacedManager ==
    ASSUME LinkInv, current # 0, NEW v \in Close(Idle(ws[current]), FALSE), NEW m \in Manager,
           m.connected = manager.connected, m.pinging = manager.pinging
    PROVE  /\ Heard(m, v.events) \in Manager
           /\ ~Heard(m, v.events).connected /\ ~Heard(m, v.events).pinging
<1>1. current \in Sockets
    BY LinkBoundsAssumption DEF LinkInv, Sockets
<1> DEFINE o == Idle(ws[current])
<1>2. o \in Socket /\ Sound(o) /\ o.events = <<>> /\ v \in Close(o, FALSE)
    BY <1>1, BeforeHandler
<1>3. Effect(o, v) /\ v.state # "OPEN"
    <2>. HIDE DEF o
    <2>. QED
        BY <1>2, CloseIdle
<1>4. v \in Socket /\ Change(ws[current], v)
    BY <1>1, <1>3, BeforeHandler, IdleChange
<1>5. (m.connected => ws[current].state = "OPEN") /\ (m.pinging => m.connected)
    BY DEF LinkInv, ManagerInv
<1>6. CASE Closes(ws[current], v)
    BY <1>4, <1>6, HeardEndsClosed DEF Closes, Socket
<1>7. CASE Quiet(v.events) /\ ws[current].state # "OPEN"
    BY <1>5, <1>7, HeardQuiet
<1>. QED
    BY <1>3, <1>4, <1>6, <1>7 DEF Change, Opens, GivesUp

LEMMA ConnectToStep ==
    ASSUME LinkInv, ConnectTo
    PROVE  LinkInv'
<1> DEFINE new == current + 1
           m == [manager EXCEPT !.told = "none"]
<1>1. current \in 0..MaxSockets /\ current \in Int /\ current < MaxSockets /\ current' = new
    BY LinkBoundsAssumption DEF LinkInv, ConnectTo
<1>2. PICK closed \in Replaced(ws, current), w \in Connect(NewSocket) :
          /\ ws' = [s \in Sockets |-> IF s = current + 1 THEN w ELSE Idle(closed[s])]
          /\ manager' = IF current = 0 THEN m ELSE Heard(m, closed[current].events)
    BY DEF ConnectTo
<1>3. wire' = wire /\ server' = server
    BY DEF ConnectTo, net
<1>4. new \in 0..MaxSockets /\ new \in Int /\ \A r \in Sockets : r \in Int
    BY <1>1, LinkBoundsAssumption DEF Sockets
<1>5. /\ w \in Socket /\ w.state = "CONNECTING" /\ w.tcp = "connecting" /\ w.events = <<>>
      /\ Sound(w)
    <2>1. /\ w \in Socket /\ w.state = "CONNECTING" /\ w.tcp = "connecting"
          /\ w.events = NewSocket.events /\ w.waiting = NewSocket.waiting
          /\ w.closeTimer = NewSocket.closeTimer
        BY NewSocketIs, ConnectIs
    <2>. QED
        BY <2>1, NewSocketIs DEF Sound
<1>6. ASSUME NEW r \in Sockets
      PROVE  /\ Idle(closed[r]) \in Socket /\ Sound(Idle(closed[r])) /\ Idle(closed[r]).events = <<>>
             /\ r <= current => Idle(closed[r]).state = "CLOSED"
             /\ r > current => Idle(closed[r]) = NewSocket
             /\ WireOK(Idle(closed[r]), wire[r], server[r])
    <2>1. /\ closed[r] \in Socket /\ Sound(closed[r])
          /\ r <= current => closed[r].state = "CLOSED"
          /\ r > current => closed[r] = NewSocket
          /\ WireOK(closed[r], wire[r], server[r])
        BY ReplacedIs
    <2>2. Sound(Idle(closed[r]))
        BY <2>1, IdleIs DEF Sound
    <2>. QED
        BY <2>1, <2>2, IdleIs, NewSocketIs, WireIdle
<1>7. \A r \in Sockets : r # new => ws'[r] = Idle(closed[r])
    BY <1>2
<1>8. \A r \in Sockets : r = new => ws'[r] = w
    BY <1>2
<1>9. ws' \in [Sockets -> Socket]
    BY <1>2, <1>5, <1>6
<1>10. ManagerInv'
    <2>1. /\ m \in Manager /\ m.connected = manager.connected /\ m.pinging = manager.pinging
        BY DEF LinkInv, ManagerInv, Manager
    <2>. HIDE DEF m
    <2>2. CASE current = 0
        BY <1>2, <2>1, <2>2 DEF LinkInv, ManagerInv
    <2>3. CASE current # 0
        <3>1. PICK v \in Close(Idle(ws[current]), FALSE) : closed = [ws EXCEPT ![current] = v]
            BY <2>3 DEF Replaced
        <3>2. current \in Sockets
            BY <1>1, <2>3 DEF Sockets
        <3>3. closed[current] = v
            BY <3>1, <3>2 DEF LinkInv
        <3>4. manager' = Heard(m, v.events)
            BY <1>2, <2>3, <3>3
        <3>. QED
            BY <2>1, <2>3, <3>4, ReplacedManager DEF ManagerInv
    <2>. QED
        BY <2>2, <2>3
<1>11. ASSUME NEW r \in Sockets PROVE ObjectInv(r)'
    <2>1. CASE r = new
        <3>1. ws'[r] = w /\ current' = r /\ ~(r > r) /\ ~(r < r)
            BY <1>1, <1>4, <1>8, <2>1
        <3>. QED
            BY <1>5, <3>1 DEF ObjectInv
    <2>2. CASE r # new
        <3>1. ws'[r] = Idle(closed[r])
            BY <1>7, <2>2
        <3>2. (r > current' => r > current) /\ (r < current' => r <= current) /\ r # current'
            BY <1>1, <1>4, <2>2
        <3>. QED
            BY <1>6, <3>1, <3>2 DEF ObjectInv
    <2>. QED
        BY <2>1, <2>2
<1>12. ASSUME NEW r \in Sockets PROVE WireOK(ws[r], wire[r], server[r])'
    <2>1. WireOK(ws'[r], wire[r], server[r])
        <3>1. CASE r = new
            <4>1. ws[r] = NewSocket /\ WireOK(ws[r], wire[r], server[r])
                BY <1>1, <1>4, <3>1 DEF LinkInv, ObjectInv
            <4>2. ws'[r] = w
                BY <1>8, <3>1
            <4>. QED
                BY <1>5, <4>1, <4>2, NewSocketIs DEF WireOK, Answering
        <3>2. CASE r # new
            BY <1>6, <1>7, <3>2
        <3>. QED
            BY <3>1, <3>2
    <2>2. WireOK(ws'[r], wire'[r], server'[r])
        BY <1>3, <2>1
    <2>. QED
        BY <2>2
<1>13. (current \in 0..MaxSockets)'
    BY <1>1, <1>4
<1>14. wire' \in [Sockets -> Seq(Item)] /\ server' \in [Sockets -> {"none", "connected", "upgraded"}]
    BY <1>3 DEF LinkInv
<1>. QED
    BY <1>9, <1>10, <1>11, <1>12, <1>13, <1>14 DEF LinkInv

-----------------------------------------------------------------------------
(* The theorems *)

LEMMA LinkInit == Init => LinkInv
<1> SUFFICES ASSUME Init PROVE LinkInv
    OBVIOUS
<1>1. /\ ws = [s \in Sockets |-> NewSocket] /\ current = 0
      /\ manager = [connected |-> FALSE, pinging |-> FALSE, told |-> "none"]
      /\ wire = [s \in Sockets |-> <<>>] /\ server = [s \in Sockets |-> "none"]
    BY DEF Init
<1>2. <<>> \in Seq(Item)
    BY EmptySeq
<1>3. /\ ws \in [Sockets -> Socket] /\ wire \in [Sockets -> Seq(Item)]
      /\ server \in [Sockets -> {"none", "connected", "upgraded"}]
    BY <1>1, <1>2, NewSocketIs
<1>4. ManagerInv
    BY <1>1 DEF ManagerInv, Manager
<1>5. ASSUME NEW s \in Sockets PROVE ObjectInv(s) /\ WireOK(ws[s], wire[s], server[s])
    <2>1. ws[s] = NewSocket /\ wire[s] = <<>> /\ server[s] = "none"
        BY <1>1
    <2>2. s > current /\ ~(s < current) /\ s # current
        BY <1>1, LinkBoundsAssumption DEF Sockets
    <2>3. ObjectInv(s)
        BY <2>1, <2>2, NewSocketIs DEF ObjectInv
    <2>4. WireOK(ws[s], wire[s], server[s])
        BY <1>2, <2>1, NewSocketIs DEF WireOK, Answering
    <2>. QED
        BY <2>3, <2>4
<1>6. current \in 0..MaxSockets
    BY <1>1, LinkBoundsAssumption
<1>. QED
    BY <1>3, <1>4, <1>5, <1>6 DEF LinkInv

LEMMA LinkStutter ==
    ASSUME LinkInv, UNCHANGED vars
    PROVE  LinkInv'
<1>1. ws' = ws /\ current' = current /\ manager' = manager /\ wire' = wire /\ server' = server
    BY DEF vars, net
<1>. QED
    BY <1>1 DEF LinkInv, ManagerInv, ObjectInv

LEMMA LinkInvariant == Spec => []LinkInv
<1>1. LinkInv /\ [Next]_vars => LinkInv'
    <2> SUFFICES ASSUME LinkInv, [Next]_vars PROVE LinkInv'
        OBVIOUS
    <2>1. CASE ConnectTo
        BY <2>1, ConnectToStep
    <2>2. CASE SendPing
        BY <2>2, SendPingStep
    <2>3. ASSUME NEW s \in Sockets, Step(s) PROVE LinkInv'
        BY <2>3, SocketConnectStep, SocketIOErrorStep, SocketClosedStep, SocketDataStep,
           HandshakeTimerStep, ServerAnswersStep, ServerFrameStep DEF Step
    <2>4. CASE UNCHANGED vars
        BY <2>4, LinkStutter
    <2>. QED
        BY <2>1, <2>2, <2>3, <2>4 DEF Next
<1>. QED
    BY LinkInit, <1>1, PTL DEF Spec

\* The types, for any number of connections.
THEOREM LinkTypes == Spec => []TypeOK
<1>1. LinkInv => TypeOK
    BY DEF LinkInv, ManagerInv, Manager, TypeOK
<1>. QED
    BY LinkInvariant, <1>1, PTL

\* While `connected' is set the current WebSocket is open and has its connection,
\* whatever the WebSockets report that connect() replaced (sendData, sendPing,
\* Esp8266SocketManager.as:76-96).
THEOREM ConnectedMeansOpen == Spec => []ConnectedIsOpen
<1>1. LinkInv => ConnectedIsOpen
    <2> SUFFICES ASSUME LinkInv, manager.connected
                 PROVE  current # 0 /\ ws[current].state = "OPEN" /\ ws[current].tcp = "connected"
        BY DEF ConnectedIsOpen
    <2>1. current # 0 /\ ws[current].state = "OPEN"
        BY DEF LinkInv, ManagerInv
    <2>2. current \in Sockets
        BY <2>1, LinkBoundsAssumption DEF LinkInv, Sockets
    <2>. QED
        BY <2>1, <2>2 DEF LinkInv, ObjectInv, Sound
<1>. QED
    BY LinkInvariant, <1>1, PTL

\* No sequence of events, of any number of WebSockets, lets the ping timer run
\* without the flag it looks at (Esp8266SocketManager.as:49-74).
THEOREM PingsImplyConnected == Spec => []PingsOnlyWhileConnected
<1>1. LinkInv => PingsOnlyWhileConnected
    BY DEF LinkInv, ManagerInv, PingsOnlyWhileConnected
<1>. QED
    BY LinkInvariant, <1>1, PTL

\* A WebSocket that connect() replaced is closed for ever, in whatever state it
\* was and whatever the network still does with its connection
\* (Esp8266SocketManager.as:34-37, WebSocket.as:403-430).
THEOREM ReplacedStaysClosed == Spec => []ReplacedNeverOpen
<1>1. LinkInv => ReplacedNeverOpen
    BY DEF LinkInv, ObjectInv, ReplacedNeverOpen
<1>. QED
    BY LinkInvariant, <1>1, PTL
=============================================================================

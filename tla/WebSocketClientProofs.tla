----------------------- MODULE WebSocketClientProofs -----------------------
(***************************************************************************)
(* The WebSocket object of the application, for any frames, any limits and *)
(* any number of connections: what it reports and what it dispatches.      *)
(***************************************************************************)
EXTENDS WebSocketClient, WebSocketProofs, FiniteSetTheorems

\* A connection whose end was reported cannot end again: the object is CLOSED, and
\* no timer and no attempt is left that could report another.
CloseInv ==
    /\ closes \in {0, 1}
    /\ closes = 1 => ws.state = "CLOSED" /\ ~ws.handshakeTimer /\ ws.tcp # "connecting"

\* Nothing is on its way without a connection.  During the handshake the first thing
\* to arrive is the answer to it, and only frames come after an acceptance.
FramesFrom(n, items) == \A i \in n..Len(items) : items[i].op \notin Responses
Answering(items, view) ==
    \/ view \in {"connected", "none"} /\ items = <<>>
    \/ view = "none" /\ Len(items) = 1 /\ Head(items).op \in {"refuse", "garbled"}
    \/ view = "upgraded" /\ items # <<>> /\ Head(items).op = "accept" /\ FramesFrom(2, items)
NetInv ==
    /\ ws.tcp = "connecting" => ws.state # "OPEN"
    /\ ws.tcp # "connected" =>
          wire = <<>> /\ server = "none" /\ frames = 0 /\ assembly = NothingRead
    /\ ws.tcp = "connected" /\ ws.state = "CONNECTING" =>
          assembly = NothingRead /\ Answering(wire, server)
    /\ ws.tcp = "connected" /\ ws.state = "OPEN" => server = "upgraded" /\ FramesFrom(1, wire)

\* On its first connection an object is sound.
FirstInv ==
    /\ connects = 0 => ws = NewSocket
    /\ connects <= 1 => Sound(ws)

\* What the object holds of an unfinished message is what the frames read say.
Tracks(w, a) ==
    /\ a.ok /\ ~w.fatal /\ ~w.poisoned
    /\ IF a.len = -1 THEN w.queue = NoFrames /\ w.opcode = "none"
       ELSE w.queue = [op |-> "text", len |-> a.len] /\ w.opcode = "text"
TrackInv ==
    connects = 1 /\ AssembleFragments =>
        /\ ws.state = "CONNECTING" => ~ws.fatal /\ ws.opcode = "none" /\ messages = <<>>
        /\ ws.state = "OPEN" => Tracks(ws, assembly) /\ messages = assembly.out

ClientInv == TypeOK /\ CloseInv /\ NetInv /\ FirstInv /\ TrackInv /\ Bounded(ws)

-----------------------------------------------------------------------------
(* Counting *)

Reported(events) == {i \in DOMAIN events : events[i] = "CLOSED"}

LEMMA QuietReportsNothing ==
    ASSUME NEW events, Quiet(events)
    PROVE  Cardinality(Reported(events)) = 0
<1>1. Reported(events) = {}
    BY DEF Quiet, Reported, Loud
<1>. QED
    BY <1>1, FS_EmptySet

LEMMA OpenReportsNothing == Cardinality(Reported(<<"OPEN">>)) = 0
<1>1. Reported(<<"OPEN">>) = {}
    BY DEF Reported
<1>. QED
    BY <1>1, FS_EmptySet

LEMMA EndReportsOnce ==
    ASSUME NEW events \in Seq(Event), EndsClosed(events)
    PROVE  Cardinality(Reported(events)) = 1
<1>1. DOMAIN events = 1..Len(events) /\ Len(events) \in 1..Len(events)
    BY DEF EndsClosed
<1>2. Reported(events) = {Len(events)}
    BY <1>1 DEF Reported, EndsClosed
<1>. QED
    BY <1>2, FS_Singleton

-----------------------------------------------------------------------------
(* The object *)

\* Whatever a handler makes of the object, its end is reported once, the queue stays
\* bounded and a first connection sound.
LEMMA ObjectStep ==
    ASSUME ClientInv, connects # 0, NEW w, Effect(ws, w), Becomes(w), UNCHANGED connects
    PROVE  /\ ws' \in Socket /\ closes' \in Nat /\ messages' \in Seq(Nat) /\ connects' \in Nat
           /\ CloseInv' /\ FirstInv' /\ Bounded(ws)'
<1>1. /\ ws' = w /\ messages' = messages \o w.messages
      /\ closes' = closes + Cardinality(Reported(w.events))
    BY DEF Becomes, Reported
<1>2. /\ w \in Socket /\ Keeps(ws, w)
      /\ Stays(ws, w) \/ Closes(ws, w) \/ Opens(ws, w) \/ GivesUp(ws, w)
    BY DEF Effect, Outcome
<1>3. /\ ws \in Socket /\ messages \in Seq(Nat) /\ connects \in Nat /\ CloseInv /\ FirstInv /\ Bounded(ws)
    BY DEF ClientInv, TypeOK
<1>4. messages' \in Seq(Nat)
    <2>1. w.messages \in Seq(Nat)
        BY <1>2 DEF Socket
    <2>. QED
        BY <1>1, <1>3, <2>1, ConcatProperties
<1>5. closes' \in Nat /\ CloseInv'
    <2>1. CASE Stays(ws, w)
        <3>1. closes' = closes
            BY <1>1, <1>3, <2>1, QuietReportsNothing DEF Stays, CloseInv
        <3>. QED
            BY <1>1, <1>3, <2>1, <3>1 DEF Stays, CloseInv
    <2>2. CASE GivesUp(ws, w)
        <3>1. closes = 0
            BY <1>3, <2>2 DEF GivesUp, CloseInv
        <3>2. closes' = 0
            BY <1>1, <3>1, <2>2, QuietReportsNothing DEF GivesUp
        <3>. QED
            BY <3>2 DEF CloseInv
    <2>3. CASE Opens(ws, w)
        <3>1. closes = 0
            BY <1>3, <2>3 DEF Opens, CloseInv
        <3>2. closes' = 0
            BY <1>1, <3>1, <2>3, OpenReportsNothing DEF Opens
        <3>. QED
            BY <3>2 DEF CloseInv
    <2>4. CASE Closes(ws, w)
        <3>1. closes = 0
            BY <1>3, <2>4 DEF Closes, CloseInv
        <3>2. w.events \in Seq(Event)
            BY <1>2 DEF Socket
        <3>3. closes' = 1
            BY <1>1, <3>1, <3>2, <2>4, EndReportsOnce DEF Closes
        <3>. QED
            BY <1>1, <3>3, <2>4 DEF Closes, CloseInv
    <2>. QED
        BY <1>2, <2>1, <2>2, <2>3, <2>4
<1>6. FirstInv' /\ Bounded(ws)'
    BY <1>1, <1>2, <1>3 DEF FirstInv, Keeps
<1>. QED
    BY <1>1, <1>2, <1>3, <1>4, <1>5, <1>6

\* The network keeps in step with an object that does not open.
LEMMA NetStep ==
    ASSUME ClientInv, NEW w, Effect(ws, w), ws.state = "CONNECTING" => w.state # "OPEN",
           ws' = w, KeepsOrLosesServer
    PROVE  /\ wire' \in Seq(Item) /\ frames' \in Nat
           /\ server' \in {"none", "connected", "upgraded"}
           /\ assembly' \in [ok : BOOLEAN, len : Nat \cup {-1}, out : Seq(Nat)]
           /\ NetInv'
<1>1. /\ wire \in Seq(Item) /\ frames \in Nat /\ server \in {"none", "connected", "upgraded"}
      /\ assembly \in [ok : BOOLEAN, len : Nat \cup {-1}, out : Seq(Nat)] /\ NetInv
    BY DEF ClientInv, TypeOK
<1>2. /\ w.state = ws.state \/ w.state = "CLOSED"
      /\ w.tcp \in {ws.tcp, "none"} \/ (w.tcp = "connected" /\ w.state = "CLOSED")
    BY DEF Effect, Outcome, Stays, Closes, Opens, GivesUp
<1>3. CASE w.tcp = "connected"
    <2>1. wire' = wire /\ server' = server /\ frames' = frames /\ assembly' = assembly
        BY <1>3 DEF KeepsOrLosesServer
    <2>. QED
        BY <1>1, <1>2, <1>3, <2>1 DEF NetInv
<1>4. CASE w.tcp # "connected"
    <2>1. wire' = <<>> /\ server' = "none" /\ frames' = 0 /\ assembly' = NothingRead
        BY <1>4 DEF KeepsOrLosesServer
    <2>2. <<>> \in Seq(Item) /\ <<>> \in Seq(Nat)
        BY EmptySeq
    <2>3. NothingRead \in [ok : BOOLEAN, len : Nat \cup {-1}, out : Seq(Nat)]
        BY <2>2 DEF NothingRead
    <2>4. w.tcp = "connecting" => w.state # "OPEN"
        BY <1>1, <1>2, <1>4 DEF NetInv
    <2>5. NetInv'
        BY <1>4, <2>1, <2>4 DEF NetInv
    <2>. QED
        BY <2>1, <2>2, <2>3, <2>5
<1>. QED
    BY <1>3, <1>4

\* A handler after which nothing is left to read.
LEMMA ClosedStep ==
    ASSUME ClientInv, connects # 0, NEW w, Effect(ws, w),
           connects = 1 => w.state \notin {"CONNECTING", "OPEN"},
           ws.state = "CONNECTING" => w.state # "OPEN",
           Becomes(w), UNCHANGED connects, KeepsOrLosesServer
    PROVE  ClientInv'
<1>1. ws' = w
    BY DEF Becomes
<1>2. /\ ws' \in Socket /\ closes' \in Nat /\ messages' \in Seq(Nat) /\ connects' \in Nat
      /\ CloseInv' /\ FirstInv' /\ Bounded(ws)'
    BY ObjectStep
<1>3. /\ wire' \in Seq(Item) /\ frames' \in Nat
      /\ server' \in {"none", "connected", "upgraded"}
      /\ assembly' \in [ok : BOOLEAN, len : Nat \cup {-1}, out : Seq(Nat)]
      /\ NetInv'
    BY <1>1, NetStep
<1>4. TrackInv'
    BY <1>1 DEF TrackInv
<1>. QED
    BY <1>2, <1>3, <1>4 DEF ClientInv, TypeOK

-----------------------------------------------------------------------------
(* The actions that end a connection *)

LEMMA BeforeHandler ==
    ASSUME ClientInv
    PROVE  /\ ws \in Socket /\ Idle(ws) \in Socket
           /\ Idle(ws).events = <<>> /\ Idle(ws).messages = <<>>
           /\ Quiet(Idle(ws).events) /\ Len(Idle(ws).events) <= 1
           /\ Idle(ws).tcp = ws.tcp /\ Idle(ws).state = ws.state
           /\ Idle(ws).handshakeTimer = ws.handshakeTimer
           /\ Idle(ws).fatal = ws.fatal /\ Idle(ws).opcode = ws.opcode
           /\ Idle(ws).queue = ws.queue /\ Idle(ws).size = ws.size
           /\ Idle(ws).poisoned = ws.poisoned
           /\ connects = 0 => /\ ws.tcp = "none" /\ ws.state = "INIT"
                              /\ ~ws.handshakeTimer /\ ~ws.closeTimer
           /\ connects = 1 => Sound(ws) /\ Sound(Idle(ws))
<1>1. ws \in Socket /\ FirstInv
    BY DEF ClientInv, TypeOK
<1>2. connects = 0 => /\ ws.tcp = "none" /\ ws.state = "INIT"
                      /\ ~ws.handshakeTimer /\ ~ws.closeTimer
    BY <1>1 DEF FirstInv, NewSocket
<1>3. connects = 1 => Sound(ws) /\ Sound(Idle(ws))
    BY <1>1, IdleEffect DEF FirstInv
<1>. QED
    BY <1>1, <1>2, <1>3, IdleIs, NoEvents

LEMMA AppCloseStep ==
    ASSUME ClientInv, NEW waitForServer \in BOOLEAN, AppClose(waitForServer)
    PROVE  ClientInv'
<1>1. PICK w \in Close(Idle(ws), waitForServer) : Becomes(w)
    BY DEF AppClose
<1>2. ws.state # "INIT" /\ KeepsOrLosesServer /\ UNCHANGED connects
    BY DEF AppClose
<1>3. /\ Effect(Idle(ws), w)
      /\ ws.state = "CONNECTING" => w.state = "CLOSED"
      /\ Sound(Idle(ws)) => w.state = "CLOSED"
    BY <1>2, BeforeHandler, CloseEffect
<1>4. Effect(ws, w)
    BY <1>3, BeforeHandler, IdleEffect
<1>. QED
    BY <1>1, <1>2, <1>3, <1>4, BeforeHandler, ClosedStep

LEMMA SocketIOErrorStep == ClientInv /\ SocketIOError => ClientInv'
<1> SUFFICES ASSUME ClientInv, SocketIOError PROVE ClientInv'
    OBVIOUS
<1>1. PICK w \in HandleSocketIOError(Idle(ws)) : Becomes(w)
    BY DEF SocketIOError
<1>2. ws.tcp # "none" /\ KeepsOrLosesServer /\ UNCHANGED connects
    BY DEF SocketIOError
<1>3. w.state = "CLOSED" /\ Effect(ws, w)
    BY BeforeHandler, SocketIOErrorEffect, IdleEffect
<1>. QED
    BY <1>1, <1>2, <1>3, BeforeHandler, ClosedStep

LEMMA SocketClosedStep == ClientInv /\ SocketClosed => ClientInv'
<1> SUFFICES ASSUME ClientInv, SocketClosed PROVE ClientInv'
    OBVIOUS
<1>1. PICK w \in HandleSocketClose(Idle(ws)) : Becomes(w)
    BY DEF SocketClosed
<1>2. ws.tcp = "connected" /\ KeepsOrLosesServer /\ UNCHANGED connects
    BY DEF SocketClosed
<1>3. w.state = "CLOSED" /\ Effect(ws, w)
    BY BeforeHandler, SocketClosedEffect, IdleEffect
<1>. QED
    BY <1>1, <1>2, <1>3, BeforeHandler, ClosedStep

LEMMA HandshakeTimerStep == ClientInv /\ HandshakeTimer => ClientInv'
<1> SUFFICES ASSUME ClientInv, HandshakeTimer PROVE ClientInv'
    OBVIOUS
<1>1. PICK w \in HandleHandshakeTimer(Idle(ws)) : Becomes(w)
    BY DEF HandshakeTimer
<1>2. ws.handshakeTimer /\ KeepsOrLosesServer /\ UNCHANGED connects
    BY DEF HandshakeTimer
<1>3. w.state = "CLOSED" /\ Effect(ws, w)
    BY <1>2, BeforeHandler, HandshakeTimerEffect, IdleEffect
<1>. QED
    BY <1>1, <1>2, <1>3, BeforeHandler, ClosedStep

\* On the first connection the timer runs only after a close.
LEMMA CloseTimerStep == ClientInv /\ CloseTimer => ClientInv'
<1> SUFFICES ASSUME ClientInv, CloseTimer PROVE ClientInv'
    OBVIOUS
<1>1. PICK w \in HandleCloseTimer(Idle(ws)) : Becomes(w)
    BY DEF CloseTimer
<1>2. ws.closeTimer /\ KeepsOrLosesServer /\ UNCHANGED connects
    BY DEF CloseTimer
<1>3. w.state = ws.state /\ Effect(ws, w)
    BY BeforeHandler, CloseTimerEffect, IdleEffect
<1>4. connects # 0 /\ (connects = 1 => ws.state = "CLOSED")
    BY <1>2, BeforeHandler DEF Sound
<1>5. ws' = w
    BY <1>1 DEF Becomes
<1>6. /\ ws' \in Socket /\ closes' \in Nat /\ messages' \in Seq(Nat) /\ connects' \in Nat
      /\ CloseInv' /\ FirstInv' /\ Bounded(ws)'
    BY <1>1, <1>2, <1>3, <1>4, ObjectStep
<1>7. /\ wire' \in Seq(Item) /\ frames' \in Nat
      /\ server' \in {"none", "connected", "upgraded"}
      /\ assembly' \in [ok : BOOLEAN, len : Nat \cup {-1}, out : Seq(Nat)]
      /\ NetInv'
    BY <1>2, <1>3, <1>5, NetStep
<1>8. TrackInv'
    BY <1>2, <1>3, <1>4, <1>5 DEF TrackInv
<1>. QED
    BY <1>6, <1>7, <1>8 DEF ClientInv, TypeOK

-----------------------------------------------------------------------------
(* The beginning of a connection *)

LEMMA AppConnectStep == ClientInv /\ AppConnect => ClientInv'
<1> SUFFICES ASSUME ClientInv, AppConnect PROVE ClientInv'
    OBVIOUS
<1>1. /\ ws' \in Connect(Idle(ws)) /\ ws.state \in {"INIT", "CLOSED"}
      /\ connects' = connects + 1 /\ closes' = 0 /\ messages' = <<>>
      /\ wire' = <<>> /\ server' = "none" /\ frames' = 0 /\ assembly' = NothingRead
    BY DEF AppConnect
<1> DEFINE i == Idle(ws)
<1>2. /\ i \in Socket /\ i.state \in {"INIT", "CLOSED"} /\ ws' \in Connect(i)
      /\ i.queue = ws.queue /\ i.size = ws.size
      /\ connects = 0 => /\ ~i.waiting /\ ~i.closeTimer /\ ~i.fatal /\ i.opcode = "none"
    BY <1>1, BeforeHandler, IdleIs DEF ClientInv, FirstInv, NewSocket
<1>. HIDE DEF i
<1>3. /\ ws' \in Socket /\ ws'.state = "CONNECTING" /\ ws'.tcp = "connecting"
      /\ ws'.waiting = i.waiting /\ ws'.closeTimer = i.closeTimer
      /\ ws'.queue = i.queue /\ ws'.size = i.size
      /\ ws'.opcode = i.opcode /\ ws'.fatal = i.fatal
    BY <1>2, ConnectIs
<1>4. connects \in Nat /\ FirstInv /\ Bounded(ws)
    BY DEF ClientInv, TypeOK
<1>5. <<>> \in Seq(Item) /\ <<>> \in Seq(Nat)
    BY EmptySeq
<1>6. NothingRead \in [ok : BOOLEAN, len : Nat \cup {-1}, out : Seq(Nat)]
    BY <1>5 DEF NothingRead
<1>7. TypeOK'
    BY <1>1, <1>3, <1>4, <1>5, <1>6 DEF TypeOK
<1>8. connects' # 0 /\ (connects' <= 1 => connects = 0)
    BY <1>1, <1>4
<1>9. FirstInv'
    BY <1>2, <1>3, <1>8 DEF FirstInv, Sound
<1>10. Bounded(ws)'
    BY <1>2, <1>3, <1>4 DEF Bounded
<1>11. CloseInv' /\ NetInv'
    BY <1>1, <1>3 DEF CloseInv, NetInv
<1>12. TrackInv'
    BY <1>1, <1>2, <1>3, <1>8 DEF TrackInv
<1>. QED
    BY <1>7, <1>9, <1>10, <1>11, <1>12 DEF ClientInv

LEMMA SocketConnectStep == ClientInv /\ SocketConnect => ClientInv'
<1> SUFFICES ASSUME ClientInv, SocketConnect PROVE ClientInv'
    OBVIOUS
<1>1. PICK w \in HandleSocketConnect(Idle(ws)) : Becomes(w)
    BY DEF SocketConnect
<1>2. /\ ws.tcp = "connecting" /\ server' = "connected" /\ wire' = wire /\ frames' = frames
      /\ connects' = connects /\ assembly' = assembly
    BY DEF SocketConnect
<1>3. /\ w \in Socket /\ Keeps(Idle(ws), w) /\ w.tcp = "connected" /\ w.state = ws.state
      /\ w.events = <<>> /\ w.messages = <<>> /\ w.fatal = ws.fatal /\ w.opcode = ws.opcode
      /\ w.queue = ws.queue /\ w.size = ws.size
    BY <1>2, BeforeHandler, SocketConnectIs
<1>4. TypeOK /\ CloseInv /\ NetInv /\ FirstInv /\ TrackInv /\ Bounded(ws)
    BY DEF ClientInv
<1>5. /\ ws' = w /\ closes' = closes + Cardinality(Reported(w.events))
      /\ messages' = messages \o <<>>
    BY <1>1, <1>3 DEF Becomes, Reported
<1>6. messages' = messages
    BY <1>4, <1>5, ConcatProperties DEF TypeOK
<1>7. closes = 0 /\ closes' = 0
    BY <1>2, <1>3, <1>4, <1>5, NoEvents, QuietReportsNothing DEF CloseInv
<1>8. wire' = <<>> /\ assembly' = NothingRead /\ w.state # "OPEN"
    BY <1>2, <1>3, <1>4 DEF NetInv
<1>9. TypeOK'
    BY <1>2, <1>3, <1>4, <1>5, <1>6, <1>7 DEF TypeOK
<1>10. NetInv'
    BY <1>2, <1>3, <1>5, <1>8 DEF NetInv, Answering
<1>11. FirstInv'
    BY <1>2, <1>3, <1>4, <1>5, BeforeHandler DEF FirstInv, Keeps, TypeOK
<1>12. CloseInv' /\ Bounded(ws)'
    BY <1>3, <1>4, <1>5, <1>7 DEF CloseInv, Bounded
<1>13. TrackInv'
    BY <1>2, <1>3, <1>4, <1>5, <1>6, <1>8 DEF TrackInv
<1>. QED
    BY <1>9, <1>10, <1>11, <1>12, <1>13 DEF ClientInv

-----------------------------------------------------------------------------
(* The server *)

\* What the server sends leaves the object alone.
LEMMA ServerStep ==
    ASSUME ClientInv, NEW item \in Item, ServerSends(item),
           server' \in {"none", "connected", "upgraded"}, frames' \in Nat
    PROVE  /\ TypeOK' /\ CloseInv' /\ FirstInv' /\ TrackInv' /\ Bounded(ws)'
           /\ ws' = ws /\ assembly' = assembly
           /\ wire \in Seq(Item) /\ wire' = Append(wire, item)
           /\ Len(wire') = Len(wire) + 1 /\ wire'[Len(wire) + 1] = item
           /\ \A i \in 1..Len(wire) : wire'[i] = wire[i]
<1>1. /\ wire' = Append(wire, item) /\ ws' = ws /\ connects' = connects /\ closes' = closes
      /\ messages' = messages /\ assembly' = assembly
    BY DEF ServerSends
<1>2. TypeOK /\ CloseInv /\ FirstInv /\ TrackInv /\ Bounded(ws)
    BY DEF ClientInv
<1>3. /\ wire \in Seq(Item) /\ Append(wire, item) \in Seq(Item)
      /\ Len(Append(wire, item)) = Len(wire) + 1 /\ Append(wire, item)[Len(wire) + 1] = item
      /\ \A i \in 1..Len(wire) : Append(wire, item)[i] = wire[i]
    BY <1>2, AppendProperties DEF TypeOK
<1>4. TypeOK'
    BY <1>1, <1>2, <1>3 DEF TypeOK
<1>5. CloseInv' /\ FirstInv' /\ Bounded(ws)'
    BY <1>1, <1>2 DEF CloseInv, FirstInv
<1>6. TrackInv'
    BY <1>1, <1>2 DEF TrackInv
<1>. QED
    BY <1>1, <1>3, <1>4, <1>5, <1>6

LEMMA ServerAnswersStep == ClientInv /\ ServerAnswers => ClientInv'
<1> SUFFICES ASSUME ClientInv, ServerAnswers PROVE ClientInv'
    OBVIOUS
<1>1. PICK response \in Responses :
          /\ ServerSends([op |-> response, fin |-> TRUE, len |-> 0])
          /\ server' = IF response = "accept" THEN "upgraded" ELSE "none"
    BY DEF ServerAnswers
<1>2. server = "connected" /\ frames' = frames /\ frames \in Nat /\ NetInv
    BY DEF ServerAnswers, ClientInv, TypeOK
<1> DEFINE answer == [op |-> response, fin |-> TRUE, len |-> 0]
<1>3. answer \in Item /\ answer.op = response
    BY DEF Item
<1>4. ServerSends(answer)
    BY <1>1
<1>. HIDE DEF answer
<1>5. /\ TypeOK' /\ CloseInv' /\ FirstInv' /\ TrackInv' /\ Bounded(ws)'
      /\ ws' = ws /\ assembly' = assembly
      /\ wire \in Seq(Item) /\ Len(wire') = Len(wire) + 1 /\ wire'[Len(wire) + 1] = answer
    BY <1>1, <1>2, <1>3, <1>4, ServerStep
<1>6. ws.tcp = "connected" /\ ws.state # "OPEN"
    BY <1>2 DEF NetInv
<1>7. ws.state = "CONNECTING" => assembly = NothingRead /\ Answering(wire', server')
    <2>1. SUFFICES ASSUME ws.state = "CONNECTING" PROVE assembly = NothingRead /\ Answering(wire', server')
        OBVIOUS
    <2>2. assembly = NothingRead /\ wire = <<>>
        BY <1>2, <1>6, <2>1 DEF NetInv, Answering
    <2>3. Len(wire') = 1 /\ wire'[1] = answer /\ wire' \in Seq(Item)
        BY <1>5, <2>2 DEF TypeOK
    <2>4. wire' # <<>> /\ Head(wire') = answer /\ FramesFrom(2, wire')
        BY <2>3 DEF FramesFrom
    <2>. QED
        BY <1>1, <1>3, <2>2, <2>3, <2>4 DEF Answering, Responses
<1>8. NetInv'
    BY <1>5, <1>6, <1>7 DEF NetInv
<1>. QED
    BY <1>5, <1>8 DEF ClientInv

LEMMA ServerFrameStep == ClientInv /\ ServerFrame => ClientInv'
<1> SUFFICES ASSUME ClientInv, ServerFrame PROVE ClientInv'
    OBVIOUS
<1>1. PICK frame \in Frames : ServerSends(frame)
    BY DEF ServerFrame
<1>2. server = "upgraded" /\ server' = server /\ frames' = frames + 1 /\ NetInv /\ frames \in Nat
    BY DEF ServerFrame, ClientInv, TypeOK
<1>3. frame \in Item /\ frame.op \notin Responses
    BY FramesAssumption
<1>4. /\ TypeOK' /\ CloseInv' /\ FirstInv' /\ TrackInv' /\ Bounded(ws)'
      /\ ws' = ws /\ assembly' = assembly
      /\ wire \in Seq(Item) /\ Len(wire') = Len(wire) + 1 /\ wire'[Len(wire) + 1] = frame
      /\ \A i \in 1..Len(wire) : wire'[i] = wire[i]
    BY <1>1, <1>2, <1>3, ServerStep
<1>5. ws.tcp = "connected"
    BY <1>2 DEF NetInv
<1>6. \A n \in Nat \ {0} : FramesFrom(n, wire) => FramesFrom(n, wire')
    <2>1. Len(wire) \in Nat
        BY <1>4
    <2>2. ASSUME NEW n \in Nat \ {0}, FramesFrom(n, wire), NEW i \in n..Len(wire')
          PROVE  wire'[i].op \notin Responses
        <3>1. i \in n..Len(wire) \/ i = Len(wire) + 1
            BY <1>4, <2>1, <2>2
        <3>. QED
            BY <1>3, <1>4, <2>1, <2>2, <3>1 DEF FramesFrom
    <2>. QED
        BY <2>2 DEF FramesFrom
<1>7. ws.state = "CONNECTING" => assembly = NothingRead /\ Answering(wire', "upgraded")
    <2>1. SUFFICES ASSUME ws.state = "CONNECTING" PROVE assembly = NothingRead /\ Answering(wire', "upgraded")
        OBVIOUS
    <2>2. assembly = NothingRead /\ wire # <<>> /\ Head(wire).op = "accept" /\ FramesFrom(2, wire)
        BY <1>2, <1>5, <2>1 DEF NetInv, Answering
    <2>3. Len(wire) \in Nat \ {0} /\ wire' \in Seq(Item)
        BY <1>4, <2>2, EmptySeq DEF TypeOK
    <2>4. wire' # <<>> /\ wire'[1] = wire[1]
        BY <1>4, <2>3, EmptySeq
    <2>5. Head(wire') = Head(wire)
        BY <1>4, <2>2, <2>3, <2>4
    <2>. QED
        BY <1>6, <2>2, <2>4, <2>5 DEF Answering
<1>8. NetInv'
    BY <1>2, <1>4, <1>5, <1>6, <1>7 DEF NetInv
<1>. QED
    BY <1>4, <1>8 DEF ClientInv

-----------------------------------------------------------------------------
(* The reference *)

Assembly == [ok : BOOLEAN, len : Nat \cup {-1}, out : Seq(Nat)]

LEMMA AssembledIgnores ==
    ASSUME NEW a, NEW f, ~a.ok \/ f.op \in {"ping"} \cup Responses
    PROVE  Assembled(a, f) = a
BY DEF Assembled, Responses

LEMMA AssembledText ==
    ASSUME NEW a \in Assembly, NEW f \in Item, f.op = "text",
           a.ok, a.len = -1, f.len <= MaxFrameSize
    PROVE  /\ Assembled(a, f) \in Assembly /\ Assembled(a, f).ok
           /\ f.fin => Assembled(a, f).out = Append(a.out, f.len) /\ Assembled(a, f).len = -1
           /\ ~f.fin => Assembled(a, f).out = a.out /\ Assembled(a, f).len = f.len
<1>1. Assembled(a, f) = IF f.fin THEN [a EXCEPT !.out = Append(@, f.len)] ELSE [a EXCEPT !.len = f.len]
    BY DEF Assembled, Responses
<1>2. f.len \in Nat /\ Append(a.out, f.len) \in Seq(Nat)
    BY AppendProperties DEF Item, Assembly
<1>. QED
    BY <1>1, <1>2 DEF Assembly, Item

LEMMA AssembledContinuation ==
    ASSUME NEW a \in Assembly, NEW f \in Item, f.op = "continuation",
           a.ok, a.len # -1, f.len <= MaxFrameSize, f.fin => a.len + f.len <= MaxMessageSize
    PROVE  /\ Assembled(a, f) \in Assembly /\ Assembled(a, f).ok
           /\ f.fin => Assembled(a, f).out = Append(a.out, a.len + f.len) /\ Assembled(a, f).len = -1
           /\ ~f.fin => Assembled(a, f).out = a.out /\ Assembled(a, f).len = a.len + f.len
<1>1. Assembled(a, f) = IF f.fin THEN [a EXCEPT !.out = Append(@, a.len + f.len), !.len = -1]
                        ELSE [a EXCEPT !.len = @ + f.len]
    BY DEF Assembled, Responses
<1>2. a.len \in Nat /\ f.len \in Nat
    BY DEF Assembly, Item
<1>3. a.len + f.len \in Nat
    BY <1>2
<1>4. Append(a.out, a.len + f.len) \in Seq(Nat)
    BY <1>3, AppendProperties DEF Assembly
<1>. QED
    BY <1>1, <1>2, <1>3, <1>4 DEF Assembly, Item

LEMMA AssembledType ==
    ASSUME NEW a \in Assembly, NEW f \in Item
    PROVE  Assembled(a, f) \in Assembly
<1>1. CASE ~a.ok \/ f.op \in {"ping"} \cup Responses
    BY <1>1, AssembledIgnores
<1>2. CASE a.ok /\ f.op = "text" /\ a.len = -1 /\ f.len <= MaxFrameSize
    BY <1>2, AssembledText
<1>3. CASE a.ok /\ f.op = "continuation" /\ a.len # -1 /\ f.len <= MaxFrameSize
                /\ (f.fin => a.len + f.len <= MaxMessageSize)
    BY <1>3, AssembledContinuation
<1>4. CASE /\ a.ok /\ f.op \notin {"ping"} \cup Responses
           /\ ~(f.op = "text" /\ a.len = -1 /\ f.len <= MaxFrameSize)
           /\ ~(f.op = "continuation" /\ a.len # -1 /\ f.len <= MaxFrameSize
                  /\ (f.fin => a.len + f.len <= MaxMessageSize))
    <2>1. Assembled(a, f) = [a EXCEPT !.ok = FALSE]
        BY <1>4 DEF Assembled
    <2>. QED
        BY <2>1 DEF Assembly
<1>. QED
    BY <1>1, <1>2, <1>3, <1>4

-----------------------------------------------------------------------------
(* Frames on an open connection *)

LEMMA DispatchKeeps ==
    ASSUME NEW w \in Socket, NEW e \in Event
    PROVE  /\ Dispatch(w, e).fatal = w.fatal /\ Dispatch(w, e).poisoned = w.poisoned
           /\ Dispatch(w, e).opcode = w.opcode /\ Dispatch(w, e).messages = w.messages
           /\ Dispatch(w, e).queue = w.queue
BY DEF Dispatch, Socket

LEMMA DispatchMessageKeeps ==
    ASSUME NEW w \in Socket, w.messages = <<>>, NEW len \in Nat
    PROVE  /\ DispatchMessage(w, len).fatal = w.fatal
           /\ DispatchMessage(w, len).poisoned = w.poisoned
           /\ DispatchMessage(w, len).opcode = w.opcode
           /\ DispatchMessage(w, len).queue = w.queue
           /\ DispatchMessage(w, len).messages = <<len>>
<1> DEFINE d == Dispatch(w, "MESSAGE")
<1>1. "MESSAGE" \in Event
    BY DEF Event
<1>2. d \in Socket
    BY <1>1, DispatchIs
<1>3. /\ d.fatal = w.fatal /\ d.poisoned = w.poisoned /\ d.opcode = w.opcode
      /\ d.queue = w.queue /\ d.messages = <<>>
    BY <1>1, DispatchKeeps
<1>4. DispatchMessage(w, len) = [d EXCEPT !.messages = Append(@, len)]
    BY DEF DispatchMessage
<1>. HIDE DEF d
<1>5. Append(<<>>, len) = <<len>>
    OBVIOUS
<1>. QED
    BY <1>2, <1>3, <1>4, <1>5 DEF Socket

LEMMA MessageAppended ==
    ASSUME NEW s \in Seq(Nat), NEW len \in Nat
    PROVE  Append(s, len) = s \o <<len>> /\ s \o <<>> = s
OBVIOUS

\* An open connection that is dropped is open no more.
LEMMA DroppedIsClosed ==
    ASSUME NEW w \in Socket, w.state = "OPEN", w.events = <<>>
    PROVE  Drop(w).state = "CLOSED" /\ [Drop(w) EXCEPT !.poisoned = TRUE].state = "CLOSED"
<1>1. Drop(w) \in Socket /\ Drop(w).state = "CLOSED"
    BY DropIs, NoEvents DEF Closes
<1>. QED
    BY <1>1 DEF Socket

\* The object w, of whose frames `a' has been made, becomes `v' by the frame f.
Follows(a, f, v) ==
    Tracks(v, Assembled(a, f)) /\ Assembled(a, f).out = a.out \o v.messages

LEMMA TextFollows ==
    ASSUME AssembleFragments, NEW w \in Socket, w.state = "OPEN", w.events = <<>>, w.messages = <<>>,
           NEW a \in Assembly, Tracks(w, a),
           NEW f \in Item, f.op = "text", f.len <= MaxFrameSize,
           ProcessText(w, f).state = "OPEN"
    PROVE  Follows(a, f, ProcessText(w, f))
<1>1. w.queue = NoFrames
    <2>1. CASE w.queue # NoFrames
        BY <2>1, DroppedIsClosed DEF ProcessText
    <2>. QED
        BY <2>1
<1>2. a.len = -1 /\ w.opcode = "none" /\ a.ok /\ ~w.fatal /\ ~w.poisoned
    BY <1>1 DEF Tracks, NoFrames
<1>3. f.len \in Nat /\ a.out \in Seq(Nat)
    BY DEF Item, Assembly
<1> DEFINE b == Assembled(a, f)
<1>4. /\ b.ok
      /\ f.fin => b.out = Append(a.out, f.len) /\ b.len = -1
      /\ ~f.fin => b.out = a.out /\ b.len = f.len
    BY <1>2, AssembledText
<1>. HIDE DEF b
<1>5. CASE f.fin
    <2> DEFINE v == DispatchMessage(w, f.len)
    <2>1. ProcessText(w, f) = v
        BY <1>1, <1>5 DEF ProcessText
    <2>2. /\ v.fatal = w.fatal /\ v.poisoned = w.poisoned /\ v.opcode = w.opcode
          /\ v.queue = w.queue /\ v.messages = <<f.len>>
        BY <1>3, DispatchMessageKeeps
    <2>. HIDE DEF v
    <2>3. Tracks(v, b)
        BY <1>1, <1>2, <1>4, <1>5, <2>2 DEF Tracks
    <2>4. b.out = a.out \o v.messages
        BY <1>3, <1>4, <1>5, <2>2, MessageAppended
    <2>. QED
        BY <2>1, <2>3, <2>4 DEF Follows, b
<1>6. CASE ~f.fin
    <2> DEFINE q == Queued(w.queue, f)
               v == [w EXCEPT !.queue = q, !.opcode = "text"]
    <2>1. ProcessText(w, f) = v
        BY <1>1, <1>6 DEF ProcessText
    <2>2. q = [op |-> "text", len |-> f.len]
        BY <1>1, <1>3 DEF Queued, NoFrames
    <2>. HIDE DEF q
    <2>3. /\ v.fatal = w.fatal /\ v.poisoned = w.poisoned /\ v.opcode = "text"
          /\ v.queue = q /\ v.messages = <<>>
        BY DEF Socket
    <2>. HIDE DEF v
    <2>4. b.len # -1
        BY <1>3, <1>4, <1>6
    <2>5. Tracks(v, b)
        BY <1>2, <1>4, <1>6, <2>2, <2>3, <2>4 DEF Tracks
    <2>6. b.out = a.out \o v.messages
        BY <1>3, <1>4, <1>6, <2>3, MessageAppended
    <2>. QED
        BY <2>1, <2>5, <2>6 DEF Follows, b
<1>. QED
    BY <1>5, <1>6 DEF Item

LEMMA ContinuationFollows ==
    ASSUME AssembleFragments, NEW w \in Socket, w.state = "OPEN", w.events = <<>>, w.messages = <<>>,
           NEW a \in Assembly, Tracks(w, a),
           NEW f \in Item, f.op = "continuation", f.len <= MaxFrameSize,
           ProcessContinuation(w, f).state = "OPEN"
    PROVE  Follows(a, f, ProcessContinuation(w, f))
<1> DEFINE size == AddedSize(w, f)
           q == Queued(w.queue, f)
           v == [w EXCEPT !.size = size]
           u == [v EXCEPT !.queue = Queued(@, f)]
           t == [u EXCEPT !.queue = NoFrames, !.opcode = "none", !.size = 0]
           p == ProcessContinuation(w, f)
<1>1. size \in Nat
    BY DEF AddedSize, Socket, Item
<1>. HIDE DEF size
<1>2. /\ v \in Socket /\ v.state = "OPEN" /\ v.events = <<>> /\ v.messages = <<>>
      /\ v.size = size /\ v.queue = w.queue /\ v.opcode = w.opcode
      /\ v.fatal = w.fatal /\ v.poisoned = w.poisoned
    BY <1>1 DEF Socket
<1>3. p = CASE w.opcode = "none"       -> Drop(w)
            [] w.opcode # "none" /\ v.size > MaxMessageSize -> Drop(v)
            [] w.opcode # "none" /\ v.size <= MaxMessageSize ->
                  IF ~f.fin THEN u
                  ELSE IF u.queue.len > MaxMessageSize \/ u.queue.op # "text"
                  THEN Drop(u) ELSE DispatchMessage(t, u.queue.len)
    BY DEF ProcessContinuation, size
<1>. HIDE DEF v
<1>4. q \in [op : {"none", "text", "continuation"}, len : Nat] /\ q.len = w.queue.len + f.len
    BY QueuedType
<1>5. u = [v EXCEPT !.queue = q]
    BY <1>2 DEF Socket
<1>6. w.queue # NoFrames => q.op = w.queue.op
    BY DEF Queued
<1>. HIDE DEF q
<1>7. /\ u \in Socket /\ u.state = "OPEN" /\ u.events = <<>> /\ u.messages = <<>>
      /\ u.queue = q /\ u.opcode = w.opcode
      /\ u.fatal = w.fatal /\ u.poisoned = w.poisoned
    BY <1>2, <1>4, <1>5 DEF Socket
<1>. HIDE DEF u
<1>8. /\ t \in Socket /\ t.messages = <<>> /\ t.queue = NoFrames /\ t.opcode = "none"
      /\ t.fatal = w.fatal /\ t.poisoned = w.poisoned
    BY <1>7 DEF Socket, NoFrames
<1>. HIDE DEF t
<1>9. /\ Drop(w).state = "CLOSED" /\ Drop(v).state = "CLOSED" /\ Drop(u).state = "CLOSED"
    BY <1>2, <1>7, DroppedIsClosed
<1>10. v.size > MaxMessageSize \/ v.size <= MaxMessageSize
    BY <1>1, <1>2, ConfigAssumption
<1>11. /\ w.opcode # "none"
       /\ \/ ~f.fin /\ p = u
          \/ f.fin /\ ~(u.queue.len > MaxMessageSize) /\ p = DispatchMessage(t, u.queue.len)
    BY <1>3, <1>9, <1>10 DEF Item
<1>. HIDE DEF p
<1>12. /\ a.len # -1 /\ w.queue = [op |-> "text", len |-> a.len] /\ w.opcode = "text"
       /\ a.ok /\ ~w.fatal /\ ~w.poisoned
    BY <1>11 DEF Tracks
<1>13. /\ a.len \in Nat /\ f.len \in Nat /\ a.len + f.len \in Nat /\ a.len + f.len # -1
       /\ a.out \in Seq(Nat)
    BY <1>12 DEF Assembly, Item
<1>14. w.queue # NoFrames
    BY <1>12 DEF NoFrames
<1>15. q.op = "text" /\ q.len = a.len + f.len
    BY <1>4, <1>6, <1>12, <1>14
<1>16. q = [op |-> "text", len |-> a.len + f.len]
    BY <1>4, <1>15
<1>17. f.fin => a.len + f.len <= MaxMessageSize
    BY <1>7, <1>11, <1>13, <1>15, ConfigAssumption
<1> DEFINE b == Assembled(a, f)
<1>18. /\ b.ok
       /\ f.fin => b.out = Append(a.out, a.len + f.len) /\ b.len = -1
       /\ ~f.fin => b.out = a.out /\ b.len = a.len + f.len
    BY <1>12, <1>17, AssembledContinuation
<1>. HIDE DEF b
<1>19. CASE f.fin
    <2> DEFINE m == DispatchMessage(t, u.queue.len)
    <2>1. p = m /\ u.queue.len = a.len + f.len
        BY <1>7, <1>11, <1>15, <1>19
    <2>2. /\ m.fatal = t.fatal /\ m.poisoned = t.poisoned /\ m.opcode = t.opcode
          /\ m.queue = t.queue /\ m.messages = <<u.queue.len>>
        BY <1>8, <1>13, <2>1, DispatchMessageKeeps
    <2>. HIDE DEF m
    <2>3. Tracks(m, b)
        BY <1>8, <1>12, <1>18, <1>19, <2>2 DEF Tracks
    <2>4. m.messages = <<a.len + f.len>>
        BY <2>1, <2>2
    <2>5. Append(a.out, a.len + f.len) = a.out \o <<a.len + f.len>>
        BY <1>13, MessageAppended
    <2>6. b.out = a.out \o m.messages
        BY <1>18, <1>19, <2>4, <2>5
    <2>. QED
        BY <2>1, <2>3, <2>6 DEF Follows, b, p
<1>20. CASE ~f.fin
    <2>1. p = u
        BY <1>11, <1>20
    <2>2. Tracks(u, b)
        BY <1>7, <1>12, <1>13, <1>16, <1>18, <1>20 DEF Tracks
    <2>3. b.out = a.out \o u.messages
        BY <1>7, <1>13, <1>18, <1>20, MessageAppended
    <2>. QED
        BY <2>1, <2>2, <2>3 DEF Follows, b, p
<1>. QED
    BY <1>19, <1>20 DEF Item

LEMMA FrameFollows ==
    ASSUME AssembleFragments, NEW w \in Socket, w.state = "OPEN", Sound(w),
           w.events = <<>>, w.messages = <<>>,
           NEW a \in Assembly, Tracks(w, a),
           NEW f \in Item, f.op \notin Responses,
           NEW v \in ProcessFrame(w, f), v.state = "OPEN"
    PROVE  Follows(a, f, v)
<1> DEFINE u == IF AssembleFragments THEN w ELSE Dispatch(w, "FRAME")
           reject == [Drop(w) EXCEPT !.poisoned = TRUE]
<1>1. u = w
    OBVIOUS
<1>2. reject.state = "CLOSED" /\ Drop(u).state = "CLOSED"
    BY <1>1, DroppedIsClosed
<1>3. f.len <= MaxFrameSize /\ ~(f.len > MaxFrameSize)
    <2>1. f.len > MaxFrameSize \/ f.len <= MaxFrameSize
        BY ConfigAssumption DEF Item
    <2>2. f.len > MaxFrameSize => ~(f.len <= MaxFrameSize)
        BY ConfigAssumption DEF Item
    <2>3. CASE f.len > MaxFrameSize
        <3>1. v = reject
            BY <2>2, <2>3 DEF ProcessFrame
        <3>. QED
            BY <1>2, <3>1
    <2>. QED
        BY <2>1, <2>2, <2>3
<1>4. CASE f.op = "bad"
    <2>1. v = reject \/ v = Drop(u)
        BY <1>3, <1>4 DEF ProcessFrame
    <2>. QED
        BY <1>2, <2>1
<1>5. CASE f.op = "ping"
    <2> DEFINE t == Dispatch(w, "PING")
    <2>1. v = t
        BY <1>3, <1>5 DEF ProcessFrame
    <2>2. "PING" \in Event
        BY DEF Event
    <2>3. /\ t.fatal = w.fatal /\ t.poisoned = w.poisoned /\ t.opcode = w.opcode
          /\ t.queue = w.queue /\ t.messages = <<>>
        BY <2>2, DispatchKeeps
    <2>. HIDE DEF t
    <2>4. Assembled(a, f) = a
        BY <1>5, AssembledIgnores
    <2>5. Tracks(t, a)
        BY <2>3 DEF Tracks
    <2>6. a.out = a.out \o t.messages
        BY <2>3, MessageAppended DEF Assembly
    <2>. QED
        BY <2>1, <2>4, <2>5, <2>6 DEF Follows
<1>6. CASE f.op = "close"
    <2>1. v \in ProcessClose(w)
        BY <1>1, <1>3, <1>6 DEF ProcessFrame
    <2>2. ~w.waiting
        BY DEF Sound
    <2>3. PICK c \in Close(w, FALSE) : v = SocketClose(c)
        BY <2>1, <2>2 DEF ProcessClose
    <2>4. Quiet(w.events) /\ Len(w.events) <= 1
        BY NoEvents
    <2>5. Effect(w, c) /\ c.state = "CLOSED"
        BY <2>4, CloseEffect
    <2>6. v.state = "CLOSED"
        BY <2>3, <2>5, SocketCloseIs DEF Effect, Outcome
    <2>. QED
        BY <2>6
<1>7. CASE f.op = "text"
    <2>1. v = ProcessText(w, f)
        BY <1>3, <1>7 DEF ProcessFrame
    <2>. QED
        BY <1>3, <1>7, <2>1, TextFollows
<1>8. CASE f.op = "continuation"
    <2>1. v = ProcessContinuation(w, f)
        BY <1>3, <1>8 DEF ProcessFrame
    <2>. QED
        BY <1>3, <1>8, <2>1, ContinuationFollows
<1>. QED
    BY <1>4, <1>5, <1>6, <1>7, <1>8 DEF Item

-----------------------------------------------------------------------------
(* Reading *)

\* The answer that does not end the handshake leaves what the messages are made of.
LEMMA HandshakeKeeps ==
    ASSUME NEW w \in Socket, w.state = "CONNECTING", w.messages = <<>>,
           NEW response \in Responses, NEW v \in ReadServerHandshake(w, response),
           v.state # "CLOSED"
    PROVE  /\ v.fatal = w.fatal /\ v.opcode = w.opcode /\ v.messages = <<>> /\ v.tcp = w.tcp
           /\ v.state = "OPEN" => v.queue = NoFrames /\ ~v.poisoned
           /\ v.state \in {"OPEN", "CONNECTING"}
<1>1. CASE response = "accept"
    <2> DEFINE u == [w EXCEPT !.state = "OPEN", !.handshakeTimer = FALSE,
                              !.poisoned = FALSE, !.queue = NoFrames]
               o == Dispatch(u, "OPEN")
    <2>1. v = o
        BY <1>1 DEF ReadServerHandshake
    <2>2. /\ u \in Socket /\ u.state = "OPEN" /\ u.poisoned = FALSE /\ u.queue = NoFrames
          /\ u.fatal = w.fatal /\ u.opcode = w.opcode /\ u.messages = <<>> /\ u.tcp = w.tcp
        BY DEF Socket, NoFrames
    <2>3. "OPEN" \in Event
        BY DEF Event
    <2>. HIDE DEF u
    <2>4. /\ o.fatal = u.fatal /\ o.poisoned = u.poisoned /\ o.opcode = u.opcode
          /\ o.messages = u.messages /\ o.queue = u.queue /\ o.state = u.state /\ o.tcp = u.tcp
        BY <2>2, <2>3, DispatchKeeps, DispatchIs
    <2>. HIDE DEF o
    <2>. QED
        BY <2>1, <2>2, <2>4
<1>2. CASE response = "refuse"
    <2>1. v = FailHandshake(w)
        BY <1>2 DEF ReadServerHandshake
    <2>2. v.state = "CLOSED"
        BY <2>1 DEF FailHandshake, Dispatch, SocketClose, Socket
    <2>. QED
        BY <2>2
<1>3. CASE response = "garbled"
    <2>1. v = w
        BY <1>3 DEF ReadServerHandshake
    <2>. QED
        BY <2>1
<1>. QED
    BY <1>1, <1>2, <1>3 DEF Responses

LEMMA SocketDataStep == ClientInv /\ SocketData => ClientInv'
<1> SUFFICES ASSUME ClientInv, SocketData PROVE ClientInv'
    OBVIOUS
<1> DEFINE i == Idle(ws)
           item == Head(wire)
<1>1. PICK w \in HandleSocketData(i, item) : Becomes(w)
    BY DEF SocketData
<1>2. /\ ws.tcp = "connected" /\ wire # <<>> /\ UNCHANGED connects
      /\ IF ws'.tcp = "connected"
         THEN wire' = Tail(wire) /\ assembly' = Assembled(assembly, item) /\ UNCHANGED <<server, frames>>
         ELSE KeepsOrLosesServer
    BY DEF SocketData
<1>3. TypeOK /\ NetInv /\ TrackInv /\ FirstInv
    BY DEF ClientInv
<1>4. /\ wire \in Seq(Item) /\ assembly \in Assembly /\ frames \in Nat
      /\ server \in {"none", "connected", "upgraded"} /\ messages \in Seq(Nat)
    BY <1>3 DEF TypeOK, Assembly
<1>5. /\ item \in Item /\ item = wire[1] /\ Tail(wire) \in Seq(Item)
      /\ Len(wire) \in Nat \ {0} /\ Len(Tail(wire)) = Len(wire) - 1
      /\ \A k \in 1..Len(wire) - 1 : Tail(wire)[k] = wire[k + 1]
    BY <1>2, <1>4, HeadTailProperties, EmptySeq, ElementOfSeq
<1>6. /\ i \in Socket /\ i.events = <<>> /\ i.messages = <<>> /\ i.tcp = "connected" /\ i.state = ws.state
      /\ i.fatal = ws.fatal /\ i.opcode = ws.opcode /\ i.queue = ws.queue /\ i.poisoned = ws.poisoned
      /\ connects # 0 /\ (connects = 1 => Sound(i))
    BY <1>2, BeforeHandler
<1>7. ws.state = "CONNECTING" => item.op \in Responses
    BY <1>2, <1>3 DEF NetInv, Answering, Responses
<1>8. /\ Effect(i, w)
      /\ i.state = "CONNECTING" /\ item.op = "accept" => Opens(i, w)
      /\ i.state = "CONNECTING" /\ item.op # "accept" => w.state # "OPEN"
    <2>. HIDE DEF i, item
    <2>. QED
        BY <1>1, <1>5, <1>6, <1>7, SocketDataEffect
<1>9. Effect(ws, w) /\ ws' = w
    BY <1>1, <1>8, BeforeHandler, IdleEffect DEF Becomes
<1>10. /\ ws' \in Socket /\ closes' \in Nat /\ messages' \in Seq(Nat) /\ connects' \in Nat
       /\ CloseInv' /\ FirstInv' /\ Bounded(ws)'
    BY <1>1, <1>2, <1>6, <1>9, ObjectStep
<1>11. w.state = ws.state \/ w.state = "CLOSED" \/ (ws.state = "CONNECTING" /\ w.state = "OPEN")
    BY <1>9 DEF Effect, Outcome, Stays, Closes, Opens, GivesUp
<1>12. ws.state = "CONNECTING" /\ w.state # "CLOSED" =>
          /\ w.fatal = ws.fatal /\ w.opcode = ws.opcode /\ w.messages = <<>> /\ w.tcp = "connected"
          /\ w.state = "OPEN" => w.queue = NoFrames /\ ~w.poisoned
    <2>1. SUFFICES ASSUME ws.state = "CONNECTING", w.state # "CLOSED"
                   PROVE  /\ w.fatal = ws.fatal /\ w.opcode = ws.opcode
                          /\ w.messages = <<>> /\ w.tcp = "connected"
                          /\ w.state = "OPEN" => w.queue = NoFrames /\ ~w.poisoned
        OBVIOUS
    <2>. HIDE DEF i, item
    <2>2. w \in ReadServerHandshake(i, item.op)
        BY <1>1, <1>6, <2>1 DEF HandleSocketData
    <2>. QED
        BY <1>6, <1>7, <2>1, <2>2, HandshakeKeeps
<1>13. ws.state = "OPEN" /\ w.state = "OPEN" /\ connects = 1 /\ AssembleFragments =>
          Follows(assembly, item, w)
    <2>1. SUFFICES ASSUME ws.state = "OPEN", w.state = "OPEN", connects = 1, AssembleFragments
                   PROVE  Follows(assembly, item, w)
        OBVIOUS
    <2>2. Tracks(ws, assembly) /\ item.op \notin Responses
        BY <1>2, <1>3, <1>5, <2>1 DEF TrackInv, NetInv, FramesFrom
    <2>. HIDE DEF i, item
    <2>3. Tracks(i, assembly)
        BY <1>6, <2>2 DEF Tracks
    <2>4. w \in ProcessFrame(i, item)
        BY <1>1, <1>6, <2>1, <2>2, <2>3 DEF HandleSocketData, Tracks
    <2>. QED
        BY <1>4, <1>5, <1>6, <2>1, <2>2, <2>3, <2>4, FrameFollows
<1>. HIDE DEF i, item
<1>14. CASE w.tcp # "connected"
    <2>1. w.state = "OPEN" => ws.state # "CONNECTING"
        BY <1>12, <1>14
    <2>2. KeepsOrLosesServer
        BY <1>2, <1>9, <1>14
    <2>3. /\ wire' \in Seq(Item) /\ frames' \in Nat
          /\ server' \in {"none", "connected", "upgraded"}
          /\ assembly' \in Assembly
          /\ NetInv'
        BY <1>9, <2>1, <2>2, NetStep DEF Assembly
    <2>4. connects = 1 => w.state \notin {"OPEN", "CONNECTING"}
        BY <1>2, <1>9, <1>10, <1>11, <1>12, <1>14 DEF FirstInv, Sound
    <2>5. TrackInv'
        BY <1>2, <1>9, <2>4 DEF TrackInv
    <2>. QED
        BY <1>10, <2>3, <2>5 DEF ClientInv, TypeOK, Assembly
<1>15. CASE w.tcp = "connected"
    <2>1. /\ wire' = Tail(wire) /\ assembly' = Assembled(assembly, item)
          /\ server' = server /\ frames' = frames
        BY <1>2, <1>9, <1>15
    <2>2. wire' \in Seq(Item) /\ assembly' \in Assembly
        BY <1>4, <1>5, <2>1, AssembledType
    <2>3. /\ FramesFrom(1, wire) => FramesFrom(1, wire')
          /\ FramesFrom(2, wire) => FramesFrom(1, wire')
        BY <1>5, <2>1 DEF FramesFrom
    <2>4. ws.state = "CONNECTING" => assembly = NothingRead /\ assembly' = NothingRead
        BY <1>2, <1>3, <1>7, <2>1, AssembledIgnores DEF NetInv
    <2>5. ws.state = "CONNECTING" /\ item.op # "accept" => server = "none" /\ wire' = <<>>
        <3>1. SUFFICES ASSUME ws.state = "CONNECTING", item.op # "accept"
                       PROVE  server = "none" /\ wire' = <<>>
            OBVIOUS
        <3>2. server = "none" /\ Len(wire) = 1
            BY <1>2, <1>3, <3>1 DEF NetInv, Answering, item
        <3>3. Len(wire') = 0
            BY <1>5, <2>1, <3>2
        <3>. QED
            BY <2>2, <3>2, <3>3, EmptySeq
    <2>6. ws.state = "CONNECTING" /\ item.op = "accept" => server = "upgraded" /\ FramesFrom(1, wire')
        BY <1>2, <1>3, <2>3 DEF NetInv, Answering, item
    <2>7. w.state = "CONNECTING" => ws.state = "CONNECTING" /\ item.op # "accept"
        BY <1>6, <1>8, <1>11 DEF Opens
    <2>8. w.state = "OPEN" => server = "upgraded" /\ FramesFrom(1, wire')
        BY <1>2, <1>3, <1>6, <1>8, <1>11, <2>3, <2>6 DEF NetInv
    <2>9. NetInv'
        BY <1>9, <1>15, <2>1, <2>4, <2>5, <2>7, <2>8 DEF NetInv, Answering
    <2>10. messages' = messages \o w.messages
        BY <1>1 DEF Becomes
    <2>11. TrackInv'
        <3>1. SUFFICES ASSUME connects = 1, AssembleFragments
                       PROVE  /\ w.state = "CONNECTING" =>
                                    ~w.fatal /\ w.opcode = "none" /\ messages' = <<>>
                              /\ w.state = "OPEN" =>
                                    Tracks(w, assembly') /\ messages' = assembly'.out
            BY <1>2, <1>9 DEF TrackInv
        <3>2. ws.state = "CONNECTING" /\ w.state # "CLOSED" =>
                  ~w.fatal /\ w.opcode = "none" /\ messages' = <<>>
            <4>1. ws.state = "CONNECTING" => messages = <<>> /\ ~ws.fatal /\ ws.opcode = "none"
                BY <1>3, <3>1 DEF TrackInv
            <4>2. <<>> \o <<>> = <<>>
                OBVIOUS
            <4>. QED
                BY <1>12, <2>10, <4>1, <4>2
        <3>3. ws.state = "CONNECTING" /\ w.state = "OPEN" =>
                  Tracks(w, assembly') /\ messages' = assembly'.out
            <4>1. NothingRead.ok /\ NothingRead.len = -1 /\ NothingRead.out = <<>>
                BY DEF NothingRead
            <4>. QED
                BY <1>12, <2>4, <3>2, <4>1 DEF Tracks
        <3>4. ws.state = "OPEN" /\ w.state = "OPEN" =>
                  Tracks(w, assembly') /\ messages' = assembly'.out
            <4>1. ws.state = "OPEN" => messages = assembly.out
                BY <1>3, <3>1 DEF TrackInv
            <4>. QED
                BY <1>13, <2>1, <2>10, <3>1, <4>1 DEF Follows
        <3>. QED
            BY <1>11, <2>7, <3>2, <3>3, <3>4
    <2>. QED
        BY <1>4, <1>10, <2>1, <2>2, <2>9, <2>11 DEF ClientInv, TypeOK, Assembly
<1>. QED
    BY <1>14, <1>15

-----------------------------------------------------------------------------
(* The invariant *)

LEMMA ClientInitially == Init => ClientInv
<1> SUFFICES ASSUME Init PROVE ClientInv
    OBVIOUS
<1>1. <<>> \in Seq(Item) /\ <<>> \in Seq(Nat) /\ <<>> \in Seq(Event)
    BY EmptySeq
<1>2. /\ NewSocket \in Socket /\ NewSocket.tcp = "none" /\ NewSocket.state = "INIT"
      /\ NewSocket.waiting = FALSE /\ NewSocket.closeTimer = FALSE
      /\ NewSocket.queue = NoFrames /\ NewSocket.size = 0
    BY <1>1 DEF NewSocket, Socket, NoFrames
<1>3. NothingRead \in [ok : BOOLEAN, len : Nat \cup {-1}, out : Seq(Nat)]
    BY <1>1 DEF NothingRead
<1>4. ws = NewSocket
    BY DEF Init
<1>5. TypeOK
    BY <1>1, <1>2, <1>3 DEF Init, TypeOK
<1>6. CloseInv /\ NetInv
    BY <1>2 DEF Init, CloseInv, NetInv
<1>7. FirstInv
    BY <1>2, <1>4 DEF FirstInv, Sound
<1>8. TrackInv
    BY DEF Init, TrackInv
<1>9. Bounded(ws)
    BY <1>2, <1>4, NoFramesBounded
<1>. QED
    BY <1>5, <1>6, <1>7, <1>8, <1>9 DEF ClientInv

LEMMA ClientStutters == ClientInv /\ UNCHANGED vars => ClientInv'
BY DEF ClientInv, vars, net, TypeOK, CloseInv, NetInv, FirstInv, TrackInv, Bounded, Sound,
       Answering, FramesFrom, Tracks

LEMMA ClientNext == ClientInv /\ [Next]_vars => ClientInv'
BY AppConnectStep, AppCloseStep, SocketConnectStep, SocketIOErrorStep, SocketClosedStep,
   SocketDataStep, HandshakeTimerStep, CloseTimerStep, ServerAnswersStep, ServerFrameStep,
   ClientStutters DEF Next

LEMMA ClientInductive == Spec => []ClientInv
BY ClientInitially, ClientNext, PTL DEF Spec

-----------------------------------------------------------------------------
(* The properties *)

\* Every field of the object, every item on its way and every message has its type,
\* after any number of connections (WebSocket.as as a whole).
THEOREM ClientTypes == Spec => []TypeOK
<1>1. ClientInv => TypeOK
    BY DEF ClientInv
<1>. QED
    BY <1>1, ClientInductive, PTL

\* However often the object is connected, one connection is reported closed at most
\* once (dispatchClosedEvent, failHandshake).
THEOREM EndIsReportedOnce == Spec => []ClosedOnce
<1>1. ClientInv => ClosedOnce
    BY DEF ClientInv, CloseInv, ClosedOnce
<1>. QED
    BY <1>1, ClientInductive, PTL

\* The queue holds no more than a message and a frame, although the first fragment is
\* not counted and the size not reset between two connections (processFrame).
THEOREM QueueStaysBounded == Spec => []QueueIsBounded
<1>1. ClientInv => QueueIsBounded
    BY DEF ClientInv, Bounded, QueueIsBounded
<1>. QED
    BY <1>1, ClientInductive, PTL

\* The first connection of an object is there as long as the object says so.  A later
\* one may be ended by the close timer of the one before (handleCloseTimer).
THEOREM OpenMeansConnected == Spec => [](connects <= 1 => OpenIsConnected)
<1>1. ClientInv => (connects <= 1 => OpenIsConnected)
    BY DEF ClientInv, FirstInv, Sound, OpenIsConnected
<1>. QED
    BY <1>1, ClientInductive, PTL

\* The messages dispatched are those of the frames read, however they are fragmented
\* and whatever comes between the fragments (processFrame).
THEOREM MessagesAreTheFrames == Spec => []MessagesAssembled
<1>1. ClientInv => MessagesAssembled
    BY DEF ClientInv, TrackInv, MessagesAssembled
<1>. QED
    BY <1>1, ClientInductive, PTL
=============================================================================

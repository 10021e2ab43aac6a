-------------------------- MODULE WebSocketClient --------------------------
(***************************************************************************)
(* One WebSocket object, an application that calls its public methods in   *)
(* any order, and the server it talks to.  Connecting the object again     *)
(* after it closed is allowed: connect() accepts the state CLOSED.         *)
(***************************************************************************)
EXTENDS WebSocket, FiniteSets

CONSTANTS
    Frames,         \* the frames the server may send
    MaxConnects,    \* bound: calls of connect()
    MaxFrames       \* bound: frames the server sends on a connection

ASSUME FramesAssumption == Frames \subseteq Item /\ \A frame \in Frames : frame.op \notin Responses

VARIABLES
    ws,         \* the object
    wire,       \* items the server sent and the client has not read
    server,     \* "none", "connected", "upgraded": its view of the connection
    connects,   \* history: connections made
    closes,     \* history: CLOSED events since the last connect()
    frames,     \* history: the number of frames sent on this connection
    messages,   \* history: the messages dispatched since the last connect()
    assembly    \* history: what RFC 6455 makes of the frames read on this connection

net  == <<wire, server, frames>>
vars == <<ws, net, connects, closes, messages, assembly>>

\* The reference: out are the messages of the frames read, len is the length of a
\* message that has begun (-1: none has); ok ends with the first frame that is not
\* allowed or exceeds a limit.  Control frames may come between the fragments.
NothingRead == [ok |-> TRUE, len |-> -1, out |-> <<>>]
Assembled(a, f) ==
    CASE ~a.ok \/ f.op \in {"ping"} \cup Responses -> a
      [] a.ok /\ f.op = "text" /\ a.len = -1 /\ f.len <= MaxFrameSize ->
           IF f.fin THEN [a EXCEPT !.out = Append(@, f.len)] ELSE [a EXCEPT !.len = f.len]
      [] a.ok /\ f.op = "continuation" /\ a.len # -1 /\ f.len <= MaxFrameSize
              /\ (f.fin => a.len + f.len <= MaxMessageSize) ->
           IF f.fin THEN [a EXCEPT !.out = Append(@, a.len + f.len), !.len = -1]
           ELSE [a EXCEPT !.len = @ + f.len]
      [] OTHER -> [a EXCEPT !.ok = FALSE]

Init ==
    /\ ws = NewSocket
    /\ wire = <<>> /\ server = "none" /\ frames = 0
    /\ connects = 0 /\ closes = 0 /\ messages = <<>> /\ assembly = NothingRead

\* A handler or method made the object `w'.
Becomes(w) ==
    /\ ws' = w
    /\ closes' = closes + Cardinality({i \in DOMAIN w.events : w.events[i] = "CLOSED"})
    /\ messages' = messages \o w.messages

\* A connection the client lost or dropped is gone for the server, too.
KeepsOrLosesServer ==
    IF ws'.tcp = "connected" THEN UNCHANGED <<wire, server, frames, assembly>>
    ELSE wire' = <<>> /\ server' = "none" /\ frames' = 0 /\ assembly' = NothingRead

-----------------------------------------------------------------------------
AppConnect ==
    /\ connects < MaxConnects /\ ws.state \in {"INIT", "CLOSED"}
    /\ ws' \in Connect(Idle(ws))
    /\ connects' = connects + 1 /\ closes' = 0 /\ messages' = <<>>
    /\ wire' = <<>> /\ server' = "none" /\ frames' = 0 /\ assembly' = NothingRead

AppClose(waitForServer) ==
    /\ ws.state # "INIT"
    /\ \E w \in Close(Idle(ws), waitForServer) : Becomes(w)
    /\ KeepsOrLosesServer
    /\ UNCHANGED connects

SocketConnect ==
    /\ ws.tcp = "connecting"
    /\ \E w \in HandleSocketConnect(Idle(ws)) : Becomes(w)
    /\ server' = "connected"
    /\ UNCHANGED <<wire, frames, connects, assembly>>

\* The attempt is refused or times out, or a connection breaks.
SocketIOError ==
    /\ ws.tcp # "none"
    /\ \E w \in HandleSocketIOError(Idle(ws)) : Becomes(w)
    /\ KeepsOrLosesServer
    /\ UNCHANGED connects

SocketClosed ==
    /\ ws.tcp = "connected"
    /\ \E w \in HandleSocketClose(Idle(ws)) : Becomes(w)
    /\ KeepsOrLosesServer
    /\ UNCHANGED connects

SocketData ==
    /\ ws.tcp = "connected" /\ wire # <<>>
    /\ \E w \in HandleSocketData(Idle(ws), Head(wire)) : Becomes(w)
    /\ IF ws'.tcp = "connected"
       THEN wire' = Tail(wire) /\ assembly' = Assembled(assembly, Head(wire)) /\ UNCHANGED <<server, frames>>
       ELSE KeepsOrLosesServer
    /\ UNCHANGED connects

HandshakeTimer ==
    /\ ws.handshakeTimer
    /\ \E w \in HandleHandshakeTimer(Idle(ws)) : Becomes(w)
    /\ KeepsOrLosesServer
    /\ UNCHANGED connects

CloseTimer ==
    /\ ws.closeTimer
    /\ \E w \in HandleCloseTimer(Idle(ws)) : Becomes(w)
    /\ KeepsOrLosesServer
    /\ UNCHANGED connects

\* The server answers the handshake once, sends frames once it accepted, and may
\* go silent at any time.
ServerSends(item) ==
    /\ wire' = Append(wire, item)
    /\ UNCHANGED <<ws, connects, closes, messages, assembly>>

ServerAnswers ==
    /\ server = "connected"
    /\ \E response \in Responses :
          /\ ServerSends([op |-> response, fin |-> TRUE, len |-> 0])
          /\ server' = IF response = "accept" THEN "upgraded" ELSE "none"
    /\ UNCHANGED frames

ServerFrame ==
    /\ server = "upgraded" /\ frames < MaxFrames /\ frames' = frames + 1
    /\ \E frame \in Frames : ServerSends(frame)
    /\ UNCHANGED server

Next ==
    \/ AppConnect \/ AppClose(TRUE) \/ AppClose(FALSE)
    \/ SocketConnect \/ SocketIOError \/ SocketClosed \/ SocketData
    \/ HandshakeTimer \/ CloseTimer
    \/ ServerAnswers \/ ServerFrame

Spec == Init /\ [][Next]_vars

\* The runtime ends every connection attempt and fires its timers; the server
\* owes nothing.
FairSpec ==
    /\ Spec
    /\ WF_vars(SocketConnect \/ (ws.tcp = "connecting" /\ SocketIOError))
    /\ WF_vars(HandshakeTimer) /\ WF_vars(CloseTimer)
    /\ WF_vars(SocketData)

-----------------------------------------------------------------------------
TypeOK ==
    /\ ws \in Socket
    /\ wire \in Seq(Item) /\ frames \in Nat
    /\ server \in {"none", "connected", "upgraded"}
    /\ connects \in Nat /\ closes \in Nat /\ messages \in Seq(Nat)
    /\ assembly \in [ok : BOOLEAN, len : Nat \cup {-1}, out : Seq(Nat)]

\* An object whose state is OPEN has a connection: no order of timers, errors and
\* calls leaves the application with an open WebSocket that leads nowhere.
OpenIsConnected == ws.state = "OPEN" => ws.tcp = "connected"

\* A connection is reported closed at most once, although failHandshake, drop,
\* close and three socket events each dispatch CLOSED.
ClosedOnce == closes <= 1

\* What the fragments in the queue hold is bounded, although the first fragment
\* is not counted in fragmentationSize.
QueueIsBounded == ws.queue.len <= MaxMessageSize + MaxFrameSize

\* The messages dispatched on an open connection are those of the frames read,
\* in order, none lost, invented or merged.
MessagesAssembled ==
    ws.state = "OPEN" /\ ~ws.fatal /\ connects = 1 /\ AssembleFragments =>
        messages = assembly.out

\* On an open connection the next frame is read and a whole text frame outside a
\* fragmented message is dispatched ("Start reading data", WebSocket.as:915).
ReadsFrom(frame) == ws.state = "OPEN" /\ ws.queue = NoFrames /\ wire # <<>> /\ Head(wire) = frame
OpenIsRead ==
    [][\A frame \in Frames :
          ReadsFrom(frame) /\ SocketData /\ frame.op = "text" /\ frame.fin
                /\ frame.len <= MaxFrameSize /\ AssembleFragments =>
              ws'.events = <<"MESSAGE">>]_vars

\* An attempt to connect ends: opened, failed or closed, even if the server
\* accepts the TCP connection and never answers.
AttemptEnds == ws.state = "CONNECTING" ~> ws.state # "CONNECTING"

\* A close that waits for the server ends the TCP connection, even if the server
\* never answers.
CloseEnds == ws.waiting /\ ws.tcp = "connected" ~> ws.tcp # "connected"
=============================================================================

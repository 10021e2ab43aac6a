---------------------------- MODULE Esp8266Link ----------------------------
(***************************************************************************)
(* net/Esp8266SocketManager.as: the application's link to the ESP8266.     *)
(* Every connect() makes a new WebSocket and listens to it; the listeners  *)
(* of the one it replaces stay, and so do that one's timers and its TCP    *)
(* connection: close(false) does not end them.                             *)
(*                                                                         *)
(* The objects are those of the module WebSocket, made in the order        *)
(* 1, 2, ...; the ESP8266 answers handshakes and echoes what it is sent.   *)
(***************************************************************************)
EXTENDS WebSocket

CONSTANTS
    MaxSockets,     \* bound: calls of connect()
    MaxInFlight     \* bound: frames of the ESP8266 a socket has not read

ASSUME LinkBoundsAssumption == MaxSockets \in Nat /\ MaxInFlight \in Nat

VARIABLES
    ws,         \* the WebSockets made, dropped ones included
    current,    \* _socket; 0 for null
    manager,    \* connected, _pingPongTimer.running; told: what was dispatched last
                \* since connect() was called
    wire,       \* per socket: what the ESP8266 sent and the socket has not read
    server      \* per socket: "none", "connected", "upgraded": the ESP8266's view

net  == <<wire, server>>
vars == <<ws, current, manager, net>>

Sockets == 1..MaxSockets

Init ==
    /\ ws = [s \in Sockets |-> NewSocket] /\ current = 0
    /\ manager = [connected |-> FALSE, pinging |-> FALSE, told |-> "none"]
    /\ wire = [s \in Sockets |-> <<>>] /\ server = [s \in Sockets |-> "none"]

-----------------------------------------------------------------------------
(* The listeners: they do not look at which socket an event comes from. *)

OnConnectionFailed(m) == [m EXCEPT !.connected = FALSE, !.told = "connectFail"]
OnConnectionOpened(m) ==
    [m EXCEPT !.connected = TRUE, !.pinging = TRUE, !.told = "connectSuccess"]
\* Mutant: the close clears the flag and leaves the timer running.
OnConnectionClosedPinging(m) == [m EXCEPT !.connected = FALSE, !.told = "connectClose"]
OnConnectionClosed(m) ==
    [m EXCEPT !.connected = FALSE, !.pinging = FALSE, !.told = "connectClose"]

Listen(m, event) ==
    CASE event = "CONNECTION_FAIL" -> OnConnectionFailed(m)
      [] event = "OPEN"            -> OnConnectionOpened(m)
      [] event = "CLOSED"          -> OnConnectionClosed(m)
      [] OTHER                     -> m

\* The manager after the events of a handler, in the order they were dispatched;
\* no handler dispatches more than four.
HeardAt(m, events, i) == IF i \in DOMAIN events THEN Listen(m, events[i]) ELSE m
Heard(m, events) == HeardAt(HeardAt(HeardAt(HeardAt(m, events, 1), events, 2), events, 3), events, 4)

-----------------------------------------------------------------------------
(* connect() closes the WebSocket it has, whose events still reach it, and *)
(* makes another.                                                          *)

\* Mutant: the WebSocket that is replaced is forgotten, not closed.
ReplacedUnclosed(sockets, s) == {sockets}
Replaced(sockets, s) ==
    IF s = 0 THEN {sockets}
    ELSE {[sockets EXCEPT ![s] = w] : w \in Close(Idle(sockets[s]), FALSE)}

ConnectTo ==
    /\ current < MaxSockets
    /\ current' = current + 1
    /\ \E closed \in Replaced(ws, current) : \E w \in Connect(NewSocket) :
          /\ ws' = [s \in Sockets |-> IF s = current + 1 THEN w ELSE Idle(closed[s])]
          /\ LET m == [manager EXCEPT !.told = "none"]
             IN  manager' = IF current = 0 THEN m ELSE Heard(m, closed[current].events)
    /\ UNCHANGED net

\* A handler of socket s makes it w; the network forgets a connection it lost.
Handled(s, w) ==
    /\ ws' = [ws EXCEPT ![s] = Idle(w)]
    /\ manager' = Heard(manager, w.events)
    /\ UNCHANGED current

Lost(s) == wire' = [wire EXCEPT ![s] = <<>>] /\ server' = [server EXCEPT ![s] = "none"]

SocketConnect(s) ==
    /\ ws[s].tcp = "connecting"
    /\ \E w \in HandleSocketConnect(Idle(ws[s])) : Handled(s, w)
    /\ server' = [server EXCEPT ![s] = "connected"] /\ UNCHANGED wire

SocketIOError(s) ==
    /\ ws[s].tcp # "none"
    /\ \E w \in HandleSocketIOError(Idle(ws[s])) : Handled(s, w)
    /\ Lost(s)

SocketClosed(s) ==
    /\ ws[s].tcp = "connected"
    /\ \E w \in HandleSocketClose(Idle(ws[s])) : Handled(s, w)
    /\ Lost(s)

SocketData(s) ==
    /\ ws[s].tcp = "connected" /\ wire[s] # <<>>
    /\ \E w \in HandleSocketData(Idle(ws[s]), Head(wire[s])) : Handled(s, w)
    /\ IF ws'[s].tcp = "connected"
       THEN wire' = [wire EXCEPT ![s] = Tail(@)] /\ UNCHANGED server
       ELSE Lost(s)

HandshakeTimer(s) ==
    /\ ws[s].handshakeTimer
    /\ \E w \in HandleHandshakeTimer(Idle(ws[s])) : Handled(s, w)
    /\ IF ws'[s].tcp = "connected" THEN UNCHANGED net ELSE Lost(s)

\* The ping goes out on the current socket and comes back as a text frame.
SendPing ==
    /\ manager.pinging /\ manager.connected
    /\ Len(wire[current]) < MaxInFlight
    /\ wire' = [wire EXCEPT ![current] = Append(@, [op |-> "text", fin |-> TRUE, len |-> 1])]
    /\ UNCHANGED <<ws, current, manager, server>>

-----------------------------------------------------------------------------
(* The ESP8266 may refuse, be silent, close or send what is not a frame. *)

ServerAnswers(s) ==
    /\ server[s] = "connected"
    /\ \E response \in Responses :
          /\ wire' = [wire EXCEPT ![s] = Append(@, [op |-> response, fin |-> TRUE, len |-> 0])]
          /\ server' = [server EXCEPT ![s] = IF response = "accept" THEN "upgraded" ELSE "none"]
    /\ UNCHANGED <<ws, current, manager>>

ServerFrame(s) ==
    /\ server[s] = "upgraded" /\ Len(wire[s]) < MaxInFlight
    /\ \E op \in {"close", "bad"} :
          wire' = [wire EXCEPT ![s] = Append(@, [op |-> op, fin |-> TRUE, len |-> 0])]
    /\ UNCHANGED <<ws, current, manager, server>>

Step(s) ==
    \/ SocketConnect(s) \/ SocketIOError(s) \/ SocketClosed(s) \/ SocketData(s)
    \/ HandshakeTimer(s) \/ ServerAnswers(s) \/ ServerFrame(s)

Next == ConnectTo \/ SendPing \/ \E s \in Sockets : Step(s)

Spec == Init /\ [][Next]_vars

\* The runtime ends every attempt to connect and fires every timer.
FairSpec ==
    /\ Spec
    /\ \A s \in Sockets :
          /\ WF_vars(SocketConnect(s) \/ (ws[s].tcp = "connecting" /\ SocketIOError(s)))
          /\ WF_vars(HandshakeTimer(s)) /\ WF_vars(SocketData(s))

-----------------------------------------------------------------------------
TypeOK ==
    /\ current \in 0..MaxSockets
    /\ manager \in [connected : BOOLEAN, pinging : BOOLEAN,
                    told : {"none", "connectSuccess", "connectFail", "connectClose"}]
    /\ wire \in [Sockets -> Seq(Item)]
    /\ server \in [Sockets -> {"none", "connected", "upgraded"}]
    /\ ws \in [Sockets -> Socket]

\* While `connected' is set the current WebSocket is open and has its connection,
\* whatever the replaced ones still report: sendData and sendPing never raise and
\* never write to another connection.
ConnectedIsOpen ==
    manager.connected => current # 0 /\ ws[current].state = "OPEN" /\ ws[current].tcp = "connected"

\* The ping timer runs only while connected, between any two steps: no listener
\* clears the one without the other.
PingsOnlyWhileConnected == manager.pinging => manager.connected

\* A WebSocket that was replaced never becomes open: the connection it may still
\* make is never one the application reads.
ReplacedNeverOpen == \A s \in Sockets : s < current => ws[s].state = "CLOSED"

\* The application is told how its latest attempt ended, unless it makes another:
\* an ESP8266 that accepts the TCP connection and stays silent is reported by the
\* handshake timer.
Resolved(s) ==
    \/ ws[s].state = "OPEN" /\ manager.told = "connectSuccess"
    \/ ws[s].state = "CLOSED" /\ manager.told \in {"connectFail", "connectClose"}
AttemptResolved ==
    \A s \in Sockets :
        current = s /\ ws[s].state = "CONNECTING" ~> current # s \/ Resolved(s)

\* "Connection to Esp8266 closed" (Esp8266SocketManager.as:70): when the listener
\* reports a close, the connection to the ESP8266 is not open.
ClosedMeansClosed ==
    [][manager'.told = "connectClose" /\ ~manager'.connected /\ manager.connected =>
          ws'[current'].state # "OPEN"]_vars
=============================================================================

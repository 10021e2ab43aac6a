----------------------------- MODULE WebSocket -----------------------------
(***************************************************************************)
(* com/worlize/websocket/WebSocket.as and the receiving half of            *)
(* WebSocketFrame.as: the WebSocket client library the application is      *)
(* built with.  One object is a record `w'; each public method and each    *)
(* event handler is an operator from the object to the set of objects it   *)
(* can become.  ActionScript runs one handler at a time and dispatches     *)
(* events inside it: they are listed, in order, in w.events.               *)
(*                                                                         *)
(* Abstracted: a frame has an opcode, a FIN bit and a length in units; one *)
(* that addData or processFrame rejects for its header bits is "bad";      *)
(* binary frames behave like text frames.  The handshake response is one   *)
(* item.  Left out: TLS, URL parsing, the debug log, frames larger than    *)
(* the 32-bit length.  An ErrorEvent nobody listens to (ioError,           *)
(* abnormalClose) does not stop the handler: the library's own test client *)
(* listens to neither.                                                     *)
(***************************************************************************)
EXTENDS Integers, Sequences

CONSTANTS
    AssembleFragments,  \* config.assembleFragments
    MaxMessageSize,     \* config.maxMessageSize
    MaxFrameSize        \* config.maxReceivedFrameSize

ASSUME ConfigAssumption ==
    AssembleFragments \in BOOLEAN /\ MaxMessageSize \in Nat /\ MaxFrameSize \in Nat

\* What a server can send: a response to the handshake, and frames.
Responses == {"accept", "refuse", "garbled"}
Item == [op : Responses \cup {"text", "continuation", "ping", "close", "bad"},
         fin : BOOLEAN, len : Nat]

\* frameQueue: the opcode of its first frame and the length of all together.
NoFrames == [op |-> "none", len |-> 0]
Queued(queue, frame) ==
    [op |-> IF queue = NoFrames THEN frame.op ELSE queue.op, len |-> queue.len + frame.len]

NewSocket ==
    [tcp |-> "none",           \* the flash Socket: none, connecting, connected
     state |-> "INIT",         \* _readyState
     handshakeTimer |-> FALSE, closeTimer |-> FALSE,   \* running
     waiting |-> FALSE,        \* waitingForServerClose
     fatal |-> FALSE,          \* fatalError
     poisoned |-> FALSE,       \* currentFrame has a protocolError
     queue |-> NoFrames,       \* frameQueue
     opcode |-> "none",        \* fragmentationOpcode
     size |-> 0,               \* fragmentationSize
     events |-> <<>>,          \* dispatched by the handler that ran last
     messages |-> <<>>]        \* the lengths of the messages among them

Event == {"CONNECTION_FAIL", "OPEN", "CLOSED", "ABNORMAL_CLOSE", "ioError", "send close",
          "MESSAGE", "FRAME", "PING"}
Socket ==
    [tcp : {"none", "connecting", "connected"},
     state : {"INIT", "CONNECTING", "OPEN", "CLOSED"},
     handshakeTimer : BOOLEAN, closeTimer : BOOLEAN, waiting : BOOLEAN,
     fatal : BOOLEAN, poisoned : BOOLEAN,
     queue : [op : {"none", "text", "continuation"}, len : Nat],
     opcode : {"none", "text"}, size : Nat,
     events : Seq(Event), messages : Seq(Nat)]

\* `w' before the next handler runs.
Idle(w) == [w EXCEPT !.events = <<>>, !.messages = <<>>]

Dispatch(w, event) == [w EXCEPT !.events = Append(@, event)]
DispatchMessage(w, len) == [Dispatch(w, "MESSAGE") EXCEPT !.messages = Append(@, len)]

-----------------------------------------------------------------------------
SocketClose(w) == [w EXCEPT !.tcp = "none"]

\* Mutants: CLOSED is dispatched every time; the state is RFC 6455's.
DispatchClosedEventAlways(w) ==
    Dispatch([w EXCEPT !.handshakeTimer = FALSE, !.state = "CLOSED"], "CLOSED")
DispatchClosedEventClosing(w) ==
    Dispatch([w EXCEPT !.handshakeTimer = FALSE, !.state = "CLOSING"], "CLOSED")
DispatchClosedEvent(w) ==
    LET v == [w EXCEPT !.handshakeTimer = FALSE, !.state = "CLOSED"]
    IN  IF w.state = "CLOSED" THEN v ELSE Dispatch(v, "CLOSED")

\* sendData drops what is sent unless the state is OPEN.
SendClose(w) == IF w.state = "OPEN" THEN Dispatch(w, "send close") ELSE w

FailHandshake(w) ==
    Dispatch(Dispatch(
        [SocketClose(w) EXCEPT !.state = "CLOSED", !.handshakeTimer = FALSE],
        "CONNECTION_FAIL"), "CLOSED")

Drop(w) ==
    IF w.state # "OPEN" THEN w
    ELSE LET v == [w EXCEPT !.fatal = TRUE, !.queue = NoFrames, !.size = 0]
         IN  SocketClose(DispatchClosedEvent(SendClose(Dispatch(v, "ABNORMAL_CLOSE"))))

-----------------------------------------------------------------------------
(* Public methods *)

\* The runtime closes a connection the Socket still has.
Connect(w) ==
    IF w.state \in {"INIT", "CLOSED"}
    THEN {[w EXCEPT !.state = "CONNECTING", !.tcp = "connecting"]} ELSE {w}

\* Mutant: waiting for the server without a timer.
CloseUntimed(w, waitForServer) ==
    IF w.tcp = "connected" THEN {DispatchClosedEvent([SendClose(w) EXCEPT !.waiting = waitForServer])}
    ELSE {w}

\* Mutant: an object that is still connecting is left alone.
CloseConnectedOnly(w, waitForServer) ==
    {IF w.tcp = "connected" THEN DispatchClosedEvent(SendClose(w)) ELSE w}

\* Closing a Socket that is still connecting may raise and leave the attempt
\* going: the code catches the error and does not know.
Close(w, waitForServer) ==
    CASE w.tcp = "connected" ->
            LET v == SendClose(w)
            IN  {DispatchClosedEvent(IF waitForServer
                    THEN [v EXCEPT !.waiting = TRUE, !.closeTimer = TRUE] ELSE v)}
      [] w.tcp # "connected" /\ w.state = "CONNECTING" ->
            {[w EXCEPT !.state = "CLOSED", !.tcp = tcp] : tcp \in {w.tcp, "none"}}
      [] OTHER -> {w}

-----------------------------------------------------------------------------
(* Timers and socket events *)

HandleHandshakeTimer(w) == {FailHandshake(w)}

\* `waiting' is left set: the server may yet answer, or the object be connected
\* again.
HandleCloseTimer(w) ==
    LET v == [w EXCEPT !.closeTimer = FALSE]
    IN  {IF w.waiting /\ w.tcp = "connected" THEN SocketClose(v) ELSE v}

\* Mutant: the handshake is sent without starting its timer.
HandleSocketConnectUntimed(w) == {[w EXCEPT !.tcp = "connected"]}
HandleSocketConnect(w) == {[w EXCEPT !.tcp = "connected", !.handshakeTimer = TRUE]}

HandleSocketClose(w)   == {DispatchClosedEvent(SocketClose(w))}
\* Mutant: an error is passed on, and the object not closed.
HandleSocketIOErrorOpen(w) == {Dispatch(SocketClose(w), "ioError")}
HandleSocketIOError(w) == {DispatchClosedEvent(Dispatch(SocketClose(w), "ioError"))}

\* A status line that does not match raises in the middle of the parsing: the
\* handshake goes on waiting.
ReadServerHandshake(w, response) ==
    CASE response = "accept"  ->
            {Dispatch([w EXCEPT !.state = "OPEN", !.handshakeTimer = FALSE,
                                !.poisoned = FALSE, !.queue = NoFrames], "OPEN")}
      [] response = "refuse"  -> {FailHandshake(w)}
      [] response = "garbled" -> {w}

-----------------------------------------------------------------------------
(* Frames *)

\* Mutant: a text frame is a message even between the fragments of another.
ProcessTextAnywhere(w, frame) ==
    IF frame.fin THEN DispatchMessage(w, frame.len)
    ELSE [w EXCEPT !.queue = Queued(@, frame), !.opcode = "text"]
ProcessText(w, frame) ==
    CASE w.queue # NoFrames -> Drop(w)
      [] w.queue = NoFrames /\ frame.fin  -> DispatchMessage(w, frame.len)
      [] w.queue = NoFrames /\ ~frame.fin ->
            [w EXCEPT !.queue = Queued(@, frame), !.opcode = "text"]

\* Mutant: the size of a message is checked only once it is complete.
AddedSizeUnchecked(w, frame) == 0
AddedSize(w, frame) == w.size + frame.len

\* The first fragment is in the queue but not in `size'; the whole is measured
\* again at the end.
ProcessContinuation(w, frame) ==
    LET v == [w EXCEPT !.size = AddedSize(w, frame)]
        u == [v EXCEPT !.queue = Queued(@, frame)]
    IN  CASE w.opcode = "none"       -> Drop(w)
          [] w.opcode # "none" /\ v.size > MaxMessageSize -> Drop(v)
          [] w.opcode # "none" /\ v.size <= MaxMessageSize ->
                IF ~frame.fin THEN u
                ELSE IF u.queue.len > MaxMessageSize \/ u.queue.op # "text"
                THEN Drop(u)
                ELSE DispatchMessage(
                        [u EXCEPT !.queue = NoFrames, !.opcode = "none", !.size = 0],
                        u.queue.len)

\* A close frame ends the connection, as the answer to ours or with ours as the
\* answer.
ProcessClose(w) ==
    IF w.waiting
    THEN {SocketClose([w EXCEPT !.closeTimer = FALSE, !.waiting = FALSE])}
    ELSE {SocketClose(v) : v \in Close(w, FALSE)}

\* A frame rejected by addData stays the current frame, and is rejected again;
\* one rejected for its reserved bits or opcode is replaced by the next.
ProcessFrame(w, frame) ==
    LET v == IF AssembleFragments THEN w ELSE Dispatch(w, "FRAME")
        Reject == [Drop(w) EXCEPT !.poisoned = TRUE]
    IN  CASE frame.len > MaxFrameSize -> {Reject}
          [] frame.len <= MaxFrameSize /\ frame.op = "bad"   -> {Reject, Drop(v)}
          [] frame.len <= MaxFrameSize /\ frame.op = "ping"  -> {Dispatch(v, "PING")}
          [] frame.len <= MaxFrameSize /\ frame.op = "close" -> ProcessClose(v)
          [] frame.len <= MaxFrameSize /\ frame.op = "text"  ->
                {IF AssembleFragments THEN ProcessText(w, frame) ELSE v}
          [] frame.len <= MaxFrameSize /\ frame.op = "continuation" ->
                {IF AssembleFragments THEN ProcessContinuation(w, frame) ELSE v}

\* One item of the data that arrives.  A response that comes when the handshake
\* was given up is parsed as a frame, and found bad; after a fatal error a frame
\* is taken from the socket and not processed.
HandleSocketData(w, item) ==
    CASE w.state = "CONNECTING" -> ReadServerHandshake(w, item.op)
      [] w.state # "CONNECTING" /\ item.op \in Responses -> {[w EXCEPT !.poisoned = TRUE]}
      [] w.state # "CONNECTING" /\ item.op \notin Responses ->
            IF w.poisoned \/ w.fatal THEN {w} ELSE ProcessFrame(w, item)
=============================================================================

-------------------------- MODULE WebSocketProofs --------------------------
(***************************************************************************)
(* What a handler or method of WebSocket.as does to an object that is well *)
(* typed: lemmas for the modules that have such objects.                   *)
(***************************************************************************)
EXTENDS WebSocket, SequenceTheorems, TLAPS

\* An object that is OPEN is connected, and one that waits for the server's close
\* frame is CLOSED.
Sound(w) ==
    /\ w.state = "OPEN" => w.tcp = "connected"
    /\ w.waiting \/ w.closeTimer => w.state = "CLOSED"

\* What holds of the fragments in the queue: the first is not in `size', and an
\* object that is not OPEN is not dropped when `size' exceeds the limit.
Bounded(w) ==
    /\ w.queue.len <= MaxMessageSize + MaxFrameSize
    /\ w.size <= MaxMessageSize => w.queue.len <= MaxFrameSize + w.size

\* An object connected a second time may be unsound; a sound one stays so.
Keeps(w, v) == (Sound(w) => Sound(v)) /\ (Bounded(w) => Bounded(v))

\* Events that do not tell of the beginning or the end of a connection.
Loud == {"CONNECTION_FAIL", "OPEN", "CLOSED"}
Quiet(events) == \A i \in DOMAIN events : events[i] \notin Loud

\* Events the last of which, and no other, is CLOSED.
EndsClosed(events) ==
    /\ Len(events) \in 1..4
    /\ \A i \in 1..Len(events) :
          events[i] # "OPEN" /\ (events[i] = "CLOSED" <=> i = Len(events))

\* The four things that happen to an object: the connection neither begins nor
\* ends, it opens, it ends with CLOSED, or an attempt is given up without a word.
Stays(w, v) ==
    /\ v.state = w.state /\ v.tcp \in {w.tcp, "none"}
    /\ v.handshakeTimer => w.handshakeTimer
    /\ Quiet(v.events)
Opens(w, v) ==
    /\ w.state = "CONNECTING" /\ v.state = "OPEN" /\ v.tcp = w.tcp
    /\ ~v.handshakeTimer
    /\ v.events = <<"OPEN">>
Closes(w, v) ==
    /\ w.state # "CLOSED" \/ w.handshakeTimer
    /\ v.state = "CLOSED" /\ ~v.handshakeTimer /\ v.tcp \in {"none", "connected"}
    /\ EndsClosed(v.events)
GivesUp(w, v) ==
    /\ w.state = "CONNECTING" /\ v.state = "CLOSED" /\ v.tcp \in {w.tcp, "none"}
    /\ v.handshakeTimer = w.handshakeTimer
    /\ Quiet(v.events)

\* What a handler can make of `w', and a handler of frames.
Outcome(w, v) == v \in Socket /\ Keeps(w, v) /\ (Stays(w, v) \/ Closes(w, v))
Effect(w, v)  == Outcome(w, v) \/ (v \in Socket /\ Keeps(w, v) /\ (Opens(w, v) \/ GivesUp(w, v)))

\* `u' is `w' on the way to the outcome: the connection is the same.
Alike(w, u) ==
    w.tcp = u.tcp /\ w.state = u.state /\ w.handshakeTimer = u.handshakeTimer /\ Keeps(w, u)

-----------------------------------------------------------------------------
(* Events *)

LEMMA IdleIs ==
    ASSUME NEW w \in Socket
    PROVE  /\ Idle(w) \in Socket /\ Idle(w).events = <<>> /\ Idle(w).messages = <<>>
           /\ Idle(w).tcp = w.tcp /\ Idle(w).state = w.state
           /\ Idle(w).handshakeTimer = w.handshakeTimer
           /\ Idle(w).waiting = w.waiting /\ Idle(w).closeTimer = w.closeTimer
           /\ Idle(w).queue = w.queue /\ Idle(w).size = w.size /\ Idle(w).opcode = w.opcode
           /\ Idle(w).fatal = w.fatal /\ Idle(w).poisoned = w.poisoned
<1>1. <<>> \in Seq(Event) /\ <<>> \in Seq(Nat)
    BY EmptySeq
<1>. QED
    BY <1>1 DEF Idle, Socket

\* A handler that runs on Idle(w) does to `w' what it does to Idle(w).
LEMMA IdleEffect ==
    ASSUME NEW w \in Socket, NEW v
    PROVE  /\ Outcome(Idle(w), v) => Outcome(w, v)
           /\ Effect(Idle(w), v) => Effect(w, v)
           /\ Sound(w) => Sound(Idle(w))
<1> DEFINE i == Idle(w)
<1>1. /\ i.tcp = w.tcp /\ i.state = w.state /\ i.handshakeTimer = w.handshakeTimer
      /\ i.waiting = w.waiting /\ i.closeTimer = w.closeTimer
      /\ i.queue = w.queue /\ i.size = w.size
    BY IdleIs
<1>. HIDE DEF i
<1>2. Keeps(i, v) => Keeps(w, v)
    BY <1>1 DEF Keeps, Sound, Bounded
<1>3. /\ Stays(i, v) => Stays(w, v)
      /\ Opens(i, v) => Opens(w, v)
      /\ Closes(i, v) => Closes(w, v)
      /\ GivesUp(i, v) => GivesUp(w, v)
    BY <1>1 DEF Stays, Opens, Closes, GivesUp
<1>4. Outcome(i, v) => Outcome(w, v)
    BY <1>2, <1>3 DEF Outcome
<1>5. Effect(i, v) => Effect(w, v)
    BY <1>2, <1>3, <1>4 DEF Effect
<1>6. Sound(w) => Sound(i)
    BY <1>1 DEF Sound
<1>. QED
    BY <1>4, <1>5, <1>6 DEF i

LEMMA QuietAppend ==
    ASSUME NEW s \in Seq(Event), Quiet(s), NEW e \in Event, e \notin Loud
    PROVE  /\ Append(s, e) \in Seq(Event) /\ Quiet(Append(s, e))
           /\ Len(Append(s, e)) = Len(s) + 1
BY AppendProperties DEF Quiet

LEMMA OneQuiet ==
    ASSUME NEW e \in Event, e \notin Loud
    PROVE  Quiet(Append(<<>>, e)) /\ Len(Append(<<>>, e)) = 1
<1> DEFINE s == Append(<<>>, e)
<1>1. <<>> \in Seq(Event) /\ Len(<<>>) = 0
    BY EmptySeq
<1>2. s \in Seq(Event) /\ Len(s) = Len(<<>>) + 1 /\ s[Len(<<>>) + 1] = e
    BY <1>1, AppendProperties
<1>3. DOMAIN s = 1..1 /\ Len(s) = 1 /\ s[1] = e
    BY <1>1, <1>2, LenProperties
<1>. HIDE DEF s
<1>4. Quiet(s)
    BY <1>3 DEF Quiet
<1>. QED
    BY <1>3, <1>4 DEF s

LEMMA ClosedAppend ==
    ASSUME NEW s \in Seq(Event), Len(s) <= 3,
           \A i \in 1..Len(s) : s[i] # "OPEN" /\ s[i] # "CLOSED"
    PROVE  /\ Append(s, "CLOSED") \in Seq(Event)
           /\ EndsClosed(Append(s, "CLOSED"))
<1>1. "CLOSED" \in Event
    BY DEF Event
<1>2. /\ Append(s, "CLOSED") \in Seq(Event)
      /\ Len(Append(s, "CLOSED")) = Len(s) + 1
      /\ \A i \in 1..Len(s) : Append(s, "CLOSED")[i] = s[i]
      /\ Append(s, "CLOSED")[Len(s) + 1] = "CLOSED"
    BY <1>1, AppendProperties
<1>3. Len(s) \in Nat
    OBVIOUS
<1>. QED
    BY <1>2, <1>3 DEF EndsClosed

-----------------------------------------------------------------------------
(* The parts of the handlers *)

LEMMA DispatchIs ==
    ASSUME NEW w \in Socket, NEW e \in Event
    PROVE  /\ Dispatch(w, e) \in Socket
           /\ Dispatch(w, e).events = Append(w.events, e)
           /\ Dispatch(w, e).tcp = w.tcp /\ Dispatch(w, e).state = w.state
           /\ Dispatch(w, e).handshakeTimer = w.handshakeTimer
           /\ Dispatch(w, e).closeTimer = w.closeTimer
           /\ Dispatch(w, e).waiting = w.waiting
           /\ Dispatch(w, e).queue = w.queue /\ Dispatch(w, e).size = w.size
<1>1. w.events \in Seq(Event) /\ Append(w.events, e) \in Seq(Event)
    BY AppendProperties DEF Socket
<1>. QED
    BY <1>1 DEF Dispatch, Socket

LEMMA SocketCloseIs ==
    ASSUME NEW w \in Socket
    PROVE  /\ SocketClose(w) \in Socket
           /\ SocketClose(w).tcp = "none"
           /\ SocketClose(w).events = w.events /\ SocketClose(w).state = w.state
           /\ SocketClose(w).handshakeTimer = w.handshakeTimer
           /\ SocketClose(w).closeTimer = w.closeTimer
           /\ SocketClose(w).waiting = w.waiting
           /\ SocketClose(w).queue = w.queue /\ SocketClose(w).size = w.size
BY DEF SocketClose, Socket

\* CLOSED is dispatched unless the object is CLOSED already.
LEMMA DispatchClosedEventIs ==
    ASSUME NEW w \in Socket, Quiet(w.events), Len(w.events) <= 3
    PROVE  /\ DispatchClosedEvent(w) \in Socket
           /\ DispatchClosedEvent(w).tcp = w.tcp
           /\ DispatchClosedEvent(w).state = "CLOSED"
           /\ DispatchClosedEvent(w).handshakeTimer = FALSE
           /\ DispatchClosedEvent(w).closeTimer = w.closeTimer
           /\ DispatchClosedEvent(w).waiting = w.waiting
           /\ DispatchClosedEvent(w).queue = w.queue /\ DispatchClosedEvent(w).size = w.size
           /\ w.state = "CLOSED" => DispatchClosedEvent(w).events = w.events
           /\ w.state # "CLOSED" => EndsClosed(DispatchClosedEvent(w).events)
<1> DEFINE v == [w EXCEPT !.handshakeTimer = FALSE, !.state = "CLOSED"]
<1>1. /\ v \in Socket /\ v.tcp = w.tcp /\ v.state = "CLOSED" /\ ~v.handshakeTimer
      /\ v.closeTimer = w.closeTimer /\ v.waiting = w.waiting /\ v.events = w.events
      /\ v.queue = w.queue /\ v.size = w.size
    BY DEF Socket
<1>2. "CLOSED" \in Event /\ w.events \in Seq(Event)
    BY DEF Event, Socket
<1>3. EndsClosed(Append(w.events, "CLOSED"))
    BY <1>2, ClosedAppend DEF Quiet, Loud
<1>4. DispatchClosedEvent(w) = IF w.state = "CLOSED" THEN v ELSE Dispatch(v, "CLOSED")
    BY DEF DispatchClosedEvent
<1>. HIDE DEF v
<1>5. CASE w.state = "CLOSED"
    BY <1>1, <1>4, <1>5
<1>6. CASE w.state # "CLOSED"
    <2>1. DispatchClosedEvent(w) = Dispatch(v, "CLOSED")
        BY <1>4, <1>6
    <2> DEFINE u == Dispatch(v, "CLOSED")
    <2>2. /\ u \in Socket /\ u.events = Append(v.events, "CLOSED") /\ u.tcp = v.tcp
          /\ u.state = v.state /\ u.handshakeTimer = v.handshakeTimer
          /\ u.closeTimer = v.closeTimer /\ u.waiting = v.waiting
          /\ u.queue = v.queue /\ u.size = v.size
        BY <1>1, <1>2, DispatchIs
    <2>3. EndsClosed(u.events)
        BY <1>1, <1>3, <2>2
    <2>. QED
        BY <1>1, <1>6, <2>1, <2>2, <2>3
<1>. QED
    BY <1>5, <1>6

LEMMA SendCloseIs ==
    ASSUME NEW w \in Socket, Quiet(w.events)
    PROVE  /\ SendClose(w) \in Socket
           /\ SendClose(w).tcp = w.tcp /\ SendClose(w).state = w.state
           /\ SendClose(w).handshakeTimer = w.handshakeTimer
           /\ SendClose(w).closeTimer = w.closeTimer
           /\ SendClose(w).waiting = w.waiting
           /\ SendClose(w).queue = w.queue /\ SendClose(w).size = w.size
           /\ Quiet(SendClose(w).events)
           /\ Len(SendClose(w).events) \in {Len(w.events), Len(w.events) + 1}
<1>1. "send close" \in Event /\ "send close" \notin Loud
    BY DEF Event, Loud
<1>2. w.events \in Seq(Event)
    BY DEF Socket
<1>3. Len(w.events) \in Nat
    BY <1>2
<1>4. CASE w.state # "OPEN"
    BY <1>3, <1>4 DEF SendClose
<1>5. CASE w.state = "OPEN"
    <2>1. SendClose(w) = Dispatch(w, "send close")
        BY <1>5 DEF SendClose
    <2>2. Quiet(Append(w.events, "send close")) /\ Len(Append(w.events, "send close")) = Len(w.events) + 1
        BY <1>1, <1>2, QuietAppend
    <2> DEFINE u == Dispatch(w, "send close")
    <2>3. /\ u \in Socket /\ u.events = Append(w.events, "send close") /\ u.tcp = w.tcp
          /\ u.state = w.state /\ u.handshakeTimer = w.handshakeTimer
          /\ u.closeTimer = w.closeTimer /\ u.waiting = w.waiting
          /\ u.queue = w.queue /\ u.size = w.size
        BY <1>1, DispatchIs
    <2>4. Quiet(u.events) /\ Len(u.events) = Len(w.events) + 1
        BY <2>2, <2>3
    <2>. QED
        BY <2>1, <2>3, <2>4
<1>. QED
    BY <1>4, <1>5

LEMMA AlikeSelf == \A w : Alike(w, w)
BY DEF Alike, Keeps

\* Sound and Bounded look at six fields.
LEMMA SameKeeps ==
    ASSUME NEW w, NEW v, v.tcp = w.tcp, v.state = w.state, v.waiting = w.waiting,
           v.closeTimer = w.closeTimer, v.queue = w.queue, v.size = w.size
    PROVE  Keeps(w, v)
BY DEF Keeps, Sound, Bounded

\* A connection that ended keeps nothing open, and need not touch the queue.
LEMMA ClosedKeeps ==
    ASSUME NEW w, NEW v, v.state = "CLOSED", v.queue = w.queue, v.size = w.size
    PROVE  Keeps(w, v)
BY DEF Keeps, Sound, Bounded

LEMMA FailHandshakeIs ==
    ASSUME NEW w \in Socket, w.events = <<>>, w.state # "CLOSED" \/ w.handshakeTimer
    PROVE  /\ FailHandshake(w) \in Socket
           /\ FailHandshake(w).tcp = "none"
           /\ Closes(w, FailHandshake(w)) /\ Keeps(w, FailHandshake(w))
<1> DEFINE c == SocketClose(w)
           v == [c EXCEPT !.state = "CLOSED", !.handshakeTimer = FALSE]
           u == Dispatch(v, "CONNECTION_FAIL")
           t == Dispatch(u, "CLOSED")
<1>1. /\ c \in Socket /\ c.tcp = "none" /\ c.events = <<>>
      /\ c.queue = w.queue /\ c.size = w.size
    BY SocketCloseIs
<1>2. "CONNECTION_FAIL" \in Event /\ "CLOSED" \in Event
    BY DEF Event
<1>3. FailHandshake(w) = t
    BY DEF FailHandshake
<1>. HIDE DEF c
<1>4. /\ v \in Socket /\ v.tcp = "none" /\ v.state = "CLOSED" /\ v.handshakeTimer = FALSE
      /\ v.events = <<>> /\ v.queue = w.queue /\ v.size = w.size
    BY <1>1 DEF Socket
<1>. HIDE DEF v
<1>5. /\ u \in Socket /\ u.tcp = "none" /\ u.state = "CLOSED" /\ u.handshakeTimer = FALSE
      /\ u.events = Append(<<>>, "CONNECTION_FAIL") /\ u.queue = w.queue /\ u.size = w.size
    BY <1>2, <1>4, DispatchIs
<1>. HIDE DEF u
<1>6. /\ t \in Socket /\ t.tcp = "none" /\ t.state = "CLOSED" /\ t.handshakeTimer = FALSE
      /\ t.events = Append(u.events, "CLOSED") /\ t.queue = w.queue /\ t.size = w.size
    BY <1>2, <1>5, DispatchIs
<1>. HIDE DEF t
<1>7. u.events \in Seq(Event) /\ Len(u.events) = 1 /\ u.events[1] = "CONNECTION_FAIL"
    BY <1>2, <1>5, EmptySeq, AppendProperties
<1>8. EndsClosed(t.events)
    <2>1. Len(u.events) <= 3 /\ \A i \in 1..Len(u.events) : u.events[i] # "OPEN" /\ u.events[i] # "CLOSED"
        BY <1>7
    <2>2. EndsClosed(Append(u.events, "CLOSED"))
        BY <1>7, <2>1, ClosedAppend
    <2>. QED
        BY <1>6, <2>2
<1>9. Keeps(w, t)
    BY <1>6, ClosedKeeps
<1>. QED
    BY <1>3, <1>6, <1>8, <1>9 DEF Closes

\* An object that is not OPEN cannot be dropped.
LEMMA DropIs ==
    ASSUME NEW w \in Socket, Quiet(w.events), Len(w.events) <= 1
    PROVE  /\ w.state # "OPEN" => Drop(w) = w
           /\ w.state = "OPEN" =>
                 /\ Drop(w) \in Socket
                 /\ Drop(w).tcp = "none"
                 /\ Closes(w, Drop(w))
                 /\ Drop(w).queue = NoFrames /\ Drop(w).size = 0
<1>1. CASE w.state # "OPEN"
    BY <1>1 DEF Drop
<1>2. CASE w.state = "OPEN"
    <2> DEFINE v == [w EXCEPT !.fatal = TRUE, !.queue = NoFrames, !.size = 0]
               u == Dispatch(v, "ABNORMAL_CLOSE")
               t == SendClose(u)
               r == DispatchClosedEvent(t)
               q == SocketClose(r)
    <2>1. /\ v \in Socket /\ v.state = "OPEN" /\ v.events = w.events
          /\ v.queue = NoFrames /\ v.size = 0
        BY <1>2 DEF Socket, NoFrames
    <2>2. Drop(w) = q
        BY <1>2 DEF Drop
    <2>3. "ABNORMAL_CLOSE" \in Event /\ "ABNORMAL_CLOSE" \notin Loud
        BY DEF Event, Loud
    <2>4. w.events \in Seq(Event) /\ Len(w.events) \in Nat
        BY DEF Socket
    <2>. HIDE DEF v
    <2>5. /\ u \in Socket /\ u.state = "OPEN" /\ u.events = Append(w.events, "ABNORMAL_CLOSE")
          /\ u.queue = NoFrames /\ u.size = 0
        BY <2>1, <2>3, DispatchIs
    <2>. HIDE DEF u
    <2>6. Quiet(u.events) /\ Len(u.events) = Len(w.events) + 1
        BY <2>3, <2>4, <2>5, QuietAppend
    <2>7. /\ t \in Socket /\ t.state = "OPEN" /\ Quiet(t.events)
          /\ Len(t.events) \in {Len(u.events), Len(u.events) + 1}
          /\ t.queue = NoFrames /\ t.size = 0
        BY <2>5, <2>6, SendCloseIs
    <2>. HIDE DEF t
    <2>8. Len(t.events) <= 3
        BY <2>4, <2>6, <2>7
    <2>9. /\ r \in Socket /\ r.state = "CLOSED" /\ r.handshakeTimer = FALSE
          /\ EndsClosed(r.events) /\ r.queue = NoFrames /\ r.size = 0
        BY <2>7, <2>8, DispatchClosedEventIs
    <2>. HIDE DEF r
    <2>10. /\ q \in Socket /\ q.tcp = "none" /\ q.state = "CLOSED" /\ q.handshakeTimer = FALSE
           /\ q.events = r.events /\ q.queue = NoFrames /\ q.size = 0
        BY <2>9, SocketCloseIs
    <2>. HIDE DEF q
    <2>. QED
        BY <1>2, <2>2, <2>9, <2>10 DEF Closes
<1>. QED
    BY <1>1, <1>2

-----------------------------------------------------------------------------
(* Outcomes *)

LEMMA AlikeOutcome ==
    ASSUME NEW w, NEW u, NEW v, Alike(w, u), Outcome(u, v)
    PROVE  Outcome(w, v)
BY DEF Alike, Outcome, Stays, Closes, Keeps

LEMMA AlikeStays ==
    ASSUME NEW w, NEW v \in Socket, Alike(w, v), Quiet(v.events)
    PROVE  Outcome(w, v)
BY DEF Alike, Outcome, Stays

LEMMA NoFramesBounded ==
    ASSUME NEW v, v.queue = NoFrames, v.size \in Nat
    PROVE  Bounded(v)
BY ConfigAssumption DEF Bounded, NoFrames

LEMMA DropOutcome ==
    ASSUME NEW w \in Socket, Quiet(w.events), Len(w.events) <= 1
    PROVE  Outcome(w, Drop(w))
<1>1. CASE w.state = "OPEN"
    <2>1. /\ Drop(w) \in Socket /\ Drop(w).state = "CLOSED" /\ Closes(w, Drop(w))
          /\ Drop(w).queue = NoFrames /\ Drop(w).size = 0
        BY <1>1, DropIs DEF Closes
    <2>2. Sound(Drop(w)) /\ Bounded(Drop(w))
        BY <2>1, NoFramesBounded DEF Sound
    <2>. QED
        BY <2>1, <2>2 DEF Outcome, Keeps
<1>2. CASE w.state # "OPEN"
    BY <1>2, DropIs, AlikeStays, AlikeSelf
<1>. QED
    BY <1>1, <1>2

LEMMA PoisonedOutcome ==
    ASSUME NEW w, NEW v \in Socket, Outcome(w, v)
    PROVE  Outcome(w, [v EXCEPT !.poisoned = TRUE])
<1> DEFINE u == [v EXCEPT !.poisoned = TRUE]
<1>1. /\ u \in Socket /\ u.tcp = v.tcp /\ u.state = v.state /\ u.events = v.events
      /\ u.handshakeTimer = v.handshakeTimer /\ u.waiting = v.waiting
      /\ u.closeTimer = v.closeTimer /\ u.queue = v.queue /\ u.size = v.size
    BY DEF Socket
<1>. HIDE DEF u
<1>2. Keeps(w, u)
    BY <1>1, SameKeeps DEF Outcome, Keeps
<1>3. Outcome(w, u)
    BY <1>1, <1>2 DEF Outcome, Stays, Closes
<1>. QED
    BY <1>3 DEF u

\* Whatever leads to it, the end of an object that is CLOSED already is not
\* dispatched again.
LEMMA ClosedEventOutcome ==
    ASSUME NEW w, NEW c \in Socket, c.state = w.state, c.handshakeTimer = w.handshakeTimer,
           c.tcp \in {"none", "connected"}, c.tcp \in {w.tcp, "none"},
           c.queue = w.queue, c.size = w.size, Quiet(c.events), Len(c.events) <= 3
    PROVE  /\ Outcome(w, DispatchClosedEvent(c)) /\ DispatchClosedEvent(c).state = "CLOSED"
           /\ DispatchClosedEvent(c).tcp = c.tcp
<1> DEFINE v == DispatchClosedEvent(c)
<1>1. /\ v \in Socket /\ v.tcp = c.tcp /\ v.state = "CLOSED" /\ v.handshakeTimer = FALSE
      /\ c.state = "CLOSED" => v.events = c.events
      /\ c.state # "CLOSED" => EndsClosed(v.events)
      /\ v.queue = c.queue /\ v.size = c.size
    BY DispatchClosedEventIs
<1>. HIDE DEF v
<1>2. Keeps(w, v)
    BY <1>1, ClosedKeeps
<1>3. w.state = "CLOSED" => Stays(w, v)
    BY <1>1 DEF Stays
<1>4. w.state # "CLOSED" => Closes(w, v)
    BY <1>1 DEF Closes
<1>5. Outcome(w, v)
    BY <1>1, <1>2, <1>3, <1>4 DEF Outcome
<1>. QED
    BY <1>1, <1>5 DEF v

LEMMA NoEvents == Quiet(<<>>) /\ Len(<<>>) = 0
BY DEF Quiet

-----------------------------------------------------------------------------
(* The methods and the handlers *)

LEMMA ConnectIs ==
    ASSUME NEW w \in Socket, w.state \in {"INIT", "CLOSED"}, NEW v \in Connect(w)
    PROVE  /\ v \in Socket /\ v.state = "CONNECTING" /\ v.tcp = "connecting"
           /\ v.events = w.events /\ v.messages = w.messages
           /\ v.handshakeTimer = w.handshakeTimer
           /\ v.waiting = w.waiting /\ v.closeTimer = w.closeTimer
           /\ v.queue = w.queue /\ v.size = w.size /\ v.opcode = w.opcode
           /\ v.fatal = w.fatal /\ v.poisoned = w.poisoned
<1>1. v = [w EXCEPT !.state = "CONNECTING", !.tcp = "connecting"]
    BY DEF Connect
<1>. QED
    BY <1>1 DEF Socket

LEMMA CloseEffect ==
    ASSUME NEW w \in Socket, Quiet(w.events), Len(w.events) <= 1,
           NEW waitForServer \in BOOLEAN, NEW v \in Close(w, waitForServer)
    PROVE  /\ Effect(w, v)
           /\ w.state # "CONNECTING" => Outcome(w, v)
           /\ w.state = "CONNECTING" => v.state = "CLOSED"
           /\ Sound(w) => v.state # "OPEN" /\ (w.state # "INIT" => v.state = "CLOSED")
           /\ w.tcp = "connected" => v.tcp = "connected"
<1>1. CASE w.tcp = "connected"
    <2> DEFINE u == SendClose(w)
               t == [u EXCEPT !.waiting = TRUE, !.closeTimer = TRUE]
    <2>1. v = DispatchClosedEvent(IF waitForServer THEN t ELSE u)
        BY <1>1 DEF Close
    <2>2. /\ u \in Socket /\ u.tcp = "connected" /\ u.state = w.state
          /\ u.handshakeTimer = w.handshakeTimer /\ u.closeTimer = w.closeTimer
          /\ u.waiting = w.waiting /\ Quiet(u.events)
          /\ Len(u.events) \in {Len(w.events), Len(w.events) + 1}
          /\ u.queue = w.queue /\ u.size = w.size
        BY <1>1, SendCloseIs
    <2>3. Len(u.events) <= 3
        <3>1. Len(w.events) \in Nat
            BY DEF Socket
        <3>2. \A k \in Nat : k <= 1 => k <= 3 /\ k + 1 <= 3
            OBVIOUS
        <3>. QED
            BY <2>2, <3>1, <3>2
    <2>. HIDE DEF u
    <2>4. /\ t \in Socket /\ t.tcp = "connected" /\ t.state = w.state /\ t.events = u.events
          /\ t.handshakeTimer = w.handshakeTimer /\ t.queue = w.queue /\ t.size = w.size
        BY <2>2 DEF Socket
    <2>. HIDE DEF t
    <2>5. CASE ~waitForServer
        <3>1. Outcome(w, v) /\ v.state = "CLOSED" /\ v.tcp = u.tcp
            BY <1>1, <2>1, <2>2, <2>3, <2>5, ClosedEventOutcome
        <3>. QED
            BY <2>2, <3>1 DEF Effect
    <2>6. CASE waitForServer
        <3>1. Outcome(w, v) /\ v.state = "CLOSED" /\ v.tcp = t.tcp
            BY <1>1, <2>1, <2>2, <2>3, <2>4, <2>6, ClosedEventOutcome
        <3>. QED
            BY <2>4, <3>1 DEF Effect
    <2>. QED
        BY <2>5, <2>6
<1>2. CASE w.tcp # "connected" /\ w.state = "CONNECTING"
    <2>1. PICK tcp \in {w.tcp, "none"} : v = [w EXCEPT !.state = "CLOSED", !.tcp = tcp]
        BY <1>2 DEF Close
    <2>2. /\ v \in Socket /\ v.tcp \in {w.tcp, "none"} /\ v.state = "CLOSED"
          /\ v.handshakeTimer = w.handshakeTimer /\ v.events = w.events
          /\ v.queue = w.queue /\ v.size = w.size
        BY <2>1 DEF Socket
    <2>3. Keeps(w, v)
        BY <2>2, ClosedKeeps
    <2>. QED
        BY <1>2, <2>2, <2>3 DEF Effect, GivesUp
<1>3. CASE w.tcp # "connected" /\ w.state # "CONNECTING"
    <2>1. v = w
        BY <1>3 DEF Close
    <2>2. Sound(w) => w.state \in {"INIT", "CLOSED"}
        BY <1>3 DEF Sound, Socket
    <2>3. Outcome(w, w)
        BY AlikeStays, AlikeSelf
    <2>. QED
        BY <1>3, <2>1, <2>2, <2>3 DEF Effect
<1>. QED
    BY <1>1, <1>2, <1>3

LEMMA HandshakeTimerEffect ==
    ASSUME NEW w \in Socket, w.events = <<>>, w.handshakeTimer,
           NEW v \in HandleHandshakeTimer(w)
    PROVE  v.tcp = "none" /\ v.state = "CLOSED" /\ Effect(w, v)
<1>1. v = FailHandshake(w)
    BY DEF HandleHandshakeTimer
<1>2. v \in Socket /\ v.tcp = "none" /\ Closes(w, v) /\ Keeps(w, v)
    BY <1>1, FailHandshakeIs
<1>. QED
    BY <1>2 DEF Effect, Outcome, Closes

LEMMA CloseTimerEffect ==
    ASSUME NEW w \in Socket, w.events = <<>>, NEW v \in HandleCloseTimer(w)
    PROVE  v.state = w.state /\ Effect(w, v)
<1> DEFINE u == [w EXCEPT !.closeTimer = FALSE]
           t == SocketClose(u)
<1>1. /\ u \in Socket /\ u.tcp = w.tcp /\ u.state = w.state /\ u.events = <<>>
      /\ u.handshakeTimer = w.handshakeTimer /\ u.waiting = w.waiting /\ u.closeTimer = FALSE
      /\ u.queue = w.queue /\ u.size = w.size
    BY DEF Socket
<1>2. v = IF w.waiting /\ w.tcp = "connected" THEN t ELSE u
    BY DEF HandleCloseTimer
<1>. HIDE DEF u
<1>3. /\ t \in Socket /\ t.tcp = "none" /\ t.state = w.state /\ t.events = <<>>
      /\ t.handshakeTimer = w.handshakeTimer /\ t.waiting = w.waiting /\ t.closeTimer = FALSE
      /\ t.queue = w.queue /\ t.size = w.size
    BY <1>1, SocketCloseIs
<1>. HIDE DEF t
<1>4. CASE w.waiting /\ w.tcp = "connected"
    <2>1. v = t
        BY <1>2, <1>4
    <2>2. Keeps(w, t)
        BY <1>3, <1>4 DEF Keeps, Sound, Bounded
    <2>. QED
        BY <1>3, <2>1, <2>2, NoEvents DEF Effect, Outcome, Stays
<1>5. CASE ~(w.waiting /\ w.tcp = "connected")
    <2>1. v = u
        BY <1>2, <1>5
    <2>2. Alike(w, u)
        BY <1>1 DEF Alike, Keeps, Sound, Bounded
    <2>. QED
        BY <1>1, <2>1, <2>2, NoEvents, AlikeStays DEF Effect
<1>. QED
    BY <1>4, <1>5

LEMMA SocketConnectIs ==
    ASSUME NEW w \in Socket, w.tcp = "connecting", NEW v \in HandleSocketConnect(w)
    PROVE  /\ v \in Socket /\ Keeps(w, v) /\ v.tcp = "connected" /\ v.state = w.state
           /\ v.handshakeTimer /\ v.events = w.events /\ v.messages = w.messages
           /\ v.queue = w.queue /\ v.size = w.size /\ v.opcode = w.opcode /\ v.fatal = w.fatal
<1>1. v = [w EXCEPT !.tcp = "connected", !.handshakeTimer = TRUE]
    BY DEF HandleSocketConnect
<1>2. /\ v \in Socket /\ v.tcp = "connected" /\ v.state = w.state /\ v.handshakeTimer = TRUE
      /\ v.events = w.events /\ v.messages = w.messages /\ v.queue = w.queue /\ v.size = w.size
      /\ v.opcode = w.opcode /\ v.fatal = w.fatal
      /\ v.waiting = w.waiting /\ v.closeTimer = w.closeTimer
      /\ v.queue = w.queue /\ v.size = w.size
    BY <1>1 DEF Socket
<1>. QED
    BY <1>2 DEF Keeps, Sound, Bounded

LEMMA SocketClosedEffect ==
    ASSUME NEW w \in Socket, w.events = <<>>, NEW v \in HandleSocketClose(w)
    PROVE  v.tcp = "none" /\ v.state = "CLOSED" /\ Effect(w, v)
<1> DEFINE c == SocketClose(w)
<1>1. v = DispatchClosedEvent(c)
    BY DEF HandleSocketClose
<1>2. /\ c \in Socket /\ c.tcp = "none" /\ c.state = w.state
      /\ c.handshakeTimer = w.handshakeTimer /\ c.events = <<>>
      /\ c.queue = w.queue /\ c.size = w.size
    BY SocketCloseIs
<1>. HIDE DEF c
<1>3. Quiet(c.events) /\ Len(c.events) <= 3
    BY <1>2, NoEvents
<1>. QED
    BY <1>1, <1>2, <1>3, ClosedEventOutcome DEF Effect

LEMMA SocketIOErrorEffect ==
    ASSUME NEW w \in Socket, w.events = <<>>, NEW v \in HandleSocketIOError(w)
    PROVE  v.tcp = "none" /\ v.state = "CLOSED" /\ Effect(w, v)
<1> DEFINE c == SocketClose(w)
           e == Dispatch(c, "ioError")
<1>1. v = DispatchClosedEvent(e)
    BY DEF HandleSocketIOError
<1>2. /\ c \in Socket /\ c.tcp = "none" /\ c.state = w.state
      /\ c.handshakeTimer = w.handshakeTimer /\ c.events = <<>>
      /\ c.queue = w.queue /\ c.size = w.size
    BY SocketCloseIs
<1>. HIDE DEF c
<1>3. "ioError" \in Event /\ "ioError" \notin Loud
    BY DEF Event, Loud
<1>4. /\ e \in Socket /\ e.tcp = "none" /\ e.state = w.state
      /\ e.handshakeTimer = w.handshakeTimer /\ e.events = Append(<<>>, "ioError")
      /\ e.queue = w.queue /\ e.size = w.size
    BY <1>2, <1>3, DispatchIs
<1>. HIDE DEF e
<1>5. Quiet(e.events) /\ Len(e.events) = 1
    BY <1>3, <1>4, OneQuiet
<1>6. Len(e.events) <= 3
    BY <1>5
<1>. QED
    BY <1>1, <1>4, <1>5, <1>6, ClosedEventOutcome DEF Effect

LEMMA HandshakeEffect ==
    ASSUME NEW w \in Socket, w.events = <<>>, w.tcp = "connected", w.state = "CONNECTING",
           NEW response \in Responses, NEW v \in ReadServerHandshake(w, response)
    PROVE  /\ Effect(w, v)
           /\ response = "accept" => Opens(w, v)
           /\ response # "accept" => v.state # "OPEN"
<1>1. CASE response = "accept"
    <2> DEFINE u == [w EXCEPT !.state = "OPEN", !.handshakeTimer = FALSE,
                              !.poisoned = FALSE, !.queue = NoFrames]
               o == Dispatch(u, "OPEN")
    <2>1. v = o
        BY <1>1 DEF ReadServerHandshake
    <2>2. /\ u \in Socket /\ u.tcp = "connected" /\ u.state = "OPEN"
          /\ u.handshakeTimer = FALSE /\ u.events = <<>>
          /\ u.waiting = w.waiting /\ u.closeTimer = w.closeTimer
          /\ u.queue = NoFrames /\ u.size = w.size
        BY DEF Socket, NoFrames
    <2>3. "OPEN" \in Event
        BY DEF Event
    <2>. HIDE DEF u
    <2>4. /\ o \in Socket /\ o.tcp = "connected" /\ o.state = "OPEN"
          /\ o.handshakeTimer = FALSE /\ o.events = Append(<<>>, "OPEN")
          /\ o.waiting = w.waiting /\ o.closeTimer = w.closeTimer
          /\ o.queue = NoFrames /\ o.size \in Nat
        BY <2>2, <2>3, DispatchIs DEF Socket
    <2>. HIDE DEF o
    <2>5. Append(<<>>, "OPEN") = <<"OPEN">>
        OBVIOUS
    <2>6. Keeps(w, o)
        BY <2>4, NoFramesBounded DEF Keeps, Sound
    <2>. QED
        BY <1>1, <2>1, <2>4, <2>5, <2>6 DEF Effect, Opens
<1>2. CASE response = "refuse"
    <2>1. v = FailHandshake(w)
        BY <1>2 DEF ReadServerHandshake
    <2>2. v \in Socket /\ v.tcp = "none" /\ Closes(w, v) /\ Keeps(w, v)
        BY <2>1, FailHandshakeIs
    <2>. QED
        BY <1>2, <2>2 DEF Effect, Outcome, Closes
<1>3. CASE response = "garbled"
    <2>1. v = w
        BY <1>3 DEF ReadServerHandshake
    <2>. QED
        <3>1. Effect(w, w)
            BY NoEvents, AlikeStays, AlikeSelf DEF Effect
        <3>. QED
            BY <1>3, <2>1, <3>1
<1>. QED
    BY <1>1, <1>2, <1>3 DEF Responses

-----------------------------------------------------------------------------
(* Frames *)

LEMMA QuietDispatch ==
    ASSUME NEW w \in Socket, w.events = <<>>, NEW e \in Event, e \notin Loud
    PROVE  /\ Dispatch(w, e) \in Socket /\ Alike(w, Dispatch(w, e))
           /\ Quiet(Dispatch(w, e).events) /\ Len(Dispatch(w, e).events) = 1
<1> DEFINE v == Dispatch(w, e)
<1>1. /\ v \in Socket /\ v.tcp = w.tcp /\ v.state = w.state
      /\ v.handshakeTimer = w.handshakeTimer /\ v.events = Append(<<>>, e)
      /\ v.waiting = w.waiting /\ v.closeTimer = w.closeTimer
      /\ v.queue = w.queue /\ v.size = w.size
    BY DispatchIs
<1>. HIDE DEF v
<1>2. Quiet(v.events) /\ Len(v.events) = 1
    BY <1>1, OneQuiet
<1>3. Alike(w, v)
    BY <1>1, SameKeeps DEF Alike
<1>. QED
    BY <1>1, <1>2, <1>3 DEF v

LEMMA MessageOutcome ==
    ASSUME NEW w \in Socket, w.events = <<>>, NEW len \in Nat
    PROVE  Outcome(w, DispatchMessage(w, len))
<1> DEFINE d == Dispatch(w, "MESSAGE")
           v == [d EXCEPT !.messages = Append(@, len)]
<1>1. "MESSAGE" \in Event /\ "MESSAGE" \notin Loud
    BY DEF Event, Loud
<1>2. DispatchMessage(w, len) = v
    BY DEF DispatchMessage
<1>3. d \in Socket /\ Alike(w, d) /\ Quiet(d.events)
    BY <1>1, QuietDispatch
<1>. HIDE DEF d
<1>4. Append(d.messages, len) \in Seq(Nat)
    BY <1>3, AppendProperties DEF Socket
<1>5. /\ v \in Socket /\ v.tcp = d.tcp /\ v.state = d.state /\ v.events = d.events
      /\ v.handshakeTimer = d.handshakeTimer
      /\ v.waiting = d.waiting /\ v.closeTimer = d.closeTimer
      /\ v.queue = d.queue /\ v.size = d.size
    BY <1>3, <1>4 DEF Socket
<1>. HIDE DEF v
<1>6. Alike(w, v)
    BY <1>3, <1>5, SameKeeps DEF Alike, Keeps
<1>7. Outcome(w, v)
    BY <1>3, <1>5, <1>6, AlikeStays
<1>. QED
    BY <1>2, <1>7

LEMMA QueuedType ==
    ASSUME NEW w \in Socket, NEW frame \in Item, frame.op \in {"text", "continuation"}
    PROVE  /\ Queued(w.queue, frame) \in [op : {"none", "text", "continuation"}, len : Nat]
           /\ Queued(w.queue, frame).len = w.queue.len + frame.len
BY DEF Socket, Item, Queued, NoFrames

LEMMA ProcessTextOutcome ==
    ASSUME NEW w \in Socket, w.events = <<>>,
           NEW frame \in Item, frame.op = "text", frame.len <= MaxFrameSize
    PROVE  Outcome(w, ProcessText(w, frame))
<1>1. CASE w.queue # NoFrames
    <2>1. ProcessText(w, frame) = Drop(w)
        BY <1>1 DEF ProcessText
    <2>2. Quiet(w.events) /\ Len(w.events) <= 1
        BY NoEvents
    <2>. QED
        BY <2>1, <2>2, DropOutcome
<1>2. CASE w.queue = NoFrames /\ frame.fin
    <2>1. ProcessText(w, frame) = DispatchMessage(w, frame.len)
        BY <1>2 DEF ProcessText
    <2>2. frame.len \in Nat
        BY DEF Item
    <2>. QED
        BY <2>1, <2>2, MessageOutcome
<1>3. CASE w.queue = NoFrames /\ ~frame.fin
    <2> DEFINE q == Queued(w.queue, frame)
               v == [w EXCEPT !.queue = q, !.opcode = "text"]
    <2>1. ProcessText(w, frame) = v
        BY <1>3 DEF ProcessText
    <2>2. q \in [op : {"none", "text", "continuation"}, len : Nat]
        BY QueuedType
    <2>3a. q.len = frame.len
        BY <1>3, QueuedType DEF NoFrames, Item
    <2>. HIDE DEF q
    <2>3. /\ v \in Socket /\ v.tcp = w.tcp /\ v.state = w.state /\ v.events = w.events
          /\ v.handshakeTimer = w.handshakeTimer
          /\ v.waiting = w.waiting /\ v.closeTimer = w.closeTimer
          /\ v.queue = q /\ v.size = w.size /\ v.size \in Nat
        BY <2>2 DEF Socket
    <2>. HIDE DEF v
    <2>4. Bounded(v)
        BY <2>3, <2>3a, ConfigAssumption DEF Bounded, Item
    <2>5. Alike(w, v) /\ Quiet(v.events)
        BY <2>3, <2>4, NoEvents DEF Alike, Keeps, Sound
    <2>. QED
        BY <2>1, <2>3, <2>5, AlikeStays
<1>. QED
    BY <1>1, <1>2, <1>3 DEF Item

LEMMA ProcessContinuationOutcome ==
    ASSUME NEW w \in Socket, w.events = <<>>,
           NEW frame \in Item, frame.op = "continuation"
    PROVE  Outcome(w, ProcessContinuation(w, frame))
<1> DEFINE size == AddedSize(w, frame)
           q == Queued(w.queue, frame)
           v == [w EXCEPT !.size = size]
           u == [v EXCEPT !.queue = Queued(@, frame)]
           t == [u EXCEPT !.queue = NoFrames, !.opcode = "none", !.size = 0]
<1>1. size \in Nat /\ size = w.size + frame.len
    BY DEF AddedSize, Socket, Item
<1>. HIDE DEF size
<1>2. /\ v \in Socket /\ v.tcp = w.tcp /\ v.state = w.state /\ v.events = <<>>
      /\ v.handshakeTimer = w.handshakeTimer
      /\ v.waiting = w.waiting /\ v.closeTimer = w.closeTimer
      /\ v.size = size /\ v.queue = w.queue /\ v.opcode = w.opcode
    BY <1>1 DEF Socket
<1>3. ProcessContinuation(w, frame) =
        CASE w.opcode = "none"       -> Drop(w)
          [] w.opcode # "none" /\ v.size > MaxMessageSize -> Drop(v)
          [] w.opcode # "none" /\ v.size <= MaxMessageSize ->
                IF ~frame.fin THEN u
                ELSE IF u.queue.len > MaxMessageSize \/ u.queue.op # "text"
                THEN Drop(u) ELSE DispatchMessage(t, u.queue.len)
    BY DEF ProcessContinuation, size
<1>. HIDE DEF v
<1>4. q \in [op : {"none", "text", "continuation"}, len : Nat] /\ q.len = w.queue.len + frame.len
    BY QueuedType
<1>5. u = [v EXCEPT !.queue = q]
    BY <1>2 DEF Socket
<1>. HIDE DEF q
<1>6. /\ u \in Socket /\ u.tcp = w.tcp /\ u.state = w.state /\ u.events = <<>>
      /\ u.handshakeTimer = w.handshakeTimer
      /\ u.waiting = w.waiting /\ u.closeTimer = w.closeTimer
      /\ u.queue = q /\ u.size = size
    BY <1>2, <1>4, <1>5 DEF Socket
<1>. HIDE DEF u
<1>7. /\ t \in Socket /\ t.tcp = w.tcp /\ t.state = w.state /\ t.events = <<>>
      /\ t.handshakeTimer = w.handshakeTimer
      /\ t.waiting = w.waiting /\ t.closeTimer = w.closeTimer
      /\ t.queue = NoFrames /\ t.size = 0
    BY <1>6 DEF Socket, NoFrames
<1>. HIDE DEF t
<1>8. w.size \in Nat /\ w.queue.len \in Nat /\ frame.len \in Nat
    BY DEF Socket, Item
<1>9. Alike(w, v)
    <2>1. Bounded(w) => Bounded(v)
        BY <1>1, <1>2, <1>8, ConfigAssumption DEF Bounded
    <2>. QED
        BY <1>2, <2>1 DEF Alike, Keeps, Sound
<1>10. size <= MaxMessageSize => Alike(w, u)
    <2>1. size <= MaxMessageSize /\ Bounded(w) => Bounded(u)
        BY <1>1, <1>4, <1>6, <1>8, ConfigAssumption DEF Bounded
    <2>. QED
        BY <1>6, <2>1 DEF Alike, Keeps, Sound
<1>11. Alike(w, t)
    BY <1>7, NoFramesBounded DEF Alike, Keeps, Sound
<1>12. Quiet(<<>>) /\ Len(<<>>) <= 1
    BY NoEvents
<1>13. Outcome(w, Drop(w)) /\ Outcome(w, Drop(v))
    BY <1>2, <1>9, <1>12, DropOutcome, AlikeOutcome
<1>14. size <= MaxMessageSize => Outcome(w, Drop(u)) /\ Outcome(w, u)
    BY <1>6, <1>10, <1>12, DropOutcome, AlikeOutcome, AlikeStays
<1>15. u.queue.len \in Nat
    BY <1>4, <1>6
<1>16. Outcome(w, DispatchMessage(t, u.queue.len))
    BY <1>7, <1>11, <1>15, MessageOutcome, AlikeOutcome
<1>17. size > MaxMessageSize \/ size <= MaxMessageSize
    BY <1>1, ConfigAssumption
<1>18. \/ ProcessContinuation(w, frame) \in {Drop(w), Drop(v), DispatchMessage(t, u.queue.len)}
       \/ size <= MaxMessageSize /\ ProcessContinuation(w, frame) \in {Drop(u), u}
    BY <1>2, <1>3, <1>17
<1>. QED
    BY <1>13, <1>14, <1>16, <1>18

LEMMA ProcessCloseOutcome ==
    ASSUME NEW w \in Socket, Quiet(w.events), Len(w.events) <= 1,
           w.state # "CONNECTING", NEW v \in ProcessClose(w)
    PROVE  Outcome(w, v)
<1>1. CASE w.waiting
    <2> DEFINE u == [w EXCEPT !.closeTimer = FALSE, !.waiting = FALSE]
    <2>1. v = SocketClose(u)
        BY <1>1 DEF ProcessClose
    <2>2. /\ u \in Socket /\ u.state = w.state /\ u.events = w.events
          /\ u.handshakeTimer = w.handshakeTimer /\ u.queue = w.queue /\ u.size = w.size
        BY DEF Socket
    <2>. HIDE DEF u
    <2>3. /\ v \in Socket /\ v.tcp = "none" /\ v.state = w.state /\ v.events = w.events
          /\ v.handshakeTimer = w.handshakeTimer /\ v.queue = w.queue /\ v.size = w.size
        BY <2>1, <2>2, SocketCloseIs
    <2>4. Sound(w) => v.state = "CLOSED"
        BY <1>1, <2>3 DEF Sound
    <2>5. Keeps(w, v)
        BY <2>3, <2>4 DEF Keeps, Sound, Bounded
    <2>. QED
        BY <2>3, <2>5 DEF Outcome, Stays
<1>2. CASE ~w.waiting
    <2>1. PICK u \in Close(w, FALSE) : v = SocketClose(u)
        BY <1>2 DEF ProcessClose
    <2>2. Outcome(w, u) /\ (Sound(w) => u.state # "OPEN")
        BY CloseEffect
    <2>3. /\ v \in Socket /\ v.tcp = "none" /\ v.state = u.state /\ v.events = u.events
          /\ v.handshakeTimer = u.handshakeTimer
          /\ v.waiting = u.waiting /\ v.closeTimer = u.closeTimer
          /\ v.queue = u.queue /\ v.size = u.size
        BY <2>1, <2>2, SocketCloseIs DEF Outcome
    <2>4. Keeps(w, v)
        BY <2>2, <2>3 DEF Outcome, Keeps, Sound, Bounded
    <2>. QED
        BY <2>2, <2>3, <2>4 DEF Outcome, Stays, Closes
<1>. QED
    BY <1>1, <1>2

LEMMA ProcessFrameOutcome ==
    ASSUME NEW w \in Socket, w.events = <<>>, w.state # "CONNECTING",
           NEW frame \in Item, frame.op \notin Responses, NEW v \in ProcessFrame(w, frame)
    PROVE  Outcome(w, v)
<1> DEFINE u == IF AssembleFragments THEN w ELSE Dispatch(w, "FRAME")
           reject == [Drop(w) EXCEPT !.poisoned = TRUE]
<1>1. "FRAME" \in Event /\ "FRAME" \notin Loud /\ "PING" \in Event /\ "PING" \notin Loud
    BY DEF Event, Loud
<1>2. Quiet(w.events) /\ Len(w.events) <= 1
    BY NoEvents
<1>3. /\ u \in Socket /\ Alike(w, u) /\ Quiet(u.events) /\ Len(u.events) <= 1
      /\ Len(u.events) \in Nat
    <2>1. CASE AssembleFragments
        BY <1>2, <2>1, NoEvents, AlikeSelf
    <2>2. CASE ~AssembleFragments
        <3>1. u = Dispatch(w, "FRAME")
            BY <2>2
        <3>. HIDE DEF u
        <3>2. u \in Socket /\ Alike(w, u) /\ Quiet(u.events) /\ Len(u.events) = 1
            BY <1>1, <3>1, QuietDispatch
        <3>. QED
            BY <3>2
    <2>. QED
        BY <2>1, <2>2
<1>4. Outcome(w, reject)
    <2>1. Outcome(w, Drop(w))
        BY <1>2, DropOutcome
    <2>2. Drop(w) \in Socket
        BY <2>1 DEF Outcome
    <2>. QED
        BY <2>1, <2>2, PoisonedOutcome
<1>5. CASE frame.len > MaxFrameSize
    <2>1. ~(frame.len <= MaxFrameSize)
        BY <1>5, ConfigAssumption DEF Item
    <2>2. v = reject
        BY <1>5, <2>1 DEF ProcessFrame
    <2>. QED
        BY <1>4, <2>2
<1>6. CASE frame.len <= MaxFrameSize
    <2>0. ~(frame.len > MaxFrameSize)
        BY <1>6, ConfigAssumption DEF Item
    <2>1. CASE frame.op = "bad"
        <3>1. v = reject \/ v = Drop(u)
            BY <1>6, <2>0, <2>1 DEF ProcessFrame
        <3>2. Outcome(w, Drop(u))
            BY <1>3, DropOutcome, AlikeOutcome
        <3>. QED
            BY <1>4, <3>1, <3>2
    <2>2. CASE frame.op = "ping"
        <3> DEFINE t == Dispatch(u, "PING")
        <3>1. v = t
            BY <1>6, <2>0, <2>2 DEF ProcessFrame
        <3>. HIDE DEF u
        <3>2. /\ t \in Socket /\ t.tcp = u.tcp /\ t.state = u.state
              /\ t.handshakeTimer = u.handshakeTimer /\ t.events = Append(u.events, "PING")
              /\ t.waiting = u.waiting /\ t.closeTimer = u.closeTimer
              /\ t.queue = u.queue /\ t.size = u.size
            BY <1>1, <1>3, DispatchIs
        <3>3. u.events \in Seq(Event)
            BY <1>3 DEF Socket
        <3>4. Quiet(Append(u.events, "PING"))
            BY <1>1, <1>3, <3>3, QuietAppend
        <3>. HIDE DEF t
        <3>5. Alike(u, t) /\ Quiet(t.events)
            BY <3>2, <3>4, SameKeeps DEF Alike
        <3>. QED
            BY <1>3, <3>1, <3>2, <3>5, AlikeStays, AlikeOutcome
    <2>3. CASE frame.op = "close"
        <3>1. v \in ProcessClose(u)
            BY <1>6, <2>0, <2>3 DEF ProcessFrame
        <3>2. u.state # "CONNECTING"
            BY <1>3 DEF Alike
        <3>. HIDE DEF u
        <3>. QED
            BY <1>3, <3>1, <3>2, ProcessCloseOutcome, AlikeOutcome
    <2>4. CASE frame.op = "text"
        <3>1. v = IF AssembleFragments THEN ProcessText(w, frame) ELSE u
            BY <1>6, <2>0, <2>4 DEF ProcessFrame
        <3>2. Outcome(w, ProcessText(w, frame))
            BY <1>6, <2>4, ProcessTextOutcome
        <3>3. Outcome(w, u)
            BY <1>3, AlikeStays
        <3>. QED
            BY <3>1, <3>2, <3>3
    <2>5. CASE frame.op = "continuation"
        <3>1. v = IF AssembleFragments THEN ProcessContinuation(w, frame) ELSE u
            BY <1>6, <2>0, <2>5 DEF ProcessFrame
        <3>2. Outcome(w, ProcessContinuation(w, frame))
            BY <2>5, ProcessContinuationOutcome
        <3>3. Outcome(w, u)
            BY <1>3, AlikeStays
        <3>. QED
            BY <3>1, <3>2, <3>3
    <2>. QED
        BY <2>1, <2>2, <2>3, <2>4, <2>5 DEF Item
<1>. QED
    BY <1>5, <1>6, ConfigAssumption DEF Item

LEMMA SocketDataEffect ==
    ASSUME NEW w \in Socket, w.events = <<>>, w.tcp = "connected",
           NEW item \in Item, w.state = "CONNECTING" => item.op \in Responses,
           NEW v \in HandleSocketData(w, item)
    PROVE  /\ Effect(w, v)
           /\ w.state # "CONNECTING" => Outcome(w, v)
           /\ w.state = "CONNECTING" /\ item.op = "accept" => Opens(w, v)
           /\ w.state = "CONNECTING" /\ item.op # "accept" => v.state # "OPEN"
<1>1. CASE w.state = "CONNECTING"
    <2>1. v \in ReadServerHandshake(w, item.op)
        BY <1>1 DEF HandleSocketData
    <2>. QED
        BY <1>1, <2>1, HandshakeEffect
<1>2. CASE w.state # "CONNECTING" /\ item.op \in Responses
    <2>1. v = [w EXCEPT !.poisoned = TRUE]
        BY <1>2 DEF HandleSocketData
    <2>2. Outcome(w, w)
        BY NoEvents, AlikeStays, AlikeSelf
    <2>. QED
        BY <1>2, <2>1, <2>2, PoisonedOutcome DEF Effect
<1>3. CASE w.state # "CONNECTING" /\ item.op \notin Responses
    <2>1. v \in IF w.poisoned \/ w.fatal THEN {w} ELSE ProcessFrame(w, item)
        BY <1>3 DEF HandleSocketData
    <2>2. Outcome(w, w)
        BY NoEvents, AlikeStays, AlikeSelf
    <2>3. \A u \in ProcessFrame(w, item) : Outcome(w, u)
        BY <1>3, ProcessFrameOutcome
    <2>. QED
        BY <1>3, <2>1, <2>2, <2>3 DEF Effect
<1>. QED
    BY <1>1, <1>2, <1>3
=============================================================================

--------------------------- MODULE WebSocketFrame ---------------------------
(***************************************************************************)
(* The parser of com/worlize/websocket/WebSocketFrame.as (addData) and the *)
(* loop of WebSocket.as that drives it: bytes arrive from TCP in chunks of *)
(* any size, and whatever is there is parsed at once.                      *)
(*                                                                         *)
(* Abstracted: the bytes.  A frame has the form of its length field (7, 16 *)
(* or 64 bits), its payload length, below 2^32, and whether its first two  *)
(* bytes are legal; `huge' says that the upper half of a 64-bit length is  *)
(* not zero.  A length that an int cannot hold is negative to the parser.  *)
(* The parser is at a byte count of the stream.                            *)
(***************************************************************************)
EXTENDS Integers, Sequences

CONSTANTS
    Streams,        \* the sequences of frames the server may send
    MaxFrameSize,   \* config.maxReceivedFrameSize
    IntLimit        \* the least length that is no int: 2^31

Frame == [form : {7, 16, 64}, len : Nat, legal : BOOLEAN, huge : BOOLEAN]
Fits(frame) == frame.len < 2 * IntLimit /\ (frame.huge => frame.form = 64)
ASSUME StreamsAssumption ==
    /\ MaxFrameSize \in Nat /\ IntLimit \in Nat /\ MaxFrameSize < IntLimit
    /\ Streams \subseteq Seq({frame \in Frame : Fits(frame)})

VARIABLES
    stream,     \* the frames the server sends on this connection
    arrived,    \* bytes of them that arrived
    reader      \* currentFrame, and what the loop did with the frames before

vars == <<stream, arrived, reader>>

\* avail: input.bytesAvailable; next: index in `stream' of the current frame;
\* result: what addData found; delivered: frames given to processFrame;
\* raised: readBytes raised an EOFError, which ended the handler.
NewReader == [parseState |-> "NEW_FRAME", avail |-> 0, next |-> 1, result |-> "more",
              delivered |-> <<>>, dropped |-> FALSE, raised |-> FALSE]

Init == stream \in Streams /\ arrived = 0 /\ reader = NewReader

HeaderSize(frame) == CASE frame.form = 7 -> 2 [] frame.form = 16 -> 4 [] frame.form = 64 -> 10
Size(frame) == HeaderSize(frame) + frame.len

\* The bytes of the first i frames of a stream, and of all of them.
Ends(frames) ==
    LET ends[i \in 0 .. Len(frames)] == IF i = 0 THEN 0 ELSE ends[i - 1] + Size(frames[i])
    IN  ends
Total(frames) == Ends(frames)[Len(frames)]

-----------------------------------------------------------------------------
ReadHeader(r, frame) ==
    IF r.parseState # "NEW_FRAME" THEN r
    ELSE LET h == [r EXCEPT !.avail = @ - 2]
         IN  IF ~frame.legal THEN [h EXCEPT !.result = "protocolError"]
             ELSE [h EXCEPT !.parseState =
                     CASE frame.form = 7  -> "WAITING_FOR_PAYLOAD"
                       [] frame.form = 16 -> "WAITING_FOR_16_BIT_LENGTH"
                       [] frame.form = 64 -> "WAITING_FOR_64_BIT_LENGTH"]

\* Mutant: the upper half of the length is thrown away, as the comment hopes.
ReadLengthHopeful(r, frame) ==
    LET bytes == IF r.parseState = "WAITING_FOR_16_BIT_LENGTH" THEN 2 ELSE 8
    IN  IF r.parseState = "WAITING_FOR_PAYLOAD" \/ r.avail < bytes THEN r
        ELSE [r EXCEPT !.avail = @ - bytes, !.parseState = "WAITING_FOR_PAYLOAD"]
ReadLength(r, frame) ==
    CASE r.parseState = "WAITING_FOR_16_BIT_LENGTH" /\ r.avail >= 2 ->
            [r EXCEPT !.avail = @ - 2, !.parseState = "WAITING_FOR_PAYLOAD"]
      [] r.parseState = "WAITING_FOR_64_BIT_LENGTH" /\ r.avail >= 8 ->
            IF frame.huge THEN [r EXCEPT !.avail = @ - 4, !.result = "frameTooLarge"]
            ELSE [r EXCEPT !.avail = @ - 8, !.parseState = "WAITING_FOR_PAYLOAD"]
      [] OTHER -> r

\* _length, an int; readBytes takes it back to a uint.
AsInt(len) == IF len < IntLimit THEN len ELSE len - 2 * IntLimit

ReadPayload(r, frame) ==
    LET length == AsInt(frame.len)
    IN  CASE r.parseState # "WAITING_FOR_PAYLOAD" -> r
          [] r.parseState = "WAITING_FOR_PAYLOAD" /\ length > MaxFrameSize ->
                [r EXCEPT !.result = "frameTooLarge"]
          [] r.parseState = "WAITING_FOR_PAYLOAD" /\ length <= MaxFrameSize /\ r.avail >= length ->
                IF r.avail >= frame.len
                THEN [r EXCEPT !.avail = @ - frame.len, !.parseState = "COMPLETE", !.result = "complete"]
                ELSE [r EXCEPT !.raised = TRUE]
          [] OTHER -> r

\* Mutant: the payload is not looked for until the next event.
AddDataStepwise(r, frame) ==
    CASE r.avail < 2 -> r
      [] r.avail >= 2 /\ r.parseState = "NEW_FRAME" -> ReadHeader(r, frame)
      [] OTHER -> ReadPayload(ReadLength(r, frame), frame)

\* Nothing is done with a single byte, whatever the parser waits for.
AddData(r, frame) ==
    IF r.avail < 2 THEN r
    ELSE LET h == ReadHeader(r, frame)
             l == ReadLength(h, frame)
         IN  IF h.result # "more" THEN h
             ELSE IF l.result # "more" THEN l ELSE ReadPayload(l, frame)

\* Mutant: the frame is given to processFrame and stays the current one.
TurnSameFrame(r) ==
    IF r.dropped \/ r.next > Len(stream) THEN r
    ELSE LET d == AddData(r, stream[r.next])
         IN  IF d.result = "complete" THEN [d EXCEPT !.delivered = Append(@, d.next), !.result = "more"]
             ELSE [d EXCEPT !.dropped = d.result # "more"]

\* One turn of the loop; `result' stays "more" when the loop ends.
Turn(r) ==
    IF r.dropped \/ r.next > Len(stream) THEN r
    ELSE LET d == AddData(r, stream[r.next])
         IN  CASE d.result = "more"     -> d
               [] d.result = "complete" ->
                    [d EXCEPT !.delivered = Append(@, d.next), !.next = @ + 1,
                              !.parseState = "NEW_FRAME", !.result = "more"]
               [] OTHER -> [d EXCEPT !.dropped = TRUE]

\* A turn that finds no frame changes nothing more, so the loop is as many turns
\* as there can be frames.
HandleSocketData(r) ==
    LET after[i \in 0 .. Len(stream)] == IF i = 0 THEN r ELSE Turn(after[i - 1])
    IN  after[Len(stream)]

\* A chunk arrives.
SocketData ==
    \E n \in 1 .. (Total(stream) - arrived) :
        /\ ~reader.dropped
        /\ arrived' = arrived + n
        /\ reader' = HandleSocketData([reader EXCEPT !.avail = @ + n])
        /\ UNCHANGED stream

Next == SocketData
Spec == Init /\ [][Next]_vars

-----------------------------------------------------------------------------
TypeOK ==
    /\ stream \in Streams /\ arrived \in 0..Total(stream)
    /\ reader.parseState \in {"NEW_FRAME", "WAITING_FOR_16_BIT_LENGTH",
                              "WAITING_FOR_64_BIT_LENGTH", "WAITING_FOR_PAYLOAD"}
    /\ reader.avail \in 0..arrived /\ reader.next \in 1 .. Len(stream) + 1
    /\ reader.delivered \in Seq(1..Len(stream)) /\ {reader.dropped, reader.raised} \subseteq BOOLEAN
    /\ reader.result \in {"more", "protocolError", "frameTooLarge"}

\* The limit on the size is one for ints.
Acceptable(frame) == frame.legal /\ ~frame.huge /\ AsInt(frame.len) <= MaxFrameSize

\* The frames that arrived in full before the first unacceptable one.
Arrived(n) ==
    {i \in 1..Len(stream) :
        /\ Ends(stream)[i] <= n
        /\ \A j \in 1..i : Acceptable(stream[j])}

\* However the bytes are cut into chunks, frames are delivered once and in order;
\* what is delivered is complete, and what is complete and not delivered is the one
\* frame that ends in the only unread byte: addData does not look at a single byte,
\* although it "Returns true if frame is complete" (WebSocketFrame.as:56-58).
OneByteBehind ==
    LET delivered == {reader.delivered[i] : i \in DOMAIN reader.delivered}
    IN  /\ reader.delivered = [i \in 1..Len(reader.delivered) |-> i]
        /\ delivered \subseteq Arrived(arrived)
        /\ \A i \in Arrived(arrived) \ delivered :
              reader.avail = 1 /\ stream[i].len = 1 /\ i = reader.next

\* A frame that is not acceptable is found so when its header has arrived, before
\* any of its payload is awaited.  Only a length that is no int is not compared with
\* the limit as what it is, and only such a one makes readBytes raise.
RejectedAtHeader ==
    /\ \A i \in 1..Len(stream) :
            /\ \A j \in 1 .. i - 1 : Acceptable(stream[j])
            /\ ~Acceptable(stream[i])
            /\ arrived >= Ends(stream)[i - 1] + HeaderSize(stream[i])
            => reader.dropped
    /\ \A i \in DOMAIN reader.delivered :
            LET len == stream[reader.delivered[i]].len IN len <= MaxFrameSize \/ len >= IntLimit
    /\ reader.raised => \E i \in 1..Len(stream) : stream[i].len >= IntLimit
=============================================================================

------------------------- MODULE MCWebSocketClient -------------------------
(* Frames of one and two units with every position in a message, one that is *)
(* too large, one that is malformed, and the control frames.                 *)
EXTENDS WebSocketClient

F(op, fin, len) == [op |-> op, fin |-> fin, len |-> len]

MCFrames ==
    {F("text", fin, 1) : fin \in BOOLEAN} \cup {F("continuation", fin, 2) : fin \in BOOLEAN}
        \cup {F("text", TRUE, 3), F("bad", TRUE, 0), F("ping", TRUE, 0), F("close", TRUE, 0)}
=============================================================================

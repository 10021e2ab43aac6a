-------------------------- MODULE MCWebSocketFrame --------------------------
(* Three frames of every form, empty, of one unit and longer, frames the    *)
(* parser must refuse, and one whose length is no int.                      *)
EXTENDS WebSocketFrame

F(form, len) == [form |-> form, len |-> len, legal |-> TRUE, huge |-> FALSE]
MCFrames(Lengths) ==
    {F(form, len) : form \in {7, 16}, len \in Lengths} \cup
    {F(64, 3), [F(7, 0) EXCEPT !.legal = FALSE], [F(64, 0) EXCEPT !.huge = TRUE], F(16, 5), F(64, 9)}

MCStreams == UNION {[1..n -> MCFrames({0, 1, 2, 4})] : n \in 1..3}
=============================================================================

--------------------------- MODULE MCSerialProxy ---------------------------
(* A small instance of SerialProxy for TLC. *)
EXTENDS SerialProxy

\* Two networks, neither special.
CONSTANTS c1, c2
MCCredentials == {c1, c2}
=============================================================================

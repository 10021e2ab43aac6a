--------------------------- MODULE MCEsp8266Link ---------------------------
(* Two connections, one replacing the other. *)
EXTENDS Esp8266Link
=============================================================================

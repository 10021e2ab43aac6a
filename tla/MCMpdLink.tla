----------------------------- MODULE MCMpdLink -----------------------------
(* A small instance of MpdLink: a plain stream and one whose station name ends in OK. *)
EXTENDS MpdLink

MCSongs    == {"plain", "titled"}
MCTitled   == {"titled"}
MCEndsInOk == {"titled"}
=============================================================================

--------------------------- MODULE MCRadioButtons ---------------------------
(* A small instance of RadioButtons: the first and the third of the registered buttons are pressed. *)
EXTENDS RadioButtons

MCPressed == {15, 11}
=============================================================================

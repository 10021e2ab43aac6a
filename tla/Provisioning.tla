---------------------------- MODULE Provisioning ----------------------------
(***************************************************************************)
(* What setting up the radio's Wi-Fi promises, whatever lies between the   *)
(* phones and the Raspberry Pi: credentials take effect only after a phone *)
(* asked for them, and a phone is told "ok" only about credentials that    *)
(* have taken effect.                                                      *)
(***************************************************************************)
CONSTANT Credentials

VARIABLES
    asked,      \* credentials the phones asked for
    applied,    \* credentials that took effect: in the file and on wlan0
    confirmed   \* credentials a phone was told "ok" about

Init == asked = {} /\ applied = {} /\ confirmed = {}

Ask   == \E c \in Credentials : asked' = asked \cup {c} /\ UNCHANGED <<applied, confirmed>>
Apply == \E c \in asked : applied' = applied \cup {c} /\ UNCHANGED <<asked, confirmed>>
Tell  == \E c \in applied : confirmed' = confirmed \cup {c} /\ UNCHANGED <<asked, applied>>

Next == Ask \/ Apply \/ Tell
Spec == Init /\ [][Next]_<<asked, applied, confirmed>>
=============================================================================

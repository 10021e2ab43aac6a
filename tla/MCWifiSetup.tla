---------------------------- MODULE MCWifiSetup ----------------------------
(* Two phones, one network, and the list of networks. *)
EXTENDS WifiSetup

CONSTANTS c1, p1, p2
MCCredentials == {c1}
MCPhones == {p1, p2}
MCTexts == {"ping", "g_wi-sc", c1}
=============================================================================

--------------------------- MODULE MCNetworkScan ---------------------------
(* A small instance of NetworkScan. *)
EXTENDS NetworkScan

MCNames   == {"home", "my home"}
MCUnnamed == {"my home"}
MCLevels  == {"72", "-60 dBm"}
MCDbm     == {"-60 dBm"}
=============================================================================

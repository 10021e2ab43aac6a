---------------------------- MODULE AccessPoint ----------------------------
(***************************************************************************)
(* WebSocketServer3.ino, generateSSID: the name of the access point, made  *)
(* from the last two bytes of the MAC address.  Abstracted: its constant   *)
(* beginning, the letters of the digits, and the array it is returned in.  *)
(***************************************************************************)
EXTENDS Integers, Sequences

Byte == 0 .. 255
Mac  == Byte \X Byte        \* the last two bytes

\* String(byte, HEX) has no leading zero.
Hex(byte) == IF byte < 16 THEN <<byte>> ELSE <<byte \div 16, byte % 16>>

Ssid(mac) == Hex(mac[1]) \o Hex(mac[2])
=============================================================================

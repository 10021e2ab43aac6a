------------------------ MODULE MCCredentialsCodec ------------------------
(* O is what ROT47 turns into ~; ! and ~ are the ends of the map, N and P  *)
(* its middle; the space and the letter outside ASCII are left alone; the  *)
(* comma and the brace are part of the JSON.                               *)
EXTENDS CredentialsCodec
MCCodes == {32, 33, 44, 78, 79, 80, 125, 126, 233}
=============================================================================

-------------------------- MODULE CredentialsCodec --------------------------
(***************************************************************************)
(* How credentials travel from the application to the Raspberry Pi: JSON,  *)
(* ROT47 and a marker ~~~~ on both sides (SettingsView.as); then the       *)
(* marker's regular expression, ROT47 and JSON again (esp8266_proxy.py).   *)
(*                                                                         *)
(* A text is a sequence of character codes.  Abstracted: the two names of  *)
(* the JSON object, so that it is {"<ssid>","<psk>"}.  The application     *)
(* escapes nothing, so the model is of credentials that JSON takes as they *)
(* are: no quote and no backslash, and none of the control codes, which    *)
(* json.loads refuses within a string; one of them, the newline, would     *)
(* also end the line that carries the text and the match of the dot in the *)
(* regular expression.                                                     *)
(***************************************************************************)
EXTENDS Integers, Sequences

CONSTANTS
    Codes,      \* the character codes of the credentials considered
    MaxTyped    \* bound: characters typed in

Quote     == 34
Comma     == 44
Backslash == 92
Control   == 0 .. 31

ASSUME CodesAssumption == Codes \subseteq Nat \ (Control \cup {Quote, Backslash}) /\ MaxTyped \in Nat

VARIABLES ssid, psk         \* what is typed in
vars == <<ssid, psk>>

Marker == <<126, 126, 126, 126>>

-----------------------------------------------------------------------------
(* The application *)

\* The position of a code in rotn's map, which holds the codes 33 to 126 in
\* order; -1 if it is not there.
IndexOf(c) == IF c \in 33..126 THEN c - 33 ELSE -1

\* Mutant: the rotation does not go around the end of the map.
RotateUnwrapped(c) == IF IndexOf(c) >= 0 THEN 33 + IndexOf(c) + 94 \div 2 ELSE c
Rotate(c) == IF IndexOf(c) >= 0 THEN 33 + ((IndexOf(c) + 94 \div 2) % 94) ELSE c

EncryptToRot47(text) == [i \in 1..Len(text) |-> Rotate(text[i])]

Json(s, p) == <<123, Quote>> \o s \o <<Quote, Comma, Quote>> \o p \o <<Quote, 125>>

Message(s, p) == Marker \o EncryptToRot47(Json(s, p)) \o Marker

-----------------------------------------------------------------------------
(* The Raspberry Pi *)

Rot47Code(j) == IF j >= 33 /\ j <= 126 THEN 33 + ((j + 14) % 94) ELSE j
Rot47(text) == [i \in 1..Len(text) |-> Rot47Code(text[i])]

Markers(text) == {i \in 1 .. Len(text) - 3 : \A k \in 0..3 : text[i + k] = 126}

\* The regular expression ~~~~(.*)~~~~ is greedy: its group runs from the first
\* marker to the last.  Mutant: to the next one.
GroupLazy(text) ==
    LET first == CHOOSE i \in Markers(text) : \A j \in Markers(text) : i <= j
        after == {i \in Markers(text) : i >= first + 4}
        next  == CHOOSE i \in after : \A j \in after : i <= j
    IN  SubSeq(text, first + 4, next - 1)
Group(text) ==
    LET first == CHOOSE i \in Markers(text) : \A j \in Markers(text) : i <= j
        last  == CHOOSE i \in Markers(text) : \A j \in Markers(text) : i >= j
    IN  SubSeq(text, first + 4, last - 1)

\* json.loads reads a string up to the next quote.
NextQuote(text, from) ==
    IF \E i \in from..Len(text) : text[i] = Quote
    THEN CHOOSE i \in from..Len(text) :
            text[i] = Quote /\ \A j \in from .. i - 1 : text[j] # Quote
    ELSE Len(text) + 1
Loads(text) ==
    LET e == NextQuote(text, 3)
        f == NextQuote(text, e + 3)
    IN  <<SubSeq(text, 3, e - 1), SubSeq(text, e + 3, f - 1)>>

Received(text) == Loads(Rot47(Group(text)))

-----------------------------------------------------------------------------
Init == ssid = <<>> /\ psk = <<>>

Type ==
    /\ Len(ssid) + Len(psk) < MaxTyped
    /\ \E c \in Codes : \/ ssid' = Append(ssid, c) /\ UNCHANGED psk
                        \/ psk' = Append(psk, c) /\ UNCHANGED ssid

Next == Type
Spec == Init /\ [][Next]_vars

\* What is sent has only the codes of the map and those outside it that were typed.
TypeOK ==
    /\ ssid \in Seq(Codes) /\ psk \in Seq(Codes)
    /\ Message(ssid, psk) \in Seq(Codes \cup 33..126)

\* The Raspberry Pi reads the credentials that were typed in, also when they hold
\* the letters that ROT47 turns into the marker of the message
\* (update_wpa_supplicant, esp8266_proxy.py:52-54).
RoundTrip == Received(Message(ssid, psk)) = <<ssid, psk>>
=============================================================================

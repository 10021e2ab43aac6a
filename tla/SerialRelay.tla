---------------------------- MODULE SerialRelay ----------------------------
(***************************************************************************)
(* WebSocketServer3.ino: the sketch of the ESP8266.  It is a WebSocket     *)
(* server for the phones and relays their texts, one to a line, to the     *)
(* serial port of the Raspberry Pi; every line that comes back is sent to  *)
(* all of them.                                                            *)
(*                                                                         *)
(* The libraries are external: the WebSocket server keeps one connection   *)
(* per slot and hands over one event at a time; readStringUntil returns at *)
(* the terminator or when nothing came for a second.  Abstracted: a text.  *)
(* A line of the Raspberry Pi is two parts, [line, part], the second with  *)
(* the terminator, so that a read may find half of it.                     *)
(***************************************************************************)
EXTENDS Integers, SequencesExt

CONSTANTS
    Phones,         \* the phones that may join the access point
    Texts,          \* what a phone sends, "ping" among it
    MaxTexts,       \* bound: texts a phone sends
    MaxJoins        \* bound: times a phone connects

ASSUME PhonesAssumption == MaxTexts \in Nat /\ MaxJoins \in Nat /\ "ping" \in Texts

VARIABLES
    clients,    \* phones that hold a slot
    inbox,      \* per phone: texts sent and not handled
    outbox,     \* per phone: what was sent to it
    tx,         \* Serial: lines written and not transferred
    uart,       \* Serial: parts of lines received and not read
    sent        \* history: texts each phone sent

relay == <<clients, inbox, outbox, tx, uart, sent>>

RelayInit ==
    /\ clients = {}
    /\ inbox = [p \in Phones |-> <<>>] /\ outbox = [p \in Phones |-> <<>>]
    /\ sent = [p \in Phones |-> <<>>]
    /\ tx = <<>> /\ uart = <<>>

Welcome == [kind |-> "welcome", parts |-> <<>>]
Pong    == [kind |-> "pong", parts |-> <<>>]
FromPi(parts) == [kind |-> "line", parts |-> parts]

SendTxt(p, text) == outbox' = [outbox EXCEPT ![p] = Append(@, text)]
BroadcastTxt(text) ==
    outbox' = [p \in Phones |-> IF p \in clients THEN Append(outbox[p], text) ELSE outbox[p]]

-----------------------------------------------------------------------------
(* webSocketEvent *)

Connected(p) ==
    /\ p \notin clients /\ clients' = clients \cup {p}
    /\ Len(SelectSeq(outbox[p], LAMBDA text : text = Welcome)) < MaxJoins
    /\ SendTxt(p, Welcome)
    /\ UNCHANGED <<inbox, tx, uart, sent>>

Disconnected(p) ==
    /\ p \in clients /\ clients' = clients \ {p}
    /\ inbox' = [inbox EXCEPT ![p] = <<>>]
    /\ UNCHANGED <<outbox, tx, uart, sent>>

Text(p) ==
    /\ p \in clients /\ inbox[p] # <<>>
    /\ inbox' = [inbox EXCEPT ![p] = Tail(@)]
    /\ IF Head(inbox[p]) = "ping" THEN SendTxt(p, Pong) /\ UNCHANGED tx
       ELSE tx' = Append(tx, Head(inbox[p])) /\ UNCHANGED outbox
    /\ UNCHANGED <<clients, uart, sent>>

-----------------------------------------------------------------------------
(* The rest of loop() *)

Ends == {i \in DOMAIN uart : uart[i].part = 2}

\* Mutant: whatever is there is read.
ReadStringEager(silent) ==
    /\ uart # <<>> /\ uart' = <<>> /\ BroadcastTxt(FromPi(uart))
    /\ UNCHANGED <<clients, inbox, tx, sent>>

\* readStringUntil('\n') and broadcastTXT.  `silent': nothing more comes within
\* the second it waits.
ReadString(silent) ==
    /\ uart # <<>>
    /\ \/ \E end \in Ends :
            /\ \A i \in Ends : end <= i
            /\ BroadcastTxt(FromPi(SubSeq(uart, 1, end)))
            /\ uart' = SubSeq(uart, end + 1, Len(uart))
       \/ Ends = {} /\ silent /\ BroadcastTxt(FromPi(uart)) /\ uart' = <<>>
    /\ UNCHANGED <<clients, inbox, tx, sent>>

-----------------------------------------------------------------------------
(* A phone; it sends from its commented-out buttons (SettingsView.as:70-96) *)
(* and from the ping timer.                                                *)

PhoneSends(p) ==
    /\ p \in clients /\ Len(sent[p]) < MaxTexts
    /\ \E text \in Texts :
          /\ inbox' = [inbox EXCEPT ![p] = Append(@, text)]
          /\ sent' = [sent EXCEPT ![p] = Append(@, text)]
    /\ UNCHANGED <<clients, outbox, tx, uart>>
=============================================================================

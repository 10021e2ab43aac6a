----------------------------- MODULE WifiSetup -----------------------------
(***************************************************************************)
(* The way of a request: phones, the ESP8266 that relays (SerialRelay) and *)
(* the Raspberry Pi that serves (SerialProxy), joined by the serial line.  *)
(* A reply the script writes goes to the adapter and from there, part by   *)
(* part, to the ESP8266; pulling the adapter out loses what is in it.      *)
(*                                                                         *)
(* The module adds the line and nothing else: every other step is a step   *)
(* of one of the two modules.                                              *)
(***************************************************************************)
EXTENDS SerialProxy, SerialRelay

\* The phones send what the script can be sent, and pings, which the ESP8266 keeps.
ASSUME TextsAssumption == Texts \subseteq Line \cup {"ping"}

VARIABLES
    down,       \* parts of replies in the adapter
    asked,      \* history: credentials a phone sent
    applied     \* history: credentials the file and wlan0 had after an update

asks == <<asked, applied>>
all      == <<vars, relay, down, asks>>

SetupInit == Init /\ RelayInit /\ down = <<>> /\ asked = {} /\ applied = {}

\* A reply and what it is about.
Parts(reply, about) == <<[line |-> reply, about |-> about, part |-> 1],
                         [line |-> reply, about |-> about, part |-> 2]>>

\* The script and what it writes.
Script ==
    /\ Main
    /\ down' = IF replies' > replies THEN down \o Parts(outcome', cred) ELSE down
    /\ applied' = IF pc = "restart" /\ pc' = "reply_ok" /\ wlan' = conf'
                  THEN applied \cup {wlan'} ELSE applied
    /\ UNCHANGED <<relay, asked>>

\* A line of the ESP8266 is lost unless the port is open.
Deliver ==
    /\ tx # <<>> /\ tx' = Tail(tx)
    /\ \/ EspWrites(Head(tx))
       \/ port # "live" /\ UNCHANGED vars
    /\ UNCHANGED <<clients, inbox, outbox, uart, sent, down, asked, applied>>

Transfer ==
    /\ down # <<>> /\ down' = Tail(down)
    /\ uart' = Append(uart, Head(down))
    /\ UNCHANGED <<vars, clients, inbox, outbox, tx, sent, asked, applied>>

\* The second of silence passes only when the adapter has nothing to transfer.
RelayReads == ReadString(down = <<>>) /\ UNCHANGED <<vars, down, asked, applied>>

Relays(p) == Text(p) /\ UNCHANGED <<vars, down, asks>>

PhoneActs(p) ==
    /\ Connected(p) \/ Disconnected(p) \/ PhoneSends(p)
    /\ asked' = asked \cup ({sent'[p][i] : i \in DOMAIN sent'[p]} \cap Credentials)
    /\ UNCHANGED <<vars, down, applied>>

Watch == Observer /\ UNCHANGED <<relay, down, asks>>

\* The Raspberry Pi keeps its power here; SerialProxy has what a cut does to it.
Hardware ==
    /\ Plug \/ Unplug
    /\ down' = IF plugged' THEN down ELSE <<>>
    /\ UNCHANGED <<relay, asks>>

SetupNext ==
    \/ Script \/ Deliver \/ Transfer \/ RelayReads \/ Watch \/ Hardware
    \/ \E p \in Phones : PhoneActs(p) \/ Relays(p)

SetupSpec == SetupInit /\ [][SetupNext]_all

\* Every processor runs and every line carries; phones owe nothing.
SetupFairSpec ==
    /\ SetupSpec
    /\ WF_all(Script) /\ WF_all(Deliver) /\ WF_all(Transfer) /\ WF_all(RelayReads)
    /\ WF_all(Watch)
    /\ \A p \in Phones : WF_all(Relays(p))

-----------------------------------------------------------------------------
\* Parts of replies, and what a phone is sent.
Part == [line : {"networks", "ok", "error"}, about : Credentials \cup {None}, part : {1, 2}]
Message == [kind : {"welcome", "pong", "line"}, parts : Seq(Part)]

SetupTypeOK ==
    /\ TypeOK
    /\ clients \subseteq Phones
    /\ inbox \in [Phones -> Seq(Texts)] /\ sent \in [Phones -> Seq(Texts)]
    /\ tx \in Seq(Texts \ {"ping"})
    /\ uart \in Seq(Part) /\ down \in Seq(Part)
    /\ outbox \in [Phones -> Seq(Message)]
    /\ asked \subseteq Credentials /\ applied \subseteq Credentials

\* What a read that cuts no line leaves in a message: both parts of one reply.
Whole(text) ==
    Len(text.parts) = 2 /\ text.parts[1].part = 1 /\ text.parts[2] = [text.parts[1] EXCEPT !.part = 2]

\* The message is a whole "ok" about the credentials c.
Confirms(text, c) ==
    text.kind = "line" /\ Whole(text) /\ text.parts[1].line = "ok" /\ text.parts[1].about = c

Confirmed ==
    {c \in Credentials \cup {None} :
        \E p \in Phones : \E i \in DOMAIN outbox[p] : Confirms(outbox[p][i], c)}

\* The relay and the script together keep what setting up promises: no order of
\* requests of several phones, failures, plug changes and half lines lets a phone
\* read "ok" about credentials that did not take effect, or lets credentials take
\* effect that no phone asked for.
Promise == INSTANCE Provisioning WITH confirmed <- Confirmed
ImplementsProvisioning == Promise!Spec

\* readStringUntil never cuts a line in two, nor joins two, as long as the adapter
\* stays in.
LinesAreWhole ==
    used.plugs = 0 =>
        \A p \in Phones : \A i \in DOMAIN outbox[p] :
            outbox[p][i].kind = "line" => Whole(outbox[p][i])

\* A phone that sends a request is sent a line, if it stays and nothing breaks the
\* way: no request is lost between the two processors.
Undisturbed == port = "live" /\ used.plugs = 0
RequestReachesBack ==
    \A p \in Phones :
        Undisturbed /\ ToSet(inbox[p]) \ {"ping"} # {} ~>
            ~Undisturbed \/ p \notin clients \/ \E i \in DOMAIN outbox[p] : outbox[p][i].kind = "line"
=============================================================================

------------------------------ MODULE MpdLink ------------------------------
(***************************************************************************)
(* MpdSocket.as: the application's connection to the music player daemon,  *)
(* which it keeps while it is the active application and polls every two   *)
(* seconds.  What arrives is gathered in one text, and searched for the    *)
(* greeting and for the OK line that ends an answer.                       *)
(*                                                                         *)
(* External: Socket (no event of the class reports a failed attempt), the  *)
(* network, which hands over what MPD wrote in chunks of any size, and     *)
(* MPD, which answers the commands in order.  Abstracted: the text.  A     *)
(* line is one or two parts, so that a chunk may end inside of it: the     *)
(* greeting is "OK MPD " and a version, an OK line is "O" and "K", a line  *)
(* of the infos its name and its value.  The infos are the status and the  *)
(* current song; MPDInfosVO has a field for each of their lines, and none  *)
(* for the title that some streams send as well, before the station name.  *)
(***************************************************************************)
EXTENDS Integers, FiniteSets, SequencesExt

CONSTANTS
    Songs,          \* states of the player that answers tell apart
    Titled,         \* those with a line more: a stream that sends its title
    EndsInOk,       \* those whose station name ends in "OK"
    InfoLines,      \* the lines an answer must have to be used, 21 in the code
    StatusLines,    \* how many of them are the status, 17 in the code
    NameLine,       \* which of them is the station's name, the 19th in the code
    MaxOutstanding, \* bound: commands on their way or not answered in full
    MaxCommands     \* bound: commands of the user

ASSUME LinesAssumption ==
    /\ InfoLines \in Nat /\ StatusLines \in Nat \ {0}
    /\ NameLine \in StatusLines + 1 .. InfoLines
ASSUME BoundsAssumption == MaxOutstanding \in Nat \ {0} /\ MaxCommands \in Nat

VARIABLES
    appActive,  \* _appActive
    sock,       \* _socket: closed, connecting, connected
    timer,      \* _infosTimer.running
    buffer,     \* _receiveBuffer: parts
    shown,      \* the infos traced last: parts, empty before the first
    requests,   \* the connection: commands MPD has not answered
    wire,       \* the connection: parts MPD wrote and the socket has not handed over
    song,       \* MPD: its state when it last answered
    commands,   \* history: commands of the user
    failed,     \* history: the last attempt failed
    escaped     \* history: an attempt was in progress when the application was last not active

app  == <<appActive, sock, timer>>
link == <<requests, wire>>
hist == <<commands, failed, escaped>>
vars == <<app, buffer, shown, link, song, hist>>

-----------------------------------------------------------------------------
(* What MPD writes *)

Part(kind, i, s, nl) == [kind |-> kind, line |-> i, song |-> s, nl |-> nl]
Sign(kind, nl)       == [kind |-> kind, line |-> 0, song |-> "-", nl |-> nl]

Greeting == <<Sign("OK MPD ", FALSE), Sign("version", TRUE)>>
Ok       == <<Sign("O", FALSE), Sign("K", TRUE)>>
Ack      == <<Sign("ACK", TRUE)>>
Null     == <<Sign("null", FALSE)>>     \* what += makes of a null text

LinesOf(s) == IF s \in Titled THEN InfoLines + 1 ELSE InfoLines
\* The title has the place of the station's name, which follows it.
NameOf(s, i) == IF s \in Titled /\ i = NameLine THEN "title" ELSE "name"
Infos(s) ==
    [j \in 1 .. 2 * LinesOf(s) |->
        IF j % 2 = 1 THEN Part(NameOf(s, (j + 1) \div 2), (j + 1) \div 2, s, FALSE)
                     ELSE Part("value", j \div 2, s, TRUE)]
Status(s)      == SubSeq(Infos(s), 1, 2 * StatusLines)
CurrentSong(s) == SubSeq(Infos(s), 2 * StatusLines + 1, 2 * LinesOf(s))

Commands == {"infos", "status", "currentsong", "next", "prev"}
Answer(command, s) ==
    CASE command = "infos"       -> Infos(s) \o Ok
      [] command = "status"      -> Status(s) \o Ok
      [] command = "currentsong" -> CurrentSong(s) \o Ok
      [] command = "prev"        -> Ack     \* MPD calls it previous
      [] command = "next"        -> Ok

Parts ==
    [kind : {"name", "title", "value"}, line : 1 .. InfoLines + 1, song : Songs, nl : BOOLEAN]
      \cup [kind : {"OK MPD ", "version", "O", "K", "ACK", "null", "line", "okline"}, line : {0}, song : {"-"}, nl : BOOLEAN]

\* The parts that end an answer and are still on their way.
Endings(parts) == {i \in DOMAIN parts : parts[i].kind \in {"K", "ACK"}}
Outstanding == Len(requests) + Cardinality(Endings(wire))

-----------------------------------------------------------------------------
(* onSocketDataReceive *)

EndsLineInOk(p) ==
    /\ p.nl
    /\ \/ p.kind = "okline"
       \/ p.kind = "value" /\ p.song \in EndsInOk
            /\ p.line = LinesOf(p.song) - InfoLines + NameLine

IsGreeting(text) == \E p \in ToSet(text) : p.kind = "OK MPD "      \* MPD_CONNECT_OK_REGEXP
IsComplete(text) ==                                                \* MPD_OK_REGEXP
    \/ \E p \in ToSet(text) : EndsLineInOk(p)
    \/ \E j \in 2 .. Len(text) : text[j - 1].kind = "O" /\ text[j] = Last(Ok)

OkLines(text) ==             \* where an OK line begins that has a line before it
    {j \in 2 .. Len(text) - 1 : text[j - 1].nl /\ text[j].kind = "O" /\ text[j + 1] = Last(Ok)}

Trimmed(text) == [text EXCEPT ![Len(text)].nl = FALSE]
BeforeOk(text) == Trimmed(SubSeq(text, 1, (CHOOSE j \in OkLines(text) : \A k \in OkLines(text) : j <= k) - 1))

LineStarts(text) == {j \in DOMAIN text : j = 1 \/ text[j - 1].nl}
\* Mutant: an answer is taken for whole with a line too few.
HasOneLineLess(text) == Cardinality(LineStarts(text)) = InfoLines - 1
HasInfoLines(text) == Cardinality(LineStarts(text)) = InfoLines
\* Mutant: a name that the object does not have is added to it.
AnyNames(text) == \A j \in LineStarts(text) : text[j].kind # "null"
AllNamesKnown(text) == \A j \in LineStarts(text) : text[j].kind = "name"

(* A text that a ReferenceError leaves has InfoLines lines, one of them of no known name; *)
(* all that matters of it later is whether "OK\n" is found in it.                         *)
Leftover(text) ==
    [i \in 1 .. InfoLines |->
        Sign(IF i = 1 /\ IsComplete(text) THEN "okline" ELSE "line", i < InfoLines)]

Use(text) ==
    \/ ~HasInfoLines(text) /\ buffer' = <<>> /\ UNCHANGED shown
    \/ HasInfoLines(text) /\ AllNamesKnown(text) /\ buffer' = <<>> /\ shown' = text
    \/ HasInfoLines(text) /\ ~AllNamesKnown(text) /\ buffer' = Leftover(text) /\ UNCHANGED shown    \* ReferenceError

Scan(text) ==
    \/ ~IsComplete(text) /\ buffer' = text /\ UNCHANGED shown
    \/ text = Ok /\ buffer' = <<>> /\ UNCHANGED shown
    \/ IsComplete(text) /\ text # Ok /\ OkLines(text) = {} /\ buffer' = Null /\ UNCHANGED shown   \* TypeError
    \/ IsComplete(text) /\ OkLines(text) # {} /\ Use(BeforeOk(text))

Receive(chunk) == Scan(IF IsGreeting(buffer \o chunk) THEN <<>> ELSE buffer \o chunk)

OnSocketDataReceive(n) ==
    /\ sock = "connected" /\ n \in 1 .. Len(wire)
    /\ wire' = SubSeq(wire, n + 1, Len(wire))
    /\ Receive(SubSeq(wire, 1, n))
    /\ UNCHANGED <<app, requests, song, hist>>

-----------------------------------------------------------------------------
(* The commands.  One that is written to a closed socket is dropped. *)

\* Mutant: what is sent without a connection waits for one.
SendLater(command) == requests' = Append(requests, command)

SendCommandToSocket(command) ==
    requests' = IF sock = "connected" THEN Append(requests, command) ELSE requests

Tick ==
    /\ timer /\ Outstanding < MaxOutstanding
    /\ SendCommandToSocket("infos")
    /\ UNCHANGED <<app, buffer, shown, wire, song, hist>>

UserCommand(command) ==
    /\ commands < MaxCommands /\ commands' = commands + 1
    /\ Outstanding < MaxOutstanding
    /\ SendCommandToSocket(command)
    /\ UNCHANGED <<app, buffer, shown, wire, song, failed, escaped>>

-----------------------------------------------------------------------------
(* The connection *)

Connect == sock' = IF sock = "connected" THEN sock ELSE "connecting"

\* Mutant: nothing is done, the timer included, without an open connection.
CloseConnected ==
    /\ sock' = IF sock = "connected" THEN "closed" ELSE sock
    /\ timer' = (timer /\ sock # "connected")

Close ==
    /\ sock' = IF sock = "connected" THEN "closed" ELSE sock
    /\ timer' = FALSE

OnAppActivate ==
    /\ ~appActive /\ appActive' = TRUE
    /\ Connect
    /\ escaped' = FALSE
    /\ UNCHANGED <<timer, buffer, shown, link, song, commands, failed>>

OnAppDeActivate ==
    /\ appActive /\ appActive' = FALSE
    /\ Close
    /\ requests' = <<>> /\ wire' = <<>>
    /\ escaped' = (sock = "connecting")
    /\ UNCHANGED <<buffer, shown, song, commands, failed>>

OnSocketConnected ==
    /\ sock = "connecting" /\ sock' = "connected"
    /\ requests' = <<"infos">> /\ wire' = Greeting
    /\ timer' = TRUE
    /\ failed' = FALSE
    /\ UNCHANGED <<appActive, buffer, shown, song, commands, escaped>>

AttemptFails ==
    /\ sock = "connecting" /\ sock' = "closed"
    /\ failed' = TRUE
    /\ UNCHANGED <<appActive, timer, buffer, shown, link, song, commands, escaped>>

\* Mutant: a connection that closes is not made again.
OnSocketClosedOnce ==
    /\ sock = "connected" /\ sock' = "closed"
    /\ requests' = <<>> /\ wire' = <<>>
    /\ UNCHANGED <<appActive, timer, buffer, shown, song, hist>>

OnSocketClosed ==            \* MPD closed it, or the network did
    /\ sock = "connected"
    /\ sock' = IF appActive THEN "connecting" ELSE "closed"
    /\ requests' = <<>> /\ wire' = <<>>
    /\ UNCHANGED <<appActive, timer, buffer, shown, song, hist>>

-----------------------------------------------------------------------------
(* MPD *)

MpdAnswers(s) ==
    /\ sock = "connected" /\ requests # <<>>
    /\ song' = s
    /\ wire' = wire \o Answer(Head(requests), s) /\ requests' = Tail(requests)
    /\ UNCHANGED <<app, buffer, shown, hist>>

-----------------------------------------------------------------------------
Init ==
    /\ appActive = FALSE /\ timer = FALSE
    /\ sock = "connecting" /\ escaped = TRUE        \* the constructor connects
    /\ buffer = <<>> /\ shown = <<>>
    /\ requests = <<>> /\ wire = <<>>
    /\ song \in Songs
    /\ commands = 0 /\ failed = FALSE

Network == \E n \in 1 .. Len(wire) : OnSocketDataReceive(n)

Mpd == \E s \in Songs : MpdAnswers(s)

Next ==
    \/ OnAppActivate \/ OnAppDeActivate
    \/ OnSocketConnected \/ AttemptFails \/ OnSocketClosed
    \/ Network
    \/ Tick
    \/ \E command \in Commands \ {"infos"} : UserCommand(command)
    \/ Mpd

Spec == Init /\ [][Next]_vars

FairSpec == Spec /\ WF_vars(Tick)

-----------------------------------------------------------------------------
(* The types; and nothing of a connection outlives it but the buffer. *)
TypeOK ==
    /\ {appActive, timer, escaped, failed} \subseteq BOOLEAN
    /\ sock \in {"closed", "connecting", "connected"}
    /\ {buffer, shown, wire} \subseteq Seq(Parts)
    /\ requests \in Seq(Commands)
    /\ (sock # "connected") => (requests = <<>> /\ wire = <<>>)
    /\ Outstanding <= MaxOutstanding
    /\ song \in Songs
    /\ commands \in 0 .. MaxCommands

(* Whatever the chunks, the infos that are shown are one whole answer of   *)
(* MPD to the poll: no line of another answer, of the greeting or of a     *)
(* connection before is taken into them, none is missing, and the infos of *)
(* a song with a title are never shown, not even when they have the right  *)
(* number of lines because the greeting took some with it                  *)
(* (onSocketDataReceive, 106-164).                                         *)
InfosAreOneAnswer == shown = <<>> \/ \E s \in Songs \ Titled : shown = Trimmed(Infos(s))

(* The active application is without connection or attempt only after an   *)
(* attempt failed: then nothing tries again, as IO_ERROR has no listener,  *)
(* while a connection that the other side closes is taken up at once       *)
(* (onAppActivate, onSocketClosed).                                        *)
DownOnlyAfterFailure == (appActive /\ sock = "closed") => failed

(* Polling: a connection is always polled; an application that is not      *)
(* active polls only if close() found an attempt in progress, which it     *)
(* does not end (close, onSocketConnected).                                *)
PollsWhileConnected ==
    /\ (sock = "connected") => timer
    /\ (timer /\ ~appActive) => escaped

(* Once the connection stays up, each answer is read before the next poll  *)
(* and the player keeps its state, the infos shown come to be its state:   *)
(* none of the leftovers the buffer may hold by then (the start of an old  *)
(* answer, a null text, what a ReferenceError left) stays for ever.        *)
Calm == sock = "connected" /\ Outstanding <= 1
InfosCatchUp ==
    \A s \in Songs \ (Titled \cup EndsInOk) :
        <>[](Calm /\ song = s) => <>[](shown = Trimmed(Infos(s)))

=============================================================================

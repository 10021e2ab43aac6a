# mpdradio: models, checks and proofs

mpdradio is an internet radio. A Raspberry Pi plays the music through MPD. An ESP8266 opens
a Wi-Fi access point of its own. A phone application (ActionScript, Adobe AIR) joins that
access point and tells the Raspberry Pi, through the ESP8266 and a USB serial adapter, which
Wi-Fi network to use from then on. In normal use the application is a remote control for MPD.

This directory holds TLA+ modules of the parts that carry the program's own logic, TLC
configurations that check them on small instances, and proofs for TLAPS that hold for every
value of the constants. Paths below are relative to `src/`.

```
 phone application                 ESP8266                     Raspberry Pi
 SettingsView                      WebSocketServer3.ino        esp8266_proxy.py
   | JSON, ROT47, ~~~~               webSocketEvent              main thread: readline, serve
 Esp8266SocketManager  <---Wi-Fi--->   |  Serial.println  --->   |   wpa_supplicant.conf, wlan0
   | connect, ping                     |  readString      <---   |   ser.write
 WebSocket, WebSocketFrame           broadcastTXT               observer thread: udev events
   (library of com.worlize)                     \___HL-340 USB adapter, hot-pluggable___/
```

## Inventory

| part | source | state it keeps | what changes it |
|---|---|---|---|
| serial proxy | `RBPI/home/zbam/scripts/esp8266_proxy.py` | the port `ser`, the observer thread and its queue of udev events, the configuration file, `wlan0` | the scan at the start, a line to serve, an adapter that is plugged in or pulled out, any exception |
| relay | `esp8266/WebSocketServer3/WebSocketServer3.ino` | the clients of the WebSocket server, the two serial buffers | WebSocket events, `loop()` |
| link to the ESP8266 | `intellij/src/net/Esp8266SocketManager.as` | `_socket`, `connected`, the ping timer | `connect()`, `sendPing()`, three listeners |
| WebSocket client | `intellij/src/com/worlize/websocket/WebSocket.as` | `_readyState`, the TCP socket, two timers, `frameQueue`, `fatalError` | the public methods, the socket's events, the timers |
| frame parser | `.../websocket/WebSocketFrame.as` | `parseState`, the bytes not read yet | chunks of bytes |
| encoding of the credentials | `intellij/src/view/SettingsView.as`, `esp8266_proxy.py` | none | a request that is sent and decoded |
| MPD connection | `intellij/src/net/MpdSocket.as` | the socket, `_receiveBuffer`, a two-second timer, `_appActive` | activation of the application, socket events |
| buttons | `RBPI/home/zbam/scripts/buttons.py` | the LED, the edge detection of four channels | Ctrl-C, a kill, the thread of RPi.GPIO and its four callbacks |
| access point | `WebSocketServer3.ino`, `generateSSID` | none | the start of the ESP8266 |
| scan of the networks | `esp8266_proxy.py`, `getWifiNetworks` | the list being built | the lines of `iwlist` |
| views, device information, analytics | `intellij/src/Main.as`, `view/`, `utils/`, `model/` | layout | the user |

How they meet. The application and the relay exchange WebSocket texts; the relay and the proxy
exchange lines, with no length, checksum or number to match an answer with its request. The two
threads of the proxy share one `serial.Serial` object without a lock. The WebSocket library
dispatches its events inside its own handlers, so the listeners of the link run in the middle
of `close()`, `drop()` and `failHandshake()`.

What is hard here, and what must hold:

- *Two threads and one port.* The observer may close the port while the main thread is inside a
  call of it, and events may be handled long after the adapter changed again. The port must
  come back into step with the adapter, and never be opened twice, because the exception would
  end the observer.
- *An update that fails half way.* The only copy of the configuration is truncated, written, and
  followed by `ifdown && ifup`. "ok" must mean that the file and the interface have the
  credentials, and a request must be answered once.
- *A bare `except` around the replies.* It replies again when a reply raises.
- *WebSockets that outlive their use.* A replaced WebSocket keeps its listeners, its handshake
  timer and perhaps its TCP connection. What it reports must not be taken for the current one.
- *Everything that can close a WebSocket.* A method, four socket events, two timers and three
  kinds of bad frame: the application must hear of it once.
- *Bytes in chunks.* Frames must come out the same however TCP cuts them.
- *Lines in halves.* `readStringUntil` gives up after a second, and the adapter may go in the
  middle of a line.
- *Several phones.* Every answer goes to all of them.
- *A text protocol without numbers.* The buffer of the MPD connection is emptied by a greeting found
  anywhere in it, set to null by an answer in the wrong place, and kept by an exception. It must
  never show anything but one whole answer, and it must recover.
- *Taking a connection up again.* The MPD connection is made again when it closes, not when it
  failed, and closing it does not end an attempt that is under way.
- *A callback thread that waits.* A button's callback waits for `mpc` in the thread that debounces.
- *Buttons on pulled-up inputs.* The edge that is listened for is the rising one: a bounce of the
  press, or the release, which may come any time later.

`PROJECT.json` lists each hazard at its line, with the properties that watch it.

## Modules

**`SerialProxy`** is the whole of `esp8266_proxy.py` as a state machine of two threads. `pc` is
the place of the main thread. Its values are the program points between which another thread, the
kernel or the user can do something: `check`, `start`, `loop`, `readline`, the six points of
`update_wpa_supplicant` and `send_networks`. `port` has three values, because an open descriptor
outlives its device: `closed`, `live`, `stale`. `Raises` is what every serial call of the main
thread can do when the port is not live: a `SerialException`, which the nearest handler
catches, or, if the observer closed the port inside the call, a `TypeError`, which ends the
process where only `SerialException` is caught. `Reply` has the bare `except` instead, which
catches both. The observer's actions are `HandleAdd` and `HandleRemove`. `conf` is the
configuration file as processes see it and `disk` what the card would hold after a power cut:
the script never syncs, so `Writeback` happens when it likes. A plug change between the scan
and `observer.start()` is lost in the code. The model has it and records it in `missed`.

**`CredentialsCodec`** is the encoding, on sequences of character codes: `Json` and
`EncryptToRot47` as `SettingsView.as` has them, `Group` for the greedy regular expression,
`Rot47` and `Loads` for the Python side. Python and ActionScript implement ROT47 differently,
one by arithmetic on codes and one by a position in a map. Both are there.

**`WebSocket`** is the client library: an object is a record, and each public method and handler
an operator from the object to the set of objects it can become. Two state machines use it.
**`WebSocketClient`** has one object, an application that calls its methods in any order and a
server that may refuse, garble, send any frames or be silent. **`Esp8266Link`** is
`Esp8266SocketManager` with every WebSocket it ever made, since those it replaced still act.
A queue of fragments is its first opcode and its total length, which is all that is read of it.
`WebSocketClient` also has `assembly`, a history variable that reads the same frames by the rules of
RFC 6455; `MessagesAssembled` compares the two. The manager hears the events of one handler in their
order (`Heard`).

**`WebSocketFrame`** is the parser below them: `ReadHeader`, `ReadLength` and `ReadPayload` are
the three stages of `addData`, `Turn` is one turn of the loop that calls it for a chunk, and
`HandleSocketData` as many turns as there can be frames. `Ends` has the number of bytes up to the end
of each frame; both are recursive functions, so that they can be reasoned about.
`WebSocket` takes frames one by one and whole. `OneByteBehind` says how far that is
justified: at every point the parser delivered what arrived, in order, but for one byte.
`AsInt` is the conversion of the 32-bit length to a signed `int`, with `IntLimit` in the place
of 2^31. A length at the limit or above becomes negative, is below every limit, seems to be there at
once, and `readBytes` then raises: `raised` is the end of such a reader.

**`MpdLink`** is `MpdSocket.as`: the application is active or not, the socket is closed, connecting
or connected, the timer runs or not, and `buffer` is `_receiveBuffer`. A text is a sequence of
parts of lines; `Receive` appends, `Scan` and `Use` are the two expressions and the assignment of
the fields. A part has a kind (a name, a value, "null", half an OK, ...), the line and the state of
the player it is about and whether a line ends after it, so that a property can tell whose line is
shown. `Status` and `CurrentSong` are the two parts of `Infos`, the answers to `getStatus` and
`getCurrentSong`: lines of known names, but too few. A stream that sends its title has one line more,
before the station's name, and its name is of no field of the class `MPDInfosVO`, so that assigning
it raises a `ReferenceError`. After a `ReferenceError` only one thing about the text matters later, whether an OK at the
end of a line is found in it, because one of its lines has no known name for as long as it
stays; `Leftover` keeps just that. The network cuts and joins the answers anywhere, and may close
the connection.

**`NetworkScan`** is the loop of `getWifiNetworks`, one action for each search that matches a line;
the cells are given at the start, and what must be sent for them is a function of them. Its
`ScanInit`, `ScanNext` and `ScanTypeOK` are named so because its proofs share a module with those of
`RadioButtons`.

**`RadioButtons`** is `buttons.py`: the main thread, the contacts that bounce, and the thread of
RPi.GPIO that takes one edge after the other and waits for the callback. `Press` makes no edge of
its own, because the inputs are pulled up and the edges are rising ones; `Bounce` may make one at
any time of either burst, and `Release` makes one. A burst that begins within the bounce time of an
earlier edge (`again`) may see it end; one that does not (`bouncing`) is over before its own is.
`late` and `waited` count what the bounce time does not cover.

**`AccessPoint`** is the name `generateSSID` makes. It has no state and no run: two theorems say
when names are different.

**`SerialRelay`** is the sketch of the ESP8266. A line of the Raspberry Pi is two parts there, so
that a read may find half of it.

**`WifiSetup`** joins `SerialRelay` and `SerialProxy` by the serial line and adds nothing else.
It is shown to implement **`Provisioning`**, three variables and three actions: credentials are
asked for, take effect, are confirmed. The refinement maps `confirmed` to the credentials of the
whole lines "ok" in what the phones were sent. `asked` and `applied` are history variables.

The `MC...` modules give the constants of each instance. Operators that a comment calls *Mutant*
are not part of any specification: each is a plausible mistake in the operator that follows it,
and shows that a property notices it.

## Runs

| run | what it asks | instance | 
|---|---|---|
| `serial_proxy` | do two threads, an update that fails anywhere and a hot-plugged adapter stay consistent | two credentials, two requests, three plug changes, one power cut |
| `serial_proxy_except` | is what the `except` branch prints true (it is not) | one request, two plug changes |
| `websocket` | does one connection end once, deliver what the frames spell, and never hang | four frames out of eight, every timer, every call |
| `websocket_reconnect` | is a reconnected object read (it is not) | two connections |
| `esp8266_link` | can the manager be fooled by the WebSockets it replaced | three WebSockets, two frames in flight |
| `esp8266_link_stale` | is a reported close a close (not always) | two WebSockets |
| `frame` | are frames the same however the bytes are cut | every stream of up to three frames out of thirteen, every cut |
| `credentials_codec` | do credentials survive the encoding | nine codes, four characters |
| `wifi_setup` | does the whole path keep its promise | two phones with a text each, two plug changes |
| `mpd_link` | are the infos one answer's, and do they catch up whatever was read; is a connection kept | two songs, four lines an answer (two of status, two of song) and its OK, two answers outstanding, one command |
| `network_scan` | is each cell sent once with its own fields | up to three cells |
| `radio_buttons` | does the LED tell the truth, does every command have its cause | two of the buttons, two presses each |

### Why these bounds

*`serial_proxy`.* Three plug changes put two events in the queue behind one that is being
handled, in both orders; an `add` followed by `remove` and `add` is the shortest sequence in which
a stale port, an `add` on a closed port and a late `remove` meet. The second request is the one
that can find the first one's file or history. A second power cut meets the same states as the
first, because the boot forgets everything but the file.

*`websocket`.* Four frames are a fragmented message of three and one frame after it. The
limit of a message is four units and of a frame two, so that a message can be at the limit and one
above it. The frames of the instance are those that `processFrame` tells apart.

*`esp8266_link`.* With three WebSockets there are two replaced ones in different states beside the
current one; a listener sees one event at a time, so a fourth adds no new pair.

*`frame`.* Lengths of zero, one, two and four (the limit), one more than the limit, and each of
the three forms of the length field. Three frames have a frame before and one after the one that
is cut. `IntLimit` is 8, above the limit of a frame (four), as 2^31 is above the library's.

*`credentials_codec`.* The codes at the ends and at the middle of ROT47's map, the letter that
becomes the marker, codes outside the map and those of the JSON around them. Four
characters can spell a false marker. The theorem below has no bound.

*`wifi_setup`.* Two phones are enough for an answer to reach one that did not ask. Two plug changes
take the adapter out in the middle of a line and put it back.

*`mpd_link`.* MPD's answer to the poll has 21 lines, 17 of the status and four of the song; here it
has two and two, and what matters is that a text has as many lines, one less or one more. The
station's name is the third line, the second of the song in MPD's answer; a title would come
before it. Of the two songs one is plain, and the other has a title and a station name that ends in "OK". Its answer
has a line too many; with its first line lost it has the right number, raises a `ReferenceError` at the title, and
leaves a text in the buffer in which an OK is found. Two answers outstanding are the one that is cut and the one
it is joined with, and one command puts an answer without a line between them. The number of
connections, one after the other, is not bounded.

*`network_scan`.* The second of three cells has one before and one after it. Levels and names are
two each, one that the searches match and one that they do not.

*`radio_buttons`.* Two buttons share the one thread, so that the edge of one waits for the callback
of the other; all four are registered. A second press meets the bounce time of the first and of its
release.

### What the runs found

The three runs whose names say so (`_except`, `_reconnect`, `_stale`) are expected to
end in a counterexample. Each is a place where the code does something else than its own text says.

1. `serial_proxy_except`: "error while updating wpa_supplicant.conf file" is also printed, and
   `s_wi-cr_error` sent, after an update that was made, when it was the reply that failed.
2. `websocket_reconnect`: `fatalError` is never reset. A WebSocket connected again after a
   protocol error opens, and drops every frame.
3. `esp8266_link_stale`: the handshake timer of a WebSocket that was replaced reports its failure
   to the manager, which gives up the open connection.

Three more are allowed for by the properties, which say where they end:

- `addData` asks for two bytes whatever it waits for: a payload of one byte that comes after its
  header waits for another byte. `OneByteBehind` has the byte in its name.
- The infos of a song with a title are never shown: with their 22 lines they are not used, and if
  they lost one with the greeting, or an error left a text before them, the title raises a
  `ReferenceError`. `InfosAreOneAnswer` and `InfosCatchUp` are about the other songs.
- A button that bounced when it was pressed runs its command again when it is released after the
  bounce time, and a bounce counts again if `mpc` takes longer than that.
  `EveryCommandHasItsCause` counts both.

Beside these, the models keep three behaviours that no text contradicts: a malformed line ends the
proxy, a plug change in the start-up gap is never noticed, and an observer that met an exception is
gone for good. The properties name them as exceptions (`pc = "dead"`, `missed`,
`observer = "watching"`) rather than assume them away.

## Fairness

Safety needs none. For liveness:

- `SerialProxy`: weak fairness of the main thread and of the observer. Both are threads of one
  process that the kernel schedules, and no step of theirs waits for the other. Nothing is owed by
  the user, the adapter, the ESP8266 or the page cache.
- `WebSocketClient`, `Esp8266Link`: the AIR runtime ends each connection attempt with CONNECT or an
  error, fires a timer that runs, and dispatches data that arrived. The server owes nothing: it may
  be silent forever, and `AttemptEnds`, `CloseEnds` and `AttemptResolved` rest on the timers alone.
- `MpdLink`: the timer ticks while it runs, which the AIR runtime owes. Nothing is owed by the
  network, MPD, the connection, the activation or the song: `InfosCatchUp` is about the runs in
  which each poll is answered before the next and the rest is left alone from some point on.
- `WifiSetup`: the two processors run and the line carries what is in it; phones owe nothing, and
  the user may pull out the adapter.

## Proofs

Every theorem holds for all values of the constants that the named assumptions allow. The
assumptions say what the code relies on (credentials are none of the other lines, the codes of a
text exclude the quote, the backslash and the control codes, the station's name is a line of the
song, a server's frames are none of the answers to a handshake, the
phones send what the application sends, a length of a frame has 32 bits and only one of the 64-bit
form can have more) or that a bound is a number; TLC evaluates each of them.

| module | assumptions | invariant | theorems |
|---|---|---|---|
| `WifiSetupProofs`, the script | `CredentialsAssumption` | `TypeOK`, `PortInv`, `ReplyInv` | `TypeCorrect`, `PortFollowsAdapter`, `NeverOpensTwice`, `OneReply`, `ConfirmedStay`, `OkIsTrue` |
| `WifiSetupProofs`, the path | and `TextsAssumption` | `SetupInv`, `WholeInv` | `SetupTypeCorrect`, `SetupImplementsProvisioning`, `SetupLinesAreWhole` |
| `CredentialsCodecProofs` | `CodesAssumption` | `TypeOK` | `RoundTripHolds`, `CodecTypes`, `NamesDiffer`, `NamesCollide` |
| `WebSocketClientProofs` | `ConfigAssumption`, `FramesAssumption` | `ClientInv` | `ClientTypes`, `EndIsReportedOnce`, `QueueStaysBounded`, `OpenMeansConnected`, `MessagesAreTheFrames` |
| `Esp8266LinkProofs` | `ConfigAssumption`, `LinkBoundsAssumption` | `LinkInv` | `LinkTypes`, `ConnectedMeansOpen`, `PingsImplyConnected`, `ReplacedStaysClosed` |
| `MpdLinkProofs` | `LinesAssumption`, `BoundsAssumption` | `TextInv`, `ControlInv` | `MpdTypes`, `InfosOfOneAnswer`, `ConnectionIsTakenUp`, `PollingFollowsTheConnection` |
| `WebSocketFrameProofs` | `StreamsAssumption` | `IInv` | `FrameTypes`, `FramesAsTheyArrive`, `BadFramesAreRejected` |
| `ScanAndButtonsProofs`, the scan | `ScanAssumption` | `ScanInv` | `ScanTypes`, `ScanIsFaithful` |
| `ScanAndButtonsProofs`, the buttons | `ButtonsAssumption` | `TypeInv`, `LedInv`, `CauseInv` | `ButtonTypes`, `LedTellsTheTruth`, `CommandsHaveCauses` |

### The script of the Raspberry Pi

`PortTracksAdapter` speaks of an empty queue and is not inductive: it does not say what a queue
that empties leads to. `PortInv` adds `InStep`. While nothing was missed, the pending events
alternate, the first is the one the port calls for and the last is the one that led to the
adapter's state. An event at the tail then keeps the alternation because the adapter itself
alternates, and handling the head moves the port to where the next event finds it.
`NoDoubleOpen` is the part of it about the head.

The properties of replies need `ReplyInv`: a request being served has no reply yet, at
`restart` the file has its credentials, at `reply_ok` the interface has them too. It
gives `AtMostOneReply` although the `except` branch replies as well, since only a reply that
raised leads there.

### The whole path

The lemmas about the script speak of its variables alone, so they hold for its steps inside
`WifiSetup` as well. `SetupInv` joins them to two facts about what is on its way.
`RequestsAsked`: every line towards the script, in whichever buffer, was sent by a phone, and the
credentials being served are among the ones that were asked for. `RepliesTrue`: every "ok" towards
the phones is about credentials that took effect, and so will be the one that is about to be
written. From it each step of the path is shown to be `Ask`, `Apply` or `Tell` of
`Provisioning`, or none of them: `SetupImplementsProvisioning` is the refinement that the run
`wifi_setup` checks, for any number of phones, texts and plug changes.

`SetupLinesAreWhole` needs the two buffers as one stream. While no adapter was touched, what
was received and what is still to be transferred are, together, whole lines (`Paired(uart \o down)`): a transfer
moves the cut and changes nothing, a reply adds a line, and a read that finds the end of a line
takes exactly the first one.

### The encoding

`RoundTrip` is proved for texts of any length, layer by layer. `RotationInverse` is
arithmetic modulo 94. `GroupOfMarked` shows that the first marker is at the start and the last at
the end, whatever the text between holds. `LoadsOfJson` shows that the two quotes found are
those that were written. The invariant of the temporal part is only that what is typed
consists of the codes.

`NamesCollide` and `NamesDiffer` are about `AccessPoint`, which has no state and therefore no
invariant: two addresses have one name, because `String(byte, HEX)` has no leading zero,
and names differ when both last bytes have two digits.

### The WebSocket object

**`WebSocketProofs`** has what the two state machines of the client library share. Each handler and
method, with all it calls, is one of four things to an object (`Effect`): it leaves the connection as it was
(`Stays`), opens it (`Opens`), ends it and reports that once (`Closes`), or gives an attempt up
(`GivesUp`). And each keeps an object `Sound` (its state, its TCP connection and its timers
agree) and its queue of fragments `Bounded`. The handlers that call each other are followed to
their ends there, and nowhere again.

`ClientInv` of **`WebSocketClientProofs`** has one conjunct for each of the ways a property could fail.
`CloseInv`: once the end was reported, no timer runs and no attempt is under way that could report it again.
`NetInv`: what is on its way is the answer to the handshake first, and frames after it, so that an open
object has a server that accepted it. `TrackInv`: the fragments the object holds are the ones that the
reference `assembly` holds. `FirstInv` says why `OpenMeansConnected` ends with
the first connection: the close timer of one connection outlives it, and may end the next while
that one is open. The run has one connection too; this hazard has no property.

`LinkInv` of **`Esp8266LinkProofs`** is about all the objects the manager ever made. Those it
replaced are closed, which every event of theirs keeps (`ObjectInv`). The manager is connected only to
the current one, and only while that one is open (`ManagerInv`); a replaced object can report a failure but not an
opening, so it can take the connection from the manager, not give it a false one. `WireOK` is
`NetInv` for each object.

### The bytes of the frames

`OneByteBehind` and `RejectedAtHeader` are about what is left when a chunk was handled, and the
chunk may have ended anywhere and held any number of frames. `IInv` has a part for each of the two.
`Reading` holds at every turn of the loop: the frames before the current one were acceptable and
were delivered, and the bytes that arrived are those of the frames before (`Ends`), those of the
current one that were read (`Done`, which the state of the parser says) and those that are unread.
`Stuck` holds when the loop is over: a frame was dropped, none is left, or there are too few bytes
for the next stage (`Short`). The properties then follow by arithmetic (`ShortIs`): a stuck reader is
before the end of the header, or before the end of an acceptable frame, or has one byte unread of
a frame of one byte. A length that is no int satisfies `Reading` and `Stuck` like any other,
because the bytes that are awaited are its real length; only `raised` tells that the parser tried to read them.

`AddDataIs` sums up the three stages: the frame is found bad, or is complete, or waits for more than
there is. `TurnIs` follows: a turn keeps `Reading`, and delivers a frame unless it leaves the loop
stuck. So after as many turns as there are frames the loop is stuck, whatever it began with
(`HandleSocketDataIs`), which also justifies the model's number of turns.

`Ends` and `HandleSocketData` are defined by recursion over an interval, and a `CHOOSE` of a function
says nothing before one is known to exist. `RecursionExists` gives it for any set of values and
any steps within that set, from `IntervalInduction`, a form of induction with a set in the place of an
operator.

### The text protocol of MPD

`InfosAreOneAnswer` is about what is shown, and what leads to it is in the buffer or still
on its way. `TextInv` adds `StreamInv`: the buffer and the wire are one stream, in which every part
of the infos is followed by the part that MPD wrote after it (`Linked`, with `Goes` for
two neighbours). The answers to the poll, to `status` and to `currentsong` are all pieces of `Infos`
that end where the status or the song does (`Piece`, `LastLines`). A chunk moves the cut in the stream, a new answer goes to its end, and what an
exception leaves in the buffer holds no such part. There is one exception, a greeting that was not
read: the buffer of the connection before does not go on with it, and is emptied when it is found.
`OneAnswer` is then a statement about one text. Before the first OK line every line has a known
name, the last part ends a piece, and each part determines the one before it: `OnlyInfos` goes
forwards through the text and `EndOfAnswer` backwards. Names and values take turns, so the text has half as
many lines as parts (`LinesOfPairs`). With the lines of a whole answer it is too long to end at the
status; and it cannot be of a song with a title, because the title would be among its lines.

Both are inductions over places in a text of any length. The induction theorems of the library take
an operator as a parameter, which no installed prover instantiates. `NatSetInduction` takes a
*set* instead (0 is in it, and the successor of each of its numbers), and follows from `WFMin` and
the well-foundedness of the naturals, so that a property of places is given as the set of those that
have it.

`DownOnlyAfterFailure` and `PollsWhileConnected` follow from conjunctions over the
socket, the timer and the activation, inductive as a whole; the buffer takes no part in them.

### The scan and the buttons

`ScanInv` says at
every line what the network at hand is: the fields of this cell whose lines were read, and that
the networks collected are those of the cells before. The line of the encryption key, which every
cell has, is what keeps a network from being empty and left out.

The count of `EveryCommandHasItsCause` is inductive only with a credit (`Owes`): a button with an
edge that waits outside its bounce time, or that bounces outside of one, has a cause that has not
run yet, and so has one whose press began within the bounce time. A release that began within it has none
until it outlasts it.

### Only model-checked

- Liveness: everything temporal beyond `[]` is outside the prover's reach.
- The three runs that end in a counterexample.

Every invariant and every `[][...]_vars` property of the passing runs is a theorem.

## Not modelled

- `TelnetSocket`: imports `net.event.TelnetEvent`, which the repository does not have.
- `MpdSocket` where a chunk ends within a character of UTF-8, and a title that spells a whole line.
  Its construction in `view/MainView.as:34` is commented out: the module models the class.
- A name of a network that reads like another line of `iwlist`; the numbers of a signal level.
- `rc.local`: it starts `buttons.py` in the background, where a shell that is not interactive has
  SIGINT ignored, so that the interrupts of `RadioButtons` are those of a script started by hand.
- Sending frames (masking, fragmentation of what is sent), TLS, the parsing of URLs and of the
  handshake's headers: pure conversions, abstracted to accepted, refused or garbled.
- Credentials with a quote, a backslash or a control code: the application puts the JSON together
  without escapes, `json.loads` refuses control codes in a string, and a newline ends the line.
- Power cuts in `WifiSetup`: `SerialProxy` has them.
- Views, fonts, analytics, device information: no state that another part reads.
- Vendored code and the experiments of `R_D` and `scripts/rd`. By lines they are nearly all of the
  repository's Python: `RBPI/home/zbam/get-pip.py` has 19177 lines, most of them an encoded
  archive of pip, and the scripts of `rd` are earlier versions of `esp8266_proxy.py`. The two
  scripts that run, `esp8266_proxy.py` and `buttons.py`, are modelled whole.

External, and modelled from how the code uses it: TCP and the WebSocket server's side, the USB
adapter and udev, the kernel's page cache, the serial line.

## Plan

What is left, in the order in which it matters:

1. `WebSocketClient` with a second connection in a passing run, for what a reconnected object does
   right; the messages it sends, with their fragmentation.
2. `RadioButtons` with the commands: `mpc` shares MPD with the application's connection.

## Running

`tlc -config SerialProxy.cfg MCSerialProxy` and so on, with the pairs of module and configuration in
`PROJECT.json`; `tlapm` on each of the modules `...Proofs`.

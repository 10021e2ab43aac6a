---------------------------- MODULE SerialProxy ----------------------------
(***************************************************************************)
(* RBPI/home/zbam/scripts/esp8266_proxy.py: the script of the Raspberry Pi *)
(* that answers, over a hot-pluggable USB serial adapter, the requests the *)
(* phone application relays through the ESP8266.                           *)
(*                                                                         *)
(* Two threads share the serial port object `ser' without a lock.  The     *)
(* main thread scans for the adapter once, starts the pyudev observer and  *)
(* then loops: read a line, serve it.  The observer thread opens the port  *)
(* when the adapter is plugged in and closes it when it is removed.        *)
(*                                                                         *)
(* Abstracted: the text of lines and of the configuration file.  A         *)
(* "s_wi-cr" line stands for the credentials it decodes to; a line whose   *)
(* JSON or ~~~~ markers are broken is "malformed".  Left out: the prints   *)
(* and the sleep at the end of the loop.                                   *)
(***************************************************************************)
EXTENDS Naturals, Sequences

CONSTANTS
    Credentials,      \* (ssid, psk) pairs a client can send
    None,             \* no credentials: a torn file, an interface that is down
    MaxLines,         \* bound: lines the ESP8266 writes
    MaxPlugChanges,   \* bound: times the adapter is plugged in or pulled out
    MaxPowerCuts      \* bound: times the Raspberry Pi loses its power

ASSUME CredentialsAssumption ==
    /\ None \notin Credentials
    /\ Credentials \cap {"g_wi-sc", "malformed", "noise"} = {}
ASSUME BoundsAssumption ==
    MaxLines \in Nat /\ MaxPlugChanges \in Nat /\ MaxPowerCuts \in Nat

VARIABLES
    plugged,    \* the HL-340 adapter is in its USB socket
    port,       \* ser: closed, open ("live"), or open on a device that is gone
    rx,         \* lines that wait in the tty the port is open on
    udev,       \* events queued on the netlink socket of the monitor
    pc,         \* where the main thread is
    observer,   \* the MonitorObserver thread
    cred,       \* arguments of the update_wpa_supplicant call
    conf,       \* wpa_supplicant.conf, as processes see it
    disk,       \* wpa_supplicant.conf, as the SD card holds it
    wlan,       \* credentials wlan0 is connected with
    missed,     \* history: the adapter changed between the scan and the start
    updated,    \* history: the call being served has written the file
    replies,    \* history: replies written to the request being served
    outcome,    \* history: the last of them
    used        \* history: what is used of each bound

adapter == <<plugged, port, rx, udev, observer, missed>>
files   == <<conf, disk, wlan>>
history == <<updated, replies, outcome>>
vars    == <<adapter, pc, cred, files, history, used>>

Line == {"g_wi-sc", "malformed", "noise"} \cup Credentials

\* Program points of update_wpa_supplicant, and of any request being served.
Updating == {"open_conf", "write_conf", "restart", "reply_ok", "reply_error", "except"}
Serving  == Updating \cup {"send_networks"}

Init ==
    /\ plugged \in BOOLEAN
    /\ port = "closed" /\ rx = <<>> /\ udev = <<>>
    /\ observer = "off" /\ missed = FALSE
    /\ pc = "check" /\ cred = None
    /\ conf \in Credentials \cup {None} /\ disk = conf /\ wlan \in {None, conf}
    /\ updated = FALSE /\ replies = 0 /\ outcome = "none"
    /\ used = [lines |-> 0, plugs |-> 0, cuts |-> 0]

-----------------------------------------------------------------------------
(* The main thread *)

\* An exception nobody catches ends the main thread, and with it the process:
\* the observer is a daemon thread, the kernel closes the port.
Exit ==
    /\ pc' = "dead" /\ observer' = "off"
    /\ port' = "closed" /\ rx' = <<>> /\ udev' = <<>>
    /\ UNCHANGED <<plugged, missed, cred, files, history, used>>

\* checkForhL340PluggedIn opens the port if the scan sees the adapter; the
\* SerialException of an open that fails is not caught.
CheckForhL340PluggedIn ==
    /\ pc = "check"
    /\ \/ /\ pc' = "start"
          /\ port' = IF plugged THEN "live" ELSE port
          /\ UNCHANGED <<plugged, rx, udev, observer, missed, cred, files, history, used>>
       \/ plugged /\ Exit

ObserverStart ==
    /\ pc = "start"
    /\ pc' = "loop" /\ observer' = "watching"
    /\ UNCHANGED <<plugged, port, rx, udev, missed, cred, files, history, used>>

IsOpen ==
    /\ pc = "loop" /\ port # "closed"
    /\ pc' = "readline"
    /\ UNCHANGED <<adapter, cred, files, history, used>>

\* Mutant: the credentials are taken from a line of any kind.
DispatchUnchecked(line) ==
    /\ pc' = "loop" /\ cred' = line
    /\ updated' = FALSE /\ replies' = 0 /\ outcome' = "none"
    /\ UNCHANGED <<files, used>>

\* readline returns a line, which the loop dispatches on.  A new request has
\* no reply yet.
Dispatch(line) ==
    /\ pc' = CASE line \in Credentials -> "open_conf"
               [] line = "g_wi-sc"     -> "send_networks"
               [] OTHER                -> "loop"
    /\ cred' = IF line \in Credentials THEN line ELSE cred
    /\ updated' = FALSE /\ replies' = 0 /\ outcome' = "none"
    /\ UNCHANGED <<files, used>>

\* Mutant: a line is returned only once the next one follows it.
ReadLineLate ==
    /\ pc = "readline" /\ port = "live" /\ Len(rx) > 1
    /\ Dispatch(Head(rx)) /\ rx' = Tail(rx)
    /\ UNCHANGED <<plugged, port, udev, observer, missed>>

ReadLine ==
    /\ pc = "readline" /\ port = "live" /\ rx # <<>>
    /\ \/ /\ Head(rx) # "malformed"
          /\ Dispatch(Head(rx)) /\ rx' = Tail(rx)
          /\ UNCHANGED <<plugged, port, udev, observer, missed>>
       \/ Head(rx) = "malformed" /\ Exit

\* What a serial call of the main thread raises when the device is gone or the
\* observer closed the port under it.  A close that falls between the check of
\* the port and the use of its descriptor (None by then) is a TypeError.
Raises(handler) ==
    /\ port # "live"
    /\ \/ pc' = handler /\ UNCHANGED <<adapter, cred, files, history, used>>
       \/ port = "closed" /\ Exit

\* The loop catches SerialException, and nothing else.
ReadLineRaises == pc = "readline" /\ Raises("loop")

Write(reply, next) ==
    /\ port = "live"
    /\ replies' = replies + 1 /\ outcome' = reply
    /\ pc' = next
    /\ UNCHANGED <<adapter, cred, files, updated, used>>

SendWifiNetworksInfoToEsp8266 ==
    pc = "send_networks" /\ (Write("networks", "loop") \/ Raises("loop"))

\* update_wpa_supplicant.  Opening the file for writing truncates it; the write
\* or the close can fail (a psk that does not encode, a full disk).
OpenConf ==
    /\ pc = "open_conf"
    /\ \/ pc' = "write_conf" /\ conf' = None
       \/ pc' = "except"     /\ conf' = conf
    /\ UNCHANGED <<adapter, cred, disk, wlan, history, used>>

\* Mutant: the file is not closed, and nothing has reached it yet.
WriteConfUnflushed ==
    /\ pc = "write_conf" /\ pc' = "restart"
    /\ UNCHANGED <<adapter, cred, files, history, used>>

WriteConf ==
    /\ pc = "write_conf"
    /\ \/ pc' = "restart" /\ conf' = cred /\ updated' = TRUE
       \/ pc' = "except"  /\ conf' = None /\ updated' = FALSE
    /\ UNCHANGED <<adapter, cred, disk, wlan, replies, outcome, used>>

\* Mutant: the exit status of ifdown is lost (`;' for `&&').
RestartWlanUnchecked ==
    /\ pc = "restart" /\ pc' = "reply_ok" /\ wlan' \in {wlan, conf}
    /\ UNCHANGED <<adapter, cred, conf, disk, history, used>>

\* ifdown && ifup: either can fail, and ifup runs only after ifdown.
RestartWlan ==
    /\ pc = "restart"
    /\ \/ pc' = "reply_ok"    /\ wlan' = conf
       \/ pc' = "reply_error" /\ wlan' \in {wlan, None}
    /\ UNCHANGED <<adapter, cred, conf, disk, history, used>>

\* Mutant: the handler runs after a reply that was written, too.
ReplyFallsThrough(at, reply) == pc = at /\ Write(reply, "except")

\* The bare except of update_wpa_supplicant catches what either reply raises.
Reply(at, reply) ==
    /\ pc = at
    /\ \/ Write(reply, "loop")
       \/ /\ port # "live" /\ pc' = "except"
          /\ UNCHANGED <<adapter, cred, files, history, used>>
ReplyOk    == Reply("reply_ok", "ok")
ReplyError == Reply("reply_error", "error")

\* Mutant: the handler reports nothing to the client.
ExceptSilent ==
    /\ pc = "except" /\ pc' = "loop"
    /\ UNCHANGED <<adapter, cred, files, history, used>>

Except == pc = "except" /\ (Write("error", "loop") \/ Raises("loop"))

Main ==
    \/ CheckForhL340PluggedIn \/ ObserverStart
    \/ IsOpen \/ ReadLine \/ ReadLineRaises
    \/ SendWifiNetworksInfoToEsp8266
    \/ OpenConf \/ WriteConf \/ RestartWlan \/ ReplyOk \/ ReplyError \/ Except

-----------------------------------------------------------------------------
(* The observer thread: watchForHL340PlugChange, one event at a time *)

Take(event) ==
    /\ observer = "watching" /\ udev # <<>> /\ Head(udev) = event
    /\ UNCHANGED <<plugged, missed, pc, cred, files, history, used>>

\* Mutant: the exception of ser.open is swallowed.
HandleAddSwallows ==
    /\ Take("add") /\ udev' = Tail(udev)
    /\ port' \in IF plugged /\ port = "closed" THEN {"live", port} ELSE {port}
    /\ UNCHANGED <<rx, observer>>

\* ser.open raises if the port is open already, or its device is not there (or
\* not ready); the exception ends the observer thread, not the process.
HandleAdd ==
    /\ Take("add") /\ rx' = rx
    /\ \/ /\ port = "closed" /\ plugged
          /\ port' = "live" /\ udev' = Tail(udev) /\ observer' = observer
       \/ port' = port /\ udev' = <<>> /\ observer' = "dead"

\* Mutant: the port is not closed.
HandleRemoveKeepsPort ==
    Take("remove") /\ udev' = Tail(udev) /\ UNCHANGED <<port, rx, observer>>

HandleRemove ==
    /\ Take("remove")
    /\ port' = "closed" /\ rx' = <<>>
    /\ udev' = Tail(udev) /\ observer' = observer

Observer == HandleAdd \/ HandleRemove

-----------------------------------------------------------------------------
(* The environment *)

\* The ESP8266 writes a line.  Nothing keeps it unless the port is open.
EspWrites(line) ==
    /\ port = "live" /\ used.lines < MaxLines
    /\ used' = [used EXCEPT !.lines = @ + 1]
    /\ rx' = Append(rx, line)
    /\ UNCHANGED <<plugged, port, udev, observer, missed, pc, cred, files, history>>

PlugChange(event) ==
    /\ used.plugs < MaxPlugChanges
    /\ used' = [used EXCEPT !.plugs = @ + 1]
    /\ udev' = IF observer = "watching" THEN Append(udev, event) ELSE udev
    /\ missed' = (missed \/ pc = "start")
    /\ UNCHANGED <<observer, pc, cred, files, history>>

Plug ==
    /\ ~plugged /\ plugged' = TRUE
    /\ UNCHANGED <<port, rx>>
    /\ PlugChange("add")

Unplug ==
    /\ plugged /\ plugged' = FALSE
    /\ port' = IF port = "live" THEN "stale" ELSE port
    /\ rx' = <<>>
    /\ PlugChange("remove")

\* The kernel writes the file back to the SD card when it likes: the script
\* does not sync.
Writeback ==
    /\ disk # conf /\ disk' = conf
    /\ UNCHANGED <<adapter, pc, cred, conf, wlan, history, used>>

\* The Pi loses its power and boots again, with the file of the SD card.  The
\* history of the last request is void if the card does not hold its file.
PowerCut ==
    /\ used.cuts < MaxPowerCuts
    /\ used' = [used EXCEPT !.cuts = @ + 1]
    /\ pc' = "check" /\ port' = "closed" /\ rx' = <<>> /\ udev' = <<>>
    /\ observer' = "off" /\ missed' = FALSE
    /\ conf' = disk /\ wlan' \in {None, disk}
    /\ outcome' = IF disk = conf THEN outcome ELSE "none"
    /\ UNCHANGED <<plugged, disk, cred, updated, replies>>

EspSends == \E line \in Line : EspWrites(line)

Environment == EspSends \/ Plug \/ Unplug \/ Writeback \/ PowerCut

-----------------------------------------------------------------------------
Next == Main \/ Observer \/ Environment

Spec == Init /\ [][Next]_vars

\* The operating system schedules both threads; nothing is owed by the
\* environment.
FairSpec == Spec /\ WF_vars(Main) /\ WF_vars(Observer)

-----------------------------------------------------------------------------
TypeOK ==
    /\ plugged \in BOOLEAN /\ missed \in BOOLEAN /\ updated \in BOOLEAN
    /\ port \in {"closed", "live", "stale"}
    /\ rx \in Seq(Line)
    /\ udev \in Seq({"add", "remove"})
    /\ pc \in Serving \cup {"check", "start", "loop", "readline", "dead"}
    /\ observer \in {"off", "watching", "dead"}
    /\ cred \in Credentials \cup {None}
    /\ conf \in Credentials \cup {None}
    /\ disk \in Credentials \cup {None}
    /\ wlan \in Credentials \cup {None}
    /\ replies \in Nat
    /\ outcome \in {"none", "networks", "ok", "error"}
    /\ used \in [lines : Nat, plugs : Nat, cuts : Nat]

\* Once the observer has handled every event, the port is open exactly when
\* the adapter is plugged in, and never on a device that is gone: no order of
\* plugging, unplugging and reading leaves connectSerial and disconnectSerial
\* out of step with the adapter, unless it changed in the startup gap.
PortTracksAdapter ==
    observer = "watching" /\ ~missed /\ udev = <<>> =>
        port = IF plugged THEN "live" ELSE "closed"

\* connectSerial is never called on a port that is open (pyserial raises, and
\* that would end the observer), however many events queue up behind it.
NoDoubleOpen ==
    observer = "watching" /\ ~missed /\ udev # <<>> /\ Head(udev) = "add" =>
        port = "closed"

\* A request gets at most one reply, although the except branch of
\* update_wpa_supplicant replies again after a reply that raised.
AtMostOneReply == replies <= 1

\* A client that was told s_wi-cr_ok finds its credentials in the file for as
\* long as no other request came, across failed writes and power cuts (unless
\* the power went before the file reached the card).
ConfirmedIsKept == outcome = "ok" => cred # None /\ conf = cred

\* s_wi-cr_ok is written only when wlan0 runs with the credentials of the
\* request.
OkMeansApplied ==
    [][outcome' = "ok" /\ replies' > replies => wlan = cred /\ conf = cred]_vars

\* A request that is being served while the port is live is answered, unless
\* the port or the process goes away: no failure inside update_wpa_supplicant
\* is silent.
RequestAnswered ==
    pc \in Serving /\ port = "live"
        ~> outcome # "none" \/ port # "live" \/ pc = "dead"

\* A line in the tty is read, unless the port or the process goes away.
LinesRead == rx # <<>> ~> rx = <<>> \/ port # "live" \/ pc = "dead"

\* The port comes back into step with the adapter after every disturbance, as
\* long as the observer lives and the startup gap was not hit.
PortRecovers ==
    []<>(observer = "watching" /\ ~missed =>
            port = IF plugged THEN "live" ELSE "closed")

\* "error while updating wpa_supplicant.conf file" (line 77): the except branch
\* reports an error only when the call it ends has not written the file.
ExceptMeansNotUpdated ==
    [][pc = "except" /\ replies' > replies => ~updated]_vars
=============================================================================

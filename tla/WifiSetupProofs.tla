--------------------------- MODULE WifiSetupProofs ---------------------------
(***************************************************************************)
(* The safety properties of the script of the Raspberry Pi, for every set  *)
(* of credentials and every bound, and what the relay and the script keep  *)
(* together, for any number of phones as well: the promise of              *)
(* Provisioning, which the whole path implements, and that no line is cut. *)
(* The first part is about the variables of SerialProxy alone; its lemmas  *)
(* are those that the second part rests on.                                *)
(***************************************************************************)
EXTENDS WifiSetup, SequenceTheorems, TLAPS

-----------------------------------------------------------------------------
(* The script: types *)

\* The types of all variables, for any behaviour of the two threads and of the
\* environment (esp8266_proxy.py as a whole).
LEMMA TypeInit == Init => TypeOK
<1> SUFFICES ASSUME Init PROVE TypeOK
  OBVIOUS
<1>1. plugged \in BOOLEAN /\ missed \in BOOLEAN /\ updated \in BOOLEAN
  BY DEF Init
<1>2. rx \in Seq(Line) /\ udev \in Seq({"add", "remove"})
  BY DEF Init
<1>3. used \in [lines : Nat, plugs : Nat, cuts : Nat]
  BY DEF Init
<1> QED
  BY <1>1, <1>2, <1>3 DEF Init, TypeOK

\* The exit of the process keeps every variable in its type.
LEMMA TypeExit == TypeOK /\ Exit => TypeOK'
BY DEF TypeOK, Exit, files, history

LEMMA TypeMain == TypeOK /\ Main => TypeOK'
<1> SUFFICES ASSUME TypeOK, Main PROVE TypeOK'
  OBVIOUS
<1> USE DEF TypeOK, adapter, files, history
<1>1. CASE CheckForhL340PluggedIn
  BY <1>1, TypeExit DEF CheckForhL340PluggedIn
<1>2. CASE ObserverStart
  BY <1>2 DEF ObserverStart
<1>3. CASE IsOpen
  BY <1>3 DEF IsOpen
<1>4. CASE ReadLine
  <2>1. Head(rx) \in Line /\ Tail(rx) \in Seq(Line)
    BY <1>4 DEF ReadLine
  <2>2. CASE Exit
    BY <2>2, TypeExit
  <2>3. CASE Dispatch(Head(rx)) /\ rx' = Tail(rx) /\ UNCHANGED <<plugged, port, udev, observer, missed>>
    <3>1. pc' \in {"open_conf", "send_networks", "loop"}
      BY <2>3 DEF Dispatch
    <3>2. cred' \in Credentials \cup {None}
      BY <2>3 DEF Dispatch
    <3> QED
      BY <2>1, <2>3, <3>1, <3>2 DEF Dispatch, Serving, Updating
  <2> QED
    BY <1>4, <2>2, <2>3 DEF ReadLine
<1>5. CASE ReadLineRaises
  BY <1>5, TypeExit DEF ReadLineRaises, Raises
<1>6. CASE SendWifiNetworksInfoToEsp8266
  BY <1>6, TypeExit DEF SendWifiNetworksInfoToEsp8266, Write, Raises
<1>7. CASE OpenConf
  BY <1>7 DEF OpenConf, Serving, Updating
<1>8. CASE WriteConf
  <2>1. CASE pc' = "restart" /\ conf' = cred /\ updated' = TRUE
    BY <1>8, <2>1 DEF WriteConf, Serving, Updating
  <2>2. CASE pc' = "except" /\ conf' = None /\ updated' = FALSE
    BY <1>8, <2>2 DEF WriteConf, Serving, Updating
  <2> QED
    BY <1>8, <2>1, <2>2 DEF WriteConf
<1>9. CASE RestartWlan
  BY <1>9 DEF RestartWlan, Serving, Updating
<1>10. CASE ReplyOk
  BY <1>10 DEF ReplyOk, Reply, Write, Serving, Updating
<1>11. CASE ReplyError
  BY <1>11 DEF ReplyError, Reply, Write, Serving, Updating
<1>12. CASE Except
  BY <1>12, TypeExit DEF Except, Write, Raises
<1> QED
  BY <1>1, <1>2, <1>3, <1>4, <1>5, <1>6, <1>7, <1>8, <1>9, <1>10, <1>11, <1>12
  DEF Main

LEMMA TypeObserver == TypeOK /\ Observer => TypeOK'
<1> SUFFICES ASSUME TypeOK, Observer PROVE TypeOK'
  OBVIOUS
<1>1. Tail(udev) \in Seq({"add", "remove"})
  BY DEF TypeOK, Observer, HandleAdd, HandleRemove, Take
<1>2. CASE HandleAdd
  <2>1. \/ port' = "live" /\ udev' = Tail(udev) /\ observer' = observer
        \/ port' = port /\ udev' = <<>> /\ observer' = "dead"
    BY <1>2 DEF HandleAdd
  <2>2. udev' \in Seq({"add", "remove"})
    <3>1. CASE udev' = Tail(udev)
      BY <1>1, <3>1
    <3>2. CASE udev' = <<>>
      BY <3>2
    <3> QED
      BY <2>1, <3>1, <3>2
  <2> QED
    BY <1>2, <2>1, <2>2 DEF TypeOK, HandleAdd, Take, files, history
<1>3. CASE HandleRemove
  BY <1>1, <1>3 DEF TypeOK, HandleRemove, Take, files, history
<1> QED
  BY <1>2, <1>3 DEF Observer

\* What Plug and Unplug share keeps the types.
LEMMA TypePlugChange ==
    ASSUME TypeOK, NEW event \in {"add", "remove"}, PlugChange(event),
           plugged' \in BOOLEAN, port' \in {"closed", "live", "stale"}, rx' \in Seq(Line)
    PROVE  TypeOK'
<1>1. udev' \in Seq({"add", "remove"})
  <2>1. udev \in Seq({"add", "remove"})
    BY DEF TypeOK
  <2> QED
    BY <2>1 DEF PlugChange
<1>2. used' \in [lines : Nat, plugs : Nat, cuts : Nat]
  <2>1. used \in [lines : Nat, plugs : Nat, cuts : Nat]
    BY DEF TypeOK
  <2> QED
    BY <2>1 DEF PlugChange
<1>3. missed' \in BOOLEAN
  <2>1. missed' = (missed \/ pc = "start")
    BY DEF PlugChange
  <2> QED
    BY <2>1
<1> QED
  BY <1>1, <1>2, <1>3 DEF TypeOK, PlugChange, files, history

LEMMA TypeEnvironment == TypeOK /\ Environment => TypeOK'
<1> SUFFICES ASSUME TypeOK, Environment PROVE TypeOK'
  OBVIOUS
<1>0. port \in {"closed", "live", "stale"} /\ used \in [lines : Nat, plugs : Nat, cuts : Nat]
  BY DEF TypeOK
<1>1. CASE EspSends
  <2>1. rx' \in Seq(Line)
    BY <1>1 DEF TypeOK, EspSends, EspWrites
  <2>2. used' \in [lines : Nat, plugs : Nat, cuts : Nat]
    BY <1>0, <1>1 DEF EspSends, EspWrites
  <2> QED
    BY <1>1, <2>1, <2>2 DEF TypeOK, EspSends, EspWrites, files, history
<1>2. CASE Plug
  BY <1>2, TypePlugChange DEF Plug, TypeOK
<1>3. CASE Unplug
  <2>1. PlugChange("remove") /\ plugged' = FALSE /\ rx' = <<>>
    BY <1>3 DEF Unplug
  <2>2. port' \in {"closed", "live", "stale"}
    BY <1>0, <1>3 DEF Unplug
  <2>3. rx' \in Seq(Line)
    BY <2>1
  <2>4. plugged' \in BOOLEAN
    BY <2>1
  <2> QED
    BY <2>1, <2>2, <2>3, <2>4, TypePlugChange
<1>4. CASE Writeback
  BY <1>4 DEF TypeOK, Writeback, adapter, history
<1>5. CASE PowerCut
  <2>1. used' \in [lines : Nat, plugs : Nat, cuts : Nat]
    BY <1>0, <1>5 DEF PowerCut
  <2>2. rx' \in Seq(Line) /\ udev' \in Seq({"add", "remove"})
    BY <1>5 DEF PowerCut
  <2>3. missed' \in BOOLEAN
    BY <1>5 DEF PowerCut
  <2>4. outcome' \in {"none", "networks", "ok", "error"}
    BY <1>5 DEF TypeOK, PowerCut
  <2>5. conf' \in Credentials \cup {None} /\ wlan' \in Credentials \cup {None}
    BY <1>5 DEF TypeOK, PowerCut
  <2> QED
    BY <1>5, <2>1, <2>2, <2>3, <2>4, <2>5 DEF TypeOK, PowerCut
<1> QED
  BY <1>1, <1>2, <1>3, <1>4, <1>5 DEF Environment

\* Every variable keeps its type in every behaviour.
THEOREM TypeCorrect == Spec => []TypeOK
<1>1. TypeOK /\ UNCHANGED vars => TypeOK'
  BY DEF TypeOK, vars, adapter, files, history
<1>2. TypeOK /\ [Next]_vars => TypeOK'
  BY <1>1, TypeMain, TypeObserver, TypeEnvironment DEF Next
<1> QED
  BY TypeInit, <1>2, PTL DEF Spec
-----------------------------------------------------------------------------
(* The port follows the adapter *)

\* Where the port, the pending events and the adapter stand to each other while
\* nothing was missed: events alternate, the first is the one that the state of
\* the port calls for, the last is the one that led to the state of the adapter.
InStep ==
    /\ udev = <<>> => port = IF plugged THEN "live" ELSE "closed"
    /\ udev # <<>> => /\ Head(udev) = "add" <=> port = "closed"
                      /\ udev[Len(udev)] = "add" <=> plugged
    /\ \A i \in 1 .. Len(udev) - 1 : udev[i] # udev[i + 1]

PortInv ==
    /\ pc = "check" => observer = "off" /\ udev = <<>> /\ port = "closed" /\ ~missed
    /\ pc = "start" => observer = "off" /\ udev = <<>> /\ (~missed => InStep)
    /\ observer = "watching" /\ ~missed => InStep

LEMMA PortInit == Init => PortInv
BY DEF Init, PortInv

\* No step of the main thread but the scan and the start of the observer touches
\* the port or its events.
LEMMA PortMain == TypeOK /\ PortInv /\ Main => PortInv'
<1> SUFFICES ASSUME TypeOK, PortInv, Main PROVE PortInv'
  OBVIOUS
<1>1. CASE Exit
  BY <1>1 DEF Exit, PortInv
<1>2. CASE CheckForhL340PluggedIn /\ ~Exit
  BY <1>2 DEF CheckForhL340PluggedIn, PortInv, InStep
<1>3. CASE ObserverStart
  BY <1>3 DEF ObserverStart, PortInv, InStep
<1>4. CASE /\ pc' \notin {"check", "start"} /\ pc \notin {"check", "start"}
           /\ UNCHANGED <<plugged, port, udev, observer, missed>>
  BY <1>4 DEF PortInv, InStep
<1>5. ReadLine => Exit \/ <1>4!1
  BY DEF ReadLine, Dispatch
<1>6. IsOpen \/ ReadLineRaises \/ SendWifiNetworksInfoToEsp8266 => Exit \/ <1>4!1
  BY DEF IsOpen, ReadLineRaises, SendWifiNetworksInfoToEsp8266, Write, Raises, adapter
<1>7. OpenConf \/ WriteConf \/ RestartWlan => <1>4!1
  BY DEF OpenConf, WriteConf, RestartWlan, adapter
<1>8. ReplyOk \/ ReplyError \/ Except => Exit \/ <1>4!1
  BY DEF ReplyOk, ReplyError, Reply, Except, Write, Raises, adapter
<1> QED
  BY <1>1, <1>2, <1>3, <1>4, <1>5, <1>6, <1>7, <1>8 DEF Main

\* After an event is handled, the next one is what the port calls for.
LEMMA PortObserver == TypeOK /\ PortInv /\ Observer => PortInv'
<1> SUFFICES ASSUME TypeOK, PortInv, Observer PROVE PortInv'
  OBVIOUS
<1>1. observer = "watching" /\ udev # <<>> /\ udev \in Seq({"add", "remove"})
      /\ UNCHANGED <<pc, missed, plugged>>
  BY DEF TypeOK, Observer, HandleAdd, HandleRemove, Take
<1>2. pc \notin {"check", "start"}
  BY <1>1 DEF PortInv
<1>3. CASE observer' = "watching" /\ ~missed /\ udev' = Tail(udev)
  <2>1. InStep
    BY <1>1, <1>3 DEF PortInv
  <2>2. (port' = "closed" <=> Head(udev) = "remove") /\ (port' = "live" => plugged)
        /\ port' \in {"closed", "live"}
    BY <1>3 DEF Observer, HandleAdd, HandleRemove, Take
  <2>3. CASE Len(udev) = 1
    <3>1. udev' = <<>> /\ Head(udev) = udev[Len(udev)]
      BY <1>1, <1>3, <2>3
    <3> QED
      BY <1>1, <1>2, <2>1, <2>2, <3>1 DEF InStep, PortInv
  <2>4. CASE Len(udev) > 1
    <3>1. /\ udev' # <<>> /\ Len(udev') = Len(udev) - 1
          /\ \A i \in 1 .. Len(udev') : udev'[i] = udev[i + 1]
      <4>1. /\ Len(Tail(udev)) = Len(udev) - 1 /\ Tail(udev) \in Seq({"add", "remove"})
            /\ \A i \in 1 .. Len(Tail(udev)) : Tail(udev)[i] = udev[i + 1]
        BY <1>1, HeadTailProperties
      <4>2. Len(udev) \in Nat
        BY <1>1
      <4>3. udev' # <<>>
        <5>1. Len(udev') = Len(udev) - 1
          BY <1>3, <4>1
        <5>2. Len(udev') # 0
          BY <2>4, <4>2, <5>1
        <5> QED
          BY <5>2
      <4> QED
        BY <1>3, <4>1, <4>3
    <3>2. Head(udev') # Head(udev) /\ Head(udev') \in {"add", "remove"}
      BY <1>1, <1>3, <2>1, <2>4, <3>1 DEF InStep
    <3>3. udev'[Len(udev')] = udev[Len(udev)]
      BY <1>1, <2>4, <3>1
    <3>4. \A i \in 1 .. Len(udev') - 1 : udev'[i] # udev'[i + 1]
      BY <1>1, <2>1, <3>1 DEF InStep
    <3> QED
      BY <1>1, <1>2, <2>1, <2>2, <3>1, <3>2, <3>3, <3>4 DEF InStep, PortInv
  <2>5. Len(udev) \in Nat /\ Len(udev) # 0
    BY <1>1
  <2> QED
    BY <2>3, <2>4, <2>5
<1>4. CASE observer' # "watching" \/ missed
  BY <1>1, <1>2, <1>4 DEF PortInv
<1> QED
  BY <1>1, <1>3, <1>4 DEF Observer, HandleAdd, HandleRemove

LEMMA PortEnvironment == TypeOK /\ PortInv /\ Environment => PortInv'
<1> SUFFICES ASSUME TypeOK, PortInv, Environment PROVE PortInv'
  OBVIOUS
<1>1. CASE EspSends \/ Writeback
  BY <1>1 DEF EspSends, EspWrites, Writeback, PortInv, InStep, adapter
<1>2. CASE PowerCut
  BY <1>2 DEF PowerCut, PortInv
<1>3. CASE Plug \/ Unplug
  <2>1. PICK event \in {"add", "remove"} :
            /\ PlugChange(event)
            /\ plugged' = ~plugged /\ plugged' = (event = "add")
            /\ (port' = "closed" <=> port = "closed")
            /\ (port # "live" => port' = port)
    BY <1>3 DEF Plug, Unplug, TypeOK
  <2>2. CASE observer = "watching" /\ ~missed
    <3>1. udev' = Append(udev, event) /\ udev \in Seq({"add", "remove"})
          /\ pc \notin {"check", "start"} /\ UNCHANGED <<pc, observer>>
      BY <2>1, <2>2 DEF PlugChange, TypeOK, PortInv
    <3>2. /\ Len(udev') = Len(udev) + 1 /\ udev'[Len(udev')] = event /\ udev' # <<>>
          /\ \A i \in 1 .. Len(udev) : udev'[i] = udev[i]
      BY <3>1
    <3>3. Head(udev') = "add" <=> port' = "closed"
      <4>1. CASE udev = <<>>
        BY <2>1, <2>2, <3>1, <3>2, <4>1 DEF PortInv, InStep
      <4>2. CASE udev # <<>>
        <5>1. Head(udev') = Head(udev)
          BY <3>1, <4>2
        <5> QED
          BY <2>1, <2>2, <4>2, <5>1 DEF PortInv, InStep
      <4> QED
        BY <4>1, <4>2
    <3>4. \A i \in 1 .. Len(udev') - 1 : udev'[i] # udev'[i + 1]
      BY <2>1, <2>2, <3>1, <3>2 DEF PortInv, InStep
    <3> QED
      BY <2>1, <3>1, <3>2, <3>3, <3>4 DEF PortInv, InStep
  <2>3. CASE ~(observer = "watching" /\ ~missed)
    <3>1. observer' = observer /\ pc' = pc /\ missed' = (missed \/ pc = "start")
      BY <2>1 DEF PlugChange
    <3>2. CASE pc = "check"
      BY <2>1, <3>1, <3>2 DEF PortInv, PlugChange, Plug, Unplug
    <3>3. CASE pc = "start"
      BY <2>1, <3>1, <3>3 DEF PortInv, PlugChange
    <3>4. CASE pc \notin {"check", "start"}
      BY <2>3, <3>1, <3>4 DEF PortInv
    <3> QED
      BY <3>2, <3>3, <3>4
  <2> QED
    BY <2>2, <2>3
<1> QED
  BY <1>1, <1>2, <1>3 DEF Environment

LEMMA PortInductive == Spec => []PortInv
<1>1. PortInv /\ UNCHANGED vars => PortInv'
  BY DEF PortInv, InStep, vars, adapter
<1>2. TypeOK /\ PortInv /\ [Next]_vars => PortInv'
  BY <1>1, PortMain, PortObserver, PortEnvironment DEF Next
<1> QED
  BY PortInit, <1>2, TypeCorrect, PTL DEF Spec

\* Once the observer has handled every event, the port is open exactly when the
\* adapter is plugged in, for any number of plug changes in any order with the
\* steps of both threads.
THEOREM PortFollowsAdapter == Spec => []PortTracksAdapter
<1>1. PortInv => PortTracksAdapter
  BY DEF PortInv, InStep, PortTracksAdapter
<1> QED
  BY <1>1, PortInductive, PTL

\* connectSerial never meets a port that is open.
THEOREM NeverOpensTwice == Spec => []NoDoubleOpen
<1>1. PortInv => NoDoubleOpen
  BY DEF PortInv, InStep, NoDoubleOpen
<1> QED
  BY <1>1, PortInductive, PTL
-----------------------------------------------------------------------------
(* What a reply means *)

\* A request that is being served has no reply yet; the program points after the
\* file was written and after the interface was restarted know what they did.
ReplyInv ==
    /\ pc \in Serving => replies = 0 /\ outcome = "none"
    /\ pc \in Updating => cred # None
    /\ pc = "restart" => conf = cred
    /\ pc = "reply_ok" => conf = cred /\ wlan = cred
    /\ AtMostOneReply
    /\ ConfirmedIsKept

LEMMA ReplyInit == Init => ReplyInv
BY DEF Init, ReplyInv, Serving, Updating, AtMostOneReply, ConfirmedIsKept

LEMMA ReplyMain == TypeOK /\ ReplyInv /\ Main => ReplyInv'
<1> SUFFICES ASSUME TypeOK, ReplyInv, Main PROVE ReplyInv'
  OBVIOUS
<1> USE DEF ReplyInv, AtMostOneReply, ConfirmedIsKept, Serving, Updating, files, history
<1>1. CASE /\ pc' \in {"start", "loop", "readline", "dead"}
           /\ UNCHANGED <<replies, outcome, cred, conf>>
  BY <1>1
<1>2. CheckForhL340PluggedIn \/ ObserverStart \/ IsOpen \/ ReadLineRaises => <1>1!1
  BY DEF CheckForhL340PluggedIn, ObserverStart, IsOpen, ReadLineRaises, Raises, Exit
<1>3. CASE \E reply \in {"networks", "error"} : Write(reply, "loop") /\ pc \in Serving
  BY <1>3 DEF Write
<1>4. SendWifiNetworksInfoToEsp8266 => <1>1!1 \/ <1>3!1
  BY DEF SendWifiNetworksInfoToEsp8266, Raises, Exit
<1>5. Except => <1>1!1 \/ <1>3!1
  BY DEF Except, Raises, Exit
<1>6. CASE ReadLine
  <2>1. CASE Exit
    BY <2>1, <1>1 DEF Exit
  <2>2. CASE Dispatch(Head(rx))
    <3>1. pc' \in {"open_conf", "send_networks", "loop"}
          /\ (pc' = "open_conf" => cred' \in Credentials)
      BY <2>2 DEF Dispatch
    <3> QED
      BY <2>2, <3>1, CredentialsAssumption DEF Dispatch
  <2> QED
    BY <1>6, <2>1, <2>2 DEF ReadLine
<1>7. CASE OpenConf
  BY <1>7 DEF OpenConf
<1>8. CASE WriteConf
  BY <1>8 DEF WriteConf
<1>9. CASE RestartWlan
  BY <1>9 DEF RestartWlan
<1>10. CASE ReplyOk
  BY <1>10 DEF ReplyOk, Reply, Write
<1>11. CASE ReplyError
  BY <1>11 DEF ReplyError, Reply, Write
<1> QED
  BY <1>1, <1>2, <1>3, <1>4, <1>5, <1>6, <1>7, <1>8, <1>9, <1>10, <1>11 DEF Main

\* Neither the observer nor the adapter touches the file or the interface; a
\* power cut loads the file of the card and ends the request.
LEMMA ReplyOthers == ReplyInv /\ (Observer \/ Environment) => ReplyInv'
<1> SUFFICES ASSUME ReplyInv, Observer \/ Environment PROVE ReplyInv'
  OBVIOUS
<1> USE DEF ReplyInv, AtMostOneReply, ConfirmedIsKept, Serving, Updating, files, history
<1>1. CASE UNCHANGED <<pc, replies, outcome, cred, conf, wlan>>
  BY <1>1
<1>2. Observer => <1>1!1
  BY DEF Observer, HandleAdd, HandleRemove, Take
<1>3. EspSends \/ Plug \/ Unplug \/ Writeback => <1>1!1
  BY DEF EspSends, EspWrites, Plug, Unplug, PlugChange, Writeback
<1>4. CASE PowerCut
  BY <1>4 DEF PowerCut
<1> QED
  BY <1>1, <1>2, <1>3, <1>4 DEF Environment

LEMMA ReplyInductive == Spec => []ReplyInv
<1>1. ReplyInv /\ UNCHANGED vars => ReplyInv'
  BY DEF ReplyInv, AtMostOneReply, ConfirmedIsKept, vars, files, history
<1>2. TypeOK /\ ReplyInv /\ [Next]_vars => ReplyInv'
  BY <1>1, ReplyMain, ReplyOthers DEF Next
<1> QED
  BY ReplyInit, <1>2, TypeCorrect, PTL DEF Spec

\* A request is replied to at most once, whatever raises and wherever.
THEOREM OneReply == Spec => []AtMostOneReply
<1>1. ReplyInv => AtMostOneReply
  BY DEF ReplyInv
<1> QED
  BY <1>1, ReplyInductive, PTL

\* Credentials that were confirmed stay in the file until the next request.
THEOREM ConfirmedStay == Spec => []ConfirmedIsKept
<1>1. ReplyInv => ConfirmedIsKept
  BY DEF ReplyInv
<1> QED
  BY <1>1, ReplyInductive, PTL

\* s_wi-cr_ok is written only when the file and wlan0 have the credentials.
THEOREM OkIsTrue == Spec => OkMeansApplied
<1> DEFINE Good == outcome' = "ok" /\ replies' > replies => wlan = cred /\ conf = cred
<1>1. TypeOK /\ ReplyInv /\ Main => Good
  <2> SUFFICES ASSUME TypeOK, ReplyInv, Main, replies' > replies, outcome' = "ok"
               PROVE  ReplyOk
    BY DEF ReplyInv, ReplyOk, Reply
  <2>1. replies \in Nat
    BY DEF TypeOK
  <2>2. CheckForhL340PluggedIn \/ ObserverStart \/ IsOpen \/ ReadLineRaises => replies' = replies
    BY DEF CheckForhL340PluggedIn, ObserverStart, IsOpen, ReadLineRaises, Raises, Exit, history
  <2>3. OpenConf \/ WriteConf \/ RestartWlan => replies' = replies
    BY DEF OpenConf, WriteConf, RestartWlan, history
  <2>4. ReadLine => replies' = replies \/ replies' = 0
    BY DEF ReadLine, Dispatch, Exit, history
  <2>5. SendWifiNetworksInfoToEsp8266 \/ ReplyError \/ Except => replies' = replies \/ outcome' # "ok"
    BY DEF SendWifiNetworksInfoToEsp8266, ReplyError, Reply, Except, Write, Raises, Exit, history
  <2> QED
    BY <2>1, <2>2, <2>3, <2>4, <2>5 DEF Main
<1>2. TypeOK /\ (Observer \/ Environment \/ UNCHANGED vars) => Good
  BY DEF TypeOK, Observer, HandleAdd, HandleRemove, Take, Environment, EspSends, EspWrites, Plug, Unplug,
         PlugChange, Writeback, PowerCut, vars, history
<1>3. TypeOK /\ ReplyInv /\ [Next]_vars => [Good]_vars
  BY <1>1, <1>2 DEF Next
<1> QED
  BY <1>3, TypeCorrect, ReplyInductive, PTL DEF Spec, OkMeansApplied

-----------------------------------------------------------------------------
(* The whole path: sequences *)

\* Every part of a sequence is a sequence over the same set.
LEMMA SubSeqIn ==
    ASSUME NEW S, NEW s \in Seq(S), NEW m \in Nat \ {0}, NEW n \in 0 .. Len(s)
    PROVE  SubSeq(s, m, n) \in Seq(S)
BY SubSeqProperties

-----------------------------------------------------------------------------
(* What a step of the script does to the request and to the reply *)

\* The lines in the tty only go away, and the request that is served is one of
\* them.
LEMMA MainRequest ==
    ASSUME TypeOK, Main
    PROVE  /\ rx' = rx \/ rx' = <<>> \/ (rx # <<>> /\ rx' = Tail(rx))
           /\ pc' \in Updating =>
                 \/ pc \in Updating /\ cred' = cred
                 \/ rx # <<>> /\ cred' = Head(rx) /\ cred' \in Credentials
           /\ pc' = "reply_ok" => pc = "restart" /\ wlan' = conf /\ conf' = conf /\ cred' = cred
<1> USE DEF Updating, adapter, files, history
<1>1. Exit \/ CheckForhL340PluggedIn \/ ObserverStart \/ IsOpen
         => rx' \in {rx, <<>>} /\ pc' \notin Updating
  BY DEF Exit, CheckForhL340PluggedIn, ObserverStart, IsOpen
<1>2. CASE ReadLine /\ ~Exit
  <2>1. rx # <<>> /\ rx' = Tail(rx) /\ Dispatch(Head(rx))
    BY <1>2 DEF ReadLine
  <2>2. CASE Head(rx) \in Credentials
    BY <2>1, <2>2 DEF Dispatch
  <2>3. CASE Head(rx) \notin Credentials
    BY <2>1, <2>3 DEF Dispatch
  <2> QED
    BY <2>1, <2>2, <2>3
<1>3. ReadLineRaises \/ SendWifiNetworksInfoToEsp8266 \/ Except
         => rx' \in {rx, <<>>} /\ pc' \notin Updating
  BY <1>1 DEF ReadLineRaises, SendWifiNetworksInfoToEsp8266, Except, Raises, Write
<1>4. OpenConf \/ WriteConf \/ ReplyOk \/ ReplyError
         => rx' = rx /\ cred' = cred /\ pc \in Updating /\ pc' # "reply_ok"
  BY DEF OpenConf, WriteConf, ReplyOk, ReplyError, Reply, Write
<1>5. RestartWlan => /\ rx' = rx /\ cred' = cred /\ pc = "restart" /\ conf' = conf
                     /\ pc' = "reply_ok" => wlan' = conf
  BY DEF RestartWlan
<1> QED
  BY <1>1, <1>2, <1>3, <1>4, <1>5 DEF Main

\* A reply is one of three lines, about the request that is served; "ok" is
\* written by the branch that runs after the restart of wlan0.
LEMMA MainReplies ==
    ASSUME TypeOK, Main, replies' > replies
    PROVE  /\ outcome' \in {"networks", "ok", "error"} /\ cred' = cred
           /\ outcome' = "ok" => pc = "reply_ok"
<1>1. replies \in Nat
  BY DEF TypeOK
<1>2. CheckForhL340PluggedIn \/ ObserverStart \/ IsOpen \/ ReadLineRaises => replies' = replies
  BY DEF CheckForhL340PluggedIn, ObserverStart, IsOpen, ReadLineRaises, Raises, Exit, history
<1>3. OpenConf \/ WriteConf \/ RestartWlan => replies' = replies
  BY DEF OpenConf, WriteConf, RestartWlan, history
<1>4. ReadLine => replies' = replies \/ replies' = 0
  BY DEF ReadLine, Dispatch, Exit, history
<1>5. SendWifiNetworksInfoToEsp8266 \/ ReplyError \/ Except =>
         replies' = replies \/ (cred' = cred /\ outcome' \in {"networks", "error"})
  BY DEF SendWifiNetworksInfoToEsp8266, ReplyError, Reply, Except, Write, Raises, Exit, history
<1>6. ReplyOk => replies' = replies \/ (cred' = cred /\ outcome' = "ok" /\ pc = "reply_ok")
  BY DEF ReplyOk, Reply, Write, history
<1> QED
  BY <1>1, <1>2, <1>3, <1>4, <1>5, <1>6 DEF Main

-----------------------------------------------------------------------------
(* The promise *)

\* What the phones may have been asked to send, and what may be said of a reply:
\* an "ok" is about credentials that took effect.
Requests(A) == {text \in Texts : text \in Credentials => text \in A}
Orders(A)   == {line \in Line : line \in Credentials => line \in A}
Truths(A)   == {part \in Part : part.line = "ok" => part.about \in A}
Reports(A)  == [kind : {"welcome", "pong", "line"}, parts : Seq(Truths(A))]

\* Every request on its way is one a phone asked for; so is the one the script
\* serves, and it took effect when "ok" is about to be written; every "ok" on its
\* way back, or sent to a phone, is about credentials that took effect.
RequestsAsked ==
    /\ inbox \in [Phones -> Seq(Requests(asked))]
    /\ sent \in [Phones -> Seq(Requests(asked))]
    /\ tx \in Seq(Requests(asked) \ {"ping"})
    /\ rx \in Seq(Orders(asked))
    /\ pc \in Updating => cred \in asked
RepliesTrue ==
    /\ pc = "reply_ok" => cred \in applied
    /\ down \in Seq(Truths(applied)) /\ uart \in Seq(Truths(applied))
    /\ outbox \in [Phones -> Seq(Reports(applied))]
PathInv ==
    /\ clients \subseteq Phones /\ asked \subseteq Credentials /\ applied \subseteq Credentials
    /\ RequestsAsked /\ RepliesTrue
SetupInv == TypeOK /\ ReplyInv /\ PathInv

\* Lines go away, from the front or all at once.
LEMMA LinesKept ==
    ASSUME NEW S, NEW s \in Seq(S), NEW t, t = s \/ t = <<>> \/ (s # <<>> /\ t = Tail(s))
    PROVE  t \in Seq(S)
<1>1. CASE t = s
  BY <1>1
<1>2. CASE t = <<>>
  BY <1>2
<1>3. CASE s # <<>> /\ t = Tail(s)
  BY <1>3
<1> QED
  BY <1>1, <1>2, <1>3

\* More is asked for and applied as time goes by: what was true stays so.
LEMMA RequestsMonotone ==
    ASSUME NEW A, NEW B, A \subseteq B
    PROVE  /\ Requests(A) \subseteq Requests(B)
           /\ Orders(A) \subseteq Orders(B)
BY DEF Requests, Orders

LEMMA ReportsMonotone ==
    ASSUME NEW A, NEW B, A \subseteq B
    PROVE  Truths(A) \subseteq Truths(B) /\ Reports(A) \subseteq Reports(B)
<1>1. Truths(A) \subseteq Truths(B)
  BY DEF Truths
<1>2. Seq(Truths(A)) \subseteq Seq(Truths(B))
  BY <1>1, SeqMonotonic
<1> QED
  BY <1>1, <1>2 DEF Reports

LEMMA SetupInitially == SetupInit => SetupInv
<1> SUFFICES ASSUME SetupInit PROVE SetupInv
  OBVIOUS
<1>1. TypeOK /\ ReplyInv
  BY TypeInit, ReplyInit DEF SetupInit
<1>2. pc = "check" /\ rx = <<>> /\ down = <<>> /\ asked = {} /\ applied = {}
  BY DEF SetupInit, Init
<1>3. RequestsAsked
  BY <1>2 DEF SetupInit, RelayInit, RequestsAsked, Updating
<1>4. RepliesTrue
  BY <1>2 DEF SetupInit, RelayInit, RepliesTrue
<1> QED
  BY <1>1, <1>2, <1>3, <1>4 DEF SetupInit, RelayInit, SetupInv, PathInv

LEMMA SetupScript == SetupInv /\ Script => SetupInv'
<1> SUFFICES ASSUME SetupInv, Script PROVE SetupInv'
  OBVIOUS
<1>1. TypeOK' /\ ReplyInv'
  BY TypeMain, ReplyMain DEF SetupInv, Script
<1>2. asked' = asked /\ UNCHANGED <<clients, inbox, outbox, tx, uart, sent>>
  BY DEF Script, relay
<1>3. RequestsAsked'
  <2>0. rx \in Seq(Orders(asked))
    BY DEF SetupInv, PathInv, RequestsAsked
  <2>1. rx' \in Seq(Orders(asked))
    <3>1. rx' = rx \/ rx' = <<>> \/ (rx # <<>> /\ rx' = Tail(rx))
      BY MainRequest DEF SetupInv, Script
    <3> QED
      BY <2>0, <3>1, LinesKept
  <2>2. pc' \in Updating => cred' \in asked
    <3>1. CASE pc \in Updating /\ cred' = cred
      BY <3>1 DEF SetupInv, PathInv, RequestsAsked
    <3>2. CASE rx # <<>> /\ cred' = Head(rx) /\ cred' \in Credentials
      <4>1. Head(rx) \in Orders(asked)
        BY <2>0, <3>2
      <4> QED
        BY <3>2, <4>1 DEF Orders
    <3> QED
      BY <3>1, <3>2, MainRequest DEF SetupInv, Script
  <2> QED
    BY <1>2, <2>1, <2>2 DEF SetupInv, PathInv, RequestsAsked
<1>4. applied \subseteq applied' /\ applied' \subseteq Credentials
      /\ (pc' = "reply_ok" => cred' \in applied')
  <2>1. CASE pc' = "reply_ok"
    <3>1. pc = "restart" /\ wlan' = conf /\ conf' = conf /\ cred' = cred
      BY <2>1, MainRequest DEF SetupInv, Script
    <3>2. conf = cred /\ cred \in asked /\ asked \subseteq Credentials
      BY <3>1 DEF SetupInv, ReplyInv, PathInv, RequestsAsked, Updating
    <3>3. applied' = applied \cup {wlan'}
      BY <2>1, <3>1 DEF Script
    <3> QED
      BY <3>1, <3>2, <3>3 DEF SetupInv, PathInv
  <2>2. CASE pc' # "reply_ok"
    BY <2>2 DEF Script, SetupInv, PathInv
  <2> QED
    BY <2>1, <2>2
<1>5. RepliesTrue'
  <2>1. /\ Truths(applied) \subseteq Truths(applied')
        /\ Reports(applied) \subseteq Reports(applied')
    BY <1>4, ReportsMonotone
  <2>2. uart' \in Seq(Truths(applied'))
    BY <1>2, <2>1, SeqMonotonic DEF SetupInv, PathInv, RepliesTrue
  <2>3. outbox' \in [Phones -> Seq(Reports(applied'))]
    BY <1>2, <2>1, SeqMonotonic DEF SetupInv, PathInv, RepliesTrue
  <2>4. down \in Seq(Truths(applied'))
    BY <2>1, SeqMonotonic DEF SetupInv, PathInv, RepliesTrue
  <2>5. down' \in Seq(Truths(applied'))
    <3>1. CASE replies' > replies
      <4>1. /\ outcome' \in {"networks", "ok", "error"} /\ cred' = cred
            /\ outcome' = "ok" => cred \in applied
        BY <3>1, MainReplies DEF SetupInv, PathInv, RepliesTrue, Script
      <4>2. cred \in Credentials \cup {None} /\ applied \subseteq applied'
        BY <1>4 DEF SetupInv, TypeOK
      <4>3. \A n \in {1, 2} : [line |-> outcome', about |-> cred, part |-> n] \in Truths(applied')
        BY <4>1, <4>2 DEF Truths, Part
      <4>4. Parts(outcome', cred) \in Seq(Truths(applied'))
        BY <4>3 DEF Parts
      <4>5. down' = down \o Parts(outcome', cred)
        BY <3>1 DEF Script
      <4> QED
        BY <2>4, <4>4, <4>5
    <3>2. CASE ~(replies' > replies)
      BY <2>4, <3>2 DEF Script
    <3> QED
      BY <3>1, <3>2
  <2> QED
    BY <1>4, <2>2, <2>3, <2>5 DEF RepliesTrue
<1> QED
  BY <1>1, <1>2, <1>3, <1>4, <1>5 DEF SetupInv, PathInv

\* A step of the rest of the path changes neither what is applied nor where the
\* script is.
LEMMA SetupDeliver == SetupInv /\ Deliver => SetupInv'
<1> SUFFICES ASSUME SetupInv, Deliver PROVE SetupInv'
  OBVIOUS
<1>1. /\ tx # <<>> /\ tx' = Tail(tx) /\ tx \in Seq(Requests(asked) \ {"ping"})
      /\ UNCHANGED <<clients, inbox, outbox, uart, sent, down, asked, applied>>
  BY DEF Deliver, SetupInv, PathInv, RequestsAsked
<1>2. tx' \in Seq(Requests(asked) \ {"ping"}) /\ Head(tx) \in Requests(asked) \ {"ping"}
  <2> DEFINE S == Requests(asked) \ {"ping"}
  <2>1. tx \in Seq(S)
    BY <1>1
  <2> HIDE DEF S
  <2>2. Head(tx) \in S /\ Tail(tx) \in Seq(S)
    BY <1>1, <2>1
  <2> QED
    BY <1>1, <2>2 DEF S
<1>3. Head(tx) \in Line /\ (Head(tx) \in Credentials => Head(tx) \in asked)
  BY <1>2, TextsAssumption DEF Requests
<1>4. CASE EspWrites(Head(tx))
  <2>1. EspSends
    BY <1>3, <1>4 DEF EspSends
  <2>2. TypeOK' /\ ReplyInv'
    BY <2>1, TypeEnvironment, ReplyOthers DEF SetupInv, Environment
  <2>3. rx' \in Seq(Orders(asked))
    <3>1. rx \in Seq(Orders(asked)) /\ rx' = Append(rx, Head(tx))
      BY <1>4 DEF EspWrites, SetupInv, PathInv, RequestsAsked
    <3>2. Head(tx) \in Orders(asked)
      BY <1>3 DEF Orders
    <3> QED
      BY <3>1, <3>2
  <2>4. UNCHANGED <<pc, cred>>
    BY <1>4 DEF EspWrites
  <2> QED
    BY <1>1, <1>2, <2>2, <2>3, <2>4 DEF SetupInv, PathInv, RequestsAsked, RepliesTrue
<1>5. CASE UNCHANGED vars
  BY <1>1, <1>2, <1>5 DEF SetupInv, PathInv, RequestsAsked, RepliesTrue, TypeOK, ReplyInv,
     AtMostOneReply, ConfirmedIsKept, vars, adapter, files, history
<1> QED
  BY <1>4, <1>5 DEF Deliver

\* Steps that leave the script alone keep what is known of it.
LEMMA ScriptUntouched ==
    ASSUME SetupInv, UNCHANGED vars PROVE TypeOK' /\ ReplyInv' /\ UNCHANGED <<rx, pc, cred>>
BY DEF SetupInv, TypeOK, ReplyInv, AtMostOneReply, ConfirmedIsKept, vars, adapter, files, history

LEMMA SetupTransfer == SetupInv /\ Transfer => SetupInv'
<1> SUFFICES ASSUME SetupInv, Transfer PROVE SetupInv'
  OBVIOUS
<1>1. TypeOK' /\ ReplyInv' /\ UNCHANGED <<rx, pc, cred>>
  BY ScriptUntouched DEF Transfer
<1>2. down' \in Seq(Truths(applied)) /\ uart' \in Seq(Truths(applied))
  BY DEF Transfer, SetupInv, PathInv, RepliesTrue
<1> QED
  BY <1>1, <1>2 DEF Transfer, SetupInv, PathInv, RequestsAsked, RepliesTrue

LEMMA SetupWatch == SetupInv /\ Watch => SetupInv'
<1> SUFFICES ASSUME SetupInv, Watch PROVE SetupInv'
  OBVIOUS
<1>1. TypeOK' /\ ReplyInv'
  BY TypeObserver, ReplyOthers DEF SetupInv, Watch
<1>2. (rx' = rx \/ rx' = <<>>) /\ UNCHANGED <<pc, cred>>
  BY DEF Watch, Observer, HandleAdd, HandleRemove, Take
<1>3. rx' \in Seq(Orders(asked))
  <2>1. rx \in Seq(Orders(asked))
    BY DEF SetupInv, PathInv, RequestsAsked
  <2> QED
    BY <1>2, <2>1, LinesKept
<1> QED
  BY <1>1, <1>2, <1>3 DEF Watch, relay, asks, SetupInv, PathInv, RequestsAsked, RepliesTrue

LEMMA SetupHardware == SetupInv /\ Hardware => SetupInv'
<1> SUFFICES ASSUME SetupInv, Hardware PROVE SetupInv'
  OBVIOUS
<1>1. TypeOK' /\ ReplyInv'
  BY TypeEnvironment, ReplyOthers DEF SetupInv, Hardware, Environment
<1>2. (rx' = rx \/ rx' = <<>>) /\ UNCHANGED <<pc, cred>>
  BY DEF Hardware, Plug, Unplug, PlugChange
<1>3. rx' \in Seq(Orders(asked))
  <2>1. rx \in Seq(Orders(asked))
    BY DEF SetupInv, PathInv, RequestsAsked
  <2> QED
    BY <1>2, <2>1, LinesKept
<1>4. down' \in Seq(Truths(applied))
  BY DEF Hardware, SetupInv, PathInv, RepliesTrue
<1> QED
  BY <1>1, <1>2, <1>3, <1>4 DEF Hardware, relay, asks, SetupInv, PathInv, RequestsAsked, RepliesTrue

\* One read takes a beginning of what was received and broadcasts it as one
\* message.
LEMMA ReadTakes ==
    ASSUME NEW S, uart \in Seq(S), RelayReads
    PROVE  \E n \in 1 .. Len(uart) :
              /\ BroadcastTxt(FromPi(SubSeq(uart, 1, n)))
              /\ SubSeq(uart, 1, n) \in Seq(S)
              /\ uart' = SubSeq(uart, n + 1, Len(uart)) /\ uart' \in Seq(S)
<1>1. uart # <<>> /\ Len(uart) \in Nat \ {0}
  BY DEF RelayReads, ReadString
<1>2. \A n \in 1 .. Len(uart) : /\ SubSeq(uart, 1, n) \in Seq(S)
                                /\ SubSeq(uart, n + 1, Len(uart)) \in Seq(S)
  BY <1>1, SubSeqIn
<1>3. CASE \E end \in Ends : /\ BroadcastTxt(FromPi(SubSeq(uart, 1, end)))
                             /\ uart' = SubSeq(uart, end + 1, Len(uart))
  <2>1. Ends \subseteq 1 .. Len(uart)
    BY DEF Ends
  <2> QED
    BY <1>2, <1>3, <2>1
<1>4. CASE BroadcastTxt(FromPi(uart)) /\ uart' = <<>>
  <2>1. SubSeq(uart, 1, Len(uart)) = uart
    BY SubSeqFull
  <2>2. SubSeq(uart, Len(uart) + 1, Len(uart)) = <<>>
    BY <1>1, SubSeqEmpty
  <2>3. Len(uart) \in 1 .. Len(uart)
    BY <1>1
  <2>4. /\ BroadcastTxt(FromPi(SubSeq(uart, 1, Len(uart))))
        /\ uart' = SubSeq(uart, Len(uart) + 1, Len(uart))
    BY <1>4, <2>1, <2>2
  <2> QED
    BY <1>2, <2>3, <2>4
<1> QED
  BY <1>3, <1>4 DEF RelayReads, ReadString

\* Sending a message of the right kind to some phones keeps what they were sent
\* in its type.
LEMMA Broadcasts ==
    ASSUME NEW S, NEW message \in S, outbox \in [Phones -> Seq(S)], BroadcastTxt(message)
    PROVE  outbox' \in [Phones -> Seq(S)]
<1>1. \A p \in Phones : outbox[p] \in Seq(S) /\ Append(outbox[p], message) \in Seq(S)
  OBVIOUS
<1> QED
  BY <1>1 DEF BroadcastTxt

LEMMA Sends ==
    ASSUME NEW S, NEW message \in S, outbox \in [Phones -> Seq(S)], NEW p \in Phones, SendTxt(p, message)
    PROVE  outbox' \in [Phones -> Seq(S)]
<1>1. Append(outbox[p], message) \in Seq(S)
  OBVIOUS
<1> QED
  BY <1>1 DEF SendTxt

LEMMA SetupRelayReads == SetupInv /\ RelayReads => SetupInv'
<1> SUFFICES ASSUME SetupInv, RelayReads PROVE SetupInv'
  OBVIOUS
<1>1. TypeOK' /\ ReplyInv' /\ UNCHANGED <<rx, pc, cred>>
  BY ScriptUntouched DEF RelayReads
<1>2. uart \in Seq(Truths(applied)) /\ outbox \in [Phones -> Seq(Reports(applied))]
  BY DEF SetupInv, PathInv, RepliesTrue
<1>3. PICK n \in 1 .. Len(uart) :
          /\ BroadcastTxt(FromPi(SubSeq(uart, 1, n)))
          /\ SubSeq(uart, 1, n) \in Seq(Truths(applied))
          /\ uart' \in Seq(Truths(applied))
  BY <1>2, ReadTakes
<1>4. FromPi(SubSeq(uart, 1, n)) \in Reports(applied)
  BY <1>3 DEF FromPi, Reports
<1>5. outbox' \in [Phones -> Seq(Reports(applied))]
  BY <1>2, <1>3, <1>4, Broadcasts
<1> QED
  BY <1>1, <1>3, <1>5 DEF RelayReads, ReadString, SetupInv, PathInv, RequestsAsked, RepliesTrue

\* What the sketch itself says to a phone says nothing of credentials.
LEMMA OwnWords == \A A : Welcome \in Reports(A) /\ Pong \in Reports(A)
BY DEF Welcome, Pong, Reports

LEMMA SetupRelays == ASSUME SetupInv, NEW p \in Phones, Relays(p) PROVE SetupInv'
<1>1. TypeOK' /\ ReplyInv' /\ UNCHANGED <<rx, pc, cred>>
  BY ScriptUntouched DEF Relays
<1>2. /\ inbox[p] \in Seq(Requests(asked)) /\ inbox[p] # <<>>
      /\ tx \in Seq(Requests(asked) \ {"ping"}) /\ outbox \in [Phones -> Seq(Reports(applied))]
  BY DEF Relays, Text, SetupInv, PathInv, RequestsAsked, RepliesTrue
<1>3. Tail(inbox[p]) \in Seq(Requests(asked)) /\ Head(inbox[p]) \in Requests(asked)
  BY <1>2
<1>4. inbox' \in [Phones -> Seq(Requests(asked))]
  BY <1>3 DEF Relays, Text, SetupInv, PathInv, RequestsAsked
<1>5. tx' \in Seq(Requests(asked) \ {"ping"}) /\ outbox' \in [Phones -> Seq(Reports(applied))]
  <2>1. CASE Head(inbox[p]) = "ping" /\ SendTxt(p, Pong) /\ UNCHANGED tx
    BY <1>2, <2>1, OwnWords, Sends
  <2>2. CASE Head(inbox[p]) # "ping" /\ tx' = Append(tx, Head(inbox[p])) /\ UNCHANGED outbox
    <3>1. Head(inbox[p]) \in Requests(asked) \ {"ping"}
      BY <1>3, <2>2
    <3> QED
      BY <1>2, <2>2, <3>1
  <2> QED
    BY <2>1, <2>2 DEF Relays, Text
<1> QED
  BY <1>1, <1>4, <1>5 DEF Relays, Text, asks, SetupInv, PathInv, RequestsAsked, RepliesTrue

\* A phone that sends credentials has asked for them; nothing else it does adds
\* to what was asked.
LEMMA SetupPhoneActs == ASSUME SetupInv, NEW p \in Phones, PhoneActs(p) PROVE SetupInv'
<1>1. TypeOK' /\ ReplyInv' /\ UNCHANGED <<rx, pc, cred>>
  BY ScriptUntouched DEF PhoneActs
<1>2. /\ inbox \in [Phones -> Seq(Requests(asked))] /\ sent \in [Phones -> Seq(Requests(asked))]
      /\ tx \in Seq(Requests(asked) \ {"ping"}) /\ outbox \in [Phones -> Seq(Reports(applied))]
      /\ rx \in Seq(Orders(asked)) /\ clients \subseteq Phones /\ asked \subseteq Credentials
  BY DEF SetupInv, PathInv, RequestsAsked, RepliesTrue
<1>3. asked \subseteq asked' /\ asked' \subseteq Credentials /\ UNCHANGED <<down, applied, uart, tx>>
  BY <1>2 DEF PhoneActs, Connected, Disconnected, PhoneSends
<1>4. Requests(asked) \subseteq Requests(asked') /\ Orders(asked) \subseteq Orders(asked')
  BY <1>3, RequestsMonotone
<1>5. /\ tx' \in Seq(Requests(asked') \ {"ping"}) /\ rx' \in Seq(Orders(asked'))
      /\ \A s \in Seq(Requests(asked)) : s \in Seq(Requests(asked'))
  <2>1. Requests(asked) \ {"ping"} \subseteq Requests(asked') \ {"ping"}
    BY <1>4
  <2>2. tx' \in Seq(Requests(asked') \ {"ping"})
    BY <1>2, <1>3, <2>1, SeqMonotonic
  <2>3. rx' \in Seq(Orders(asked'))
    BY <1>1, <1>2, <1>4, SeqMonotonic
  <2>4. \A s \in Seq(Requests(asked)) : s \in Seq(Requests(asked'))
    BY <1>4, SeqMonotonic
  <2> QED
    BY <2>2, <2>3, <2>4
<1>6. /\ clients' \subseteq Phones /\ outbox' \in [Phones -> Seq(Reports(applied))]
      /\ inbox' \in [Phones -> Seq(Requests(asked'))] /\ sent' \in [Phones -> Seq(Requests(asked'))]
  <2>0. /\ inbox \in [Phones -> Seq(Requests(asked'))]
        /\ sent \in [Phones -> Seq(Requests(asked'))]
    BY <1>2, <1>5
  <2>1. CASE Connected(p)
    <3>1. outbox' \in [Phones -> Seq(Reports(applied))]
      BY <1>2, <2>1, OwnWords, Sends DEF Connected
    <3> QED
      BY <1>2, <2>0, <2>1, <3>1 DEF Connected
  <2>2. CASE Disconnected(p)
    <3>1. <<>> \in Seq(Requests(asked'))
      OBVIOUS
    <3> QED
      BY <1>2, <2>0, <2>2, <3>1 DEF Disconnected
  <2>3. CASE PhoneSends(p)
    <3>1. PICK text \in Texts :
              /\ inbox' = [inbox EXCEPT ![p] = Append(@, text)]
              /\ sent' = [sent EXCEPT ![p] = Append(@, text)]
      BY <2>3 DEF PhoneSends
    <3>2. sent'[p] = Append(sent[p], text) /\ sent[p] \in Seq(Requests(asked))
      BY <1>2, <3>1
    <3>3. text \in {sent'[p][i] : i \in DOMAIN sent'[p]}
      <4>1. Len(sent[p]) + 1 \in DOMAIN sent'[p] /\ sent'[p][Len(sent[p]) + 1] = text
        BY <3>2
      <4> QED
        BY <4>1
    <3>4. text \in Requests(asked')
      BY <3>3 DEF Requests, PhoneActs
    <3>5. Append(inbox[p], text) \in Seq(Requests(asked')) /\ Append(sent[p], text) \in Seq(Requests(asked'))
      <4>1. inbox[p] \in Seq(Requests(asked')) /\ sent[p] \in Seq(Requests(asked'))
        BY <2>0
      <4> QED
        BY <3>4, <4>1
    <3> QED
      BY <1>2, <2>0, <2>3, <3>1, <3>5 DEF PhoneSends
  <2> QED
    BY <2>1, <2>2, <2>3 DEF PhoneActs
<1>7. pc' \in Updating => cred' \in asked'
  BY <1>1, <1>3 DEF SetupInv, PathInv, RequestsAsked
<1> QED
  BY <1>1, <1>3, <1>5, <1>6, <1>7 DEF SetupInv, PathInv, RequestsAsked, RepliesTrue

LEMMA SetupStutters == SetupInv /\ UNCHANGED all => SetupInv'
<1> SUFFICES ASSUME SetupInv, UNCHANGED all PROVE SetupInv'
  OBVIOUS
<1>1. TypeOK' /\ ReplyInv' /\ UNCHANGED <<rx, pc, cred>>
  BY ScriptUntouched DEF all
<1> QED
  BY <1>1 DEF all, relay, asks, SetupInv, PathInv, RequestsAsked, RepliesTrue

LEMMA SetupNextKeeps == SetupInv /\ [SetupNext]_all => SetupInv'
BY SetupScript, SetupDeliver, SetupTransfer, SetupRelayReads, SetupWatch, SetupHardware,
   SetupRelays, SetupPhoneActs, SetupStutters DEF SetupNext

\* Requests and replies stay true on the whole way, in every behaviour.
LEMMA SetupInductive == SetupSpec => []SetupInv
BY SetupInitially, SetupNextKeeps, PTL DEF SetupSpec

LEMMA SetupTypeFacts == SetupInv => SetupTypeOK
<1> SUFFICES ASSUME SetupInv PROVE SetupTypeOK
  OBVIOUS
<1>1. Requests(asked) \subseteq Texts /\ Truths(applied) \subseteq Part
  BY DEF Requests, Truths
<1>2. Reports(applied) \subseteq Message
  BY <1>1, SeqMonotonic DEF Reports, Message
<1>3. inbox \in [Phones -> Seq(Texts)] /\ sent \in [Phones -> Seq(Texts)]
  BY <1>1, SeqMonotonic DEF SetupInv, PathInv, RequestsAsked
<1>4. tx \in Seq(Texts \ {"ping"})
  BY <1>1, SeqMonotonic DEF SetupInv, PathInv, RequestsAsked
<1>5. uart \in Seq(Part) /\ down \in Seq(Part)
  BY <1>1, SeqMonotonic DEF SetupInv, PathInv, RepliesTrue
<1>6. outbox \in [Phones -> Seq(Message)]
  BY <1>2, SeqMonotonic DEF SetupInv, PathInv, RepliesTrue
<1> QED
  BY <1>3, <1>4, <1>5, <1>6 DEF SetupInv, PathInv, SetupTypeOK

\* Every variable of the path keeps its type, in every behaviour of phones, relay
\* and script (WebSocketServer3.ino and esp8266_proxy.py together).
THEOREM SetupTypeCorrect == SetupSpec => []SetupTypeOK
BY SetupTypeFacts, SetupInductive, PTL

-----------------------------------------------------------------------------
(* The refinement: each step of the path is a step of the promise or none. *)

\* One element more.
LEMMA AppendElements ==
    ASSUME NEW S, NEW s \in Seq(S), NEW e, NEW t, t = Append(s, e)
    PROVE  \A x : (\E i \in DOMAIN t : t[i] = x) <=> x = e \/ \E i \in DOMAIN s : s[i] = x
<1>1. /\ DOMAIN s = 1 .. Len(s) /\ DOMAIN t = 1 .. Len(s) + 1 /\ Len(s) \in Nat
      /\ t[Len(s) + 1] = e /\ \A i \in 1 .. Len(s) : t[i] = s[i]
  OBVIOUS
<1>2. ASSUME NEW i \in DOMAIN t PROVE t[i] = e \/ \E j \in DOMAIN s : s[j] = t[i]
  BY <1>1
<1>3. ASSUME NEW j \in DOMAIN s PROVE \E i \in DOMAIN t : t[i] = s[j]
  BY <1>1
<1>4. \E i \in DOMAIN t : t[i] = e
  BY <1>1
<1> QED
  BY <1>2, <1>3, <1>4

LEMMA AppendConfirms ==
    ASSUME NEW S, NEW s \in Seq(S), NEW e, NEW t, t = Append(s, e), NEW c
    PROVE  (\E i \in DOMAIN t : Confirms(t[i], c))
              <=> (\E i \in DOMAIN s : Confirms(s[i], c)) \/ Confirms(e, c)
BY AppendElements

\* What the phones read changes only with their outboxes.
LEMMA ConfirmedUnchanged == UNCHANGED outbox => UNCHANGED Confirmed
BY DEF Confirmed

\* A phone reads one message more, which confirms nothing: the sketch's own.
LEMMA ConfirmedBySends ==
    ASSUME outbox \in [Phones -> Seq(Message)], NEW p \in Phones,
           NEW message, message.kind # "line", SendTxt(p, message)
    PROVE  UNCHANGED Confirmed
<1>1. /\ \A q \in Phones : outbox[q] \in Seq(Message)
      /\ \A q \in Phones : outbox'[q] = IF q = p THEN Append(outbox[q], message) ELSE outbox[q]
  BY DEF SendTxt
<1>2. ASSUME NEW q \in Phones, NEW c
      PROVE  (\E i \in DOMAIN outbox'[q] : Confirms(outbox'[q][i], c))
                <=> (\E i \in DOMAIN outbox[q] : Confirms(outbox[q][i], c))
  <2>1. CASE q # p
    BY <1>1, <2>1
  <2>2. CASE q = p
    <3>1. outbox[q] \in Seq(Message) /\ outbox'[q] = Append(outbox[q], message)
      BY <1>1, <2>2
    <3>2. (\E i \in DOMAIN outbox'[q] : Confirms(outbox'[q][i], c))
             <=> (\E i \in DOMAIN outbox[q] : Confirms(outbox[q][i], c)) \/ Confirms(message, c)
      BY <3>1, AppendConfirms
    <3>3. ~Confirms(message, c)
      BY DEF Confirms
    <3> QED
      BY <3>2, <3>3
  <2> QED
    BY <2>1, <2>2
<1> QED
  BY <1>2 DEF Confirmed

\* A broadcast confirms at most what its message confirms.
LEMMA ConfirmedByBroadcast ==
    ASSUME outbox \in [Phones -> Seq(Message)], NEW message, BroadcastTxt(message), NEW c
    PROVE  c \in Confirmed' <=>
              \/ c \in Confirmed
              \/ c \in Credentials \cup {None} /\ Confirms(message, c) /\ clients \cap Phones # {}
<1>1. /\ \A q \in Phones : outbox[q] \in Seq(Message)
      /\ \A q \in Phones : outbox'[q] = IF q \in clients THEN Append(outbox[q], message) ELSE outbox[q]
  BY DEF BroadcastTxt
<1>2. ASSUME NEW q \in Phones
      PROVE  (\E i \in DOMAIN outbox'[q] : Confirms(outbox'[q][i], c))
                <=> \/ \E i \in DOMAIN outbox[q] : Confirms(outbox[q][i], c)
                    \/ q \in clients /\ Confirms(message, c)
  <2>1. CASE q \notin clients
    BY <1>1, <2>1
  <2>2. CASE q \in clients
    <3>1. outbox[q] \in Seq(Message) /\ outbox'[q] = Append(outbox[q], message)
      BY <1>1, <2>2
    <3> QED
      BY <2>2, <3>1, AppendConfirms
  <2> QED
    BY <2>1, <2>2
<1> QED
  BY <1>2 DEF Confirmed

\* The script's step applies the credentials it serves, which a phone asked for.
LEMMA ScriptApplies == SetupInv /\ Script => Promise!Apply \/ UNCHANGED <<asked, applied, Confirmed>>
<1> SUFFICES ASSUME SetupInv, Script PROVE Promise!Apply \/ UNCHANGED <<asked, applied, Confirmed>>
  OBVIOUS
<1>1. UNCHANGED <<asked, Confirmed>>
  BY ConfirmedUnchanged DEF Script, relay
<1>2. CASE pc = "restart" /\ pc' = "reply_ok" /\ wlan' = conf'
  <2>1. wlan' = conf /\ conf = cred /\ cred \in asked
    BY <1>2, MainRequest DEF Script, SetupInv, ReplyInv, PathInv, RequestsAsked, Updating
  <2>2. wlan' \in asked /\ applied' = applied \cup {wlan'}
    BY <1>2, <2>1 DEF Script
  <2> QED
    BY <1>1, <2>2 DEF Promise!Apply
<1>3. CASE ~(pc = "restart" /\ pc' = "reply_ok" /\ wlan' = conf')
  BY <1>1, <1>3 DEF Script
<1> QED
  BY <1>2, <1>3

\* A phone's step asks for one pair of credentials, or for nothing.
LEMMA PhoneAsks ==
    ASSUME SetupInv, NEW p \in Phones, PhoneActs(p)
    PROVE  Promise!Ask \/ UNCHANGED <<asked, applied, Confirmed>>
<1>1. /\ outbox \in [Phones -> Seq(Message)] /\ applied' = applied
      /\ asked' = asked \cup ({sent'[p][i] : i \in DOMAIN sent'[p]} \cap Credentials)
  BY SetupTypeFacts DEF PhoneActs, SetupTypeOK
<1>2. UNCHANGED Confirmed
  <2>1. CASE Connected(p)
    <3>1. SendTxt(p, Welcome) /\ Welcome.kind # "line"
      BY <2>1 DEF Connected, Welcome
    <3> QED
      BY <1>1, <3>1, ConfirmedBySends
  <2>2. CASE Disconnected(p) \/ PhoneSends(p)
    BY <2>2, ConfirmedUnchanged DEF Disconnected, PhoneSends
  <2> QED
    BY <2>1, <2>2 DEF PhoneActs
<1>3. sent[p] \in Seq(Requests(asked)) /\ sent \in [Phones -> Seq(Requests(asked))]
  BY DEF SetupInv, PathInv, RequestsAsked
<1>4. \A i \in DOMAIN sent[p] : sent[p][i] \in Credentials => sent[p][i] \in asked
  <2>1. \A i \in DOMAIN sent[p] : sent[p][i] \in Requests(asked)
    BY <1>3
  <2> QED
    BY <2>1 DEF Requests
<1>5. CASE Connected(p) \/ Disconnected(p)
  <2>1. sent' = sent
    BY <1>5 DEF Connected, Disconnected
  <2>2. asked' = asked
    BY <1>1, <1>4, <2>1
  <2> QED
    BY <1>1, <1>2, <2>2
<1>6. CASE PhoneSends(p)
  <2>1. PICK text \in Texts : sent' = [sent EXCEPT ![p] = Append(@, text)]
    BY <1>6 DEF PhoneSends
  <2>2. sent'[p] = Append(sent[p], text)
    BY <1>3, <2>1
  <2>3. \A x : (\E i \in DOMAIN sent'[p] : sent'[p][i] = x)
                  <=> x = text \/ \E i \in DOMAIN sent[p] : sent[p][i] = x
    BY <1>3, <2>2, AppendElements
  <2>4. asked' = asked \cup ({text} \cap Credentials)
    BY <1>1, <1>4, <2>3
  <2>5. CASE text \in Credentials
    <3>1. asked' = asked \cup {text}
      BY <2>4, <2>5
    <3> QED
      BY <1>1, <1>2, <2>5, <3>1 DEF Promise!Ask
  <2>6. CASE text \notin Credentials
    <3>1. asked' = asked
      BY <2>4, <2>6
    <3> QED
      BY <1>1, <1>2, <3>1
  <2> QED
    BY <2>5, <2>6
<1> QED
  BY <1>5, <1>6 DEF PhoneActs

\* A read of the relay tells the phones what the message confirms: credentials
\* that took effect.
LEMMA RelayTells == SetupInv /\ RelayReads => Promise!Tell \/ UNCHANGED <<asked, applied, Confirmed>>
<1> SUFFICES ASSUME SetupInv, RelayReads PROVE Promise!Tell \/ UNCHANGED <<asked, applied, Confirmed>>
  OBVIOUS
<1>1. outbox \in [Phones -> Seq(Message)] /\ UNCHANGED <<asked, applied>>
  BY SetupTypeFacts DEF RelayReads, SetupTypeOK
<1>2. uart \in Seq(Truths(applied))
  BY DEF SetupInv, PathInv, RepliesTrue
<1>3. PICK parts \in Seq(Truths(applied)) : BroadcastTxt(FromPi(parts))
  BY <1>2, ReadTakes
<1>4. \A c : Confirms(FromPi(parts), c) => c = parts[1].about /\ c \in applied
  <2> SUFFICES ASSUME NEW c, Confirms(FromPi(parts), c) PROVE c = parts[1].about /\ c \in applied
    OBVIOUS
  <2>1. Len(parts) = 2 /\ parts[1].line = "ok" /\ parts[1].about = c
    BY DEF Confirms, Whole, FromPi
  <2>2. parts[1] \in Truths(applied)
    BY <1>3, <2>1
  <2> QED
    BY <2>1, <2>2 DEF Truths
<1>5. CASE \E c \in Credentials \cup {None} : Confirms(FromPi(parts), c) /\ clients \cap Phones # {}
  <2>1. PICK c \in Credentials \cup {None} : Confirms(FromPi(parts), c) /\ clients \cap Phones # {}
    BY <1>5
  <2>2. \A d : d \in Confirmed' <=> d \in Confirmed \/ d = c
    BY <1>1, <1>3, <1>4, <2>1, ConfirmedByBroadcast
  <2>3. Confirmed' = Confirmed \cup {c}
    BY <2>2
  <2>4. c \in applied
    BY <1>4, <2>1
  <2> QED
    BY <1>1, <2>3, <2>4 DEF Promise!Tell
<1>6. CASE ~\E c \in Credentials \cup {None} : Confirms(FromPi(parts), c) /\ clients \cap Phones # {}
  <2>1. \A d : d \in Confirmed' <=> d \in Confirmed
    BY <1>1, <1>3, <1>6, ConfirmedByBroadcast
  <2>2. Confirmed' = Confirmed
    BY <2>1
  <2> QED
    BY <1>1, <2>2
<1> QED
  BY <1>5, <1>6

\* The other steps change nothing the promise speaks of.
LEMMA OthersStutter ==
    ASSUME SetupInv, Deliver \/ Transfer \/ Watch \/ Hardware \/ (\E p \in Phones : Relays(p)) \/ UNCHANGED all
    PROVE  UNCHANGED <<asked, applied, Confirmed>>
<1>1. UNCHANGED <<asked, applied>>
  BY DEF Deliver, Transfer, Watch, Hardware, Relays, asks, all
<1>2. CASE Deliver \/ Transfer \/ Watch \/ Hardware \/ UNCHANGED all
  <2>1. UNCHANGED outbox
    BY <1>2 DEF Deliver, Transfer, Watch, Hardware, relay, all
  <2> QED
    BY <1>1, <2>1, ConfirmedUnchanged
<1>3. ASSUME NEW p \in Phones, Relays(p) PROVE UNCHANGED Confirmed
  <2>1. CASE UNCHANGED outbox
    BY <2>1, ConfirmedUnchanged
  <2>2. CASE SendTxt(p, Pong)
    <3>1. Pong.kind # "line"
      BY DEF Pong
    <3> QED
      BY <2>2, <3>1, SetupTypeFacts, ConfirmedBySends DEF SetupTypeOK
  <2> QED
    BY <1>3, <2>1, <2>2 DEF Relays, Text
<1> QED
  BY <1>1, <1>2, <1>3

\* The relay and the script implement the promise: in no order of requests of any
\* number of phones, failures, plug changes and half lines does a phone read "ok"
\* about credentials that did not take effect, or do credentials take effect that
\* no phone asked for.
THEOREM SetupImplementsProvisioning == SetupSpec => ImplementsProvisioning
<1>1. SetupInit => Promise!Init
  <2> SUFFICES ASSUME SetupInit PROVE Promise!Init
    OBVIOUS
  <2>1. \A p \in Phones : outbox[p] = <<>>
    BY DEF SetupInit, RelayInit
  <2>2. Confirmed = {}
    BY <2>1 DEF Confirmed
  <2> QED
    BY <2>2 DEF SetupInit, Promise!Init
<1>2. SetupInv /\ [SetupNext]_all => [Promise!Next]_<<asked, applied, Confirmed>>
  BY ScriptApplies, PhoneAsks, RelayTells, OthersStutter DEF SetupNext, Promise!Next
<1> QED
  BY <1>1, <1>2, SetupInductive, PTL DEF SetupSpec, ImplementsProvisioning, Promise!Spec

-----------------------------------------------------------------------------
(* Lines stay whole *)

\* A stream of whole lines: a first part has its second behind it, a second part
\* a first before it.
Paired(s) ==
    \A i \in 1 .. Len(s) :
        \/ s[i].part = 1 /\ i < Len(s) /\ s[i + 1] = [s[i] EXCEPT !.part = 2]
        \/ s[i].part = 2 /\ i > 1 /\ s[i - 1].part = 1

\* While the adapter was not touched, what is received and what still waits in
\* the adapter are whole lines together, wherever the transfer has come to.
WholeInv == LinesAreWhole /\ (used.plugs = 0 => Paired(uart \o down))

\* Transferring a part does not change the stream.
LEMMA TransferKeepsStream ==
    ASSUME NEW S, NEW u \in Seq(S), NEW d \in Seq(S), d # <<>>
    PROVE  Append(u, Head(d)) \o Tail(d) = u \o d
<1>1. Head(d) \in S /\ Head(d) = d[1] /\ Tail(d) \in Seq(S) /\ Len(d) \in Nat \ {0}
  BY HeadTailProperties, EmptySeq
<1>2. SubSeq(d, 1, Len(d)) = <<d[1]>> \o SubSeq(d, 2, Len(d))
  BY <1>1, SubSeqRecursiveFirst
<1>3. d = <<Head(d)>> \o Tail(d)
  BY <1>1, <1>2, SubSeqFull, TailIsSubSeq
<1>4. Append(u, Head(d)) = u \o <<Head(d)>> /\ <<Head(d)>> \in Seq(S)
  BY <1>1, AppendIsConcat
<1>5. (u \o <<Head(d)>>) \o Tail(d) = u \o (<<Head(d)>> \o Tail(d))
  BY <1>1, <1>4, ConcatAssociative
<1> QED
  BY <1>3, <1>4, <1>5

\* A reply is a whole line behind the others.
LEMMA PairedReply ==
    ASSUME NEW s \in Seq(Part), Paired(s), NEW reply, NEW about, Parts(reply, about) \in Seq(Part),
           NEW t, t = s \o Parts(reply, about)
    PROVE  Paired(t)
<1> DEFINE P == Parts(reply, about)
<1>1. /\ Len(P) = 2 /\ P[1].part = 1 /\ P[2].part = 2 /\ P[2] = [P[1] EXCEPT !.part = 2]
  BY DEF Parts
<1> HIDE DEF P
<1>2. /\ Len(s) \in Nat /\ Len(t) = Len(s) + 2
      /\ \A i \in 1 .. Len(s) : t[i] = s[i]
      /\ t[Len(s) + 1] = P[1] /\ t[Len(s) + 2] = P[2]
  <2>1. P \in Seq(Part) /\ t = s \o P /\ Len(s) \in Nat
    BY LenProperties DEF P
  <2>2. /\ Len(t) = Len(s) + Len(P)
        /\ \A i \in 1 .. Len(s) + Len(P) : t[i] = IF i <= Len(s) THEN s[i] ELSE P[i - Len(s)]
    BY <2>1, ConcatProperties
  <2>3. /\ Len(s) + 1 \in 1 .. Len(s) + 2 /\ ~(Len(s) + 1 <= Len(s)) /\ Len(s) + 1 - Len(s) = 1
        /\ Len(s) + 2 \in 1 .. Len(s) + 2 /\ ~(Len(s) + 2 <= Len(s)) /\ Len(s) + 2 - Len(s) = 2
        /\ \A i \in 1 .. Len(s) : i \in 1 .. Len(s) + 2 /\ i <= Len(s)
    BY <2>1
  <2> QED
    BY <1>1, <2>1, <2>2, <2>3
<1> SUFFICES ASSUME NEW i \in 1 .. Len(t)
             PROVE  \/ t[i].part = 1 /\ i < Len(t) /\ t[i + 1] = [t[i] EXCEPT !.part = 2]
                    \/ t[i].part = 2 /\ i > 1 /\ t[i - 1].part = 1
  BY DEF Paired
<1>3. CASE i \in 1 .. Len(s)
  <2>1. CASE s[i].part = 1 /\ i < Len(s) /\ s[i + 1] = [s[i] EXCEPT !.part = 2]
    <3>1. i + 1 \in 1 .. Len(s) /\ i < Len(t)
      BY <1>2, <1>3, <2>1
    <3> QED
      BY <1>2, <1>3, <2>1, <3>1
  <2>2. CASE s[i].part = 2 /\ i > 1 /\ s[i - 1].part = 1
    <3>1. i - 1 \in 1 .. Len(s)
      BY <1>2, <1>3, <2>2
    <3> QED
      BY <1>2, <1>3, <2>2, <3>1
  <2> QED
    BY <1>3, <2>1, <2>2 DEF Paired
<1>4. CASE i = Len(s) + 1
  <2>1. i < Len(t) /\ i + 1 = Len(s) + 2
    BY <1>2, <1>4
  <2>2. t[i] = P[1] /\ t[i + 1] = P[2]
    BY <1>2, <1>4, <2>1
  <2> QED
    BY <1>1, <2>1, <2>2
<1>5. CASE i = Len(s) + 2
  <2>1. i > 1 /\ i - 1 = Len(s) + 1
    BY <1>2, <1>5
  <2>2. t[i] = P[2] /\ t[i - 1] = P[1]
    BY <1>2, <1>5, <2>1
  <2> QED
    BY <1>1, <2>1, <2>2
<1>6. i \in 1 .. Len(s) \/ i = Len(s) + 1 \/ i = Len(s) + 2
  BY <1>2
<1> QED
  BY <1>3, <1>4, <1>5, <1>6

\* A read that finds the end of a line takes one whole line, and leaves whole
\* lines.
LEMMA PairedRead ==
    ASSUME NEW u \in Seq(Part), NEW d \in Seq(Part), Paired(u \o d),
           NEW n \in 1 .. Len(u), u[n].part = 2, \A i \in 1 .. Len(u) : u[i].part = 2 => n <= i
    PROVE  /\ n = 2 /\ u[1].part = 1 /\ u[2] = [u[1] EXCEPT !.part = 2]
           /\ Paired(SubSeq(u, n + 1, Len(u)) \o d)
<1> DEFINE s == u \o d
<1>1. /\ Len(u) \in Nat /\ Len(d) \in Nat /\ s \in Seq(Part) /\ Len(s) = Len(u) + Len(d)
      /\ \A i \in 1 .. Len(u) + Len(d) : s[i] = IF i <= Len(u) THEN u[i] ELSE d[i - Len(u)]
  BY ConcatProperties, LenProperties
<1>2. Paired(s)
  OBVIOUS
<1> HIDE DEF s
<1>3. \A i \in 1 .. Len(u) : i \in 1 .. Len(s) /\ s[i] = u[i]
  BY <1>1
<1>4. s[1].part = 1 /\ 1 < Len(s) /\ s[2] = [s[1] EXCEPT !.part = 2]
  <2>1. 1 \in 1 .. Len(s) /\ 1 + 1 = 2 /\ ~(1 > 1)
    BY <1>1
  <2>2. \/ s[1].part = 1 /\ 1 < Len(s) /\ s[1 + 1] = [s[1] EXCEPT !.part = 2]
        \/ s[1].part = 2 /\ 1 > 1 /\ s[1 - 1].part = 1
    BY <1>2, <2>1 DEF Paired
  <2> QED
    BY <2>1, <2>2
<1>5. n # 1
  BY <1>1, <1>3, <1>4
<1>6. s[1] \in Part
  BY <1>1, <1>4, ElementOfSeq
<1>7. s[2].part = 2
  BY <1>4, <1>6 DEF Part
<1>8. 2 \in 1 .. Len(u) /\ n = 2
  <2>1. n >= 2 /\ 2 \in 1 .. Len(u)
    BY <1>1, <1>5
  <2>2. u[2].part = 2
    BY <1>3, <1>7, <2>1
  <2> QED
    BY <2>1, <2>2
<1>9. u[1].part = 1 /\ u[2] = [u[1] EXCEPT !.part = 2]
  <2>1. 1 \in 1 .. Len(u)
    BY <1>8
  <2>2. s[1] = u[1] /\ s[2] = u[2]
    BY <1>3, <1>8, <2>1
  <2> QED
    BY <1>4, <2>2
<1> DEFINE v == SubSeq(u, 3, Len(u))
           r == v \o d
<1>10. v \in Seq(Part) /\ Len(v) = Len(u) - 2 /\ \A i \in 1 .. Len(u) - 2 : v[i] = u[i + 2]
  <2>1. \A i \in 3 .. Len(u) : u[i] \in Part
    BY ElementOfSeq
  <2>2. /\ v \in Seq(Part)
        /\ Len(v) = IF 3 <= Len(u) THEN Len(u) - 3 + 1 ELSE 0
        /\ \A i \in 1 .. Len(u) - 3 + 1 : v[i] = u[3 + i - 1]
    BY <1>1, <2>1, SubSeqProperties
  <2> HIDE DEF v
  <2>0. /\ Len(u) \in Nat /\ Len(u) - 3 + 1 = Len(u) - 2
        /\ ~(3 <= Len(u)) => Len(u) - 2 = 0
    <3>1. Len(u) \in Nat
      BY <1>1
    <3>2. Len(u) >= 2
      BY <1>8
    <3>3. \A k \in Nat : k >= 2 => k - 3 + 1 = k - 2 /\ (~(3 <= k) => k - 2 = 0)
      OBVIOUS
    <3> QED
      BY <3>1, <3>2, <3>3
  <2>3. Len(v) = Len(u) - 2 /\ Len(u) - 3 + 1 = Len(u) - 2
    <3>1. Len(v) = IF 3 <= Len(u) THEN Len(u) - 3 + 1 ELSE 0
      BY <2>2
    <3> QED
      BY <2>0, <3>1
  <2>4. ASSUME NEW i \in 1 .. Len(u) - 2 PROVE v[i] = u[i + 2]
    <3>1. 3 + i - 1 = i + 2
      OBVIOUS
    <3> QED
      BY <2>2, <2>3, <3>1
  <2>5. v \in Seq(Part)
    BY <2>2
  <2> QED
    BY <2>3, <2>4, <2>5
<1> HIDE DEF v
<1>11. /\ Len(r) = Len(s) - 2
       /\ \A i \in 1 .. Len(s) - 2 : r[i] = s[i + 2]
  <2>1. /\ Len(r) = Len(v) + Len(d)
        /\ \A i \in 1 .. Len(v) + Len(d) : r[i] = IF i <= Len(v) THEN v[i] ELSE d[i - Len(v)]
    BY <1>10, ConcatProperties
  <2> HIDE DEF r
  <2>2. ASSUME NEW i \in 1 .. Len(s) - 2 PROVE r[i] = s[i + 2]
    <3>1. r[i] = (IF i <= Len(v) THEN v[i] ELSE d[i - Len(v)])
      BY <1>1, <1>8, <1>10, <2>1
    <3>2. i + 2 \in 1 .. Len(u) + Len(d) /\ i \in Int
      BY <1>1
    <3>3. s[i + 2] = IF i + 2 <= Len(u) THEN u[i + 2] ELSE d[i + 2 - Len(u)]
      BY <1>1, <3>2
    <3>4. CASE i <= Len(u) - 2
      BY <1>1, <1>10, <3>1, <3>2, <3>3, <3>4
    <3>5. CASE i > Len(u) - 2
      <4>1. i - Len(v) = i + 2 - Len(u)
        BY <1>1, <1>10, <3>2
      <4> QED
        BY <1>1, <1>10, <3>1, <3>2, <3>3, <3>5, <4>1
    <3> QED
      BY <1>1, <3>2, <3>4, <3>5
  <2> QED
    BY <1>1, <1>10, <2>1, <2>2
<1> HIDE DEF r
<1>12. Paired(r)
  <2> SUFFICES ASSUME NEW i \in 1 .. Len(r)
               PROVE  \/ r[i].part = 1 /\ i < Len(r) /\ r[i + 1] = [r[i] EXCEPT !.part = 2]
                      \/ r[i].part = 2 /\ i > 1 /\ r[i - 1].part = 1
    BY DEF Paired
  <2>1. Len(s) \in Nat /\ i + 2 \in 1 .. Len(s) /\ r[i] = s[i + 2] /\ i \in Int
    BY <1>1, <1>11
  <2>2. CASE s[i + 2].part = 1 /\ i + 2 < Len(s) /\ s[i + 2 + 1] = [s[i + 2] EXCEPT !.part = 2]
    <3>1. i + 1 \in 1 .. Len(s) - 2 /\ i < Len(r) /\ i + 1 + 2 = i + 2 + 1
      BY <1>11, <2>1, <2>2
    <3> QED
      BY <1>11, <2>1, <2>2, <3>1
  <2>3. CASE s[i + 2].part = 2 /\ i + 2 > 1 /\ s[i + 2 - 1].part = 1
    <3>1. i # 1
      BY <1>7, <2>3
    <3>2. i > 1 /\ i - 1 \in 1 .. Len(s) - 2 /\ i - 1 + 2 = i + 2 - 1
      BY <1>11, <2>1, <3>1
    <3> QED
      BY <1>11, <2>1, <2>3, <3>2
  <2> QED
    BY <1>2, <2>1, <2>2, <2>3 DEF Paired
<1> QED
  BY <1>8, <1>9, <1>12 DEF r, v

\* A stream of whole lines is no half line: while nothing more is to come, the
\* second of silence never passes with something received.
LEMMA PairedHasEnd ==
    ASSUME NEW u \in Seq(Part), Paired(u), u # <<>>
    PROVE  \E i \in 1 .. Len(u) : u[i].part = 2
<1>1. Len(u) \in Nat \ {0} /\ 1 \in 1 .. Len(u)
  BY EmptySeq
<1>2. u[1] \in Part
  BY <1>1, ElementOfSeq
<1>3. CASE u[1].part = 1 /\ 1 < Len(u) /\ u[1 + 1] = [u[1] EXCEPT !.part = 2]
  <2>1. 1 + 1 \in 1 .. Len(u)
    BY <1>1, <1>3
  <2>2. u[1 + 1].part = 2
    BY <1>2, <1>3 DEF Part
  <2> QED
    BY <2>1, <2>2
<1>4. CASE u[1].part = 2
  BY <1>1, <1>4
<1> QED
  BY <1>1, <1>3, <1>4 DEF Paired

\* Every message a phone was sent that is a line is a whole one.
AllWhole(box) ==
    \A p \in Phones : \A i \in DOMAIN box[p] : box[p][i].kind = "line" => Whole(box[p][i])

\* Messages that are no lines, or whole ones, keep the outboxes whole.
LEMMA AppendsWhole ==
    ASSUME NEW S, outbox \in [Phones -> Seq(S)], AllWhole(outbox), NEW message,
           message.kind = "line" => Whole(message),
           \A p \in Phones : outbox'[p] = outbox[p] \/ outbox'[p] = Append(outbox[p], message)
    PROVE  AllWhole(outbox')
<1> SUFFICES ASSUME NEW p \in Phones, NEW i \in DOMAIN outbox'[p], outbox'[p][i].kind = "line"
             PROVE  Whole(outbox'[p][i])
  BY DEF AllWhole
<1>1. CASE outbox'[p] = outbox[p]
  BY <1>1 DEF AllWhole
<1>2. CASE outbox'[p] = Append(outbox[p], message)
  <2>1. outbox'[p][i] = message \/ \E j \in DOMAIN outbox[p] : outbox[p][j] = outbox'[p][i]
    BY <1>2, AppendElements
  <2>2. CASE outbox'[p][i] = message
    BY <2>2
  <2>3. CASE \E j \in DOMAIN outbox[p] : outbox[p][j] = outbox'[p][i]
    BY <2>3 DEF AllWhole
  <2> QED
    BY <2>1, <2>2, <2>3
<1> QED
  BY <1>1, <1>2

\* Only the adapter's own changes count as such.
LEMMA PlugsKept ==
    ASSUME SetupInv, [SetupNext]_all, ~Hardware
    PROVE  used'.plugs = used.plugs
<1>1. used \in [lines : Nat, plugs : Nat, cuts : Nat]
  BY DEF SetupInv, TypeOK
<1>2. Main => used' = used
  <2>1. CheckForhL340PluggedIn \/ ObserverStart \/ IsOpen \/ ReadLineRaises => used' = used
    BY DEF CheckForhL340PluggedIn, ObserverStart, IsOpen, ReadLineRaises, Raises, Exit
  <2>2. OpenConf \/ WriteConf \/ RestartWlan => used' = used
    BY DEF OpenConf, WriteConf, RestartWlan
  <2>3. ReadLine => used' = used
    BY DEF ReadLine, Dispatch, Exit
  <2>4. SendWifiNetworksInfoToEsp8266 \/ ReplyOk \/ ReplyError \/ Except => used' = used
    BY DEF SendWifiNetworksInfoToEsp8266, ReplyOk, ReplyError, Reply, Except, Write, Raises, Exit
  <2> QED
    BY <2>1, <2>2, <2>3, <2>4 DEF Main
<1>3. Deliver => used'.plugs = used.plugs
  BY <1>1 DEF Deliver, EspWrites, vars
<1>4. Script \/ Watch => used' = used
  BY <1>2 DEF Script, Watch, Observer, HandleAdd, HandleRemove, Take
<1>5. Transfer \/ RelayReads \/ (\E p \in Phones : PhoneActs(p) \/ Relays(p)) \/ UNCHANGED all
         => used' = used
  BY DEF Transfer, RelayReads, PhoneActs, Relays, all, vars
<1> QED
  BY <1>3, <1>4, <1>5 DEF SetupNext

LEMMA WholeNext == SetupInv /\ WholeInv /\ [SetupNext]_all => WholeInv'
<1> SUFFICES ASSUME SetupInv, WholeInv, [SetupNext]_all, used'.plugs = 0
             PROVE  AllWhole(outbox') /\ Paired(uart' \o down')
  BY DEF WholeInv, LinesAreWhole, AllWhole
<1>1. ~Hardware
  <2>1. used \in [lines : Nat, plugs : Nat, cuts : Nat]
    BY DEF SetupInv, TypeOK
  <2>2. Hardware => used' = [used EXCEPT !.plugs = @ + 1]
    BY DEF Hardware, Plug, Unplug, PlugChange
  <2> QED
    BY <2>1, <2>2
<1>2. AllWhole(outbox) /\ Paired(uart \o down)
  BY <1>1, PlugsKept DEF WholeInv, LinesAreWhole, AllWhole
<1>3. uart \in Seq(Part) /\ down \in Seq(Part) /\ outbox \in [Phones -> Seq(Message)]
  BY SetupTypeFacts DEF SetupTypeOK
<1>4. CASE Script
  <2>1. uart' = uart /\ outbox' = outbox
    BY <1>4 DEF Script, relay
  <2>2. CASE replies' > replies
    <3>1. outcome' \in {"networks", "ok", "error"} /\ cred \in Credentials \cup {None}
      BY <1>4, <2>2, MainReplies DEF Script, SetupInv, TypeOK
    <3>2. Parts(outcome', cred) \in Seq(Part)
      BY <3>1 DEF Parts, Part
    <3>3. down' = down \o Parts(outcome', cred)
      BY <1>4, <2>2 DEF Script
    <3>4. uart \o down' = (uart \o down) \o Parts(outcome', cred) /\ uart \o down \in Seq(Part)
      BY <1>3, <3>2, <3>3, ConcatAssociative, ConcatProperties
    <3> QED
      BY <1>2, <2>1, <3>2, <3>4, PairedReply
  <2>3. CASE ~(replies' > replies)
    BY <1>2, <1>4, <2>1, <2>3 DEF Script
  <2> QED
    BY <2>2, <2>3
<1>5. CASE Deliver \/ Watch \/ UNCHANGED all
  BY <1>2, <1>5 DEF Deliver, Watch, relay, all
<1>6. CASE Transfer
  <2>1. down # <<>> /\ uart' = Append(uart, Head(down)) /\ down' = Tail(down) /\ outbox' = outbox
    BY <1>6 DEF Transfer
  <2> QED
    BY <1>2, <1>3, <2>1, TransferKeepsStream
<1>7. CASE RelayReads
  <2>1. uart # <<>> /\ down' = down /\ Ends = {i \in 1 .. Len(uart) : uart[i].part = 2}
    BY <1>3, <1>7 DEF RelayReads, ReadString, Ends
  <2>2. ~(Ends = {} /\ down = <<>>)
    <3>1. CASE down = <<>>
      <4>1. uart \o down = uart
        BY <1>3, <3>1, ConcatEmptySeq
      <4> QED
        BY <1>2, <1>3, <2>1, <4>1, PairedHasEnd
    <3> QED
      BY <3>1
  <2>3. PICK n \in Ends :
            /\ \A i \in Ends : n <= i
            /\ BroadcastTxt(FromPi(SubSeq(uart, 1, n)))
            /\ uart' = SubSeq(uart, n + 1, Len(uart))
    BY <1>7, <2>2 DEF RelayReads, ReadString
  <2>4. /\ n = 2 /\ uart[1].part = 1 /\ uart[2] = [uart[1] EXCEPT !.part = 2]
        /\ Paired(uart' \o down)
    BY <1>2, <1>3, <2>1, <2>3, PairedRead
  <2>5. Whole(FromPi(SubSeq(uart, 1, n)))
    <3> DEFINE parts == SubSeq(uart, 1, 2)
    <3>1. 2 \in 1 .. Len(uart) /\ \A i \in 1 .. 2 : uart[i] \in Part
      BY <1>3, <2>1, <2>4, ElementOfSeq
    <3>2. /\ Len(parts) = 2 - 1 + 1
          /\ \A i \in 1 .. 2 - 1 + 1 : parts[i] = uart[1 + i - 1]
      BY <3>1, SubSeqProperties
    <3> HIDE DEF parts
    <3>3. Len(parts) = 2 /\ parts[1] = uart[1] /\ parts[2] = uart[2]
      BY <3>2
    <3>4. FromPi(parts).parts = parts
      BY DEF FromPi
    <3> QED
      BY <2>4, <3>3, <3>4 DEF Whole, parts
  <2>6. \A p \in Phones : \/ outbox'[p] = outbox[p]
                          \/ outbox'[p] = Append(outbox[p], FromPi(SubSeq(uart, 1, n)))
    BY <2>3 DEF BroadcastTxt
  <2>7. AllWhole(outbox')
    BY <1>2, <1>3, <2>5, <2>6, AppendsWhole
  <2> QED
    BY <2>1, <2>4, <2>7
<1>8. ASSUME NEW p \in Phones, PhoneActs(p) \/ Relays(p)
      PROVE  AllWhole(outbox') /\ Paired(uart' \o down')
  <2>1. uart' = uart /\ down' = down
    BY <1>8 DEF PhoneActs, Relays, Connected, Disconnected, PhoneSends, Text
  <2>2. Welcome.kind # "line" /\ Pong.kind # "line"
    BY DEF Welcome, Pong
  <2>3. outbox' = outbox \/ SendTxt(p, Welcome) \/ SendTxt(p, Pong)
    BY <1>8 DEF PhoneActs, Relays, Connected, Disconnected, PhoneSends, Text
  <2>4. ASSUME NEW message, message.kind # "line", SendTxt(p, message) PROVE AllWhole(outbox')
    <3>1. \A q \in Phones : outbox'[q] = outbox[q] \/ outbox'[q] = Append(outbox[q], message)
      BY <1>3, <2>4 DEF SendTxt
    <3> QED
      BY <1>2, <1>3, <2>4, <3>1, AppendsWhole
  <2> QED
    BY <1>2, <2>1, <2>2, <2>3, <2>4
<1> QED
  BY <1>1, <1>4, <1>5, <1>6, <1>7, <1>8 DEF SetupNext

LEMMA WholeInitially == SetupInit => WholeInv
<1> SUFFICES ASSUME SetupInit PROVE WholeInv
  OBVIOUS
<1>1. uart = <<>> /\ down = <<>> /\ \A p \in Phones : outbox[p] = <<>>
  BY DEF SetupInit, RelayInit
<1>2. uart \o down = <<>>
  BY <1>1
<1>3. Paired(<<>>)
  BY DEF Paired
<1> QED
  BY <1>1, <1>2, <1>3 DEF WholeInv, LinesAreWhole

\* readStringUntil cuts no line in two and joins no two, as long as the adapter
\* stays in, for any number of requests, phones and parts under way.
THEOREM SetupLinesAreWhole == SetupSpec => []LinesAreWhole
<1>1. WholeInv => LinesAreWhole
  BY DEF WholeInv
<1> QED
  BY <1>1, WholeInitially, WholeNext, SetupInductive, PTL DEF SetupSpec
=============================================================================

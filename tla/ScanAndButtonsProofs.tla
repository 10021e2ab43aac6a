----------------------- MODULE ScanAndButtonsProofs -----------------------
(***************************************************************************)
(* The scan of the networks and the buttons, two parts of the Raspberry Pi *)
(* that share nothing but it.  NetworksAreTheCells for every output of     *)
(* iwlist: any number of cells, any names and levels.  The safety          *)
(* properties of RadioButtons, for any presses of any buttons.             *)
(***************************************************************************)
EXTENDS NetworkScan, RadioButtons, FiniteSetTheorems, TLAPS

-----------------------------------------------------------------------------
(* The scan *)

First(found, n) == [i \in 1 .. n |-> Readable(found[i])]

(* While a cell is read, networks holds the cells before it and network    *)
(* what its lines said so far.  Its key is always found, so that a cell    *)
(* that was read to its end is not empty and is kept.                      *)
ReadSoFar ==
    /\ cell = 0 => lines = {} /\ network = Empty /\ networks = <<>>
    /\ cell > 0 =>
        /\ networks = First(cells, cell - 1)
        /\ network = [s |-> IF "essid" \in lines THEN None ELSE Readable(cells[cell]).s,
                      d |-> IF "quality" \in lines THEN None ELSE Readable(cells[cell]).d,
                      e |-> IF "key" \in lines THEN None ELSE Readable(cells[cell]).e]

ScanInv ==
    /\ ScanTypeOK
    /\ ~sent => ReadSoFar
    /\ sent => lines = {}
    /\ NetworksAreTheCells

\* What is sent about a cell is a network, and never empty: it has the key.
LEMMA ReadableType == \A c \in Cell : Readable(c) \in Network /\ Readable(c) # Empty
BY ScanAssumption DEF Cell, Readable, Network, Empty

(* At the end of a cell the network is complete, and is appended. *)
LEMMA CollectedIsFirst ==
    ASSUME ScanTypeOK, ReadSoFar, lines = {}
    PROVE  Collected = First(cells, cell) /\ Collected \in Seq(Network)
<1>1. CASE cell = 0
    BY <1>1 DEF ReadSoFar, Collected, First
<1>2. CASE cell > 0
    <2>1. cells[cell] \in Cell /\ cell \in Nat /\ cell \in 1 .. Len(cells)
        BY <1>2 DEF ScanTypeOK
    <2>2. network = Readable(cells[cell])
        BY <1>2 DEF ReadSoFar, Readable
    <2>3. Collected = Append(First(cells, cell - 1), Readable(cells[cell]))
        BY <1>2, <2>1, <2>2, ReadableType DEF Collected, ReadSoFar
    <2>4. \A i \in 1 .. cell : Readable(cells[i]) \in Network
        BY <2>1, ReadableType DEF ScanTypeOK
    <2>5. First(cells, cell - 1) \in Seq(Network) /\ Len(First(cells, cell - 1)) = cell - 1
        BY <2>1, <2>4 DEF First
    <2>6. Append(First(cells, cell - 1), Readable(cells[cell])) = First(cells, cell)
        BY <2>1, <2>4, <2>5 DEF First
    <2>. QED
        BY <2>1, <2>3, <2>4, <2>5, <2>6
<1>. QED
    BY <1>1, <1>2 DEF ScanTypeOK

\* Before the first cell nothing was read.
LEMMA ScanInvInit == ScanInit => ScanInv
<1> SUFFICES ASSUME ScanInit PROVE ScanInv
    OBVIOUS
<1>1. PICK n \in 0 .. MaxCells : cells \in [1 .. n -> Cell]
    BY DEF ScanInit
<1>2. cells \in Seq(Cell) /\ Len(cells) = n
    BY <1>1, ScanAssumption
<1>3. Empty \in Network
    BY DEF Empty, Network
<1>4. ScanTypeOK
    <2>1. cell \in 0 .. Len(cells)
        BY <1>2, ScanAssumption DEF ScanInit
    <2>2. lines = {} /\ network = Empty /\ networks = <<>> /\ sent = FALSE
        BY DEF ScanInit
    <2>3. networks \in Seq(Network)
        BY <2>2
    <2>. QED
        BY <1>2, <1>3, <2>1, <2>2, <2>3 DEF ScanTypeOK
<1>5. ReadSoFar /\ NetworksAreTheCells
    BY DEF ScanInit, ReadSoFar, NetworksAreTheCells
<1>. QED
    BY <1>4, <1>5 DEF ScanInit, ScanInv

\* Each line fills the field that it is about, and each cell is kept at its end.
LEMMA ScanInvNext == ScanInv /\ [ScanNext]_scanVars => ScanInv'
<1> SUFFICES ASSUME ScanInv, [ScanNext]_scanVars PROVE ScanInv'
    OBVIOUS
<1>0. ScanTypeOK /\ Len(cells) \in Nat
    BY DEF ScanInv, ScanTypeOK
<1>1. CASE Address
    <2>1. Collected = First(cells, cell) /\ Collected \in Seq(Network)
        BY <1>1, CollectedIsFirst DEF Address, ScanInv
    <2>2. Empty \in Network
        BY DEF Empty, Network
    <2>3. ScanTypeOK'
        <3>1. cell' \in 0 .. Len(cells') /\ cells' \in Seq(Cell) /\ sent' \in BOOLEAN
            BY <1>0, <1>1 DEF Address, ScanTypeOK
        <3>2. network' \in Network
            BY <1>1, <2>2 DEF Address
        <3>3. networks' \in Seq(Network)
            BY <1>1, <2>1 DEF Address
        <3>4. lines' \subseteq {"essid", "quality", "key"}
            BY <1>1 DEF Address
        <3>. QED
            BY <3>1, <3>2, <3>3, <3>4 DEF ScanTypeOK
    <2>4. cell' - 1 = cell /\ cell' > 0 /\ cells' = cells
        BY <1>0, <1>1 DEF Address, ScanTypeOK
    <2>5. networks' = First(cells', cell' - 1)
        BY <1>1, <2>1, <2>4 DEF Address
    <2>6. ReadSoFar'
        BY <1>0, <1>1, <2>4, <2>5 DEF Address, ReadSoFar, Empty, ScanTypeOK
    <2>. QED
        BY <1>1, <2>3, <2>6 DEF Address, ScanInv, NetworksAreTheCells
<1>2. CASE Essid \/ Quality \/ EncryptionKey
    <2>1. ~sent /\ ReadSoFar /\ cell > 0
        BY <1>0, <1>2 DEF ScanInv, ReadSoFar, ScanTypeOK, Essid, Quality, EncryptionKey, Read
    <2>2. cells[cell] \in Cell
        BY <1>0, <2>1 DEF ScanTypeOK
    <2>3. UNCHANGED <<cells, cell, networks, sent>>
        BY <1>2 DEF Essid, Quality, EncryptionKey, Read
    <2>4. network' \in Network /\ lines' \subseteq {"essid", "quality", "key"}
        BY <1>0, <1>2, <2>2 DEF Essid, Quality, EncryptionKey, Read, ScanTypeOK, Network, Cell
    <2>5. network' = [s |-> IF "essid" \in lines' THEN None ELSE Readable(cells[cell]).s,
                      d |-> IF "quality" \in lines' THEN None ELSE Readable(cells[cell]).d,
                      e |-> IF "key" \in lines' THEN None ELSE Readable(cells[cell]).e]
        BY <1>2, <2>1 DEF Essid, Quality, EncryptionKey, Read, ReadSoFar, Readable
    <2>6. ReadSoFar'
        BY <2>1, <2>3, <2>5 DEF ReadSoFar, First, Readable
    <2>. QED
        BY <1>0, <2>1, <2>3, <2>4, <2>6 DEF ScanInv, ScanTypeOK, NetworksAreTheCells
<1>3. CASE EndOfOutput
    <2>1. Collected = First(cells, cell) /\ Collected \in Seq(Network)
        BY <1>3, CollectedIsFirst DEF EndOfOutput, ScanInv
    <2>2. ScanTypeOK'
        BY <1>0, <1>3, <2>1 DEF EndOfOutput, ScanTypeOK
    <2>3. NetworksAreTheCells'
        BY <1>3, <2>1 DEF EndOfOutput, NetworksAreTheCells, First, Readable
    <2>. QED
        BY <1>3, <2>2, <2>3 DEF EndOfOutput, ScanInv
<1>4. CASE UNCHANGED scanVars
    BY <1>4 DEF scanVars, ScanInv, ScanTypeOK, ReadSoFar, NetworksAreTheCells, First, Readable
<1>. QED
    BY <1>1, <1>2, <1>3, <1>4 DEF ScanNext

(* The types, for any output of iwlist. *)
THEOREM ScanTypes == ScanSpec => []ScanTypeOK
<1>1. ScanInv => ScanTypeOK
    BY DEF ScanInv
<1>. QED
    BY <1>1, ScanInvInit, ScanInvNext, PTL DEF ScanSpec

(* Every scan sends one network for each cell, with that cell's fields     *)
(* only (getWifiNetworks).                                                 *)
THEOREM ScanIsFaithful == ScanSpec => []NetworksAreTheCells
<1>1. ScanInv => NetworksAreTheCells
    BY DEF ScanInv
<1>. QED
    BY <1>1, ScanInvInit, ScanInvNext, PTL DEF ScanSpec

-----------------------------------------------------------------------------
(* The registration goes through the channels in their order. *)
Prefixes == {{}, {15}, {15, 13}, {15, 13, 11}, Channels}
InOrder == detected \in Prefixes

\* How many channels are registered when.
LEMMA PrefixCards ==
    /\ Cardinality({}) = 0
    /\ Cardinality({15}) = 1
    /\ Cardinality({15, 13}) = 2
    /\ Cardinality({15, 13, 11}) = 3
<1>1. IsFiniteSet({}) /\ Cardinality({}) = 0
    BY FS_EmptySet
<1>2. IsFiniteSet({15}) /\ Cardinality({15}) = 1
    BY FS_Singleton
<1>3. IsFiniteSet({15} \cup {13}) /\ Cardinality({15} \cup {13}) = 2
    BY <1>2, FS_AddElement
<1>4. {15} \cup {13} = {15, 13}
    OBVIOUS
<1>5. IsFiniteSet({15, 13} \cup {11}) /\ Cardinality({15, 13} \cup {11}) = 3
    <2>1. IsFiniteSet({15, 13}) /\ Cardinality({15, 13}) = 2 /\ 11 \notin {15, 13}
        BY <1>3, <1>4
    <2>. QED
        BY <2>1, FS_AddElement
<1>6. {15, 13} \cup {11} = {15, 13, 11}
    OBVIOUS
<1>7. Cardinality({15, 13}) = 2
    BY <1>3, <1>4
<1>8. Cardinality({15, 13, 11}) = 3
    BY <1>5, <1>6
<1>. QED
    BY <1>1, <1>2, <1>7, <1>8

\* The next channel of the order is registered.
LEMMA NextPrefix ==
    ASSUME InOrder, AddEventDetect
    PROVE  detected' \in Prefixes
<1>1. detected # Channels /\ detected \in Prefixes
    BY DEF InOrder, AddEventDetect
<1>2. detected' = detected \cup {Registered[Cardinality(detected) + 1]}
    BY DEF AddEventDetect
<1>3. CASE detected = {}
    BY <1>2, <1>3, PrefixCards DEF Registered, Prefixes, AddEventDetect
<1>4. CASE detected = {15}
    BY <1>2, <1>4, PrefixCards DEF Registered, Prefixes, AddEventDetect
<1>5. CASE detected = {15, 13}
    BY <1>2, <1>5, PrefixCards DEF Registered, Prefixes, AddEventDetect
<1>6. CASE detected = {15, 13, 11}
    BY <1>2, <1>6, PrefixCards DEF Registered, Prefixes, Channels, AddEventDetect
<1>. QED
    BY <1>1, <1>3, <1>4, <1>5, <1>6 DEF Prefixes

-----------------------------------------------------------------------------
(* Types *)

\* A burst bounces again only within the bounce time of an edge before it.
AgainIsRecent == \A ch \in Channels : contact[ch] = "again" => ch \in recent

TypeInv == TypeOK /\ InOrder /\ AgainIsRecent

\* The types hold at the start.
LEMMA TypeInit == Init => TypeInv
<1> SUFFICES ASSUME Init PROVE TypeInv
    OBVIOUS
<1>1. /\ pc = "led" /\ {led, killed} \subseteq BOOLEAN
      /\ detected = {} /\ pending = {} /\ recent = {} /\ down = {} /\ running = Nobody
    BY DEF Init
<1>2. /\ contact \in [Channels -> {"still", "bouncing", "again"}]
      /\ presses \in [Channels -> 0 .. MaxPresses]
      /\ late \in [Channels -> Nat] /\ waited \in [Channels -> Nat] /\ ran \in [Channels -> Nat]
      /\ \A ch \in Channels : contact[ch] = "still"
    BY ButtonsAssumption DEF Init
<1>3. TypeOK
    BY <1>1, <1>2 DEF TypeOK
<1>4. InOrder
    BY <1>1 DEF InOrder, Prefixes, Channels
<1>5. AgainIsRecent
    BY <1>2 DEF AgainIsRecent
<1>. QED
    BY <1>3, <1>4, <1>5 DEF TypeInv

\* The types hold after every step.
LEMMA TypeNext == TypeInv /\ [Next]_vars => TypeInv'
<1> SUFFICES ASSUME TypeInv, [Next]_vars PROVE TypeInv'
    OBVIOUS
<1>1. ASSUME UNCHANGED <<button, counts, thread, recent>>, {led', killed'} \subseteq BOOLEAN,
             pc' \in {"led", "lit", "register", "loop", "ended"},
             detected' \in Prefixes, pending' \subseteq detected'
      PROVE  TypeInv'
    <2>1. detected' \subseteq Channels
        BY <1>1 DEF Prefixes, Channels
    <2>. QED
        BY <1>1, <2>1 DEF TypeInv, TypeOK, InOrder, AgainIsRecent, button, counts, thread
<1>2. CASE Main
    <2>1. UNCHANGED <<button, counts, thread, recent>>
        BY <1>2 DEF Main, LightLed, Try, AddEventDetect, AllRegistered, InterruptedInTry, Finish, Kill
    <2>2. {led', killed'} \subseteq BOOLEAN /\ pc' \in {"led", "lit", "register", "loop", "ended"}
        BY <1>2 DEF Main, LightLed, Try, AddEventDetect, AllRegistered, InterruptedInTry, Finish,
                    Kill, Cleanup, TypeInv, TypeOK
    <2>3. detected \in Prefixes /\ {} \in Prefixes /\ pending \subseteq detected
        BY DEF TypeInv, TypeOK, InOrder, Prefixes
    <2>4. detected' \in Prefixes
        BY <1>2, <2>3, NextPrefix DEF Main, LightLed, Try, AllRegistered, InterruptedInTry, Finish,
                                      Kill, Cleanup, TypeInv
    <2>5. pending' \subseteq detected'
        BY <1>2, <2>3 DEF Main, LightLed, Try, AddEventDetect, AllRegistered, InterruptedInTry,
                          Finish, Kill, Cleanup
    <2>. QED
        BY <1>1, <2>1, <2>2, <2>4, <2>5
<1>3. ASSUME NEW ch \in Pressed, Contact(ch) \/ BounceTimeOver(ch) \/ TakeEdge(ch)
      PROVE  TypeInv'
    <2> USE DEF TypeInv, TypeOK, InOrder, AgainIsRecent, main, button, counts, thread
    <2>0. ch \in Channels
        BY ButtonsAssumption
    <2>1. CASE Press(ch)
        <3>1. presses' \in [Channels -> 0 .. MaxPresses]
            BY <2>0, <2>1, ButtonsAssumption DEF Press
        <3>. QED
            BY <2>0, <2>1, <3>1 DEF Press, BeginsToBounce
    <2>2. CASE Release(ch)
        BY <2>0, <2>2 DEF Release, BeginsToBounce, Edge
    <2>3. CASE Bounce(ch)
        BY <2>0, <2>3 DEF Bounce, Edge
    <2>4. CASE Settle(ch)
        BY <2>0, <2>4 DEF Settle
    <2>5. CASE BounceTimeOver(ch)
        <3>1. {late, waited, ran}' \subseteq [Channels -> Nat]
            BY <2>0, <2>5 DEF BounceTimeOver
        <3>2. /\ contact' \in [Channels -> {"still", "bouncing", "again"}]
              /\ \A c \in Channels : contact'[c] = "again" => c \in recent'
            BY <2>0, <2>5 DEF BounceTimeOver
        <3>. QED
            BY <2>0, <2>5, <3>1, <3>2 DEF BounceTimeOver
    <2>6. CASE TakeEdge(ch)
        <3>1. CASE Ignored(ch)
            BY <2>0, <2>6, <3>1 DEF TakeEdge
        <3>2. CASE ~Ignored(ch)
            BY <2>0, <2>6, <3>2 DEF TakeEdge
        <3>. QED
            BY <3>1, <3>2
    <2>. QED
        BY <1>3, <2>1, <2>2, <2>3, <2>4, <2>5, <2>6 DEF Contact
<1>4. CASE MpcReturns
    BY <1>4 DEF MpcReturns, TypeInv, TypeOK, InOrder, AgainIsRecent, main, button, counts
<1>5. CASE UNCHANGED vars
    BY <1>1, <1>5 DEF vars, main, TypeInv, TypeOK, InOrder
<1>. QED
    BY <1>2, <1>3, <1>4, <1>5 DEF Next

\* The types hold always.
LEMMA TypeSpec == Spec => []TypeInv
BY TypeInit, TypeNext, PTL DEF Spec

(* The types of buttons.py's state and of the thread of RPi.GPIO. *)
THEOREM ButtonTypes == Spec => []TypeOK
<1>1. TypeInv => TypeOK
    BY DEF TypeInv
<1>. QED
    BY <1>1, TypeSpec, PTL

-----------------------------------------------------------------------------
(* The LED: what registers the buttons has lit it. *)

LedInv == LedMeansListening /\ (pc \in {"lit", "register"} => led)

\* The LED is out at the start.
LEMMA LedInit == Init => LedInv
BY DEF Init, LedInv, LedMeansListening

\* What registers the buttons has lit the LED, and what undoes it puts it out.
LEMMA LedNext == TypeOK /\ LedInv /\ [Next]_vars => LedInv'
<1> SUFFICES ASSUME TypeOK, LedInv, [Next]_vars PROVE LedInv'
    OBVIOUS
<1> USE DEF LedInv, LedMeansListening, main
<1>1. CASE LightLed
    BY <1>1 DEF LightLed
<1>2. CASE Try \/ AddEventDetect \/ AllRegistered
    BY <1>2 DEF Try, AddEventDetect, AllRegistered
<1>3. CASE InterruptedInTry
    BY <1>3 DEF InterruptedInTry, Cleanup
<1>4. CASE Finish
    BY <1>4 DEF Finish, Cleanup
<1>5. CASE Kill
    BY <1>5 DEF Kill
<1>6. CASE UNCHANGED main
    BY <1>6
<1>7. ASSUME NEW ch \in Pressed, Contact(ch) \/ BounceTimeOver(ch) \/ TakeEdge(ch)
      PROVE  UNCHANGED main
    BY <1>7 DEF Contact, Press, Release, Bounce, Settle, BounceTimeOver, TakeEdge
<1>8. MpcReturns \/ UNCHANGED vars => UNCHANGED main
    BY DEF MpcReturns, vars
<1>. QED
    BY <1>1, <1>2, <1>3, <1>4, <1>5, <1>6, <1>7, <1>8 DEF Next, Main

(* A script in its loop with the LED lit listens to every button, and one  *)
(* with the LED out to none (buttons.py, 22-51).                           *)
THEOREM LedTellsTheTruth == Spec => []LedMeansListening
<1>1. LedInv => LedMeansListening
    BY DEF LedInv
<1>2. TypeInv => TypeOK
    BY DEF TypeInv
<1>. QED
    BY <1>1, <1>2, LedInit, LedNext, TypeSpec, PTL DEF Spec

-----------------------------------------------------------------------------
(* Commands.  A button owes one while an edge of it that would count waits *)
(* for the thread, or its contact may still make one.  What is behind it,  *)
(* a press, a late release or an edge that waited, has not run a command.  *)

Owes(ch) ==
    \/ ch \notin recent /\ (ch \in pending \/ contact[ch] = "bouncing")
    \/ contact[ch] = "again" /\ ch \in down

Causes(ch) == presses[ch] + late[ch] + waited[ch]

CauseInv ==
    \A ch \in Channels : ran[ch] <= Causes(ch) /\ (Owes(ch) => ran[ch] < Causes(ch))

\* Nothing is owed at the start.
LEMMA CauseInit == Init => CauseInv
BY DEF Init, CauseInv, Causes, Owes

(* Edges that are forgotten are not owed. *)
LEMMA OwesLess ==
    ASSUME CauseInv, UNCHANGED <<button, counts, ran, recent>>, pending' \subseteq pending
    PROVE  CauseInv'
BY DEF CauseInv, Causes, Owes, button, counts

\* What a step of one button leaves to the others.
LEMMA OtherButton ==
    ASSUME TypeOK, NEW ch \in Channels, NEW c \in Channels \ {ch},
           Contact(ch) \/ BounceTimeOver(ch) \/ TakeEdge(ch)
    PROVE  Causes(c)' = Causes(c) /\ Owes(c)' = Owes(c) /\ ran'[c] = ran[c]
<1> USE DEF Causes, Owes, button, counts, thread, TypeOK
<1>1. CASE Press(ch)
    BY <1>1 DEF Press, BeginsToBounce
<1>2. CASE Release(ch)
    BY <1>2 DEF Release, BeginsToBounce, Edge
<1>3. CASE Bounce(ch)
    BY <1>3 DEF Bounce, Edge
<1>4. CASE Settle(ch)
    BY <1>4 DEF Settle
<1>5. CASE BounceTimeOver(ch)
    BY <1>5 DEF BounceTimeOver
<1>6. CASE TakeEdge(ch)
    <2>1. CASE Ignored(ch)
        BY <1>6, <2>1 DEF TakeEdge
    <2>2. CASE ~Ignored(ch)
        BY <1>6, <2>2 DEF TakeEdge
    <2>. QED
        BY <2>1, <2>2
<1>. QED
    BY <1>1, <1>2, <1>3, <1>4, <1>5, <1>6 DEF Contact

\* A press adds a cause, and so does what outlasts the bounce time; only an edge that
\* counts spends one.
LEMMA CauseNext == TypeInv /\ CauseInv /\ [Next]_vars => CauseInv'
<1> SUFFICES ASSUME TypeInv, CauseInv, [Next]_vars PROVE CauseInv'
    OBVIOUS
<1>1. CASE Main
    <2>1. UNCHANGED <<button, counts, ran, recent>>
        BY <1>1 DEF Main, LightLed, Try, AddEventDetect, AllRegistered, InterruptedInTry, Finish,
                    Kill, thread
    <2>2. pending' \subseteq pending
        BY <1>1 DEF Main, LightLed, Try, AddEventDetect, AllRegistered, InterruptedInTry, Finish,
                    Kill, Cleanup
    <2>. QED
        BY <2>1, <2>2, OwesLess
<1>2. ASSUME NEW ch \in Pressed, Contact(ch) \/ BounceTimeOver(ch) \/ TakeEdge(ch)
      PROVE  CauseInv'
    <2>0. /\ ch \in Channels
          /\ presses[ch] \in Nat /\ late[ch] \in Nat /\ waited[ch] \in Nat /\ ran[ch] \in Nat
          /\ contact[ch] \in {"still", "bouncing", "again"}
          /\ contact[ch] = "again" => ch \in recent
          /\ ran[ch] <= Causes(ch) /\ (Owes(ch) => ran[ch] < Causes(ch))
        BY ButtonsAssumption DEF TypeInv, TypeOK, AgainIsRecent, CauseInv
    <2>. SUFFICES ran'[ch] <= Causes(ch)' /\ (Owes(ch)' => ran'[ch] < Causes(ch)')
        BY <1>2, <2>0, OtherButton DEF CauseInv, TypeInv
    <2>1. CASE Press(ch)
        <3>1. /\ Causes(ch)' = Causes(ch) + 1 /\ ran' = ran
            BY <2>0, <2>1 DEF Press, Causes, TypeInv, TypeOK, thread
        <3>. QED
            BY <2>0, <3>1 DEF Causes
    <2>2. CASE Release(ch)
        <3>1. CASE ch \in recent
            <4>1. Causes(ch)' = Causes(ch) /\ ran' = ran /\ ~Owes(ch)'
                BY <2>0, <2>2, <3>1 DEF Release, BeginsToBounce, Causes, Owes, TypeInv, TypeOK, thread
            <4>. QED
                BY <2>0, <4>1
        <3>2. CASE ch \notin recent
            <4>1. Causes(ch)' = Causes(ch) + 1 /\ ran' = ran
                BY <2>0, <2>2, <3>2 DEF Release, Causes, TypeInv, TypeOK, thread
            <4>. QED
                BY <2>0, <4>1 DEF Causes
        <3>. QED
            BY <3>1, <3>2
    <2>3. CASE Bounce(ch)
        <3>1. Causes(ch)' = Causes(ch) /\ ran' = ran /\ (Owes(ch)' => Owes(ch))
            BY <2>0, <2>3 DEF Bounce, Edge, Causes, Owes, button, counts, thread
        <3>. QED
            BY <2>0, <3>1
    <2>4. CASE Settle(ch)
        <3>1. Causes(ch)' = Causes(ch) /\ ran' = ran /\ (Owes(ch)' => Owes(ch))
            BY <2>0, <2>4 DEF Settle, Causes, Owes, TypeInv, TypeOK, counts, thread
        <3>. QED
            BY <2>0, <3>1
    <2>5. CASE BounceTimeOver(ch)
        <3>1. /\ ran' = ran /\ presses' = presses /\ down' = down /\ pending' = pending
              /\ late'[ch] = late[ch] + (IF contact[ch] = "again" /\ ch \notin down THEN 1 ELSE 0)
              /\ waited'[ch] = waited[ch] + (IF ch \in pending THEN 1 ELSE 0)
              /\ contact'[ch] = IF contact[ch] = "again" THEN "bouncing" ELSE contact[ch]
              /\ contact[ch] # "bouncing"
            BY <2>0, <2>5 DEF BounceTimeOver, TypeInv, TypeOK, thread
        <3>2. Owes(ch)' => ch \in pending \/ contact[ch] = "again"
            BY <3>1 DEF Owes
        <3>3. CASE ch \in pending \/ (contact[ch] = "again" /\ ch \notin down)
            BY <2>0, <3>1, <3>3 DEF Causes
        <3>4. CASE ch \notin pending /\ contact[ch] = "again" /\ ch \in down
            <4>1. Owes(ch) /\ Causes(ch)' = Causes(ch)
                BY <2>0, <3>1, <3>4 DEF Owes, Causes
            <4>. QED
                BY <2>0, <3>1, <4>1
        <3>5. CASE ch \notin pending /\ contact[ch] # "again"
            <4>1. ~Owes(ch)' /\ Causes(ch)' = Causes(ch)
                BY <2>0, <3>1, <3>2, <3>5 DEF Causes
            <4>. QED
                BY <2>0, <3>1, <4>1
        <3>. QED
            BY <3>3, <3>4, <3>5
    <2>6. CASE TakeEdge(ch)
        <3>1. CASE Ignored(ch)
            <4>1. Causes(ch)' = Causes(ch) /\ ran' = ran /\ (Owes(ch)' => Owes(ch))
                BY <2>0, <2>6, <3>1 DEF TakeEdge, Causes, Owes, button, counts
            <4>. QED
                BY <2>0, <4>1
        <3>2. CASE ~Ignored(ch)
            <4>1. Owes(ch) /\ Causes(ch)' = Causes(ch) /\ ran'[ch] = ran[ch] + 1 /\ ~Owes(ch)'
                BY <2>0, <2>6, <3>2 DEF TakeEdge, Ignored, Causes, Owes, button, counts, TypeInv, TypeOK
            <4>. QED
                BY <2>0, <4>1 DEF Causes
        <3>. QED
            BY <3>1, <3>2
    <2>. QED
        BY <1>2, <2>1, <2>2, <2>3, <2>4, <2>5, <2>6 DEF Contact
<1>3. CASE MpcReturns
    BY <1>3, OwesLess DEF MpcReturns
<1>4. CASE UNCHANGED vars
    BY <1>4, OwesLess DEF vars, thread
<1>. QED
    BY <1>1, <1>2, <1>3, <1>4 DEF Next

(* A button runs its command once for each press, and again only for a     *)
(* release that the bounce time does not cover or an edge that waited      *)
(* until it was over (onChange and its bounce time, 32-46).                *)
THEOREM CommandsHaveCauses == Spec => []EveryCommandHasItsCause
<1>1. CauseInv => EveryCommandHasItsCause
    BY DEF CauseInv, Causes, EveryCommandHasItsCause
<1>. QED
    BY <1>1, CauseInit, CauseNext, TypeSpec, PTL DEF Spec

=============================================================================

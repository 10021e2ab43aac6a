---------------------------- MODULE NetworkScan ----------------------------
(***************************************************************************)
(* esp8266_proxy.py, getWifiNetworks: the networks that are sent to the    *)
(* phones, put together from the output of iwlist, which has a few lines   *)
(* for each cell, its address first and the others in an order that        *)
(* depends on the version of iwlist.  One action reads one line.           *)
(*                                                                         *)
(* External: iwlist.  Abstracted: the lines, to what the four searches     *)
(* find in them; lines in which they find nothing are left out, and so is  *)
(* a name that reads like another line.                                    *)
(***************************************************************************)
EXTENDS Integers, Sequences

CONSTANTS
    Names,      \* of networks
    Unnamed,    \* those that ESSID:"(\S+)" does not match: hidden, or with a space
    Levels,     \* signal levels
    Dbm,        \* those that are not printed as x/y but in dBm
    None,       \* what a field that was not found holds
    MaxCells    \* bound: cells of one scan

ASSUME ScanAssumption ==
    /\ Unnamed \subseteq Names /\ Dbm \subseteq Levels
    /\ None \notin Names \cup Levels \cup {"1", "0"}
    /\ MaxCells \in Nat

Cell    == [name : Names, level : Levels, key : {"on", "off"}]
Network == [s : (Names \ Unnamed) \cup {None}, d : (Levels \ Dbm) \cup {None}, e : {"1", "0", None}]
Empty   == [s |-> None, d |-> None, e |-> None]

VARIABLES
    cells,      \* what iwlist found
    cell,       \* the cell whose lines are read, 0 before the first
    lines,      \* which of its lines are still to come
    network,    \* network
    networks,   \* networks
    sent        \* the loop is over and networks is returned

scanVars == <<cells, cell, lines, network, networks, sent>>

-----------------------------------------------------------------------------
Collected == IF network # Empty THEN Append(networks, network) ELSE networks

\* Mutant: the fields of the cell before are kept.
AddressKeeping ==
    /\ ~sent /\ lines = {} /\ cell < Len(cells)
    /\ cell' = cell + 1 /\ lines' = {"essid", "quality", "key"}
    /\ networks' = Collected
    /\ UNCHANGED <<cells, network, sent>>

Address ==
    /\ ~sent /\ lines = {} /\ cell < Len(cells)
    /\ cell' = cell + 1 /\ lines' = {"essid", "quality", "key"}
    /\ networks' = Collected
    /\ network' = Empty
    /\ UNCHANGED <<cells, sent>>

\* The line of the kind is read, and its field becomes what was found in it.
Read(kind, found) ==
    /\ kind \in lines /\ lines' = lines \ {kind}
    /\ network' = found
    /\ UNCHANGED <<cells, cell, networks, sent>>

\* Mutant: a name with a space is taken, too.
EssidOfAnyName == Read("essid", [network EXCEPT !.s = cells[cell].name])

Essid ==
    LET name == cells[cell].name
    IN  Read("essid", IF name \in Unnamed THEN network ELSE [network EXCEPT !.s = name])

Quality ==
    LET level == cells[cell].level
    IN  Read("quality", IF level \in Dbm THEN network ELSE [network EXCEPT !.d = level])

EncryptionKey ==
    Read("key", [network EXCEPT !.e = IF cells[cell].key = "on" THEN "1" ELSE "0"])

EndOfOutput ==
    /\ ~sent /\ sent' = TRUE
    /\ lines = {} /\ cell = Len(cells)
    /\ networks' = Collected
    /\ UNCHANGED <<cells, cell, lines, network>>

ScanInit ==
    /\ cells \in UNION {[1 .. n -> Cell] : n \in 0 .. MaxCells}
    /\ cell = 0 /\ lines = {}
    /\ network = Empty /\ networks = <<>>
    /\ sent = FALSE

ScanNext == Address \/ Essid \/ Quality \/ EncryptionKey \/ EndOfOutput

ScanSpec == ScanInit /\ [][ScanNext]_scanVars

-----------------------------------------------------------------------------
(* The types. *)
ScanTypeOK ==
    /\ cells \in Seq(Cell)
    /\ cell \in 0 .. Len(cells)
    /\ lines \subseteq {"essid", "quality", "key"}
    /\ network \in Network /\ networks \in Seq(Network)
    /\ sent \in BOOLEAN

(* What is sent about a cell: the fields whose line is readable. *)
Readable(c) ==
    [s |-> IF c.name \in Unnamed THEN None ELSE c.name,
     d |-> IF c.level \in Dbm THEN None ELSE c.level,
     e |-> IF c.key = "on" THEN "1" ELSE "0"]

(* Whatever order iwlist prints in, what is sent has one network for each  *)
(* cell, in the order of the cells, with the fields of that cell and none  *)
(* of its neighbours'; the last one and those without a name are included  *)
(* (getWifiNetworks, 104-127).                                             *)
NetworksAreTheCells ==
    sent => networks = [i \in 1 .. Len(cells) |-> Readable(cells[i])]

=============================================================================

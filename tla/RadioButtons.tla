---------------------------- MODULE RadioButtons ----------------------------
(***************************************************************************)
(* buttons.py: four buttons, each of which runs mpc, and a LED that says   *)
(* the radio is ready.  The main thread lights the LED, registers the      *)
(* buttons and sleeps; Ctrl-C may interrupt it anywhere, and a kill ends   *)
(* the process without its exit routine.                                   *)
(*                                                                         *)
(* External: RPi.GPIO, whose thread takes one edge after the other, runs   *)
(* the callback itself and drops an edge that it takes less than the       *)
(* bounce time after the last one that counted; edges of a button that     *)
(* wait for the thread are one.  The inputs are pulled up: pressing a      *)
(* button makes no rising edge but those of its bounces, and releasing it, *)
(* any time later, makes one and bounces as well.  Either burst is shorter *)
(* than the bounce time.  Abstracted: which mpc command a button runs.     *)
(***************************************************************************)
EXTENDS Integers, Sequences, FiniteSets

CONSTANTS
    Pressed,        \* bound: the channels whose buttons are pressed
    MaxPresses,     \* bound: presses of one button
    Nobody          \* no callback is running

Registered == <<15, 13, 11, 7>>     \* the channels in the order of their registration
Channels   == {15, 13, 11, 7}

ASSUME ButtonsAssumption == Pressed \subseteq Channels /\ MaxPresses \in Nat /\ Nobody \notin Channels

VARIABLES
    pc,         \* the main thread: led, lit, register, loop, ended
    led,        \* the LED is lit
    detected,   \* channels with edge detection
    running,    \* the callback that waits for mpc
    pending,    \* channels with an edge the thread has not taken
    recent,     \* channels whose last edge that counted is less than the bounce time ago
    down,       \* channels whose button is pressed
    contact,    \* still, bouncing, or bouncing again: since before the bounce time was over
    presses,    \* history: presses of each button
    late,       \* history: releases of each button that were not over when the bounce time was
    waited,     \* history: edges that waited for the thread till the bounce time was over
    ran,        \* history: commands each button ran
    killed      \* history: the process was killed

main    == <<pc, led, detected, killed>>
button  == <<down, contact>>
counts  == <<presses, late, waited>>
thread  == <<running, ran>>
vars    == <<main, button, counts, thread, pending, recent>>

-----------------------------------------------------------------------------
(* The main thread *)

\* Mutant: the edges that wait are not thrown away.
CleanupOfLed == led' = FALSE /\ detected' = {} /\ UNCHANGED pending

Cleanup == led' = FALSE /\ detected' = {} /\ pending' = {}

LightLed ==
    /\ pc = "led" /\ pc' = "lit"
    /\ led' = TRUE
    /\ UNCHANGED <<detected, killed, button, counts, thread, pending, recent>>

Try ==
    /\ pc = "lit" /\ pc' = "register"
    /\ UNCHANGED <<led, detected, killed, button, counts, thread, pending, recent>>

AddEventDetect ==
    /\ pc = "register" /\ detected # Channels
    /\ detected' = detected \cup {Registered[Cardinality(detected) + 1]}
    /\ UNCHANGED <<pc, led, killed, button, counts, thread, pending, recent>>

AllRegistered ==
    /\ pc = "register" /\ detected = Channels /\ pc' = "loop"
    /\ UNCHANGED <<led, detected, killed, button, counts, thread, pending, recent>>

\* Mutant: the interrupt is swallowed, and nothing cleaned up.
InterruptedUncleaned ==
    /\ pc = "register" /\ pc' = "loop"
    /\ UNCHANGED <<led, detected, killed, button, counts, thread, pending, recent>>

\* except KeyboardInterrupt: the script goes on to the loop.
InterruptedInTry ==
    /\ pc = "register" /\ pc' = "loop"
    /\ Cleanup
    /\ UNCHANGED <<killed, button, counts, thread, recent>>

\* Elsewhere the interrupt ends the script through finish.
Finish ==
    /\ pc \in {"led", "lit", "loop"} /\ pc' = "ended"
    /\ Cleanup
    /\ UNCHANGED <<killed, button, counts, thread, recent>>

Kill ==
    /\ pc # "ended" /\ pc' = "ended" /\ killed' = TRUE
    /\ detected' = {} /\ pending' = {}
    /\ UNCHANGED <<led, button, counts, thread, recent>>

-----------------------------------------------------------------------------
(* The buttons *)

Edge(ch) == pending' = IF ch \in detected THEN pending \cup {ch} ELSE pending

BeginsToBounce(ch) == contact' = [contact EXCEPT ![ch] = IF ch \in recent THEN "again" ELSE "bouncing"]

Press(ch) ==
    /\ ch \notin down /\ contact[ch] = "still" /\ presses[ch] < MaxPresses
    /\ down' = down \cup {ch} /\ BeginsToBounce(ch)
    /\ presses' = [presses EXCEPT ![ch] = @ + 1]
    /\ UNCHANGED <<main, late, waited, thread, pending, recent>>

Release(ch) ==
    /\ ch \in down /\ contact[ch] = "still"
    /\ down' = down \ {ch} /\ BeginsToBounce(ch)
    /\ Edge(ch)
    /\ late' = IF ch \in recent THEN late ELSE [late EXCEPT ![ch] = @ + 1]
    /\ UNCHANGED <<main, presses, waited, thread, recent>>

Bounce(ch) ==
    /\ contact[ch] # "still"
    /\ Edge(ch)
    /\ UNCHANGED <<main, button, counts, thread, recent>>

Settle(ch) ==
    /\ contact[ch] # "still" /\ contact' = [contact EXCEPT ![ch] = "still"]
    /\ UNCHANGED <<main, down, counts, thread, pending, recent>>

BounceTimeOver(ch) ==
    /\ ch \in recent /\ contact[ch] # "bouncing"
    /\ recent' = recent \ {ch}
    /\ contact' = [contact EXCEPT ![ch] = IF @ = "again" THEN "bouncing" ELSE @]
    /\ late' = IF contact[ch] = "again" /\ ch \notin down THEN [late EXCEPT ![ch] = @ + 1] ELSE late
    /\ waited' = IF ch \in pending THEN [waited EXCEPT ![ch] = @ + 1] ELSE waited
    /\ UNCHANGED <<main, down, presses, thread, pending>>

-----------------------------------------------------------------------------
(* The thread of RPi.GPIO *)

\* Mutant: no bouncetime is given.
NoBounceTime(ch) == FALSE

Ignored(ch) == ch \in recent

TakeEdge(ch) ==
    /\ pc # "ended" /\ running = Nobody
    /\ ch \in pending /\ pending' = pending \ {ch}
    /\ IF Ignored(ch)
       THEN UNCHANGED <<running, ran, recent>>
       ELSE /\ running' = ch
            /\ ran' = [ran EXCEPT ![ch] = @ + 1]            \* onChange
            /\ recent' = recent \cup {ch}
    /\ UNCHANGED <<main, button, counts>>

MpcReturns ==
    /\ running # Nobody /\ running' = Nobody
    /\ UNCHANGED <<main, button, counts, ran, pending, recent>>

-----------------------------------------------------------------------------
Init ==
    /\ pc = "led" /\ led = FALSE /\ detected = {} /\ killed = FALSE
    /\ running = Nobody /\ pending = {} /\ recent = {} /\ down = {}
    /\ contact = [ch \in Channels |-> "still"]
    /\ presses = [ch \in Channels |-> 0] /\ late = presses /\ waited = presses /\ ran = presses

Main == LightLed \/ Try \/ AddEventDetect \/ AllRegistered \/ InterruptedInTry \/ Finish \/ Kill

Contact(ch) == Press(ch) \/ Release(ch) \/ Bounce(ch) \/ Settle(ch)

Next ==
    \/ Main
    \/ \E ch \in Pressed : Contact(ch) \/ BounceTimeOver(ch) \/ TakeEdge(ch)
    \/ MpcReturns

Spec == Init /\ [][Next]_vars

-----------------------------------------------------------------------------
(* The types; edges wait only for channels that are detected. *)
TypeOK ==
    /\ pc \in {"led", "lit", "register", "loop", "ended"}
    /\ {led, killed} \subseteq BOOLEAN
    /\ detected \subseteq Channels /\ pending \subseteq detected
    /\ recent \subseteq Channels /\ down \subseteq Channels
    /\ running \in Channels \cup {Nobody}
    /\ contact \in [Channels -> {"still", "bouncing", "again"}]
    /\ presses \in [Channels -> 0 .. MaxPresses]
    /\ {late, waited, ran} \subseteq [Channels -> Nat]

(* Once the script is in its loop, the LED is lit exactly if every button  *)
(* is listened to: an interrupt during the registration puts it out and    *)
(* leaves a script that runs and hears nothing.  A script that ended left  *)
(* it lit only if it was killed, when finish does not run (14-50).         *)
LedMeansListening ==
    /\ pc = "loop" => detected = IF led THEN Channels ELSE {}
    /\ (pc = "ended" /\ led) => killed

(* A button runs its command once for a press, however its contact         *)
(* bounces, and again only for a release that was not over when the bounce *)
(* time was (RISING on a pulled-up input: who holds the button longer runs *)
(* the command twice) or for an edge that waited for the thread until the  *)
(* bounce time was over, because mpc took that long (onChange, 32-46).     *)
EveryCommandHasItsCause ==
    \A ch \in Channels : ran[ch] <= presses[ch] + late[ch] + waited[ch]

=============================================================================

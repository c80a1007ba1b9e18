------------------------------- MODULE Drumpad -------------------------------
(***************************************************************************)
(* musin::ui::Drumpad, the pads of the drum and its PLAY button: one pad's *)
(* state and what a reading makes of it.  A reading is the highest         *)
(* threshold the ADC value reaches, and whether the time the pad waits for *)
(* in its state has passed.                                                *)
(***************************************************************************)
EXTENDS Integers

\* Readings: below the noise threshold, above it, above the trigger threshold,
\* above the high pressure threshold of a pad that has one.
Quiet == 0
Noise == 1
Trigger == 2
HighPressure == 3
Readings == Quiet..HighPressure

DrumpadState == {"Idle", "Rising", "Peaking", "Falling", "Holding", "DebouncingRelease"}

Pad == [state : DrumpadState, mode : {"Off", "Single", "Double"}]

\* Drumpad::init.
Resting == [state |-> "Idle", mode |-> "Off"]

\* Mutant: the mode follows the pressure of the moment.
HeldModeNow(p, reading, high) == IF reading >= high THEN "Double" ELSE "Single"

\* The retrigger mode of a pad held down: it never goes back to single.
HeldMode(p, reading, high) ==
    IF reading >= high THEN "Double"
    ELSE IF p.mode = "Off" THEN "Single"
    ELSE p.mode

\* update_state_machine, for a pad whose high pressure threshold is high.
update_state_machine(p, reading, elapsed, high) ==
    CASE p.state = "Idle" ->
            IF reading >= Noise THEN [state |-> "Rising", mode |-> "Off"] ELSE p
      [] p.state = "Rising" ->
            IF reading >= Trigger THEN [p EXCEPT !.state = "Peaking"]
            ELSE IF reading < Noise THEN [p EXCEPT !.state = "Idle"]
            ELSE p
      [] p.state = "Peaking" ->
            IF elapsed THEN [p EXCEPT !.state = "Holding"]
            ELSE IF reading < Noise THEN [p EXCEPT !.state = "DebouncingRelease"]
            ELSE p
      [] p.state = "Falling" ->
            IF reading < Noise THEN [p EXCEPT !.state = "DebouncingRelease"] ELSE p
      [] p.state = "Holding" ->
            [state |-> IF reading < Trigger THEN "Falling" ELSE "Holding",
             mode  |-> HeldMode(p, reading, high)]
      [] p.state = "DebouncingRelease" ->
            IF reading >= Noise THEN [p EXCEPT !.state = "Falling"]
            ELSE IF elapsed THEN Resting
            ELSE p

\* The events of an update that takes a pad from p to q.
IsPress(p, q)   == p.state = "Rising" /\ q.state = "Peaking"
IsHold(p, q)    == p.state = "Peaking" /\ q.state = "Holding"
=============================================================================

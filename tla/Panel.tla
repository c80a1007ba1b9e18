-------------------------------- MODULE Panel --------------------------------
(***************************************************************************)
(* The RANDOM, REPEAT and PLAY buttons of the panel and the effects they   *)
(* put the sequencer in.  RANDOM and REPEAT are pressure sensitive: a      *)
(* light and a hard press, with hysteresis and a debounce between any two  *)
(* changes (PressureSensitiveButton).  PizzaControls::update reads one of  *)
(* the analog controls per iteration, in turn, then PLAY; it does not run  *)
(* while a transfer has local control off or the device sleeps.  A key     *)
(* that selects samples goes on doing so at every step while it is held.   *)
(***************************************************************************)
EXTENDS Drumpad, Keypad, RandomEffect

VARIABLES
    touched,  \* RANDOM is being pressed, more or less hard
    random,   \* the RANDOM button: its PressureState, and its debounce over
    repeat,   \* the REPEAT button
    play,     \* the PLAY button
    pad,      \* a drum pad
    fx,       \* the sequencer's effects and whether it runs, see Effects
    local,    \* local control, or "asleep"
    key,      \* the key that chooses a pad's next sample
    cycling,  \* next_active: it chooses one every step
    other     \* what the hand that is not at the buttons is at; pads and keys
              \* share no state, so that one at a time is enough

vars == <<touched, random, repeat, play, pad, fx, local, key, cycling, other>>

-----------------------------------------------------------------------------
(* PressureSensitiveButton *)

PressureState == {"Released", "LightPress", "HardPress"}
Button == [state : PressureState, settled : BOOLEAN]

\* A pressure as it stands to the four thresholds of a button: at or below the
\* light release, up to the light press, up to the hard release, up to the
\* hard press, at or above it.
Off == 0
LightPressure == 2
HardPressure == 4
Pressures == Off..HardPressure

calculate_next_state(state, pressure) ==
    CASE state = "Released" ->
            IF pressure = HardPressure THEN "HardPress"
            ELSE IF pressure >= LightPressure THEN "LightPress" ELSE "Released"
      [] state = "LightPress" ->
            IF pressure = HardPressure THEN "HardPress"
            ELSE IF pressure = Off THEN "Released" ELSE "LightPress"
      [] state = "HardPress" ->
            IF pressure = Off THEN "Released"
            ELSE IF pressure <= LightPressure THEN "LightPress" ELSE "HardPress"

\* update: a change waits until the one before it has settled.
Read(b, pressure) ==
    LET next == calculate_next_state(b.state, pressure)
    IN IF next # b.state /\ b.settled THEN [state |-> next, settled |-> FALSE] ELSE b

-----------------------------------------------------------------------------
(* What the buttons do to the effects *)

\* PressureButtonEventHandler for RANDOM: a light press counts coming from no
\* press, and a hard one coming from a light one.
RandomEvent(f, was, is) ==
    IF is = "LightPress" /\ was = "Released"
    THEN IF f.running THEN enable_random_offset_mode(f) ELSE start_step_highlighting(f)
    ELSE IF is = "Released" /\ was # "Released"
    THEN IF f.running THEN disable_random_offset_mode(f) ELSE stop_step_highlighting(f)
    ELSE IF is = "HardPress" /\ was = "LightPress" /\ f.running
    THEN trigger_random_hard_press_behavior(f)
    ELSE f

\* ... and for REPEAT while running; while stopped it steps the sequencer.
RepeatEvent(f, was, is) ==
    IF ~f.running \/ is = was THEN f
    ELSE set_intended_repeat_state(f, CASE is = "HardPress"  -> 1
                                        [] is = "LightPress" -> 3
                                        [] is = "Released"   -> 0)

\* PlaybuttonEventHandler: a press toggles.
PlayEvent(f, pressed) ==
    IF ~pressed THEN f ELSE IF f.running THEN stop(f) ELSE [f EXCEPT !.running = TRUE]

\* The first thing of an update: a loop does not outlive the run it was in.
ResetRepeat(f) ==
    [(IF f.wasRunning /\ ~f.running THEN set_intended_repeat_state(f, 0) ELSE f)
        EXCEPT !.wasRunning = f.running]

-----------------------------------------------------------------------------
(* PizzaControls::update with RANDOM, REPEAT or another control to read *)

\* PLAY read last, on the sequencer in f; holding it down, no harder than it
\* takes, sends the device to sleep.
PlayRead(f) ==
    \E reading \in Readings, elapsed \in BOOLEAN :
        /\ play' = update_state_machine(play, reading, elapsed, Quiet)
        /\ fx' = PlayEvent(f, IsPress(play, play'))
        /\ local' = IF IsHold(play, play') THEN "asleep" ELSE local

ReadRandom ==
    /\ local = "on"
    /\ \E pressure \in IF touched THEN Pressures \ {Off} ELSE {Off} : random' = Read(random, pressure)
    /\ PlayRead(RandomEvent(ResetRepeat(fx), random.state, random'.state))
    /\ UNCHANGED <<touched, repeat, pad, key, cycling, other>>

ReadRepeat ==
    /\ local = "on"
    /\ \E pressure \in Pressures : repeat' = Read(repeat, pressure)
    /\ PlayRead(RepeatEvent(ResetRepeat(fx), repeat.state, repeat'.state))
    /\ UNCHANGED <<touched, random, pad, key, cycling, other>>

ReadOther ==
    /\ local = "on"
    /\ PlayRead(ResetRepeat(fx))
    /\ UNCHANGED <<touched, random, repeat, pad, key, cycling, other>>

\* A finger comes or goes.
Touch ==
    /\ touched' = ~touched
    /\ UNCHANGED <<random, repeat, play, pad, fx, local, key, cycling, other>>

\* The debounce time of a button passes.
SettleRandom ==
    /\ ~random.settled /\ random' = [random EXCEPT !.settled = TRUE]
    /\ UNCHANGED <<touched, repeat, play, pad, fx, local, key, cycling, other>>

SettleRepeat ==
    /\ ~repeat.settled /\ repeat' = [repeat EXCEPT !.settled = TRUE]
    /\ UNCHANGED <<touched, random, play, pad, fx, local, key, cycling, other>>

\* A transfer over SysEx stops the sequencer and takes the panel away
\* (notification(SysExTransferStateChangeEvent)) ...
TransferStarts ==
    /\ local = "on" /\ local' = "off"
    /\ fx' = stop(fx)
    /\ UNCHANGED <<touched, random, repeat, play, pad, key, cycling, other>>

\* ... until it ends.
TransferEnds ==
    /\ local = "off" /\ local' = "on"
    /\ UNCHANGED <<touched, random, repeat, play, pad, fx, key, cycling, other>>

\* The part of an update that scans the keys, every few milliseconds.
ScanKeys ==
    /\ local = "on" /\ other = "key"
    /\ \E down, elapsed \in BOOLEAN : key' = update_key_state(key, down, elapsed)
    /\ cycling' = ((cycling \/ IsKeyHold(key, key')) /\ ~IsKeyRelease(key, key'))
    /\ UNCHANGED <<touched, random, repeat, play, pad, fx, local, other>>

\* The part that reads the drum pads.
ReadPad ==
    /\ local = "on" /\ other = "pad"
    /\ \E reading \in Readings, elapsed \in BOOLEAN :
          pad' = update_state_machine(pad, reading, elapsed, HighPressure)
    /\ UNCHANGED <<touched, random, repeat, play, fx, local, key, cycling, other>>

KeyAges ==
    /\ key' = Aged(key, TRUE) /\ key' # key
    /\ UNCHANGED <<touched, random, repeat, play, pad, fx, local, cycling, other>>

\* A TempoEvent finds the sequencer stopped.
TempoEvent ==
    /\ cycling /\ ~fx.running /\ cycling' = FALSE
    /\ UNCHANGED <<touched, random, repeat, play, pad, fx, local, key, other>>

NotPressed == [state |-> "Released", settled |-> TRUE]

NoEffects == [state |-> "Inactive", offset |-> FALSE, flip |-> FALSE, highlighted |-> FALSE,
              intends |-> FALSE, repeat |-> 0, running |-> FALSE, wasRunning |-> FALSE]

\* Waking restarts the device.
Wake ==
    /\ local = "asleep" /\ local' = "on"
    /\ random' = NotPressed /\ repeat' = NotPressed /\ play' = Resting /\ pad' = Resting
    /\ key' = Unscanned /\ cycling' = FALSE
    /\ fx' = NoEffects
    /\ UNCHANGED <<touched, other>>

Init ==
    /\ touched \in BOOLEAN
    /\ random = NotPressed /\ repeat = NotPressed /\ play = Resting /\ pad = Resting
    /\ fx = NoEffects
    /\ local = "on"
    /\ key = Unscanned /\ cycling = FALSE
    /\ other \in {"pad", "key"}

Next ==
    \/ ReadRandom \/ ReadRepeat \/ ReadOther \/ ScanKeys \/ ReadPad
    \/ Touch \/ SettleRandom \/ SettleRepeat \/ KeyAges \/ TempoEvent
    \/ TransferStarts \/ TransferEnds \/ Wake

Spec == Init /\ [][Next]_vars

-----------------------------------------------------------------------------
(* Properties *)

\* Every variable stays in its range.
TypeOK ==
    /\ touched \in BOOLEAN
    /\ random \in Button /\ repeat \in Button /\ play \in Pad /\ pad \in Pad
    /\ fx \in Effects
    /\ local \in {"on", "off", "asleep"}
    /\ key \in Key /\ cycling \in BOOLEAN /\ other \in {"pad", "key"}

\* The effect of RANDOM is what its press asked for, whichever buttons were
\* pressed in whatever order: its flags are what its state says, there are no
\* flips while a loop repeats, and a flip once asked for is on whenever no loop
\* holds it back.  It ends with the press that began it, as does the cycling of
\* samples, also when the sequencer was stopped, started or taken away by a
\* transfer in between, and when the key bounced; and a loop of REPEAT ends at
\* the latest before the next run, whose steps would otherwise be taken from it.
NothingOutlivesItsPress ==
    /\ fx.offset = (fx.state \in {"OffsetActive", "OffsetWithFlip"})
    /\ fx.flip = (fx.state = "OffsetWithFlip")
    /\ fx.highlighted = (fx.state = "StepPreview")
    /\ fx.flip => fx.repeat = 0
    /\ fx.intends => fx.state = IF fx.repeat = 0 THEN "OffsetWithFlip" ELSE "OffsetActive"
    /\ random.state = "Released" => fx.state = "Inactive"
    /\ ~fx.wasRunning => fx.repeat = 0
    /\ cycling => IsDown(key)

\* The drum pad as the others see it.
DrumPad == INSTANCE PadProtocol WITH
    pad <- IF pad.mode # "Off" THEN "held"
           ELSE IF pad.state \in {"Idle", "Rising"} THEN "up" ELSE "down",
    squeezed <- pad.mode = "Double"

\* However its reading bounces, a pad asks for a retrigger only while it is
\* held, and for the double one until it is let go (PadProtocol).
ImplementsPad == DrumPad!Spec
=============================================================================

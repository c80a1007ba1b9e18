------------------------------ MODULE Display -------------------------------
(***************************************************************************)
(* What the LEDs show (PizzaDisplay and its modes).  Every iteration of    *)
(* the main loop draws the whole picture of the current mode, over what    *)
(* was in that buffer two frames ago, and shows it.                        *)
(*                                                                         *)
(* Colours and the flashing of the play button are left out: an LED is     *)
(* dark or shows what it was painted for, at a brightness.                 *)
(***************************************************************************)
EXTENDS Naturals

CONSTANTS
    NUM_TRACKS, NUM_STEPS,
    MaxBrightness,   \* levels, 1 being as good as none
    Dark,
    None             \* no progress to show

ASSUME TracksAssumption == NUM_TRACKS \in Nat \ {0} /\ NUM_STEPS \in Nat \ {0}
ASSUME BrightnessAssumption == MaxBrightness \in Nat /\ 1 < MaxBrightness

VARIABLES
    state,      \* the system's: see SystemMode
    mode,       \* current_mode_, and the one that a sleeping display dims
    boot,       \* _boot_animation_track_index
    progress,   \* of a transfer
    brightness, \* of the LEDs painted from now on
    enabled,    \* PIZZA_LED_ENABLE_PIN
    buffers, drawing, dma, sem, alarm, recent, show,
    asked       \* history: for each buffer, the picture it was drawn for

displayVars == <<state, mode, boot, progress, brightness, enabled,
                 buffers, drawing, dma, sem, alarm, recent, show, asked>>

-----------------------------------------------------------------------------
Tracks == 0..NUM_TRACKS - 1
PlayButton == <<"play">>
PadLed(t) == <<"pad", t>>
Step(t, s) == <<"step", t, s>>
Leds == {PlayButton} \cup {PadLed(t) : t \in Tracks} \cup {Step(t, s) : t \in Tracks, s \in 0..NUM_STEPS - 1}

Strip == INSTANCE LedStrip

\* The steps in the order of the progress bar.
Bar(n) == {Step(t, s) : t \in Tracks, s \in 0..NUM_STEPS - 1} \cap
          {Step(i \div NUM_STEPS, i % NUM_STEPS) : i \in {j \in 0..NUM_TRACKS * NUM_STEPS : j < n}}

Ring(t) == {Step(t, s) : s \in 0..NUM_STEPS - 1}

-----------------------------------------------------------------------------
(* draw, of the four modes, over a buffer *)

Paint(by, level) == [by |-> by, at |-> level]

\* Mutant: the picture is painted over what the buffer held.
FileTransferOver(buffer, level, lit, done) ==
    LET play == Strip!Painted(buffer, {PlayButton}, IF lit THEN Paint("transfer", level) ELSE Dark)
    IN IF done = None THEN play ELSE Strip!Painted(play, Bar(done), Paint("transfer", level))

\* FileTransferDisplayMode
FileTransfer(buffer, level, lit, done) ==
    LET play == Strip!Painted(Strip!Cleared, {PlayButton}, IF lit THEN Paint("transfer", level) ELSE Dark)
    IN IF done = None THEN play ELSE Strip!Painted(play, Bar(done), Paint("transfer", level))

\* BootAnimationMode: a ring, and the pads down to its track.
BootAnimation(buffer, level, track) ==
    Strip!Painted(Strip!Cleared, Ring(track) \cup {PadLed(t) : t \in track..NUM_TRACKS - 1},
                  Paint("boot", level))

\* SequencerDisplayMode: the play button, all steps, with their traces and the
\* cursor, and all pads.
BaseElements(buffer, paint) == Strip!Painted(buffer, {PlayButton}, paint)
SequencerState(buffer, paint) == Strip!Painted(buffer, UNION {Ring(t) : t \in Tracks}, paint)
Animations(buffer, paint) == Strip!Painted(buffer, {PadLed(t) : t \in Tracks}, paint)

Sequencer(buffer, level) ==
    LET paint == Paint("sequencer", level)
    IN Animations(SequencerState(BaseElements(buffer, paint), paint), paint)

\* A picture: the mode that drew it, for what.
Picture(by, level, of) == [by |-> by, at |-> level, of |-> of]
Black == Picture("none", 0, 0)

-----------------------------------------------------------------------------
(* PizzaDisplay *)

Drawn(frame, picture) ==
    /\ buffers' = [buffers EXCEPT ![drawing] = frame]
    /\ asked' = [asked EXCEPT ![drawing] = picture]

DrawSequencer(level) ==
    Drawn(Sequencer(buffers[drawing], level), Picture("sequencer", level, 0))

UnchangedStrip == UNCHANGED <<drawing, dma, sem, alarm, recent>>
Drawing == ~show /\ show' = TRUE /\ UnchangedStrip

UpdateSequencer ==
    /\ mode = "sequencer" /\ Drawing
    /\ DrawSequencer(brightness)
    /\ UNCHANGED <<state, mode, boot, progress, brightness, enabled>>

UpdateTransfer ==
    /\ mode = "transfer" /\ Drawing
    /\ \E lit \in BOOLEAN :
          Drawn(FileTransfer(buffers[drawing], brightness, lit, progress),
                Picture("transfer", brightness, [lit |-> lit, done |-> progress]))
    /\ UNCHANGED <<state, mode, boot, progress, brightness, enabled>>

\* The animation goes on to the next track, or to the sequencer and leaves
\* this picture to it.
UpdateBoot ==
    /\ mode = "boot" /\ Drawing
    /\ \/ /\ \E next \in {boot, boot - 1} \cap Nat :
                /\ boot' = next
                /\ Drawn(BootAnimation(buffers[drawing], brightness, next),
                         Picture("boot", brightness, next))
          /\ UNCHANGED mode
       \/ /\ boot = 0 /\ mode' = "sequencer"
          /\ UNCHANGED <<buffers, asked, boot>>
    /\ UNCHANGED <<state, progress, brightness, enabled>>

\* Dimming, by time, down to where the LEDs are turned off.
UpdateSleep ==
    /\ mode = "sleep" /\ state = "FallingAsleep" /\ Drawing
    /\ \E level \in 0..brightness :
          /\ brightness' = level
          /\ IF level > 1
             THEN DrawSequencer(level) /\ UNCHANGED enabled
             ELSE Drawn(Strip!Cleared, Black) /\ enabled' = FALSE
    /\ UNCHANGED <<state, mode, boot, progress>>

\* A transfer's progress, known of some.
TransferEvent ==
    /\ ~show /\ state \in {"Sequencer", "FileTransfer"}
    /\ progress' \in {None} \cup (0..NUM_TRACKS * NUM_STEPS)
    /\ UNCHANGED <<state, mode, boot, brightness, enabled, buffers, show, asked>>
    /\ UnchangedStrip

\* The modes, by the system's state, as the main loop sees it.
Switched(to, shown) ==
    /\ ~show /\ state' = to /\ mode' = shown
    /\ UNCHANGED <<boot, progress, brightness, show>> /\ UnchangedStrip

BootEnds ==
    state = "Boot" /\ Switched("Sequencer", "sequencer") /\ UNCHANGED <<enabled, buffers, asked>>

TransferBegins ==
    state = "Sequencer" /\ Switched("FileTransfer", "transfer") /\ Drawn(Strip!Cleared, Black)
    /\ UNCHANGED enabled

TransferShownEnds ==
    state = "FileTransfer" /\ Switched("Sequencer", "sequencer") /\ UNCHANGED <<enabled, buffers, asked>>

FallAsleep ==
    state = "Sequencer" /\ Switched("FallingAsleep", "sleep") /\ UNCHANGED <<enabled, buffers, asked>>

\* After its time, dimmed or not.
Sleep ==
    /\ state = "FallingAsleep" /\ Switched("Sleep", "sleep")
    /\ enabled' = FALSE /\ UNCHANGED <<buffers, asked>>

\* init() has cleared a buffer and shown it; then start_boot_animation.
DisplayInit ==
    /\ state = "Boot" /\ mode = "boot" /\ boot = NUM_TRACKS - 1 /\ progress = None
    /\ brightness = MaxBrightness /\ enabled = TRUE
    /\ Strip!LedInit /\ show = TRUE
    /\ asked = [b \in {0, 1} |-> Black]

StripStep == Strip!LedNext /\ UNCHANGED <<state, mode, boot, progress, brightness, enabled, asked>>

DisplayNext ==
    \/ UpdateSequencer \/ UpdateTransfer \/ UpdateBoot \/ UpdateSleep \/ TransferEvent
    \/ BootEnds \/ TransferBegins \/ TransferShownEnds \/ FallAsleep \/ Sleep
    \/ StripStep

DisplaySpec == DisplayInit /\ [][DisplayNext]_displayVars

-----------------------------------------------------------------------------
(* Properties *)

DisplayTypeOK ==
    /\ state \in {"Boot", "Sequencer", "FileTransfer", "FallingAsleep", "Sleep"}
    /\ mode \in {"boot", "sequencer", "transfer", "sleep"}
    /\ boot \in Tracks /\ brightness \in 0..MaxBrightness
    /\ drawing \in {0, 1} /\ sem \in {0, 1} /\ dma.buffer \in {0, 1}
    /\ \A b \in {0, 1} : \A l \in Leds :
          buffers[b][l] \in {Dark} \cup [by : {"boot", "sequencer", "transfer"}, at : 0..MaxBrightness]

\* The LEDs that a picture lights.
Lit(p) ==
    CASE p.by = "sequencer" -> Leds
      [] p.by = "boot" -> Ring(p.of) \cup {PadLed(t) : t \in {t \in Tracks : p.of <= t}}
      [] p.by = "transfer" ->
            (IF p.of.lit THEN {PlayButton} ELSE {}) \cup
            (IF p.of.done = None THEN {} ELSE {l \in Leds : l \in Bar(p.of.done)})
      [] OTHER -> {}

\* A frame that is sent is one picture, at one brightness, and nobody draws to
\* it meanwhile: no LED is left from an earlier mode, an earlier progress or a
\* brighter frame, although each buffer is painted over and frames are skipped.
FrameIsWhole ==
    dma.state = "running" =>
        LET p == asked[dma.buffer] IN
        /\ dma.buffer # drawing
        /\ \A l \in Leds : buffers[dma.buffer][l] =
                           IF l \in Lit(p) THEN Paint(p.by, p.at) ELSE Dark

ShowReturns == Strip!ShowReturns
=============================================================================

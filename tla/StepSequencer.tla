--------------------------- MODULE StepSequencer ---------------------------
(***************************************************************************)
(* SequencerController and its swing and repeat effects: which TempoEvent  *)
(* makes a step due, and when the main loop plays it.  The environment is  *)
(* the stream of TempoEvents the clock chain promises (TempoStream).  The  *)
(* handler runs inside the tick's call chain and only sets a flag; the     *)
(* step is played by update() in a later iteration of the main loop, with  *)
(* the play button, the SWING knob and the REPEAT button in between.       *)
(*                                                                         *)
(* The 32-bit step counter is kept modulo NumSteps (a power of two), and   *)
(* the steps since REPEAT was pressed modulo 3, a multiple of each length. *)
(* What a step sounds like (pattern, RANDOM, retriggered notes) is left    *)
(* out.                                                                    *)
(***************************************************************************)
EXTENDS Integers

CONSTANTS
    NumSteps,     \* NUM_STEPS_PER_TRACK
    SwingOffset,  \* SWING_OFFSET_PHASES
    MaxBurst      \* bound: TempoEvents between two calls of update()

ASSUME NumStepsAssumption == NumSteps \in Nat \ {0} /\ NumSteps % 2 = 0
ASSUME SwingAssumption == SwingOffset \in 1..5
\* update() comes round before the next onset of the narrower half, and
\* before the phase runs from a quarter of the cycle to its end.
ASSUME BurstAssumption == MaxBurst \in 1..3 /\ MaxBurst <= 6 - SwingOffset

VARIABLES
    master, waiting, phase,  \* the stream of TempoEvents
    running,   \* _running
    last,      \* last_phase_12_
    due,       \* _step_is_due
    step,      \* scheduled_step_counter_ % NumSteps: the next step
    repeat,    \* SequencerEffectRepeat; length 0 when inactive
    swing,     \* SequencerEffectSwing
    pending,   \* the swing setting for the next downbeat, if any (a set)
    burst,     \* TempoEvents since the last update()
    settled,   \* history: the phase reached 0 by itself since the last jump
    gap,       \* history: phases since a step became due, or Unknown
    strays,    \* history: steps played while stopped that nobody asked for
    substep    \* history: the last TempoEvent marked a retrigger substep

stream == <<master, waiting, phase>>
history == <<burst, settled, gap, strays, substep>>
vars == <<stream, running, last, due, step, repeat, swing, pending, history>>

-----------------------------------------------------------------------------
Anchor == {0, 6}

Stream == INSTANCE TempoStream

Steps == 0..NumSteps - 1
RepeatLength == {1, 3}
Swing == [on : BOOLEAN, delaysOdd : BOOLEAN]
Unknown == 12

Before(p) == (p + 11) % 12

\* align_to_last_anchor
AnchorOf(l) == IF l < 6 THEN 0 ELSE 6

-----------------------------------------------------------------------------
(* The effects *)

NoRepeat == [length |-> 0, start |-> 0, since |-> 0]

\* SequencerEffectRepeat::calculate_step_index
BaseStepIndex ==
    IF repeat.length = 0 THEN step
    ELSE (repeat.start + (repeat.since % repeat.length)) % NumSteps

\* set_intended_repeat_state: pressed, changed or released (length 0).
Repeated(length) ==
    IF length = 0             THEN NoRepeat
    ELSE IF repeat.length = 0 THEN [length |-> length, start |-> step, since |-> 0]
    ELSE                           [repeat EXCEPT !.length = length]

\* Mutant: under REPEAT too the pattern index decides.
NextIsEvenByIndex == BaseStepIndex % 2 = 0

\* The parity of the next step: under REPEAT the transport's own, so that a
\* loop of odd length keeps time.
NextIsEven ==
    IF repeat.length > 0 THEN step % 2 = 0 ELSE BaseStepIndex % 2 = 0

\* onset_phase_for_parity
Onset(s, even) ==
    (IF even THEN 0 ELSE 6)
      + (IF s.on /\ (s.delaysOdd <=> ~even) THEN SwingOffset ELSE 0)

\* Sixteenths, or triplets under swing, aligned to the next step.
Substeps(s, onset) ==
    {(onset + k) % 12 : k \in IF s.on THEN {0, 4, 8} ELSE {0, 3, 6, 9}}

\* Mutant: a wrap at the end of the cycle is not looked behind.
PassedUnwrapped(l, p) == l + 1 .. p

\* The phases after l up to and including p.
Passed(l, p) ==
    IF p < l THEN (l + 1 .. 11) \cup (0 .. p) ELSE l + 1 .. p

-----------------------------------------------------------------------------
(* TempoEvents *)

\* Mutant: a new setting takes effect at once.
SwingAtOnce(p) == IF pending # {} /\ p \in 0..11 THEN CHOOSE s \in pending : TRUE ELSE swing

\* A new setting takes effect on the downbeat.
SwingAt(p) == IF pending # {} /\ p = 0 THEN CHOOSE s \in pending : TRUE ELSE swing

\* The sequencer hears phase p, having heard everything up to l.
Hears(p, l) ==
    LET onset    == Onset(SwingAt(p), NextIsEven)
        isDue    == onset \in Passed(l, p)
    IN  /\ swing' = SwingAt(p)
        /\ pending' = IF p = 0 THEN {} ELSE pending
        /\ last' = p
        /\ due' = (due \/ isDue)
        /\ substep' = (Substeps(SwingAt(p), onset) \cap Passed(l, p) # {})

\* The phase has advanced by one.
HearsTick(p) ==
    /\ Hears(p, last)
    /\ settled' = (settled \/ p = 0)
    /\ gap' = CASE due' /\ ~due -> 0
                [] due' = due /\ gap < Unknown -> gap + 1
                [] OTHER -> Unknown

HearsJump(p, resync) ==
    /\ Hears(p, IF resync THEN Before(p) ELSE last)
    /\ settled' = FALSE
    /\ gap' = Unknown

NotHeard == UNCHANGED <<last, due, swing, pending, settled, gap, substep>>

Event(heard) ==
    /\ IF running THEN heard /\ burst < MaxBurst /\ burst' = burst + 1
                  ELSE NotHeard /\ UNCHANGED burst
    /\ UNCHANGED <<running, step, repeat, strays>>

Tick ==
    /\ Stream!Advance
    /\ Event(HearsTick(phase'))

InternalTick == master = "INTERNAL" /\ Tick

\* A beat of the jack snaps the phase and is no resync.
Beat ==
    /\ Stream!Downbeat
    /\ Event(HearsJump(phase', FALSE))

MidiRestart ==
    /\ Stream!Restart
    /\ phase' = 0
    /\ Event(HearsJump(0, TRUE))

\* A source other than the jack announces itself with a resync.
ChangeMaster ==
    /\ \E m \in {"INTERNAL", "MIDI", "EXTERNAL_SYNC"} : Stream!ChangeMaster(m)
    /\ IF master' = "EXTERNAL_SYNC"
         THEN UNCHANGED <<running, last, due, step, repeat, swing, pending, history>>
         ELSE Event(HearsJump(0, TRUE))

-----------------------------------------------------------------------------
(* The main loop *)

\* Playback begins at the last anchor, at once or with the next beat of the
\* jack.  PizzaControls clears REPEAT before it reads the play button.
Start ==
    /\ ~running
    /\ repeat.length = 0
    /\ running' = TRUE
    /\ IF master = "EXTERNAL_SYNC"
         THEN /\ Stream!Hold
              /\ last' = Before(AnchorOf(last))
              /\ UNCHANGED <<due, swing, pending, substep>>
         ELSE /\ Stream!AnchorPlayback
              /\ phase' = AnchorOf(last)
              /\ Hears(phase', Before(phase'))
    /\ burst' = 0 /\ settled' = FALSE /\ gap' = Unknown /\ strays' = 0
    /\ UNCHANGED <<step, repeat>>

\* By the play button or a SysEx transfer; a step that is due stays due.
Stop ==
    /\ running
    /\ running' = FALSE
    /\ burst' = 0 /\ settled' = FALSE /\ gap' = Unknown /\ strays' = 0
    /\ substep' = FALSE
    /\ UNCHANGED <<stream, last, due, step, repeat, swing, pending>>

SetSwing(s) ==
    /\ pending' = {s}
    /\ UNCHANGED <<stream, running, last, due, step, repeat, swing, history>>

\* The REPEAT button while running.
SetRepeat(length) ==
    /\ running
    /\ repeat' = Repeated(length)
    /\ UNCHANGED <<stream, running, last, due, step, swing, pending, history>>

\* PizzaControls notices that the sequencer has stopped.
ClearRepeat ==
    /\ ~running
    /\ repeat' = NoRepeat
    /\ UNCHANGED <<stream, running, last, due, step, swing, pending, history>>

\* The REPEAT button while stopped plays a step.
ManualStep ==
    /\ ~running
    /\ due' = TRUE
    /\ strays' = 0
    /\ UNCHANGED <<stream, running, last, step, repeat, swing, pending,
                   burst, settled, gap, substep>>

PlayStep ==
    /\ due' = FALSE
    /\ step' = (step + 1) % NumSteps
    /\ repeat' = IF repeat.length = 0 THEN repeat
                 ELSE [repeat EXCEPT !.since = (@ + 1) % 3]

\* update() does not ask whether the sequencer runs.
Update ==
    /\ IF due THEN PlayStep ELSE UNCHANGED <<due, step, repeat>>
    /\ strays' = IF due /\ ~running /\ strays < 2 THEN strays + 1 ELSE strays
    /\ burst' = 0
    /\ UNCHANGED <<stream, running, last, swing, pending, settled, gap, substep>>

-----------------------------------------------------------------------------
Init ==
    /\ Stream!Init
    /\ running = FALSE
    /\ last = 0
    /\ due = FALSE
    /\ step = 0
    /\ repeat = NoRepeat
    /\ swing = [on |-> FALSE, delaysOdd |-> TRUE]
    /\ pending \in {{s} : s \in Swing}
    /\ burst = 0 /\ settled = FALSE /\ gap = Unknown /\ strays = 0
    /\ substep = FALSE

Next ==
    \/ Tick
    \/ Beat
    \/ MidiRestart
    \/ ChangeMaster
    \/ Start
    \/ Stop
    \/ \E s \in Swing : SetSwing(s)
    \/ \E length \in RepeatLength \cup {0} : SetRepeat(length)
    \/ ClearRepeat
    \/ ManualStep
    \/ Update

\* In the Sequencer mode, the only one in which playback goes on, the main
\* loop comes round to update() and, under the internal clock, to its tick.
Fairness == WF_vars(Update) /\ WF_vars(InternalTick)

Spec == Init /\ [][Next]_vars /\ Fairness

-----------------------------------------------------------------------------
(* Properties *)

\* Every variable stays within its type.
TypeOK ==
    /\ master \in {"INTERNAL", "MIDI", "EXTERNAL_SYNC"}
    /\ waiting \in BOOLEAN
    /\ phase \in 0..11
    /\ running \in BOOLEAN
    /\ last \in 0..11
    /\ due \in BOOLEAN
    /\ step \in Steps
    /\ repeat \in [length : RepeatLength \cup {0}, start : Steps, since : 0..2]
    /\ swing \in Swing
    /\ pending \in {{}} \cup {{s} : s \in Swing}
    /\ burst \in 0..MaxBurst
    /\ settled \in BOOLEAN
    /\ gap \in 0..Unknown
    /\ strays \in 0..2
    /\ substep \in BOOLEAN

\* The next step once the one that is due has been played.
NextIsEvenAfterDue == (IF due THEN step + 1 ELSE step) % 2 = 0

\* Once the phase has come round to 0 by itself, no onset passes untaken and
\* none is taken twice: past the onset of its half of the cycle a step has
\* been played or is due, whatever became of swing, REPEAT and the delay of
\* update() meanwhile.
OnsetTaken ==
    running /\ settled =>
        /\ last \in Onset(swing, TRUE) .. 5 => ~NextIsEvenAfterDue
        /\ last \in Onset(swing, FALSE) .. 11 => NextIsEvenAfterDue

\* Consecutive steps of a stream that does not jump lie half a cycle apart,
\* give or take the swing offset, even while swing and REPEAT change.
SteadyGaps ==
    [][Tick /\ running /\ gap # Unknown =>
         IF due' /\ ~due THEN gap + 1 >= 6 - SwingOffset
                         ELSE gap + 1 < 6 + SwingOffset]_vars

\* Retriggered notes keep one grid: it does not depend on which step comes
\* next, hence not on how late update() plays the step that is due.
OneSubstepGrid ==
    [][Tick /\ running => (substep' <=> phase' \in Substeps(swing', Onset(swing', TRUE)))]_vars

\* A step that came due before the sequencer stopped may still sound
\* afterwards; another one may not, unless REPEAT asks for it.
StopSettles == strays <= 1

\* A running sequencer on the internal clock plays its pattern for ever.
KeepsPlaying ==
    <>[](running /\ master = "INTERNAL") => []<>(step = 0) /\ []<>(step # 0)
=============================================================================

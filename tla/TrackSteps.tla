----------------------------- MODULE TrackSteps -----------------------------
(***************************************************************************)
(* Which step of the pattern a track plays, when a step is due: REPEAT     *)
(* takes it out of a loop, and RANDOM moves it by an offset, drawn for     *)
(* every step or, under REPEAT, one of three that were drawn when RANDOM   *)
(* was pressed; and the traces that hits on the pad leave on the ring of   *)
(* LEDs, which fade with the ticks.                                        *)
(*                                                                         *)
(* Tracks differ in nothing but their offsets and hits: there is one.      *)
(* When a step is due is StepSequencer's business, and where in a step a   *)
(* hit falls that of the phase: here both may be as they like.  Traces     *)
(* depend on the rest through the step last played only, any step here, so *)
(* that they have a next-state relation of their own.                      *)
(***************************************************************************)
EXTENDS RandomEffect, Sequences

CONSTANTS
    PatternLength,  \* NUM_STEPS_PER_TRACK
    Draws,          \* bound: the offsets that may be drawn at once
    TraceTicks,     \* TRACE_FADE_TICKS
    MaxElapsed      \* bound: ticks between two calls of update()

PatternSteps == 0..PatternLength - 1
NotPlayed == PatternLength

ASSUME LengthAssumption == PatternLength \in Nat \ {0}
ASSUME DrawsAssumption == Draws \subseteq [0..2 -> PatternSteps]
ASSUME TicksAssumption == TraceTicks \in Nat /\ MaxElapsed \in Nat

VARIABLES
    fx,       \* the effects, see RandomEffect
    counter,  \* scheduled_step_counter_, modulo the pattern's length
    loop,     \* SequencerEffectRepeat: the step it began with, and the steps
              \* since then, modulo 3
    offsets,  \* random_offsets_per_track_
    index,    \* current_offset_index_per_track_
    played,   \* just_played_step, for LoopRepeats
    heard,    \* history: the last steps played in a loop nobody has changed
    traces    \* the traces and what they depend on, see Traces

stepVars == <<fx, counter, loop, offsets, index, played, heard>>
trackVars == <<stepVars, traces>>

-----------------------------------------------------------------------------
(* Which step *)

\* SequencerEffectRepeat::calculate_step_index
base_step_index ==
    IF fx.repeat = 0 THEN counter ELSE (loop.start + (loop.since % fx.repeat)) % PatternLength

\* The offsets calculate_randomized_step may add.
Offsets ==
    IF ~fx.offset THEN {0} ELSE IF fx.repeat # 0 THEN {offsets[index]} ELSE PatternSteps

\* Mutant: under a hard press, too, the offsets take turns.
advance_all_indices == IF fx.offset /\ fx.repeat # 0 THEN (index + 1) % 3 ELSE index

\* advance_offset_indices: in a loop of three steps each has its own offset.
advance_offset_indices == IF fx.offset /\ fx.repeat = 3 THEN (index + 1) % 3 ELSE index

\* SequencerController::update plays a step that is due, whether running or not.
PlayTrack ==
    /\ \E offset \in Offsets : played' = (base_step_index + offset) % PatternLength
    /\ index' = advance_offset_indices
    /\ counter' = (counter + 1) % PatternLength
    /\ loop' = IF fx.repeat = 0 THEN loop ELSE [loop EXCEPT !.since = (@ + 1) % 3]
    /\ heard' = IF fx.repeat = 0 THEN << >>
                ELSE Append(IF Len(heard) = 3 THEN Tail(heard) ELSE heard, played')
    /\ UNCHANGED <<fx, offsets>>

-----------------------------------------------------------------------------
(* The buttons *)

\* Leaving the offsets starts again with the first one (enable_offset_mode).
Restarted(f) ==
    IF f.state # fx.state /\ fx.state \in {"OffsetActive", "OffsetWithFlip"} THEN 0 ELSE index

Changed(f) ==
    /\ fx' = f /\ index' = Restarted(f) /\ heard' = << >>
    /\ UNCHANGED <<counter, offsets, played>>

regenerate_offsets == offsets' \in Draws /\ index' = 0

\* RANDOM, pressed lightly or hard, always draws anew ...
PressRandom ==
    /\ fx.running
    /\ fx' \in {enable_random_offset_mode(fx), trigger_random_hard_press_behavior(fx)}
    /\ regenerate_offsets /\ heard' = << >>
    /\ UNCHANGED <<counter, loop, played>>

\* ... and is let go; while stopped it shows steps instead.
ReleaseRandom ==
    /\ Changed(IF fx.running THEN disable_random_offset_mode(fx) ELSE stop_step_highlighting(fx))
    /\ UNCHANGED loop

PreviewSteps ==
    /\ ~fx.running
    /\ Changed(start_step_highlighting(fx))
    /\ UNCHANGED loop

\* REPEAT, pressed, changed or let go: a loop begins with the next step.
PressRepeat ==
    /\ fx.running
    /\ \E length \in {0, 1, 3} \ {fx.repeat} :
          /\ Changed(set_intended_repeat_state(fx, length))
          /\ loop' = IF fx.repeat = 0 THEN [start |-> counter, since |-> 0] ELSE loop

\* PizzaControls has ended the loop of the run before.
StartPlaying ==
    /\ ~fx.running /\ fx.repeat = 0
    /\ fx' = [fx EXCEPT !.running = TRUE]
    /\ played' = NotPlayed
    /\ UNCHANGED <<counter, loop, offsets, index, heard>>

StopPlaying ==
    /\ fx.running
    /\ Changed(stop(fx))
    /\ UNCHANGED loop

\* PizzaControls notices that the sequencer has stopped.
EndLoop ==
    /\ ~fx.running
    /\ Changed(set_intended_repeat_state(fx, 0))
    /\ UNCHANGED loop

-----------------------------------------------------------------------------
(* Traces *)

\* A velocity is counted in the ticks it has left.
Traces ==
    [running  : BOOLEAN,                        \* _running
     step     : PatternSteps,                   \* just_played_step, or get_current_step()
     velocity : [PatternSteps -> 0..TraceTicks],  \* trace_velocities_
     elapsed  : 0..MaxElapsed,                  \* pending_trace_fade_ticks_
     age      : [PatternSteps -> 0..TraceTicks]]  \* history: ticks since a trace's hit

fade_traces(t) ==
    [t EXCEPT !.velocity = [s \in PatternSteps |-> IF @[s] > t.elapsed THEN @[s] - t.elapsed ELSE 0],
              !.elapsed = 0]

Zones == {"Early", "Middle", "Late"}

\* Where a hit in that zone belongs: to no step if it is between two of them,
\* and to the next one if it is late.
TraceStep(step, zone) ==
    CASE zone = "Early"  -> {step}
      [] zone = "Middle" -> {}
      [] zone = "Late"   -> {(step + 1) % PatternLength}

Traced(t, steps) ==
    [t EXCEPT !.velocity = [s \in PatternSteps |-> IF s \in steps THEN TraceTicks ELSE @[s]],
              !.age = [s \in PatternSteps |-> IF s \in steps THEN 0 ELSE @[s]]]

\* Mutant: the ticks before the hit are left to the next update.
record_pad_hit_traceUndrained(t, zone) ==
    IF t.running THEN Traced(t, TraceStep(t.step, zone)) ELSE t

\* The ticks before the hit do not age it.
record_pad_hit_trace(t, zone) ==
    IF t.running THEN Traced(fade_traces(t), TraceStep(t.step, zone)) ELSE t

\* A hit by hand, over MIDI, or by a retrigger.
Hit == \E zone \in Zones : traces' = record_pad_hit_trace(traces, zone)

\* The sequencer hears of a tick, or of several at once after a jump.
TraceTick ==
    /\ traces.running
    /\ \E ticks \in 1..MaxElapsed - traces.elapsed :
          traces' = [traces EXCEPT
                        !.elapsed = @ + ticks,
                        !.age = [s \in PatternSteps |->
                                    IF @[s] + ticks > TraceTicks THEN TraceTicks ELSE @[s] + ticks]]

\* update: retriggers that are due come before the fading, and the step with
\* its own retrigger after it.
TraceUpdate ==
    \E due \in BOOLEAN, zone \in Zones :
        LET t == fade_traces(IF due THEN record_pad_hit_trace(traces, zone) ELSE traces)
        IN  \/ traces' = t
            \/ \E step \in PatternSteps :
                  \/ traces' = [t EXCEPT !.step = step]
                  \/ traces' = record_pad_hit_trace([t EXCEPT !.step = step], zone)

\* start forgets the step last played; stop clears the traces, and leaves what
\* elapsed to the next update.
TraceRuns ==
    \/ ~traces.running
       /\ \E step \in PatternSteps : traces' = [traces EXCEPT !.running = TRUE, !.step = step]
    \/ traces.running
       /\ traces' = [traces EXCEPT !.running = FALSE, !.velocity = [s \in PatternSteps |-> 0],
                                   !.age = [s \in PatternSteps |-> TraceTicks]]

-----------------------------------------------------------------------------
TrackInit ==
    /\ fx = [state |-> "Inactive", offset |-> FALSE, flip |-> FALSE, highlighted |-> FALSE,
             intends |-> FALSE, repeat |-> 0, running |-> FALSE, wasRunning |-> FALSE]
    /\ counter = 0 /\ loop = [start |-> 0, since |-> 0]
    /\ offsets = [i \in 0..2 |-> 0] /\ index = 0
    /\ played = NotPlayed /\ heard = << >>
    /\ traces = [running |-> FALSE, step |-> 0, velocity |-> [s \in PatternSteps |-> 0],
                 elapsed |-> 0, age |-> [s \in PatternSteps |-> TraceTicks]]

StepNext ==
    \/ PlayTrack \/ PressRandom \/ ReleaseRandom \/ PreviewSteps \/ PressRepeat
    \/ StartPlaying \/ StopPlaying \/ EndLoop

TraceNext == Hit \/ TraceTick \/ TraceUpdate \/ TraceRuns

TrackNext ==
    \/ StepNext /\ UNCHANGED traces
    \/ TraceNext /\ UNCHANGED stepVars

TrackSpec == TrackInit /\ [][TrackNext]_trackVars

-----------------------------------------------------------------------------
(* Properties *)

\* Every variable stays in its range.
TrackTypeOK ==
    /\ fx \in Effects
    /\ counter \in PatternSteps
    /\ loop \in [start : PatternSteps, since : 0..2]
    /\ offsets \in [0..2 -> PatternSteps] /\ index \in 0..2
    /\ played \in PatternSteps \cup {NotPlayed}
    /\ heard \in Seq(PatternSteps) /\ Len(heard) <= 3
    /\ traces \in Traces

\* A loop of REPEAT repeats: while no button changes the effects, a step that
\* is played in it is the one that was played its length ago, on the pattern
\* moved by RANDOM as well, for either length and after changes of length.
LoopRepeats ==
    [][ counter' # counter /\ fx.repeat # 0 /\ Len(heard) >= fx.repeat
        => played' = heard[Len(heard) - fx.repeat + 1] ]_trackVars

\* A trace is seen for as many ticks as it is meant to last from its hit on:
\* no less because of ticks that the main loop had still to count, nor more
\* because of a stop.
TracesLast ==
    traces.elapsed = 0 => \A s \in PatternSteps : traces.velocity[s] = TraceTicks - traces.age[s]
=============================================================================

---------------------------- MODULE RandomEffect ----------------------------
(***************************************************************************)
(* SequencerEffectRandom, and what SequencerController makes of it: the    *)
(* state of the RANDOM effect with the flags that are turned on and off    *)
(* with it, under the loops of REPEAT and the stops of the sequencer.      *)
(***************************************************************************)
EXTENDS Integers

RandomEffectState == {"Inactive", "OffsetActive", "OffsetWithFlip", "StepPreview"}

\* repeat is the length of the loop REPEAT plays, 0 if none.
Effects ==
    [state       : RandomEffectState,   \* current_state_
     offset      : BOOLEAN,             \* random_offset_mode_active_
     flip        : BOOLEAN,             \* random_probability_active_
     highlighted : BOOLEAN,             \* random_steps_highlighted_
     intends     : BOOLEAN,             \* random_intends_flip_
     repeat      : {0, 1, 3},
     running     : BOOLEAN,
     wasRunning  : BOOLEAN]             \* _was_running_

\* Leaving a state turns off what it had turned on ...
Left(f) ==
    CASE f.state \in {"OffsetActive", "OffsetWithFlip"} -> [f EXCEPT !.offset = FALSE, !.flip = FALSE]
      [] f.state = "StepPreview" -> [f EXCEPT !.highlighted = FALSE]
      [] f.state = "Inactive" -> f

\* ... and entering one turns on its own.
Entered(f, state) ==
    [f EXCEPT !.state = state,
              !.offset = @ \/ state \in {"OffsetActive", "OffsetWithFlip"},
              !.flip = @ \/ state = "OffsetWithFlip"]

\* Mutant: the constraint is checked after the state has been compared.
TransitionUnderRepeat(f, state, repeating) ==
    IF f.state = state THEN f
    ELSE Entered(Left(f), IF repeating /\ state = "OffsetWithFlip" THEN "OffsetActive" ELSE state)

\* No flips while a loop repeats.
transition_to(f, state, repeating) ==
    LET allowed == IF repeating /\ state = "OffsetWithFlip" THEN "OffsetActive" ELSE state
    IN IF f.state = allowed THEN f ELSE Entered(Left(f), allowed)

request_state(f, state) == transition_to(f, state, f.repeat # 0)

\* set_intended_repeat_state: a loop downgrades the flips, its end restores them.
set_intended_repeat_state(f, length) ==
    LET g == [f EXCEPT !.repeat = length]
    IN IF length # 0 THEN request_state(g, f.state)
       ELSE IF f.repeat # 0 /\ f.offset /\ f.intends
       THEN transition_to(g, "OffsetWithFlip", FALSE)
       ELSE g

\* RANDOM pressed while running, lightly (a press that finds the offsets on
\* draws new ones) ...
enable_random_offset_mode(f) ==
    IF f.offset THEN f ELSE request_state(f, "OffsetActive")

\* ... or harder than that.
trigger_random_hard_press_behavior(f) ==
    [request_state(enable_random_offset_mode(f), "OffsetWithFlip") EXCEPT !.intends = TRUE]

disable_random_offset_mode(f) ==
    [request_state(f, "Inactive") EXCEPT !.intends = FALSE]

start_step_highlighting(f) ==
    transition_to([f EXCEPT !.highlighted = TRUE], "StepPreview", FALSE)

stop_step_highlighting(f) ==
    LET g == [f EXCEPT !.highlighted = FALSE]
    IN IF f.state = "StepPreview" THEN transition_to(g, "Inactive", FALSE) ELSE g

\* A stop ends them all but the loop.
stop(f) ==
    IF ~f.running THEN f
    ELSE [transition_to(f, "Inactive", FALSE) EXCEPT !.running = FALSE, !.intends = FALSE]
=============================================================================

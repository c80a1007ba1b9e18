------------------------------ MODULE Pattern ------------------------------
(***************************************************************************)
(* The pattern of the main sequencer and the edits the panel, the MIDI     *)
(* input and the host make to it: tracks of steps, each with a note, a     *)
(* velocity and a switch, and the note that is active on each track's pad. *)
(* What is kept of it in flash and sent over SysEx is much less: one       *)
(* velocity per step, 0 for a silent one, and the active notes.            *)
(*                                                                         *)
(* A velocity that is not set is 0 here: the code never sets it to 0, and  *)
(* takes both alike.                                                       *)
(***************************************************************************)
EXTENDS Integers

CONSTANTS
    NumTracks,        \* NUM_TRACKS
    NumSteps,         \* NUM_STEPS_PER_TRACK
    Low, High,        \* track_ranges: the notes of each track
    Notes,            \* MIDI notes
    NoNote,           \* a step's note that is not set
    Velocities,       \* MIDI velocities, 1..127
    DefaultVelocity,  \* DEFAULT_STEP_VELOCITY
    HoldVelocity      \* STEP_VELOCITY_ON_HOLD

VARIABLE pattern      \* the main sequencer and the active notes

Tracks == 0..NumTracks - 1
Steps  == 0..NumSteps - 1

ASSUME SizeAssumption == NumTracks \in Nat \ {0} /\ NumSteps \in Nat \ {0}
ASSUME RangeAssumption ==
    /\ Notes \subseteq 0..127
    /\ Low \in [Tracks -> Notes] /\ High \in [Tracks -> Notes]
    /\ \A t \in Tracks : Low[t] <= High[t] /\ Low[t]..High[t] \subseteq Notes
    /\ NoNote \notin Notes
ASSUME VelocityAssumption ==
    /\ Velocities \subseteq 1..127
    /\ {DefaultVelocity, HoldVelocity} \subseteq Velocities

Step == [note : Notes \cup {NoNote}, velocity : Velocities \cup {0}, enabled : BOOLEAN]

\* The main sequencer with the active notes of track_states_.
Pattern == [active : [Tracks -> Notes], step : [Tracks -> [Steps -> Step]]]

\* The constructor: initialize_active_notes, initialize_all_sequencers.
InitialPattern ==
    [active |-> Low,
     step   |-> [t \in Tracks |-> [s \in Steps |->
                   [note |-> Low[t], velocity |-> DefaultVelocity, enabled |-> FALSE]]]]

\* process_track_step sounds a step that has all three.
Audible(p, t, s) ==
    /\ p.step[t][s].enabled
    /\ p.step[t][s].note # NoNote
    /\ p.step[t][s].velocity > 0

-----------------------------------------------------------------------------
(* What is kept *)

SequencerPersistentState ==
    [velocities : [Tracks -> [Steps -> Velocities \cup {0}]], active : [Tracks -> Notes]]

create_persistent_state(p) ==
    [velocities |-> [t \in Tracks |-> [s \in Steps |->
                       IF p.step[t][s].enabled THEN p.step[t][s].velocity ELSE 0]],
     active     |-> p.active]

\* The steps that are on take the active note of their track.
apply_persistent_state(kept) ==
    [active |-> kept.active,
     step   |-> [t \in Tracks |-> [s \in Steps |->
                   IF kept.velocities[t][s] > 0
                   THEN [note |-> kept.active[t], velocity |-> kept.velocities[t][s], enabled |-> TRUE]
                   ELSE [note |-> NoNote, velocity |-> 0, enabled |-> FALSE]]]]

\* The payload of the SysEx messages: the velocities track by track, then
\* the active notes, seven bits each.
encode_sequencer_state(kept) ==
    [i \in 0..NumTracks * NumSteps + NumTracks - 1 |->
        IF i < NumTracks * NumSteps
        THEN kept.velocities[i \div NumSteps][i % NumSteps] % 128
        ELSE kept.active[i - NumTracks * NumSteps] % 128]

decode_sequencer_state(payload) ==
    [velocities |-> [t \in Tracks |-> [s \in Steps |-> payload[t * NumSteps + s]]],
     active     |-> [t \in Tracks |-> payload[NumTracks * NumSteps + t]]]

-----------------------------------------------------------------------------
(* Edits *)

\* set_active_note_for_track and Track::set_note: every step of the track
\* takes the note, the silent ones too.
WithNote(p, t, n) ==
    [p EXCEPT !.active[t] = n,
              !.step[t] = [s \in Steps |-> [p.step[t][s] EXCEPT !.note = n]]]

\* select_note_for_pad: the next note of the track's range, either way round.
SelectedNote(p, t, offset) ==
    Low[t] + ((p.active[t] + offset - Low[t]) % (High[t] - Low[t] + 1))

\* handle_incoming_note_on: the first track whose range has the note.
TracksOf(n) == {t \in Tracks : n \in Low[t]..High[t]}

FirstTrackOf(n) == CHOOSE t \in TracksOf(n) : \A u \in TracksOf(n) : t <= u

\* handle_sequencer_step on a press ...
Pressed(p, t, s) ==
    [p EXCEPT !.step[t][s] =
        IF @.enabled THEN [@ EXCEPT !.enabled = FALSE]
        ELSE [note |-> p.active[t], velocity |-> DefaultVelocity, enabled |-> TRUE]]

\* ... and once the key has been held down.
Held(p, t, s) ==
    [p EXCEPT !.step[t][s].enabled = TRUE, !.step[t][s].velocity = HoldVelocity]
=============================================================================

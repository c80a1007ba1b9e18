----------------------------- MODULE StepSounds -----------------------------
(***************************************************************************)
(* Which notes the drum plays and when it ends them: the steps of the      *)
(* sequencer, the pads and their retrigger, the RANDOM button's flips and  *)
(* previews, the keys that try out a sample, and notes that come in over   *)
(* MIDI.  They all leave through MessageRouter's queue, which holds a      *)
(* note back within the debounce time and drops what does not fit, and     *)
(* which the main loop empties once an iteration.                          *)
(*                                                                         *)
(* An iteration is: the SysEx handler and the keys ("keys"), the pads      *)
(* ("pads"), the RANDOM, REPEAT and PLAY buttons ("buttons"), then in one  *)
(* action SequencerController::update and MessageRouter::update, then      *)
(* MIDI input and the clock ("input").  When a step is due is the clock's  *)
(* business (StepSequencer): here a tick may come in any iteration.        *)
(***************************************************************************)
EXTENDS Pattern, Sequences

CONSTANT QueueSize       \* room in note_event_queue_
ASSUME QueueAssumption == QueueSize \in Nat \ {0}

VARIABLES
    phase,      \* what the iteration of the main loop comes to next
    notes,      \* the router's queue and what the tracks remember, see Notebook
    sounding,   \* the notes a receiver on the MIDI output has been told to play
    running,    \* _running
    stepDue,    \* _step_is_due
    flip,       \* random_probability_active_
    pad,        \* what each pad reports of itself: up, down, or held
    squeezed,   \* a held pad pressed hard: musin::ui::RetriggerMode::Double
    hit,        \* has_velocity_hit
    retrigger,  \* mode_per_track_
    dueMask     \* due_mask_

vars == <<phase, pattern, notes, sounding, running, stepDue, flip,
          pad, squeezed, hit, retrigger, dueMask>>

Event == [note : Notes, on : BOOLEAN]

\* last[t] is the track's last_played_note, recent the notes triggered within
\* the debounce time.  stray is the specification's own: notes that no track
\* will end, because the code plays them without a word to the track or
\* because their note-off did not fit in the queue.
Notebook ==
    [last   : [Tracks -> Notes \cup {NoNote}],
     queue  : Seq(Event),
     recent : SUBSET Notes,
     stray  : SUBSET Notes]

-----------------------------------------------------------------------------
(* MessageRouter *)

Room(b) == Len(b.queue) < QueueSize

\* notification(NoteEvent) for a note-off: it is never held back.
Off(b, n) ==
    IF Room(b) THEN [b EXCEPT !.queue = Append(@, [note |-> n, on |-> FALSE]),
                              !.stray = @ \ {n}]
               ELSE [b EXCEPT !.stray = @ \cup {n}]

\* ... and for a note-on: too soon after the last it is ignored, and a queue
\* that is full drops it with the time of the trigger already recorded.
On(b, n) ==
    IF n \in b.recent THEN b
    ELSE IF Room(b) THEN [b EXCEPT !.queue = Append(@, [note |-> n, on |-> TRUE]),
                                   !.recent = @ \cup {n}]
                    ELSE [b EXCEPT !.recent = @ \cup {n}]

\* A note-on no track remembers.
Untracked(b, n) ==
    LET c == On(b, n)
    IN IF c.queue = b.queue THEN c ELSE [c EXCEPT !.stray = @ \cup {n}]

\* MessageRouter::update: what a receiver has on once it got all of q.
Delivered(q, on) ==
    LET At(n) == {i \in 1..Len(q) : q[i].note = n}
        Final(n) == q[CHOOSE i \in At(n) : \A j \in At(n) : j <= i].on
    IN {n \in Notes : IF At(n) = {} THEN n \in on ELSE Final(n)}

-----------------------------------------------------------------------------
(* The notes of a track *)

\* Mutant: the track's note goes on under the new one.
NoteOnOver(b, t, n) == [On(b, n) EXCEPT !.last[t] = n]

trigger_note_on(b, t, n) ==
    LET ended == IF b.last[t] \notin {NoNote, n} THEN Off(b, b.last[t]) ELSE b
    IN [On(ended, n) EXCEPT !.last[t] = n]

\* A pad that lets go of a note its track no longer plays ends nothing.
trigger_note_off(b, t, n) ==
    IF b.last[t] = n THEN [Off(b, n) EXCEPT !.last[t] = NoNote] ELSE b

Ended(b, t) == IF b.last[t] # NoNote THEN Off(b, b.last[t]) ELSE b

\* process_track_step: the step's own switch, or while flips are on either.
process_track_step(b, t, s, flipped) ==
    LET ended == [Ended(b, t) EXCEPT !.last[t] = NoNote]
        step  == pattern.step[t][s]
        plays == IF flipped THEN ~step.enabled ELSE step.enabled /\ step.velocity > 0
    IN IF plays /\ step.note # NoNote
       THEN [On(ended, step.note) EXCEPT !.last[t] = step.note]
       ELSE ended


\* The tracks in order, as the loops over them run: does[t] is what
\* track t makes of a notebook.
ForEachTrack(does, b) ==
    LET after[n \in 0..NumTracks] == IF n = 0 THEN b ELSE does[n - 1][after[n - 1]]
    IN after[NumTracks]

-----------------------------------------------------------------------------
(* SequencerController *)

\* Retriggered notes that are due: the active note of each track.
retrigger_due(b) ==
    ForEachTrack([t \in Tracks |-> [c \in Notebook |->
                     IF t \in dueMask THEN trigger_note_on(c, t, pattern.active[t]) ELSE c]], b)

\* A step that is due, each track at a step of its own while RANDOM offsets
\* them, with the retrigger of the step itself.
play_step(b, step, flipped) ==
    ForEachTrack([t \in Tracks |-> [c \in Notebook |->
                     LET d == process_track_step(c, t, step[t], t \in flipped)
                     IN IF retrigger[t] = "Step"
                        THEN trigger_note_on(d, t, pattern.active[t]) ELSE d]], b)

\* SequencerController::update and MessageRouter::update.
Update ==
    /\ phase = "update"
    /\ \E step \in [Tracks -> Steps], flipped \in SUBSET (IF flip THEN Tracks ELSE {}) :
          LET due  == retrigger_due(notes)
              done == IF stepDue THEN play_step(due, step, flipped) ELSE due
          IN /\ stepDue \/ (step = [t \in Tracks |-> 0] /\ flipped = {})
             /\ sounding' = Delivered(done.queue, sounding)
             /\ notes' = [done EXCEPT !.queue = <<>>]
    /\ dueMask' = {}
    /\ stepDue' = FALSE
    /\ phase' = "input"
    /\ UNCHANGED <<pattern, running, flip, pad, squeezed, hit, retrigger>>

\* The tracks keep the notes they were told to end.
stop ==
    /\ running' = FALSE
    /\ retrigger' = [t \in Tracks |-> "Off"]
    /\ flip' = FALSE
    /\ notes' = ForEachTrack([t \in Tracks |-> [c \in Notebook |-> Ended(c, t)]], notes)

\* A transfer over SysEx stops the sequencer; the panel is not read meanwhile.
SysExTransfer ==
    /\ phase = "keys" /\ running
    /\ stop
    /\ phase' = "update"
    /\ UNCHANGED <<pattern, sounding, stepDue, pad, squeezed, hit, dueMask>>

\* The host sends a pattern.
SetSequencerState ==
    /\ phase = "keys"
    /\ \E kept \in SequencerPersistentState : pattern' = apply_persistent_state(kept)
    /\ UNCHANGED <<phase, notes, sounding, running, stepDue, flip, pad, squeezed,
                   hit, retrigger, dueMask>>

-----------------------------------------------------------------------------
(* The panel *)

\* handle_sample_select: while stopped the chosen note is played.
SelectSample ==
    /\ phase = "keys"
    /\ \E t \in Tracks, offset \in {-1, 1} :
          LET n == SelectedNote(pattern, t, offset)
          IN /\ pattern' = WithNote(pattern, t, n)
             /\ notes' = IF running THEN notes ELSE trigger_note_on(notes, t, n)
    /\ UNCHANGED <<phase, sounding, running, stepDue, flip, pad, squeezed, hit,
                   retrigger, dueMask>>

\* handle_sequencer_step, press.
PressStep ==
    /\ phase = "keys"
    /\ \E t \in Tracks, s \in Steps :
          /\ pattern' = Pressed(pattern, t, s)
          /\ notes' = IF pattern'.step[t][s].enabled /\ ~running
                      THEN trigger_note_on(notes, t, pattern.active[t]) ELSE notes
    /\ UNCHANGED <<phase, sounding, running, stepDue, flip, pad, squeezed, hit,
                   retrigger, dueMask>>

\* ... and hold.
HoldStep ==
    /\ phase = "keys"
    /\ \E t \in Tracks, s \in Steps : pattern' = Held(pattern, t, s)
    /\ UNCHANGED <<phase, notes, sounding, running, stepDue, flip, pad, squeezed,
                   hit, retrigger, dueMask>>

KeysDone ==
    /\ phase = "keys" /\ phase' = "pads"
    /\ UNCHANGED <<pattern, notes, sounding, running, stepDue, flip, pad, squeezed,
                   hit, retrigger, dueMask>>

\* A pad as the others see it (Drumpad implements it, see Panel).
P(t) == INSTANCE PadProtocol WITH pad <- pad[t], squeezed <- t \in squeezed

\* DrumpadEventHandler for the events of the pads, in order.
PadNotes(b, moved) ==
    ForEachTrack([t \in Tracks |-> [c \in Notebook |->
                     IF pad[t] = "up" /\ moved[t] = "down"
                     THEN trigger_note_on(c, t, pattern.active[t])
                     ELSE IF pad[t] # "up" /\ moved[t] = "up"
                     THEN trigger_note_off(c, t, pattern.active[t])
                     ELSE c]], b)

\* The mode a pad asks for, and only after a hit.
RetriggerMode(p, hard, struck) ==
    IF p # "held" \/ ~struck THEN "Off" ELSE IF hard THEN "Substeps" ELSE "Step"

\* DrumpadComponent::update.
Pads ==
    /\ phase = "pads"
    /\ \E moved \in [Tracks -> {"up", "down", "held"}], hard \in SUBSET Tracks :
          /\ pad' = moved
          /\ squeezed' = hard
          /\ \A t \in Tracks : P(t)!Next \/ UNCHANGED <<pad[t], t \in squeezed>>
          /\ notes' = PadNotes(notes, moved)
          /\ hit' = {t \in Tracks : moved[t] # "up" /\ (t \in hit \/ pad[t] = "up")}
          /\ retrigger' = [t \in Tracks |-> RetriggerMode(moved[t], t \in hard, t \in hit')]
    /\ phase' = "buttons"
    /\ UNCHANGED <<pattern, sounding, running, stepDue, flip, dueMask>>

\* RANDOM pressed while stopped plays a step of each track at random, on no
\* track's account (trigger_random_steps_when_stopped).
PreviewRandom ==
    /\ phase = "buttons" /\ ~running
    /\ \E step \in [Tracks -> Steps] :
          notes' = ForEachTrack([t \in Tracks |-> [b \in Notebook |->
                                    IF Audible(pattern, t, step[t])
                                    THEN Untracked(b, pattern.step[t][step[t]].note) ELSE b]], notes)
    /\ phase' = "play"
    /\ UNCHANGED <<pattern, sounding, running, stepDue, flip, pad, squeezed, hit,
                   retrigger, dueMask>>

\* RANDOM pressed hard, or let go, while running.
Flip ==
    /\ phase = "buttons" /\ running
    /\ flip' \in BOOLEAN
    /\ phase' = "play"
    /\ UNCHANGED <<pattern, notes, sounding, running, stepDue, pad, squeezed, hit,
                   retrigger, dueMask>>

\* REPEAT pressed while stopped plays the next step.
StepOnce ==
    /\ phase = "buttons" /\ ~running
    /\ stepDue' = TRUE
    /\ phase' = "play"
    /\ UNCHANGED <<pattern, notes, sounding, running, flip, pad, squeezed, hit,
                   retrigger, dueMask>>

NoButton ==
    /\ phase = "buttons" /\ phase' = "play"
    /\ UNCHANGED <<pattern, notes, sounding, running, stepDue, flip, pad, squeezed,
                   hit, retrigger, dueMask>>

\* PlaybuttonComponent: toggle.
PlayButton ==
    /\ phase = "play"
    /\ IF running THEN stop ELSE running' = TRUE /\ UNCHANGED <<notes, retrigger, flip>>
    /\ phase' = "update"
    /\ UNCHANGED <<pattern, sounding, stepDue, pad, squeezed, hit, dueMask>>

NoPlayButton ==
    /\ phase = "play" /\ phase' = "update"
    /\ UNCHANGED <<pattern, notes, sounding, running, stepDue, flip, pad, squeezed,
                   hit, retrigger, dueMask>>

-----------------------------------------------------------------------------
(* MIDI input, the clock and the passing of time *)

\* handle_incoming_note_on: played at once, on no track's account, and the
\* track takes the note for its pad and steps.  Note-offs are ignored.
NoteIn ==
    /\ phase = "input"
    /\ \E n \in {m \in Notes : TracksOf(m) # {}} :
          /\ notes' = Untracked(notes, n)
          /\ pattern' = WithNote(pattern, FirstTrackOf(n), n)
    /\ UNCHANGED <<phase, sounding, running, stepDue, flip, pad, squeezed, hit,
                   retrigger, dueMask>>

\* A tempo tick while running: the tracks whose retrigger it makes due, and a
\* sample key held down moves on a sample.
Tick ==
    /\ phase = "input" /\ running
    /\ \E step, substep \in BOOLEAN :
          /\ stepDue' = (stepDue \/ step)
          /\ dueMask' = dueMask \cup
                {t \in Tracks : \/ retrigger[t] = "Step" /\ step
                                \/ retrigger[t] = "Substeps" /\ substep}
    /\ pattern' \in {pattern} \cup
          {WithNote(pattern, t, SelectedNote(pattern, t, offset)) :
              t \in Tracks, offset \in {-1, 1}}
    /\ phase' = "keys"
    /\ UNCHANGED <<notes, sounding, running, flip, pad, squeezed, hit, retrigger>>

\* An iteration without a tick, and with the debounce time of some notes over.
InputDone ==
    /\ phase = "input"
    /\ \E still \in SUBSET notes.recent : notes' = [notes EXCEPT !.recent = still]
    /\ phase' = "keys"
    /\ UNCHANGED <<pattern, sounding, running, stepDue, flip, pad, squeezed, hit,
                   retrigger, dueMask>>

-----------------------------------------------------------------------------
Init ==
    /\ phase = "keys"
    /\ pattern = InitialPattern
    /\ notes = [last |-> [t \in Tracks |-> NoNote], queue |-> <<>>, recent |-> {}, stray |-> {}]
    /\ sounding = {}
    /\ running = FALSE /\ stepDue = FALSE /\ flip = FALSE
    /\ pad = [t \in Tracks |-> "up"] /\ squeezed = {}
    /\ hit = {} /\ retrigger = [t \in Tracks |-> "Off"] /\ dueMask = {}

Next ==
    \/ SysExTransfer \/ SetSequencerState
    \/ SelectSample \/ PressStep \/ HoldStep \/ KeysDone
    \/ Pads
    \/ PreviewRandom \/ Flip \/ StepOnce \/ NoButton
    \/ PlayButton \/ NoPlayButton
    \/ Update
    \/ NoteIn \/ Tick \/ InputDone

Spec == Init /\ [][Next]_vars

-----------------------------------------------------------------------------
(* Properties *)

\* Every variable stays in its range and the queue within its room.
TypeOK ==
    /\ phase \in {"keys", "pads", "buttons", "play", "update", "input"}
    /\ pattern \in Pattern
    /\ notes \in Notebook /\ Len(notes.queue) <= QueueSize
    /\ sounding \subseteq Notes
    /\ {running, stepDue, flip} \subseteq BOOLEAN
    /\ pad \in [Tracks -> {"up", "down", "held"}]
    /\ squeezed \subseteq Tracks /\ hit \subseteq Tracks /\ dueMask \subseteq Tracks
    /\ retrigger \in [Tracks -> {"Off", "Step", "Substeps"}]

\* A note that is on, once the queue is delivered, is the one its track
\* remembers and will end before its next, whatever pads, steps, retriggers,
\* edits of the note and stops came in between; only previews, echoes and
\* notes whose note-off was dropped are on with no track to end them.
NoNoteHangs ==
    Delivered(notes.queue, sounding) \subseteq
        {notes.last[t] : t \in Tracks} \cup notes.stray

=============================================================================

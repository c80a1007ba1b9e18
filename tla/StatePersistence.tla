-------------------------- MODULE StatePersistence --------------------------
(***************************************************************************)
(* How the pattern survives a restart: SequencerController, its            *)
(* SequencerPersistenceManager, SequencerStorage and SaveTimingManager.    *)
(* Every edit marks the state dirty; update(), which the main loop calls   *)
(* in the Sequencer mode only, saves it once it has rested for the         *)
(* debounce time or the last save is the maximum interval ago; falling     *)
(* asleep saves it in any case.                                            *)
(*                                                                         *)
(* Time is a millisecond counter that wraps at Wrap, while its differences *)
(* are taken modulo Word (2^32): time_us_32() / 1000 restarts long before  *)
(* the word it is kept in is full.  A save holds up the main loop, so      *)
(* only a power failure can come in between; littlefs, external here, may  *)
(* then have kept the old file, the new one or an empty one.               *)
(***************************************************************************)
EXTENDS Pattern

CONSTANTS
    Debounce, Interval,  \* SAVE_DEBOUNCE_MS, MAX_SAVE_INTERVAL_MS
    Wrap, Word,          \* the range of the clock; the width of its differences
    NoFile, Torn,        \* no state file; one that does not load
    CloseMayFail,        \* fclose may find that the flash does not take the data
    MaxFailures,         \* bound: saves that cannot open the file
    MaxOutages           \* bound: power failures

ASSUME TimeAssumption ==
    /\ Debounce \in Nat \ {0} /\ Interval \in Nat \ {0} /\ Wrap \in Nat /\ Word \in Nat
    /\ Debounce <= Interval
    /\ Wrap > Interval /\ Word >= Wrap + Interval
ASSUME FlashAssumption == MaxFailures \in Nat /\ MaxOutages \in Nat /\ CloseMayFail \in BOOLEAN
ASSUME FileAssumption == {NoFile, Torn} \cap SequencerPersistentState = {}

VARIABLES
    mode,      \* the system mode, "Off" without power
    ready,     \* storage_.has_value(): the filesystem was mounted at boot
    timing,    \* SaveTimingManager: dirty, last change, last save
    now,       \* the millisecond clock
    looped,    \* update() has run in this millisecond
    file,      \* sequencer_state.dat
    age,       \* history: how long saves could have kept the oldest lost edit
    failures, outages

device == <<mode, pattern, ready, timing>>
persistenceVars == <<device, now, looped, file, age, failures, outages>>

-----------------------------------------------------------------------------
Mode == {"Off", "Boot", "Sequencer", "FileTransfer", "FallingAsleep", "Sleep"}

Clock == 0..Wrap - 1
SaveTimingManager == [dirty : BOOLEAN, change : Clock, save : Clock]

Fresh == [dirty |-> FALSE, change |-> 0, save |-> 0]

mark_dirty(t) == [t EXCEPT !.dirty = TRUE, !.change = now]

mark_clean(t) == [t EXCEPT !.dirty = FALSE, !.save = now]

Since(time) == (now - time) % Word

\* Mutant: a clock that has gone back has not advanced.
should_save_nowMonotonic ==
    /\ timing.dirty
    /\ \/ now >= timing.change /\ now - timing.change >= Debounce
       \/ now >= timing.save   /\ now - timing.save   >= Interval

\* Mutant: there is no maximum interval.
should_save_nowDebounced == timing.dirty /\ Since(timing.change) >= Debounce

should_save_now ==
    /\ timing.dirty
    /\ \/ Since(timing.change) >= Debounce
       \/ Since(timing.save)   >= Interval

\* What a restart makes of the file.
Restored(f) == IF f \in {NoFile, Torn} THEN InitialPattern ELSE apply_persistent_state(f)

Kept == create_persistent_state(pattern)

PersistenceInit ==
    /\ mode = "Off"
    /\ pattern = InitialPattern /\ ready = FALSE /\ timing = Fresh
    /\ now = 0 /\ looped = FALSE
    /\ file \in {NoFile, Torn}
    /\ age = 0 /\ failures = 0 /\ outages = 0

-----------------------------------------------------------------------------
(* Saving *)

\* Mutant: a save that could not open the file leaves the state clean.
SaveOrForget ==
    /\ file' \in {Kept, file}
    /\ timing' = mark_clean(timing) /\ age' = 0
    /\ UNCHANGED failures

\* save_state_to_flash: what fwrite has taken counts as saved, whatever
\* fclose makes of it.
Save ==
    \/ /\ file' \in {Kept} \cup (IF CloseMayFail THEN {file, Torn} ELSE {})
       /\ timing' = mark_clean(timing)
       /\ age' = 0
       /\ UNCHANGED failures
    \/ /\ failures < MaxFailures
       /\ failures' = failures + 1
       /\ UNCHANGED <<file, timing, age>>

\* Without storage a save fails at once.
SaveIfReady == IF ready THEN Save ELSE UNCHANGED <<timing, file, age, failures>>

\* update(): a failed save is tried again in the next iteration.
UpdateState ==
    /\ mode = "Sequencer"
    /\ looped' = TRUE
    /\ IF ready /\ should_save_now THEN Save ELSE UNCHANGED <<timing, file, age, failures>>
    /\ UNCHANGED <<mode, pattern, ready, now, outages>>

\* The clock; iterations of the loop are never a millisecond apart.
Millisecond ==
    /\ mode # "Off"
    /\ mode = "Sequencer" => looped
    /\ now' = (now + 1) % Wrap
    /\ looped' = FALSE
    /\ age' = IF mode = "Sequencer" /\ timing.dirty /\ age < Interval + 2 THEN age + 1 ELSE age
    /\ UNCHANGED <<device, file, failures, outages>>

-----------------------------------------------------------------------------
(* Modes *)

\* main(): an unmounted filesystem leaves the persistence uninitialised.
PowerOn ==
    /\ mode = "Off"
    /\ mode' = "Boot"
    /\ timing' = Fresh
    /\ now' = 0 /\ looped' = FALSE /\ age' = 0
    /\ \/ ready' = FALSE /\ pattern' = InitialPattern
       \/ ready' = TRUE /\ pattern' = Restored(file)
    /\ UNCHANGED <<file, failures, outages>>

Enter(m) == mode' = m /\ looped' = FALSE

StartSequencer ==
    /\ mode \in {"Boot", "FileTransfer"}
    /\ Enter("Sequencer")
    /\ UNCHANGED <<pattern, ready, timing, now, file, age, failures, outages>>

\* update() has run in every iteration that began in the Sequencer mode.
StartTransfer ==
    /\ mode = "Sequencer" /\ looped
    /\ Enter("FileTransfer")
    /\ age' = 0
    /\ UNCHANGED <<pattern, ready, timing, now, file, failures, outages>>

\* The pattern is saved whether dirty or not.
FallAsleep ==
    /\ mode = "Sequencer" /\ looped
    /\ Enter("FallingAsleep")
    /\ SaveIfReady
    /\ UNCHANGED <<pattern, ready, now, outages>>

Sleep ==
    /\ mode = "FallingAsleep"
    /\ Enter("Sleep")
    /\ UNCHANGED <<pattern, ready, timing, now, file, age, failures, outages>>

\* Waking is a reset.
Wake ==
    /\ mode = "Sleep"
    /\ Enter("Off")
    /\ UNCHANGED <<pattern, ready, timing, now, file, age, failures, outages>>

Outage(f) ==
    /\ outages < MaxOutages
    /\ outages' = outages + 1
    /\ Enter("Off")
    /\ file' = f
    /\ UNCHANGED <<pattern, ready, timing, now, age, failures>>

PowerFails == mode # "Off" /\ Outage(file)

\* ... while a save is under way.
PowerFailsInSave ==
    /\ mode = "Sequencer" /\ ready
    /\ \E f \in {Torn, Kept} : Outage(f)

-----------------------------------------------------------------------------
(* Edits: the panel in the Sequencer mode, MIDI in any but Sleep *)

Edit(p) ==
    /\ pattern' = p
    /\ timing' = IF ready THEN mark_dirty(timing) ELSE timing
    /\ UNCHANGED <<mode, ready, now, looped, file, age, failures, outages>>

PressKey ==
    /\ mode = "Sequencer"
    /\ \E t \in Tracks, s \in Steps : Edit(Pressed(pattern, t, s))

HoldKey ==
    /\ mode = "Sequencer"
    /\ \E t \in Tracks, s \in Steps : Edit(Held(pattern, t, s))

EditSample ==
    /\ mode = "Sequencer"
    /\ \E t \in Tracks, offset \in {-1, 1} :
         Edit(WithNote(pattern, t, SelectedNote(pattern, t, offset)))

handle_incoming_note_on ==
    /\ mode \notin {"Off", "Sleep"}
    /\ \E n \in Notes :
         TracksOf(n) # {} /\ Edit(WithNote(pattern, FirstTrackOf(n), n))

\* handle_set_sequencer_state: the host sends any payload that is long enough.
LoadState ==
    /\ mode \notin {"Off", "Sleep"}
    /\ \E kept \in SequencerPersistentState :
         Edit(apply_persistent_state(decode_sequencer_state(encode_sequencer_state(kept))))

PersistenceNext ==
    \/ UpdateState \/ Millisecond
    \/ PowerOn \/ StartSequencer \/ StartTransfer \/ FallAsleep \/ Sleep \/ Wake
    \/ PowerFails \/ PowerFailsInSave
    \/ PressKey \/ HoldKey \/ EditSample \/ handle_incoming_note_on \/ LoadState

\* The main loop runs, time passes, and a transfer or a boot comes to an end.
PersistenceFairness ==
    /\ WF_persistenceVars(UpdateState /\ ~looped) /\ WF_persistenceVars(Millisecond)
    /\ WF_persistenceVars(StartSequencer)

PersistenceSpec == PersistenceInit /\ [][PersistenceNext]_persistenceVars /\ PersistenceFairness
-----------------------------------------------------------------------------
(* Properties *)

PersistenceTypeOK ==
    /\ mode \in Mode /\ pattern \in Pattern /\ ready \in BOOLEAN
    /\ timing \in SaveTimingManager /\ now \in Clock /\ looped \in BOOLEAN
    /\ file \in SequencerPersistentState \cup {NoFile, Torn}
    /\ age \in 0..Interval + 2
    /\ failures \in 0..MaxFailures /\ outages \in 0..MaxOutages

\* A state that counts as clean is the one a restart would give: whatever
\* edits the panel, the MIDI input and the host made, whatever saves and
\* power failures came before, what the musician has is in the file; and one
\* velocity per step and one note per track are enough: each step that sounds
\* would sound with the same note and velocity.
CleanIsStored ==
    mode # "Off" /\ ready /\ ~timing.dirty =>
        /\ Kept = create_persistent_state(Restored(file))
        /\ \A t \in Tracks, s \in Steps :
             Audible(pattern, t, s) => Restored(file).step[t][s] = pattern.step[t][s]

\* While the sequencer runs and no save fails, no edit stays unsaved
\* for longer than the maximum interval, though every further edit starts
\* the debounce anew and the clock goes back to 0 under way; an edit in the
\* last millisecond before that may find the last save recent again, and
\* then waits one more.
SavedInTime == failures = 0 => age <= Interval + 1

\* A dirty state gets saved once the flash lets it, though edits never cease
\* and saves fail before, unless the device leaves the Sequencer mode.
EditsGetSaved ==
    mode = "Sequencer" /\ ready /\ timing.dirty ~> ~timing.dirty \/ mode # "Sequencer"
=============================================================================

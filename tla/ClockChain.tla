----------------------------- MODULE ClockChain -----------------------------
(***************************************************************************)
(* The clock chain of the firmware (musin/timing): the ClockRouter selects *)
(* one raw 24 PPQN source (internal clock, MIDI clock, sync jack), fans    *)
(* its ClockEvents out to MidiClockOut and to the SpeedAdapter, which      *)
(* divides them for the TempoHandler, whose TempoEvents carry a phase in   *)
(* 0..11.  Everything runs on the main loop and every notification is a    *)
(* synchronous call, so a tick travels the whole chain in one action.      *)
(*                                                                         *)
(* Time is abstracted: midiAge says whether the last MIDI clock tick was   *)
(* never seen ("nil"), is younger than MIDI_CLOCK_TIMEOUT_US ("fresh") or  *)
(* older ("stale").  SyncIn's debouncing is abstracted to the cable flag   *)
(* and to beat and interpolated ticks that may come at any time.           *)
(***************************************************************************)
EXTENDS Integers

CONSTANTS
    Knob,            \* positions of the tempo knob
    LowKnob,         \* the positions below 0.1: half speed when slaved
    HighKnob,        \* the positions above 0.9: double speed when slaved
    Anchor,          \* phases start() anchors playback to
    SendWhenStopped  \* SEND_MIDI_CLOCK_WHEN_STOPPED_AS_MASTER

ASSUME KnobAssumption ==
    /\ LowKnob \subseteq Knob
    /\ HighKnob \subseteq Knob
    /\ LowKnob \cap HighKnob = {}
ASSUME AnchorAssumption == Anchor \subseteq 0..11
ASSUME PolicyAssumption == SendWhenStopped \in BOOLEAN

VARIABLES
    source,    \* ClockRouter::current_source_
    attached,  \* the sources whose observer list holds the router
    clocks,    \* the sources' own switches and the internal clock's tempo
    midiAge,   \* age of MidiClockProcessor::_last_raw_tick_time
    cable,     \* SyncIn::is_cable_connected()
    adapter,   \* SpeedAdapter
    tempo,     \* TempoHandler
    out        \* what the last step emitted (history variable)

vars == <<source, attached, clocks, midiAge, cable, adapter, tempo, out>>

-----------------------------------------------------------------------------
ClockSource   == {"INTERNAL", "MIDI", "EXTERNAL_SYNC"}
SpeedModifier == {"HALF_SPEED", "NORMAL_SPEED", "DOUBLE_SPEED"}
SyncState     == {"RUNNING", "WAITING_FOR_BEAT"}
Phase         == 0..11
NoModifier    == "none"

SpeedAdapter == [heard : ClockSource, modifier : SpeedModifier,
                 pending : SpeedModifier \cup {NoModifier}, count : 0..3]
TempoHandler == [modifier : SpeedModifier, phase : Phase, sync : SyncState,
                 knob : Knob, playing : BOOLEAN]

ClockEvent == [source : ClockSource, resync : BOOLEAN, beat : BOOLEAN]
Tick(s)    == [source |-> s, resync |-> FALSE, beat |-> FALSE]
Resync(s)  == [source |-> s, resync |-> TRUE,  beat |-> FALSE]
Beat       == [source |-> "EXTERNAL_SYNC", resync |-> FALSE, beat |-> TRUE]

\* One raw event's worth of output: raw ticks forwarded by the router, MIDI
\* clock bytes sent, TempoEvents emitted.
Quiet == [raw |-> 0, midi |-> 0, tempo |-> 0]

-----------------------------------------------------------------------------
(* SpeedAdapter *)

\* Raw ticks per forwarded tick.
Divider == [HALF_SPEED |-> 4, NORMAL_SPEED |-> 2, DOUBLE_SPEED |-> 1]

\* The modifier in force once a deferred change has been applied.
Requested(a) == IF a.pending = NoModifier THEN a.modifier ELSE a.pending

\* A change is deferred to the next beat when the last event heard came from
\* the sync jack, and applied at once otherwise.
SetModifier(a, m) ==
    IF a.modifier = m /\ a.pending = NoModifier THEN a
    ELSE IF a.heard = "EXTERNAL_SYNC" THEN [a EXCEPT !.pending = m]
    ELSE [heard |-> a.heard, modifier |-> m, pending |-> NoModifier, count |-> 0]

\* Mutant: a beat restarts the count and leaves the change deferred.
AdapterHearsWithoutApplying(a, e) ==
    IF e.resync \/ e.beat THEN [a EXCEPT !.heard = e.source, !.count = 0]
    ELSE [a EXCEPT !.heard = e.source, !.count = (a.count + 1) % 4]

\* tick_counter_ is kept modulo 4: only its remainders by 1, 2 and 4 are read.
AdapterHears(a, e) ==
    IF e.resync THEN [a EXCEPT !.heard = e.source, !.count = 0]
    ELSE IF e.beat THEN [heard |-> e.source, modifier |-> Requested(a),
                         pending |-> NoModifier, count |-> 0]
    ELSE [a EXCEPT !.heard = e.source, !.count = (a.count + 1) % 4]

AdapterForwards(a, e) ==
    \/ e.resync
    \/ e.beat
    \/ ((a.count + 1) % 4) % Divider[a.modifier] = 0

-----------------------------------------------------------------------------
(* TempoHandler *)

\* Phases between two points of the grid a beat may land on.
GridWidth == [HALF_SPEED |-> 3, NORMAL_SPEED |-> 6, DOUBLE_SPEED |-> 12]

\* The phase a beat of the jack snaps to: the nearest point of that grid (the
\* alignment tables of the code hold these values).
AlignedPhase(m, p) ==
    LET g == GridWidth[m] IN (((p + g \div 2) \div g) * g) % 12

NextPhaseWithoutResync(t, e) ==
    IF e.beat /\ e.source = "EXTERNAL_SYNC" THEN AlignedPhase(t.modifier, t.phase)
    ELSE (t.phase + 1) % 12

NextPhase(t, e) ==
    CASE e.beat /\ e.source = "EXTERNAL_SYNC" -> AlignedPhase(t.modifier, t.phase)
      [] e.resync /\ ~e.beat                  -> 0
      [] OTHER                                -> (t.phase + 1) % 12

\* The synchronisation state the event leaves: a beat ends the wait.
SyncAfter(t, e) ==
    IF e.beat /\ e.source = "EXTERNAL_SYNC" THEN "RUNNING" ELSE t.sync

TempoHears(t, e) ==
    IF SyncAfter(t, e) = "WAITING_FOR_BEAT" THEN t
    ELSE [t EXCEPT !.sync = "RUNNING", !.phase = NextPhase(t, e)]

TempoEmits(t, e) == SyncAfter(t, e) = "RUNNING"

-----------------------------------------------------------------------------
(* MidiClockOut, and the fan-out of one event forwarded by the router.      *)

\* Mutant: MIDI ticks are sent although the processor echoes them.
SendsMidiClockOfAny(t, e) ==
    /\ ~e.resync
    /\ e.source = "INTERNAL" => t.playing \/ SendWhenStopped

SendsMidiClock(t, e) ==
    /\ ~e.resync
    /\ \/ e.source = "EXTERNAL_SYNC"
       \/ e.source = "INTERNAL" /\ (t.playing \/ SendWhenStopped)

\* The adapter, tempo handler and outputs after the router forwarded e.
Deliver(c, e) ==
    LET forwards == AdapterForwards(c.adapter, e)
    IN  [adapter |-> AdapterHears(c.adapter, e),
         tempo   |-> IF forwards THEN TempoHears(c.tempo, e) ELSE c.tempo,
         out     |-> [raw   |-> c.out.raw + (IF e.resync THEN 0 ELSE 1),
                      midi  |-> c.out.midi
                                  + (IF SendsMidiClock(c.tempo, e) THEN 1 ELSE 0),
                      tempo |-> c.out.tempo
                                  + (IF forwards /\ TempoEmits(c.tempo, e)
                                       THEN 1 ELSE 0)]]

Chain == [adapter |-> adapter, tempo |-> tempo, out |-> Quiet]

Becomes(c) == adapter' = c.adapter /\ tempo' = c.tempo /\ out' = c.out

-----------------------------------------------------------------------------
(* The tempo knob and source changes *)

\* What the knob asks of the adapter under source s.
KnobModifier(s, k) ==
    CASE s = "INTERNAL"                 -> "NORMAL_SPEED"
      [] s # "INTERNAL" /\ k \in LowKnob  -> "HALF_SPEED"
      [] s # "INTERNAL" /\ k \in HighKnob -> "DOUBLE_SPEED"
      [] OTHER                            -> "NORMAL_SPEED"

SetSpeedModifier(c, m) ==
    [c EXCEPT !.tempo.modifier = m, !.adapter = SetModifier(c.adapter, m)]

SetTempoControl(c, s, k) ==
    SetSpeedModifier([c EXCEPT !.tempo.knob = k], KnobModifier(s, k))

\* Leaving the jack ends a wait for its beat.
EndWait(c, new) ==
    IF new # "EXTERNAL_SYNC" THEN [c EXCEPT !.tempo.sync = "RUNNING"] ELSE c

\* Mutant: the knob is not applied again (issue #486).
OnSourceChangedKeepingModifier(c, new) ==
    IF new = "INTERNAL" THEN SetSpeedModifier(EndWait(c, new), "NORMAL_SPEED")
                        ELSE EndWait(c, new)

\* TempoHandler::on_clock_source_changed: leaving the jack ends a wait, the
\* internal clock resets the modifier, and the knob is applied again.
OnSourceChanged(c, new) ==
    LET running == EndWait(c, new)
        reset   == IF new = "INTERNAL"
                     THEN SetSpeedModifier(running, "NORMAL_SPEED") ELSE running
    IN  SetTempoControl(reset, new, c.tempo.knob)

\* detach_current_source, then attach_new_source.
Reattach(new) == (attached \ {source}) \cup {new}

\* ClockRouter::set_clock_source for a source other than the current one:
\* detach, attach, tell the listener, then resync the new source's observers
\* unless it is the sync jack.
SetClockSource(new) ==
    LET switched == OnSourceChanged(Chain, new)
    IN  /\ source' = new
        /\ attached' = Reattach(new)
        /\ clocks' = [running |-> CASE new = "INTERNAL"    -> TRUE
                                    [] source = "INTERNAL" -> FALSE
                                    [] OTHER               -> clocks.running,
                      echo    |-> CASE new = "MIDI"    -> TRUE
                                    [] source = "MIDI" -> FALSE
                                    [] OTHER           -> clocks.echo,
                      bpm     |-> IF new = "INTERNAL" THEN tempo.knob
                                                      ELSE clocks.bpm]
        /\ midiAge' = IF new = "MIDI" THEN "nil" ELSE midiAge
        /\ Becomes(IF new = "EXTERNAL_SYNC" THEN switched
                                            ELSE Deliver(switched, Resync(new)))
        /\ UNCHANGED cable

-----------------------------------------------------------------------------
(* Actions *)

\* Observers hear a source only while the router is attached to it.
Hear(s, c) == IF s \in attached THEN Becomes(c) ELSE Becomes(Chain)

InternalTick ==
    /\ clocks.running
    /\ Hear("INTERNAL", Deliver(Chain, Tick("INTERNAL")))
    /\ UNCHANGED <<source, attached, clocks, midiAge, cable>>

\* The first tick, or the first one after the timeout, resyncs before it
\* ticks; the tick is echoed when forwarding is enabled.
MidiTick ==
    LET synced == IF midiAge = "fresh" THEN Chain
                                       ELSE Deliver(Chain, Resync("MIDI"))
        ticked == IF "MIDI" \in attached THEN Deliver(synced, Tick("MIDI"))
                                         ELSE Chain
    IN  /\ midiAge' = "fresh"
        /\ Becomes(IF clocks.echo THEN [ticked EXCEPT !.out.midi = @ + 1]
                                  ELSE ticked)
        /\ UNCHANGED <<source, attached, clocks, cable>>

MidiTimeout ==
    /\ midiAge = "fresh"
    /\ midiAge' = "stale"
    /\ out' = Quiet
    /\ UNCHANGED <<source, attached, clocks, cable, adapter, tempo>>

SyncBeat ==
    /\ Hear("EXTERNAL_SYNC", Deliver(Chain, Beat))
    /\ UNCHANGED <<source, attached, clocks, midiAge, cable>>

SyncTick ==
    /\ Hear("EXTERNAL_SYNC", Deliver(Chain, Tick("EXTERNAL_SYNC")))
    /\ UNCHANGED <<source, attached, clocks, midiAge, cable>>

PlugCable ==
    /\ cable' = ~cable
    /\ out' = Quiet
    /\ UNCHANGED <<source, attached, clocks, midiAge, adapter, tempo>>

\* Mutant: the jack is kept once selected, as MIDI is.
PreferredSourceKeepingJack ==
    CASE cable \/ source = "EXTERNAL_SYNC" -> "EXTERNAL_SYNC"
      [] ~cable /\ source = "MIDI"         -> "MIDI"
      [] ~cable /\ source = "INTERNAL" /\ midiAge = "fresh" -> "MIDI"
      [] OTHER                             -> "INTERNAL"

\* ClockRouter::update_auto_source_switching: the cable wins, MIDI is kept
\* once selected, an active MIDI clock is preferred to the internal one.
PreferredSource ==
    CASE cable                              -> "EXTERNAL_SYNC"
      [] ~cable /\ source = "MIDI"          -> "MIDI"
      [] ~cable /\ source # "MIDI" /\ midiAge = "fresh" -> "MIDI"
      [] OTHER                              -> "INTERNAL"

AutoSwitch ==
    /\ PreferredSource # source
    /\ SetClockSource(PreferredSource)

TurnKnob(k) ==
    /\ Becomes(SetTempoControl(Chain, source, k))
    /\ clocks' = IF source = "INTERNAL" THEN [clocks EXCEPT !.bpm = k] ELSE clocks
    /\ UNCHANGED <<source, attached, midiAge, cable>>

\* SequencerController::start(): the handler is told it plays, then asked to
\* synchronise to the anchor: at once, or on the next beat of the jack.
StartPlayback(p) ==
    /\ ~tempo.playing
    /\ IF source = "EXTERNAL_SYNC"
         THEN /\ tempo' = [tempo EXCEPT !.playing = TRUE, !.sync = "WAITING_FOR_BEAT"]
              /\ out' = Quiet
         ELSE /\ tempo' = [tempo EXCEPT !.playing = TRUE, !.phase = p]
              /\ out' = [Quiet EXCEPT !.tempo = 1]
    /\ UNCHANGED <<source, attached, clocks, midiAge, cable, adapter>>

StopPlayback ==
    /\ tempo.playing
    /\ tempo' = [tempo EXCEPT !.playing = FALSE]
    /\ out' = Quiet
    /\ UNCHANGED <<source, attached, clocks, midiAge, cable, adapter>>

-----------------------------------------------------------------------------
\* The state main() leaves when it enters its loop: the internal clock
\* selected, the knob read and applied once.
Init ==
    /\ source = "INTERNAL"
    /\ attached = {"INTERNAL"}
    /\ \E k \in Knob :
         /\ clocks = [running |-> TRUE, echo |-> FALSE, bpm |-> k]
         /\ tempo = [modifier |-> "NORMAL_SPEED", phase |-> 0,
                     sync |-> "RUNNING", knob |-> k, playing |-> FALSE]
    /\ midiAge = "nil"
    /\ cable \in BOOLEAN
    /\ adapter = [heard |-> "INTERNAL", modifier |-> "NORMAL_SPEED",
                  pending |-> NoModifier, count |-> 0]
    /\ out = Quiet

Next ==
    \/ InternalTick
    \/ MidiTick
    \/ MidiTimeout
    \/ SyncBeat
    \/ SyncTick
    \/ PlugCable
    \/ AutoSwitch
    \/ \E k \in Knob : TurnKnob(k)
    \/ \E p \in Anchor : StartPlayback(p)
    \/ StopPlayback

\* The main loop calls update_auto_source_switching on every iteration in
\* the Sequencer state; nothing obliges the outside world to tick.
Fairness == WF_vars(AutoSwitch)

Spec == Init /\ [][Next]_vars /\ Fairness

-----------------------------------------------------------------------------
(* Properties *)

\* Every variable stays within its type; phase_12_ indexes the 12-entry
\* alignment table, so it may never leave 0..11.
TypeOK ==
    /\ source \in ClockSource
    /\ attached \subseteq ClockSource
    /\ clocks \in [running : BOOLEAN, echo : BOOLEAN, bpm : Knob]
    /\ midiAge \in {"nil", "fresh", "stale"}
    /\ cable \in BOOLEAN
    /\ adapter \in SpeedAdapter
    /\ tempo \in TempoHandler
    /\ out \in [raw : 0..1, midi : 0..1, tempo : 0..2]

\* However sources are switched, exactly the current one is observed, and the
\* switches the sources own agree with it: the internal clock runs only as
\* master and MIDI is echoed only as master.
SingleMaster ==
    /\ attached = {source}
    /\ clocks.running <=> source = "INTERNAL"
    /\ clocks.echo    <=> source = "MIDI"

\* TempoHandler drops every event while it waits for a beat, and only the
\* jack emits beats: a wait must never outlive the jack as the source.
WaitsOnlyForJack == tempo.sync = "WAITING_FOR_BEAT" => source = "EXTERNAL_SYNC"

\* The handler aligns phases with its own copy of the modifier while the
\* adapter divides by another; they may differ only by a change the adapter
\* has deferred and not lost.
RequestKept == Requested(adapter) = tempo.modifier

\* Whether the adapter divides the ticks as the knob asks of the source.
InForce == adapter.modifier = KnobModifier(source, tempo.knob)

\* Issue #486: the knob's position means what the present source gives it,
\* in the adapter that divides the ticks.  Away from the jack a turn of the
\* knob and a source change put it in force at once; at the jack the next
\* beat does.  Only a change asked for at the jack, a turn or the switch that
\* leaves it, can take it out of force, and the adapter then holds what is
\* asked.  The internal clock always runs at the knob's tempo.
KnobInForce ==
    [][/\ source # "EXTERNAL_SYNC" /\ (AutoSwitch \/ \E k \in Knob : TurnKnob(k)) => InForce'
       /\ source = "EXTERNAL_SYNC" /\ SyncBeat => InForce'
       /\ InForce /\ ~InForce' => source = "EXTERNAL_SYNC"
       /\ ~InForce' => adapter'.pending = KnobModifier(source', tempo'.knob)
       /\ source' = "INTERNAL" => clocks'.bpm = tempo'.knob]_vars

\* The switch to the internal clock resets the modifier "to avoid carrying
\* over double/half speed from an external source" (tempo_handler.cpp).  The
\* adapter defers that reset to a beat when the jack was heard last.
SpeedNotCarriedOver == source = "INTERNAL" => adapter.modifier = "NORMAL_SPEED"

\* MIDI clock leaves the device by two paths, the echo of the processor and
\* MidiClockOut: each raw tick of the master gives exactly one clock byte,
\* never two and never none, unless the policy silences a stopped master.
OneMidiClockPerTick ==
    out.midi = IF source = "INTERNAL" /\ ~tempo.playing /\ ~SendWhenStopped
                 THEN 0 ELSE out.raw

\* A step during which the handler waits emits no TempoEvent, so the
\* sequencer cannot advance before the beat it was armed for.
SilentWhileWaiting ==
    [][tempo'.sync = "WAITING_FOR_BEAT" => out'.tempo = 0 /\ tempo'.phase = tempo.phase]_vars

\* Beats come twice per quarter note.  A beat of the jack ends any wait and
\* puts the phase on the grid of the modifier the adapter divides by from
\* that beat on, deferred changes included.
BeatLandsOnGrid ==
    [][SyncBeat /\ source = "EXTERNAL_SYNC" =>
         /\ tempo'.sync = "RUNNING"
         /\ tempo'.phase % GridWidth[adapter'.modifier] = 0
         /\ out'.tempo = 1]_vars

\* Unplugging the cable while playback waits for a beat does not leave the
\* sequencer waiting for ever: the router leaves the jack and the wait ends.
UnpluggingEndsWait == <>[](~cable) => []<>(tempo.sync = "RUNNING")

\* What the chain promises the sequencer.
Stream == INSTANCE TempoStream WITH
            master <- source, waiting <- tempo.sync = "WAITING_FOR_BEAT",
            phase <- tempo.phase

\* The chain implements that stream: phases jump only where TempoStream
\* lets them, and otherwise advance by one.
ImplementsStream == Stream!Spec
=============================================================================

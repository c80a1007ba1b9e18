------------------------------- MODULE Knobs -------------------------------
(***************************************************************************)
(* The panel's knobs and sliders, from the converter to the engine, the    *)
(* sequencer and MIDI.  Each is read in its turn through a filter, and     *)
(* what moved by more than a threshold is passed to the message router,    *)
(* which tells the MIDI host and, under local control, sets the engine.    *)
(* A host sets the same parameters with control changes, and takes local   *)
(* control away for the time of a transfer.                                *)
(*                                                                         *)
(* Values are in units, and the steps of a filter that stay within one     *)
(* unit are taken as one.  What a setting is mapped to (hertz, bits, a     *)
(* speed) is told apart as the value it is mapped from.  The knobs share   *)
(* nothing but their turns: one is moved, and the others rest.             *)
(***************************************************************************)
EXTENDS Integers, TLC

CONSTANTS
    Span,            \* the highest value; 0 is the lowest
    Threshold,       \* a difference that is not told
    Deadband,        \* around the centre of SWING
    NumControls,     \* read one per iteration
    PitchTracks,     \* tracks, each with its pitch slider
    SliderModes,     \* what the sliders may be set to move
    Untold,
    MaxRequests      \* control changes and settings of the host

ASSUME ControlsAssumption ==
    /\ Span \in Nat \ {0} /\ Threshold \in Nat /\ Deadband \in Nat
    /\ NumControls \in Nat \ {0} /\ PitchTracks \subseteq 0..3 /\ MaxRequests \in Nat
    /\ Untold \notin 0..Span
    /\ SliderModes \subseteq SUBSET {"pitch", "gain", "decay"} /\ SliderModes # {}

VARIABLES
    knob,      \* the one that is moved
    position,  \* of the knob
    reading,   \* AnalogControl: the filtered value, and the one last notified
    turn,      \* _next_analog_control_to_update_idx; the knob's is 0
    ramp,      \* filter_current_value_ and filter_target_value_
    told,      \* the value of each parameter that was sent last
    inForce,   \* the settings of engine, sequencer and tempo handler
    slider,    \* SliderMode
    route,     \* MessageRouter: local control and its saved value
    transfer,  \* whether SysExHandler is busy, and whether it has said so
    step,      \* of the main loop
    requests,  \* of the host so far
    panelSent  \* history: whether the last step sent a value of the knob

knobVars == <<knob, position, reading, turn, ramp, told, inForce, slider, route,
              transfer, step, requests, panelSent>>

Value == 0..Span
Global == {"VOLUME", "SWING", "CRUSH_EFFECT", "TEMPO", "RANDOM_EFFECT", "REPEAT_EFFECT",
           "FILTER_FREQUENCY", "FILTER_RESONANCE"}
Parameter == (Global \X {0}) \cup ({"PITCH"} \X PitchTracks)
Control == ({"FILTER", "RANDOM", "VOLUME", "SWING", "CRUSH", "REPEAT", "SPEED"} \X {0})
             \cup ({"PITCH"} \X PitchTracks)
SliderUse == {"pitch", "gain", "decay"}
Setting == (SliderUse \X PitchTracks)
             \cup ({"cutoff", "resonance", "volume", "bits", "rate", "swing", "odd", "tempo"} \X {0})

-----------------------------------------------------------------------------
(* MessageRouter *)

map_parameter_to_midi_cc ==
    [p \in Parameter |->
        CASE p[1] = "PITCH"            -> 21 + p[2]
          [] p[1] = "VOLUME"           -> 7
          [] p[1] = "SWING"            -> 9
          [] p[1] = "CRUSH_EFFECT"     -> 12
          [] p[1] = "TEMPO"            -> 15
          [] p[1] = "RANDOM_EFFECT"    -> 16
          [] p[1] = "REPEAT_EFFECT"    -> 17
          [] p[1] = "FILTER_FREQUENCY" -> 74
          [] p[1] = "FILTER_RESONANCE" -> 75]

\* A table of its own; other numbers are no parameter.
map_midi_cc_to_parameter ==
    7 :> <<"VOLUME", 0>> @@ 9 :> <<"SWING", 0>> @@ 12 :> <<"CRUSH_EFFECT", 0>>
    @@ 15 :> <<"TEMPO", 0>> @@ 16 :> <<"RANDOM_EFFECT", 0>> @@ 17 :> <<"REPEAT_EFFECT", 0>>
    @@ 74 :> <<"FILTER_FREQUENCY", 0>> @@ 75 :> <<"FILTER_RESONANCE", 0>>
    @@ [cc \in {21 + t : t \in PitchTracks} |-> <<"PITCH", cc - 21>>]

\* AudioEngine's setters.  The sliders move what SliderMode says.
set_sliders(t, v) == [s \in slider \X {t} |-> v]
set_volume(v) == <<"volume", 0>> :> v
set_filter_frequency(v) == <<"cutoff", 0>> :> v
set_filter_resonance(v) == <<"resonance", 0>> :> v
set_crush_depth(v) == <<"bits", 0>> :> v
set_crush_rate(v) == <<"rate", 0>> :> Span - v

EngineSettings(p, v) ==
    CASE p[1] = "PITCH"            -> set_sliders(p[2], v)
      [] p[1] = "FILTER_FREQUENCY" -> set_filter_frequency(v)
      [] p[1] = "FILTER_RESONANCE" -> set_filter_resonance(v)
      [] p[1] = "VOLUME"           -> set_volume(v)
      [] p[1] = "CRUSH_EFFECT"     -> set_crush_depth(Span - v) @@ set_crush_rate(v)
      [] OTHER                     -> <<>>

\* The MIDI number carries the parameter to the host.
Sent(x, p, v) == [x EXCEPT ![map_midi_cc_to_parameter[map_parameter_to_midi_cc[p]]] = v]

\* Told in any case, set under local control only.
set_parameter(x, p, v) ==
    [told |-> Sent(x.told, p, v),
     inForce |-> IF route.local = "on" THEN EngineSettings(p, v) @@ x.inForce ELSE x.inForce]

\* A control change of the host is passed on as if a knob had been turned.
handle_incoming_midi_cc(x, cc, v) == set_parameter(x, map_midi_cc_to_parameter[cc], v)

\* SysExTransferStateChangeEvent
TransferTold(active) ==
    route' = IF active
             THEN [local |-> "off", saved |-> route.local]
             ELSE [local |-> IF route.saved = "none" THEN route.local ELSE route.saved,
                   saved |-> "none"]

-----------------------------------------------------------------------------
(* AnalogControl and AnalogControlComponent *)

\* AdaptiveFilter::update, and the ramp: part of the way, or all of it.
Toward(a, b) == IF a = b THEN {b} ELSE IF a < b THEN a + 1..b ELSE b..a - 1

Distance(a, b) == IF a < b THEN b - a ELSE a - b

\* Mutant: a difference of the threshold is told, too.
MovedAtThreshold(r) == Distance(r.value, r.notified) >= Threshold

Moved(r) == Distance(r.value, r.notified) > Threshold

\* What a control sets itself, without the router.
Direct(c, v) ==
    CASE c[1] = "SWING" -> <<"swing", 0>> :> (Distance(2 * v, Span) >= 2 * Deadband)
                             @@ <<"odd", 0>> :> (2 * v > Span)
      [] c[1] = "SPEED" -> <<"tempo", 0>> :> v
      [] OTHER          -> <<>>

ParameterOf(c) ==
    CASE c[1] = "PITCH"  -> c
      [] c[1] = "FILTER" -> <<"FILTER_FREQUENCY", 0>>
      [] c[1] = "RANDOM" -> <<"RANDOM_EFFECT", 0>>
      [] c[1] = "CRUSH"  -> <<"CRUSH_EFFECT", 0>>
      [] c[1] = "REPEAT" -> <<"REPEAT_EFFECT", 0>>
      [] c[1] = "SPEED"  -> <<"TEMPO", 0>>
      [] OTHER           -> c

\* FILTER is two parameters.
Passed(x, c, v) ==
    LET y == set_parameter([x EXCEPT !.inForce = Direct(c, v) @@ @], ParameterOf(c), v)
    IN IF c[1] = "FILTER" THEN set_parameter(y, <<"FILTER_RESONANCE", 0>>, Span - v) ELSE y

Settings == [told |-> told, inForce |-> inForce]
Become(x) == told' = x.told /\ inForce' = x.inForce

\* AnalogControl::init: the filter starts at 0 and is updated once.
Primed(r) == {[value |-> v, notified |-> v] : v \in Toward(0, r)}

\* The control whose turn it is.
Read(r) ==
    IF turn # 0 THEN {reading}
    ELSE {IF Moved(n) THEN [n EXCEPT !.notified = n.value] ELSE n :
             n \in {[reading EXCEPT !.value = v] : v \in Toward(reading.value, r)}}

Turned(n) == n.notified # reading.notified

\* The smoothing of FILTER goes on in every iteration until it has arrived.
Smoothed(target) ==
    IF knob[1] = "FILTER" THEN Toward(ramp.current, target) ELSE {ramp.current}

\* Mutant: the panel is read whatever local control says.
UpdateAlways ==
    /\ step = "controls" /\ step' = "input"
    /\ turn' = (turn + 1) % NumControls
    /\ \E n \in Read(position) :
          /\ reading' = n
          /\ ramp' = ramp
          /\ Become(IF Turned(n) THEN Passed(Settings, knob, n.value) ELSE Settings)
          /\ panelSent' = Turned(n)
    /\ UNCHANGED <<knob, position, slider, route, transfer, requests>>

\* PizzaControls::update, under local control.
Update ==
    /\ step = "controls" /\ step' = "input"
    /\ route.local = "on"
    /\ turn' = (turn + 1) % NumControls
    /\ \E n \in Read(position) :
          LET heardNow == IF Turned(n) THEN Passed(Settings, knob, n.value) ELSE Settings
              target == IF Turned(n) THEN n.value ELSE ramp.target
          IN \E v \in Smoothed(target) :
                /\ reading' = n
                /\ ramp' = IF knob[1] = "FILTER" THEN [current |-> v, target |-> target] ELSE ramp
                /\ Become(IF v # ramp.current THEN Passed(heardNow, knob, v) ELSE heardNow)
                /\ panelSent' = (Turned(n) \/ v # ramp.current)
    /\ UNCHANGED <<knob, position, slider, route, transfer, requests>>

\* Without it, or while a transfer is shown, nothing is read.
Skip ==
    /\ step = "controls" /\ step' = "input"
    /\ route.local = "off"
    /\ panelSent' = FALSE
    /\ UNCHANGED <<knob, position, reading, turn, ramp, told, inForce, slider, route,
                   transfer, requests>>

-----------------------------------------------------------------------------
(* The transfer and the host *)

\* SysExHandler::update: a receiver times out; a transfer that began or ended
\* is announced, and one that goes on may announce its progress.
AnnounceTransfer ==
    /\ step = "sysex" /\ step' = "controls"
    /\ \E busy \in {transfer.busy, FALSE} :
          /\ transfer' = [busy |-> busy, announced |-> busy]
          /\ \/ busy # transfer.announced /\ TransferTold(busy)
             \/ busy /\ transfer.announced /\ TransferTold(TRUE)
             \/ busy = transfer.announced /\ UNCHANGED route
    /\ panelSent' = FALSE
    /\ UNCHANGED <<knob, position, reading, turn, ramp, told, inForce, slider, requests>>

\* process_input: the SysEx messages come first, so that a control change is
\* dropped when a transfer begins, and handled when it ends.
ProcessInput ==
    /\ step = "input" /\ step' = "sysex"
    /\ \E busy \in BOOLEAN : transfer' = [transfer EXCEPT !.busy = busy]
    /\ \/ UNCHANGED <<told, inForce, slider, requests>>
       \/ /\ requests < MaxRequests /\ requests' = requests + 1
          /\ \/ \E cc \in DOMAIN map_midi_cc_to_parameter, v \in Value :
                   /\ ~transfer'.busy
                   /\ cc = map_parameter_to_midi_cc[ParameterOf(knob)]
                   /\ Become(handle_incoming_midi_cc(Settings, cc, v))
                   /\ UNCHANGED slider
             \/ \E use \in SliderModes \ {slider} :
                   knob[1] = "PITCH" /\ slider' = use /\ UNCHANGED <<told, inForce>>
    /\ panelSent' = FALSE
    /\ UNCHANGED <<knob, position, reading, turn, ramp, route>>

Turn ==
    /\ position' \in Value \ {position}
    /\ panelSent' = FALSE
    /\ UNCHANGED <<knob, reading, turn, ramp, told, inForce, slider, route, transfer, step, requests>>

\* AnalogControlComponent::init passes on what each control reads first.  A
\* panel that is not connected has no local control.
ControlsInit ==
    /\ knob \in Control /\ position \in Value
    /\ slider \in SliderModes
    /\ knob[1] # "PITCH" => slider = CHOOSE use \in SliderModes : TRUE
    /\ route \in [local : {"on", "off"}, saved : {"none"}]
    /\ \E n \in Primed(position) :
          /\ reading = n
          /\ ramp = IF knob[1] = "FILTER" THEN [current |-> n.value, target |-> n.value]
                    ELSE [current |-> 0, target |-> 0]
          /\ LET x == Passed([told |-> [p \in Parameter |-> Untold],
                              inForce |-> [s \in Setting |-> Untold]], knob, n.value)
             IN told = x.told /\ inForce = x.inForce
    /\ turn = 0 /\ step = "sysex" /\ requests = 0 /\ panelSent = FALSE
    /\ transfer = [busy |-> FALSE, announced |-> FALSE]

Iteration == AnnounceTransfer \/ Update \/ Skip \/ ProcessInput
ControlsNext == Iteration \/ Turn

\* The main loop goes round.
ControlsFairness == WF_knobVars(Iteration)

-----------------------------------------------------------------------------
(* Properties *)

\* A position and the noise of the converter around it.
Near(p) == p..p + Threshold

\* What the knob stands for when it reads v.
InForceFor(v) ==
    LET x == Passed([told |-> told, inForce |-> [s \in Setting |-> Untold]], knob, v)
    IN /\ told = x.told
       /\ \A s \in Setting : x.inForce[s] # Untold => inForce[s] = x.inForce[s]

\* The knob is at rest, noise aside, and local control is not taken away.
AtRest(p) == position \in Near(p) /\ route.local = "on" /\ ~transfer.announced

\* A knob at rest goes quiet, whatever the noise within the threshold, through
\* the filter and the ramp of FILTER, so that what a host sets stays set.
PanelGoesQuiet == \A p \in 0..Span - Threshold : <>[]AtRest(p) => <>[]~panelSent

\* However a knob is turned before, in a transfer too, when it rests the host
\* has been told where it is, to within the thresholds, and the engine and the
\* sequencer do what the host has been told, unless the host asked for
\* something else.
KnobIsHeard ==
    \A p \in 0..Span - Threshold :
        <>[](AtRest(p) /\ requests = 0)
            => <>[](\E v \in p - Threshold..p + 2 * Threshold : InForceFor(v))
=============================================================================

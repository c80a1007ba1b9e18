------------------------------ MODULE SyncJack ------------------------------
(***************************************************************************)
(* The sync jack.  SyncIn reads pulses, two to a quarter note, and makes   *)
(* ticks between them; SyncOut counts ticks and makes pulses, which the    *)
(* interrupt of an alarm ends.  Between the two is the clock router, which *)
(* hands the events of the clock source on.                                *)
(*                                                                         *)
(* Time is counted in the shortest time between two ticks; an iteration of *)
(* the main loop takes any time up to MaxStall.                            *)
(***************************************************************************)
EXTENDS Integers

CONSTANTS
    PPQN_MULTIPLIER,     \* ticks to a pulse, in and out: 12
    PULSE_DEBOUNCE,
    DETECT_DEBOUNCE,
    MaxInterval,         \* between pulses, longer ones are not told apart
    MaxStall,            \* the longest iteration
    Nil

\* 5 ms are twelve of the shortest interval, so that none is rounded to 0.
ASSUME MultiplierAssumption ==
    /\ PPQN_MULTIPLIER \in Nat /\ 1 < PPQN_MULTIPLIER
    /\ PULSE_DEBOUNCE \in Nat /\ PPQN_MULTIPLIER <= PULSE_DEBOUNCE
ASSUME TimeAssumption ==
    /\ DETECT_DEBOUNCE \in Nat /\ MaxStall \in Nat
    /\ MaxInterval \in Nat /\ PULSE_DEBOUNCE < MaxInterval
ASSUME NilAssumption == Nil \notin Int

VARIABLES
    sync,     \* SyncIn: the state of a pulse and the ticks between pulses
    cable,    \* SyncIn: cable detection
    source,   \* of the clock router: "sync" or "other"
    out,      \* SyncOut
    offAlarm,    \* pending alarms: the one of _pulse_alarm_id, or one left over
    main,     \* what the iteration comes to next
    seen      \* history: how long the pin has read low, the event of the last
              \* step, and whether the output has been aligned to the jack

syncVars == <<sync, cable, source, out, offAlarm, main, seen>>

Beat == "beat"      \* is_beat
Tick == "tick"
Resync == "resync"  \* is_resync
NoEvent == "none"

-----------------------------------------------------------------------------
(* SyncIn.  Points in time are kept as ages, next_tick_time_ as the time   *)
(* to it.                                                                  *)

Older(age, dt, max) == IF age = Nil THEN Nil ELSE IF age + dt > max THEN max ELSE age + dt

Later(s, dt) ==
    [s EXCEPT !.pulseAge = Older(@, dt, MaxInterval),
              !.lowAge   = Older(@, dt, PULSE_DEBOUNCE + 1),
              !.next     = IF @ = Nil THEN Nil ELSE IF @ - dt < -MaxInterval THEN -MaxInterval ELSE @ - dt]

\* The pin rises: measure the interval, and schedule the ticks after the beat.
RisingEdge(s) ==
    LET interval == IF s.pulseAge = Nil THEN s.interval ELSE s.pulseAge \div PPQN_MULTIPLIER
        timed == interval > 0
    IN [s EXCEPT !.state = "WAITING_FOR_STABLE_LOW", !.lowAge = Nil,
                 !.interval = interval, !.pulseAge = 0,
                 !.ticks = IF timed THEN 0 ELSE @, !.next = IF timed THEN interval ELSE @]

StableLow(s, level) ==
    LET low == IF s.lowAge = Nil THEN 0 ELSE s.lowAge IN
    IF level THEN [s EXCEPT !.lowAge = Nil]
    ELSE [s EXCEPT !.lowAge = low,
                   !.state = IF low > PULSE_DEBOUNCE THEN "WAITING_FOR_RISING_EDGE" ELSE @]

IsBeat(s, level) == s.state = "WAITING_FOR_RISING_EDGE" /\ level

Pulsed(s, level) ==
    IF s.state = "WAITING_FOR_STABLE_LOW" THEN StableLow(s, level)
    ELSE IF level THEN RisingEdge(s) ELSE s

\* emit_scheduled_ticks: one at most per iteration, however late.
IsTick(s) == s.next # Nil /\ s.ticks < PPQN_MULTIPLIER - 1 /\ s.next <= 0

Ticked(s) ==
    IF ~IsTick(s) THEN s
    ELSE [s EXCEPT !.ticks = @ + 1,
                   !.next = IF s.ticks + 1 < PPQN_MULTIPLIER - 1 /\ s.interval > 0
                            THEN @ + s.interval ELSE Nil]

\* The detect pin, active low.
Detected(c, level, dt) ==
    LET age == IF c.age = Nil \/ level # c.last THEN 0 ELSE Older(c.age, dt, DETECT_DEBOUNCE + 1)
    IN [last |-> level, age |-> age,
        current |-> IF age > DETECT_DEBOUNCE THEN level ELSE c.current]

is_cable_connected(c) == ~c.current

-----------------------------------------------------------------------------
(* SyncOut, with its alarms.  Of _pulse_alarm_id it matters whether there   *)
(* is one.                                                                  *)

\* trigger_pulse_off: an alarm that was not cancelled is left over.
trigger_pulse_off(x) ==
    [x EXCEPT !.out.high = FALSE, !.out.active = FALSE, !.out.id = FALSE,
              !.offAlarm = [own |-> FALSE, left |-> @.left \/ @.own]]

cancel_alarm(x) == IF x.out.id THEN [x EXCEPT !.offAlarm.own = FALSE] ELSE x

\* Ending a pulse ahead of time.
CutShort(x) == IF x.out.active THEN trigger_pulse_off(cancel_alarm(x)) ELSE x

\* An alarm may not be had; the pulse is then over at once.
Begun(x) ==
    LET high == cancel_alarm([x EXCEPT !.out.high = TRUE, !.out.active = TRUE])
    IN {[high EXCEPT !.out.id = TRUE, !.offAlarm.own = TRUE], trigger_pulse_off(high)}

\* Mutant: a beat does not align the countdown.
CountedUnaligned(x, event) ==
    IF event = Resync THEN 0 ELSE IF x.out.countdown > 0 THEN x.out.countdown - 1 ELSE 0

\* A resync and a beat are pulses at once.
Counted(x, event) ==
    IF event \in {Resync, Beat} THEN 0 ELSE IF x.out.countdown > 0 THEN x.out.countdown - 1 ELSE 0

Notified(x, event) ==
    IF event = NoEvent \/ ~x.out.enabled THEN {x}
    ELSE LET y == IF event = Resync THEN CutShort(x) ELSE x
         IN IF Counted(y, event) > 0 THEN {[y EXCEPT !.out.countdown = Counted(y, event)]}
            ELSE {[z EXCEPT !.out.countdown = PPQN_MULTIPLIER] :
                     z \in IF y.out.active THEN {y} ELSE Begun(y)}

disable(x) == IF x.out.enabled THEN CutShort([x EXCEPT !.out.enabled = FALSE]) ELSE x

enable(x) == [x EXCEPT !.out.enabled = TRUE]

Jack == [out |-> out, offAlarm |-> offAlarm]
Become(x) == out' = x.out /\ offAlarm' = x.offAlarm

-----------------------------------------------------------------------------
(* The main loop and the interrupt *)

\* SyncIn::update, dt after the last; its event is handed on if the router
\* listens to it.
SyncInUpdate ==
    /\ main = "sync_in" /\ main' = "sources"
    /\ \E dt \in 0..MaxStall, level, detect \in BOOLEAN :
          LET s == Later(sync, dt)
              p == Pulsed(s, level)
              event == IF IsBeat(s, level) THEN Beat ELSE IF IsTick(p) THEN Tick ELSE NoEvent
          IN /\ sync' = Ticked(p)
             /\ cable' = Detected(cable, detect, dt)
             /\ IF source = "sync" THEN \E x \in Notified(Jack, event) : Become(x)
                                   ELSE UNCHANGED <<out, offAlarm>>
             /\ seen' = [low |-> IF level THEN Nil ELSE IF seen.low = Nil THEN 0
                                 ELSE Older(seen.low, dt, PULSE_DEBOUNCE + 1),
                         event |-> event,
                         aligned |-> seen.aligned \/ (source = "sync" /\ event = Beat)]
    /\ UNCHANGED source

\* The rest of the iteration: other clocks tick, the router chooses the source
\* by the cable and starts another one with a resync, and main() enables the
\* output, but for a stopped clock of its own.
Sources ==
    /\ main = "sources" /\ main' = "sync_in"
    /\ source' = IF is_cable_connected(cable) THEN "sync" ELSE "other"
    /\ \E ticks, allow \in BOOLEAN :
          LET event == IF source = "other" /\ ticks THEN Tick ELSE NoEvent
              turned == IF source = "sync" /\ source' = "other" THEN Resync ELSE NoEvent
          IN \E x \in Notified(Jack, event) : \E y \in Notified(x, turned) :
                Become(IF allow \/ source' = "sync" THEN enable(y) ELSE disable(y))
    /\ seen' = [seen EXCEPT !.aligned = @ /\ source' = "sync"]
    /\ UNCHANGED <<sync, cable>>

\* trigger_resync, by the tempo handler.
TriggerResync ==
    /\ \E x \in Notified(Jack, Resync) : Become([x EXCEPT !.out.countdown = PPQN_MULTIPLIER])
    /\ seen' = [seen EXCEPT !.event = Resync]
    /\ UNCHANGED <<sync, cable, source, main>>

\* The interrupt of the alarm.
PulseOffAlarm ==
    /\ \/ offAlarm.own /\ Become(trigger_pulse_off([Jack EXCEPT !.offAlarm.own = FALSE]))
       \/ offAlarm.left /\ Become(trigger_pulse_off([Jack EXCEPT !.offAlarm.left = FALSE]))
    /\ UNCHANGED <<sync, cable, source, main, seen>>

SyncInit ==
    /\ sync \in [state : {"WAITING_FOR_RISING_EDGE", "WAITING_FOR_STABLE_LOW"}, lowAge : {Nil},
                 pulseAge : {Nil}, interval : {0}, ticks : {0}, next : {Nil}]
    /\ \E level \in BOOLEAN : cable = [last |-> level, age |-> Nil, current |-> level]
    /\ source = "other" /\ main = "sync_in"
    /\ out = [high |-> FALSE, active |-> FALSE, id |-> FALSE, enabled |-> TRUE,
              countdown |-> PPQN_MULTIPLIER]
    /\ offAlarm = [own |-> FALSE, left |-> FALSE]
    /\ seen = [low |-> Nil, event |-> NoEvent, aligned |-> FALSE]

SyncNext == SyncInUpdate \/ Sources \/ TriggerResync \/ PulseOffAlarm

SyncSpec == SyncInit /\ [][SyncNext]_syncVars

-----------------------------------------------------------------------------
(* Properties *)

SyncTypeOK ==
    /\ sync.lowAge \in {Nil} \cup (0..PULSE_DEBOUNCE + 1)
    /\ sync.pulseAge \in {Nil} \cup (0..MaxInterval)
    /\ sync.ticks \in 0..PPQN_MULTIPLIER - 1 /\ sync.interval \in 0..MaxInterval
    /\ sync.next \in {Nil} \cup (-MaxInterval..MaxInterval)
    /\ cable.age \in {Nil} \cup (0..DETECT_DEBOUNCE + 1)
    /\ out.countdown \in 1..PPQN_MULTIPLIER

\* Contacts that bounce make one beat: after the first, none comes before the
\* pin has read low for the time of the debounce, without a break.  And however
\* the tempo changes and however long iterations take, fewer ticks than make a
\* pulse come between two beats, so that an output that has had a beat of the
\* jack pulses with its beats and resyncs, and at no other time.
PulsesFollowBeats ==
    [][ /\ seen'.event = Beat /\ main # main' /\ main = "sync_in" /\ sync.pulseAge # Nil
              => seen.low # Nil /\ seen.low > PULSE_DEBOUNCE
        /\ seen.aligned /\ main = "sync_in" /\ out'.high /\ ~out.high
              => seen'.event \in {Beat, Resync} ]_syncVars
=============================================================================

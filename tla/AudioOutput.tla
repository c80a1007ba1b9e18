---------------------------- MODULE AudioOutput ----------------------------
(***************************************************************************)
(* Volume, mute and the headphone jack: AudioEngine, AudioOutput and the   *)
(* driver of the codec below them.  The codec's registers are on two pages,*)
(* one of which is selected; the driver remembers which, and the volumes   *)
(* it has set, to save traffic on the I2C bus.  A write that fails there   *)
(* may have reached the codec or not.                                      *)
(***************************************************************************)
EXTENDS Naturals

CONSTANTS
    MaxVolume,   \* levels of volume above silence
    Unknown,     \* a page or volume the driver does not know
    MaxFaults    \* failed transfers on the bus

ASSUME VolumeAssumption == MaxVolume \in Nat \ {0}
ASSUME FaultsAssumption == MaxFaults \in Nat
ASSUME UnknownAssumption == Unknown \notin Nat

VARIABLES
    codec,    \* the codec, external, and what the driver believes of it
    jack,     \* headphones are in or out
    detect,   \* AudioOutput: the level read last, whether it has been that for
              \* the debounce time, and the debounced state
    engine,   \* AudioEngine: muted, and the volume
    phase     \* of the main loop: playing, in the iteration that announces a
              \* transfer, in the transfer, or asleep

outputVars == <<codec, jack, detect, engine, phase>>

-----------------------------------------------------------------------------
(* The codec *)

Volumes == 0..MaxVolume

PageOf ==
    [amp |-> 0, dacMute |-> 0, dacL |-> 0, dacR |-> 0, detect |-> 0,
     headphone |-> 1, mixL |-> 1, mixR |-> 1, stepping |-> 1, power |-> 1]

Codec ==
    [page      : {0, 1},
     stray     : BOOLEAN,     \* a register of the wrong page was written
     amp       : BOOLEAN, dacMute : BOOLEAN, headphone : BOOLEAN, power : BOOLEAN,
     dacL      : Volumes, dacR : Volumes, mixL : Volumes, mixR : Volumes,
     stepping  : BOOLEAN,     \* on its way to a volume
     current_page   : {0, 1, Unknown},        \* the driver's copies
     current_dac    : Volumes \cup {Unknown},
     current_mixer  : Volumes \cup {Unknown},
     dac_muted      : BOOLEAN,
     faults    : 0..MaxFaults]

\* Results of a call: the codec afterwards, and whether it was a success.
Success(c) == {[c |-> c, ok |-> TRUE]}
AndThen(results, Op(_)) == UNION {IF r.ok THEN Op(r.c) ELSE {r} : r \in results}
Anyway(results) == {[r EXCEPT !.ok = TRUE] : r \in results}

\* i2c_write, i2c_read
Transfer(c, done) ==
    Success(done) \cup
    (IF c.faults = MaxFaults THEN {}
     ELSE {[c |-> [x EXCEPT !.faults = @ + 1], ok |-> FALSE] : x \in {c, done}})

\* Mutant: a page that could not be selected is still taken to be the old one.
select_pageKeeping(c, page) ==
    IF c.current_page = page THEN Success(c)
    ELSE {IF r.ok THEN [r EXCEPT !.c.current_page = page] ELSE r :
             r \in Transfer(c, [c EXCEPT !.page = page])}

select_page(c, page) ==
    IF c.current_page = page THEN Success(c)
    ELSE {[r EXCEPT !.c.current_page = IF r.ok THEN page ELSE Unknown] :
             r \in Transfer(c, [c EXCEPT !.page = page])}

Latched(c, reg, value) ==
    IF c.page # PageOf[reg] THEN [c EXCEPT !.stray = TRUE]
    ELSE IF reg \in {"dacL", "dacR"} THEN [c EXCEPT ![reg] = value, !.stepping = TRUE]
    ELSE [c EXCEPT ![reg] = value]

write_register(c, reg, value) ==
    AndThen(select_page(c, PageOf[reg]), LAMBDA d : Transfer(d, Latched(d, reg, value)))

read_register(c, reg) ==
    AndThen(select_page(c, PageOf[reg]), LAMBDA d : Transfer(d, d))

set_amp_enabled(c, enable) == write_register(c, "amp", enable)

\* Powering up waits for the drivers, but not for ever, and reports success.
set_headphone_enabled(c, enable) ==
    AndThen(write_register(c, "headphone", enable),
            LAMBDA d : IF enable THEN Anyway(read_register(d, "stepping")) ELSE Success(d))

\* Both registers of a volume are written, the right one whether the left one
\* could be or not; the driver knows the volume only if both could.
SetBoth(c, left, right, value, copy) ==
    UNION {{[c  |-> [r.c EXCEPT ![copy] = IF l.ok /\ r.ok THEN value ELSE Unknown],
             ok |-> l.ok /\ r.ok] : r \in write_register(l.c, right, value)} :
           l \in write_register(c, left, value)}

\* Refused while the codec is on its way to another volume, or cannot be asked.
set_dac_volume(c, volume) ==
    IF volume = c.current_dac THEN Success(c)
    ELSE UNION {IF r.ok /\ ~c.stepping THEN SetBoth(r.c, "dacL", "dacR", volume, "current_dac")
                ELSE {[r EXCEPT !.ok = FALSE]} : r \in read_register(c, "stepping")}

set_mixer_volume(c, volume) ==
    IF volume = c.current_mixer THEN Success(c)
    ELSE SetBoth(c, "mixL", "mixR", volume, "current_mixer")

\* Read, modify, write.
set_dac_muted(c, muted) ==
    IF muted = c.dac_muted THEN Success(c)
    ELSE AndThen(AndThen(read_register(c, "dacMute"), LAMBDA d : write_register(d, "dacMute", muted)),
                 LAMBDA d : Success([d EXCEPT !.dac_muted = muted]))

enter_sleep_mode(c) ==
    AndThen(AndThen(read_register(c, "power"), LAMBDA d : write_register(d, "power", FALSE)),
            LAMBDA d : write_register(d, "power", FALSE))

-----------------------------------------------------------------------------
(* AudioOutput *)

\* The DAC, muted at the bottom of its range, and the mixer, also if the DAC
\* could not be set.
volume(c, level) ==
    UNION {set_mixer_volume(r.c, level) :
           r \in IF level = 0 THEN set_dac_muted(c, TRUE)
                 ELSE AndThen(set_dac_muted(c, FALSE), LAMBDA d : set_dac_volume(d, level))}

\* mute, unmute: the amplifier and the headphone drivers.
Outputs(c, enable) ==
    UNION {set_headphone_enabled(r.c, enable) : r \in set_amp_enabled(c, enable)}

\* update: a new level starts the debounce; one that has lasted is believed,
\* and turns the amplifier off or on.
Poll ==
    /\ phase \in {"playing", "announcing"}
    /\ \E r \in read_register(codec, "detect") :
          IF ~r.ok
          THEN codec' = r.c /\ UNCHANGED detect
          ELSE IF jack # detect.pending
          THEN codec' = r.c /\ detect' = [detect EXCEPT !.pending = jack, !.settled = FALSE]
          ELSE IF detect.settled /\ detect.debounced # jack
          THEN /\ detect' = [detect EXCEPT !.debounced = jack]
               /\ \E s \in set_amp_enabled(r.c, jack = "out") : codec' = s.c
          ELSE codec' = r.c /\ UNCHANGED detect
    /\ UNCHANGED <<jack, engine, phase>>

-----------------------------------------------------------------------------
(* AudioEngine, and when it is called *)

SetVolume ==
    /\ phase = "playing"
    /\ \E level \in Volumes :
          /\ engine' = [engine EXCEPT !.volume = level]
          /\ IF engine.muted THEN UNCHANGED codec ELSE \E r \in volume(codec, level) : codec' = r.c
    /\ UNCHANGED <<jack, detect, phase>>

\* A transfer is announced; the rest of the iteration follows.
Mute ==
    /\ phase = "playing" /\ phase' = "announcing"
    /\ engine' = [engine EXCEPT !.muted = TRUE]
    /\ \E r \in Outputs(codec, FALSE) : codec' = r.c
    /\ UNCHANGED <<jack, detect>>

IterationEnds ==
    /\ phase = "announcing" /\ phase' = "transfer"
    /\ UNCHANGED <<codec, jack, detect, engine>>

Unmute ==
    /\ phase = "transfer" /\ phase' = "playing"
    /\ engine' = [engine EXCEPT !.muted = FALSE]
    /\ \E r \in Outputs(codec, TRUE) : codec' = r.c
    /\ UNCHANGED <<jack, detect>>

\* mute, then deinit.
deinit ==
    /\ phase = "playing" /\ phase' = "asleep"
    /\ engine' = [engine EXCEPT !.muted = TRUE]
    /\ \E r \in Outputs(codec, FALSE) : \E s \in enter_sleep_mode(r.c) : codec' = s.c
    /\ UNCHANGED <<jack, detect>>

\* Headphones come and go.
JackChanges ==
    /\ jack' \in {"in", "out"} \ {jack}
    /\ UNCHANGED <<codec, detect, engine, phase>>

Elapses ==
    /\ \/ ~detect.settled /\ detect' = [detect EXCEPT !.settled = TRUE] /\ UNCHANGED codec
       \/ codec.stepping /\ codec' = [codec EXCEPT !.stepping = FALSE] /\ UNCHANGED detect
    /\ UNCHANGED <<jack, engine, phase>>
-----------------------------------------------------------------------------
\* The codec is reset and set up, DAC unmuted, amplifier on (Aic3204), and the
\* volume set to its maximum.
Constructed(faults) ==
    [page |-> 0, stray |-> FALSE, amp |-> TRUE, dacMute |-> FALSE, headphone |-> TRUE,
     power |-> TRUE, dacL |-> MaxVolume, dacR |-> MaxVolume, mixL |-> MaxVolume,
     mixR |-> MaxVolume, stepping |-> FALSE, current_page |-> 0, current_dac |-> MaxVolume,
     current_mixer |-> MaxVolume, dac_muted |-> FALSE, faults |-> faults]

Undetected == [pending |-> "out", settled |-> TRUE, debounced |-> "unknown"]

OutputInit ==
    /\ codec = Constructed(0)
    /\ jack \in {"in", "out"}
    /\ detect = Undetected
    /\ engine = [muted |-> FALSE, volume |-> MaxVolume]
    /\ phase = "playing"

\* Waking restarts the device and with it the codec.
Restart ==
    /\ phase = "asleep" /\ phase' = "playing"
    /\ codec' = Constructed(codec.faults)
    /\ detect' = Undetected
    /\ engine' = [muted |-> FALSE, volume |-> MaxVolume]
    /\ UNCHANGED jack

OutputNext ==
    \/ Poll \/ SetVolume \/ Mute \/ IterationEnds \/ Unmute \/ deinit \/ Restart
    \/ JackChanges \/ Elapses

OutputSpec == OutputInit /\ [][OutputNext]_outputVars

-----------------------------------------------------------------------------
(* Properties *)

OutputTypeOK ==
    /\ codec \in Codec
    /\ jack \in {"in", "out"}
    /\ detect \in [pending : {"in", "out"}, settled : BOOLEAN, debounced : {"in", "out", "unknown"}]
    /\ engine \in [muted : BOOLEAN, volume : Volumes]
    /\ phase \in {"playing", "announcing", "transfer", "asleep"}

\* Whichever transfers on the bus fail, and whether or not the codec took what
\* failed, no write goes to the same register of the other page, and the
\* volumes the driver will not set again are those the codec has.
CodecIsKnown ==
    /\ ~codec.stray
    /\ codec.current_page \in {codec.page, Unknown}
    /\ codec.current_dac = Unknown \/ {codec.dacL, codec.dacR} = {codec.current_dac}
    /\ codec.current_mixer = Unknown \/ {codec.mixL, codec.mixR} = {codec.current_mixer}
=============================================================================

# Verification of the DRUM firmware

TLA+ models of the control logic of the DRUM drum machine's firmware
(`src/drum`, `src/musin`) and of the host tool that transfers files to it
(`src/tools/drumtool`), TLC configurations that check them on small instances,
and TLAPS proofs of the properties that should hold for every value of their
constants. Paths below are relative to the repository's root, which
`PROJECT.json` calls `src/`.

The firmware runs on one core of an RP2350 in one endless loop (`drum/main.cpp`)
that calls each component in turn. Four things preempt it: the audio interrupt,
which renders the voices; the alarm that ends a pulse of the sync jack; and the
DMA interrupt and alarm of the LED driver. What makes the control logic hard is
less these than that components see each other's state *between* calls: a tick
travels synchronously through six observers and only sets a flag, which a later
call in the same or the next iteration reads; SysEx arrives at the end of an
iteration and is announced to the rest of the program in the next one; a clock
source is switched while a speed change waits for a beat of the source that is
being left; a note-on is dropped from a full queue when its track already
remembers it; a host's retransmission crosses the device's answer.

Contents: [1 Inventory](#1-inventory) · [2 Modules and the
code](#2-modules-and-the-code) · [3 Runs](#3-runs) · [4 Fairness](#4-fairness) ·
[5 Where code and documentation
disagree](#5-where-code-and-documentation-disagree) · [6 Proofs](#6-proofs) · [7
What is not modelled](#7-what-is-not-modelled) · [8 What is
open](#8-what-is-open)

## 1 Inventory

### 1.1 Clock chain — `musin/timing`

| part | state | operations |
|---|---|---|
| `InternalClock` | running, bpm | `start`, `stop`, `set_bpm`, a tick from `update` |
| `MidiClockProcessor` | time of the last raw tick, forward-echo switch | `on_midi_clock_tick_received`, `is_active`, `reset` |
| `SyncIn` | cable, last pulse, tick interval, ticks still to interpolate | `update` (beat, interpolated ticks) |
| `ClockRouter` | current source, observers | `set_clock_source`, `update_auto_source_switching`, fan-out |
| `SpeedAdapter` | modifier, deferred modifier, counter, last source heard | `set_modifier`, `notification(ClockEvent)` |
| `TempoHandler` | modifier, `phase_12_`, sync state, last knob value, playback state | `notification(ClockEvent)`, `set_tempo_control_value`, `trigger_manual_sync`, `on_clock_source_changed` |
| `MidiClockOut` | policy | `notification(ClockEvent)` |

*Interaction.* Observers called synchronously: source → router →
{`MidiClockOut`, `SyncOut`, `SpeedAdapter`} → `TempoHandler` →
{`SequencerController`, display}. `set_clock_source` also calls the handler back
while the switch is half done.
*Hard.* Order within the switch; deferred modifiers; two copies of the modifier
(adapter and handler); a wait for a beat that only one source ends; MIDI clock
leaving by two paths. *Correct when* exactly one source drives the chain, no
request of the knob is lost, no wait is orphaned, each raw tick of the master
leaves once as MIDI clock, beats land on the grid, and phases otherwise advance
by one.

### 1.2 Step scheduling — `drum/sequencer_controller.*`, `drum/sequencer_effect_{swing,repeat,random}.*`

*State* `_running`, `last_phase_12_`, `_step_is_due`, `scheduled_step_counter_`,
the REPEAT state, the swing and its pending change; the offsets RANDOM has drawn
and the one in turn; the traces that hits leave on the LEDs. *Operations* `start`,
`stop`, `notification(TempoEvent)` (marks a step due, with a look-behind window
over the phases since the last event), `update` (plays the step that is due),
`set_intended_repeat_state`, `trigger_manual_step`, the swing setters,
`calculate_randomized_step`, `record_pad_hit_trace`.
*Interaction.* Hears `TempoHandler`; driven by the panel; stopped by a SysEx
transfer. *Hard.* A one-bit queue between handler and loop; a window that wraps;
beats that move the phase; swing and loops of odd length that change the parity
the window is judged by; ticks that the loop has still to count when a hit is
recorded. *Correct when* every onset is taken once, steps are half a cycle apart
give or take the swing, a loop of REPEAT repeats, a trace lasts as long as it
should, and a stop stops.

### 1.3 System modes — `drum/system_state_machine.*`, `state_implementations.cpp`, `main.cpp`, `sysex_handler.*`

*State* the current mode (Boot, Sequencer, FileTransfer, FallingAsleep, Sleep)
and its deadlines; the busy flag, slot and progress last announced; the router's
local-control mode with a saved copy; mute. *Operations* the states' `update`,
`transition_to`, `SysExHandler::update`, the handlers of all SysEx commands as
far as they begin and end transfers, the play button.
*Interaction.* `SysExTransferStateChangeEvent` to the router, the sequencer and
the state machine. *Hard.* The order of calls of each case of the loop;
announced again while announced; debounce against a new transfer. *Correct when*
a transfer keeps the device in its mode, stopped, silent, awake, and all of it
is undone at the end.

### 1.4 Sample transfer over SDS — `drum/sysex/sds_dump_sender.h`, `sds_protocol.h`; `tools/drumtool/drumtool.js`

*State* of each end a small state machine, packet counters modulo 128, timers,
an open file. *Operations* header, data, ACK, NAK, WAIT, CANCEL, timeouts.
*Interaction.* A USB MIDI link through bounded queues that drop. *Hard.* Lost,
damaged, late and repeated messages; numbers that wrap; answers without a
number; failing file operations; hosts that vanish or do not handshake; files
that do not fill a packet, padded by each end in its own way. *Correct
when* what either end calls complete is the sample, whole and in order, a
handshaking host is never left behind, and the device always becomes idle again.

### 1.5 Firmware update — `drum/sysex/firmware_update.h`, `musin/flash`, `drum/firmware_update_buyer.*`, `drumtool.js`

*State* the receiver, the writer's staging and hash, two flash partitions with
their "bought" flag, the trial boot, the permission to update. *Operations*
begin, bytes, end, abort, timeout, reboot into the image, purchase, power
failure. *Hard.* A crash between any two steps; a second update at any moment;
the bootrom's choice. *Correct when* something that boots always remains, only
whole images are tried, and every trial and every update ends.

### 1.6 Step sounds — `drum/sequencer_controller.*`, `drum/pizza_controls.*`, `drum/message_router.*`

*State* the note each track remembers (`last_played_note`), the retrigger mode
and due mask, the flips of RANDOM, the router's bounded note queue and the time
of each note's last trigger. *Operations* steps, flips and previews, retriggers,
pads, sample and step keys, notes in over MIDI, `stop`; the router's `update`,
which empties the queue. *Interaction.* Panel and MIDI input push notes, the
tick marks steps and retriggers due, the loop plays them later. *Hard.* A
debounce that swallows a note-on, a full queue that drops a note-off, stops and
pad releases between a mark and its playing. *Correct when* a note that sounds
belongs to a track that will end it.

### 1.7 Pattern persistence — `drum/sequencer_persistence*`, `sequencer_storage.*`, `save_timing_manager.h`

*State* the pattern, the dirty flag, the times of the last change and the last
save, the file. *Operations* every edit, the debounced save of `update`, the
save before sleep, loading at boot. *Hard.* Writes that fail, power lost inside
a save, a millisecond clock that wraps below its word. *Correct when* what is
not dirty is what a restart gives, and no edit waits for longer than the maximum
interval.

### 1.8 MIDI queues — `musin/midi`, `drum/midi_manager.*`

*State* two input queues, the output queue with a queue of SysEx payloads beside
it, the pace of the DIN port. *Operations* reading, SysEx consumed between
reads, the dispatch, one send per iteration. *Hard.* Coalesced control changes,
markers that must meet their payloads, full queues. *Correct when* nothing that
was read is lost, and the output is one FIFO.

### 1.9 Panel — `drum/pizza_controls.*`, `musin/ui`, `musin/hal/*drumpad*`

*State* a state machine per pad and key, the pressure of RANDOM and REPEAT with
hysteresis and debounce, the effects they put the sequencer in. *Operations* one
reading per iteration and what follows from it. *Interaction.* Suspended by
transfers and sleep, between a press and its release. *Correct when* an effect
is on exactly while its button asks for it, no effect or event outlives its
press, and listeners see press, hold and release in that order.

### 1.10 Voices — `drum/audio_engine.*`, `drum/sample_slot*`, `musin/audio`

*State* the sample in each voice's buffer, the staging buffer, reader, pitch
shifter and decay, the files. *Operations* `play_on_voice` with its two critical
sections, the rendering interrupt, uploads. *Hard.* The interrupt comes between
any two steps; a short read; a sample replaced while a voice holds it. *Correct
when* a voice plays what its last note asked for, out of one whole sample, the
latest.

### 1.11 Audio output — `musin/audio/audio_output.*`, `musin/drivers/aic3204.cpp`

*State* volume, mute, the headphone jack, the codec's two register pages, the
driver's copies. *Operations* `set_volume`, mute and unmute, soft stepping,
`poll_headphone`, sleep. *Hard.* I2C writes that fail and may yet have
been taken. *Correct when* the driver's copies are the codec's registers, or it
has seen a failure.

### 1.12 Sync jack — `musin/timing/sync_in.*`, `sync_out.*`

*State* two debouncers, the measured interval and the interpolated ticks still
to come; the output's countdown, pin and alarm. *Hard.* Iterations that come
late, contacts that bounce, an alarm against `disable`. *Correct when* a pulse
in is one beat, and a beat of the stream is one pulse out that ends.

### 1.13 Display — `drum/ui`, `musin/drivers/ws2812-dma.h`

*State* mode, progress, brightness, two frame buffers, the DMA, its semaphore
and alarm. *Hard.* A buffer is drawn while the other one travels; an alarm that
may not be available. *Correct when* a frame that is sent is one whole picture,
and the show goes on.

### 1.14 Files and settings — `drum/sysex/protocol.h`, `drum/configuration_manager.*`, `drum/settings*`

*State* the protocol, its open file and write buffer; the kit and settings in
RAM; the flash. *Operations* begin, bytes, end, abort, format, set, load, each of
which may be refused by the flash. *Correct when* no file mixes two transfers,
and what is acknowledged survives.

### 1.15 Knobs and routing — `musin/hal/analog_control.*`, `drum/message_router.*`

*State* the filtered value of each control and the one last told, the ramp of
FILTER, local control with its saved value. *Operations* a reading of one
control per iteration, `set_parameter`, control changes of the host, a transfer
that takes local control away. *Correct when* a knob that rests is heard,
at the place it rests at, and then goes quiet.

### 1.16 Not modelled

| component | why |
|---|---|
| Signal processing (mixer, filters, crusher, waveshaper) | arithmetic on blocks of audio, no control of its own |
| Hardware layer (GPIO, ADC, USB, boards, loggers) | pure I/O |
| Build tools, provisioning | run once on a developer's machine (drumtool is part of 1.4 and 1.5) |
| `archive/` | experiments the firmware does not use |

## 2 Modules and the code

| module | models | instance for TLC | proofs |
|---|---|---|---|
| `TempoStream` | abstract: what a listener to `TempoEvent`s may rely on | (through the two below) | – |
| `ClockChain` | 1.1 | `MCClockChain` | `ClockChain_proofs` |
| `StepSequencer` | 1.2: when a step is due, on `TempoStream` | `MCStepSequencer` | `StepSequencer_proofs` |
| `TrackSteps` | 1.2: which step it is, and the traces of hits | `MCStepSequencer` | `StepSequencer_proofs` |
| `RandomEffect` | the states and flags of RANDOM: pure functions, used by `TrackSteps` and `Panel` | | through those two |
| `SystemMode` | 1.3 | `MCSystemMode` | `System_proofs` |
| `SdsDump` | 1.4, device to host | `MCSdsDump` | `SdsDump_proofs` |
| `SdsUpload` | 1.4, host to device | `MCMidi` | `SdsUpload_proofs` |
| `Encodings` | 1.4 and 1.5: the bytes within their packets | `MCMidi` | `SdsUpload_proofs` |
| `FirmwareUpdate` | 1.5 | `MCSystemMode`, `MCFirmwareUpdate` | `System_proofs` |
| `Pattern` | the pattern and its edits, used by the next and `StepSounds` | | through those two |
| `StatePersistence` | 1.7 | `MCStatePersistence` | `Sounds_proofs` |
| `MidiFifo` | abstract: one queue of messages | (through the next) | `System_proofs` |
| `MidiQueues` | 1.8 | `MCMidi` | `System_proofs` |
| `StepSounds` | 1.6 | `MCSounds` | `Sounds_proofs` |
| `Voices` | 1.10 | `MCSounds` | `Sounds_proofs` |
| `PadProtocol` | abstract: what a pad promises its listeners | (through `StepSounds` and `Panel`) | `Devices_proofs` |
| `Drumpad`, `Keypad` | one pad, one key: pure functions of a reading | (through `Panel`) | through `Panel` |
| `Panel` | 1.9 | `MCDevices` | `Devices_proofs` |
| `AudioOutput`, `SyncJack` | 1.11, 1.12 | `MCDevices` | `Devices_proofs` |
| `LedStrip`, `Display` | 1.13: the driver, and what is drawn through it | `MCDevices` | `Devices_proofs` |
| `FileStore` | 1.14 | `MCDevices`, `MCFileStore` | `Devices_proofs` |
| `Knobs` | 1.15 | `MCSystemMode` | – (its properties are liveness) |

`MCSounds`, `MCDevices`, `MCSystemMode`, `MCStepSequencer` and `MCMidi` compose
modules that share no state: a variable `part` picks one of them in the initial
state, and the others stay at rest, so that the run explores each of them wholly
and not their product. Fairness is then that of the part that was picked, and a
part that may really come to its end (a host's uploads, its updates) may stutter
there, so that deadlock is still checked of the others.

`PROJECT.json` maps every definition to the lines it stands for. Definitions
under a comment beginning "Mutant" are deliberately wrong variants of the next
definition; nothing uses them except experiments that show the properties
notice.

**TempoStream.** Three variables: the master, whether the stream is held, and
the phase. The phase advances by one; jumps at a beat of the jack to a quarter
of the cycle, at a restart of MIDI clock to 0 (to 1 with the tick that restarted
it), at a change of source to 0, at the start of playback to an anchor. It is
the contract between the two halves of the timing system: `ClockChain`
implements it (`ImplementsStream`, checked and proved), and `StepSequencer`
takes its environment from it and never does more than it (`FollowsTheStream`,
proved). What is shown of the sequencer therefore holds on every stream the
chain can emit.

**ClockChain.** A raw event and everything it causes is one action, because the
code handles it in one call chain. `Deliver` is the router's fan-out,
`SetClockSource` the whole of `set_clock_source` in the code's order: detach,
attach, listener, resync. `InternalTick`, `MidiTick`, `SyncBeat` and `SyncTick`
are the sources' events, `AutoSwitch` the call of every iteration, `TurnKnob`,
`StartPlayback`, `StopPlayback` the panel. Time is reduced to the age of the
last MIDI tick (none, fresh, stale), the only clock a decision of this component
depends on; ticks and beats come at any moment. `out`, a history variable,
counts what one step emitted. `tick_counter_` is kept modulo 4, as it is only
read by remainders. `MidiTick` holds both the timeout's resync and the tick, as
`on_midi_clock_tick_received` does. The modifier is there twice, as in the code:
`tempo.modifier` is what the handler has asked for, `adapter.modifier` what
divides the ticks, and every property about speed reads the second.

**StepSequencer.** `Hears(p, l)` is the handler for phase *p* with the
look-behind window opened at *l*; `Tick`, `Beat`, `MidiRestart` and
`ChangeMaster` are the ways the stream gets there; `Update` is the call of the
main loop that plays the step. The step counter is kept modulo the pattern
length and the repeat counter modulo 3. Four history variables serve the
properties: whether the phase has come round to 0 by itself since it last jumped
(`settled`), phases since a step became due (`gap`), steps played while stopped
(`strays`), and whether the last event carried the substep mark (`substep`).

**TrackSteps, RandomEffect.** `PlayTrack` is the part of `update` that turns a
due step into a step of the pattern: `base_step_index` is the loop of REPEAT,
`Offsets` what RANDOM may add to it, anew for every step or, in a loop, one of
the three drawn when the button was pressed. It may come at any moment, which is
more than `StepSequencer` allows. The buttons change the effects by
`RandomEffect`, whose functions are the transitions of `SequencerEffectRandom`
and what `SequencerController` makes of them. `traces` is one record: the
velocities of the LEDs counted in the ticks they have left, the ticks `update`
has still to count, and, as history, the age of the hit that each trace shows.
`heard` is history, the steps played since a button last changed an effect.

**SystemMode.** `loop` is the program counter of the main loop together with the
case its switch has taken; `Following` is the order of calls in each case. Each
deadline may or may not have passed at each visit. `HandleSysEx` is the input
step: it says for each of the four receivers of SysEx what begins, continues and
ends. `SysExUpdate` checks timeouts, compares with what was announced and
notifies the router, the sequencer and the state machine, in that order.

**SdsDump, SdsUpload.** Both ends and the link. A packet is the index of its
block; what travels is that index modulo `PacketNumbers`. The link keeps order,
loses and damages. Time is left out: a timer may fire at any moment. `SdsDump`
has the constant-in-a-behaviour `prompt`: if true, timers fire only when nothing
is under way and the sender's file can be read, which is the assumption
"answers arrive within the retransmission interval" that `HandshakeDelivers`
needs and states. File operations may fail wherever the code checks for it.

**Encodings.** What the three models of transfers take as given: that a packet
carries its part of the file. A file is a sequence of bytes and travels on one
of three journeys, through the packing of its sender and the unpacking of its
receiver, both as they compute, with the length they agree on cut into 7-bit
bytes and put together again. The last packet is padded by drumtool after
packing, by the device before it. Messages arrive, in order and once.

**FirmwareUpdate.** The flash (blocks and bought flag of both partitions)
survives `Restart`, nothing else does. The bootrom (external) boots any bought
partition that holds an image; `Crash` is the watchdog's reset of a broken image
on trial. A UF2 block, a flash sector and a `FirmwareBytes` message are one
"block"; the SHA-256 matches exactly the announced image undamaged.

**Pattern, StatePersistence.** `Pattern` holds the tracks and every edit of
them, with the order in which the code changes a velocity, a note and the
switch; `StatePersistence` adds what of it reaches the flash. Time is the
millisecond counter of `get_current_time_ms`, which restarts at `Wrap`, while
`SaveTimingManager` takes differences modulo `Word`. `UpdateState` is
`SequencerController::update` as far as saving goes, `PowerOn` the restart, and
`Save`, part of `UpdateState` and of `FallAsleep`, a save with the outcomes that
the code checks for. `LoadState` is a host that sets the whole pattern. A save
holds the loop up, so that only a power failure comes in between. `age`, a
history variable, counts how long an edit has been waiting.

**MidiFifo, MidiQueues.** The three fields of the program counter are the parts
of one iteration: components send what they like, the input is read up to
`MaxReads` times with the SysEx chunks consumed between the reads, the messages
are handled, and one output message leaves if the pace of the DIN port allows
it. What is read is chosen when it is handled; the input queues are counted.
`wire` and `lost` are history. `MidiFifo` is what a sender may rely on: one
queue of messages, in which the last value of a controller may be revised while
it is still queued; `ImplementsFifo` maps a SysEx marker and its payload, which
are kept in two queues, to one message.

**StepSounds.** One action for each part of an iteration: the keys, the pads,
the RANDOM, REPEAT and PLAY buttons, `Update` (which plays what is due and then
empties the router's queue), MIDI input and the clock. A step may become due in
any iteration, `StepSequencer` says when. The pads follow `PadProtocol`. `stray`
is a history variable: notes that were started on no track's account, such as
RANDOM's previews, for which the code has no note-off.

**Voices.** `play_on_voice` is cut where it enables interrupts, so that
`Render`, the interrupt, can come between any two of its steps; a voice's buffer
is a sequence of blocks, each known by its sample, the version of the file and
its place in it. Uploads change the version of a file and happen while no notes
are played, which is what `SystemMode` shows (`SilentDuringTransfer`).

**PadProtocol, Drumpad, Keypad, Panel.** `Drumpad` and `Keypad` are functions
from a state and a reading to the next state and its notifications. `Panel`
reads one analog control in each iteration, in turn, and then PLAY; RANDOM and
REPEAT are pads with a pressure, hysteresis and a debounce, so that two changes
of an effect are at least the debounce apart. `other` is what the rest of the
program can do to the same state: stop, start, transfers and sleep.
`ImplementsPad` shows that each pad keeps `PadProtocol`, which is the
environment of `StepSounds`.

**Knobs.** A knob from the converter through its filter to the router and the
engine, with the host that sets the same parameter and takes local control away.
A unit is what the panel tells apart; the steps of the filter within a unit are
one step. One control is turned and the others only take their turns.

**AudioOutput.** The codec has two pages of registers; the driver remembers
which is selected and the volumes it has set. A write on the I2C bus may fail
and may then still have been taken by the codec. Each operation is the whole
sequence of writes with the early return at the first failure.

**SyncJack.** The unit of time is the shortest interval between two
interpolated ticks. `MaxStall` is how long an iteration may take; times are kept
as ages. `SyncIn` debounces the contact and the detection of the plug and
divides an interval by the multiplier; `SyncOut` counts ticks, and the alarm
ends its pulses.

**LedStrip, Display.** `LedStrip` has the two buffers, the DMA channel, the
alarm that ends the latching time and the semaphore; an alarm may not be to be
had, and then the interrupt itself waits. `Display` is what the modes draw: the
whole picture in every iteration, over what was in the buffer two frames ago.
Colours and flashing are left out; a light is dark or shows a thing, at a
brightness.

**FileStore.** A byte is a transfer and a place in it, a message carries whole
groups of bytes as the encoding does. Beside the files of the custom protocol it
has what is made of them: the kit's configuration, the settings and the format.
A file is stored when it is closed; a power failure leaves the old one or a part
of the new one. A file that cannot be opened begins a transfer like any other,
and a setting whose byte is refused when its file is closed is acknowledged like
any other: `told` keeps what was acknowledged apart from what was taken
(`told.taken`). A format erases first and may then be broken off, by a refusal
or by the power; there is no filesystem then (`mounted`) until a restart formats
again.

## 3 Runs

Eight pass and four show a disagreement (section 5). They use the module's
specification (`Spec`; `PersistenceSpec`, `FirmwareSpec`, `FileSpec` where proofs
extend several modules at once) or, where the MC module composes several, its
`MCSpec`.

| run | distinct states | shows |
|---|---|---|
| `clock_chain` | 130,380 | the ticks are divided as the knob says from the first beat of the jack, or the knob's next turn elsewhere, on, and a modifier that waits is the right one (issue #486); one MIDI clock byte per tick, beats on the grid, unplugging ends a wait, `TempoStream` implemented |
| `step_sequencer` | 947,404 | every onset taken once, steps evenly spaced under swing and REPEAT, the pattern never freezes; a loop of REPEAT repeats, moved by RANDOM or not; the trace of a hit lasts as long as it should |
| `system_mode` | 145,687 | mode and silence during transfers of all four kinds, return to Sequencer; a knob that rests is heard and its filter goes quiet, beside a host that sets the same parameter; never bricked, only whole images on trial, and every update ends |
| `sounds` | 2,531,957 | a note that sounds belongs to a track that will end it; a voice renders what its last note asked for, out of one version of one sample, and the uploaded one after an upload |
| `state_persistence` | 670,676 | what is not dirty is what a restart gives; edits are saved within the maximum interval, through failing saves and over the wrap of the clock |
| `devices` | 705,143 | effects are what their buttons ask for and nothing outlives its press (`NothingOutlivesItsPress`); the pads keep `PadProtocol`; the codec is as its driver believes; every frame is one whole picture and showing never stops; a beat per pulse and a pulse per beat; no file mixes two transfers, and what the flash has taken is there at the end |
| `sds_dump` | 258,915 | downloaded = stored, also open-loop; every dump ends; a host that answers promptly gets the whole sample, or is left with an unanswered WAIT |
| `midi` | 486,549 | what an upload acknowledges is stored, and every upload ends; the bytes of samples, either way, and of firmware come out of their packets as they went in; nothing that was read is lost, and the output is one FIFO |
| `speed_carried_over` | violation | 5.1 |
| `firmware_update_boot` | violation | 5.2 |
| `file_transfer` | violation | 5.3 |
| `acknowledged` | violation | 5.4 |

The properties of a run are in its `.cfg`, with a comment that states each one
beside its definition.

**Bounds, and why they are enough.**

*Clock chain:* three knob positions are one per modifier, which is all the code
distinguishes; nothing else is bounded. `align_to_last_anchor` yields only 0 and
6. `SEND_MIDI_CLOCK_WHEN_STOPPED_AS_MASTER` is TRUE in the run as in the build;
the proofs cover both.

*Step sequencer:* two steps, `SwingOffset` 2 as in the build, `MaxBurst` 3. Only
the parity of the step matters to timing, so two steps stand for sixteen; the
proofs are for any even number. `MaxBurst` 3 says that `update()` comes round at
least once in three tempo events, 125 ms at 120 bpm, where the loop normally
turns over in about a millisecond. MIDI clocks that queue up while the loop is
held up, by a write to flash for instance, are handled in one iteration, so the
bound is on the time it is held up. It is an assumption about the loop; beyond
it a step really is merged into the next, which the list of hazards records.
*Track steps:* a pattern of four steps is longer than either loop of REPEAT (1
and 3) and not a multiple of the longer one; of the offsets that RANDOM may draw
for a loop the run has all 0 and three that differ, between presses the code
draws anew. *Traces:* three ticks to fade, and up to two that `update` finds at
once, so that a trace can fade in one call and in several, and two traces can
overlap.

*System mode:* two slots let one SDS transfer take the place of another; six
messages let all four receivers begin and end, in any overlap. *Knobs* has three
values, a threshold and a dead band of one unit and two controls: enough for a
value that is ignored, one that is taken and one that is caught by the dead band
at an end of the scale.

*Sounds:* one track with one step, two notes, a router queue of three. A queue
of three is the smallest that one iteration can overflow with a note-off among
what is dropped; two notes are what a debounce can tell apart, and the tracks
share nothing but the queue. *Voices:* two voices and two samples of two blocks,
one upload: a block before and one after any interruption. Voices and samples
are symmetric; no property of this run is about liveness.

*State persistence:* one track of one step, since an edit of any other differs
in nothing the saving looks at; debounce 2, interval 3, wrap at 5 and words of
16, so that the clock wraps within an interval and its differences do not; one
failing save and one power failure.

*MIDI queues:* output queue 3 beside 2 payloads, input 4 and 2, two reads of two
transports, two controllers with two values: each queue can fill while the other
does not, and a controller's value can be revised behind, between and before
SysEx markers. `InputAssumption` ties the size of the input queues to the reads
of an iteration, as the build's constants do.

*Devices:* two tracks and two steps, a brightness in three levels, volumes up to
2, two faults of the bus; a beat of three ticks (a multiplier of 12 in the
code), a debounce of three units and of one for the plug, intervals up to 7 and
iterations of up to 2; a write buffer of 3 bytes with groups of 2, so that a
group can straddle it, as 7 bytes straddle 256; kits of 3 bytes, two transfers
of three groups and one refusal, of an open, a write, a close or a format. Deadlock is not checked: a sleeping device
stops, and a host has so many transfers.

*SDS:* a sample longer than the range of packet numbers, so that numbers wrap
while earlier packets are still remembered; two faults allow a loss and the loss
of its repair, or a loss in each direction; three messages in flight are more
than stop-and-wait ever has without a late answer. `Sizes` has the empty sample,
one shorter and one longer than the numbers' range; three uploads allow
interruption by a new header. The proofs are for any of these. *Encodings:*
packets of two words, groups of three bytes in chunks of two groups, and every
file of up to seven bytes out of 0, 128 and 255: the empty file, odd lengths,
full and padded packets, groups and chunks, the low and the high byte of a word
with and without its upper bit, and the word that is the most negative sample.
Lengths stay within their fields (section 5).

*Firmware:* two partitions are all there are; two updates allow one to overtake
another's pending reboot, and three images distinguish old, new and broken; with
two blocks the last sector is not the first one.

Deadlock is checked in the other passing runs except that of `SdsDump`: there
the host's sessions and the faults are bounded, and when they are used up
everything is idle.

## 4 Fairness

Fairness is assumed of what the main loop calls unconditionally, and of time;
never of the outside world's good will.

| module | fair | why |
|---|---|---|
| `ClockChain` | WF `AutoSwitch` | called in every iteration of the Sequencer case. No tick is fair: the cable may be out, the MIDI master silent |
| `StepSequencer` | WF `Update`, WF `InternalTick` | both called in every iteration while the sequencer can run |
| `SystemMode` | WF of each part of the loop; SF `StateUpdate(TRUE)`; SF of the receivers' timeouts | the loop does not stop; a deadline that remains set is reached in the end although each single look may be too early. No button and no message is fair |
| `Knobs` | WF of an iteration | the panel is read in every iteration of the Sequencer case. Nobody has to turn a knob |
| `StatePersistence` | WF of `UpdateState` in an iteration that has not had it, of `Millisecond`, of `StartSequencer` | the loop, the clock; after a power failure somebody switches the device on |
| `MidiQueues` | WF of the parts of an iteration that the loop calls | no component has to send, no port has to have input |
| `LedStrip` | WF of `Show`, of the end of a transfer, of both interrupts | the loop and the hardware: a transfer ends, an alarm that was set goes off |
| `SdsDump` | WF of hearing and timers; SF `Stall` | input is polled in each iteration and timers are compared with the clock; retransmitting does not restart the stall timer, so it expires although it is not continuously enabled in the model |
| `SdsUpload` | WF `DeviceHears`, `CheckTimeout`, `HostGivesUp` | as above; the host's retry window is finite |
| `FirmwareUpdate` | WF of hearing, timeout, boot, health period, purchase; WF `Crash` | the loop and the clock; a broken image on trial does crash, by definition of broken. The power never has to fail, messages never have to be lost |

`TrackSteps`, `Encodings`, `StepSounds`, `Voices`, `Panel`, `AudioOutput`,
`SyncJack` and `FileStore` have safety properties only, and assume none.

## 5 Where code and documentation disagree

Four have a run that TLC must find violated:

1. **Half or double speed outlives its source** (`speed_carried_over`).
   `SpeedAdapter::set_modifier` (`speed_adapter.h:37`) decides by the source of
   the last event it heard, which is still the jack when the cable is pulled and
   `on_clock_source_changed` asks for normal speed. It defers that to a beat of
   the jack, and the internal clock goes on at the old speed until the knob is
   turned (`tempo_handler.cpp:162`: "Reset it to normal to avoid carrying over
   double/half speed from an external source"). What does hold, `KnobInForce`,
   says when the modifier in force is the knob's, that only a turn of it at the
   jack or leaving the jack can end that, and that what then waits is the right
   modifier.
2. **An update in the first two seconds of a trial** (`firmware_update_boot`).
   `firmware_update_allowed_` is true until the first iteration in Sequencer
   mode, while SysEx is handled already in Boot mode: the fallback partition can
   be erased under an unbought image. With a host that waits (`HostWaits`), the
   passing run and the proof show the rest of the scheme sound.
3. **A file longer than the write buffer** (`file_transfer`). The decoder of
   `codec.h` decodes a group of bytes that does not fit the rest of the buffer
   twice: as many bytes as fit are written, and then the whole group again at
   the start of the next block.
4. **What is acknowledged may have failed** (`acknowledged`). `file_ops.open`
   always returns a handle, so that a failed `fopen` is acknowledged
   (`protocol.h:346`), and the end of a short file after it as well; a setting's
   byte is written to the flash by `fclose`, whose result `persist_one` ignores
   (`settings_manager.cpp:86`). `drum/README.md:178` and `366-367` promise a
   `Nack`. `TakenIsStored` is what holds: of a file that could be opened and
   whose last write was not refused, nothing that was acknowledged is missing,
   the first 256 bytes are as sent, and so is a shorter file altogether; and a
   setting that the flash took is in force after a restart.

The rest came up while the code was read or in traces of properties that were
then stated more carefully. None has a run of its own.

*Between code and documentation*

- **The panel stays dead after an aborted update.** `MessageRouter` saves local
  control on every active event (`message_router.cpp:276`), and both progress
  and another slot are announced by active events; the second saves OFF. The
  engine is deaf to control changes as well. A successful firmware update resets
  the device; an aborted one, and a transfer of several slots, show it.
- **A lost packet of a download is skipped.** Answers carry no number as far as
  `handle_response` is concerned; a late ACK and the ACK of the retransmission
  advance the sender twice. The host notices (`SampleIntact` holds) but does not
  get the sample; `drum/README.md` promises retransmission.
- **A lost final ACK of an upload.** The retransmission finds the device Idle
  and is NAKed; a stored sample is reported as failed.
- **CANCEL is too short.** `process_message` refuses less than three bytes,
  CANCEL has two.
- **An odd byte with a packet to itself.** The device is told of whole words
  only. A file that is one byte longer than whole packets of 80 makes drumtool
  send one packet more than the device expects; it is refused, and a sample that
  is stored whole is reported as failed (`ArrivesAsSent` says so). Lengths are
  sent in 21 bits: of a sample of 2^21 words or more the length is truncated.
- **Edits that go on.** The debounce has no effect when the last save is at
  least the maximum interval ago: the first edit after a rest is saved at once,
  in the middle of a gesture (`README.md:326`).
- **The first value of a knob.** `AnalogControl::init` updates the filter once
  from 0, so the first value that is told is a fraction of the reading and ramps
  up (`analog_control.cpp:23`).
- `drum/config.h:201` gives 1..5 as the range of `SWING_OFFSET_PHASES`, but the
  substep grid is independent of the next step's parity only for offsets of 2
  modulo 4 (`GridIsOne` needs `SwingOffset = 2`); `FirmwareUpdateBuyer` buys
  after 1000 ms, `drum/README.md:260` says about five seconds;
  `get_current_step()` is documented as the step last triggered and returns the
  next; `SequencerController::reset()` and `set_random()` have no caller.

*Observations by module*

- *StepSounds.* `stop` keeps `last_played_note`, the due mask and
  `_step_is_due`, so that a step or retrigger that was marked before a stop
  sounds after it; so does a retrigger marked before its pad was released.
  RANDOM's previews and echoes of MIDI notes never get a note-off
  (`NoNoteHangs` exempts them by name). A full queue drops note-offs. A pad hit
  between the tick and `update` leaves its trace on the previous step.
- *Voices.* Between the commit of a buffer and the restart of its reader
  (`audio_engine.cpp` 150 and 181) the interrupt renders the new sample at the
  old position; `HeardAsAsked` exempts exactly that moment. Files written by the
  custom protocol (`sysex_handler.cpp:226`) do not invalidate the copies in RAM.
  A short read is taken for a whole sample.
- *StatePersistence.* After the wrap of the clock, every 71 minutes, an old save
  looks recent. A key held on a step whose note a host has cleared leaves a
  silent step lit, which sounds after a restart. Edits while falling asleep are
  not saved. `save_to_file` ignores the result of `fclose`.
- *MidiQueues.* A full output queue drops the last of a run of control changes,
  and clock ticks; a realtime message waits behind a head that the pace of the
  DIN port holds back; SysEx overtakes other messages read before it.
- *Panel.* A hard press of RANDOM that comes without a light one before it is
  ignored.
- *Knobs.* A FILTER event sets the value at once, and the ramp of a filter under
  way then goes back; a control change handled in the iteration of a transfer's
  end is echoed but not applied; a change of `SliderMode` does not apply the
  slider until it moves; the host's own control changes are echoed; the display
  gets no initial values.
- *AudioOutput.* `unmute` turns the amplifier on with headphones plugged in
  (`audio_output.h:125`) until the next poll; a change of volume while the codec
  steps is dropped; a poll in the iteration that announces a transfer can turn
  the amplifier on while muted; a failed write to it is not repeated; the driver's
  memory of the DAC's mute is wrong after a write that failed but was taken.
- *SyncJack.* After a switch to the jack nothing realigns `SyncOut`, which may
  make a pulse on a countdown left over until the first beat.
- *FileStore.* End is acknowledged although the last write failed
  (`protocol.h:181`); a path that is refused within a transfer leaves the state
  `FileTransfer` without a file. A format is refused only by the protocol's own
  state and not by an SDS transfer; it removes `/settings`, after which a setting
  is refused although it is in force until the restart; and the kit is not read
  again after it, nor after a timeout.

## 6 Proofs

`tlapm` checks every leaf; there are no axioms besides the named assumptions on
constants, which TLC evaluates in the runs. Every safety property of a passing
run, invariant or action property, is a theorem for every value of its module's
constants. The inductive invariants were found with TLC: each strengthening was
an invariant of the component's run before it was proved. A proof module that
treats several components proves one invariant for each; they share no state.

**Lemmas** has what several of them need: remainders (packet numbers that wrap),
sequences of messages, the least of a set of numbers, and induction. The
library's induction theorems take a predicate as a parameter, which the provers
cannot instantiate; `Ind` says the same of the *set* of the numbers for which
something holds, from well-foundedness, and `RunExists` gives a recursive
function as a run: a function on 0..n each of whose values follows from the one
before. That is how loops over tracks and bytes are reasoned about.

**ClockChain_proofs**, for any set of knob positions, any anchors in 0..11 and
both policies (`KnobAssumption`, `AnchorAssumption`, `PolicyAssumption`). The
inductive invariant is `IInv`: `TypeOK`, `SingleMaster`, `WaitsOnlyForJack`,
`RequestKept` and `KnobAsked` (the handler asks for what the knob means at the
present source), with `OneMidiClockPerTick` beside it; for `KnobInForce` also
`HeardHere` (away from the jack the adapter has not heard the jack last, which a
switch's resync sees to). None is inductive alone: that a beat of the jack
puts the knob in force, or that a turn of it does elsewhere, needs that the
handler had asked for it and the adapter had kept the request,
`OneMidiClockPerTick` needs `SingleMaster` to
exclude the second path, and so on. The lemmas are about operators: what a
modifier change (`SetSpeedModifierAgrees`), an event (`DeliverKeeps`) and a
source change (`OnSourceChangedKeeps`) do to a well-formed chain; each action is
then a few applications of them. The two action properties, `WaitIsSilent` and
`BeatsLandOnGrid`, use it before and after the step: only the jack can be waited
for, so only the jack's own events need be looked at, and adapter and handler
agree on the modifier a beat puts in force. `StreamImplemented` is the
refinement: under `IInv` each step of the chain is a step of `TempoStream` or
leaves its variables alone (`TickAdvances`, `MidiTickIsStream`,
`SetClockSourceIsStream`, `NextIsStream`).

**StepSequencer_proofs**, for any even pattern length, any `SwingOffset` in 1..5
and any `MaxBurst` in 1..3 not above `6 - SwingOffset` (`BurstAssumption`:
`update()` comes round before the next onset of the narrower half). `IInv`
consists of the stream followed (`FollowsStream`), a step played before the
downbeat comes (`PlayedBeforeDownbeat`: the parity cannot be behind when swing
changes), a due step's age bounded by the burst (`DueSince`), `OnsetTaken` and
`OneStray`; `GapSince`, which ties the age of the last onset to the phase, is
proved inductive on top of it and gives `SteadyGaps`. `GridIsOne` assumes
`SwingOffset = 2`, see section 5. The strengthenings were model-checked for
(steps, offset, burst) = (2,2,3), (2,4,2), (4,5,1) and (2,3,3) before they were
proved.
Of `TrackSteps`, for any pattern length, any number of tracks and any draws:
`TracksInv` says that nothing is remembered outside a loop and that what was
heard *k* steps ago in one is what the loop plays at that place (`HeardIsLoop`),
and that the age of a hit is what its trace has faded plus the ticks that
`update` has still to count (`AgeIsFading`). `LoopRepeats` follows because a
loop's place is the step counter modulo its length, which one turn gives back;
`TracesLast` because the trace and its hit are counted in the same ticks,
however many `update` finds at once.

**System_proofs**, of three components that a host sees. *Modes*, for any set of
slots and any number of messages: `IInv` adds to the checked invariants
`LoopOrder`: in which modes each point of the loop is reached, and that the
announced state agrees with the receivers where the panel is read.
`NoSleepDuringTransfer` and `SilentDuringTransfer` need it: the button can start
the sequencer or put the device to sleep only at that point, where nothing is
busy unannounced. *Queues*, of any size that holds what an iteration reads
(`InputAssumption`): `NothingIsLost` follows from a bound on the input queues by
the reads still to come (`InputInv`); `StepsAreFifo` is the refinement. A
function, `Pairs`, gives each SysEx marker of the output queue its payload by
its rank among the markers; the invariant (`OutputInv`) is that there are as
many markers as payloads, and each step of either queue is one step of
`MidiFifo` or none. *Updates*, for any images, number of blocks, faults and
updates: `UpdateInv` has the flash against the session that fills it
(`Staging`, `Counters`), what host and device believe of each other
(`Session`), that the scheduled or running trial is a whole image (`TrialWhole`)
and, under `HostWaits`, what there is to fall back on (`Fallback`).
`StaysBootable` needs the last one because a trial may be refused, run out of
power or crash at any moment.

**SdsUpload_proofs**, for uploads of any number and size, any packet numbers
from 2 on, any faults and any capacity of the link. A handshaking host is at
most one block behind the file, so that a packet's number modulo `PacketNumbers`
tells the next block from the last; that is the argument, and `IInv` says it in
parts: what is on the link is in order (`Order`), what the host has been told
against what is stored (`HeaderSent`, `Handshake`, `Completed`), what the device
is receiving (`Begun`, `Receiving`) and what an acknowledgement under way still
vouches for (`Blocks`, `Acks`).
The *encodings*, for files of any bytes and any length that its field can say:
`Conveyed` says that what has arrived is how the file begins (`Beginning`),
where the sender is (`Uploading`: at the boundary of a packet, with both ends
agreed on the length in whole words; `Downloading`; `Updating`), and that
`ArrivesAsSent` holds in the end (`Ended`). Each encoding has a lemma that its
decoder undoes it: `PackedIs` for a 16-bit word in three 7-bit bytes, the sign
and the wrap included; `LengthIs` for the 21 bits of a length; `SizeFits` for
the size in four bytes; `EighthBitsAre` and `FirmwareBytesAre` for seven bytes
in eight. Padding is cut at the right place only because a chunk of firmware is
whole groups (`ChunkAssumption`), and a length comes back only if it fits its
field (`BytesAssumption`); section 5 says what happens to longer ones.

**SdsDump_proofs**, likewise for samples of any length. No answer is numbered,
so nothing can be said of how far device and host are apart, and open-loop the
device does not listen at all. What holds is that a session asks once (`Asking`),
that fresh blocks travel in order, retransmissions behind them (`Order`), and
that what the host stores rises and fits its place modulo the numbers
(`Stored`): as many rising blocks as the sample has can only be all of them.

**Sounds_proofs**, from the pattern to what is heard. *The file*, for any
pattern, edits, faults and width of the clock that keeps an interval apart from
the wrap (`TimeAssumption`): `PersistenceInv` says that a step's note is its
track's active one or none (`NotesFollow`, without which a pattern would not
survive its own file), that a clean state is what the file would be restored to
unless `fclose` may fail (`CleanIsKept`), and that while saves succeed an edit
is no older than the time since the last save and a millisecond (`Waiting`).
`CleanIsStoredAlways` has `CloseMayFail = FALSE` as its hypothesis, as the run
has it: `save_to_file` ignores the result (section 5). *The notes*, for any
number of tracks and size of the queue: what is on at the receiver once the
queue is delivered is remembered by its track or stray, and the invariant of the
whole action is that of each of its parts (`Kempt`); `Update` loops over the
tracks, and that each turn of the loop keeps it is all there is to show.
*The voices*, for any number of voices, samples and blocks: `VoicesInv` says
where in `play_on_voice` interrupts are off and what staging holds there
(`MainOrder`), that a slot is one version of one sample, the latest but for the
moment it is being replaced (`SlotsKept`), and that what is due to be heard next
is what reader, pitch shifter and envelope will play (`VoicesInStep`), but
between the copy of a sample and the restart of its reader.

**Devices_proofs**, five components at the device's edge. *The panel*: the flags
of RANDOM and REPEAT are what their states and the sequencer's say, no flip is on
in a loop and no offset without a run (`Consistent`); a released RANDOM leaves
no effect, and a pad has a retrigger mode only while it is held or being let go.
So no effect outlives its press for any thresholds, debounce times and order of
readings; `PadImplemented` maps each reading of a pad to a step of
`PadProtocol` or none. *The display*: each buffer shows the one picture last drawn
to it, and the one being sent is not the one drawn to (`FramesWhole`).
*The codec*: whatever the bus refuses, the driver's page is the codec's or
unknown, and so are its volumes (`KnownCodec`); every operation is a chain of
writes that stops at the first failure, and the lemmas are about one write and
the composition of two. *The files*: the open file and the write buffer behind
it are the bytes of one transfer, as far as it was acknowledged (`Receiving`),
and a file on the flash is one transfer's, without gaps (`PieceOf`). The file
and its buffer hold every byte that was acknowledged, the first block of them in
place (`HoldsAreWhole`), whichever writes were refused and however a group meets
the end of the buffer; past the first block a group may be there twice, section
5, which is why `TakenIsStored` says no more. *The sync jack*: `SyncIn` never
takes the contact to have been low for longer than it has (`LowFor`), so that
bounces make one beat, and an aligned output's countdown outlasts what the jack
still has to interpolate (`InStep`), so that pulses fall on beats.

| module | theorems | properties |
|---|---|---|
| `ClockChain_proofs` | `TypeCorrect`, `SingleMasterAlways`, `WaitsOnlyForJackAlways`, `RequestNeverLost`, `KnobAlwaysInForce`, `MidiClockNeverDoubled`, `WaitIsSilent`, `BeatsLandOnGrid`, `StreamImplemented` | `TypeOK`, `SingleMaster`, `WaitsOnlyForJack`, `RequestKept`, `KnobInForce`, `OneMidiClockPerTick`, `SilentWhileWaiting`, `BeatLandsOnGrid`, `ImplementsStream` |
| `StepSequencer_proofs` | `TypeCorrect`, `OnsetsTaken`, `StopsSettle`, `StepsAreSteady`, `GridIsOne`, `FollowsTheStream` | `TypeOK`, `OnsetTaken`, `StopSettles`, `SteadyGaps`, `OneSubstepGrid`, the stream as environment |
| | `TracksCorrect`, `LoopRepeatsAlways`, `TracesLastAlways` | `TracksInv`, `LoopRepeats`, `TracesLast` |
| `System_proofs` | `TypeCorrect`, `TransferKeepsMode`, `TransferIsSilent`, `AwakeDuringTransfer` | `TypeOK`, `TransferHoldsMode`, `SilentDuringTransfer`, `NoSleepDuringTransfer` |
| | `NothingIsLost`, `StepsAreFifo` | `NothingReadIsLost`, the steps of `MidiFifo` |
| | `UpdateTypeCorrect`, `TrialsAreWhole`, `StaysBootable` | the types, `TrialIsWhole`, `NeverBricked` |
| `SdsUpload_proofs` | `UploadTypeCorrect`, `UploadsIntact`, `HostNeverAhead`, `ArrivesAsSentAlways` | `TypeOK`, `UploadIntact`, `NeverAhead`, `ArrivesAsSent` |
| `SdsDump_proofs` | `DumpTypeCorrect`, `DumpsIntact` | `TypeOK`, `SampleIntact` |
| `Sounds_proofs` | `PersistenceInvariance`, `CleanIsStoredAlways`, `SavedInTimeAlways` | `PersistenceInv`, `CleanIsStored`, `SavedInTime` |
| | `SoundsInvariance`, `NoNoteHangsAlways` | `SoundsInv`, `NoNoteHangs` |
| | `VoicesInvariance`, `WholeSampleAlways`, `HeardAsAskedAlways` | `VoicesInv`, `WholeSample`, `HeardAsAsked` |
| `Devices_proofs` | `NothingOutlives`, `PadImplemented` | `NothingOutlivesItsPress`, `ImplementsPad` |
| | `FrameIsWholeAlways`, `CodecStaysKnown` | `FrameIsWhole`, `CodecIsKnown` |
| | `FilesInvariance`, `NoMixtureAlways`, `TakenIsStoredAlways` | `FileInv`, `NoMixture`, `TakenIsStored` |
| | `PulsesFollowBeatsAlways` | `PulsesFollowBeats` |

`SilentWhileWaiting`, `SingleMaster`, `WaitsOnlyForJack`, `RequestKept`,
`NoSleepDuringTransfer`, `StopSettles`, `OneSubstepGrid` and `NeverAhead` are
proved and have no run: they are parts of the arguments, or say less than the
properties that do.

*Only model-checked.* All liveness, which needs fairness and ENABLED and is
beyond the prover: `UnpluggingEndsWait`, `ReturnsToSequencer`, `PanelGoesQuiet`,
`KnobIsHeard`, `UpdateEnds`, `EditsGetSaved`, `DumpEnds`, `HandshakeDelivers`,
`UploadEnds`, `KeepsPlaying`, `ShowReturns`; and the fairness of `MidiFifo` in
`ImplementsFifo`, whose steps are proved. `Knobs` has only liveness. RECURSIVE
operators are beyond the prover too; no module uses them.

## 7 What is not modelled

*Within the modules above.* Real time, except as ages and intervals where a
section says so: deadlines are "passed or not". The bytes of messages and
checksums (a message is intact or damaged). The tick schedule of `InternalClock`
(ticks come at any moment, a superset). Velocities but for being set, colours and
flashing. What the steps that RANDOM chooses sound like: `TrackSteps` says which
step is played, and in `StepSounds` a due step is any step of the pattern.
Messages of
the custom file protocol that carry a part of a group. Refusals of littlefs when
a file is closed, except of a setting's (and, of the pattern's, as an assumption
of the run). Calls with no caller
(`set_auto_switching_enabled`, `trigger_resync`, `SequencerController::reset`,
`set_random`). Initialisation before the loop is folded into `Init`.

*Whole components.* Signal processing (filters, effects, the mixer): numeric
code with no control to speak of. The hardware layer below the drivers that are
modelled, loggers and boards: register access. Build tools, provisioning and
packaging. Experiments and prototype in `archive/`, which nothing builds.
`musin/drivers/aic3204.c` is not built either; the driver in use is the `.cpp`.

*External, modelled from their use in the code.* The USB MIDI link, the
bootrom's choice of a partition, the power supply and the watchdog, a crashing
image, a host that answers WAIT, littlefs, the Arduino MIDI parser.

## 8 What is open

In order of importance.

1. **The proofs across modules.** `StepSounds` takes its pads from
   `PadProtocol`, which `Panel` is proved to implement, and `Voices` its uploads
   from what `SystemMode` shows; both are used as environments and not composed
   in one theorem, as the clock chain and the sequencer are by
   `StreamImplemented` and `FollowsTheStream`.
2. **The tick schedule of `InternalClock`**, with the jitter that a late
   iteration causes. It would give a sharper contract than `TempoStream` and
   justify `MaxBurst` from the time the loop may take.
3. **Groups cut by a message boundary** in `FileStore`, with a decoder that is
   correct at the end of its buffer as an abstract specification beside the one
   of the code.
4. **The display's colours**, which show the traces, the cursor and the flashes.
5. **One clock for all of it**: composing `StepSequencer` with `TrackSteps` and
   `StepSounds`, so that which iterations have a due step, and which step that
   is, is what the sequencer allows.

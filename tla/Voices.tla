------------------------------- MODULE Voices -------------------------------
(***************************************************************************)
(* What the voices sound like.  A note (AudioEngine::play_on_voice) makes  *)
(* sure that its voice holds the sample, in a buffer of the voice's own    *)
(* (SampleSlotManager), and starts a reader on it; the interrupt of the    *)
(* audio output renders all voices, between any two steps of the main loop *)
(* except where that has interrupts disabled.  An upload over SDS rewrites *)
(* the file of a sample, while no notes are played.                        *)
(*                                                                         *)
(* Audio is counted in blocks, of a file, of a buffer and of what is       *)
(* rendered: which sample a block is from, which version and which part of *)
(* it.  Loudness is left out, but for the decay having come to its end.    *)
(***************************************************************************)
EXTENDS Naturals, Sequences

CONSTANTS
    VoiceIds,      \* one voice each
    Samples,
    NoSample,
    MaxBlocks,   \* of a sample
    MaxUploads

ASSUME SamplesAssumption == NoSample \notin Samples
ASSUME BlocksAssumption == MaxBlocks \in Nat \ {0}
ASSUME UploadsAssumption == MaxUploads \in Nat

VARIABLES
    sampleFile, \* what the flash holds of each sample; whole if it was stored
               \* to its end
    uploading, \* the sample being rewritten
    slot,      \* voice_slots_: of which sample, how long, and the buffer
    staging,   \* staging_buffer_, when loaded
    reader,    \* of each voice: the length it plays and where it is
    shifter,   \* at what speed, and the source block it is in the middle of
    envelope,  \* the decay
    main,      \* where play_on_voice is, and what it plays
    irqs,      \* interrupts are enabled
    due        \* history: the blocks the last note of each voice asked for

voiceVars == <<sampleFile, uploading, slot, staging, reader, shifter, envelope, main, irqs, due>>

-----------------------------------------------------------------------------
Silence == <<>>
Block == {Silence} \cup (Samples \X (0..MaxUploads) \X (1..MaxBlocks))
Speeds == {"unit", "half"}
Contents(s) == [i \in 1..sampleFile[s].length |-> <<s, sampleFile[s].version, i>>]

\* The decay of the knob: none, or over half of the sample.
Decays == {"none", "half"}

-----------------------------------------------------------------------------
(* SampleSlotManager *)

voice_has_sample(v, s) == slot[v].sample = s

NotStaged == [sample |-> NoSample, blocks |-> <<>>]

\* request_load: the whole file, cut at the size of a slot.
Staged(s) == [sample |-> s, blocks |-> Contents(s)]

\* Every voice that holds the sample is told that it does not.
invalidate_sample(s) ==
    [v \in VoiceIds |-> IF slot[v].sample = s THEN [slot[v] EXCEPT !.sample = NoSample] ELSE slot[v]]

\* std::copy of the first blocks, or of all of them.
Copied(buffer, blocks, upTo) ==
    [i \in 1..MaxBlocks |-> IF i <= Len(blocks) /\ i <= upTo THEN blocks[i] ELSE buffer[i]]

-----------------------------------------------------------------------------
(* Rendering *)

\* MemorySampleReader::read_samples
read_samples(v) ==
    IF reader[v].pos < reader[v].count
    THEN [out |-> slot[v].buffer[reader[v].pos + 1], reader |-> [reader[v] EXCEPT !.pos = @ + 1]]
    ELSE [out |-> Silence, reader |-> reader[v]]

\* PitchShifter: at half speed every source block is good for two.
Shifted(v) ==
    LET read == read_samples(v) IN
    IF shifter[v].speed = "unit" THEN [out |-> read.out, reader |-> read.reader, shifter |-> shifter[v]]
    ELSE IF shifter[v].held # Silence
    THEN [out |-> shifter[v].held, reader |-> reader[v], shifter |-> [shifter[v] EXCEPT !.held = Silence]]
    ELSE [out |-> read.out, reader |-> read.reader, shifter |-> [shifter[v] EXCEPT !.held = read.out]]

\* AudioEngine::Voice::fill_buffer; frames past the end need not be told apart.
fill_buffer(v) ==
    LET e == envelope[v]  s == Shifted(v) IN
    [out      |-> IF e.active /\ e.rendered = e.end THEN Silence ELSE s.out,
     reader   |-> s.reader,
     shifter  |-> s.shifter,
     envelope |-> IF e.active /\ e.rendered < e.end THEN [e EXCEPT !.rendered = @ + 1] ELSE e]

\* fill_buffers_from_irq
Render ==
    /\ irqs
    /\ reader' = [v \in VoiceIds |-> fill_buffer(v).reader]
    /\ shifter' = [v \in VoiceIds |-> fill_buffer(v).shifter]
    /\ envelope' = [v \in VoiceIds |-> fill_buffer(v).envelope]
    /\ due' = [v \in VoiceIds |-> IF due[v] = <<>> THEN <<>> ELSE Tail(due[v])]
    /\ UNCHANGED <<sampleFile, uploading, slot, staging, main, irqs>>

-----------------------------------------------------------------------------
(* play_on_voice *)

Idle == [pc |-> "idle"]
At(pc) == main' = [main EXCEPT !.pc = pc]

\* The voice has the sample, or the file can be read, or it keeps what it has.
Play(v, s) ==
    /\ main.pc = "idle" /\ uploading = NoSample
    /\ \E speed \in Speeds, decay \in Decays, opens \in BOOLEAN :
          LET loads == ~voice_has_sample(v, s) /\ opens
          IN /\ main' = [pc |-> IF loads THEN "commit" ELSE "start",
                         voice |-> v, sample |-> s, speed |-> speed, decay |-> decay]
             /\ staging' = IF loads THEN Staged(s) ELSE staging
    /\ UNCHANGED <<sampleFile, uploading, slot, reader, shifter, envelope, irqs, due>>

\* Mutant: the interrupt is not kept out while the buffer is replaced.
CommitBeginsOpen ==
    /\ main.pc = "commit" /\ At("committing")
    /\ slot' = [slot EXCEPT ![main.voice].buffer = Copied(@, staging.blocks, 1)]
    /\ irqs' = TRUE
    /\ UNCHANGED <<sampleFile, uploading, staging, reader, shifter, envelope, due>>

\* commit_staging, with interrupts disabled: part of the copy ...
CommitBegins ==
    /\ main.pc = "commit" /\ At("committing")
    /\ slot' = [slot EXCEPT ![main.voice].buffer = Copied(@, staging.blocks, 1)]
    /\ irqs' = FALSE
    /\ UNCHANGED <<sampleFile, uploading, staging, reader, shifter, envelope, due>>

\* ... and the rest.
CommitEnds ==
    /\ main.pc = "committing" /\ At("replaced")
    /\ slot' = [slot EXCEPT ![main.voice] =
                  [sample |-> staging.sample, length |-> Len(staging.blocks),
                   buffer |-> Copied(@.buffer, staging.blocks, MaxBlocks)]]
    /\ staging' = NotStaged /\ irqs' = TRUE
    /\ UNCHANGED <<sampleFile, uploading, reader, shifter, envelope, due>>

\* A voice without a sample stays as it is.
NothingToPlay ==
    /\ main.pc \in {"start", "replaced"} /\ slot[main.voice].length = 0
    /\ main' = Idle
    /\ UNCHANGED <<sampleFile, uploading, slot, staging, reader, shifter, envelope, irqs, due>>

\* What a note asks for: the sample, at its speed, until the decay has ended,
\* which takes a block at least.
Asked(v, speed) ==
    LET blocks == SubSeq(slot[v].buffer, 1, slot[v].length)
    IN IF speed = "unit" THEN blocks
       ELSE [i \in 1..2 * Len(blocks) |-> blocks[(i + 1) \div 2]]

EndOfDecay(v, speed) ==
    LET half == Len(Asked(v, speed)) \div 2 IN IF half = 0 THEN 1 ELSE half

\* Interrupts disabled again: set_source and the envelope ...
Start ==
    LET v == main.voice IN
    /\ main.pc \in {"start", "replaced"} /\ slot[v].length # 0 /\ At("starting")
    /\ reader' = [reader EXCEPT ![v] = [count |-> slot[v].length, pos |-> 0]]
    /\ envelope' = [envelope EXCEPT ![v] = [active |-> main.decay # "none",
                       end |-> EndOfDecay(v, main.speed), rendered |-> 0]]
    /\ due' = [due EXCEPT ![v] = SubSeq(Asked(v, main.speed), 1,
                       IF main.decay = "none" THEN Len(Asked(v, main.speed))
                                              ELSE EndOfDecay(v, main.speed))]
    /\ irqs' = FALSE
    /\ UNCHANGED <<sampleFile, uploading, slot, staging, shifter>>

\* Mutant: PitchShifter::reset keeps the source block it has read.
ResetKeepingSource(s, speed) == [s EXCEPT !.speed = speed]

Reset(s, speed) == [s EXCEPT !.speed = speed, !.held = Silence]

\* ... and Sound::play, which resets shifter and reader.
SoundPlay ==
    LET v == main.voice IN
    /\ main.pc = "starting" /\ main' = Idle
    /\ shifter' = [shifter EXCEPT ![v] = Reset(@, main.speed)]
    /\ reader' = [reader EXCEPT ![v].pos = 0]
    /\ irqs' = TRUE
    /\ UNCHANGED <<sampleFile, uploading, slot, staging, envelope, due>>

-----------------------------------------------------------------------------
(* Uploads.  Local control is off from the announcement of one until that  *)
(* of its end, so that no note gets to the voices.                         *)

Uploads == CHOOSE n \in 0..MaxUploads :
              /\ \E s \in Samples : sampleFile[s].version = n
              /\ \A s \in Samples : sampleFile[s].version <= n

\* The header truncates the file.
UploadBegins(s) ==
    /\ main.pc = "idle" /\ uploading = NoSample /\ Uploads < MaxUploads
    /\ uploading' = s
    /\ sampleFile' = [sampleFile EXCEPT ![s] = [version |-> Uploads + 1, length |-> 0, whole |-> FALSE]]
    /\ UNCHANGED <<slot, staging, reader, shifter, envelope, main, irqs, due>>

\* The sample is complete (SysExHandler::handle_sysex_message) ...
UploadCompletes ==
    /\ main.pc = "idle" /\ uploading # NoSample
    /\ \E length \in 0..MaxBlocks :
          sampleFile' = [sampleFile EXCEPT ![uploading].length = length, ![uploading].whole = TRUE]
    /\ slot' = invalidate_sample(uploading)
    /\ staging' = IF staging.sample = uploading THEN NotStaged ELSE staging
    /\ uploading' = NoSample
    /\ UNCHANGED <<reader, shifter, envelope, main, irqs, due>>

\* ... or given up, leaving what there is.
UploadFails ==
    /\ main.pc = "idle" /\ uploading # NoSample
    /\ \E length \in 0..MaxBlocks : sampleFile' = [sampleFile EXCEPT ![uploading].length = length]
    /\ uploading' = NoSample
    /\ UNCHANGED <<slot, staging, reader, shifter, envelope, main, irqs, due>>

-----------------------------------------------------------------------------
Empty == [sample |-> NoSample, length |-> 0, buffer |-> [i \in 1..MaxBlocks |-> Silence]]

\* Before the audio starts, main() has loaded each track's sample, if it could.
VoicesInit ==
    /\ sampleFile \in [Samples -> [version : {0}, length : 1..MaxBlocks, whole : {TRUE}]]
    /\ \E s \in [VoiceIds -> Samples \cup {NoSample}] :
          slot = [v \in VoiceIds |->
                    IF s[v] = NoSample THEN Empty
                    ELSE [sample |-> s[v], length |-> sampleFile[s[v]].length,
                          buffer |-> Copied(Empty.buffer, Contents(s[v]), MaxBlocks)]]
    /\ uploading = NoSample /\ staging = NotStaged
    /\ reader = [v \in VoiceIds |-> [count |-> 0, pos |-> 0]]
    /\ shifter = [v \in VoiceIds |-> [speed |-> "unit", held |-> Silence]]
    /\ envelope = [v \in VoiceIds |-> [active |-> FALSE, end |-> 0, rendered |-> 0]]
    /\ main = Idle /\ irqs = TRUE /\ due = [v \in VoiceIds |-> <<>>]

VoicesNext ==
    \/ Render
    \/ \E v \in VoiceIds, s \in Samples : Play(v, s)
    \/ CommitBegins \/ CommitEnds \/ NothingToPlay \/ Start \/ SoundPlay
    \/ \E s \in Samples : UploadBegins(s)
    \/ UploadCompletes \/ UploadFails

VoicesSpec == VoicesInit /\ [][VoicesNext]_voiceVars

-----------------------------------------------------------------------------
(* Properties *)

VoicesTypeOK ==
    /\ sampleFile \in [Samples -> [version : 0..MaxUploads, length : 0..MaxBlocks, whole : BOOLEAN]]
    /\ uploading \in Samples \cup {NoSample}
    /\ \A v \in VoiceIds :
          /\ slot[v].sample \in Samples \cup {NoSample} /\ slot[v].length \in 0..MaxBlocks
          /\ slot[v].buffer \in [1..MaxBlocks -> Block]
          /\ reader[v].count \in 0..MaxBlocks /\ reader[v].pos \in 0..reader[v].count
          /\ shifter[v] \in [speed : Speeds, held : Block]
          /\ envelope[v].rendered \in 0..envelope[v].end
    /\ main.pc \in {"idle", "commit", "committing", "start", "replaced", "starting"}

\* Whenever the interrupt can render, what a voice holds is one sample, of one
\* version, from its beginning: replacing it is never seen half done.  And a
\* note whose voice claims its sample plays the file as it is, however the
\* voices that held the sample before and its uploads, finished or not, came;
\* an unfinished one may leave the old sound.
WholeSample ==
    /\ irqs => \A v \in VoiceIds : \A i \in 2..slot[v].length :
                   slot[v].buffer[i] = [slot[v].buffer[1] EXCEPT ![3] = i]
    /\ main.pc = "starting" =>
          LET held == slot[main.voice] IN
          held.sample = main.sample /\ sampleFile[main.sample].whole
              => SubSeq(held.buffer, 1, held.length) = Contents(main.sample)

\* Every block rendered is the one the voice's last note asked for, in order,
\* however the interrupt falls between the steps of this and other notes and
\* whatever was playing before; but for the time between a new sample's copy
\* and its start.
HeardAsAsked ==
    [][Render => \A v \in VoiceIds :
          \/ fill_buffer(v).out = IF due[v] = <<>> THEN Silence ELSE Head(due[v])
          \/ main.pc = "replaced" /\ main.voice = v]_voiceVars
=============================================================================

------------------------------ MODULE MCSounds -----------------------------
(***************************************************************************)
(* From the notes to the sound.  StepSounds says which notes a track       *)
(* plays, Voices what the voice of a track makes of a note that it is told *)
(* to play.  They share no state but the note, and a voice is told any, so *)
(* that each is explored with the other where it starts.                   *)
(*                                                                         *)
(* One track whose range has two notes, one step and room for three events *)
(* in the router's queue: every way two notes can follow each other on a   *)
(* track and a queue that overflows.  Two voices and two samples of two    *)
(* blocks, one of them rewritten.                                          *)
(***************************************************************************)
EXTENDS StepSounds, Voices, TLC

VARIABLE part   \* the one explored

MCLow  == [t \in Tracks |-> 2 * t]
MCHigh == [t \in Tracks |-> 2 * t + 1]
MCAlike == Permutations(VoiceIds) \cup Permutations(Samples)

MCInit ==
    /\ part \in {"notes", "voices"}
    /\ Init /\ VoicesInit
    \* one initial state of the voices at rest
    /\ part = "notes" => /\ \A s \in Samples : sampleFile[s].length = 1
                         /\ \A v \in VoiceIds : slot[v].sample = NoSample

MCNext ==
    \/ part = "notes" /\ Next /\ UNCHANGED <<part, voiceVars>>
    \/ part = "voices" /\ VoicesNext /\ UNCHANGED <<part, vars>>

MCSpec == MCInit /\ [][MCNext]_<<part, vars, voiceVars>>
=============================================================================

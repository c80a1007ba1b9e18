------------------------------- MODULE MCMidi ------------------------------
(***************************************************************************)
(* What comes and goes by MIDI.  Uploads of blocks: a short one, an empty  *)
(* one, and one longer than the packet numbers.  The bytes of files small  *)
(* enough for all of them, encoded and decoded again.  And the queues that *)
(* messages of all kinds pass: two ports read twice per iteration, and     *)
(* output queues that fill up.                                             *)
(*                                                                         *)
(* They share no state: one of them is explored, the others stay where     *)
(* they start.                                                             *)
(***************************************************************************)
EXTENDS SdsUpload, Encodings, MidiQueues

MCSizes == <<2, 0, 4>>

VARIABLE part   \* the one explored

MCInit ==
    /\ part \in {"upload", "bytes", "queues"} /\ Init /\ EncodingInit /\ QueuesInit
    \* one initial state of the bytes at rest, and one hash where there is none
    /\ part # "bytes" => source = << >> /\ journey = "upload"
    /\ journey # "firmware" => \A i \in 1..2 : sha.sent[i] = 0

\* A host has so many uploads and a file is sent once, and then they are over;
\* of the queues there is always one that goes on.
MCNext ==
    \/ part = "upload" /\ Next /\ UNCHANGED <<part, encodingVars, queueVars>>
    \/ part = "bytes" /\ EncodingNext /\ UNCHANGED <<part, vars, queueVars>>
    \/ part = "queues" /\ QueuesNext /\ UNCHANGED <<part, vars, encodingVars>>
    \/ part # "queues" /\ UNCHANGED <<part, vars, encodingVars, queueVars>>

MCSpec ==
    /\ MCInit /\ [][MCNext]_<<part, vars, encodingVars, queueVars>>
    /\ \/ part = "upload" /\ Fairness
       \/ part = "bytes"
       \/ part = "queues" /\ QueuesFairness
=============================================================================

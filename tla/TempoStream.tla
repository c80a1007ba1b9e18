---------------------------- MODULE TempoStream ----------------------------
(***************************************************************************)
(* What the clock chain promises an observer of TempoEvents, whatever      *)
(* source drives it: the phase advances one by one, and jumps only at a    *)
(* beat of the sync jack, at a resynchronisation, or when playback is      *)
(* anchored.  While the stream waits for a beat the phase stands still.    *)
(***************************************************************************)
EXTENDS Integers

CONSTANT Anchor

VARIABLES
    master,   \* the clock source
    waiting,  \* the stream is held until the next beat
    phase     \* phase of the last TempoEvent

vars == <<master, waiting, phase>>

Init ==
    /\ master = "INTERNAL"
    /\ waiting = FALSE
    /\ phase = 0

Advance ==
    /\ ~waiting
    /\ phase' = (phase + 1) % 12
    /\ UNCHANGED <<master, waiting>>

\* A beat of the jack snaps the phase to a quarter of the cycle.
Downbeat ==
    /\ master = "EXTERNAL_SYNC"
    /\ waiting' = FALSE
    /\ phase' \in {0, 3, 6, 9}
    /\ UNCHANGED master

\* A MIDI clock that (re)starts resets the phase; its first tick may already
\* count.
Restart ==
    /\ master = "MIDI"
    /\ phase' \in {0, 1}
    /\ UNCHANGED <<master, waiting>>

AnchorPlayback ==
    /\ master # "EXTERNAL_SYNC"
    /\ phase' \in Anchor
    /\ UNCHANGED <<master, waiting>>

Hold ==
    /\ master = "EXTERNAL_SYNC"
    /\ waiting' = TRUE
    /\ UNCHANGED <<master, phase>>

\* The jack takes over without disturbing the phase; any other source starts
\* from 0 and ends a wait.
ChangeMaster(m) ==
    /\ m # master
    /\ master' = m
    /\ IF m = "EXTERNAL_SYNC"
         THEN UNCHANGED <<waiting, phase>>
         ELSE waiting' = FALSE /\ phase' = 0

Next ==
    \/ Advance
    \/ Downbeat
    \/ Restart
    \/ AnchorPlayback
    \/ Hold
    \/ \E m \in {"INTERNAL", "MIDI", "EXTERNAL_SYNC"} : ChangeMaster(m)

Spec == Init /\ [][Next]_vars
=============================================================================

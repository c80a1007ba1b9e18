----------------------------- MODULE MCDevices -----------------------------
(***************************************************************************)
(* The devices around the sequencer: the panel, the LEDs, the audio        *)
(* output, the sync jack, and the flash with what a host has stored.  They *)
(* share no state, so that each is explored with the others where they     *)
(* start.                                                                  *)
(***************************************************************************)
EXTENDS Panel, Display, AudioOutput, SyncJack, FileStore

VARIABLE part   \* the one explored

MCInit ==
    /\ part \in {"panel", "leds", "output", "jack", "flash"}
    /\ Init /\ DisplayInit /\ OutputInit /\ SyncInit /\ FileInit
    \* one initial state of those at rest
    /\ part # "panel" => touched /\ other = "pad"
    /\ part # "output" => jack = "out"
    /\ part # "jack" => sync.state = "WAITING_FOR_RISING_EDGE" /\ cable.last
    /\ part # "flash" => factoryKit

MCNext ==
    \/ part = "panel" /\ Next
       /\ UNCHANGED <<part, displayVars, outputVars, syncVars, fileVars>>
    \/ part = "leds" /\ DisplayNext
       /\ UNCHANGED <<part, vars, outputVars, syncVars, fileVars>>
    \/ part = "output" /\ OutputNext
       /\ UNCHANGED <<part, vars, displayVars, syncVars, fileVars>>
    \/ part = "jack" /\ SyncNext
       /\ UNCHANGED <<part, vars, displayVars, outputVars, fileVars>>
    \/ part = "flash" /\ FileNext
       /\ UNCHANGED <<part, vars, displayVars, outputVars, syncVars>>

MCSpec ==
    /\ MCInit /\ [][MCNext]_<<part, vars, displayVars, outputVars, syncVars, fileVars>>
    /\ Strip!LedFairness
=============================================================================

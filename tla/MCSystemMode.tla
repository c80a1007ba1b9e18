---------------------------- MODULE MCSystemMode ----------------------------
(***************************************************************************)
(* The modes of the device; the knobs whose local control a transfer takes *)
(* away; and the transfer that changes the firmware, of a sound and of a   *)
(* broken image beside the factory's, of two blocks each.  One of them is  *)
(* explored, the others stay where they start.                             *)
(***************************************************************************)
EXTENDS SystemMode, Knobs, FirmwareUpdate

VARIABLE part   \* the one explored

MCInit ==
    /\ part \in {"mode", "knobs", "update"} /\ Init /\ ControlsInit /\ FirmwareInit
    /\ part # "knobs" => knob = <<"VOLUME", 0>> /\ position = 0 /\ route.local = "on"
    /\ part # "mode" => panel

\* The updates of a host come to an end, the others go on for ever.
MCNext ==
    \/ part = "mode" /\ Next /\ UNCHANGED <<part, knobVars, firmwareVars>>
    \/ part = "knobs" /\ ControlsNext /\ UNCHANGED <<part, vars, firmwareVars>>
    \/ part = "update" /\ FirmwareNext /\ UNCHANGED <<part, vars, knobVars>>
    \/ part = "update" /\ UNCHANGED <<part, vars, knobVars, firmwareVars>>

MCSpec ==
    /\ MCInit /\ [][MCNext]_<<part, vars, knobVars, firmwareVars>>
    /\ \/ part = "mode" /\ Fairness
       \/ part = "knobs" /\ ControlsFairness
       \/ part = "update" /\ FirmwareFairness
=============================================================================

------------------------------ MODULE MidiFifo ------------------------------
(***************************************************************************)
(* What the MIDI output promises: every message it accepts goes out once,  *)
(* in the order of acceptance, SysEx with its own payload; the value of a  *)
(* control change may be revised while it waits.  A message that finds no  *)
(* room is not accepted.                                                   *)
(***************************************************************************)
EXTENDS Sequences, Naturals

CONSTANTS
    Messages,  \* [type, number, value]
    Values,    \* of control changes
    Silence    \* nothing has been sent yet

VARIABLES
    backlog,   \* accepted and not yet sent
    wire       \* the last message sent

vars == <<backlog, wire>>

Init == backlog = <<>> /\ wire = Silence

Accept(m) == backlog' = Append(backlog, m) /\ UNCHANGED wire

Revise(i, v) ==
    /\ backlog[i].type = "CONTROL_CHANGE"
    /\ backlog' = [backlog EXCEPT ![i].value = v]
    /\ UNCHANGED wire

Deliver ==
    /\ backlog # <<>>
    /\ wire' = Head(backlog)
    /\ backlog' = Tail(backlog)

Next ==
    \/ \E m \in Messages : Accept(m)
    \/ \E i \in DOMAIN backlog, v \in Values : Revise(i, v)
    \/ Deliver

Spec == Init /\ [][Next]_vars /\ WF_vars(Deliver)
=============================================================================

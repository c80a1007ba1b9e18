-------------------------- MODULE MCStepSequencer --------------------------
(***************************************************************************)
(* When the steps of the pattern are due, with a pattern of two steps, the *)
(* parities that count; and which steps they are, with a pattern longer    *)
(* than a loop of REPEAT, and the traces of hits between them.  The three  *)
(* share no state, so that each is explored with the others at rest.       *)
(***************************************************************************)
EXTENDS StepSequencer, TrackSteps

MCDraws == {[i \in 0..2 |-> 0], [i \in 0..2 |-> CASE i = 0 -> 1 [] i = 1 -> 3 [] i = 2 -> 2]}

VARIABLE part   \* the one explored

MCInit == Init /\ TrackInit /\ part \in {"clock", "steps", "traces"}

MCNext ==
    \/ part = "clock" /\ Next /\ UNCHANGED <<part, trackVars>>
    \/ part = "steps" /\ StepNext /\ UNCHANGED <<part, vars, traces>>
    \/ part = "traces" /\ TraceNext /\ UNCHANGED <<part, vars, stepVars>>

MCSpec == MCInit /\ [][MCNext]_<<part, vars, trackVars>> /\ Fairness
=============================================================================

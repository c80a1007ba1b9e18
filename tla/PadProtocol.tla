----------------------------- MODULE PadProtocol -----------------------------
(***************************************************************************)
(* What a pad promises those who listen to it (musin::ui::Drumpad): it is  *)
(* pressed, may then be held, and is let go before it is pressed again;    *)
(* only a held pad asks for a retrigger, and once squeezed it asks for the *)
(* double one until it is let go.                                          *)
(***************************************************************************)
VARIABLES pad, squeezed

Init == pad = "up" /\ squeezed = FALSE

Press ==
    /\ pad = "up" /\ pad' = "down"
    /\ UNCHANGED squeezed

Hold ==
    /\ pad = "down" /\ pad' = "held"
    /\ squeezed' \in BOOLEAN

Squeeze ==
    /\ pad = "held" /\ squeezed' = TRUE
    /\ UNCHANGED pad

Release ==
    /\ pad # "up" /\ pad' = "up"
    /\ squeezed' = FALSE

Next == Press \/ Hold \/ Squeeze \/ Release

Spec == Init /\ [][Next]_<<pad, squeezed>>
=============================================================================

---------------------------- MODULE MCClockChain ----------------------------
(* The clock chain with one knob position per modifier and the anchor      *)
(* phases align_to_last_anchor returns.                                    *)
EXTENDS ClockChain

MCKnob     == {"low", "centre", "high"}
MCLowKnob  == {"low"}
MCHighKnob == {"high"}
MCAnchor   == {0, 6}
=============================================================================

------------------------ MODULE MCStatePersistence ------------------------
(* One track of one step and two samples, in more than one pattern.  The   *)
(* clock wraps after five ticks, well below the width of its differences.  *)
EXTENDS StatePersistence

MCLow == [t \in Tracks |-> 1]
MCHigh == [t \in Tracks |-> 2]
=============================================================================

------------------------------- MODULE Keypad -------------------------------
(***************************************************************************)
(* One key of musin::ui::Keypad_HC138 and what a scan makes of it.  A key  *)
(* found down when the device starts is stuck until it is let go.  The     *)
(* hold time counts from the first reading of a press (press_start_time)   *)
(* and is not restarted by a bounce: long says whether it has passed.      *)
(***************************************************************************)

KeyState == {"STUCK", "IDLE", "DEBOUNCING_PRESS", "PRESSED", "HOLDING", "DEBOUNCING_RELEASE"}

Key == [state : KeyState, long : BOOLEAN]

\* KeyData as the constructor leaves it.
Unscanned == [state |-> "STUCK", long |-> FALSE]

\* A key that has been down long enough since its press began.
Aged(k, passed) ==
    [k EXCEPT !.long = k.state \notin {"STUCK", "IDLE"} /\ (@ \/ passed)]

\* update_key_state: down is the raw reading, elapsed that the debounce time
\* has passed since the last change.
update_key_state(k, down, elapsed) ==
    CASE k.state = "STUCK" ->
            IF ~down THEN [k EXCEPT !.state = "IDLE"] ELSE k
      [] k.state = "IDLE" ->
            IF down THEN [k EXCEPT !.state = "DEBOUNCING_PRESS"] ELSE k
      [] k.state = "DEBOUNCING_PRESS" ->
            IF ~down THEN [state |-> "IDLE", long |-> FALSE]
            ELSE IF ~elapsed THEN k
            ELSE [k EXCEPT !.state = IF k.long THEN "HOLDING" ELSE "PRESSED"]
      [] k.state = "PRESSED" ->
            IF ~down THEN [k EXCEPT !.state = "DEBOUNCING_RELEASE"]
            ELSE IF k.long THEN [k EXCEPT !.state = "HOLDING"]
            ELSE k
      [] k.state = "HOLDING" ->
            IF ~down THEN [k EXCEPT !.state = "DEBOUNCING_RELEASE"] ELSE k
      [] k.state = "DEBOUNCING_RELEASE" ->
            IF down THEN [k EXCEPT !.state = "PRESSED"]
            ELSE IF elapsed THEN [state |-> "IDLE", long |-> FALSE]
            ELSE k

IsKeyHold(k, l)    == k.state # "HOLDING" /\ l.state = "HOLDING"

IsKeyRelease(k, l) == k.state = "DEBOUNCING_RELEASE" /\ l.state = "IDLE"

\* A key whose press has been reported and whose release has not.
IsDown(k) == k.state \in {"PRESSED", "HOLDING", "DEBOUNCING_RELEASE"}
=============================================================================

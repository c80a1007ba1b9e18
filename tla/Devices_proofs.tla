--------------------------- MODULE Devices_proofs --------------------------
(***************************************************************************)
(* What the device shows, hears and stores, for every size of it. The      *)
(* panel: an effect lasts no longer than its press. The display: a frame   *)
(* is sent whole, because it is drawn to the buffer that is not. The       *)
(* codec: its driver knows page and volumes, whichever transfers on the    *)
(* bus fail. The files: none mixes two transfers, and what the host was    *)
(* told to be stored is. The sync jack: its output pulses with its beats.  *)
(***************************************************************************)
EXTENDS Panel, Display, AudioOutput, SyncJack, FileStore, Lemmas

(* The panel *)

OffsetState == {"OffsetActive", "OffsetWithFlip"}

\* The flags of RANDOM are what its state says ...
FlagsMatch(f) ==
    /\ f.offset <=> f.state \in OffsetState
    /\ f.flip <=> f.state = "OffsetWithFlip"

RandomLit(f) == f.highlighted <=> f.state = "StepPreview"

\* ... a flip is on when asked for unless a loop holds it back, a loop is over
\* by the next run, and without a run there are no offsets.
Consistent(f) ==
    /\ f \in Effects /\ FlagsMatch(f) /\ RandomLit(f)
    /\ f.flip => f.repeat = 0
    /\ f.intends => f.state = IF f.repeat = 0 THEN "OffsetWithFlip" ELSE "OffsetActive"
    /\ ~f.wasRunning => f.repeat = 0
    /\ ~f.running => f.state \in {"Inactive", "StepPreview"}

\* A pad has a retrigger mode only while it is held or being let go.
ModeOfPad(p) ==
    p \in Pad /\ (p.state \in {"Idle", "Rising", "Peaking"} => p.mode = "Off")

PanelInv ==
    /\ TypeOK
    /\ Consistent(fx)
    /\ random.state = "Released" => fx.state = "Inactive"
    /\ cycling => IsDown(key)
    /\ ModeOfPad(pad)

-----------------------------------------------------------------------------
(* The effects *)

LEMMA LeftIs ==
    ASSUME NEW f \in Effects
    PROVE  /\ Left(f) \in Effects
           /\ \A g \in Effects : g = Left(f) =>
                 /\ g.state = f.state /\ g.repeat = f.repeat /\ g.intends = f.intends
                 /\ g.running = f.running /\ g.wasRunning = f.wasRunning
                 /\ g.offset <=> f.offset /\ f.state \notin OffsetState
                 /\ g.flip <=> f.flip /\ f.state \notin OffsetState
                 /\ g.highlighted <=> f.highlighted /\ f.state # "StepPreview"
  BY DEF Left, Effects, RandomEffectState, OffsetState

LEMMA EnteredIs ==
    ASSUME NEW f \in Effects, NEW s \in RandomEffectState
    PROVE  /\ Entered(f, s) \in Effects
           /\ \A g \in Effects : g = Entered(f, s) =>
                 /\ g.state = s /\ g.repeat = f.repeat /\ g.intends = f.intends
                 /\ g.running = f.running /\ g.wasRunning = f.wasRunning
                 /\ g.offset <=> f.offset \/ s \in OffsetState
                 /\ g.flip <=> f.flip \/ s = "OffsetWithFlip"
                 /\ g.highlighted <=> f.highlighted
<1> DEFINE o == f.offset \/ s \in OffsetState
           p == f.flip \/ s = "OffsetWithFlip"
           g == [f EXCEPT !.state = s, !.offset = o, !.flip = p]
<1>1. o \in BOOLEAN /\ p \in BOOLEAN
  BY Zenon
<1>2. Entered(f, s) = g
  BY Zenon DEF Entered, OffsetState
<1>3. (o <=> f.offset \/ s \in OffsetState) /\ (p <=> f.flip \/ s = "OffsetWithFlip")
  BY Zenon
<1> HIDE DEF o, p
<1>4. /\ g \in Effects /\ g.state = s /\ g.offset = o /\ g.flip = p
      /\ g.repeat = f.repeat /\ g.intends = f.intends /\ g.highlighted = f.highlighted
      /\ g.running = f.running /\ g.wasRunning = f.wasRunning
  BY <1>1 DEF Effects
<1> HIDE DEF g
<1> QED BY <1>2, <1>3, <1>4, Zenon

\* Every change of state keeps flags and state together, and changes no more.
LEMMA TransitionIs ==
    ASSUME NEW f \in Effects, FlagsMatch(f), NEW s \in RandomEffectState, NEW g,
           g = IF f.state = s THEN f ELSE Entered(Left(f), s)
    PROVE  /\ g \in Effects /\ FlagsMatch(g) /\ g.state = s
           /\ g.repeat = f.repeat /\ g.intends = f.intends
           /\ g.running = f.running /\ g.wasRunning = f.wasRunning
           /\ RandomLit(f) /\ s # "StepPreview" => RandomLit(g)
           /\ ~f.highlighted /\ s # "StepPreview" => RandomLit(g)
           /\ f.highlighted /\ s = "StepPreview" => RandomLit(g)
<1>1. CASE f.state = s
  BY <1>1 DEF RandomLit
<1>2. CASE f.state # s
  <2> DEFINE l == Left(f)
  <2>1. /\ l \in Effects
        /\ l.state = f.state /\ l.repeat = f.repeat /\ l.intends = f.intends
        /\ l.running = f.running /\ l.wasRunning = f.wasRunning
        /\ l.offset <=> f.offset /\ f.state \notin OffsetState
        /\ l.flip <=> f.flip /\ f.state \notin OffsetState
        /\ l.highlighted <=> f.highlighted /\ f.state # "StepPreview"
    BY LeftIs
  <2> HIDE DEF l
  <2>2. g = Entered(l, s)
    BY <1>2 DEF l
  <2>3. /\ g \in Effects
        /\ g.state = s /\ g.repeat = l.repeat /\ g.intends = l.intends
        /\ g.running = l.running /\ g.wasRunning = l.wasRunning
        /\ g.offset <=> l.offset \/ s \in OffsetState
        /\ g.flip <=> l.flip \/ s = "OffsetWithFlip"
        /\ g.highlighted <=> l.highlighted
    BY <2>1, <2>2, EnteredIs
  <2>4. FlagsMatch(g)
    BY <2>1, <2>3 DEF FlagsMatch, OffsetState
  <2> QED BY <1>2, <2>1, <2>3, <2>4 DEF RandomLit
<1> QED BY <1>1, <1>2

LEMMA PlainTransition ==
    ASSUME NEW f \in Effects, NEW s \in RandomEffectState
    PROVE  transition_to(f, s, FALSE) = IF f.state = s THEN f ELSE Entered(Left(f), s)
  BY DEF transition_to

LEMMA SameTruth ==
    ASSUME NEW x \in BOOLEAN, NEW y \in BOOLEAN, x <=> y
    PROVE  x = y
  OBVIOUS

LEMMA EffectParts ==
    ASSUME NEW f \in Effects
    PROVE  /\ f.state \in RandomEffectState /\ f.repeat \in {0, 1, 3}
           /\ f.offset \in BOOLEAN /\ f.flip \in BOOLEAN /\ f.highlighted \in BOOLEAN
           /\ f.intends \in BOOLEAN /\ f.running \in BOOLEAN /\ f.wasRunning \in BOOLEAN
           /\ {"Inactive", "StepPreview", "OffsetActive", "OffsetWithFlip"} = RandomEffectState
  BY DEF Effects, RandomEffectState

LEMMA RequestIs ==
    ASSUME NEW f \in Effects, FlagsMatch(f), NEW s \in RandomEffectState, NEW g, g = request_state(f, s)
    PROVE  /\ g \in Effects /\ FlagsMatch(g)
           /\ g.state = IF f.repeat # 0 /\ s = "OffsetWithFlip" THEN "OffsetActive" ELSE s
           /\ g.repeat = f.repeat /\ g.intends = f.intends
           /\ g.running = f.running /\ g.wasRunning = f.wasRunning
           /\ RandomLit(f) /\ s # "StepPreview" => RandomLit(g)
<1> DEFINE a == IF f.repeat # 0 /\ s = "OffsetWithFlip" THEN "OffsetActive" ELSE s
<1>1. g = IF f.state = a THEN f ELSE Entered(Left(f), a)
  BY DEF request_state, transition_to
<1>2. a \in RandomEffectState /\ (a = "StepPreview" <=> s = "StepPreview")
  BY DEF RandomEffectState
<1>3. a = IF f.repeat # 0 /\ s = "OffsetWithFlip" THEN "OffsetActive" ELSE s
  OBVIOUS
<1> HIDE DEF a
<1> QED BY <1>1, <1>2, <1>3, TransitionIs

\* What REPEAT does.
LEMMA RepeatSet ==
    ASSUME NEW f, Consistent(f), NEW length \in {0, 1, 3}, f.running \/ length = 0
    PROVE  LET g == set_intended_repeat_state(f, length)
           IN  /\ g \in Effects /\ FlagsMatch(g) /\ RandomLit(g) /\ g.repeat = length
               /\ g.flip => g.repeat = 0
               /\ g.intends => g.state = IF g.repeat = 0 THEN "OffsetWithFlip" ELSE "OffsetActive"
               /\ g.running = f.running /\ g.wasRunning = f.wasRunning
               /\ ~g.running => g.state \in {"Inactive", "StepPreview"}
               /\ f.state = "Inactive" => g.state = "Inactive"
<1> DEFINE h == [f EXCEPT !.repeat = length]
           g == set_intended_repeat_state(f, length)
<1>1. /\ h \in Effects /\ h.repeat = length /\ h.state = f.state /\ h.offset = f.offset
      /\ h.flip = f.flip /\ h.highlighted = f.highlighted /\ h.intends = f.intends
      /\ h.running = f.running /\ h.wasRunning = f.wasRunning
  BY DEF Consistent, Effects
<1>2. FlagsMatch(h) /\ RandomLit(h)
  BY <1>1 DEF Consistent, FlagsMatch, RandomLit
<1>3. g = IF length # 0 THEN request_state(h, f.state)
          ELSE IF f.repeat # 0 /\ f.offset /\ f.intends THEN transition_to(h, "OffsetWithFlip", FALSE)
          ELSE h
  BY DEF set_intended_repeat_state
<1>4. /\ f.state \in RandomEffectState /\ "OffsetWithFlip" \in RandomEffectState
      /\ f.repeat \in {0, 1, 3}
  BY DEF Consistent, Effects, RandomEffectState
<1> HIDE DEF h, g
<1>5. CASE length # 0
  <2>1. /\ g \in Effects /\ FlagsMatch(g)
        /\ g.state = IF h.repeat # 0 /\ f.state = "OffsetWithFlip" THEN "OffsetActive" ELSE f.state
        /\ g.repeat = h.repeat /\ g.intends = h.intends
        /\ g.running = h.running /\ g.wasRunning = h.wasRunning
    BY <1>1, <1>2, <1>3, <1>4, <1>5, RequestIs
  <2>2. RandomLit(g)
    <3>1. CASE f.state # "StepPreview"
      BY <1>1, <1>2, <1>3, <1>4, <1>5, <3>1, RequestIs
    <3>2. CASE f.state = "StepPreview"
      <4>1. g = h
        BY <1>1, <1>3, <1>5, <3>2 DEF request_state, transition_to
      <4> QED BY <1>2, <4>1
    <3> QED BY <3>1, <3>2
  <2> QED BY <1>1, <1>4, <1>5, <2>1, <2>2 DEF g, Consistent, FlagsMatch
<1>6. CASE length = 0 /\ f.repeat # 0 /\ f.offset /\ f.intends
  <2>1. /\ g \in Effects /\ FlagsMatch(g) /\ RandomLit(g) /\ g.state = "OffsetWithFlip"
        /\ g.repeat = 0 /\ g.running = f.running /\ g.wasRunning = f.wasRunning
    <3>1. g = IF h.state = "OffsetWithFlip" THEN h ELSE Entered(Left(h), "OffsetWithFlip")
      BY <1>1, <1>3, <1>4, <1>6, PlainTransition
    <3> QED BY <1>1, <1>2, <1>4, <1>6, <3>1, TransitionIs
  <2> QED BY <1>4, <1>6, <2>1 DEF g, Consistent, FlagsMatch, OffsetState
<1>7. CASE length = 0 /\ ~(f.repeat # 0 /\ f.offset /\ f.intends)
  <2>1. g = h
    BY <1>3, <1>7
  <2> QED BY <1>1, <1>2, <1>4, <1>7, <2>1 DEF g, Consistent, FlagsMatch, OffsetState
<1> QED BY <1>4, <1>5, <1>6, <1>7

LEMMA ResetIs ==
    ASSUME NEW f, Consistent(f)
    PROVE  LET g == ResetRepeat(f)
           IN  /\ Consistent(g) /\ g.running = f.running /\ g.wasRunning = f.running
               /\ f.state = "Inactive" => g.state = "Inactive"
<1> DEFINE h == IF f.wasRunning /\ ~f.running THEN set_intended_repeat_state(f, 0) ELSE f
           g == [h EXCEPT !.wasRunning = f.running]
<1>1. g = ResetRepeat(f)
  BY DEF ResetRepeat
<1>2. /\ h \in Effects /\ FlagsMatch(h) /\ RandomLit(h)
      /\ h.flip => h.repeat = 0
      /\ h.intends => h.state = IF h.repeat = 0 THEN "OffsetWithFlip" ELSE "OffsetActive"
      /\ h.running = f.running
      /\ ~h.running => h.state \in {"Inactive", "StepPreview"}
      /\ ~f.running => h.repeat = 0
      /\ f.state = "Inactive" => h.state = "Inactive"
  <2>1. CASE f.wasRunning /\ ~f.running
    BY <2>1, RepeatSet
  <2>2. CASE ~(f.wasRunning /\ ~f.running)
    BY <2>2 DEF Consistent
  <2> QED BY <2>1, <2>2
<1>3. f.running \in BOOLEAN
  BY DEF Consistent, Effects
<1> HIDE DEF h
<1>4. /\ g \in Effects /\ g.wasRunning = f.running /\ g.state = h.state /\ g.offset = h.offset
      /\ g.flip = h.flip /\ g.highlighted = h.highlighted /\ g.intends = h.intends
      /\ g.repeat = h.repeat /\ g.running = h.running
  BY <1>2, <1>3 DEF Effects
<1> HIDE DEF g
<1>5. Consistent(g)
  BY <1>2, <1>3, <1>4 DEF Consistent, FlagsMatch, RandomLit
<1> QED BY <1>1, <1>2, <1>4, <1>5

LEMMA RepeatEventIs ==
    ASSUME NEW f, Consistent(f), f.wasRunning = f.running, NEW was \in PressureState, NEW is \in PressureState
    PROVE  LET g == RepeatEvent(f, was, is)
           IN  /\ Consistent(g) /\ g.running = f.running
               /\ f.state = "Inactive" => g.state = "Inactive"
<1> DEFINE length == CASE is = "HardPress" -> 1 [] is = "LightPress" -> 3 [] is = "Released" -> 0
<1>1. CASE ~f.running \/ is = was
  BY <1>1 DEF RepeatEvent
<1>2. CASE ~(~f.running \/ is = was)
  <2>1. RepeatEvent(f, was, is) = set_intended_repeat_state(f, length)
    BY <1>2 DEF RepeatEvent
  <2>2. length \in {0, 1, 3}
    BY DEF PressureState
  <2> HIDE DEF length
  <2> QED BY <1>2, <2>1, <2>2, RepeatSet DEF Consistent
<1> QED BY <1>1, <1>2

LEMMA IntendsSet ==
    ASSUME NEW g \in Effects, FlagsMatch(g), RandomLit(g), NEW b \in BOOLEAN
    PROVE  LET h == [g EXCEPT !.intends = b]
           IN  /\ h \in Effects /\ FlagsMatch(h) /\ RandomLit(h) /\ h.intends = b /\ h.state = g.state
               /\ h.flip = g.flip /\ h.repeat = g.repeat /\ h.running = g.running /\ h.wasRunning = g.wasRunning
<1> DEFINE h == [g EXCEPT !.intends = b]
<1>1. /\ h \in Effects /\ h.intends = b /\ h.state = g.state /\ h.offset = g.offset
      /\ h.flip = g.flip /\ h.highlighted = g.highlighted /\ h.repeat = g.repeat
      /\ h.running = g.running /\ h.wasRunning = g.wasRunning
  BY DEF Effects
<1> HIDE DEF h
<1>2. FlagsMatch(h) /\ RandomLit(h)
  BY <1>1 DEF FlagsMatch, RandomLit
<1> QED BY <1>1, <1>2 DEF h

LEMMA HighlightSet ==
    ASSUME NEW g \in Effects, FlagsMatch(g), NEW b \in BOOLEAN
    PROVE  LET h == [g EXCEPT !.highlighted = b]
           IN  /\ h \in Effects /\ FlagsMatch(h) /\ h.highlighted = b /\ h.state = g.state
               /\ h.intends = g.intends
               /\ h.flip = g.flip /\ h.repeat = g.repeat /\ h.running = g.running /\ h.wasRunning = g.wasRunning
<1> DEFINE h == [g EXCEPT !.highlighted = b]
<1>1. /\ h \in Effects /\ h.intends = g.intends /\ h.state = g.state /\ h.offset = g.offset
      /\ h.flip = g.flip /\ h.highlighted = b /\ h.repeat = g.repeat
      /\ h.running = g.running /\ h.wasRunning = g.wasRunning
  BY DEF Effects
<1> HIDE DEF h
<1>2. FlagsMatch(h)
  BY <1>1 DEF FlagsMatch
<1> QED BY <1>1, <1>2 DEF h

\* What RANDOM does, pressed when nothing of it is on or changed while it is.
LEMMA RandomEventIs ==
    ASSUME NEW f, Consistent(f), NEW was \in PressureState, NEW is \in PressureState,
           was = "Released" => f.state = "Inactive"
    PROVE  LET g == RandomEvent(f, was, is)
           IN  /\ Consistent(g) /\ g.running = f.running
               /\ is = "Released" => g.state = "Inactive"
<1> DEFINE g == RandomEvent(f, was, is)
<1>0. f \in Effects /\ FlagsMatch(f) /\ RandomLit(f)
  BY DEF Consistent
<1>a. /\ {"Inactive", "StepPreview", "OffsetActive", "OffsetWithFlip"} = RandomEffectState
      /\ f.running \in BOOLEAN /\ f.intends \in BOOLEAN /\ f.repeat \in {0, 1, 3}
  BY <1>0, EffectParts
<1>1. CASE is = "LightPress" /\ was = "Released" /\ f.running
  <2>1. f.state = "Inactive" /\ ~f.offset /\ ~f.intends
    BY <1>0, <1>1 DEF Consistent, FlagsMatch, OffsetState
  <2>2. g = request_state(f, "OffsetActive")
    BY <1>1, <2>1 DEF RandomEvent, enable_random_offset_mode
  <2> HIDE DEF g
  <2>3. /\ g \in Effects /\ FlagsMatch(g) /\ RandomLit(g) /\ g.state = "OffsetActive"
        /\ g.repeat = f.repeat /\ g.intends = f.intends
        /\ g.running = f.running /\ g.wasRunning = f.wasRunning
    BY <1>0, <1>a, <2>2, RequestIs
  <2> QED BY <1>1, <2>1, <2>3 DEF g, Consistent, FlagsMatch, OffsetState
<1>2. CASE is = "LightPress" /\ was = "Released" /\ ~f.running
  <2> DEFINE h == [f EXCEPT !.highlighted = TRUE]
  <2>1. f.state = "Inactive" /\ ~f.intends
    BY <1>0, <1>2 DEF Consistent
  <2>2. g = transition_to(h, "StepPreview", FALSE)
    BY <1>2 DEF RandomEvent, start_step_highlighting
  <2>3. /\ h \in Effects /\ FlagsMatch(h) /\ h.highlighted = TRUE /\ h.state = f.state
        /\ h.intends = f.intends
        /\ h.flip = f.flip /\ h.repeat = f.repeat /\ h.running = f.running /\ h.wasRunning = f.wasRunning
    BY <1>0, HighlightSet
  <2> HIDE DEF g, h
  <2>4. /\ g \in Effects /\ FlagsMatch(g) /\ RandomLit(g) /\ g.state = "StepPreview"
        /\ g.repeat = f.repeat /\ g.intends = f.intends
        /\ g.running = f.running /\ g.wasRunning = f.wasRunning
    <3>1. "StepPreview" \in RandomEffectState
      BY <1>a
    <3>2. g = IF h.state = "StepPreview" THEN h ELSE Entered(Left(h), "StepPreview")
      BY <2>2, <2>3, <3>1, PlainTransition
    <3> QED BY <2>3, <3>1, <3>2, TransitionIs
  <2> QED BY <1>2, <2>1, <2>4 DEF g, Consistent, FlagsMatch, OffsetState
<1>3. CASE is = "Released" /\ was # "Released" /\ f.running
  <2> DEFINE h == request_state(f, "Inactive")
  <2>1. /\ h \in Effects /\ FlagsMatch(h) /\ RandomLit(h) /\ h.state = "Inactive"
        /\ h.repeat = f.repeat /\ h.running = f.running /\ h.wasRunning = f.wasRunning
    BY <1>0, <1>a, RequestIs
  <2>2. g = [h EXCEPT !.intends = FALSE]
    BY <1>3 DEF RandomEvent, disable_random_offset_mode
  <2> HIDE DEF g, h
  <2>3. /\ g \in Effects /\ FlagsMatch(g) /\ RandomLit(g) /\ g.state = "Inactive" /\ ~g.intends
        /\ g.repeat = f.repeat /\ g.running = f.running /\ g.wasRunning = f.wasRunning
    BY <2>1, <2>2, IntendsSet
  <2> QED BY <2>3 DEF g, Consistent, FlagsMatch
<1>4. CASE is = "Released" /\ was # "Released" /\ ~f.running
  <2> DEFINE h == [f EXCEPT !.highlighted = FALSE]
  <2>1. /\ h \in Effects /\ FlagsMatch(h) /\ h.highlighted = FALSE /\ h.state = f.state
        /\ h.intends = f.intends
        /\ h.flip = f.flip /\ h.repeat = f.repeat /\ h.running = f.running /\ h.wasRunning = f.wasRunning
    BY <1>0, HighlightSet
  <2>2. f.state \in {"Inactive", "StepPreview"} /\ ~f.intends
    BY <1>0, <1>4 DEF Consistent
  <2>3. g = IF f.state = "StepPreview" THEN transition_to(h, "Inactive", FALSE) ELSE h
    BY <1>4 DEF RandomEvent, stop_step_highlighting
  <2> HIDE DEF g, h
  <2>4. CASE f.state = "StepPreview"
    <3>1. /\ g \in Effects /\ FlagsMatch(g) /\ g.state = "Inactive" /\ RandomLit(g)
          /\ g.repeat = h.repeat /\ g.intends = h.intends
          /\ g.running = h.running /\ g.wasRunning = h.wasRunning
      <4>1. "Inactive" \in RandomEffectState
        BY <1>a
      <4>2. g = IF h.state = "Inactive" THEN h ELSE Entered(Left(h), "Inactive")
        BY <2>1, <2>3, <2>4, <4>1, PlainTransition
      <4> QED BY <2>1, <4>1, <4>2, TransitionIs
    <3> QED BY <1>4, <2>1, <2>2, <3>1 DEF g, Consistent, FlagsMatch, OffsetState
  <2>5. CASE f.state # "StepPreview"
    BY <1>4, <2>1, <2>2, <2>3, <2>5 DEF g, Consistent, RandomLit
  <2> QED BY <2>4, <2>5
<1>5. CASE is = "HardPress" /\ was = "LightPress" /\ f.running
  <2> DEFINE e == enable_random_offset_mode(f)
             h == request_state(e, "OffsetWithFlip")
  <2>1. /\ e \in Effects /\ FlagsMatch(e) /\ RandomLit(e)
        /\ e.repeat = f.repeat /\ e.running = f.running /\ e.wasRunning = f.wasRunning
    BY <1>0, <1>a, RequestIs DEF enable_random_offset_mode
  <2> HIDE DEF e
  <2>2. /\ h \in Effects /\ FlagsMatch(h) /\ RandomLit(h)
        /\ h.state = IF f.repeat # 0 THEN "OffsetActive" ELSE "OffsetWithFlip"
        /\ h.repeat = f.repeat /\ h.running = f.running /\ h.wasRunning = f.wasRunning
    BY <1>a, <2>1, RequestIs
  <2>3. g = [h EXCEPT !.intends = TRUE]
    BY <1>5 DEF RandomEvent, trigger_random_hard_press_behavior, e
  <2> HIDE DEF g, h
  <2>4. /\ g \in Effects /\ FlagsMatch(g) /\ RandomLit(g) /\ g.intends = TRUE /\ g.state = h.state
        /\ g.flip = h.flip /\ g.repeat = f.repeat /\ g.running = f.running /\ g.wasRunning = f.wasRunning
    BY <2>2, <2>3, IntendsSet
  <2> QED BY <1>5, <1>a, <2>2, <2>4 DEF g, Consistent, FlagsMatch
<1>6. CASE ~(is = "LightPress" /\ was = "Released") /\ ~(is = "Released" /\ was # "Released")
           /\ ~(is = "HardPress" /\ was = "LightPress" /\ f.running)
  BY <1>6 DEF RandomEvent
<1> QED BY <1>a, <1>1, <1>2, <1>3, <1>4, <1>5, <1>6

\* The end of a run.
LEMMA StopIs ==
    ASSUME NEW f, Consistent(f)
    PROVE  LET g == stop(f)
           IN  Consistent(g) /\ (f.state = "Inactive" => g.state = "Inactive")
<1> DEFINE g == stop(f)
           h == transition_to(f, "Inactive", FALSE)
<1>0. f \in Effects /\ FlagsMatch(f) /\ RandomLit(f)
      /\ {"Inactive", "StepPreview", "OffsetActive", "OffsetWithFlip"} = RandomEffectState
  BY EffectParts DEF Consistent
<1>1. CASE ~f.running
  BY <1>1 DEF stop
<1>2. CASE f.running
  <2>1. /\ h \in Effects /\ FlagsMatch(h) /\ RandomLit(h) /\ h.state = "Inactive"
        /\ h.repeat = f.repeat /\ h.wasRunning = f.wasRunning
    <3>1. "Inactive" \in RandomEffectState
      BY <1>0
    <3>2. h = IF f.state = "Inactive" THEN f ELSE Entered(Left(f), "Inactive")
      BY <1>0, <3>1, PlainTransition
    <3> HIDE DEF h
    <3> QED BY <1>0, <3>1, <3>2, TransitionIs
  <2>2. g = [h EXCEPT !.running = FALSE, !.intends = FALSE]
    BY <1>2 DEF stop
  <2> HIDE DEF g, h
  <2>3. /\ g \in Effects /\ g.state = h.state /\ g.offset = h.offset /\ g.flip = h.flip
        /\ g.highlighted = h.highlighted /\ g.intends = FALSE /\ g.running = FALSE
        /\ g.repeat = h.repeat /\ g.wasRunning = h.wasRunning
    BY <2>1, <2>2 DEF Effects
  <2> QED BY <2>1, <2>3 DEF g, Consistent, FlagsMatch, RandomLit, OffsetState
<1> QED BY <1>1, <1>2

LEMMA PlayEventIs ==
    ASSUME NEW f, Consistent(f), NEW pressed \in BOOLEAN
    PROVE  LET g == PlayEvent(f, pressed)
           IN  Consistent(g) /\ (f.state = "Inactive" => g.state = "Inactive")
<1>1. CASE ~pressed
  BY <1>1 DEF PlayEvent
<1>2. CASE pressed /\ f.running
  BY <1>2, StopIs DEF PlayEvent
<1>3. CASE pressed /\ ~f.running
  <2> DEFINE g == [f EXCEPT !.running = TRUE]
  <2>1. g = PlayEvent(f, pressed)
    BY <1>3 DEF PlayEvent
  <2>2. /\ g \in Effects /\ g.state = f.state /\ g.offset = f.offset /\ g.flip = f.flip
        /\ g.highlighted = f.highlighted /\ g.intends = f.intends /\ g.running = TRUE
        /\ g.repeat = f.repeat /\ g.wasRunning = f.wasRunning
    BY DEF Consistent, Effects
  <2> HIDE DEF g
  <2>3. Consistent(g)
    BY <2>2 DEF Consistent, FlagsMatch, RandomLit
  <2> QED BY <2>1, <2>2, <2>3
<1> QED BY <1>1, <1>2, <1>3

-----------------------------------------------------------------------------
(* The buttons, pads and keys *)

LEMMA ButtonReadIs ==
    ASSUME NEW b \in Button, NEW pressure \in Pressures
    PROVE  Read(b, pressure) \in Button
<1> DEFINE next == calculate_next_state(b.state, pressure)
<1>1. next \in PressureState
  BY DEF calculate_next_state, PressureState, Button
<1> HIDE DEF next
<1>2. Read(b, pressure) = IF next # b.state /\ b.settled THEN [state |-> next, settled |-> FALSE] ELSE b
  BY DEF Read, next
<1> QED BY <1>1, <1>2 DEF Button

LEMMA PadReadIs ==
    ASSUME NEW p \in Pad, NEW reading \in Readings, NEW elapsed \in BOOLEAN, NEW high \in Readings
    PROVE  update_state_machine(p, reading, elapsed, high) \in Pad
<1>1. HeldMode(p, reading, high) \in {"Off", "Single", "Double"}
  BY DEF HeldMode, Pad
<1> QED BY <1>1 DEF update_state_machine, Pad, DrumpadState, Resting

\* One reading of a pad is a step of its protocol, or none.
LEMMA PadModes ==
    ASSUME NEW p, ModeOfPad(p), NEW reading \in Readings, NEW elapsed \in BOOLEAN, NEW q,
           q = update_state_machine(p, reading, elapsed, HighPressure)
    PROVE  /\ ModeOfPad(q)
           /\ \/ q.mode = p.mode /\ p.state \in {"Idle", "Rising"} /\ q.state \in {"Idle", "Rising"}
              \/ q.mode = p.mode /\ p.state \notin {"Idle", "Rising"} /\ q.state \notin {"Idle", "Rising"}
              \/ p.mode = "Off" /\ p.state \in {"Idle", "Rising"}
                 /\ q.mode = "Off" /\ q.state \notin {"Idle", "Rising"}
              \/ p.mode = "Off" /\ p.state \notin {"Idle", "Rising"} /\ q.mode # "Off"
              \/ p.mode # "Off" /\ q.mode = "Double"
              \/ p.state \notin {"Idle", "Rising"} /\ q.mode = "Off" /\ q.state \in {"Idle", "Rising"}
<1>1. q \in Pad
  <2>1. HighPressure \in Readings /\ p \in Pad
    BY DEF ModeOfPad, Readings, HighPressure, Quiet
  <2> QED BY <2>1, PadReadIs
<1> QED BY <1>1 DEF update_state_machine, ModeOfPad, Pad, DrumpadState, Resting, HeldMode

LEMMA KeyIs ==
    ASSUME NEW k \in Key, NEW down \in BOOLEAN, NEW elapsed \in BOOLEAN, NEW l,
           l = update_key_state(k, down, elapsed)
    PROVE  /\ l \in Key
           /\ (IsDown(k) \/ IsKeyHold(k, l)) /\ ~IsKeyRelease(k, l) => IsDown(l)
  BY DEF update_key_state, Key, KeyState, IsDown, IsKeyHold, IsKeyRelease

LEMMA AgedIs ==
    ASSUME NEW k \in Key
    PROVE  Aged(k, TRUE) \in Key /\ (IsDown(k) => IsDown(Aged(k, TRUE)))
<1> DEFINE long == k.state \notin {"STUCK", "IDLE"} /\ (k.long \/ TRUE)
<1>1. long \in BOOLEAN
  OBVIOUS
<1>2. Aged(k, TRUE) = [k EXCEPT !.long = long]
  BY Zenon DEF Aged
<1> HIDE DEF long
<1> QED BY <1>1, <1>2 DEF Key, IsDown

\* PLAY read at the end of an update.
LEMMA PlayReadIs ==
    ASSUME TypeOK, local = "on", NEW f, Consistent(f), PlayRead(f)
    PROVE  /\ play' \in Pad /\ Consistent(fx') /\ local' \in {"on", "off", "asleep"}
           /\ f.state = "Inactive" => fx'.state = "Inactive"
<1>1. PICK reading \in Readings, elapsed \in BOOLEAN :
        /\ play' = update_state_machine(play, reading, elapsed, Quiet)
        /\ fx' = PlayEvent(f, IsPress(play, play'))
        /\ local' = IF IsHold(play, play') THEN "asleep" ELSE local
  BY DEF PlayRead
<1>2. play' \in Pad
  <2>1. Quiet \in Readings /\ play \in Pad
    BY DEF TypeOK, Quiet, Readings, HighPressure
  <2> QED BY <1>1, <2>1, PadReadIs
<1>3. IsPress(play, play') \in BOOLEAN
  BY DEF IsPress
<1> QED BY <1>1, <1>2, <1>3, PlayEventIs

-----------------------------------------------------------------------------
LEMMA PanelInitInv == Init => PanelInv
<1> SUFFICES ASSUME Init PROVE PanelInv
  OBVIOUS
<1>1. NotPressed \in Button /\ Resting \in Pad /\ NoEffects \in Effects /\ Unscanned \in Key
  BY DEF NotPressed, Button, PressureState, Resting, Pad, DrumpadState, NoEffects, Effects,
         RandomEffectState, Unscanned, Key, KeyState
<1>2. Consistent(NoEffects)
  BY <1>1 DEF NoEffects, Consistent, FlagsMatch, RandomLit, OffsetState
<1>3. ModeOfPad(Resting) /\ NoEffects.state = "Inactive"
  BY <1>1 DEF ModeOfPad, Resting, NoEffects
<1> QED BY <1>1, <1>2, <1>3 DEF Init, PanelInv, TypeOK

LEMMA PanelNextKeeps == PanelInv /\ [Next]_vars => PanelInv'
<1> SUFFICES ASSUME PanelInv, [Next]_vars PROVE PanelInv'
  OBVIOUS
<1>0. /\ TypeOK /\ Consistent(fx) /\ (random.state = "Released" => fx.state = "Inactive")
      /\ (cycling => IsDown(key)) /\ ModeOfPad(pad)
  BY DEF PanelInv
<1>a. /\ random \in Button /\ repeat \in Button /\ random.state \in PressureState
      /\ repeat.state \in PressureState /\ key \in Key /\ pad \in Pad
  BY <1>0 DEF TypeOK, Button
<1>r. /\ Consistent(ResetRepeat(fx)) /\ ResetRepeat(fx).wasRunning = ResetRepeat(fx).running
      /\ fx.state = "Inactive" => ResetRepeat(fx).state = "Inactive"
  BY <1>0, ResetIs
<1>1. CASE ReadRandom
  <2>1. PICK pressure \in Pressures : random' = Read(random, pressure)
    BY <1>1 DEF ReadRandom, Pressures, Off, HardPressure
  <2>2. random' \in Button /\ random'.state \in PressureState
    BY <1>a, <2>1, ButtonReadIs DEF Button
  <2> DEFINE f == RandomEvent(ResetRepeat(fx), random.state, random'.state)
  <2>3. Consistent(f) /\ (random'.state = "Released" => f.state = "Inactive")
    BY <1>0, <1>a, <1>r, <2>2, RandomEventIs
  <2>4. PlayRead(f) /\ local = "on"
    BY <1>1 DEF ReadRandom
  <2> HIDE DEF f
  <2>5. /\ play' \in Pad /\ Consistent(fx') /\ local' \in {"on", "off", "asleep"}
        /\ random'.state = "Released" => fx'.state = "Inactive"
    BY <1>0, <2>3, <2>4, PlayReadIs
  <2> QED BY <1>0, <1>1, <2>2, <2>5 DEF ReadRandom, PanelInv, TypeOK, Consistent
<1>2. CASE ReadRepeat
  <2>1. PICK pressure \in Pressures : repeat' = Read(repeat, pressure)
    BY <1>2 DEF ReadRepeat
  <2>2. repeat' \in Button /\ repeat'.state \in PressureState
    BY <1>a, <2>1, ButtonReadIs DEF Button
  <2> DEFINE f == RepeatEvent(ResetRepeat(fx), repeat.state, repeat'.state)
  <2>3. Consistent(f) /\ (fx.state = "Inactive" => f.state = "Inactive")
    BY <1>0, <1>a, <1>r, <2>2, RepeatEventIs
  <2>4. PlayRead(f) /\ local = "on"
    BY <1>2 DEF ReadRepeat
  <2> HIDE DEF f
  <2>5. /\ play' \in Pad /\ Consistent(fx') /\ local' \in {"on", "off", "asleep"}
        /\ fx.state = "Inactive" => fx'.state = "Inactive"
    BY <1>0, <2>3, <2>4, PlayReadIs
  <2> QED BY <1>0, <1>2, <2>2, <2>5 DEF ReadRepeat, PanelInv, TypeOK, Consistent
<1>3. CASE ReadOther
  <2>1. /\ play' \in Pad /\ Consistent(fx') /\ local' \in {"on", "off", "asleep"}
        /\ fx.state = "Inactive" => fx'.state = "Inactive"
    BY <1>0, <1>3, <1>r, PlayReadIs DEF ReadOther
  <2> QED BY <1>0, <1>3, <2>1 DEF ReadOther, PanelInv, TypeOK, Consistent
<1>4. CASE ScanKeys
  <2>1. PICK down \in BOOLEAN, elapsed \in BOOLEAN : key' = update_key_state(key, down, elapsed)
    BY <1>4 DEF ScanKeys
  <2>2. /\ key' \in Key
        /\ (IsDown(key) \/ IsKeyHold(key, key')) /\ ~IsKeyRelease(key, key') => IsDown(key')
    BY <1>a, <2>1, KeyIs
  <2>3. cycling' \in BOOLEAN
        /\ (cycling' <=> (cycling \/ IsKeyHold(key, key')) /\ ~IsKeyRelease(key, key'))
    BY <1>4, Zenon DEF ScanKeys
  <2>4. cycling' => IsDown(key')
    BY <1>0, <2>2, <2>3
  <2> QED BY <1>0, <1>4, <2>2, <2>3, <2>4 DEF ScanKeys, PanelInv, TypeOK, IsDown
<1>5. CASE ReadPad
  <2>1. ModeOfPad(pad')
    BY <1>0, <1>5, PadModes DEF ReadPad
  <2> QED BY <1>0, <1>5, <2>1 DEF ReadPad, PanelInv, TypeOK, ModeOfPad
<1>6. CASE Touch
  <2>1. touched' \in BOOLEAN
    BY <1>6, Zenon DEF Touch
  <2> QED BY <1>0, <1>6, <2>1 DEF Touch, PanelInv, TypeOK
<1>7. CASE SettleRandom
  <2>1. random' \in Button /\ random'.state = random.state
    BY <1>a, <1>7 DEF SettleRandom, Button
  <2> QED BY <1>0, <1>7, <2>1 DEF SettleRandom, PanelInv, TypeOK
<1>8. CASE SettleRepeat
  <2>1. repeat' \in Button
    BY <1>a, <1>8 DEF SettleRepeat, Button
  <2> QED BY <1>0, <1>8, <2>1 DEF SettleRepeat, PanelInv, TypeOK
<1>9. CASE KeyAges
  <2>1. key' \in Key /\ (IsDown(key) => IsDown(key'))
    BY <1>a, <1>9, AgedIs DEF KeyAges
  <2> QED BY <1>0, <1>9, <2>1 DEF KeyAges, PanelInv, TypeOK
<1>10. CASE TempoEvent
  BY <1>0, <1>10 DEF TempoEvent, PanelInv, TypeOK
<1>11. CASE TransferStarts
  <2>1. Consistent(fx') /\ (fx.state = "Inactive" => fx'.state = "Inactive")
    BY <1>0, <1>11, StopIs DEF TransferStarts
  <2> QED BY <1>0, <1>11, <2>1 DEF TransferStarts, PanelInv, TypeOK, Consistent
<1>12. CASE TransferEnds
  BY <1>0, <1>12 DEF TransferEnds, PanelInv, TypeOK
<1>13. CASE Wake
  <2>1. NotPressed \in Button /\ Resting \in Pad /\ NoEffects \in Effects /\ Unscanned \in Key
    BY DEF NotPressed, Button, PressureState, Resting, Pad, DrumpadState, NoEffects, Effects,
           RandomEffectState, Unscanned, Key, KeyState
  <2>2. Consistent(NoEffects)
    BY <2>1 DEF NoEffects, Consistent, FlagsMatch, RandomLit, OffsetState
  <2>3. ModeOfPad(Resting) /\ NoEffects.state = "Inactive"
    BY <2>1 DEF ModeOfPad, Resting, NoEffects
  <2> QED BY <1>0, <1>13, <2>1, <2>2, <2>3 DEF Wake, PanelInv, TypeOK
<1>14. CASE UNCHANGED vars
  BY <1>0, <1>14 DEF vars, PanelInv, TypeOK
<1> QED BY <1>1, <1>2, <1>3, <1>4, <1>5, <1>6, <1>7, <1>8, <1>9, <1>10, <1>11, <1>12, <1>13, <1>14
        DEF Next

\* The panel's variables keep their types and agree: the flags of the effects
\* with RANDOM's state, a pad's mode with its state, a cycling key with the key.
THEOREM PanelInvariance == Spec => []PanelInv
  BY PanelInitInv, PanelNextKeeps, PTL DEF Spec

\* For every threshold and time of the debouncers, mode of the panel and order
\* of readings: no effect, retrigger or offset outlives the press that made it.
THEOREM NothingOutlives == Spec => []NothingOutlivesItsPress
<1>1. PanelInv => NothingOutlivesItsPress
  <2> SUFFICES ASSUME PanelInv PROVE NothingOutlivesItsPress
    OBVIOUS
  <2>1. fx \in Effects /\ Consistent(fx)
    BY DEF PanelInv, Consistent
  <2>2. fx.offset \in BOOLEAN /\ fx.flip \in BOOLEAN /\ fx.highlighted \in BOOLEAN
    BY <2>1, EffectParts
  <2>3. /\ fx.offset <=> fx.state \in {"OffsetActive", "OffsetWithFlip"}
        /\ fx.flip <=> fx.state = "OffsetWithFlip"
        /\ fx.highlighted <=> fx.state = "StepPreview"
    BY <2>1 DEF Consistent, FlagsMatch, RandomLit, OffsetState
  <2>4. fx.offset = (fx.state \in {"OffsetActive", "OffsetWithFlip"})
    BY <2>2, <2>3, SameTruth
  <2>5. fx.flip = (fx.state = "OffsetWithFlip")
    BY <2>2, <2>3, SameTruth
  <2>6. fx.highlighted = (fx.state = "StepPreview")
    BY <2>2, <2>3, SameTruth
  <2> QED BY <2>1, <2>4, <2>5, <2>6 DEF PanelInv, Consistent, NothingOutlivesItsPress
<1> QED BY <1>1, PanelInvariance, PTL

\* A pad keeps its protocol.
THEOREM PadImplemented == Spec => ImplementsPad
<1>1. Init => DrumPad!Init
  BY DEF Init, Resting, DrumPad!Init
<1>2. PanelInv /\ [Next]_vars => [DrumPad!Next]_<<IF pad.mode # "Off" THEN "held"
           ELSE IF pad.state \in {"Idle", "Rising"} THEN "up" ELSE "down", pad.mode = "Double">>
  <2> SUFFICES ASSUME PanelInv, [Next]_vars
               PROVE  [DrumPad!Next]_<<IF pad.mode # "Off" THEN "held"
                         ELSE IF pad.state \in {"Idle", "Rising"} THEN "up" ELSE "down", pad.mode = "Double">>
    OBVIOUS
  <2>0. ModeOfPad(pad)
    BY DEF PanelInv
  <2> USE DEF DrumPad!Next, DrumPad!Press, DrumPad!Hold, DrumPad!Squeeze, DrumPad!Release
  <2>1. CASE ReadPad
    <3>1. PICK reading \in Readings, elapsed \in BOOLEAN :
             pad' = update_state_machine(pad, reading, elapsed, HighPressure)
      BY <2>1 DEF ReadPad
    <3> QED BY <2>0, <3>1, PadModes
  <2>2. CASE Wake
    BY <2>0, <2>2 DEF Wake, Resting
  <2>3. CASE pad' = pad
    BY <2>3
  <2> QED BY <2>1, <2>2, <2>3 DEF Next, ReadRandom, ReadRepeat, ReadOther, ScanKeys, Touch, SettleRandom, SettleRepeat, KeyAges, TempoEvent, TransferStarts, TransferEnds, vars
<1> QED BY <1>1, <1>2, PanelInvariance, PTL DEF Spec, ImplementsPad, DrumPad!Spec

-----------------------------------------------------------------------------
(* The display *)

Colours == {Dark} \cup [by : {"boot", "sequencer", "transfer"}, at : 0..MaxBrightness]

\* What a picture looks like.
Shows(p) == [l \in Leds |-> IF l \in Lit(p) THEN Paint(p.by, p.at) ELSE Dark]

\* Each buffer holds one picture, the last drawn to it, and the one being sent,
\* or sent last, is not the one drawn to.
FramesWhole ==
    /\ buffers = [b \in {0, 1} |-> Shows(asked[b])]
    /\ asked = [b \in {0, 1} |-> asked[b]]
    /\ dma.buffer = 1 - drawing

DisplayTypes ==
    /\ DisplayTypeOK
    /\ buffers \in [{0, 1} -> [Leds -> Colours]]
    /\ dma \in [state : {"idle", "running", "complete"}, buffer : {0, 1}]

DisplayInv == DisplayTypes /\ FramesWhole

-----------------------------------------------------------------------------
\* The modes draw what their pictures show, whatever was in the buffer.
LEMMA SequencerIs ==
    ASSUME NEW buffer, NEW level \in 0..MaxBrightness
    PROVE  /\ Sequencer(buffer, level) = Shows(Picture("sequencer", level, 0))
           /\ Sequencer(buffer, level) \in [Leds -> Colours]
<1> DEFINE p == Picture("sequencer", level, 0)  paint == Paint("sequencer", level)
           first == BaseElements(buffer, paint)  second == SequencerState(first, paint)
           third == Animations(second, paint)
<1>1. Lit(p) = Leds /\ Paint(p.by, p.at) = paint
  BY DEF Lit, Picture
<1>2. Shows(p) = [l \in Leds |-> paint]
  BY <1>1 DEF Shows
<1>3. Sequencer(buffer, level) = third
  BY DEF Sequencer
<1>4. paint \in Colours
  BY DEF Paint, Colours
<1> HIDE DEF paint
<1>5. first = [l \in Leds |-> IF l \in {PlayButton} THEN paint ELSE buffer[l]]
  BY DEF BaseElements, Strip!Painted
<1> HIDE DEF first
<1>6. second = [l \in Leds |-> IF l \in UNION {Ring(t) : t \in Tracks} THEN paint ELSE first[l]]
  BY DEF SequencerState, Strip!Painted
<1> HIDE DEF second
<1>7. third = [l \in Leds |-> IF l \in {PadLed(t) : t \in Tracks} THEN paint ELSE second[l]]
  BY DEF Animations, Strip!Painted
<1> HIDE DEF third
<1>8. ASSUME NEW l \in Leds
      PROVE  l = PlayButton \/ l \in UNION {Ring(t) : t \in Tracks} \/ l \in {PadLed(t) : t \in Tracks}
  <2>1. CASE l \in {Step(t, s) : t \in Tracks, s \in 0..NUM_STEPS - 1}
    <3>1. PICK t \in Tracks, s \in 0..NUM_STEPS - 1 : l = Step(t, s)
      BY <2>1
    <3>2. l \in Ring(t)
      BY <3>1 DEF Ring
    <3> QED BY <3>2
  <2> QED BY <2>1 DEF Leds
<1>9. \A l \in Leds : third[l] = paint
  BY <1>5, <1>6, <1>7, <1>8
<1>10. third = [l \in Leds |-> paint]
  BY <1>7, <1>9
<1> QED BY <1>2, <1>3, <1>4, <1>10

LEMMA BootIs ==
    ASSUME NEW buffer, NEW level \in 0..MaxBrightness, NEW track \in Tracks
    PROVE  /\ BootAnimation(buffer, level, track) = Shows(Picture("boot", level, track))
           /\ BootAnimation(buffer, level, track) \in [Leds -> Colours]
<1> DEFINE p == Picture("boot", level, track)  paint == Paint("boot", level)
           lit == Ring(track) \cup {PadLed(t) : t \in track..NUM_TRACKS - 1}
<1>1. track..NUM_TRACKS - 1 = {t \in Tracks : track <= t}
  BY TracksAssumption DEF Tracks
<1>2. Lit(p) = lit /\ Paint(p.by, p.at) = paint
  BY <1>1 DEF Lit, Picture
<1>3. BootAnimation(buffer, level, track) = [l \in Leds |-> IF l \in lit THEN paint ELSE Dark]
  BY DEF BootAnimation, Strip!Painted, Strip!Cleared
<1>4. paint \in Colours /\ Dark \in Colours
  BY DEF Paint, Colours
<1> HIDE DEF paint, lit
<1> QED BY <1>2, <1>3, <1>4 DEF Shows

LEMMA TransferIs ==
    ASSUME NEW buffer, NEW level \in 0..MaxBrightness, NEW lit \in BOOLEAN, NEW done
    PROVE  /\ FileTransfer(buffer, level, lit, done)
                  = Shows(Picture("transfer", level, [lit |-> lit, done |-> done]))
           /\ FileTransfer(buffer, level, lit, done) \in [Leds -> Colours]
<1> DEFINE of == [lit |-> lit, done |-> done]  p == Picture("transfer", level, of)
           paint == Paint("transfer", level)
           shown == (IF lit THEN {PlayButton} ELSE {}) \cup
                    (IF done = None THEN {} ELSE {l \in Leds : l \in Bar(done)})
           button == [l \in Leds |-> IF l \in {PlayButton} THEN IF lit THEN paint ELSE Dark ELSE Dark]
           f == FileTransfer(buffer, level, lit, done)
<1>1. of.lit = lit /\ of.done = done
  OBVIOUS
<1>2. p.by = "transfer" /\ p.at = level /\ p.of = of
  BY DEF Picture
<1>3. Lit(p) = shown /\ Paint(p.by, p.at) = paint
  <2> HIDE DEF p, of
  <2> QED BY <1>1, <1>2 DEF Lit
<1>4. paint \in Colours /\ Dark \in Colours
  BY DEF Paint, Colours
<1>5. Shows(p) = [l \in Leds |-> IF l \in shown THEN paint ELSE Dark]
  <2> HIDE DEF p, shown, paint
  <2> QED BY <1>3 DEF Shows
<1>6. f = IF done = None THEN button
          ELSE [l \in Leds |-> IF l \in Bar(done) THEN paint ELSE button[l]]
  BY DEF FileTransfer, Strip!Painted, Strip!Cleared
<1> HIDE DEF f, p, paint
<1>7. ASSUME NEW l \in Leds PROVE f[l] = IF l \in shown THEN paint ELSE Dark
  BY <1>6
<1>8. f = [l \in Leds |-> IF l \in shown THEN paint ELSE Dark]
  <2>1. f = [l \in Leds |-> f[l]]
    BY <1>6
  <2> HIDE DEF button, shown
  <2> QED BY <1>7, <2>1
<1>9. f \in [Leds -> Colours]
  <2> HIDE DEF button, shown
  <2> QED BY <1>4, <1>8
<1> QED BY <1>5, <1>8, <1>9 DEF f, p

LEMMA BlackIs == Strip!Cleared = Shows(Black) /\ Strip!Cleared \in [Leds -> Colours]
<1>1. Lit(Black) = {}
  BY DEF Lit, Black, Picture
<1> QED BY <1>1 DEF Shows, Strip!Cleared, Colours

-----------------------------------------------------------------------------
LEMMA DisplayInitInv ==
    ASSUME DisplayInit PROVE DisplayInv
<1>1. buffers = [b \in {0, 1} |-> Strip!Cleared] /\ asked = [b \in {0, 1} |-> Black]
      /\ drawing = 0 /\ dma = [state |-> "idle", buffer |-> 1] /\ sem = 1
  BY DEF DisplayInit, Strip!LedInit
<1>2. buffers \in [{0, 1} -> [Leds -> Colours]]
  BY <1>1, BlackIs
<1>3. FramesWhole
  BY <1>1, BlackIs DEF FramesWhole
<1>4. DisplayTypeOK
  BY <1>1, <1>2, TracksAssumption, BrightnessAssumption DEF DisplayInit, DisplayTypeOK, Colours, Tracks
<1> QED BY <1>1, <1>2, <1>3, <1>4 DEF DisplayInv, DisplayTypes

\* A picture drawn to the buffer that is not sent.
LEMMA DrawnKeeps ==
    ASSUME DisplayInv, NEW p, NEW frame, Drawn(frame, p), frame = Shows(p), frame \in [Leds -> Colours],
           UNCHANGED <<drawing, dma>>
    PROVE  FramesWhole' /\ buffers' \in [{0, 1} -> [Leds -> Colours]]
<1>1. buffers' = [buffers EXCEPT ![drawing] = frame] /\ asked' = [asked EXCEPT ![drawing] = p]
      /\ drawing \in {0, 1} /\ buffers \in [{0, 1} -> [Leds -> Colours]] /\ dma.buffer = 1 - drawing
  BY DEF Drawn, DisplayInv, DisplayTypes, DisplayTypeOK, FramesWhole
<1>2. asked = [b \in {0, 1} |-> asked[b]] /\ \A b \in {0, 1} : buffers[b] = Shows(asked[b])
  BY DEF DisplayInv, FramesWhole
<1>3. buffers' \in [{0, 1} -> [Leds -> Colours]]
  BY <1>1
<1>4. asked' = [b \in {0, 1} |-> asked'[b]]
  BY <1>1, <1>2
<1>5. \A b \in {0, 1} : buffers'[b] = Shows(asked'[b])
  BY <1>1, <1>2
<1>6. buffers' = [b \in {0, 1} |-> Shows(asked'[b])]
  BY <1>3, <1>5
<1> QED BY <1>1, <1>3, <1>4, <1>6 DEF FramesWhole, Shows, Lit

LEMMA DisplayStep ==
    ASSUME DisplayInv, [DisplayNext]_displayVars PROVE DisplayInv'
<1>1. /\ DisplayTypeOK /\ buffers \in [{0, 1} -> [Leds -> Colours]]
      /\ dma \in [state : {"idle", "running", "complete"}, buffer : {0, 1}]
      /\ FramesWhole /\ brightness \in 0..MaxBrightness /\ boot \in Tracks /\ drawing \in {0, 1}
  BY DEF DisplayInv, DisplayTypes, DisplayTypeOK
<1>2. ASSUME buffers' \in [{0, 1} -> [Leds -> Colours]]
      PROVE  \A b \in {0, 1} : \A l \in Leds :
                buffers'[b][l] \in {Dark} \cup [by : {"boot", "sequencer", "transfer"}, at : 0..MaxBrightness]
  BY <1>2 DEF Colours
<1>3. CASE UpdateSequencer
  <2>1. FramesWhole' /\ buffers' \in [{0, 1} -> [Leds -> Colours]]
    BY <1>1, <1>3, SequencerIs, DrawnKeeps DEF UpdateSequencer, DrawSequencer, Drawing, UnchangedStrip
  <2> QED BY <1>1, <1>2, <1>3, <2>1 DEF DisplayInv, DisplayTypes, DisplayTypeOK, UpdateSequencer, Drawing, UnchangedStrip
<1>4. CASE UpdateTransfer
  <2>1. FramesWhole' /\ buffers' \in [{0, 1} -> [Leds -> Colours]]
    BY <1>1, <1>4, TransferIs, DrawnKeeps DEF UpdateTransfer, Drawing, UnchangedStrip
  <2> QED BY <1>1, <1>2, <1>4, <2>1 DEF DisplayInv, DisplayTypes, DisplayTypeOK, UpdateTransfer, Drawing, UnchangedStrip
<1>5. CASE UpdateBoot
  <2>1. /\ mode = "boot" /\ UnchangedStrip /\ UNCHANGED <<state, progress, brightness, enabled>>
        /\ \/ /\ \E next \in {boot, boot - 1} \cap Nat :
                    /\ boot' = next
                    /\ Drawn(BootAnimation(buffers[drawing], brightness, next),
                             Picture("boot", brightness, next))
              /\ UNCHANGED mode
           \/ /\ boot = 0 /\ mode' = "sequencer"
              /\ UNCHANGED <<buffers, asked, boot>>
    BY <1>5 DEF UpdateBoot, Drawing
  <2>2. CASE boot = 0 /\ mode' = "sequencer" /\ UNCHANGED <<buffers, asked, boot>>
    <3>1. FramesWhole'
      BY <1>1, <2>1, <2>2 DEF FramesWhole, Shows, Lit, UnchangedStrip
    <3> QED BY <1>1, <2>1, <2>2, <3>1 DEF DisplayInv, DisplayTypes, DisplayTypeOK, UnchangedStrip
  <2>3. CASE (\E next \in {boot, boot - 1} \cap Nat :
                    /\ boot' = next
                    /\ Drawn(BootAnimation(buffers[drawing], brightness, next),
                             Picture("boot", brightness, next))) /\ UNCHANGED mode
    <3>1. PICK next \in {boot, boot - 1} \cap Nat :
                    /\ boot' = next
                    /\ Drawn(BootAnimation(buffers[drawing], brightness, next),
                             Picture("boot", brightness, next))
      BY <2>3
    <3>2. next \in Tracks
      BY <1>1, TracksAssumption DEF Tracks
    <3>3. FramesWhole' /\ buffers' \in [{0, 1} -> [Leds -> Colours]]
      BY <1>1, <2>1, <3>1, <3>2, BootIs, DrawnKeeps DEF UnchangedStrip
    <3> QED BY <1>1, <1>2, <2>1, <2>3, <3>1, <3>2, <3>3 DEF DisplayInv, DisplayTypes, DisplayTypeOK, UnchangedStrip
  <2> QED BY <2>1, <2>2, <2>3
<1>6. CASE UpdateSleep
  <2>1. mode = "sleep" /\ UnchangedStrip /\ UNCHANGED <<state, mode, boot, progress>>
    BY <1>6 DEF UpdateSleep, Drawing
  <2>2. PICK level \in 0..brightness :
          /\ brightness' = level
          /\ IF level > 1
             THEN DrawSequencer(level) /\ UNCHANGED enabled
             ELSE Drawn(Strip!Cleared, Black) /\ enabled' = FALSE
    BY <1>6 DEF UpdateSleep
  <2>3. level \in 0..MaxBrightness
    BY <1>1, BrightnessAssumption
  <2>4. FramesWhole' /\ buffers' \in [{0, 1} -> [Leds -> Colours]]
    BY <2>1, <2>2, <2>3, SequencerIs, BlackIs, DrawnKeeps DEF DrawSequencer, UnchangedStrip
  <2> QED BY <1>1, <1>2, <2>1, <2>2, <2>3, <2>4 DEF DisplayInv, DisplayTypes, DisplayTypeOK, UnchangedStrip
<1>7. CASE TransferEvent
  <2>1. UNCHANGED <<state, mode, boot, brightness, buffers, drawing, dma, sem, asked>>
    BY <1>7 DEF TransferEvent, UnchangedStrip
  <2> QED BY <1>1, <2>1 DEF DisplayInv, DisplayTypes, DisplayTypeOK, FramesWhole, Shows, Lit
<1>8. CASE BootEnds \/ TransferShownEnds \/ FallAsleep \/ Sleep
  <2>1. /\ UNCHANGED <<boot, brightness, buffers, drawing, dma, sem, asked>>
        /\ state' \in {"Boot", "Sequencer", "FileTransfer", "FallingAsleep", "Sleep"}
        /\ mode' \in {"boot", "sequencer", "transfer", "sleep"}
    BY <1>8 DEF BootEnds, TransferShownEnds, FallAsleep, Sleep, Switched, UnchangedStrip
  <2> QED BY <1>1, <2>1 DEF DisplayInv, DisplayTypes, DisplayTypeOK, FramesWhole, Shows, Lit
<1>9. CASE TransferBegins
  <2>1. /\ UNCHANGED <<boot, brightness, drawing, dma, sem>> /\ Drawn(Strip!Cleared, Black)
        /\ state' = "FileTransfer" /\ mode' = "transfer"
    BY <1>9 DEF TransferBegins, Switched, UnchangedStrip
  <2>2. FramesWhole' /\ buffers' \in [{0, 1} -> [Leds -> Colours]]
    BY <2>1, BlackIs, DrawnKeeps
  <2> QED BY <1>1, <1>2, <2>1, <2>2 DEF DisplayInv, DisplayTypes, DisplayTypeOK
<1>10. CASE StripStep
  <2>1. /\ UNCHANGED <<state, mode, boot, brightness, asked, buffers>> /\ Strip!LedNext
    BY <1>10 DEF StripStep, Strip!LedNext, Strip!ShowLimited, Strip!Show, Strip!DmaEnds,
                 Strip!dma_complete_handler, Strip!reset_delay_complete, Strip!FrameTime
  <2>2. /\ drawing' \in {0, 1} /\ sem' \in {0, 1} /\ dma'.buffer = 1 - drawing'
        /\ dma' \in [state : {"idle", "running", "complete"}, buffer : {0, 1}]
    <3>1. sem \in {0, 1} /\ dma.buffer = 1 - drawing
      BY <1>1 DEF DisplayTypeOK, FramesWhole
    <3> QED BY <1>1, <2>1, <3>1 DEF Strip!LedNext, Strip!ShowLimited, Strip!Show, Strip!DmaEnds,
                 Strip!dma_complete_handler, Strip!reset_delay_complete, Strip!FrameTime
  <2>3. FramesWhole'
    BY <1>1, <2>1, <2>2 DEF FramesWhole, Shows, Lit
  <2> QED BY <1>1, <2>1, <2>2, <2>3 DEF DisplayInv, DisplayTypes, DisplayTypeOK
<1>11. CASE UNCHANGED displayVars
  BY <1>1, <1>11 DEF displayVars, DisplayInv, DisplayTypes, DisplayTypeOK, FramesWhole, Shows, Lit
<1> QED BY <1>3, <1>4, <1>5, <1>6, <1>7, <1>8, <1>9, <1>10, <1>11 DEF DisplayNext

\* Each buffer of the LEDs always holds the whole of the picture last drawn to
\* it, and the buffer drawn to is never the one that is being sent.
THEOREM DisplayInvariance == DisplaySpec => []DisplayInv
<1> QED BY DisplayInitInv, DisplayStep, PTL DEF DisplaySpec

LEMMA InvFrame == ASSUME DisplayInv PROVE FrameIsWhole
<1> DEFINE b == dma.buffer  p == asked[b]
<1>1. b \in {0, 1} /\ b = 1 - drawing /\ drawing \in {0, 1} /\ buffers[b] = Shows(p)
  BY DEF DisplayInv, DisplayTypes, DisplayTypeOK, FramesWhole
<1>2. b # drawing
  BY <1>1
<1> QED BY <1>1, <1>2 DEF FrameIsWhole, Shows

\* For every size of the panel and every brightness: a frame that is sent is
\* one picture, and not the one that is drawn to.
THEOREM FrameIsWholeAlways == DisplaySpec => []FrameIsWhole
<1> QED BY DisplayInvariance, InvFrame, PTL

-----------------------------------------------------------------------------
(* The codec *)

\* Every call keeps this of the codec and the driver's idea of its pages ...
OnItsPage(c) ==
    c \in Codec /\ ~c.stray /\ (c.current_page = c.page \/ c.current_page = Unknown)

\* ... and this of each volume, except while its two registers are written.
DacKnown(c) == c.current_dac = Unknown \/ (c.dacL = c.current_dac /\ c.dacR = c.current_dac)
MixerKnown(c) == c.current_mixer = Unknown \/ (c.mixL = c.current_mixer /\ c.mixR = c.current_mixer)

KnownCodec(c) == OnItsPage(c) /\ DacKnown(c) /\ MixerKnown(c)

VolumeFields == {"dacL", "dacR", "mixL", "mixR", "current_dac", "current_mixer"}
SameVolumes(c, d) ==
    /\ d.dacL = c.dacL /\ d.dacR = c.dacR /\ d.mixL = c.mixL /\ d.mixR = c.mixR
    /\ d.current_dac = c.current_dac /\ d.current_mixer = c.current_mixer

\* What may be written to a register.
Writable(reg) == IF reg \in {"dacL", "dacR", "mixL", "mixR"} THEN Volumes ELSE BOOLEAN

Regs == {"amp", "dacMute", "dacL", "dacR", "headphone", "mixL", "mixR", "power"}

LEMMA SameKnown ==
    ASSUME NEW c, NEW d, KnownCodec(c), OnItsPage(d), SameVolumes(c, d)
    PROVE  KnownCodec(d)
  BY DEF KnownCodec, SameVolumes, DacKnown, MixerKnown

\* A transfer.
LEMMA BusTransferIs ==
    ASSUME NEW c, NEW d, OnItsPage(c), OnItsPage(d), NEW r \in Transfer(c, d), d.faults = c.faults
    PROVE  /\ OnItsPage(r.c) /\ r.ok \in BOOLEAN
           /\ SameVolumes(c, r.c) \/ SameVolumes(d, r.c)
           /\ r.ok => r.c = d
<1>1. CASE r \in Success(d)
  <2>1. r.c = d /\ r.ok = TRUE
    BY <1>1 DEF Success
  <2> QED BY <2>1 DEF SameVolumes
<1>2. CASE r \notin Success(d)
  <2>1. PICK x \in {c, d} : c.faults # MaxFaults /\ r = [c |-> [x EXCEPT !.faults = @ + 1], ok |-> FALSE]
    BY <1>2 DEF Transfer
  <2>2. OnItsPage(x) /\ x.faults = c.faults
    BY <2>1
  <2>3. OnItsPage([x EXCEPT !.faults = @ + 1])
    BY <2>1, <2>2, FaultsAssumption DEF OnItsPage, Codec
  <2>4. SameVolumes(x, [x EXCEPT !.faults = @ + 1])
    BY <2>2 DEF OnItsPage, Codec, SameVolumes
  <2> QED BY <2>1, <2>3, <2>4
<1> QED BY <1>1, <1>2

\* Selecting a page.
LEMMA SelectIs ==
    ASSUME NEW c, OnItsPage(c), NEW page \in {0, 1}, NEW r \in select_page(c, page)
    PROVE  /\ OnItsPage(r.c) /\ r.ok \in BOOLEAN /\ SameVolumes(c, r.c)
           /\ r.ok => r.c.page = page
<1>1. CASE c.current_page = page
  <2>1. r.c = c /\ r.ok = TRUE
    BY <1>1 DEF select_page, Success
  <2>2. c.page = page
    BY <1>1, UnknownAssumption DEF OnItsPage
  <2> QED BY <2>1, <2>2 DEF SameVolumes
<1>2. CASE c.current_page # page
  <2> DEFINE d == [c EXCEPT !.page = page]
  <2>1. PICK q \in Transfer(c, d) :
           r = [q EXCEPT !.c.current_page = IF q.ok THEN page ELSE Unknown]
    BY <1>2 DEF select_page
  <2>2. \/ q = [c |-> d, ok |-> TRUE]
        \/ \E x \in {c, d} : c.faults # MaxFaults /\ q = [c |-> [x EXCEPT !.faults = @ + 1], ok |-> FALSE]
    BY DEF Transfer, Success
  <2>3. CASE q = [c |-> d, ok |-> TRUE]
    <3>1. r = [c |-> [d EXCEPT !.current_page = page], ok |-> TRUE]
      BY <2>1, <2>3
    <3>2. OnItsPage([d EXCEPT !.current_page = page])
      BY DEF OnItsPage, Codec
    <3>3. r.c = [d EXCEPT !.current_page = page] /\ r.ok = TRUE
      BY <3>1
    <3>4. SameVolumes(c, r.c) /\ r.c.page = page
      BY <3>3 DEF OnItsPage, Codec, SameVolumes
    <3> QED BY <3>2, <3>3, <3>4
  <2>4. ASSUME NEW x \in {c, d}, c.faults # MaxFaults,
               q = [c |-> [x EXCEPT !.faults = @ + 1], ok |-> FALSE]
        PROVE  OnItsPage(r.c) /\ r.ok \in BOOLEAN /\ SameVolumes(c, r.c) /\ ~r.ok
    <3> DEFINE y == [x EXCEPT !.faults = @ + 1]
               z == [y EXCEPT !.current_page = Unknown]
    <3>1. r = [c |-> z, ok |-> FALSE]
      BY <2>1, <2>4
    <3>2. x \in Codec /\ ~x.stray /\ SameVolumes(c, x) /\ x.faults = c.faults
      BY <2>4 DEF OnItsPage, Codec, SameVolumes
    <3>3. y \in Codec /\ ~y.stray /\ SameVolumes(c, y)
      BY <2>4, <3>2, FaultsAssumption DEF Codec, SameVolumes
    <3> HIDE DEF y
    <3>4. OnItsPage(z) /\ SameVolumes(c, z)
      BY <3>3 DEF OnItsPage, Codec, SameVolumes
    <3> QED BY <3>1, <3>4
  <2> QED BY <2>2, <2>3, <2>4
<1> QED BY <1>1, <1>2

\* The value arrives in a register of the page selected.
LEMMA LatchedIs ==
    ASSUME NEW c, OnItsPage(c), NEW reg \in Regs, NEW value \in Writable(reg), c.page = PageOf[reg]
    PROVE  /\ OnItsPage(Latched(c, reg, value)) /\ Latched(c, reg, value).faults = c.faults
           /\ \A f \in VolumeFields \ {reg} : Latched(c, reg, value)[f] = c[f]
           /\ Latched(c, reg, value)[reg] = value
<1> USE DEF Latched, OnItsPage, Codec, VolumeFields, Writable, Volumes
<1>1. CASE reg = "amp"       BY <1>1
<1>2. CASE reg = "dacMute"   BY <1>2
<1>3. CASE reg = "dacL"      BY <1>3
<1>4. CASE reg = "dacR"      BY <1>4
<1>5. CASE reg = "headphone" BY <1>5
<1>6. CASE reg = "mixL"      BY <1>6
<1>7. CASE reg = "mixR"      BY <1>7
<1>8. CASE reg = "power"     BY <1>8
<1> QED BY <1>1, <1>2, <1>3, <1>4, <1>5, <1>6, <1>7, <1>8 DEF Regs

LEMMA WriteIs ==
    ASSUME NEW c, OnItsPage(c), NEW reg \in Regs, NEW value \in Writable(reg),
           NEW r \in write_register(c, reg, value)
    PROVE  /\ OnItsPage(r.c) /\ r.ok \in BOOLEAN
           /\ \A f \in VolumeFields \ {reg} : r.c[f] = c[f]
           /\ r.ok => r.c[reg] = value
<1>1. PageOf[reg] \in {0, 1}
  BY DEF PageOf, Regs
<1>2. \/ \E s \in select_page(c, PageOf[reg]) : s.ok /\ r \in Transfer(s.c, Latched(s.c, reg, value))
      \/ r \in select_page(c, PageOf[reg]) /\ ~r.ok
  BY DEF write_register, AndThen
<1>3. ASSUME r \in select_page(c, PageOf[reg]), ~r.ok
      PROVE  OnItsPage(r.c) /\ r.ok \in BOOLEAN /\ \A f \in VolumeFields \ {reg} : r.c[f] = c[f]
  BY <1>1, <1>3, SelectIs DEF SameVolumes, VolumeFields
<1>4. ASSUME NEW s \in select_page(c, PageOf[reg]), s.ok, r \in Transfer(s.c, Latched(s.c, reg, value))
      PROVE  /\ OnItsPage(r.c) /\ r.ok \in BOOLEAN
             /\ \A f \in VolumeFields \ {reg} : r.c[f] = c[f]
             /\ r.ok => r.c[reg] = value
  <2>1. OnItsPage(s.c) /\ SameVolumes(c, s.c) /\ s.c.page = PageOf[reg]
    BY <1>1, <1>4, SelectIs
  <2> DEFINE d == Latched(s.c, reg, value)
  <2>2. /\ OnItsPage(d) /\ d.faults = s.c.faults
        /\ \A f \in VolumeFields \ {reg} : d[f] = s.c[f]
        /\ d[reg] = value
    BY <2>1, LatchedIs
  <2> HIDE DEF d
  <2>3. /\ OnItsPage(r.c) /\ r.ok \in BOOLEAN
        /\ SameVolumes(s.c, r.c) \/ SameVolumes(d, r.c)
        /\ r.ok => r.c = d
    BY <1>4, <2>1, <2>2, BusTransferIs DEF d
  <2> QED BY <2>1, <2>2, <2>3 DEF SameVolumes, VolumeFields
<1> QED BY <1>2, <1>3, <1>4

LEMMA CodecReadIs ==
    ASSUME NEW c, OnItsPage(c), NEW reg \in DOMAIN PageOf, NEW r \in read_register(c, reg)
    PROVE  OnItsPage(r.c) /\ r.ok \in BOOLEAN /\ SameVolumes(c, r.c)
<1>1. PageOf[reg] \in {0, 1}
  BY DEF PageOf
<1>2. \/ \E s \in select_page(c, PageOf[reg]) : s.ok /\ r \in Transfer(s.c, s.c)
      \/ r \in select_page(c, PageOf[reg]) /\ ~r.ok
  BY DEF read_register, AndThen
<1>3. \A s \in select_page(c, PageOf[reg]) : OnItsPage(s.c) /\ s.ok \in BOOLEAN /\ SameVolumes(c, s.c)
  BY <1>1, SelectIs
<1>4. ASSUME NEW s \in select_page(c, PageOf[reg]), r \in Transfer(s.c, s.c)
      PROVE  OnItsPage(r.c) /\ r.ok \in BOOLEAN /\ SameVolumes(c, r.c)
  <2>1. OnItsPage(r.c) /\ r.ok \in BOOLEAN /\ SameVolumes(s.c, r.c)
    BY <1>3, <1>4, BusTransferIs
  <2> QED BY <1>3, <2>1 DEF SameVolumes
<1> QED BY <1>2, <1>3, <1>4

\* A register that holds no volume.
LEMMA WriteKeepsVolumes ==
    ASSUME NEW c, KnownCodec(c), NEW reg \in Regs \ {"dacL", "dacR", "mixL", "mixR"},
           NEW value \in BOOLEAN, NEW r \in write_register(c, reg, value)
    PROVE  KnownCodec(r.c) /\ r.ok \in BOOLEAN
<1>1. reg \in Regs /\ value \in Writable(reg) /\ reg \notin VolumeFields
  BY DEF Writable, Regs, VolumeFields
<1>2. OnItsPage(r.c) /\ r.ok \in BOOLEAN /\ \A f \in VolumeFields : r.c[f] = c[f]
  BY <1>1, WriteIs DEF KnownCodec
<1>3. SameVolumes(c, r.c)
  BY <1>2 DEF SameVolumes, VolumeFields
<1> QED BY <1>2, <1>3, SameKnown

\* Whether both registers of a volume could be written or not, the driver
\* knows the volume or knows that it does not.
LEMMA SetDacIs ==
    ASSUME NEW c, OnItsPage(c), MixerKnown(c), NEW value \in Volumes,
           NEW r \in SetBoth(c, "dacL", "dacR", value, "current_dac")
    PROVE  KnownCodec(r.c) /\ r.ok \in BOOLEAN
<1>1. PICK a \in write_register(c, "dacL", value) : \E b \in write_register(a.c, "dacR", value) :
         r = [c |-> [b.c EXCEPT !["current_dac"] = IF a.ok /\ b.ok THEN value ELSE Unknown],
              ok |-> a.ok /\ b.ok]
  BY DEF SetBoth
<1>2. PICK b \in write_register(a.c, "dacR", value) :
         r = [c |-> [b.c EXCEPT !["current_dac"] = IF a.ok /\ b.ok THEN value ELSE Unknown],
              ok |-> a.ok /\ b.ok]
  BY <1>1
<1>3. "dacL" \in Regs /\ "dacR" \in Regs /\ value \in Writable("dacL") /\ value \in Writable("dacR")
  BY DEF Regs, Writable
<1>4. /\ OnItsPage(a.c) /\ a.ok \in BOOLEAN /\ (a.ok => a.c.dacL = value)
      /\ a.c.mixL = c.mixL /\ a.c.mixR = c.mixR /\ a.c.current_mixer = c.current_mixer
  BY <1>3, WriteIs DEF VolumeFields
<1>5. /\ OnItsPage(b.c) /\ b.ok \in BOOLEAN /\ (b.ok => b.c.dacR = value) /\ b.c.dacL = a.c.dacL
      /\ b.c.mixL = c.mixL /\ b.c.mixR = c.mixR /\ b.c.current_mixer = c.current_mixer
  BY <1>3, <1>4, WriteIs DEF VolumeFields
<1> DEFINE v == IF a.ok /\ b.ok THEN value ELSE Unknown
           d == [b.c EXCEPT !["current_dac"] = v]
<1>6. v \in Volumes \cup {Unknown} /\ (v = Unknown \/ (b.c.dacL = v /\ b.c.dacR = v))
  BY <1>4, <1>5
<1>7. r.c = d /\ r.ok \in BOOLEAN
  BY <1>2, <1>4, <1>5
<1> HIDE DEF v
<1>8. OnItsPage(d) /\ d.current_dac = v /\ d.dacL = b.c.dacL /\ d.dacR = b.c.dacR
      /\ d.mixL = b.c.mixL /\ d.mixR = b.c.mixR /\ d.current_mixer = b.c.current_mixer
  BY <1>5, <1>6 DEF OnItsPage, Codec
<1> HIDE DEF d
<1>9. KnownCodec(d)
  BY <1>5, <1>6, <1>8 DEF KnownCodec, DacKnown, MixerKnown
<1> QED BY <1>7, <1>9

LEMMA SetMixerIs ==
    ASSUME NEW c, OnItsPage(c), DacKnown(c), NEW value \in Volumes,
           NEW r \in SetBoth(c, "mixL", "mixR", value, "current_mixer")
    PROVE  KnownCodec(r.c) /\ r.ok \in BOOLEAN
<1>1. PICK a \in write_register(c, "mixL", value) : \E b \in write_register(a.c, "mixR", value) :
         r = [c |-> [b.c EXCEPT !["current_mixer"] = IF a.ok /\ b.ok THEN value ELSE Unknown],
              ok |-> a.ok /\ b.ok]
  BY DEF SetBoth
<1>2. PICK b \in write_register(a.c, "mixR", value) :
         r = [c |-> [b.c EXCEPT !["current_mixer"] = IF a.ok /\ b.ok THEN value ELSE Unknown],
              ok |-> a.ok /\ b.ok]
  BY <1>1
<1>3. "mixL" \in Regs /\ "mixR" \in Regs /\ value \in Writable("mixL") /\ value \in Writable("mixR")
  BY DEF Regs, Writable
<1>4. /\ OnItsPage(a.c) /\ a.ok \in BOOLEAN /\ (a.ok => a.c.mixL = value)
      /\ a.c.dacL = c.dacL /\ a.c.dacR = c.dacR /\ a.c.current_dac = c.current_dac
  BY <1>3, WriteIs DEF VolumeFields
<1>5. /\ OnItsPage(b.c) /\ b.ok \in BOOLEAN /\ (b.ok => b.c.mixR = value) /\ b.c.mixL = a.c.mixL
      /\ b.c.dacL = c.dacL /\ b.c.dacR = c.dacR /\ b.c.current_dac = c.current_dac
  BY <1>3, <1>4, WriteIs DEF VolumeFields
<1> DEFINE v == IF a.ok /\ b.ok THEN value ELSE Unknown
           d == [b.c EXCEPT !["current_mixer"] = v]
<1>6. v \in Volumes \cup {Unknown} /\ (v = Unknown \/ (b.c.mixL = v /\ b.c.mixR = v))
  BY <1>4, <1>5
<1>7. r.c = d /\ r.ok \in BOOLEAN
  BY <1>2, <1>4, <1>5
<1> HIDE DEF v
<1>8. OnItsPage(d) /\ d.current_mixer = v /\ d.mixL = b.c.mixL /\ d.mixR = b.c.mixR
      /\ d.dacL = b.c.dacL /\ d.dacR = b.c.dacR /\ d.current_dac = b.c.current_dac
  BY <1>5, <1>6 DEF OnItsPage, Codec
<1> HIDE DEF d
<1>9. KnownCodec(d)
  BY <1>5, <1>6, <1>8 DEF KnownCodec, DacKnown, MixerKnown
<1> QED BY <1>7, <1>9

LEMMA ReadKeeps ==
    ASSUME NEW c, KnownCodec(c), NEW reg \in DOMAIN PageOf, NEW r \in read_register(c, reg)
    PROVE  KnownCodec(r.c) /\ r.ok \in BOOLEAN
  BY CodecReadIs, SameKnown DEF KnownCodec

-----------------------------------------------------------------------------
\* Every call of the driver.
LEMMA DriverKeeps ==
    ASSUME NEW c, KnownCodec(c)
    PROVE  /\ \A b \in BOOLEAN : \A r \in set_amp_enabled(c, b) : KnownCodec(r.c) /\ r.ok \in BOOLEAN
           /\ \A b \in BOOLEAN : \A r \in set_headphone_enabled(c, b) : KnownCodec(r.c)
           /\ \A l \in Volumes : \A r \in set_dac_volume(c, l) : KnownCodec(r.c)
           /\ \A l \in Volumes : \A r \in set_mixer_volume(c, l) : KnownCodec(r.c)
           /\ \A b \in BOOLEAN : \A r \in set_dac_muted(c, b) : KnownCodec(r.c)
           /\ \A r \in enter_sleep_mode(c) : KnownCodec(r.c)
<1> USE DEF AndThen
<1>1. /\ {"amp", "headphone", "dacMute", "power"} \subseteq Regs \ {"dacL", "dacR", "mixL", "mixR"}
      /\ {"stepping", "power", "dacMute"} \subseteq DOMAIN PageOf
  BY DEF Regs, PageOf
<1>2. \A d : KnownCodec(d) =>
         /\ \A reg \in {"amp", "headphone", "dacMute", "power"}, b \in BOOLEAN :
               \A r \in write_register(d, reg, b) : KnownCodec(r.c) /\ r.ok \in BOOLEAN
         /\ \A reg \in {"stepping", "power", "dacMute"} :
               \A r \in read_register(d, reg) : KnownCodec(r.c) /\ r.ok \in BOOLEAN
  BY <1>1, WriteKeepsVolumes, ReadKeeps
<1>3. \A b \in BOOLEAN : \A r \in set_amp_enabled(c, b) : KnownCodec(r.c) /\ r.ok \in BOOLEAN
  BY <1>2 DEF set_amp_enabled
<1>4. ASSUME NEW b \in BOOLEAN, NEW r \in set_headphone_enabled(c, b) PROVE KnownCodec(r.c)
  <2>1. \/ r \in write_register(c, "headphone", b)
        \/ \E s \in write_register(c, "headphone", b) :
              s.ok /\ (\/ \E q \in read_register(s.c, "stepping") : r = [q EXCEPT !.ok = TRUE]
                       \/ r \in Success(s.c))
    BY DEF set_headphone_enabled, Anyway
  <2>2. \A s \in write_register(c, "headphone", b) : KnownCodec(s.c)
    BY <1>2
  <2>3. CASE r \in write_register(c, "headphone", b)
    BY <2>2, <2>3
  <2>4. ASSUME NEW s \in write_register(c, "headphone", b), r \in Success(s.c) PROVE KnownCodec(r.c)
    BY <2>2, <2>4 DEF Success
  <2>5. ASSUME NEW s \in write_register(c, "headphone", b),
               NEW q \in read_register(s.c, "stepping"), r = [q EXCEPT !.ok = TRUE]
        PROVE  KnownCodec(r.c)
    <3>1. KnownCodec(q.c)
      BY <1>2, <2>2
    <3>2. r.c = q.c
      BY <2>5
    <3> QED BY <3>1, <3>2
  <2> QED BY <2>1, <2>3, <2>4, <2>5
<1>5. ASSUME NEW l \in Volumes, NEW r \in set_dac_volume(c, l) PROVE KnownCodec(r.c)
  <2>1. \/ r \in Success(c)
        \/ \E s \in read_register(c, "stepping") :
              \/ r \in SetBoth(s.c, "dacL", "dacR", l, "current_dac")
              \/ r = [s EXCEPT !.ok = FALSE]
    BY DEF set_dac_volume
  <2>2. \A s \in read_register(c, "stepping") : KnownCodec(s.c)
    BY <1>2
  <2>3. CASE r \in Success(c)
    BY <2>3 DEF Success
  <2>4. ASSUME NEW s \in read_register(c, "stepping"),
               r \in SetBoth(s.c, "dacL", "dacR", l, "current_dac")
        PROVE  KnownCodec(r.c)
    BY <2>2, <2>4, SetDacIs DEF KnownCodec
  <2>5. ASSUME NEW s \in read_register(c, "stepping"), r = [s EXCEPT !.ok = FALSE]
        PROVE  KnownCodec(r.c)
    <3>1. r.c = s.c
      BY <2>5
    <3> QED BY <2>2, <3>1
  <2> QED BY <2>1, <2>3, <2>4, <2>5
<1>6. ASSUME NEW l \in Volumes, NEW r \in set_mixer_volume(c, l) PROVE KnownCodec(r.c)
  BY <1>6, SetMixerIs DEF set_mixer_volume, Success, KnownCodec
<1>7. ASSUME NEW b \in BOOLEAN, NEW r \in set_dac_muted(c, b) PROVE KnownCodec(r.c)
  <2>1. \/ r \in Success(c)
        \/ r \in read_register(c, "dacMute")
        \/ \E s \in read_register(c, "dacMute") : \E q \in write_register(s.c, "dacMute", b) :
              r = q \/ r \in Success([q.c EXCEPT !.dac_muted = b])
    BY DEF set_dac_muted
  <2>2. \A s \in read_register(c, "dacMute") : KnownCodec(s.c)
    BY <1>2
  <2>3. \A s \in read_register(c, "dacMute") : \A q \in write_register(s.c, "dacMute", b) : KnownCodec(q.c)
    BY <1>2, <2>2
  <2>4. ASSUME NEW d, KnownCodec(d) PROVE KnownCodec([d EXCEPT !.dac_muted = b])
    BY <2>4 DEF KnownCodec, OnItsPage, Codec, DacKnown, MixerKnown
  <2> QED BY <2>1, <2>2, <2>3, <2>4 DEF Success
<1>8. ASSUME NEW r \in enter_sleep_mode(c) PROVE KnownCodec(r.c)
  <2>1. \/ r \in read_register(c, "power")
        \/ \E s \in read_register(c, "power") :
              \/ r \in write_register(s.c, "power", FALSE)
              \/ \E q \in write_register(s.c, "power", FALSE) : r \in write_register(q.c, "power", FALSE)
    BY DEF enter_sleep_mode
  <2>2. \A s \in read_register(c, "power") : KnownCodec(s.c)
    BY <1>2
  <2>3. \A s \in read_register(c, "power") : \A q \in write_register(s.c, "power", FALSE) : KnownCodec(q.c)
    BY <1>2, <2>2
  <2> QED BY <1>2, <2>1, <2>2, <2>3
<1> QED BY <1>3, <1>4, <1>5, <1>6, <1>7, <1>8

\* ... and of AudioOutput.
LEMMA OutputKeeps ==
    ASSUME NEW c, KnownCodec(c)
    PROVE  /\ \A l \in Volumes : \A r \in volume(c, l) : KnownCodec(r.c)
           /\ \A b \in BOOLEAN : \A r \in Outputs(c, b) : KnownCodec(r.c)
<1>1. ASSUME NEW l \in Volumes, NEW r \in volume(c, l) PROVE KnownCodec(r.c)
  <2>1. \/ \E s \in set_dac_muted(c, TRUE) : r \in set_mixer_volume(s.c, l)
        \/ \E s \in set_dac_muted(c, FALSE) :
              \/ r \in set_mixer_volume(s.c, l)
              \/ \E q \in set_dac_volume(s.c, l) : r \in set_mixer_volume(q.c, l)
    <3>1. PICK q \in (IF l = 0 THEN set_dac_muted(c, TRUE)
                     ELSE AndThen(set_dac_muted(c, FALSE), LAMBDA d : set_dac_volume(d, l))) :
             r \in set_mixer_volume(q.c, l)
      BY DEF volume
    <3>2. CASE l = 0
      BY <3>1, <3>2
    <3>3. CASE l # 0
      <4>1. PICK s \in set_dac_muted(c, FALSE) :
               IF s.ok THEN q \in set_dac_volume(s.c, l) ELSE q = s
        BY <3>1, <3>3 DEF AndThen
      <4> QED BY <3>1, <4>1
    <3> QED BY <3>2, <3>3
  <2>2. \A b \in BOOLEAN : \A s \in set_dac_muted(c, b) : KnownCodec(s.c)
    BY DriverKeeps
  <2>3. \A s \in set_dac_muted(c, FALSE) : \A q \in set_dac_volume(s.c, l) : KnownCodec(q.c)
    BY <2>2, DriverKeeps
  <2>4. \A d : KnownCodec(d) => \A q \in set_mixer_volume(d, l) : KnownCodec(q.c)
    BY DriverKeeps
  <2> QED BY <2>1, <2>2, <2>3, <2>4
<1>2. ASSUME NEW b \in BOOLEAN, NEW r \in Outputs(c, b) PROVE KnownCodec(r.c)
  <2>1. PICK s \in set_amp_enabled(c, b) : r \in set_headphone_enabled(s.c, b)
    BY DEF Outputs
  <2>2. KnownCodec(s.c)
    BY DriverKeeps
  <2> QED BY <2>1, <2>2, DriverKeeps
<1> QED BY <1>1, <1>2

LEMMA ConstructedIs ==
    ASSUME NEW n \in 0..MaxFaults
    PROVE  KnownCodec(Constructed(n))
<1>1. MaxVolume \in Volumes
  BY VolumeAssumption DEF Volumes
<1> QED BY <1>1 DEF Constructed, KnownCodec, OnItsPage, Codec, DacKnown, MixerKnown

OutputInv == OutputTypeOK /\ KnownCodec(codec)

LEMMA OutputNextKeeps == OutputInv /\ [OutputNext]_outputVars => OutputInv'
<1> SUFFICES ASSUME OutputInv, [OutputNext]_outputVars PROVE OutputInv'
  OBVIOUS
<1> USE DEF OutputInv
<1>0. /\ KnownCodec(codec) /\ codec.faults \in 0..MaxFaults
      /\ detect \in [pending : {"in", "out"}, settled : BOOLEAN, debounced : {"in", "out", "unknown"}]
      /\ engine \in [muted : BOOLEAN, volume : Volumes]
      /\ jack \in {"in", "out"} /\ phase \in {"playing", "announcing", "transfer", "asleep"}
      /\ MaxVolume \in Volumes
  BY VolumeAssumption DEF OutputTypeOK, Codec, Volumes
<1>1. CASE Poll
  <2>1. PICK r \in read_register(codec, "detect") :
          IF ~r.ok
          THEN codec' = r.c /\ UNCHANGED detect
          ELSE IF jack # detect.pending
          THEN codec' = r.c /\ detect' = [detect EXCEPT !.pending = jack, !.settled = FALSE]
          ELSE IF detect.settled /\ detect.debounced # jack
          THEN /\ detect' = [detect EXCEPT !.debounced = jack]
               /\ \E s \in set_amp_enabled(r.c, jack = "out") : codec' = s.c
          ELSE codec' = r.c /\ UNCHANGED detect
    BY <1>1 DEF Poll
  <2>2. KnownCodec(r.c)
    BY <1>0, ReadKeeps DEF PageOf
  <2>3. \A s \in set_amp_enabled(r.c, jack = "out") : KnownCodec(s.c)
    BY <2>2, DriverKeeps
  <2>4. KnownCodec(codec')
    BY <2>1, <2>2, <2>3
  <2>5. detect' \in [pending : {"in", "out"}, settled : BOOLEAN, debounced : {"in", "out", "unknown"}]
    BY <1>0, <2>1
  <2> QED BY <1>0, <1>1, <2>4, <2>5 DEF Poll, OutputTypeOK, KnownCodec, OnItsPage
<1>2. CASE SetVolume
  <2>1. PICK level \in Volumes :
          /\ engine' = [engine EXCEPT !.volume = level]
          /\ IF engine.muted THEN UNCHANGED codec ELSE \E r \in volume(codec, level) : codec' = r.c
    BY <1>2 DEF SetVolume
  <2>2. KnownCodec(codec')
    BY <1>0, <2>1, OutputKeeps
  <2>3. engine' \in [muted : BOOLEAN, volume : Volumes]
    BY <1>0, <2>1
  <2> QED BY <1>0, <1>2, <2>2, <2>3 DEF SetVolume, OutputTypeOK, KnownCodec, OnItsPage
<1>3. CASE Mute
  <2>1. KnownCodec(codec')
    BY <1>0, <1>3, OutputKeeps DEF Mute
  <2> QED BY <1>0, <1>3, <2>1 DEF Mute, OutputTypeOK, KnownCodec, OnItsPage
<1>4. CASE IterationEnds
  BY <1>0, <1>4 DEF IterationEnds, OutputTypeOK
<1>5. CASE Unmute
  <2>1. KnownCodec(codec')
    BY <1>0, <1>5, OutputKeeps DEF Unmute
  <2> QED BY <1>0, <1>5, <2>1 DEF Unmute, OutputTypeOK, KnownCodec, OnItsPage
<1>6. CASE deinit
  <2>1. PICK r \in Outputs(codec, FALSE) : \E s \in enter_sleep_mode(r.c) : codec' = s.c
    BY <1>6 DEF deinit
  <2>2. KnownCodec(r.c)
    BY <1>0, OutputKeeps
  <2>3. KnownCodec(codec')
    BY <2>1, <2>2, DriverKeeps
  <2> QED BY <1>0, <1>6, <2>3 DEF deinit, OutputTypeOK, KnownCodec, OnItsPage
<1>7. CASE Restart
  <2>1. KnownCodec(codec')
    BY <1>0, <1>7, ConstructedIs DEF Restart
  <2>2. /\ detect' \in [pending : {"in", "out"}, settled : BOOLEAN, debounced : {"in", "out", "unknown"}]
        /\ engine' \in [muted : BOOLEAN, volume : Volumes]
    BY <1>0, <1>7 DEF Restart, Undetected
  <2> QED BY <1>0, <1>7, <2>1, <2>2 DEF Restart, OutputTypeOK, KnownCodec, OnItsPage
<1>8. CASE JackChanges
  BY <1>0, <1>8 DEF JackChanges, OutputTypeOK
<1>9. CASE Elapses
  <2>1. KnownCodec([codec EXCEPT !.stepping = FALSE])
    BY <1>0 DEF KnownCodec, OnItsPage, Codec, DacKnown, MixerKnown
  <2>2. /\ KnownCodec(codec')
        /\ detect' \in [pending : {"in", "out"}, settled : BOOLEAN, debounced : {"in", "out", "unknown"}]
    BY <1>0, <1>9, <2>1 DEF Elapses
  <2> QED BY <1>0, <1>9, <2>2 DEF Elapses, OutputTypeOK, KnownCodec, OnItsPage
<1>10. CASE UNCHANGED outputVars
  BY <1>0, <1>10 DEF outputVars, OutputTypeOK
<1> QED BY <1>1, <1>2, <1>3, <1>4, <1>5, <1>6, <1>7, <1>8, <1>9, <1>10 DEF OutputNext

LEMMA OutputInitInv == OutputInit => OutputInv
<1> SUFFICES ASSUME OutputInit PROVE OutputInv
  OBVIOUS
<1>1. KnownCodec(codec) /\ MaxVolume \in Volumes
  BY ConstructedIs, FaultsAssumption, VolumeAssumption DEF OutputInit, Volumes
<1> QED BY <1>1 DEF OutputInit, OutputInv, OutputTypeOK, Undetected, KnownCodec, OnItsPage

\* Whatever fails on the bus, the driver's copies of the codec's page and
\* volumes are the codec's own, or marked as unknown.
THEOREM OutputInvariance == OutputSpec => []OutputInv
  BY OutputInitInv, OutputNextKeeps, PTL DEF OutputSpec

\* Whichever transfers on the bus fail, the driver does not write to the wrong
\* page, and knows the volumes it will not set again.
THEOREM CodecStaysKnown == OutputSpec => []CodecIsKnown
<1>1. OutputInv => CodecIsKnown
  BY DEF OutputInv, KnownCodec, OnItsPage, DacKnown, MixerKnown, CodecIsKnown
<1> QED BY <1>1, OutputInvariance, PTL

-----------------------------------------------------------------------------
(* The files *)

Content == Seq(Nat \X Nat)

\* Bytes of transfer n: a block of them as they were sent, and no gap after it.
PieceOf(c, n) ==
    /\ c \in Content
    /\ \A i \in 1..Len(c) :
          /\ c[i][1] = n
          /\ i <= BlockSize => c[i][2] = i
          /\ i > 1 => c[i][2] <= c[i - 1][2] + 1

\* ... and all of its first g bytes, the last of them at the end; what is
\* shorter than a block has none twice.
Holds(c, n, g) ==
    /\ PieceOf(c, n)
    /\ \A i \in 1..Len(c) : c[i][2] \in 1..g
    /\ \A k \in 1..g : \E i \in 1..Len(c) : c[i][2] = k
    /\ Len(c) = g \/ Len(c) >= BlockSize
    /\ Len(c) > 0 => c[Len(c)][2] = g

-----------------------------------------------------------------------------
LEMMA Sizes == GroupSize \in Nat \ {0} /\ BlockSize \in Nat \ {0} /\ GroupSize <= BlockSize
  BY BlockAssumption

LEMMA ConcatIs ==
    ASSUME NEW a \in Content, NEW b \in Content
    PROVE  a \o b \in Content /\ Len(a \o b) = Len(a) + Len(b) /\ Len(a) \in Nat /\ Len(b) \in Nat
  BY DEF Content

LEMMA ConcatEmpty == ASSUME NEW a \in Content PROVE a \o <<>> = a
  BY DEF Content

LEMMA ConcatAgain ==
    ASSUME NEW a \in Content, NEW b \in Content, NEW c \in Content
    PROVE  (a \o b) \o c = a \o (b \o c)
<1> DEFINE S == Nat \X Nat
<1>1. a \in Seq(S) /\ b \in Seq(S) /\ c \in Seq(S)
  BY DEF Content
<1> HIDE DEF S
<1> QED BY <1>1, ConcatAssociative

LEMMA BeginningIs ==
    ASSUME NEW a \in Content, NEW m \in 0..Len(a)
    PROVE  SubSeq(a, 1, m) \in Content /\ Len(SubSeq(a, 1, m)) = m /\ \A i \in 1..m : SubSeq(a, 1, m)[i] = a[i]
  BY DEF Content

\* A piece cut short is a piece.
LEMMA CutIs ==
    ASSUME NEW c, NEW n, PieceOf(c, n), NEW m \in 0..Len(c)
    PROVE  PieceOf(SubSeq(c, 1, m), n)
<1> DEFINE d == SubSeq(c, 1, m)
<1>1. c \in Content /\ Len(c) \in Nat /\ m <= Len(c) /\ m \in Nat
  BY DEF PieceOf, Content
<1>2. d \in Content /\ Len(d) = m /\ \A i \in 1..m : d[i] = c[i]
  BY <1>1 DEF Content
<1> HIDE DEF d
<1>3. ASSUME NEW i \in 1..m
      PROVE  d[i][1] = n /\ (i <= BlockSize => d[i][2] = i) /\ (i > 1 => d[i][2] <= d[i - 1][2] + 1)
  <2>1. i \in 1..Len(c)
    BY <1>1
  <2>2. c[i][1] = n /\ (i <= BlockSize => c[i][2] = i) /\ (i > 1 => c[i][2] <= c[i - 1][2] + 1)
    BY <2>1 DEF PieceOf
  <2>3. d[i] = c[i] /\ (i > 1 => d[i - 1] = c[i - 1])
    BY <1>2
  <2> QED BY <2>2, <2>3
<1>4. PieceOf(d, n)
  BY <1>2, <1>3 DEF PieceOf
<1> QED BY <1>4 DEF d

\* What has been written is the beginning of it and what is in the buffer.
LEMMA WrittenIs ==
    ASSUME NEW a \in Content, NEW b \in Content, NEW n, PieceOf(a \o b, n)
    PROVE  PieceOf(a, n)
<1>1. Len(a) \in Nat /\ Len(b) \in Nat /\ Len(a \o b) = Len(a) + Len(b) /\ Len(a) \in 0..Len(a \o b)
  BY DEF Content
<1>2. SubSeq(a \o b, 1, Len(a)) = a
  <2>1. a \o b \in Content
    BY DEF Content
  <2>2. Len(SubSeq(a \o b, 1, Len(a))) = Len(a)
    BY <1>1, <2>1 DEF Content
  <2>3. \A i \in 1..Len(a) : SubSeq(a \o b, 1, Len(a))[i] = a[i]
    BY <1>1, <2>1 DEF Content
  <2>4. SubSeq(a \o b, 1, Len(a)) \in Content
    BY <1>1, <2>1 DEF Content
  <2> QED BY <2>2, <2>3, <2>4, SeqEqual DEF Content
<1> QED BY <1>1, <1>2, CutIs

\* ... and so it is with the buffer but its last byte.
LEMMA AllButLast ==
    ASSUME NEW a \in Content, NEW b \in Content, b # <<>>, NEW n, PieceOf(a \o b, n)
    PROVE  a \o Front(b) \in Content /\ Front(b) \in Content /\ PieceOf(a \o Front(b), n)
<1> DEFINE f == Front(b)  m == Len(a) + Len(b) - 1
<1>1. Len(a) \in Nat /\ Len(b) \in Nat \ {0} /\ Len(a \o b) = Len(a) + Len(b) /\ m \in 0..Len(a \o b)
      /\ a \o b \in Content
  BY DEF Content
<1>2. f \in Content /\ Len(f) = Len(b) - 1 /\ \A i \in 1..Len(b) - 1 : f[i] = b[i]
  <2> DEFINE k == Len(b) - 1
  <2>1. k \in 0..Len(b) /\ k \in Nat /\ f = SubSeq(b, 1, k)
    BY <1>1 DEF Front
  <2> HIDE DEF k, f
  <2>2. f \in Content /\ Len(f) = k /\ \A i \in 1..k : f[i] = b[i]
    BY <2>1 DEF Content
  <2> QED BY <2>2 DEF k
<1> HIDE DEF f
<1>3. a \o f \in Content /\ Len(a \o f) = m
  <2>0. f \in Content
    BY <1>2
  <2>1. a \o f \in Content /\ Len(a \o f) = Len(a) + Len(f)
    BY <2>0 DEF Content
  <2> QED BY <1>1, <1>2, <2>1
<1>4. SubSeq(a \o b, 1, m) \in Content /\ Len(SubSeq(a \o b, 1, m)) = m
  BY <1>1 DEF Content
<1>5. ASSUME NEW i \in 1..m PROVE SubSeq(a \o b, 1, m)[i] = (a \o f)[i]
  <2>1. SubSeq(a \o b, 1, m)[i] = (a \o b)[i]
    BY <1>1 DEF Content
  <2>0. i \in 1..Len(a) \/ i > Len(a)
    BY <1>1
  <2>2. CASE i \in 1..Len(a)
    <3>1. (a \o b)[i] = a[i]
      BY <1>1, <2>2 DEF Content
    <3>2. (a \o f)[i] = a[i]
      BY <1>1, <1>2, <2>2 DEF Content
    <3> QED BY <2>1, <3>1, <3>2
  <2>3. CASE i > Len(a)
    <3>1. (a \o b)[i] = b[i - Len(a)] /\ (a \o f)[i] = f[i - Len(a)] /\ i - Len(a) \in 1..Len(b) - 1
      <4> DEFINE j == i - Len(a)
      <4>1. j \in 1..Len(b) - 1 /\ i = Len(a) + j /\ j \in 1..Len(b) /\ j \in 1..Len(f)
        BY <1>1, <1>2, <2>3
      <4> HIDE DEF j
      <4>2. (a \o b)[Len(a) + j] = b[j]
        BY <1>1, <4>1 DEF Content
      <4>3. (a \o f)[Len(a) + j] = f[j]
        BY <1>1, <1>2, <4>1 DEF Content
      <4> QED BY <4>1, <4>2, <4>3 DEF j
    <3> QED BY <1>2, <2>1, <3>1
  <2> QED BY <2>0, <2>2, <2>3
<1>6. SubSeq(a \o b, 1, m) = a \o f
  BY <1>3, <1>4, <1>5, SeqEqual DEF Content
<1>7. PieceOf(a \o f, n)
  BY <1>1, <1>6, CutIs
<1> QED BY <1>2, <1>3, <1>7 DEF f

\* The next bytes, or some of the last ones again if there is a block already.
LEMMA AppendedIs ==
    ASSUME NEW c, NEW n \in Nat, NEW g \in Nat, Holds(c, n, g), NEW h \in 0..g, NEW m \in Nat,
           g <= h + m, h = g \/ Len(c) >= BlockSize, NEW part,
           part = [i \in 1..m |-> <<n, h + i>>]
    PROVE  part \in Content /\ Len(part) = m /\ Holds(c \o part, n, h + m)
<1> DEFINE d == c \o part
<1>1. /\ c \in Content /\ Len(c) \in Nat /\ BlockSize \in Nat \ {0} /\ h \in Nat /\ h <= g
      /\ \A i \in 1..Len(c) : c[i] \in Nat \X Nat
  <2>1. c \in Content
    BY DEF Holds, PieceOf
  <2>2. BlockSize \in Nat \ {0} /\ h \in Nat /\ h <= g
    BY Sizes
  <2> QED BY <2>1, <2>2 DEF Content
<1>2. part \in Content /\ Len(part) = m /\ \A i \in 1..m : part[i] = <<n, h + i>>
  BY <1>1 DEF Content
<1>3. /\ d \in Content /\ Len(d) = Len(c) + m
      /\ \A i \in 1..Len(c) : d[i] = c[i]
      /\ \A i \in 1..m : d[Len(c) + i] = <<n, h + i>>
  <2>1. d \in Content /\ Len(d) = Len(c) + m
    BY <1>1, <1>2 DEF Content
  <2>2. ASSUME NEW i \in 1..Len(c) PROVE d[i] = c[i]
    BY <1>1, <1>2 DEF Content
  <2>3. ASSUME NEW i \in 1..m PROVE d[Len(c) + i] = part[i]
    BY <1>1, <1>2 DEF Content
  <2> QED BY <1>2, <2>1, <2>2, <2>3
<1> HIDE DEF d
<1> DEFINE L == Len(c)
<1>a. \A k \in 1..g : \E i \in 1..Len(c) : c[i][2] = k
  BY DEF Holds
<1>4. L \in Nat /\ (L = g \/ L >= BlockSize) /\ (L > 0 => c[L][2] = g) /\ (L = 0 => g = 0)
  <2>1. ASSUME L = 0, g # 0 PROVE FALSE
    <3>1. PICK i \in 1..Len(c) : c[i][2] = g
      <4>1. g \in 1..g
        BY <2>1
      <4> QED BY <1>a, <4>1
    <3> QED BY <2>1, <3>1
  <2> QED BY <1>1, <2>1 DEF Holds
<1>5. ASSUME NEW i \in 1..Len(d)
      PROVE  d[i][1] = n /\ (i <= BlockSize => d[i][2] = i) /\ (i > 1 => d[i][2] <= d[i - 1][2] + 1)
             /\ d[i][2] \in 1..h + m
  <2>0. i \in 1..L + m /\ L \in Nat
    BY <1>3, <1>4
  <2>1. CASE i \in 1..L
    <3>1. c[i][1] = n /\ (i <= BlockSize => c[i][2] = i) /\ (i > 1 => c[i][2] <= c[i - 1][2] + 1)
          /\ c[i][2] \in 1..g
      BY <2>1 DEF Holds, PieceOf
    <3>2. d[i] = c[i]
      BY <1>3, <2>1
    <3>3. ASSUME i > 1 PROVE d[i - 1] = c[i - 1]
      <4>1. i - 1 \in 1..Len(c)
        BY <2>0, <2>1, <3>3
      <4> QED BY <1>3, <4>1
    <3> QED BY <1>1, <3>1, <3>2, <3>3
  <2>2. CASE i \notin 1..L
    <3> DEFINE j == i - L
    <3>1. j \in 1..m /\ i = L + j
      BY <2>0, <2>2
    <3>2. d[i] = <<n, h + j>>
      BY <1>3, <3>1
    <3>3. d[i][1] = n /\ d[i][2] = h + j
      BY <3>2
    <3>4. ASSUME i <= BlockSize PROVE h + j = i
      <4>1. L \in Nat /\ j \in 1..m /\ i = L + j /\ BlockSize \in Nat
        BY <1>1, <1>4, <3>1
      <4>2. L < BlockSize
        BY <3>4, <4>1
      <4>3. L = g /\ h = g
        BY <1>1, <1>4, <4>2
      <4> QED BY <4>1, <4>3
    <3>5. ASSUME i > 1 PROVE h + j <= d[i - 1][2] + 1
      <4>1. CASE j = 1
        <5>1. i - 1 = L /\ L \in 1..Len(c)
          BY <1>4, <3>1, <3>5, <4>1
        <5>2. d[L] = c[L] /\ c[L][2] = g
          BY <1>3, <1>4, <5>1
        <5>3. d[i - 1][2] = g
          BY <5>1, <5>2
        <5> QED BY <1>1, <4>1, <5>3
      <4>2. CASE j # 1
        <5>1. j - 1 \in 1..m /\ i - 1 = L + (j - 1)
          BY <1>4, <3>1, <4>2
        <5>2. d[i - 1] = <<n, h + (j - 1)>>
          <6> DEFINE jj == j - 1
          <6>1. jj \in 1..m /\ i - 1 = L + jj
            BY <5>1
          <6> HIDE DEF j, jj
          <6>2. d[L + jj] = <<n, h + jj>>
            BY <1>3, <6>1
          <6> QED BY <6>1, <6>2 DEF jj
        <5> QED BY <1>1, <3>1, <5>2
      <4> QED BY <4>1, <4>2
    <3>6. h + j \in 1..h + m
      BY <1>1, <3>1
    <3> QED BY <3>3, <3>4, <3>5, <3>6
  <2> QED BY <2>1, <2>2
<1>6. ASSUME NEW k \in 1..h + m PROVE \E i \in 1..Len(d) : d[i][2] = k
  <2>1. CASE k <= h
    <3>1. PICK i \in 1..Len(c) : c[i][2] = k
      <4>1. k \in 1..g
        BY <1>1, <2>1
      <4> QED BY <1>a, <4>1
    <3>2. i \in 1..Len(d) /\ d[i] = c[i]
      BY <1>1, <1>3
    <3> QED BY <3>1, <3>2
  <2>2. CASE k > h
    <3>1. k - h \in 1..m /\ L + (k - h) \in 1..Len(d)
      BY <1>1, <1>3, <1>4, <2>2
    <3>2. d[L + (k - h)] = <<n, h + (k - h)>>
      BY <1>3, <3>1
    <3>3. d[L + (k - h)][2] = k
      BY <1>1, <3>2
    <3> QED BY <3>1, <3>3
  <2> QED BY <1>1, <2>1, <2>2
<1>7. Len(d) = h + m \/ Len(d) >= BlockSize
  <2>1. Len(d) = L + m /\ L \in Nat /\ BlockSize \in Nat
    BY <1>1, <1>3, <1>4
  <2>2. h = g \/ L >= BlockSize
    OBVIOUS
  <2>3. L = g \/ L >= BlockSize
    BY <1>4
  <2> HIDE DEF L
  <2> QED BY <2>1, <2>2, <2>3
<1>8. ASSUME Len(d) > 0 PROVE d[Len(d)][2] = h + m
  <2>1. CASE m = 0
    <3>1. Len(d) = L /\ L \in 1..Len(c) /\ g = h
      BY <1>1, <1>3, <1>4, <1>8, <2>1
    <3> QED BY <1>3, <1>4, <2>1, <3>1
  <2>2. CASE m # 0
    <3>1. m \in 1..m /\ Len(d) = L + m
      BY <1>3, <2>2
    <3>2. d[Len(d)] = <<n, h + m>>
      BY <1>3, <3>1
    <3> QED BY <3>2
  <2> QED BY <2>1, <2>2
<1>9. PieceOf(d, n)
  BY <1>3, <1>5 DEF PieceOf
<1>10. Holds(d, n, h + m)
  BY <1>5, <1>6, <1>7, <1>8, <1>9 DEF Holds
<1> QED BY <1>2, <1>10 DEF d

-----------------------------------------------------------------------------
(* The buffer *)

Work == {w \in [written : Content, buffer : Content, good : Nat, ok : BOOLEAN] : Len(w.buffer) <= BlockSize}

\* While its writes succeed a file and its buffer hold the first g bytes; when
\* one has failed the file still is a piece.
Sound(w, n, g) ==
    /\ w \in Work
    /\ w.ok => Holds(w.written \o w.buffer, n, g) /\ Len(w.buffer) < BlockSize
    /\ ~w.ok => PieceOf(w.written, n)

LEMMA WorkIs ==
    ASSUME NEW a \in Content, NEW b \in Content, NEW k \in Nat, NEW o \in BOOLEAN, Len(b) <= BlockSize
    PROVE  [written |-> a, buffer |-> b, good |-> k, ok |-> o] \in Work
  BY DEF Work

LEMMA WorkParts ==
    ASSUME NEW w \in Work
    PROVE  /\ w.written \in Content /\ w.buffer \in Content /\ w.good \in Nat /\ w.ok \in BOOLEAN
           /\ Len(w.buffer) <= BlockSize /\ Len(w.buffer) \in Nat
           /\ w = [written |-> w.written, buffer |-> w.buffer, good |-> w.good, ok |-> w.ok]
  BY DEF Work, Content

LEMMA BufferIs ==
    ASSUME NEW w \in Work, NEW b \in Content, Len(b) <= BlockSize
    PROVE  LET v == [w EXCEPT !.buffer = b]
           IN  v \in Work /\ v.written = w.written /\ v.buffer = b /\ v.ok = w.ok /\ v.good = w.good
<1> DEFINE v == [w EXCEPT !.buffer = b]
<1>1. v = [written |-> w.written, buffer |-> b, good |-> w.good, ok |-> w.ok]
  BY DEF Work
<1>2. /\ v.written = w.written /\ v.buffer = b /\ v.ok = w.ok /\ v.good = w.good
  BY <1>1, Zenon
<1>3. v \in Work
  <2>1. w.ok \in BOOLEAN /\ w.written \in Content /\ w.good \in Nat
    BY WorkParts
  <2> QED BY <1>1, <2>1, WorkIs
<1> QED BY <1>2, <1>3

LEMMA FlushedType ==
    ASSUME NEW w \in Work
    PROVE  /\ Flushed(w) \in Work
           /\ ~w.ok => Flushed(w) = w
<1> DEFINE v == Flushed(w)
<1>1. /\ w.written \in Content /\ w.buffer \in Content /\ w.good \in Nat /\ w.ok \in BOOLEAN
      /\ Len(w.buffer) <= BlockSize /\ BlockSize \in Nat
  BY WorkParts, Sizes
<1>2. CASE w.buffer = <<>> \/ ~w.ok
  BY <1>2 DEF Flushed
<1>3. CASE w.buffer # <<>> /\ w.ok /\ w.good = 0
  <2>1. v = [w EXCEPT !.ok = FALSE, !.written = @ \o Front(w.buffer)]
    BY <1>3 DEF Flushed
  <2>2. Front(w.buffer) \in Content
    <3> DEFINE b == w.buffer  k == Len(b) - 1
    <3> HIDE DEF b
    <3>1. b \in Content /\ b # <<>> /\ Front(b) = SubSeq(b, 1, k)
      BY <1>1, <1>3 DEF b, Front
    <3>2. k \in 0..Len(b)
      BY <3>1 DEF Content
    <3> HIDE DEF k
    <3>3. SubSeq(b, 1, k) \in Content
      BY <3>1, <3>2 DEF Content
    <3> QED BY <3>1, <3>3 DEF b
  <2> DEFINE a == w.written \o Front(w.buffer)
  <2>3. a \in Content
    BY <1>1, <2>2 DEF Content
  <2>4. v = [written |-> a, buffer |-> w.buffer, good |-> w.good, ok |-> FALSE]
    BY <2>1 DEF Work
  <2> HIDE DEF a, v
  <2>5. v \in Work
    BY <1>1, <2>3, <2>4 DEF Work
  <2> QED BY <1>3, <2>5 DEF v
<1>4. CASE w.buffer # <<>> /\ w.ok /\ w.good # 0
  <2>1. v = [w EXCEPT !.written = @ \o w.buffer, !.buffer = <<>>, !.good = @ - 1]
    BY <1>4 DEF Flushed
  <2> DEFINE a == w.written \o w.buffer
  <2>2. a \in Content /\ <<>> \in Content /\ Len(<<>>) = 0 /\ w.good - 1 \in Nat
    BY <1>1, <1>4 DEF Content
  <2>3. v = [written |-> a, buffer |-> <<>>, good |-> w.good - 1, ok |-> w.ok]
    BY <2>1 DEF Work
  <2> HIDE DEF a, v
  <2>4. v \in Work
    BY <1>1, <2>2, <2>3 DEF Work
  <2> QED BY <1>4, <2>4 DEF v
<1> QED BY <1>2, <1>3, <1>4

\* A flush that succeeds writes the buffer, one that fails but its last byte.
LEMMA FlushedIs ==
    ASSUME NEW w \in Work, w.ok, NEW n, PieceOf(w.written \o w.buffer, n)
    PROVE  /\ PieceOf(Flushed(w).written, n)
           /\ Flushed(w).ok => /\ Flushed(w).written = w.written \o w.buffer
                               /\ Flushed(w).buffer = <<>>
<1> DEFINE v == Flushed(w)
<1>1. w.written \in Content /\ w.buffer \in Content
  BY WorkParts
<1>2. CASE w.buffer = <<>>
  <2>1. v = w /\ w.written \o w.buffer = w.written
    BY <1>1, <1>2 DEF Flushed, Content
  <2> QED BY <1>1, <1>2, <2>1, WrittenIs
<1>3. CASE w.buffer # <<>> /\ w.good = 0
  <2>1. v = [w EXCEPT !.ok = FALSE, !.written = @ \o Front(w.buffer)]
    BY <1>3 DEF Flushed
  <2>2. v.ok = FALSE /\ v.written = w.written \o Front(w.buffer)
    BY <2>1 DEF Work
  <2> QED BY <1>1, <1>3, <2>2, AllButLast
<1>4. CASE w.buffer # <<>> /\ w.good # 0
  <2>1. v = [w EXCEPT !.written = @ \o w.buffer, !.buffer = <<>>, !.good = @ - 1]
    BY <1>4 DEF Flushed
  <2>2. v.written = w.written \o w.buffer /\ v.buffer = <<>>
    BY <2>1 DEF Work
  <2> QED BY <2>2
<1> QED BY <1>2, <1>3, <1>4

LEMMA IfFullType == ASSUME NEW w \in Work PROVE IfFull(w) \in Work
  BY FlushedType DEF IfFull

LEMMA IfFullIs ==
    ASSUME NEW w \in Work, w.ok, NEW n, NEW g, Holds(w.written \o w.buffer, n, g)
    PROVE  /\ Sound(IfFull(w), n, g)
           /\ IfFull(w).ok /\ Len(w.buffer) = BlockSize =>
                 IfFull(w).buffer = <<>> /\ Len(IfFull(w).written) >= BlockSize
<1> DEFINE v == Flushed(w)
<1>1. /\ w.written \in Content /\ w.buffer \in Content /\ Len(w.buffer) <= BlockSize /\ Len(w.buffer) \in Nat
      /\ BlockSize \in Nat \ {0} /\ PieceOf(w.written \o w.buffer, n) /\ Len(w.written) \in Nat
  BY WorkParts, Sizes DEF Holds, Content
<1>2. CASE Len(w.buffer) = BlockSize
  <2>1. IfFull(w) = v
    BY <1>2 DEF IfFull
  <2>2. v \in Work /\ PieceOf(v.written, n)
        /\ (v.ok => v.written = w.written \o w.buffer /\ v.buffer = <<>>)
    BY <1>1, FlushedType, FlushedIs
  <2> HIDE DEF v
  <2>3. ASSUME v.ok PROVE /\ v.written \o v.buffer = w.written \o w.buffer
                          /\ Len(v.written) >= BlockSize /\ Len(v.buffer) < BlockSize
    <3>1. v.written \in Content /\ v.written \o <<>> = v.written
      BY <2>2, WorkParts DEF Content
    <3>2. Len(w.written \o w.buffer) = Len(w.written) + Len(w.buffer)
      BY <1>1, ConcatIs
    <3>3. Len(<<>>) = 0
      OBVIOUS
    <3>4. v.written = w.written \o w.buffer /\ v.buffer = <<>>
      BY <2>2, <2>3
    <3>5. v.written \o v.buffer = w.written \o w.buffer
      BY <3>1, <3>4
    <3>6. Len(v.written) >= BlockSize
      <4>1. Len(v.written) = Len(w.written) + BlockSize
        BY <1>2, <3>2, <3>4
      <4> QED BY <1>1, <4>1
    <3>7. Len(v.buffer) < BlockSize
      BY <1>1, <3>3, <3>4
    <3> QED BY <3>5, <3>6, <3>7
  <2> QED BY <2>1, <2>2, <2>3 DEF Sound
<1>3. CASE Len(w.buffer) # BlockSize
  <2>1. IfFull(w) = w /\ Len(w.buffer) < BlockSize
    BY <1>1, <1>3 DEF IfFull
  <2> QED BY <1>3, <2>1 DEF Sound
<1> QED BY <1>2, <1>3

LEMMA DecodedType ==
    ASSUME NEW w \in Work, NEW group \in Content, Len(group) = GroupSize
    PROVE  Decoded(w, group) \in Work
<1> DEFINE room == BlockSize - Len(w.buffer)
           part == SubSeq(group, 1, room)
           filled == [w EXCEPT !.buffer = @ \o part]
           whole == [w EXCEPT !.buffer = @ \o group]
           once == IfFull(filled)
<1>1. /\ w.buffer \in Content /\ Len(w.buffer) <= BlockSize /\ Len(w.buffer) \in Nat
      /\ BlockSize \in Nat /\ GroupSize \in Nat /\ GroupSize <= BlockSize
      /\ room \in Nat /\ room + Len(w.buffer) = BlockSize
  BY WorkParts, Sizes
<1>2. CASE ~w.ok
  BY <1>2 DEF Decoded
<1>3. CASE w.ok /\ room >= GroupSize
  <2>1. Decoded(w, group) = IfFull(whole)
    BY <1>3 DEF Decoded
  <2> DEFINE b == w.buffer \o group
  <2>2. b \in Content /\ Len(b) = Len(w.buffer) + GroupSize
    BY <1>1, ConcatIs
  <2>3. whole = [w EXCEPT !.buffer = b]
    OBVIOUS
  <2>4. Len(b) <= BlockSize
    BY <1>1, <1>3, <2>2
  <2> HIDE DEF b, whole
  <2>5. whole \in Work
    BY <2>2, <2>3, <2>4, BufferIs
  <2> QED BY <2>1, <2>5, IfFullType
<1>4. CASE w.ok /\ ~(room >= GroupSize)
  <2>1. Decoded(w, group) = IF once.ok THEN IfFull([once EXCEPT !.buffer = group]) ELSE once
    BY <1>4 DEF Decoded
  <2> DEFINE b == w.buffer \o part
  <2>2. room \in 0..Len(group)
    BY <1>1, <1>4
  <2>3. part \in Content /\ Len(part) = room
    <3> HIDE DEF room
    <3> QED BY <2>2 DEF Content
  <2>4. b \in Content /\ Len(b) = Len(w.buffer) + room
    <3> HIDE DEF part
    <3> QED BY <1>1, <2>3, ConcatIs
  <2>5. filled = [w EXCEPT !.buffer = b]
    OBVIOUS
  <2>6. Len(b) <= BlockSize
    <3> HIDE DEF b, room
    <3> QED BY <1>1, <2>4
  <2> HIDE DEF b, filled
  <2>7. once \in Work
    BY <2>4, <2>5, <2>6, BufferIs, IfFullType
  <2> HIDE DEF once
  <2>8. [once EXCEPT !.buffer = group] \in Work
    BY <1>1, <2>7, BufferIs
  <2> QED BY <2>1, <2>7, <2>8, IfFullType
<1> QED BY <1>2, <1>3, <1>4

\* A group is neither lost nor mixed up where it meets the end of the buffer.
LEMMA DecodedIs ==
    ASSUME NEW w, NEW n \in Nat, NEW g \in Nat, Sound(w, n, g), NEW group,
           group = [i \in 1..GroupSize |-> <<n, g + i>>]
    PROVE  Sound(Decoded(w, group), n, g + GroupSize)
<1> DEFINE room == BlockSize - Len(w.buffer)
           part == SubSeq(group, 1, room)
           filled == [w EXCEPT !.buffer = @ \o part]
           whole == [w EXCEPT !.buffer = @ \o group]
           once == IfFull(filled)
<1>1. w \in Work
  BY DEF Sound
<1>2. /\ w.buffer \in Content /\ w.written \in Content /\ Len(w.buffer) \in Nat /\ Len(w.buffer) <= BlockSize
      /\ BlockSize \in Nat /\ GroupSize \in Nat /\ GroupSize <= BlockSize
      /\ room \in Nat /\ room + Len(w.buffer) = BlockSize
  BY <1>1, WorkParts, Sizes
<1>3. group \in Content /\ Len(group) = GroupSize
  BY <1>2 DEF Content
<1>4. CASE ~w.ok
  BY <1>1, <1>4 DEF Decoded, Sound
<1>5. CASE w.ok /\ room >= GroupSize
  <2>1. Decoded(w, group) = IfFull(whole)
    BY <1>5 DEF Decoded
  <2> DEFINE b == w.buffer \o group
  <2>2. b \in Content /\ Len(b) = Len(w.buffer) + GroupSize
    BY <1>2, <1>3, ConcatIs
  <2>3. whole = [w EXCEPT !.buffer = b]
    OBVIOUS
  <2>4. Len(b) <= BlockSize
    BY <1>2, <1>5, <2>2
  <2>5. Holds(w.written \o w.buffer, n, g)
    BY <1>5 DEF Sound
  <2>6. Holds((w.written \o w.buffer) \o group, n, g + GroupSize)
    <3> DEFINE c == w.written \o w.buffer
    <3>1. g \in 0..g /\ g <= g + GroupSize /\ g = g
      BY <1>2
    <3>2. Holds(c, n, g)
      BY <2>5
    <3> HIDE DEF c
    <3>3. Holds(c \o group, n, g + GroupSize)
      <4> DEFINE m == GroupSize
      <4>1. m \in Nat /\ group = [i \in 1..m |-> <<n, g + i>>] /\ g <= g + m
        BY <1>2, <3>1
      <4> HIDE DEF m
      <4>2. Holds(c \o group, n, g + m)
        BY <3>1, <3>2, <4>1, AppendedIs
      <4> QED BY <4>2 DEF m
    <3> QED BY <3>3 DEF c
  <2>7. (w.written \o w.buffer) \o group = w.written \o b
    BY <1>2, <1>3, ConcatAgain
  <2> HIDE DEF b, whole
  <2>8. whole \in Work /\ whole.written = w.written /\ whole.buffer = b /\ whole.ok = w.ok
    BY <1>1, <2>2, <2>3, <2>4, BufferIs
  <2>9. Holds(whole.written \o whole.buffer, n, g + GroupSize) /\ whole.ok
    BY <1>5, <2>6, <2>7, <2>8
  <2> QED BY <2>1, <2>8, <2>9, IfFullIs
<1>6. CASE w.ok /\ ~(room >= GroupSize)
  <2>1. Decoded(w, group) = IF once.ok THEN IfFull([once EXCEPT !.buffer = group]) ELSE once
    BY <1>6 DEF Decoded
  <2> DEFINE b == w.buffer \o part  c == w.written \o w.buffer
  <2>2. room \in 0..Len(group) /\ room <= GroupSize
    BY <1>2, <1>3, <1>6
  <2>3. /\ part \in Content /\ Len(part) = room
        /\ part = [i \in 1..room |-> <<n, g + i>>]
    <3> HIDE DEF room
    <3>1. /\ part \in Content /\ Len(part) = room
          /\ \A i \in 1..room : part[i] = group[i]
      BY <1>3, <2>2, BeginningIs
    <3>2. \A i \in 1..room : part[i] = <<n, g + i>>
      BY <1>2, <1>3, <2>2, <3>1
    <3>3. part = [i \in 1..Len(part) |-> part[i]]
      BY <3>1 DEF Content
    <3> HIDE DEF part
    <3>4. part = [i \in 1..room |-> part[i]]
      BY <3>1, <3>3
    <3>5. part = [i \in 1..room |-> <<n, g + i>>]
      BY <3>2, <3>4
    <3> QED BY <3>1, <3>5
  <2>4. b \in Content /\ Len(b) = Len(w.buffer) + room
    <3> HIDE DEF part
    <3> QED BY <1>2, <2>3, ConcatIs
  <2>5. filled = [w EXCEPT !.buffer = b]
    OBVIOUS
  <2>6. Len(b) = BlockSize
    <3> HIDE DEF b, room
    <3> QED BY <1>2, <2>4
  <2>7. Holds(c \o part, n, g + room)
    <3>1. g \in 0..g /\ g <= g + room /\ g = g /\ room \in Nat
      BY <1>2
    <3>2. Holds(c, n, g)
      BY <1>6 DEF Sound
    <3> HIDE DEF c, part, room
    <3> QED BY <2>3, <3>1, <3>2, AppendedIs
  <2>8. c \o part = w.written \o b
    <3> HIDE DEF part
    <3> QED BY <1>2, <2>3, ConcatAgain
  <2> HIDE DEF b, filled, part
  <2>9. filled \in Work /\ filled.written = w.written /\ filled.buffer = b /\ filled.ok = w.ok
    BY <1>1, <1>2, <2>4, <2>5, <2>6, BufferIs
  <2>10. Holds(filled.written \o filled.buffer, n, g + room) /\ filled.ok
    BY <1>6, <2>7, <2>8, <2>9
  <2>11. /\ Sound(once, n, g + room)
         /\ once.ok => once.buffer = <<>> /\ Len(once.written) >= BlockSize
    <3> HIDE DEF room
    <3> QED BY <2>6, <2>9, <2>10, IfFullIs
  <2> HIDE DEF once
  <2>12. once \in Work /\ once.written \in Content
    BY <2>11, WorkParts DEF Sound
  <2>13. CASE ~once.ok
    <3>1. PieceOf(once.written, n)
      BY <2>11, <2>13 DEF Sound
    <3> QED BY <2>1, <2>12, <2>13, <3>1 DEF Sound
  <2>14. CASE once.ok
    <3> DEFINE again == [once EXCEPT !.buffer = group]
    <3>1. again \in Work /\ again.written = once.written /\ again.buffer = group /\ again.ok = once.ok
      BY <1>2, <1>3, <2>12, BufferIs
    <3>2. Holds(once.written, n, g + room)
      <4>1. once.written \o once.buffer = once.written
        BY <2>11, <2>12, <2>14, ConcatEmpty
      <4> QED BY <2>11, <2>14, <4>1 DEF Sound
    <3>3. Holds(once.written \o group, n, g + GroupSize)
      <4>1. g \in 0..g + room /\ g + room <= g + GroupSize /\ Len(once.written) >= BlockSize
            /\ g + room \in Nat
        <5>1. room \in Nat /\ GroupSize \in Nat /\ room <= GroupSize
          BY <1>2, <2>2
        <5> HIDE DEF room
        <5> QED BY <2>11, <2>14, <5>1
      <4> HIDE DEF room
      <4> DEFINE q == g + room
      <4> HIDE DEF q
      <4>2. q \in Nat /\ g \in 0..q /\ q <= g + GroupSize /\ Holds(once.written, n, q)
        BY <3>2, <4>1 DEF q
      <4> DEFINE m == GroupSize
      <4>3. m \in Nat /\ group = [i \in 1..m |-> <<n, g + i>>] /\ q <= g + m
        BY <1>2, <4>2
      <4> HIDE DEF m
      <4>4. Holds(once.written \o group, n, g + m)
        BY <4>1, <4>2, <4>3, AppendedIs
      <4> QED BY <4>4 DEF m
    <3> HIDE DEF again
    <3>4. Sound(IfFull(again), n, g + GroupSize)
      BY <2>14, <3>1, <3>3, IfFullIs
    <3> QED BY <2>1, <2>14, <3>4 DEF again
  <2> QED BY <2>13, <2>14
<1> QED BY <1>4, <1>5, <1>6

LEMMA GroupIs ==
    ASSUME host.transfers \in Nat, host.groups \in Nat, NEW i \in Nat \ {0}
    PROVE  LET group == Group(host.groups + i)
               g == host.groups * GroupSize + (i - 1) * GroupSize
           IN  /\ group \in Content /\ Len(group) = GroupSize /\ g \in Nat
               /\ group = [j \in 1..GroupSize |-> <<host.transfers, g + j>>]
<1> DEFINE h == host.groups  S == GroupSize  g == h * S + (i - 1) * S
<1>1. h \in Nat /\ S \in Nat
  BY Sizes
<1>2. ((h + i) - 1) * S = g /\ g \in Nat
  <2> HIDE DEF h, S
  <2>1. i - 1 \in Nat /\ (h + i) - 1 = h + (i - 1)
    BY <1>1
  <2> DEFINE k == i - 1
  <2> HIDE DEF k
  <2>2. k \in Nat /\ (h + k) * S = h * S + k * S /\ h * S \in Nat /\ k * S \in Nat
    BY <1>1, <2>1 DEF k
  <2> QED BY <1>1, <2>1, <2>2 DEF k
<1>3. Group(h + i) = [j \in 1..S |-> <<host.transfers, g + j>>]
  BY <1>2 DEF Group, Byte
<1> HIDE DEF g, S
<1>4. Group(h + i) \in Content /\ Len(Group(h + i)) = S
  <2>1. \A j \in 1..S : <<host.transfers, g + j>> \in Nat \X Nat
    BY <1>2
  <2>2. S \in Nat
    BY <1>1
  <2> QED BY <1>3, <2>1, <2>2 DEF Content
<1> QED BY <1>2, <1>3, <1>4 DEF g, S

\* A message is decoded group by group.
LEMMA FedRuns ==
    ASSUME host.transfers \in Nat, host.groups \in Nat, NEW w \in Work, NEW N \in Nat
    PROVE  \E f \in [0..N -> Work] :
              /\ f[0] = w /\ Fed(w, N) = f[N]
              /\ \A i \in 1..N : f[i] = Decoded(f[i - 1], Group(host.groups + i))
<1> DEFINE F == [x \in Work \X (1..N) |-> Decoded(x[1], Group(host.groups + x[2]))]
           G == CHOOSE g : g = [i \in 0..N |-> IF i = 0 THEN w ELSE Decoded(g[i - 1], Group(host.groups + i))]
<1>1. F \in [Work \X (1..N) -> Work]
  <2>1. ASSUME NEW x \in Work \X (1..N) PROVE Decoded(x[1], Group(host.groups + x[2])) \in Work
    <3>1. x[1] \in Work /\ x[2] \in Nat \ {0}
      OBVIOUS
    <3>2. Group(host.groups + x[2]) \in Content /\ Len(Group(host.groups + x[2])) = GroupSize
      BY <3>1, GroupIs
    <3> QED BY <3>1, <3>2, DecodedType
  <2> QED BY <2>1
<1>2. PICK f : IsRun(f, N, Work, w, F)
  <2> HIDE DEF F
  <2> QED BY <1>1, RunExists
<1>3. f \in [0..N -> Work] /\ f[0] = w
  BY <1>2 DEF IsRun
<1>4. ASSUME NEW i \in 1..N PROVE f[i] = Decoded(f[i - 1], Group(host.groups + i))
  <2>1. f[i] = F[<<f[i - 1], i>>]
    BY <1>2 DEF IsRun
  <2>2. <<f[i - 1], i>> \in Work \X (1..N)
    BY <1>3
  <2> QED BY <2>1, <2>2
<1>5. f = [i \in 0..N |-> IF i = 0 THEN w ELSE Decoded(f[i - 1], Group(host.groups + i))]
  <2>1. ASSUME NEW i \in 0..N PROVE f[i] = IF i = 0 THEN w ELSE Decoded(f[i - 1], Group(host.groups + i))
    <3>1. CASE i = 0
      BY <1>3, <3>1
    <3>2. CASE i # 0
      <4>1. i \in 1..N
        BY <3>2
      <4> QED BY <1>4, <3>2, <4>1
    <3> QED BY <3>1, <3>2
  <2> HIDE DEF F, G
  <2> QED BY <1>3, <2>1, Zenon
<1>6. G = [i \in 0..N |-> IF i = 0 THEN w ELSE Decoded(G[i - 1], Group(host.groups + i))]
  BY <1>5
<1>7. Fed(w, N) = G[N]
  BY DEF Fed
<1> HIDE DEF G, F
<1> DEFINE T == {n \in Nat : n <= N => G[n] = f[n]}
<1>8. 0 \in T
  <2>1. 0 \in 0..N
    OBVIOUS
  <2>2. G[0] = w
    <3> DEFINE R(i) == IF i = 0 THEN w ELSE Decoded(G[i - 1], Group(host.groups + i))
    <3>1. R(0) = w /\ G = [i \in 0..N |-> R(i)]
      BY <1>6
    <3> HIDE DEF R
    <3>2. G[0] = R(0)
      BY <2>1, <3>1
    <3> QED BY <3>1, <3>2
  <2> QED BY <1>3, <2>2
<1>9. ASSUME NEW n \in Nat, n \in T PROVE n + 1 \in T
  <2> SUFFICES ASSUME n + 1 <= N PROVE G[n + 1] = f[n + 1]
    OBVIOUS
  <2>1. G[n] = f[n] /\ n + 1 \in 1..N /\ (n + 1) - 1 = n
    BY <1>9
  <2>2. G[n + 1] = Decoded(G[n], Group(host.groups + (n + 1)))
    <3> DEFINE R(i) == IF i = 0 THEN w ELSE Decoded(G[i - 1], Group(host.groups + i))
    <3>1. R(n + 1) = Decoded(G[n], Group(host.groups + (n + 1))) /\ G = [i \in 0..N |-> R(i)]
      BY <1>6, <2>1
    <3> HIDE DEF R
    <3>2. G[n + 1] = R(n + 1)
      BY <2>1, <3>1
    <3> QED BY <3>1, <3>2
  <2>3. f[n + 1] = Decoded(f[n], Group(host.groups + (n + 1)))
    BY <1>4, <2>1
  <2> QED BY <2>1, <2>2, <2>3
<1> HIDE DEF T
<1>10. N \in T
  BY <1>8, <1>9, Ind
<1>11. G[N] = f[N]
  BY <1>10 DEF T
<1> QED BY <1>3, <1>4, <1>7, <1>11

LEMMA FedType ==
    ASSUME host.transfers \in Nat, host.groups \in Nat, NEW w \in Work, NEW N \in Nat
    PROVE  Fed(w, N) \in Work
<1>1. PICK f \in [0..N -> Work] : Fed(w, N) = f[N]
  BY FedRuns
<1> QED BY <1>1

LEMMA FedIs ==
    ASSUME host.transfers \in Nat, host.groups \in Nat, NEW w, NEW N \in Nat,
           Sound(w, host.transfers, host.groups * GroupSize)
    PROVE  Sound(Fed(w, N), host.transfers, (host.groups + N) * GroupSize)
<1> DEFINE h == host.groups  S == GroupSize  n == host.transfers
<1>0. w \in Work /\ h \in Nat /\ S \in Nat /\ n \in Nat
  BY Sizes DEF Sound
<1>1. PICK f \in [0..N -> Work] :
              /\ f[0] = w /\ Fed(w, N) = f[N]
              /\ \A i \in 1..N : f[i] = Decoded(f[i - 1], Group(h + i))
  BY <1>0, FedRuns
<1> DEFINE T == {k \in Nat : k <= N => Sound(f[k], n, h * S + k * S)}
<1>2. 0 \in T
  <2>1. h * S + 0 * S = h * S
    BY <1>0
  <2> QED BY <1>1, <2>1
<1>3. ASSUME NEW k \in Nat, k \in T PROVE k + 1 \in T
  <2> SUFFICES ASSUME k + 1 <= N PROVE Sound(f[k + 1], n, h * S + (k + 1) * S)
    OBVIOUS
  <2> DEFINE g == h * S + k * S  group == Group(h + (k + 1))
  <2>1. k + 1 \in 1..N /\ (k + 1) - 1 = k /\ k + 1 \in Nat \ {0}
    OBVIOUS
  <2>2. Sound(f[k], n, g)
    BY <1>3
  <2>3. f[k + 1] = Decoded(f[k], group)
    BY <1>1, <2>1
  <2>4. g \in Nat /\ group = [j \in 1..S |-> <<n, g + j>>]
    BY <1>0, <2>1, GroupIs
  <2>5. h * S + (k + 1) * S = g + S
    <3> HIDE DEF h, S
    <3> QED BY <1>0
  <2> HIDE DEF g, group, h
  <2>6. Sound(Decoded(f[k], group), n, g + GroupSize)
    BY <1>0, <2>2, <2>4, DecodedIs
  <2> QED BY <2>3, <2>5, <2>6
<1> HIDE DEF T
<1>4. N \in T
  BY <1>2, <1>3, Ind
<1>5. Sound(f[N], n, h * S + N * S)
  BY <1>4 DEF T
<1>6. h * S + N * S = (h + N) * S
  <2> HIDE DEF h, S
  <2> QED BY <1>0
<1> QED BY <1>1, <1>5, <1>6

-----------------------------------------------------------------------------
(* The invariant *)

Kits == {Factory, Nothing} \cup {[i \in 1..KitSize |-> Byte(n, i)] : n \in 1..MaxTransfers}

Store == {Missing} \cup {c \in Content : \E n \in 1..MaxTransfers : PieceOf(c, n)}

FileTypes ==
    /\ files \in [Files -> Store]
    /\ directory \in [there : BOOLEAN, value : Values \cup {Missing}]
    /\ mounted \in BOOLEAN /\ factoryKit \in BOOLEAN /\ received \in BOOLEAN
    /\ protocol \in {"Idle", "FileTransfer"}
    /\ opened \in [name : Files \cup {Nothing}, valid : BOOLEAN, written : Content]
    /\ write_buffer \in Content /\ Len(write_buffer) <= BlockSize
    /\ config \in Kits /\ setting \in Values
    /\ host \in [transfers : 0..MaxTransfers, groups : Nat]
    /\ faults \in Nat
    /\ told \in [bytes : Content, value : Values \cup {Missing}, taken : BOOLEAN]

\* The first g bytes of transfer n.
Sent(n, g) == [k \in 1..g |-> Byte(n, k)]

\* What is open and what is in the buffer are one transfer, the one that is
\* acknowledged.
Receiving ==
    opened.valid =>
       /\ opened.name \in Files /\ host.transfers \in 1..MaxTransfers
       /\ Holds(opened.written \o write_buffer, host.transfers, host.groups * GroupSize)
       /\ Len(write_buffer) < BlockSize
       /\ told.bytes = Sent(host.transfers, host.groups * GroupSize)

Remembered ==
    told.value # Missing /\ told.taken => setting = told.value /\ directory.value = told.value /\ directory.there

FileInv == FileTypes /\ Receiving /\ Remembered /\ (protocol = "Idle" => opened = NoFile)

LEMMA StoredIs ==
    ASSUME NEW n \in 1..MaxTransfers, NEW c, PieceOf(c, n)
    PROVE  c \in Store
  BY DEF Store, PieceOf

LEMMA EmptyIs == <<>> \in Content /\ Len(<<>>) = 0 /\ \A n : PieceOf(<<>>, n) /\ Holds(<<>>, n, 0)
<1>1. <<>> \in Content /\ Len(<<>>) = 0
  BY DEF Content
<1>2. ASSUME NEW n PROVE PieceOf(<<>>, n) /\ Holds(<<>>, n, 0)
  <2>1. PieceOf(<<>>, n)
    BY <1>1 DEF PieceOf
  <2> QED BY <1>1, <2>1 DEF Holds
<1> QED BY <1>1, <1>2

LEMMA LoadedIs ==
    ASSUME NEW c \in Store, NEW kept \in BOOLEAN, NEW ram \in Kits
    PROVE  Loaded(c, kept, ram) \in Kits
<1>1. CASE c # Missing /\ Len(c) >= KitSize
  <2>1. PICK n \in 1..MaxTransfers : PieceOf(c, n)
    BY <1>1 DEF Store
  <2>2. c \in Content /\ Len(c) \in Nat /\ KitSize \in Nat /\ KitSize <= BlockSize /\ BlockSize \in Nat
    BY <2>1, KitAssumption, Sizes DEF PieceOf, Content
  <2> DEFINE K == KitSize  d == SubSeq(c, 1, K)
  <2>3. K \in 0..Len(c)
    BY <1>1, <2>2
  <2>4. d \in Content /\ Len(d) = K /\ \A i \in 1..K : d[i] = c[i]
    <3> HIDE DEF K
    <3> QED BY <2>2, <2>3, BeginningIs
  <2> HIDE DEF d
  <2>5. ASSUME NEW i \in 1..K PROVE d[i] = Byte(n, i)
    <3>1. i \in 1..Len(c) /\ i <= BlockSize
      BY <1>1, <2>2
    <3>2. c[i][1] = n /\ c[i][2] = i
      BY <2>1, <3>1 DEF PieceOf
    <3>3. c[i] \in Nat \X Nat
      BY <2>2, <3>1 DEF Content
    <3> QED BY <2>4, <3>2, <3>3 DEF Byte
  <2>6. d = [i \in 1..K |-> Byte(n, i)]
    <3>1. d = [i \in 1..Len(d) |-> d[i]]
      BY <2>4 DEF Content
    <3> HIDE DEF K
    <3>2. d = [i \in 1..K |-> d[i]]
      BY <2>4, <3>1
    <3> QED BY <2>5, <3>2
  <2>7. Loaded(c, kept, ram) = d
    BY <1>1 DEF Loaded, d
  <2> QED BY <2>6, <2>7 DEF Kits
<1>2. CASE ~(c # Missing /\ Len(c) >= KitSize)
  <2>1. Loaded(c, kept, ram) = Factory \/ Loaded(c, kept, ram) = ram
    BY <1>2 DEF Loaded
  <2> QED BY <2>1 DEF Kits
<1> QED BY <1>1, <1>2

\* The bytes of a file that is complete.
LEMMA HoldsAll ==
    ASSUME NEW n \in Nat, NEW g \in Nat, NEW c, Holds(c, n, g)
    PROVE  ToSet(c) = {Byte(n, k) : k \in 1..g}
<1>1. /\ c \in Content /\ \A i \in 1..Len(c) : c[i][1] = n /\ c[i][2] \in 1..g /\ c[i] \in Nat \X Nat
      /\ \A k \in 1..g : \E i \in 1..Len(c) : c[i][2] = k
  BY DEF Holds, PieceOf, Content
<1>2. ASSUME NEW i \in 1..Len(c) PROVE c[i] = Byte(n, c[i][2])
  BY <1>1 DEF Byte
<1>3. ToSet(c) = {c[i] : i \in 1..Len(c)}
  <2>1. DOMAIN c = 1..Len(c)
    BY <1>1 DEF Content
  <2> QED BY <2>1 DEF ToSet
<1>4. ASSUME NEW i \in 1..Len(c) PROVE c[i] \in {Byte(n, k) : k \in 1..g}
  BY <1>1, <1>2
<1>5. ASSUME NEW k \in 1..g PROVE Byte(n, k) \in {c[i] : i \in 1..Len(c)}
  <2>1. PICK i \in 1..Len(c) : c[i][2] = k
    BY <1>1
  <2> QED BY <1>2, <2>1
<1> QED BY <1>3, <1>4, <1>5

LEMMA HoldsAreWhole ==
    ASSUME NEW n \in Nat, NEW g \in Nat, NEW c, Holds(c, n, g)
    PROVE  WholeFile(Sent(n, g), c)
<1>1. /\ c \in Content /\ Len(c) \in Nat /\ BlockSize \in Nat
      /\ \A i \in 1..Len(c) : c[i] \in Nat \X Nat /\ c[i][1] = n /\ (i <= BlockSize => c[i][2] = i)
      /\ Len(c) = g \/ Len(c) >= BlockSize
      /\ Len(c) > 0 => c[Len(c)][2] = g
  BY Sizes DEF Holds, PieceOf, Content
<1> DEFINE s == Sent(n, g)
<1>2. s = [k \in 1..g |-> Byte(n, k)]
  BY DEF Sent
<1> HIDE DEF s
<1>3. DOMAIN s = 1..g /\ Len(s) = g
  BY <1>2
<1>4. ToSet(s) = ToSet(c)
  <2>1. ToSet(s) = {Byte(n, k) : k \in 1..g}
    BY <1>2, <1>3 DEF ToSet
  <2> QED BY <2>1, HoldsAll
<1>5. ASSUME NEW i \in 1..BlockSize, i \in 1..Len(c) PROVE c[i] = Byte(n, i)
  <2>1. c[i] = <<c[i][1], c[i][2]>>
    BY <1>1, <1>5
  <2>2. c[i][1] = n /\ c[i][2] = i
    BY <1>1, <1>5
  <2> QED BY <2>1, <2>2 DEF Byte
<1>6. ASSUME NEW i \in 1..BlockSize, i \in DOMAIN s PROVE c[i] = s[i]
  <2>1. i \in 1..g /\ i \in 1..Len(c)
    BY <1>1, <1>3, <1>6
  <2> QED BY <1>2, <1>5, <2>1
<1>7. ASSUME Len(s) < BlockSize PROVE c = s
  <2>1. Len(c) = g
    <3>1. SUFFICES ASSUME Len(c) >= BlockSize PROVE FALSE
      BY <1>1
    <3>2. BlockSize \in 1..BlockSize /\ BlockSize \in 1..Len(c)
      BY <1>1, <1>3, <1>7, <3>1
    <3>3. c[BlockSize][2] = BlockSize
      BY <1>1, <3>2
    <3>4. c[BlockSize][2] \in 1..g
      BY <3>2 DEF Holds
    <3> QED BY <1>1, <1>3, <1>7, <3>3, <3>4
  <2>2. \A i \in 1..g : c[i] = s[i]
    BY <1>1, <1>3, <1>6, <1>7, <2>1
  <2>3. c = [i \in 1..g |-> c[i]] /\ s = [i \in 1..g |-> s[i]]
    BY <1>1, <1>2, <2>1 DEF Content
  <2> QED BY <2>2, <2>3
<1> QED BY <1>4, <1>6, <1>7 DEF WholeFile, s

LEMMA SecondPart ==
    ASSUME NEW a \in Content, NEW b \in Content, NEW j \in 1..Len(b)
    PROVE  (a \o b)[Len(a) + j] = b[j]
<1>1. Len(a) \in Nat /\ Len(b) \in Nat
  BY DEF Content
<1> QED BY <1>1 DEF Content

LEMMA BytesIs ==
    ASSUME host.transfers \in Nat, host.groups \in Nat, NEW n \in Nat
    PROVE  Sent(host.transfers, host.groups * GroupSize) \o Bytes(n)
             = Sent(host.transfers, (host.groups + n) * GroupSize)
<1> DEFINE g == host.groups * GroupSize  m == n * GroupSize  t == host.transfers
           f == (host.groups + n) * GroupSize
<1>1. g \in Nat /\ m \in Nat /\ f = g + m /\ t \in Nat
  <2> DEFINE S == GroupSize  h == host.groups
  <2>1. S \in Nat /\ h \in Nat /\ n \in Nat
    BY Sizes
  <2> HIDE DEF S, h
  <2>2. h * S \in Nat /\ n * S \in Nat /\ (h + n) * S = h * S + n * S
    BY <2>1
  <2> QED BY <2>2 DEF S, h
<1> DEFINE a == Sent(t, g)  b == Bytes(n)  c == Sent(t, f)
<1>2. a = [i \in 1..g |-> <<t, i>>] /\ b = [i \in 1..m |-> <<t, g + i>>] /\ c = [i \in 1..f |-> <<t, i>>]
  BY DEF Sent, Bytes, Byte
<1> HIDE DEF a, b, c, g, m, f, t
<1>3. a \in Content /\ b \in Content /\ c \in Content /\ Len(a) = g /\ Len(b) = m /\ Len(c) = f
  <2>1. /\ \A i \in 1..g : <<t, i>> \in Nat \X Nat
        /\ \A i \in 1..m : <<t, g + i>> \in Nat \X Nat
        /\ \A i \in 1..f : <<t, i>> \in Nat \X Nat
    BY <1>1
  <2>2. f \in Nat
    BY <1>1
  <2>3. a \in Content
    BY <1>1, <1>2, <2>1 DEF Content
  <2>4. b \in Content
    BY <1>1, <1>2, <2>1 DEF Content
  <2>5. c \in Content
    BY <1>2, <2>1, <2>2 DEF Content
  <2>6. Len(a) = g /\ Len(b) = m /\ Len(c) = f
    BY <1>1, <1>2, <2>2
  <2> QED BY <2>3, <2>4, <2>5, <2>6
<1>4. a \o b \in Content /\ Len(a \o b) = g + m
  BY <1>3, ConcatIs
<1>5. ASSUME NEW i \in 1..f PROVE (a \o b)[i] = c[i]
  <2>1. c[i] = <<t, i>>
    BY <1>2
  <2>2. CASE i \in 1..g
    <3>1. (a \o b)[i] = a[i]
      BY <1>1, <1>3, <2>2 DEF Content
    <3>2. a[i] = <<t, i>>
      BY <1>2, <2>2
    <3> QED BY <2>1, <3>1, <3>2
  <2>3. CASE i \notin 1..g
    <3> DEFINE j == i - g
    <3>1. j \in 1..m /\ i = g + j
      BY <1>1, <2>3
    <3> HIDE DEF j
    <3>2. (a \o b)[Len(a) + j] = b[j]
      <4>1. Len(a) \in Nat /\ Len(b) \in Nat /\ j \in 1..Len(b)
        BY <1>1, <1>3, <3>1
      <4> QED BY <1>3, <4>1, SecondPart
    <3>3. b[j] = <<t, g + j>>
      BY <1>2, <3>1
    <3> QED BY <1>3, <2>1, <3>1, <3>2, <3>3
  <2> QED BY <2>2, <2>3
<1>6. a \o b = c
  <2> DEFINE d == a \o b
  <2>1. d \in Content /\ Len(d) = f /\ \A i \in 1..f : d[i] = c[i]
    BY <1>1, <1>4, <1>5
  <2> HIDE DEF d
  <2>2. d = [i \in 1..Len(d) |-> d[i]] /\ c = [i \in 1..Len(c) |-> c[i]]
    BY <1>3, <2>1 DEF Content
  <2>3. d = c
    BY <1>3, <2>1, <2>2
  <2> QED BY <2>3 DEF d
<1> QED BY <1>6 DEF a, b, c, g, f, t

LEMMA GoodIs == Good \subseteq Nat
<1>1. Enough \in Nat
  <2>1. MaxGroups \in Nat /\ GroupSize \in Nat
    BY LimitAssumption, Sizes
  <2> QED BY <2>1 DEF Enough
<1> QED BY <1>1 DEF Good

LEMMA WritingIs ==
    ASSUME FileInv, NEW good \in Good
    PROVE  LET w == Writing(good) IN
           /\ w \in Work /\ w.written = opened.written /\ w.buffer = write_buffer /\ w.ok
           /\ opened.valid => Sound(w, host.transfers, host.groups * GroupSize)
<1> DEFINE w == Writing(good)
<1>1. opened.written \in Content /\ write_buffer \in Content /\ Len(write_buffer) <= BlockSize
  BY DEF FileInv, FileTypes
<1>2. w \in Work
  BY <1>1, GoodIs, WorkIs DEF Writing
<1>3. w.written = opened.written /\ w.buffer = write_buffer /\ w.ok
  BY DEF Writing
<1>4. ASSUME opened.valid PROVE Sound(w, host.transfers, host.groups * GroupSize)
  <2>1. Holds(opened.written \o write_buffer, host.transfers, host.groups * GroupSize)
        /\ Len(write_buffer) < BlockSize
    BY <1>4 DEF FileInv, Receiving
  <2> HIDE DEF w
  <2> QED BY <1>2, <1>3, <2>1 DEF Sound
<1> QED BY <1>2, <1>3, <1>4

\* A flush before a file is closed.
LEMMA LastFlush ==
    ASSUME FileInv, NEW good \in Good
    PROVE  LET w == Flushed(Writing(good)) IN
           /\ w.written \in Content /\ w.buffer \in Content /\ Len(w.buffer) <= BlockSize
           /\ opened.valid => /\ PieceOf(w.written, host.transfers)
                              /\ w.ok => Holds(w.written, host.transfers, host.groups * GroupSize)
<1> DEFINE v == Writing(good)  w == Flushed(v)
<1>1. /\ v \in Work /\ v.written = opened.written /\ v.buffer = write_buffer /\ v.ok
      /\ opened.valid => Sound(v, host.transfers, host.groups * GroupSize)
  BY WritingIs
<1> HIDE DEF v
<1>2. w \in Work
  BY <1>1, FlushedType
<1>3. w.written \in Content /\ w.buffer \in Content /\ Len(w.buffer) <= BlockSize
  <2> HIDE DEF w
  <2> QED BY <1>2, WorkParts
<1>4. ASSUME opened.valid
      PROVE  /\ PieceOf(w.written, host.transfers)
             /\ w.ok => Holds(w.written, host.transfers, host.groups * GroupSize)
  <2>1. Holds(v.written \o v.buffer, host.transfers, host.groups * GroupSize)
    BY <1>1, <1>4 DEF Sound
  <2>2. PieceOf(v.written \o v.buffer, host.transfers)
    BY <2>1 DEF Holds
  <2>3. PieceOf(w.written, host.transfers) /\ (w.ok => w.written = v.written \o v.buffer)
    BY <1>1, <2>2, FlushedIs
  <2> QED BY <2>1, <2>3
<1> QED BY <1>3, <1>4 DEF v

LEMMA ClosedIs ==
    ASSUME FileInv, NEW c, opened.valid => PieceOf(c, host.transfers)
    PROVE  Closed(c) \in [Files -> Store]
<1>1. files \in [Files -> Store]
  BY DEF FileInv, FileTypes
<1>2. CASE opened.valid
  <2>1. opened.name \in Files /\ c \in Store
    BY <1>2, StoredIs DEF FileInv, Receiving
  <2> QED BY <1>1, <1>2, <2>1 DEF Closed
<1>3. CASE ~opened.valid
  BY <1>1, <1>3 DEF Closed
<1> QED BY <1>2, <1>3

-----------------------------------------------------------------------------
(* The steps *)

LEMMA ShutIs ==
    /\ NoFile \in [name : Files \cup {Nothing}, valid : BOOLEAN, written : Content]
    /\ NoFile.valid = FALSE
  BY EmptyIs DEF NoFile

LEMMA FilesStart == FileInit => FileInv
<1> SUFFICES ASSUME FileInit PROVE FileInv
  OBVIOUS
<1> USE DEF FileInit
<1>1. FileTypes
  <2>1. files \in [Files -> Store]
    BY DEF Store
  <2>2. config \in Kits
    BY DEF Kits
  <2>3. setting \in Values
    BY ValueAssumption
  <2>4. host \in [transfers : 0..MaxTransfers, groups : Nat]
    BY LimitAssumption
  <2>5. Len(write_buffer) <= BlockSize
    BY EmptyIs, Sizes
  <2>6. opened \in [name : Files \cup {Nothing}, valid : BOOLEAN, written : Content]
    BY ShutIs
  <2> QED BY <2>1, <2>2, <2>3, <2>4, <2>5, <2>6, EmptyIs DEF FileTypes
<1>2. Receiving
  BY ShutIs DEF Receiving
<1>3. Remembered
  BY DEF Remembered
<1> QED BY <1>1, <1>2, <1>3 DEF FileInv

\* A transfer comes to its end in the buffer, in the file, or by being cut off.
LEMMA EndsKeep ==
    ASSUME FileInv, protocol' = "Idle", received' \in BOOLEAN,
           NEW c, Close(c), opened.valid => PieceOf(c, host.transfers),
           write_buffer' \in Content, Len(write_buffer') <= BlockSize, faults' \in Nat,
           UNCHANGED <<host, told>>, UnchangedRam, UnchangedSettings
    PROVE  FileInv'
<1>1. opened' = NoFile /\ files' \in [Files -> Store]
  BY ClosedIs DEF Close
<1>2. FileTypes'
  BY <1>1, ShutIs DEF FileInv, FileTypes, UnchangedRam, UnchangedSettings
<1>3. Receiving'
  BY <1>1, ShutIs DEF Receiving
<1>4. Remembered'
  BY DEF FileInv, Remembered, UnchangedRam, UnchangedSettings
<1> QED BY <1>1, <1>2, <1>3, <1>4 DEF FileInv

LEMMA BeginKeeps == ASSUME FileInv, Begin PROVE FileInv'
<1>1. PICK good \in Good :
          LET w == IF protocol = "Idle" THEN Writing(good) ELSE Flushed(Writing(good))
              failed == IF w.ok \/ ~opened.valid THEN faults ELSE faults + 1
          IN /\ files' = Closed(w.written)
             /\ \/ /\ opened' = NoFile /\ write_buffer' = w.buffer /\ faults' = failed
                   /\ UNCHANGED protocol
                \/ \E f \in Files :
                      \/ mounted /\ Opens(f, TRUE) /\ faults' = failed
                      \/ mounted /\ Opens(f, FALSE) /\ failed < MaxRefusals /\ faults' = failed + 1
                      \/ ~mounted /\ Opens(f, FALSE) /\ faults' = failed
  BY DEF Begin
<1> DEFINE w == IF protocol = "Idle" THEN Writing(good) ELSE Flushed(Writing(good))
           failed == IF w.ok \/ ~opened.valid THEN faults ELSE faults + 1
<1>2. /\ host' = [transfers |-> host.transfers + 1, groups |-> 0] /\ host.transfers < MaxTransfers
      /\ told' = [told EXCEPT !.bytes = <<>>] /\ UNCHANGED <<received, config, setting, mounted, directory, factoryKit>>
  BY DEF Begin, UnchangedRam, UnchangedSettings
<1>3. w.written \in Content /\ w.buffer \in Content /\ Len(w.buffer) <= BlockSize
      /\ (opened.valid => PieceOf(w.written, host.transfers))
  <2>1. CASE protocol = "Idle"
    <3>1. opened.valid = FALSE
      BY <2>1, ShutIs DEF FileInv
    <3>2. Writing(good) \in Work
      BY WritingIs
    <3>3. w = Writing(good)
      BY <2>1
    <3> HIDE DEF w
    <3> QED BY <3>1, <3>2, <3>3, WorkParts
  <2>2. CASE protocol # "Idle"
    <3>1. w = Flushed(Writing(good))
      BY <2>2
    <3> HIDE DEF w
    <3> QED BY <3>1, LastFlush
  <2> QED BY <2>1, <2>2
<1>4. files' \in [Files -> Store]
  BY <1>1, <1>3, ClosedIs
<1>5. failed \in Nat
  BY DEF FileInv, FileTypes
<1>6. /\ host' \in [transfers : 0..MaxTransfers, groups : Nat]
      /\ host'.transfers \in 1..MaxTransfers /\ host'.groups = 0
      /\ told' \in [bytes : Content, value : Values \cup {Missing}, taken : BOOLEAN]
      /\ told'.bytes = <<>> /\ told'.value = told.value
  BY <1>2, LimitAssumption, EmptyIs DEF FileInv, FileTypes
<1>7. Remembered'
  BY <1>2, <1>6 DEF FileInv, Remembered
<1>8. \/ opened' = NoFile /\ write_buffer' = w.buffer /\ faults' = failed /\ protocol' = protocol
      \/ \E f \in Files, v \in BOOLEAN : Opens(f, v) /\ (faults' = failed \/ faults' = failed + 1)
  BY <1>1
<1> HIDE DEF w, failed
<1>9. CASE opened' = NoFile /\ write_buffer' = w.buffer /\ faults' = failed /\ protocol' = protocol
  <2>1. FileTypes'
    BY <1>2, <1>3, <1>4, <1>5, <1>6, <1>9, ShutIs DEF FileInv, FileTypes
  <2>2. Receiving'
    BY <1>9, ShutIs DEF Receiving
  <2> QED BY <1>7, <1>9, <2>1, <2>2 DEF FileInv
<1>10. ASSUME NEW f \in Files, NEW v \in BOOLEAN, Opens(f, v), faults' = failed \/ faults' = failed + 1
       PROVE  FileInv'
  <2>1. protocol' = "FileTransfer" /\ opened' = [name |-> f, valid |-> v, written |-> <<>>]
        /\ write_buffer' = <<>>
    BY <1>10 DEF Opens
  <2>2. FileTypes'
    <3>1. faults' \in Nat
      BY <1>5, <1>10
    <3>2. Len(write_buffer') <= BlockSize
      BY <2>1, EmptyIs, Sizes
    <3> QED BY <1>2, <1>4, <1>6, <2>1, <3>1, <3>2, EmptyIs DEF FileInv, FileTypes
  <2>3. Receiving'
    <3>1. opened'.name = f /\ opened'.written = <<>>
      BY <2>1
    <3>2. host'.groups * GroupSize = 0
      BY <1>6, Sizes
    <3>3. Len(<<>>) < BlockSize /\ <<>> \o <<>> = <<>>
      BY EmptyIs, Sizes, ConcatEmpty
    <3>4. Sent(host'.transfers, 0) = <<>>
      <4>1. 1..0 = {}
        OBVIOUS
      <4> QED BY <4>1 DEF Sent
    <3>5. Holds(<<>>, host'.transfers, 0)
      BY EmptyIs
    <3> QED BY <1>6, <2>1, <3>1, <3>2, <3>3, <3>4, <3>5 DEF Receiving
  <2> QED BY <1>7, <2>1, <2>2, <2>3 DEF FileInv
<1> QED BY <1>8, <1>9, <1>10

LEMMA FileBytesKeeps == ASSUME FileInv, FileBytes PROVE FileInv'
<1>1. PICK n \in 1..MaxGroups - host.groups :
          /\ host' = [host EXCEPT !.groups = @ + n]
          /\ IF protocol = "Idle"
             THEN UNCHANGED <<files, protocol, opened, write_buffer, told, faults>>
             ELSE IF opened = NoFile
             THEN protocol' = "Idle" /\ UNCHANGED <<files, opened, write_buffer, told, faults>>
             ELSE \E good \in Good :
                     LET w == Fed(Writing(good), n) IN
                     /\ write_buffer' = w.buffer /\ Faulty(w)
                     /\ IF w.ok
                        THEN /\ opened' = [opened EXCEPT !.written = w.written]
                             /\ told' = [told EXCEPT !.bytes = @ \o Bytes(n)]
                             /\ UNCHANGED <<files, protocol>>
                        ELSE protocol' = "Idle" /\ Close(w.written) /\ UNCHANGED told
  BY DEF FileBytes
<1>2. UNCHANGED <<received, config, setting, mounted, directory, factoryKit>>
  BY DEF FileBytes, UnchangedRam, UnchangedSettings
<1>3. /\ host.groups \in Nat /\ n \in Nat /\ host'.groups = host.groups + n /\ host'.transfers = host.transfers
      /\ host' \in [transfers : 0..MaxTransfers, groups : Nat] /\ host.transfers \in Nat
  BY <1>1, LimitAssumption DEF FileInv, FileTypes
<1>4. CASE opened = NoFile
  <2>1. UNCHANGED <<files, opened, write_buffer, told, faults>> /\ protocol' = "Idle"
    BY <1>1, <1>4 DEF FileInv, FileTypes
  <2>2. FileTypes'
    BY <1>2, <1>3, <2>1 DEF FileInv, FileTypes
  <2>3. Receiving'
    BY <1>4, <2>1, ShutIs DEF Receiving
  <2>4. Remembered'
    BY <1>2, <2>1 DEF FileInv, Remembered
  <2> QED BY <1>4, <2>1, <2>2, <2>3, <2>4 DEF FileInv
<1>5. CASE opened # NoFile
  <2>1. protocol = "FileTransfer"
    BY <1>5 DEF FileInv, FileTypes
  <2>2. PICK good \in Good :
                     LET w == Fed(Writing(good), n) IN
                     /\ write_buffer' = w.buffer /\ Faulty(w)
                     /\ IF w.ok
                        THEN /\ opened' = [opened EXCEPT !.written = w.written]
                             /\ told' = [told EXCEPT !.bytes = @ \o Bytes(n)]
                             /\ UNCHANGED <<files, protocol>>
                        ELSE protocol' = "Idle" /\ Close(w.written) /\ UNCHANGED told
    BY <1>1, <1>5, <2>1
  <2> DEFINE v == Writing(good)  w == Fed(v, n)
  <2>3. v \in Work /\ (opened.valid => Sound(v, host.transfers, host.groups * GroupSize))
    BY WritingIs
  <2> HIDE DEF v
  <2>4. w \in Work /\ (opened.valid => Sound(w, host.transfers, (host.groups + n) * GroupSize))
    BY <1>3, <2>3, FedType, FedIs
  <2>5. write_buffer' = w.buffer /\ Faulty(w)
    BY <2>2 DEF v
  <2>6. w.ok => /\ opened' = [opened EXCEPT !.written = w.written]
                /\ told' = [told EXCEPT !.bytes = @ \o Bytes(n)]
                /\ UNCHANGED <<files, protocol>>
    BY <2>2 DEF v
  <2>7. ~w.ok => protocol' = "Idle" /\ Close(w.written) /\ UNCHANGED told
    BY <2>2 DEF v
  <2> HIDE DEF w
  <2>8. /\ w.written \in Content /\ w.buffer \in Content /\ Len(w.buffer) <= BlockSize
        /\ faults' \in Nat
    <3>1. faults' \in Nat
      BY <2>5 DEF Faulty, FileInv, FileTypes
    <3> QED BY <2>4, <3>1, WorkParts
  <2>9. CASE w.ok
    <3>1. /\ opened' = [opened EXCEPT !.written = w.written]
          /\ told' = [told EXCEPT !.bytes = @ \o Bytes(n)]
          /\ UNCHANGED <<files, protocol>>
      BY <2>6, <2>9
    <3>2. /\ opened'.valid = opened.valid /\ opened'.name = opened.name /\ opened'.written = w.written
          /\ opened' \in [name : Files \cup {Nothing}, valid : BOOLEAN, written : Content]
      BY <2>8, <3>1 DEF FileInv, FileTypes
    <3>3. Bytes(n) \in Content
      <4> DEFINE t == host.transfers  g == host.groups * GroupSize  m == n * GroupSize
      <4>1. g \in Nat /\ m \in Nat /\ t \in Nat
        BY <1>3, Sizes
      <4>2. Bytes(n) = [i \in 1..m |-> <<t, g + i>>]
        BY DEF Bytes, Byte
      <4> HIDE DEF t, g, m
      <4>3. \A i \in 1..m : <<t, g + i>> \in Nat \X Nat
        BY <4>1
      <4> QED BY <4>1, <4>2, <4>3 DEF Content
    <3>4. /\ told'.bytes = told.bytes \o Bytes(n)
          /\ told'.value = told.value /\ told'.taken = told.taken
          /\ told' \in [bytes : Content, value : Values \cup {Missing}, taken : BOOLEAN] /\ told.bytes \in Content
      <4>1. told.bytes \in Content
        BY DEF FileInv, FileTypes
      <4>2. told.bytes \o Bytes(n) \in Content
        BY <3>3, <4>1, ConcatIs
      <4> QED BY <3>1, <4>1, <4>2 DEF FileInv, FileTypes
    <3>5. FileTypes'
      BY <1>2, <1>3, <2>5, <2>8, <3>1, <3>2, <3>4 DEF FileInv, FileTypes
    <3>6. Receiving'
      <4> SUFFICES ASSUME opened.valid PROVE Receiving'
        BY <3>2 DEF Receiving
      <4>1. Holds(w.written \o w.buffer, host.transfers, (host.groups + n) * GroupSize)
            /\ Len(w.buffer) < BlockSize
        BY <2>4, <2>9 DEF Sound
      <4>2. opened.name \in Files /\ host.transfers \in 1..MaxTransfers
            /\ told.bytes = Sent(host.transfers, host.groups * GroupSize)
        BY DEF FileInv, Receiving
      <4>3. told.bytes \o Bytes(n) = Sent(host.transfers, (host.groups + n) * GroupSize)
        <5>1. host.transfers \in Nat /\ host.groups \in Nat /\ n \in Nat
          BY <1>3 DEF FileInv, FileTypes
        <5> QED BY <4>2, <5>1, BytesIs
      <4> QED BY <1>3, <2>5, <3>2, <3>4, <4>1, <4>2, <4>3 DEF Receiving
    <3>7. Remembered'
      BY <1>2, <3>4 DEF FileInv, Remembered
    <3> QED BY <2>1, <3>1, <3>5, <3>6, <3>7 DEF FileInv
  <2>10. CASE ~w.ok
    <3>1. protocol' = "Idle" /\ Close(w.written) /\ UNCHANGED told
      BY <2>7, <2>10
    <3>2. opened.valid => PieceOf(w.written, host.transfers)
      BY <2>4, <2>10 DEF Sound
    <3>3. opened' = NoFile /\ files' \in [Files -> Store]
      BY <3>1, <3>2, ClosedIs DEF Close
    <3>4. FileTypes'
      BY <1>2, <1>3, <2>5, <2>8, <3>1, <3>3, ShutIs DEF FileInv, FileTypes
    <3>5. Receiving'
      BY <3>3, ShutIs DEF Receiving
    <3>6. Remembered'
      BY <1>2, <3>1 DEF FileInv, Remembered
    <3> QED BY <3>1, <3>3, <3>4, <3>5, <3>6 DEF FileInv
  <2> QED BY <2>9, <2>10
<1> QED BY <1>4, <1>5

LEMMA FlushesKeep ==
    ASSUME FileInv, EndFileTransfer \/ check_timeout
    PROVE  FileInv'
<1>1. /\ protocol' = "Idle" /\ received' \in BOOLEAN
      /\ UNCHANGED <<host, told>> /\ UnchangedRam /\ UnchangedSettings
  BY DEF EndFileTransfer, check_timeout, FileInv, FileTypes
<1>2. PICK good \in Good :
          LET w == Flushed(Writing(good)) IN
          write_buffer' = w.buffer /\ Faulty(w) /\ Close(w.written)
  BY DEF EndFileTransfer, check_timeout
<1> DEFINE w == Flushed(Writing(good))
<1>3. write_buffer' = w.buffer /\ Faulty(w) /\ Close(w.written)
  BY <1>2
<1>4. /\ w.written \in Content /\ w.buffer \in Content /\ Len(w.buffer) <= BlockSize
      /\ opened.valid => PieceOf(w.written, host.transfers)
  BY LastFlush
<1> HIDE DEF w
<1>5. faults' \in Nat
  BY <1>3 DEF Faulty, FileInv, FileTypes
<1> QED BY <1>1, <1>3, <1>4, <1>5, EndsKeep

LEMMA UnknownMessageKeeps == ASSUME FileInv, UnknownMessage PROVE FileInv'
<1>1. opened.valid => PieceOf(opened.written, host.transfers)
  <2>1. opened.written \in Content /\ write_buffer \in Content
    BY DEF FileInv, FileTypes
  <2> QED BY <2>1, WrittenIs DEF FileInv, Receiving, Holds
<1>2. /\ write_buffer' \in Content /\ Len(write_buffer') <= BlockSize /\ faults' \in Nat
      /\ received' \in BOOLEAN
  BY DEF UnknownMessage, FileInv, FileTypes
<1> QED BY <1>1, <1>2, EndsKeep DEF UnknownMessage

LEMMA NothingIsStored ==
    [f \in Files |-> Missing] \in [Files -> Store]
  BY DEF Store

LEMMA FormatKeeps == ASSUME FileInv, FormatFilesystem PROVE FileInv'
<1>1. UNCHANGED <<protocol, opened, write_buffer, received, host, config, setting>> /\ format
      /\ protocol = "Idle"
  BY DEF FormatFilesystem, UnchangedRam
<1>2. opened = NoFile /\ opened' = NoFile
  BY <1>1 DEF FileInv
<1>3. ASSUME NEW done \in BOOLEAN, format_filesystem(done), faults' \in Nat PROVE FileInv'
  <2>1. FileTypes'
    BY <1>1, <1>3, NothingIsStored DEF format_filesystem, FileInv, FileTypes
  <2>2. Receiving'
    BY <1>2, ShutIs DEF Receiving
  <2>3. Remembered'
    BY <1>3 DEF format_filesystem, Remembered, FileInv, FileTypes
  <2> QED BY <1>2, <2>1, <2>2, <2>3 DEF FileInv
<1>4. CASE faults' = faults + 1 /\ UNCHANGED <<files, told>> /\ UnchangedSettings
  <2>1. FileTypes'
    BY <1>1, <1>4 DEF FileInv, FileTypes, UnchangedSettings
  <2>2. Receiving'
    BY <1>2, ShutIs DEF Receiving
  <2>3. Remembered'
    BY <1>1, <1>4 DEF Remembered, FileInv, UnchangedSettings
  <2> QED BY <1>2, <2>1, <2>2, <2>3 DEF FileInv
<1>5. faults' = faults \/ faults' = faults + 1 => faults' \in Nat
  BY DEF FileInv, FileTypes
<1> QED BY <1>1, <1>3, <1>4, <1>5 DEF format

LEMMA UpdateKeeps == ASSUME FileInv, Update PROVE FileInv'
<1>1. /\ received' = FALSE
      /\ UNCHANGED <<files, protocol, opened, write_buffer, setting, host, faults, told, mounted, directory, factoryKit>>
  BY DEF Update, UnchangedSettings
<1>2. Found(Kit) \subseteq Store
  <2>1. files[Kit] \in Store
    BY DEF FileInv, FileTypes, Files
  <2>2. opened.valid => opened.written \in Store
    <3>1. opened.written \in Content /\ write_buffer \in Content
      BY DEF FileInv, FileTypes
    <3>2. opened.valid => PieceOf(opened.written, host.transfers) /\ host.transfers \in 1..MaxTransfers
      BY <3>1, WrittenIs DEF FileInv, Receiving, Holds
    <3> QED BY <3>2, StoredIs
  <2> QED BY <2>1, <2>2 DEF Found
<1>3. config' \in Kits
  <2>1. PICK content \in Found(Kit) : config' = Loaded(content, factoryKit, config)
    BY DEF Update
  <2>2. factoryKit \in BOOLEAN /\ config \in Kits
    BY DEF FileInv, FileTypes
  <2> QED BY <1>2, <2>1, <2>2, LoadedIs
<1>4. FileTypes'
  BY <1>1, <1>3 DEF FileInv, FileTypes
<1>5. Receiving'
  BY <1>1 DEF FileInv, Receiving
<1>6. Remembered'
  BY <1>1 DEF FileInv, Remembered
<1> QED BY <1>1, <1>4, <1>5, <1>6 DEF FileInv

LEMMA SetSettingKeeps == ASSUME FileInv, SetSetting PROVE FileInv'
<1>1. UNCHANGED <<files, mounted, factoryKit, protocol, opened, write_buffer, received, config, host>>
  BY DEF SetSetting
<1>2. PICK v \in Values : Persist(v)
  BY DEF SetSetting
<1>3. directory \in [there : BOOLEAN, value : Values \cup {Missing}]
      /\ told \in [bytes : Content, value : Values \cup {Missing}, taken : BOOLEAN] /\ faults \in Nat
  BY DEF FileInv, FileTypes
<1>4. /\ setting' \in Values /\ faults' \in Nat /\ told'.bytes = told.bytes
      /\ directory' \in [there : BOOLEAN, value : Values \cup {Missing}]
      /\ told' \in [bytes : Content, value : Values \cup {Missing}, taken : BOOLEAN]
      /\ Remembered'
  <2>0. setting' = v
    BY <1>2 DEF Persist
  <2>1. CASE /\ directory.there /\ UNCHANGED faults
             /\ directory' = [directory EXCEPT !.value = v]
             /\ told' = [told EXCEPT !.value = v, !.taken = TRUE]
    <3>1. directory'.there = directory.there /\ directory'.value = v /\ told'.value = v
          /\ told'.bytes = told.bytes
      BY <1>3, <2>1
    <3>2. Remembered'
      BY <2>0, <2>1, <3>1 DEF Remembered
    <3> QED BY <1>3, <2>0, <2>1, <3>1, <3>2
  <2>2. CASE /\ faults' = faults + 1
             /\ directory' \in {directory, [directory EXCEPT !.value = Missing]}
             /\ told' = [told EXCEPT !.value = v, !.taken = FALSE]
    <3>1. told'.taken = FALSE /\ told'.bytes = told.bytes
      BY <1>3, <2>2
    <3>2. Remembered'
      BY <3>1 DEF Remembered
    <3>3. faults' \in Nat /\ directory' \in [there : BOOLEAN, value : Values \cup {Missing}]
      BY <1>3, <2>2
    <3>4. told' \in [bytes : Content, value : Values \cup {Missing}, taken : BOOLEAN]
      BY <1>3, <2>2
    <3> QED BY <2>0, <3>1, <3>2, <3>3, <3>4
  <2>3. CASE /\ faults' = faults \/ faults' = faults + 1
             /\ told' = [told EXCEPT !.value = Missing] /\ UNCHANGED directory
    <3>1. told'.value = Missing /\ told'.bytes = told.bytes
      BY <1>3, <2>3
    <3>2. Remembered'
      BY <3>1 DEF Remembered
    <3> QED BY <1>3, <2>0, <2>3, <3>1, <3>2
  <2> QED BY <1>2, <2>1, <2>2, <2>3 DEF Persist
<1>5. FileTypes'
  BY <1>1, <1>4 DEF FileInv, FileTypes
<1>6. Receiving'
  BY <1>1, <1>4 DEF FileInv, Receiving
<1> QED BY <1>1, <1>4, <1>5, <1>6 DEF FileInv

LEMMA PowerFailsKeeps == ASSUME FileInv, PowerFails PROVE FileInv'
<1>1. /\ protocol' = "Idle" /\ opened' = NoFile /\ write_buffer' = <<>> /\ received' = FALSE
      /\ config' = Loaded(files'[Kit], factoryKit', Nothing)
      /\ setting' = load_one(directory'.value) /\ UNCHANGED host
  BY DEF PowerFails
<1>2. directory \in [there : BOOLEAN, value : Values \cup {Missing}] /\ factoryKit \in BOOLEAN
      /\ told \in [bytes : Content, value : Values \cup {Missing}, taken : BOOLEAN] /\ files \in [Files -> Store]
  BY DEF FileInv, FileTypes
<1>3. /\ files' \in [Files -> Store] /\ factoryKit' \in BOOLEAN /\ mounted' \in BOOLEAN
      /\ directory' \in [there : BOOLEAN, value : Values \cup {Missing}]
      /\ told' \in [bytes : Content, value : Values \cup {Missing}, taken : BOOLEAN]
      /\ told'.value # Missing /\ told'.taken => directory'.value = told'.value /\ directory'.there
      /\ faults' \in Nat
  <2>1. CASE Survives
    <3>1. opened.valid => opened.written \in Store /\ opened.name \in Files
      <4>1. opened.written \in Content /\ write_buffer \in Content
        BY DEF FileInv, FileTypes
      <4>2. opened.valid => /\ PieceOf(opened.written, host.transfers) /\ host.transfers \in 1..MaxTransfers
                            /\ opened.name \in Files
        BY <4>1, WrittenIs DEF FileInv, Receiving, Holds
      <4> QED BY <4>2, StoredIs
    <3>2. files' = files \/ (opened.valid /\ files' = [files EXCEPT ![opened.name] = opened.written])
      BY <2>1 DEF Survives
    <3>3. files' \in [Files -> Store]
      BY <1>2, <3>1, <3>2
    <3>4. /\ directory' = [directory EXCEPT !.there = TRUE] /\ mounted' = TRUE
          /\ UNCHANGED <<factoryKit, told, faults>>
      BY <2>1 DEF Survives
    <3> QED BY <1>2, <3>3, <3>4 DEF FileInv, FileTypes, Remembered
  <2>2. ASSUME NEW done \in BOOLEAN, FormatsAgain(done)
        PROVE  /\ files' \in [Files -> Store] /\ factoryKit' \in BOOLEAN /\ mounted' \in BOOLEAN
               /\ directory' \in [there : BOOLEAN, value : Values \cup {Missing}]
               /\ told' \in [bytes : Content, value : Values \cup {Missing}, taken : BOOLEAN]
               /\ told'.value = Missing /\ faults' \in Nat
    <3>1. faults' \in Nat
      BY <2>2 DEF FormatsAgain, FileInv, FileTypes
    <3> QED BY <1>2, <2>2, <3>1, NothingIsStored DEF FormatsAgain
  <2> QED BY <2>1, <2>2 DEF PowerFails
<1>4. config' \in Kits
  <2>1. files'[Kit] \in Store
    BY <1>3 DEF Files
  <2>2. Nothing \in Kits
    BY DEF Kits
  <2> QED BY <1>1, <1>3, <2>1, <2>2, LoadedIs
<1>5. setting' \in Values /\ (directory'.value # Missing => setting' = directory'.value)
  BY <1>1, <1>3, ValueAssumption DEF load_one
<1>6. FileTypes'
  <2>1. write_buffer' \in Content /\ Len(write_buffer') <= BlockSize
    BY <1>1, EmptyIs, Sizes
  <2>2. /\ opened' \in [name : Files \cup {Nothing}, valid : BOOLEAN, written : Content]
        /\ host' \in [transfers : 0..MaxTransfers, groups : Nat] /\ faults' \in Nat
        /\ protocol' \in {"Idle", "FileTransfer"} /\ received' \in BOOLEAN
    BY <1>1, <1>3, ShutIs DEF FileInv, FileTypes
  <2> QED BY <1>3, <1>4, <1>5, <2>1, <2>2 DEF FileTypes
<1>7. Receiving'
  BY <1>1, ShutIs DEF Receiving
<1>8. Remembered'
  BY <1>3, <1>5 DEF Remembered
<1> QED BY <1>1, <1>6, <1>7, <1>8 DEF FileInv

LEMMA FilesKeep == FileInv /\ [FileNext]_fileVars => FileInv'
<1> SUFFICES ASSUME FileInv, [FileNext]_fileVars PROVE FileInv'
  OBVIOUS
<1>1. CASE UNCHANGED fileVars
  BY <1>1 DEF fileVars, FileInv, FileTypes, Receiving, Remembered
<1> QED BY <1>1, BeginKeeps, FileBytesKeeps, FlushesKeep, UnknownMessageKeeps, FormatKeeps, UpdateKeeps,
           SetSettingKeeps, PowerFailsKeeps DEF FileNext

\* In every reachable state the flash holds pieces of single transfers, and
\* what is open and buffered is what the host was told.
THEOREM FilesInvariance == FileSpec => []FileInv
<1>1. FileInit => FileInv
  BY FilesStart
<1>2. FileInv /\ [FileNext]_fileVars => FileInv'
  BY FilesKeep
<1> QED BY <1>1, <1>2, PTL DEF FileSpec

LEMMA PieceIsOne ==
    ASSUME NEW c, NEW n, PieceOf(c, n)
    PROVE  OnePiece(c)
<1>1. c \in Content /\ DOMAIN c = 1..Len(c) /\ Len(c) \in Nat /\ BlockSize \in Nat \ {0}
  BY Sizes DEF PieceOf, Content
<1>2. ASSUME NEW i \in 1..Len(c)
      PROVE  IF i = 1 THEN c[1][2] = 1 ELSE c[i][1] = c[1][1] /\ c[i][2] <= c[i - 1][2] + 1
  <2>1. 1 \in 1..Len(c) /\ 1 <= BlockSize
    BY <1>1
  <2>2. c[1][1] = n /\ c[1][2] = 1
    BY <2>1 DEF PieceOf
  <2>3. c[i][1] = n /\ (i > 1 => c[i][2] <= c[i - 1][2] + 1)
    BY DEF PieceOf
  <2> QED BY <2>2, <2>3
<1> QED BY <1>1, <1>2 DEF OnePiece

\* No file mixes two transfers or has a gap, and the kit in use is a whole one.
THEOREM NoMixtureAlways == FileSpec => []NoMixture
<1>1. FileInv => NoMixture
  <2> SUFFICES ASSUME FileInv PROVE NoMixture
    OBVIOUS
  <2>1. ASSUME NEW f \in Files, files[f] # Missing PROVE OnePiece(files[f])
    <3>1. files[f] \in Store
      BY DEF FileInv, FileTypes
    <3>2. PICK n \in 1..MaxTransfers : PieceOf(files[f], n)
      BY <2>1, <3>1 DEF Store
    <3> QED BY <3>2, PieceIsOne
  <2>2. config \in Kits
    BY DEF FileInv, FileTypes
  <2> QED BY <2>1, <2>2 DEF NoMixture, Kits
<1> QED BY <1>1, FilesInvariance, PTL

LEMMA EndIsWhole ==
    ASSUME FileInv, EndFileTransfer, opened.valid, faults' = faults
    PROVE  WholeFile(told.bytes, files'[opened.name])
<1>1. PICK good \in Good :
          LET w == Flushed(Writing(good)) IN
          write_buffer' = w.buffer /\ Faulty(w) /\ Close(w.written)
  BY DEF EndFileTransfer
<1> DEFINE w == Flushed(Writing(good))
<1>2. Faulty(w) /\ Close(w.written)
  BY <1>1
<1>3. opened.valid => (w.ok => Holds(w.written, host.transfers, host.groups * GroupSize))
  BY LastFlush
<1> HIDE DEF w
<1>4. w.ok
  BY <1>2 DEF Faulty, FileInv, FileTypes
<1> DEFINE n == host.transfers  g == host.groups * GroupSize  c == w.written
<1>5. Holds(c, n, g)
  BY <1>3, <1>4
<1>6. files'[opened.name] = c
  BY <1>2 DEF Close, Closed, FileInv, FileTypes, Receiving
<1>7. n \in Nat /\ g \in Nat /\ told.bytes = Sent(n, g)
  BY Sizes DEF FileInv, FileTypes, Receiving
<1> HIDE DEF n, g, c
<1> QED BY <1>5, <1>6, <1>7, HoldsAreWhole

\* What the flash has taken is stored: the bytes of a transfer that came to its
\* end, none missing and the first block as sent, and the setting.
THEOREM TakenIsStoredAlways == FileSpec => TakenIsStored
<1>1. FileInv /\ FileInv' /\ [FileNext]_fileVars
         => [/\ EndFileTransfer /\ opened.valid /\ faults' = faults
                  => WholeFile(told.bytes, files'[opened.name])
             /\ told'.value # Missing /\ told'.taken
                  => setting' = told'.value /\ directory'.value = told'.value]_fileVars
  BY EndIsWhole DEF FileInv, Remembered
<1> QED BY <1>1, FilesInvariance, PTL DEF FileSpec, TakenIsStored

-----------------------------------------------------------------------------
(* The sync jack *)

LowAges   == {Nil} \cup 0..PULSE_DEBOUNCE + 1
PulseAges == {Nil} \cup 0..MaxInterval
States    == {"WAITING_FOR_RISING_EDGE", "WAITING_FOR_STABLE_LOW"}
SyncIns   == [state : States, lowAge : LowAges, pulseAge : PulseAges, interval : 0..MaxInterval,
              ticks : 0..PPQN_MULTIPLIER - 1, next : {Nil} \cup Int]
SyncOuts  == [out : [high : BOOLEAN, active : BOOLEAN, id : BOOLEAN, enabled : BOOLEAN,
                     countdown : 1..PPQN_MULTIPLIER],
              offAlarm : [own : BOOLEAN, left : BOOLEAN]]
JackEvents == {Beat, Tick, Resync, NoEvent}

\* SyncIn's time of a low pin is never more than the pin's, and a pulse is
\* waited for only after enough of it.
LowFor(s, low) ==
    /\ s.state = "WAITING_FOR_STABLE_LOW" /\ s.lowAge # Nil => low # Nil /\ low >= s.lowAge
    /\ s.state = "WAITING_FOR_RISING_EDGE" /\ s.pulseAge # Nil => low # Nil /\ low > PULSE_DEBOUNCE

\* The jack's output is enabled, and once aligned it has as many ticks to go as
\* SyncIn may still make, and one more.
InStep ==
    /\ source = "sync" => out.enabled
    /\ seen.aligned => source = "sync" /\ out.countdown + sync.ticks >= PPQN_MULTIPLIER

SyncInv ==
    /\ sync \in SyncIns /\ Jack \in SyncOuts
    /\ source \in {"sync", "other"} /\ main \in {"sync_in", "sources"}
    /\ seen \in [low : LowAges, event : JackEvents, aligned : BOOLEAN]
    /\ LowFor(sync, seen.low)
    /\ InStep

\* Ages stay ages and keep their order.
LEMMA OlderIs ==
    ASSUME NEW max \in Nat, NEW age \in {Nil} \cup 0..max, NEW dt \in Nat
    PROVE  /\ Older(age, dt, max) \in {Nil} \cup 0..max
           /\ Older(age, dt, max) = Nil <=> age = Nil
           /\ age # Nil => Older(age, dt, max) \in 0..max /\ Older(age, dt, max) >= age
           /\ \A least \in 0..max : age # Nil /\ age >= least
                => Older(age, dt, max) >= Older(least, dt, max)
  BY NilAssumption DEF Older

\* Time passes and changes no state.
LEMMA LaterIs ==
    ASSUME NEW s \in SyncIns, NEW dt \in Nat
    PROVE  /\ Later(s, dt) \in SyncIns
           /\ Later(s, dt).state = s.state /\ Later(s, dt).ticks = s.ticks
           /\ Later(s, dt).lowAge = Older(s.lowAge, dt, PULSE_DEBOUNCE + 1)
           /\ Later(s, dt).pulseAge = Nil <=> s.pulseAge = Nil
<1>1. PULSE_DEBOUNCE + 1 \in Nat /\ MaxInterval \in Nat
  BY MultiplierAssumption, TimeAssumption
<1>2. s.lowAge \in LowAges /\ s.pulseAge \in PulseAges /\ s.next \in {Nil} \cup Int
  BY DEF SyncIns
<1>3. /\ Older(s.lowAge, dt, PULSE_DEBOUNCE + 1) \in LowAges
      /\ Older(s.pulseAge, dt, MaxInterval) \in PulseAges
      /\ Older(s.pulseAge, dt, MaxInterval) = Nil <=> s.pulseAge = Nil
  BY <1>1, <1>2, OlderIs DEF LowAges, PulseAges
<1> DEFINE next == IF s.next = Nil THEN Nil
                   ELSE IF s.next - dt < -MaxInterval THEN -MaxInterval ELSE s.next - dt
<1>4. next \in {Nil} \cup Int
  BY <1>1, <1>2
<1> HIDE DEF next
<1>5. Later(s, dt) = [s EXCEPT !.pulseAge = Older(s.pulseAge, dt, MaxInterval),
                               !.lowAge = Older(s.lowAge, dt, PULSE_DEBOUNCE + 1), !.next = next]
  BY DEF Later, next, SyncIns
<1> QED BY <1>3, <1>4, <1>5 DEF SyncIns

\* A pulse resets the count of ticks or leaves it, and is stable low only
\* after the time of the debounce.
LEMMA PulsedIs ==
    ASSUME NEW s \in SyncIns, NEW level \in BOOLEAN
    PROVE  /\ Pulsed(s, level) \in SyncIns
           /\ ~IsBeat(s, level) => Pulsed(s, level).ticks = s.ticks
                                   /\ Pulsed(s, level).pulseAge = s.pulseAge
           /\ IsBeat(s, level) => Pulsed(s, level).state = "WAITING_FOR_STABLE_LOW"
                                  /\ Pulsed(s, level).lowAge = Nil
           /\ level => Pulsed(s, level).state = "WAITING_FOR_STABLE_LOW"
                       /\ Pulsed(s, level).lowAge = Nil
           /\ s.state = "WAITING_FOR_STABLE_LOW" /\ ~level =>
                 /\ Pulsed(s, level).lowAge = IF s.lowAge = Nil THEN 0 ELSE s.lowAge
                 /\ Pulsed(s, level).state = "WAITING_FOR_RISING_EDGE"
                       => Pulsed(s, level).lowAge > PULSE_DEBOUNCE
           /\ s.state = "WAITING_FOR_RISING_EDGE" /\ ~level => Pulsed(s, level) = s
<1>1. CASE s.state = "WAITING_FOR_STABLE_LOW"
  <2> DEFINE low == IF s.lowAge = Nil THEN 0 ELSE s.lowAge
  <2>1. low \in 0..PULSE_DEBOUNCE + 1 /\ Nil \in LowAges
    BY MultiplierAssumption DEF SyncIns, LowAges
  <2>2. Pulsed(s, level) = IF level THEN [s EXCEPT !.lowAge = Nil]
                           ELSE [s EXCEPT !.lowAge = low,
                                   !.state = IF low > PULSE_DEBOUNCE THEN "WAITING_FOR_RISING_EDGE"
                                             ELSE "WAITING_FOR_STABLE_LOW"]
    BY <1>1 DEF Pulsed, StableLow, SyncIns
  <2>3. ~IsBeat(s, level)
    BY <1>1 DEF IsBeat
  <2> HIDE DEF low
  <2>4. low \in LowAges
    BY <2>1 DEF LowAges
  <2>5. CASE level
    BY <1>1, <2>1, <2>2, <2>3, <2>5 DEF SyncIns, States
  <2>6. CASE ~level
    <3>1. /\ Pulsed(s, level) \in SyncIns /\ Pulsed(s, level).ticks = s.ticks
          /\ Pulsed(s, level).pulseAge = s.pulseAge /\ Pulsed(s, level).lowAge = low
          /\ Pulsed(s, level).state = "WAITING_FOR_RISING_EDGE" => low > PULSE_DEBOUNCE
      BY <1>1, <2>2, <2>4, <2>6 DEF SyncIns, States
    <3> QED BY <1>1, <2>3, <2>6, <3>1 DEF low
  <2> QED BY <2>5, <2>6
<1>2. CASE s.state = "WAITING_FOR_RISING_EDGE" /\ level
  <2> DEFINE interval == IF s.pulseAge = Nil THEN s.interval ELSE s.pulseAge \div PPQN_MULTIPLIER
  <2>1. interval \in 0..MaxInterval
    <3>1. s.interval \in 0..MaxInterval /\ s.pulseAge \in {Nil} \cup 0..MaxInterval
      BY DEF SyncIns, PulseAges
    <3>2. \A a \in 0..MaxInterval : a \div PPQN_MULTIPLIER \in 0..MaxInterval
      BY MultiplierAssumption, TimeAssumption
    <3> QED BY <3>1, <3>2
  <2> HIDE DEF interval
  <2>2. Pulsed(s, level) = [s EXCEPT !.state = "WAITING_FOR_STABLE_LOW", !.lowAge = Nil,
                                     !.interval = interval, !.pulseAge = 0,
                                     !.ticks = IF interval > 0 THEN 0 ELSE s.ticks,
                                     !.next = IF interval > 0 THEN interval ELSE s.next]
    BY <1>2 DEF Pulsed, RisingEdge, interval, SyncIns
  <2>3. 0 \in PulseAges /\ Nil \in LowAges /\ 0 \in 0..PPQN_MULTIPLIER - 1
    BY MultiplierAssumption, TimeAssumption DEF PulseAges, LowAges
  <2> DEFINE ticks == IF interval > 0 THEN 0 ELSE s.ticks
             next == IF interval > 0 THEN interval ELSE s.next
  <2>5. ticks \in 0..PPQN_MULTIPLIER - 1 /\ next \in {Nil} \cup Int
    BY <2>1, <2>3 DEF SyncIns
  <2> HIDE DEF ticks, next
  <2>6. Pulsed(s, level) = [s EXCEPT !.state = "WAITING_FOR_STABLE_LOW", !.lowAge = Nil,
                                     !.interval = interval, !.pulseAge = 0,
                                     !.ticks = ticks, !.next = next]
    BY <2>2 DEF ticks, next
  <2>4. Pulsed(s, level) \in SyncIns
    BY <2>1, <2>3, <2>5, <2>6 DEF SyncIns, States
  <2> QED BY <1>2, <2>2, <2>4 DEF IsBeat, SyncIns
<1>3. CASE s.state = "WAITING_FOR_RISING_EDGE" /\ ~level
  BY <1>3 DEF Pulsed, IsBeat
<1> QED BY <1>1, <1>2, <1>3 DEF SyncIns, States

\* At most PPQN_MULTIPLIER - 1 ticks are counted.
LEMMA TickedIs ==
    ASSUME NEW s \in SyncIns
    PROVE  /\ Ticked(s) \in SyncIns
           /\ Ticked(s).state = s.state /\ Ticked(s).lowAge = s.lowAge
           /\ Ticked(s).pulseAge = s.pulseAge
           /\ Ticked(s).ticks = IF IsTick(s) THEN s.ticks + 1 ELSE s.ticks
           /\ IsTick(s) => s.ticks < PPQN_MULTIPLIER - 1
<1>1. CASE ~IsTick(s)
  BY <1>1 DEF Ticked
<1>2. CASE IsTick(s)
  <2> DEFINE next == IF s.ticks + 1 < PPQN_MULTIPLIER - 1 /\ s.interval > 0
                     THEN s.next + s.interval ELSE Nil
  <2>1. s.ticks + 1 \in 0..PPQN_MULTIPLIER - 1 /\ s.ticks < PPQN_MULTIPLIER - 1
    BY <1>2, MultiplierAssumption DEF IsTick, SyncIns
  <2>2. next \in {Nil} \cup Int
    BY <1>2 DEF IsTick, SyncIns
  <2>3. Ticked(s) = [s EXCEPT !.ticks = s.ticks + 1, !.next = next]
    BY <1>2 DEF Ticked, SyncIns
  <2> HIDE DEF next
  <2> QED BY <1>2, <2>1, <2>2, <2>3 DEF SyncIns
<1> QED BY <1>1, <1>2

\* Ending a pulse and starting one leave the countdown and what is enabled.
LEMMA PulseIs ==
    ASSUME NEW x \in SyncOuts
    PROVE  /\ trigger_pulse_off(x) \in SyncOuts /\ trigger_pulse_off(x).out.high = FALSE
           /\ trigger_pulse_off(x).out.countdown = x.out.countdown
           /\ trigger_pulse_off(x).out.enabled = x.out.enabled
           /\ CutShort(x) \in SyncOuts /\ CutShort(x).out.countdown = x.out.countdown
           /\ CutShort(x).out.enabled = x.out.enabled
           /\ \A y \in Begun(x) : y \in SyncOuts /\ y.out.countdown = x.out.countdown
                                  /\ y.out.enabled = x.out.enabled
<1>1. \A y \in SyncOuts : /\ trigger_pulse_off(y) \in SyncOuts
                          /\ trigger_pulse_off(y).out.high = FALSE
                          /\ trigger_pulse_off(y).out.countdown = y.out.countdown
                          /\ trigger_pulse_off(y).out.enabled = y.out.enabled
  BY DEF trigger_pulse_off, SyncOuts
<1>2. \A y \in SyncOuts : /\ cancel_alarm(y) \in SyncOuts
                          /\ cancel_alarm(y).out = y.out
  BY DEF cancel_alarm, SyncOuts
<1> DEFINE begun == [x EXCEPT !.out.high = TRUE, !.out.active = TRUE]
           high == cancel_alarm(begun)
           set == [high EXCEPT !.out.id = TRUE, !.offAlarm.own = TRUE]
<1>3. begun \in SyncOuts /\ begun.out.countdown = x.out.countdown /\ begun.out.enabled = x.out.enabled
  BY DEF SyncOuts
<1> HIDE DEF begun
<1>4. high \in SyncOuts /\ high.out.countdown = x.out.countdown /\ high.out.enabled = x.out.enabled
  BY <1>2, <1>3
<1>5. Begun(x) = {set, trigger_pulse_off(high)}
  BY DEF Begun, begun
<1> HIDE DEF high
<1>6. set \in SyncOuts /\ set.out.countdown = x.out.countdown /\ set.out.enabled = x.out.enabled
  BY <1>4 DEF SyncOuts
<1>7. \A y \in Begun(x) : y \in SyncOuts /\ y.out.countdown = x.out.countdown
                          /\ y.out.enabled = x.out.enabled
  BY <1>1, <1>4, <1>5, <1>6
<1>8. CutShort(x) \in SyncOuts /\ CutShort(x).out.countdown = x.out.countdown
      /\ CutShort(x).out.enabled = x.out.enabled
  BY <1>1, <1>2 DEF CutShort
<1> QED BY <1>1, <1>7, <1>8

\* An enabled output is realigned by a beat and a resync; a tick that does not
\* end the countdown changes nothing else.
LEMMA NotifiedIs ==
    ASSUME NEW x \in SyncOuts, NEW event \in JackEvents, NEW y \in Notified(x, event)
    PROVE  /\ y \in SyncOuts /\ y.out.enabled = x.out.enabled
           /\ event = NoEvent => y = x
           /\ x.out.enabled /\ event \in {Beat, Resync} => y.out.countdown = PPQN_MULTIPLIER
           /\ event = Tick /\ x.out.countdown > 1 =>
                 y.out.high = x.out.high /\ y.out.countdown >= x.out.countdown - 1
<1>1. CASE event = NoEvent \/ ~x.out.enabled
  <2>1. y = x /\ x.out.countdown \in 1..PPQN_MULTIPLIER
    BY <1>1 DEF Notified, SyncOuts
  <2> QED BY <1>1, <2>1 DEF NoEvent, Beat, Resync
<1>2. CASE event # NoEvent /\ x.out.enabled
  <2> DEFINE w == IF event = Resync THEN CutShort(x) ELSE x
             left == Counted(w, event)
  <2>1. w \in SyncOuts /\ w.out.countdown = x.out.countdown /\ w.out.enabled = x.out.enabled
    BY PulseIs
  <2>2. PPQN_MULTIPLIER \in 1..PPQN_MULTIPLIER
    BY MultiplierAssumption
  <2>3. x.out.countdown \in 1..PPQN_MULTIPLIER
    BY DEF SyncOuts
  <2>4. left = IF event \in {Resync, Beat} THEN 0 ELSE x.out.countdown - 1
    BY <2>1, <2>3 DEF Counted
  <2>5. Notified(x, event) = IF left > 0 THEN {[w EXCEPT !.out.countdown = left]}
                             ELSE {[z EXCEPT !.out.countdown = PPQN_MULTIPLIER] :
                                      z \in IF w.out.active THEN {w} ELSE Begun(w)}
    BY <1>2 DEF Notified
  <2>6. event = Tick => w = x
    BY DEF Tick, Resync
  <2> HIDE DEF w, left
  <2>7. CASE left > 0
    <3>1. y = [w EXCEPT !.out.countdown = left]
      BY <2>5, <2>7
    <3>3. event \notin {Resync, Beat} /\ left = x.out.countdown - 1
      BY <2>4, <2>7
    <3>4. left \in 1..PPQN_MULTIPLIER
      BY <2>3, <2>7, <3>3, MultiplierAssumption
    <3>2. y \in SyncOuts /\ y.out.enabled = w.out.enabled /\ y.out.countdown = left
          /\ y.out.high = w.out.high
      BY <2>1, <3>1, <3>4 DEF SyncOuts
    <3>5. event = Tick => y.out.high = x.out.high
      BY <2>6, <3>2
    <3>6. y.out.countdown >= x.out.countdown - 1
      BY <2>3, <3>2, <3>3
    <3> QED BY <1>2, <2>1, <3>2, <3>3, <3>5, <3>6
  <2>8. CASE ~(left > 0)
    <3>1. PICK z \in (IF w.out.active THEN {w} ELSE Begun(w)) :
             y = [z EXCEPT !.out.countdown = PPQN_MULTIPLIER]
      BY <2>5, <2>8
    <3>2. z \in SyncOuts /\ z.out.enabled = w.out.enabled
      BY <2>1, <3>1, PulseIs
    <3>3. y \in SyncOuts /\ y.out.enabled = z.out.enabled /\ y.out.countdown = PPQN_MULTIPLIER
      BY <2>2, <3>1, <3>2 DEF SyncOuts
    <3>4. ~(event = Tick /\ x.out.countdown > 1)
      BY <2>3, <2>4, <2>8 DEF Tick, Resync, Beat
    <3> QED BY <1>2, <2>1, <3>2, <3>3, <3>4
  <2> QED BY <2>4, <2>7, <2>8
<1> QED BY <1>1, <1>2

LEMMA EnabledIs ==
    ASSUME NEW x \in SyncOuts
    PROVE  /\ enable(x) \in SyncOuts /\ enable(x).out.enabled
           /\ enable(x).out.countdown = x.out.countdown
           /\ disable(x) \in SyncOuts
<1>1. [x EXCEPT !.out.enabled = FALSE] \in SyncOuts
  BY DEF SyncOuts
<1>2. disable(x) \in SyncOuts
  BY <1>1, PulseIs DEF disable
<1> QED BY <1>2 DEF enable, SyncOuts

\* The jack is an output with its alarms, before and after a step.
LEMMA JackIs ==
    ASSUME NEW x \in SyncOuts, Become(x)
    PROVE  Jack' = x /\ out' = x.out /\ Jack' \in SyncOuts
<1>1. x = [out |-> x.out, offAlarm |-> x.offAlarm]
  BY DEF SyncOuts
<1> QED BY <1>1 DEF Become, Jack

LEMMA SyncStarts == SyncInit => SyncInv
<1> SUFFICES ASSUME SyncInit PROVE SyncInv
  OBVIOUS
<1>1. sync \in SyncIns /\ sync.lowAge = Nil /\ sync.pulseAge = Nil
  BY MultiplierAssumption, TimeAssumption
     DEF SyncInit, SyncIns, States, LowAges, PulseAges
<1>2. Jack \in SyncOuts
  BY MultiplierAssumption DEF SyncInit, Jack, SyncOuts
<1>3. LowFor(sync, seen.low) /\ InStep
  BY <1>1 DEF SyncInit, LowFor, InStep
<1> QED BY <1>1, <1>2, <1>3 DEF SyncInit, SyncInv, LowAges, JackEvents

\* SyncIn's debouncing: a beat after the first comes out of a long enough low.
LEMMA LowKept ==
    ASSUME NEW s \in SyncIns, NEW low \in LowAges, LowFor(s, low), NEW dt \in Nat,
           NEW level \in BOOLEAN
    PROVE  LET after == IF level THEN Nil ELSE IF low = Nil THEN 0
                        ELSE Older(low, dt, PULSE_DEBOUNCE + 1)
           IN after \in LowAges /\ LowFor(Pulsed(Later(s, dt), level), after)
<1> DEFINE after == IF level THEN Nil ELSE IF low = Nil THEN 0
                    ELSE Older(low, dt, PULSE_DEBOUNCE + 1)
           l == Later(s, dt)  p == Pulsed(l, level)
<1>1. PULSE_DEBOUNCE \in Nat /\ 0 \in 0..PULSE_DEBOUNCE + 1 /\ PULSE_DEBOUNCE + 1 \in Nat
  BY MultiplierAssumption
<1>2. /\ Older(low, dt, PULSE_DEBOUNCE + 1) \in LowAges
      /\ low # Nil => /\ Older(low, dt, PULSE_DEBOUNCE + 1) \in 0..PULSE_DEBOUNCE + 1
                      /\ Older(low, dt, PULSE_DEBOUNCE + 1) >= low
                      /\ \A least \in 0..PULSE_DEBOUNCE + 1 : low >= least =>
                            Older(low, dt, PULSE_DEBOUNCE + 1) >= Older(least, dt, PULSE_DEBOUNCE + 1)
  BY <1>1, OlderIs DEF LowAges
<1>3. after \in LowAges
  BY <1>1, <1>2 DEF LowAges
<1>4. /\ l \in SyncIns /\ l.state = s.state
      /\ l.lowAge = Older(s.lowAge, dt, PULSE_DEBOUNCE + 1)
      /\ l.pulseAge = Nil <=> s.pulseAge = Nil
  BY LaterIs
<1>5. s.lowAge \in LowAges /\ s.state \in States
  BY DEF SyncIns
<1>6. Older(s.lowAge, dt, PULSE_DEBOUNCE + 1) \in LowAges
      /\ (Older(s.lowAge, dt, PULSE_DEBOUNCE + 1) = Nil <=> s.lowAge = Nil)
  BY <1>1, <1>5, OlderIs DEF LowAges
<1>7. CASE level
  <2>1. p.state = "WAITING_FOR_STABLE_LOW" /\ p.lowAge = Nil
    BY <1>4, <1>7, PulsedIs
  <2> QED BY <1>3, <2>1 DEF LowFor
<1>8. CASE ~level /\ s.state = "WAITING_FOR_STABLE_LOW"
  <2>1. /\ p.lowAge = IF l.lowAge = Nil THEN 0 ELSE l.lowAge
        /\ p.state = "WAITING_FOR_RISING_EDGE" => p.lowAge > PULSE_DEBOUNCE
    BY <1>4, <1>8, PulsedIs
  <2>2. after # Nil /\ after \in 0..PULSE_DEBOUNCE + 1
    BY <1>1, <1>2, <1>3, <1>8, NilAssumption DEF LowAges
  <2>3. after >= p.lowAge /\ p.lowAge \in 0..PULSE_DEBOUNCE + 1
    <3>1. CASE s.lowAge = Nil
      BY <1>1, <1>4, <1>6, <2>1, <2>2, <3>1
    <3>2. CASE s.lowAge # Nil
      <4>1. s.lowAge \in 0..PULSE_DEBOUNCE + 1 /\ low # Nil /\ low >= s.lowAge
        BY <1>5, <1>8, <3>2 DEF LowAges, LowFor
      <4>2. p.lowAge = Older(s.lowAge, dt, PULSE_DEBOUNCE + 1)
            /\ p.lowAge \in 0..PULSE_DEBOUNCE + 1
        BY <1>4, <1>6, <2>1, <3>2 DEF LowAges
      <4> QED BY <1>2, <1>8, <4>1, <4>2
    <3> QED BY <3>1, <3>2
  <2>4. after >= p.lowAge /\ (p.state = "WAITING_FOR_RISING_EDGE" => after > PULSE_DEBOUNCE)
    BY <1>1, <2>1, <2>2, <2>3
  <2> QED BY <1>3, <2>2, <2>4 DEF LowFor
<1>9. CASE ~level /\ s.state = "WAITING_FOR_RISING_EDGE"
  <2>1. p = l
    BY <1>4, <1>9, PulsedIs
  <2>2. CASE s.pulseAge = Nil
    BY <1>3, <1>4, <1>9, <2>1, <2>2 DEF LowFor
  <2>3. CASE s.pulseAge # Nil
    <3>1. low # Nil /\ low > PULSE_DEBOUNCE /\ low \in 0..PULSE_DEBOUNCE + 1
      BY <1>9, <2>3 DEF LowFor, LowAges
    <3>2. after # Nil /\ after > PULSE_DEBOUNCE
      BY <1>1, <1>2, <1>9, <3>1, NilAssumption
    <3> QED BY <1>3, <1>4, <1>9, <2>1, <3>2 DEF LowFor
  <2> QED BY <2>2, <2>3
<1> QED BY <1>5, <1>7, <1>8, <1>9 DEF States

\* What a step of the jack shows, besides its invariant.
BeatsAreReal ==
    /\ seen'.event = Beat /\ main # main' /\ main = "sync_in" /\ sync.pulseAge # Nil
          => seen.low # Nil /\ seen.low > PULSE_DEBOUNCE
    /\ seen.aligned /\ main = "sync_in" /\ out'.high /\ ~out.high
          => seen'.event \in {Beat, Resync}

LEMMA SyncInKeeps ==
    ASSUME SyncInv, SyncInUpdate PROVE SyncInv' /\ BeatsAreReal
<1> PICK dt \in 0..MaxStall, level, pin \in BOOLEAN :
        LET s == Later(sync, dt)
            p == Pulsed(s, level)
            event == IF IsBeat(s, level) THEN Beat ELSE IF IsTick(p) THEN Tick ELSE NoEvent
        IN /\ sync' = Ticked(p)
           /\ cable' = Detected(cable, pin, dt)
           /\ IF source = "sync" THEN \E x \in Notified(Jack, event) : Become(x)
                                 ELSE UNCHANGED <<out, offAlarm>>
           /\ seen' = [low |-> IF level THEN Nil ELSE IF seen.low = Nil THEN 0
                               ELSE Older(seen.low, dt, PULSE_DEBOUNCE + 1),
                       event |-> event,
                       aligned |-> seen.aligned \/ (source = "sync" /\ event = Beat)]
  BY DEF SyncInUpdate
<1> DEFINE s == Later(sync, dt)  p == Pulsed(s, level)
           event == IF IsBeat(s, level) THEN Beat ELSE IF IsTick(p) THEN Tick ELSE NoEvent
           low == IF level THEN Nil ELSE IF seen.low = Nil THEN 0
                  ELSE Older(seen.low, dt, PULSE_DEBOUNCE + 1)
<1>1. dt \in Nat
  BY TimeAssumption
<1>2. /\ s \in SyncIns /\ s.state = sync.state /\ s.ticks = sync.ticks
      /\ s.pulseAge = Nil <=> sync.pulseAge = Nil
  BY <1>1, LaterIs DEF SyncInv
<1>3. p \in SyncIns /\ (~IsBeat(s, level) => p.ticks = sync.ticks)
  BY <1>2, PulsedIs
<1>4. low \in LowAges /\ LowFor(p, low)
  BY <1>1, LowKept DEF SyncInv
<1>5. /\ sync' = Ticked(p) /\ sync' \in SyncIns
      /\ sync'.state = p.state /\ sync'.lowAge = p.lowAge /\ sync'.pulseAge = p.pulseAge
      /\ sync'.ticks = IF IsTick(p) THEN p.ticks + 1 ELSE p.ticks
      /\ IsTick(p) => p.ticks < PPQN_MULTIPLIER - 1
      /\ p.ticks \in 0..PPQN_MULTIPLIER - 1
  BY <1>3, TickedIs DEF SyncIns
<1>6. /\ seen' = [low |-> low, event |-> event,
                  aligned |-> seen.aligned \/ (source = "sync" /\ event = Beat)]
      /\ seen.aligned \in BOOLEAN /\ event \in JackEvents
  BY DEF SyncInv, JackEvents
<1>7. /\ IF source = "sync" THEN \E x \in Notified(Jack, event) : Become(x)
                            ELSE UNCHANGED <<out, offAlarm>>
      /\ source' = source /\ main = "sync_in" /\ main' = "sources"
  BY DEF SyncInUpdate
<1>8. /\ IsBeat(s, level) <=> event = Beat
      /\ ~IsBeat(s, level) /\ IsTick(p) <=> event = Tick
      /\ event \in {Beat, Tick, NoEvent} /\ Beat # Tick /\ NoEvent # Tick
  BY DEF Beat, Tick, NoEvent
<1>9. event = Beat => sync.state = "WAITING_FOR_RISING_EDGE"
  BY <1>2, <1>8 DEF IsBeat
<1> HIDE DEF event, low, p, s
<1>10. LowFor(sync', low)
  BY <1>4, <1>5 DEF LowFor
<1>11. seen'.event = Beat /\ sync.pulseAge # Nil => seen.low # Nil /\ seen.low > PULSE_DEBOUNCE
  BY <1>6, <1>9 DEF SyncInv, LowFor
<1>12. CASE source = "sync"
  <2>1. PICK x \in Notified(Jack, event) : Become(x)
    BY <1>7, <1>12
  <2>2. Jack \in SyncOuts /\ Jack.out = out /\ out.enabled /\ out.countdown \in 1..PPQN_MULTIPLIER
    BY <1>12 DEF SyncInv, InStep, Jack, SyncOuts
  <2>3. /\ x \in SyncOuts /\ x.out.enabled
        /\ event = NoEvent => x = Jack
        /\ event = Beat => x.out.countdown = PPQN_MULTIPLIER
        /\ event = Tick /\ out.countdown > 1 =>
              x.out.high = out.high /\ x.out.countdown >= out.countdown - 1
    BY <1>6, <2>2, NotifiedIs
  <2>4. out' = x.out /\ Jack' \in SyncOuts /\ x.out.countdown \in 1..PPQN_MULTIPLIER
    BY <2>1, <2>3, JackIs DEF SyncOuts
  <2>5. /\ seen.aligned => out.countdown + sync.ticks >= PPQN_MULTIPLIER
        /\ PPQN_MULTIPLIER \in Nat
    BY MultiplierAssumption DEF SyncInv, InStep
  <2>6. sync.ticks \in 0..PPQN_MULTIPLIER - 1 /\ sync'.ticks \in 0..PPQN_MULTIPLIER - 1
    BY <1>5 DEF SyncInv, SyncIns
  <2>7. seen'.aligned => out'.countdown + sync'.ticks >= PPQN_MULTIPLIER
    <3>1. CASE event = Beat
      BY <2>3, <2>4, <2>5, <2>6, <3>1
    <3>2. CASE event = Tick
      <4>1. sync'.ticks = sync.ticks + 1 /\ sync.ticks < PPQN_MULTIPLIER - 1
        BY <1>3, <1>5, <1>8, <3>2
      <4>2. seen'.aligned = seen.aligned
        BY <1>6, <1>8, <3>2
      <4> QED BY <2>2, <2>3, <2>4, <2>5, <2>6, <3>2, <4>1, <4>2
    <3>3. CASE event = NoEvent
      <4>1. sync'.ticks = sync.ticks /\ out' = out
        BY <1>3, <1>5, <1>8, <2>2, <2>3, <2>4, <3>3 DEF Beat, NoEvent
      <4>2. seen'.aligned = seen.aligned
        BY <1>6, <3>3 DEF Beat, NoEvent
      <4> QED BY <2>5, <4>1, <4>2
    <3> QED BY <1>8, <3>1, <3>2, <3>3
  <2>8. seen.aligned /\ out'.high /\ ~out.high => event \in {Beat, Resync}
    <3>1. CASE event = NoEvent
      BY <2>2, <2>3, <2>4, <3>1
    <3>2. CASE event = Tick /\ seen.aligned
      <4>1. sync.ticks < PPQN_MULTIPLIER - 1
        BY <1>3, <1>5, <1>8, <3>2
      <4>2. out.countdown > 1
        BY <2>2, <2>5, <2>6, <3>2, <4>1
      <4> QED BY <2>3, <2>4, <3>2, <4>2
    <3> QED BY <1>8, <3>1, <3>2
  <2>9. InStep'
    BY <1>7, <1>12, <2>3, <2>4, <2>7 DEF InStep
  <2> QED BY <1>4, <1>5, <1>6, <1>7, <1>10, <1>11, <2>4, <2>8, <2>9 DEF SyncInv, BeatsAreReal
<1>13. CASE source # "sync"
  <2>1. UNCHANGED <<out, offAlarm>> /\ ~seen.aligned /\ seen'.aligned = FALSE
    BY <1>6, <1>7, <1>13 DEF SyncInv, InStep
  <2>2. InStep' /\ Jack' = Jack
    BY <1>7, <1>13, <2>1 DEF InStep, Jack
  <2> QED BY <1>4, <1>5, <1>6, <1>7, <1>10, <1>11, <2>1, <2>2 DEF SyncInv, BeatsAreReal
<1> QED BY <1>12, <1>13

\* Another source is never aligned to the jack, and the jack's output is enabled.
LEMMA SourcesKeep ==
    ASSUME SyncInv, Sources PROVE SyncInv' /\ BeatsAreReal
<1> PICK ticks, allow \in BOOLEAN :
        LET event == IF source = "other" /\ ticks THEN Tick ELSE NoEvent
            turned == IF source = "sync" /\ source' = "other" THEN Resync ELSE NoEvent
        IN \E x \in Notified(Jack, event) : \E y \in Notified(x, turned) :
              Become(IF allow \/ source' = "sync" THEN enable(y) ELSE disable(y))
  BY DEF Sources
<1> DEFINE event == IF source = "other" /\ ticks THEN Tick ELSE NoEvent
           turned == IF source = "sync" /\ source' = "other" THEN Resync ELSE NoEvent
<1>1. PICK x \in Notified(Jack, event) : \E y \in Notified(x, turned) :
         Become(IF allow \/ source' = "sync" THEN enable(y) ELSE disable(y))
  OBVIOUS
<1>2. PICK y \in Notified(x, turned) :
         Become(IF allow \/ source' = "sync" THEN enable(y) ELSE disable(y))
  BY <1>1
<1>3. event \in JackEvents /\ turned \in JackEvents
  BY DEF JackEvents
<1>4. x \in SyncOuts /\ (event = NoEvent => x = Jack)
  BY <1>3, NotifiedIs DEF SyncInv
<1>5. y \in SyncOuts /\ (turned = NoEvent => y = x)
  BY <1>3, <1>4, NotifiedIs
<1> DEFINE z == IF allow \/ source' = "sync" THEN enable(y) ELSE disable(y)
<1>6. /\ z \in SyncOuts
      /\ source' = "sync" => z.out.enabled /\ z.out.countdown = y.out.countdown
  BY <1>5, EnabledIs
<1>7. Jack' \in SyncOuts /\ out' = z.out
  BY <1>2, <1>6, JackIs
<1>8. source' \in {"sync", "other"} /\ main = "sources" /\ main' = "sync_in" /\ sync' = sync
      /\ seen' = [seen EXCEPT !.aligned = seen.aligned /\ source' = "sync"]
  BY DEF Sources, SyncInv
<1>9. seen' \in [low : LowAges, event : JackEvents, aligned : BOOLEAN]
      /\ seen'.low = seen.low /\ seen'.aligned = (seen.aligned /\ source' = "sync")
  BY <1>8 DEF SyncInv
<1>10. CASE seen'.aligned
  <2>1. source = "sync" /\ source' = "sync" /\ seen.aligned
    BY <1>9, <1>10 DEF SyncInv, InStep
  <2>2. y = Jack
    BY <1>4, <1>5, <2>1
  <2>3. out'.countdown = out.countdown /\ out'.enabled
    BY <1>6, <1>7, <2>1, <2>2 DEF Jack
  <2> QED BY <1>7, <1>8, <1>9, <2>1, <2>3 DEF SyncInv, InStep, BeatsAreReal
<1>11. CASE ~seen'.aligned
  BY <1>6, <1>7, <1>8, <1>9, <1>11 DEF SyncInv, InStep, BeatsAreReal
<1> QED BY <1>10, <1>11

LEMMA ResyncKeeps ==
    ASSUME SyncInv, TriggerResync PROVE SyncInv' /\ BeatsAreReal
<1>1. PICK x \in Notified(Jack, Resync) : Become([x EXCEPT !.out.countdown = PPQN_MULTIPLIER])
  BY DEF TriggerResync
<1>2. x \in SyncOuts /\ x.out.enabled = out.enabled
  BY NotifiedIs DEF SyncInv, JackEvents, Jack
<1> DEFINE z == [x EXCEPT !.out.countdown = PPQN_MULTIPLIER]
<1>3. z \in SyncOuts /\ z.out.enabled = out.enabled /\ z.out.countdown = PPQN_MULTIPLIER
  BY <1>2, MultiplierAssumption DEF SyncOuts
<1>4. Jack' \in SyncOuts /\ out' = z.out
  BY <1>1, <1>3, JackIs
<1>5. UNCHANGED <<sync, source, main>> /\ seen' = [seen EXCEPT !.event = Resync]
  BY DEF TriggerResync
<1>6. seen' \in [low : LowAges, event : JackEvents, aligned : BOOLEAN]
      /\ seen'.low = seen.low /\ seen'.aligned = seen.aligned /\ seen'.event = Resync
  BY <1>5 DEF SyncInv, JackEvents
<1>7. sync.ticks \in Nat /\ PPQN_MULTIPLIER \in Nat
  BY MultiplierAssumption DEF SyncInv, SyncIns
<1>8. InStep'
  BY <1>3, <1>4, <1>5, <1>6, <1>7 DEF SyncInv, InStep
<1> QED BY <1>4, <1>5, <1>6, <1>8 DEF SyncInv, BeatsAreReal

LEMMA AlarmKeeps ==
    ASSUME SyncInv, PulseOffAlarm PROVE SyncInv' /\ BeatsAreReal
<1>1. PICK w \in SyncOuts : w.out = out /\ Become(trigger_pulse_off(w))
  <2>1. [Jack EXCEPT !.offAlarm.own = FALSE] \in SyncOuts /\ [Jack EXCEPT !.offAlarm.left = FALSE] \in SyncOuts
    BY DEF SyncInv, SyncOuts
  <2>2. [Jack EXCEPT !.offAlarm.own = FALSE].out = out /\ [Jack EXCEPT !.offAlarm.left = FALSE].out = out
    BY DEF Jack
  <2> QED BY <2>1, <2>2 DEF PulseOffAlarm
<1> DEFINE z == trigger_pulse_off(w)
<1>2. z \in SyncOuts /\ ~z.out.high /\ z.out.countdown = out.countdown /\ z.out.enabled = out.enabled
  BY <1>1, PulseIs
<1> HIDE DEF z
<1>3. Jack' \in SyncOuts /\ out' = z.out
  BY <1>1, <1>2, JackIs DEF z
<1>4. UNCHANGED <<sync, source, main, seen>>
  BY DEF PulseOffAlarm
<1> QED BY <1>2, <1>3, <1>4 DEF SyncInv, InStep, BeatsAreReal

LEMMA SyncStep == SyncInv /\ [SyncNext]_syncVars => SyncInv' /\ [BeatsAreReal]_syncVars
<1> SUFFICES ASSUME SyncInv, [SyncNext]_syncVars PROVE SyncInv' /\ [BeatsAreReal]_syncVars
  OBVIOUS
<1>1. CASE UNCHANGED syncVars
  BY <1>1 DEF syncVars, SyncInv, InStep, Jack
<1> QED BY <1>1, SyncInKeeps, SourcesKeep, ResyncKeeps, AlarmKeeps DEF SyncNext

\* For every debounce, tempo and length of an iteration: contacts that bounce
\* make one beat, and an output aligned to the jack pulses with its beats and
\* with resyncs only.
THEOREM PulsesFollowBeatsAlways == SyncSpec => PulsesFollowBeats
<1>1. [BeatsAreReal]_syncVars =>
        [ /\ seen'.event = Beat /\ main # main' /\ main = "sync_in" /\ sync.pulseAge # Nil
                => seen.low # Nil /\ seen.low > PULSE_DEBOUNCE
          /\ seen.aligned /\ main = "sync_in" /\ out'.high /\ ~out.high
                => seen'.event \in {Beat, Resync} ]_syncVars
  BY DEF BeatsAreReal
<1> QED BY <1>1, SyncStarts, SyncStep, PTL DEF SyncSpec, PulsesFollowBeats
=============================================================================

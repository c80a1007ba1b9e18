------------------------ MODULE StepSequencer_proofs -----------------------
(***************************************************************************)
(* Proofs about the step sequencer for every pattern length and swing      *)
(* offset, and about its tracks: the random and repeat effects and the     *)
(* traces of what was hit. The inductive invariant of the sequencer says   *)
(* where in the cycle a step can still be due: update() plays it before    *)
(* the other half begins; that of the tracks that a loop has been heard as *)
(* it is, and that a trace has faded as long as its hit is old.            *)
(***************************************************************************)
EXTENDS StepSequencer, TrackSteps, SequenceTheorems, TLAPS

\* A running sequencer that awaits no beat has heard the stream's last phase.
FollowsStream == running /\ ~waiting => last = phase

\* A step that is due before the stream has settled is played before the
\* phase comes round to 0.
PlayedBeforeDownbeat ==
    running /\ ~waiting /\ ~settled /\ due => phase - burst <= 11 - MaxBurst

\* Afterwards a step has been due no longer than the events since the last
\* update() tell.
DueSince ==
    running /\ settled /\ due =>
        LET onset == Onset(swing, step % 2 = 0)
        IN  last \in onset .. onset + burst - 1

\* At most one step sounds after a stop, since update() has cleared the flag.
OneStray == strays = 0 \/ (strays = 1 /\ ~running /\ ~due)

IInv ==
    /\ TypeOK
    /\ FollowsStream
    /\ PlayedBeforeDownbeat
    /\ DueSince
    /\ OnsetTaken
    /\ OneStray

-----------------------------------------------------------------------------
(* Lemmas about the operators *)

\* The step counter stays within the pattern, and wrapping it keeps parity.
LEMMA WrapKeepsParity ==
    ASSUME NEW i \in Steps
    PROVE  /\ (i + 1) % NumSteps \in Steps
           /\ ((i + 1) % NumSteps) % 2 = 0 <=> (i + 1) % 2 = 0
           /\ (i + 1) % 2 = 0 <=> ~(i % 2 = 0)
  <1>1. NumSteps \in Nat \ {0} /\ NumSteps % 2 = 0 /\ i \in Nat /\ i + 1 <= NumSteps
    BY NumStepsAssumption DEF Steps
  <1>2. (i + 1) % 2 = 0 <=> ~(i % 2 = 0)
    BY <1>1
  <1>3. CASE i + 1 = NumSteps
    <2>1. (i + 1) % NumSteps = 0
      BY <1>1, <1>3
    <2> QED BY <1>1, <1>2, <1>3, <2>1 DEF Steps
  <1>4. CASE i + 1 < NumSteps
    <2>1. (i + 1) % NumSteps = i + 1
      BY <1>1, <1>4
    <2> QED BY <1>1, <1>2, <1>4, <2>1 DEF Steps
  <1> QED BY <1>1, <1>3, <1>4

\* Even steps sound in the first half of the cycle, odd ones in the second,
\* at its start or SwingOffset later.
LEMMA OnsetHalf ==
    ASSUME NEW s \in Swing
    PROVE  /\ Onset(s, TRUE) \in {0, SwingOffset}
           /\ Onset(s, FALSE) \in {6, 6 + SwingOffset}
           /\ SwingOffset \in 1..5
  BY SwingAssumption DEF Onset

\* A window of one event holds the phase of that event alone.
LEMMA PassedOne ==
    ASSUME NEW p \in 0..11
    PROVE  /\ Passed(p, (p + 1) % 12) = {(p + 1) % 12}
           /\ (p + 1) % 12 \in 0..11
           /\ Passed(Before(p), p) = {p}
           /\ Before(p) \in 0..11
  <1>1. (p + 1) % 12 = IF p = 11 THEN 0 ELSE p + 1
    OBVIOUS
  <1>2. Before(p) = IF p = 0 THEN 11 ELSE p - 1
    BY DEF Before
  <1>3. Passed(p, (p + 1) % 12) = {(p + 1) % 12}
    <2>1. CASE p = 11
      BY <1>1, <2>1 DEF Passed
    <2>2. CASE p # 11
      BY <1>1, <2>2 DEF Passed
    <2> QED BY <2>1, <2>2
  <1>4. Passed(Before(p), p) = {p}
    <2>1. CASE p = 0
      BY <1>2, <2>1 DEF Passed
    <2>2. CASE p # 0
      BY <1>2, <2>2 DEF Passed
    <2> QED BY <2>1, <2>2
  <1> QED BY <1>1, <1>2, <1>3, <1>4

\* With or without REPEAT the next step has the transport's parity.
LEMMA ParityOfTransport ==
    ASSUME TypeOK
    PROVE  NextIsEven <=> step % 2 = 0
  <1>1. repeat.length \in {0, 1, 3}
    BY DEF TypeOK, RepeatLength
  <1>2. CASE repeat.length = 0
    BY <1>2 DEF NextIsEven, BaseStepIndex
  <1>3. CASE repeat.length > 0
    BY <1>3 DEF NextIsEven
  <1> QED BY <1>1, <1>2, <1>3

\* A pending setting is a swing setting.
LEMMA SwingAtType ==
    ASSUME TypeOK, NEW p
    PROVE  /\ SwingAt(p) \in Swing
           /\ p # 0 => SwingAt(p) = swing
  <1>1. CASE pending # {} /\ p = 0
    <2>1. PICK s \in Swing : pending = {s}
      BY <1>1 DEF TypeOK
    <2>2. SwingAt(p) = s
      BY <1>1, <2>1, Zenon DEF SwingAt
    <2> QED BY <1>1, <2>2
  <1>2. CASE ~(pending # {} /\ p = 0)
    BY <1>2 DEF SwingAt, TypeOK
  <1> QED BY <1>1, <1>2

\* Whatever the sequencer hears keeps its own variables within their types.
LEMMA HearsType ==
    ASSUME TypeOK, NEW p \in 0..11, NEW l, Hears(p, l)
    PROVE  /\ swing' \in Swing
           /\ pending' \in {{}} \cup {{s} : s \in Swing}
           /\ last' = p
           /\ due' \in BOOLEAN
           /\ substep' \in BOOLEAN
  <1>1. swing' \in Swing
    BY SwingAtType DEF Hears
  <1>2. pending' \in {{}} \cup {{s} : s \in Swing}
    BY DEF Hears, TypeOK
  <1>3. last' = p /\ due' \in BOOLEAN /\ substep' \in BOOLEAN
    BY DEF Hears, TypeOK
  <1> QED BY <1>1, <1>2, <1>3

\* What the stream may do next, and where that leaves it.
LEMMA StreamTypes ==
    ASSUME TypeOK
    PROVE  /\ Stream!Advance => /\ phase' = (phase + 1) % 12 /\ phase' \in 0..11
                                /\ ~waiting /\ UNCHANGED <<master, waiting>>
           /\ Stream!Downbeat => /\ phase' \in {0, 3, 6, 9} /\ waiting' = FALSE
                                 /\ UNCHANGED master
  BY PassedOne DEF Stream!Advance, Stream!Downbeat, TypeOK

\* The types of what an event changes, whether it is heard or not.
HeardTypes ==
    /\ last' \in 0..11
    /\ due' \in BOOLEAN
    /\ swing' \in Swing
    /\ pending' \in {{}} \cup {{s} : s \in Swing}
    /\ settled' \in BOOLEAN
    /\ gap' \in 0..Unknown
    /\ substep' \in BOOLEAN

\* A tick, a jump and an event that is not heard keep those types.
LEMMA HeardKeepsTypes ==
    ASSUME TypeOK, NEW p \in 0..11, NEW resync,
           HearsTick(p) \/ HearsJump(p, resync) \/ NotHeard
    PROVE  HeardTypes
  <1>1. CASE HearsTick(p)
    <2>1. Hears(p, last)
      BY <1>1 DEF HearsTick
    <2>2. settled' \in BOOLEAN
      BY <1>1 DEF HearsTick, TypeOK
    <2>3. gap' \in 0..Unknown
      <3>1. gap' \in {0, Unknown} \/ (gap < Unknown /\ gap' = gap + 1)
        BY <1>1 DEF HearsTick
      <3> QED BY <3>1 DEF TypeOK, Unknown
    <2> QED BY <2>1, <2>2, <2>3, HearsType DEF HeardTypes
  <1>2. CASE HearsJump(p, resync)
    <2>1. PICK l : Hears(p, l)
      BY <1>2, Zenon DEF HearsJump
    <2>2. settled' \in BOOLEAN
      BY <1>2, Zenon DEF HearsJump
    <2>3. gap' \in 0..Unknown
      BY <1>2 DEF HearsJump, Unknown
    <2> QED BY <2>1, <2>2, <2>3, HearsType DEF HeardTypes
  <1>3. CASE NotHeard
    <2>1. /\ last' = last /\ due' = due /\ swing' = swing /\ pending' = pending
          /\ settled' = settled /\ gap' = gap /\ substep' = substep
      BY <1>3 DEF NotHeard
    <2> QED BY <2>1 DEF HeardTypes, TypeOK
  <1> QED BY <1>1, <1>2, <1>3

\* The rest of what an event changes: the count of the burst.
LEMMA EventKeepsTypes ==
    ASSUME TypeOK, HeardTypes,
           phase' \in 0..11, waiting' \in BOOLEAN,
           master' \in {"INTERNAL", "MIDI", "EXTERNAL_SYNC"},
           \/ running /\ burst < MaxBurst /\ burst' = burst + 1
           \/ UNCHANGED burst,
           UNCHANGED <<running, step, repeat, strays>>
    PROVE  TypeOK'
  <1>1. burst' \in 0..MaxBurst
    BY BurstAssumption DEF TypeOK
  <1>2. /\ running' \in BOOLEAN /\ step' \in Steps /\ strays' \in 0..2
        /\ repeat' \in [length : RepeatLength \cup {0}, start : Steps, since : 0..2]
    BY DEF TypeOK
  <1> QED BY <1>1, <1>2 DEF TypeOK, HeardTypes

-----------------------------------------------------------------------------
(* Type correctness *)

LEMMA TypeInit == Init => TypeOK
  <1> SUFFICES ASSUME Init PROVE TypeOK
    OBVIOUS
  <1>1. master = "INTERNAL" /\ waiting = FALSE /\ phase = 0
    BY DEF Init, Stream!Init
  <1>2. step \in Steps /\ 0 \in Steps
    BY NumStepsAssumption DEF Init, Steps
  <1>3. repeat \in [length : RepeatLength \cup {0}, start : Steps, since : 0..2]
    BY <1>2 DEF Init, NoRepeat
  <1>4. swing \in Swing /\ pending \in {{s} : s \in Swing}
    BY DEF Init, Swing
  <1>5. burst \in 0..MaxBurst /\ gap \in 0..Unknown
    BY BurstAssumption DEF Init, Unknown
  <1>6. last \in 0..11 /\ strays \in 0..2 /\ phase \in 0..11
    BY <1>1 DEF Init
  <1>7. /\ master \in {"INTERNAL", "MIDI", "EXTERNAL_SYNC"}
        /\ waiting \in BOOLEAN /\ running \in BOOLEAN /\ due \in BOOLEAN
        /\ settled \in BOOLEAN /\ substep \in BOOLEAN
    BY <1>1, Zenon DEF Init
  <1> QED BY <1>2, <1>3, <1>4, <1>5, <1>6, <1>7 DEF TypeOK

\* What the REPEAT button leaves behind is a loop of a known length.
LEMMA RepeatedType ==
    ASSUME TypeOK, NEW length \in RepeatLength \cup {0}
    PROVE  Repeated(length) \in [length : RepeatLength \cup {0}, start : Steps, since : 0..2]
  <1>1. 0 \in Steps
    BY NumStepsAssumption DEF Steps
  <1>2. CASE length = 0
    <2>1. Repeated(length) = [length |-> 0, start |-> 0, since |-> 0]
      BY <1>2 DEF Repeated, NoRepeat
    <2> QED BY <1>1, <2>1
  <1>3. CASE length # 0 /\ repeat.length = 0
    BY <1>3 DEF Repeated, TypeOK
  <1>4. CASE length # 0 /\ repeat.length # 0
    <2>1. Repeated(length) = [repeat EXCEPT !.length = length]
      BY <1>4 DEF Repeated
    <2> QED BY <2>1 DEF TypeOK
  <1> QED BY <1>2, <1>3, <1>4

LEMMA TypeNext == TypeOK /\ [Next]_vars => TypeOK'
  <1> SUFFICES ASSUME TypeOK, [Next]_vars PROVE TypeOK'
    OBVIOUS
  <1>1. CASE Tick
    <2>1. Stream!Advance /\ Event(HearsTick(phase'))
      BY <1>1 DEF Tick
    <2>2. HearsTick(phase') \/ NotHeard
      BY <2>1 DEF Event
    <2>3. HeardTypes
      BY <2>1, <2>2, StreamTypes, HeardKeepsTypes
    <2> QED BY <2>1, <2>3, StreamTypes, EventKeepsTypes DEF Event, TypeOK
  <1>2. CASE Beat
    <2>1. Stream!Downbeat /\ Event(HearsJump(phase', FALSE))
      BY <1>2 DEF Beat
    <2>2. HearsJump(phase', FALSE) \/ NotHeard
      BY <2>1, Zenon DEF Event
    <2>3. /\ phase' \in 0..11 /\ waiting' \in BOOLEAN
          /\ master' \in {"INTERNAL", "MIDI", "EXTERNAL_SYNC"}
      <3>1. phase' \in {0, 3, 6, 9} /\ waiting' = FALSE /\ master' = master
        BY <2>1, StreamTypes
      <3>2. phase' \in 0..11
        BY <3>1
      <3> QED BY <3>1, <3>2, Zenon DEF TypeOK
    <2>4. HeardTypes
      BY <2>2, <2>3, HeardKeepsTypes
    <2> QED BY <2>1, <2>3, <2>4, EventKeepsTypes DEF Event
  <1>3. CASE MidiRestart
    <2>1. /\ phase' = 0 /\ UNCHANGED <<master, waiting>>
          /\ Event(HearsJump(0, TRUE))
      BY <1>3 DEF MidiRestart, Stream!Restart
    <2>2. HearsJump(0, TRUE) \/ NotHeard
      BY <2>1, Zenon DEF Event
    <2>3. /\ phase' \in 0..11 /\ 0 \in 0..11 /\ waiting' \in BOOLEAN
          /\ master' \in {"INTERNAL", "MIDI", "EXTERNAL_SYNC"}
      BY <2>1 DEF TypeOK
    <2>4. HeardTypes
      BY <2>2, <2>3, HeardKeepsTypes, Zenon
    <2> QED BY <2>1, <2>3, <2>4, EventKeepsTypes DEF Event
  <1>4. CASE ChangeMaster
    <2>1. /\ master' \in {"INTERNAL", "MIDI", "EXTERNAL_SYNC"}
          /\ waiting' \in BOOLEAN /\ phase' \in 0..11
      <3>1. PICK m \in {"INTERNAL", "MIDI", "EXTERNAL_SYNC"} : Stream!ChangeMaster(m)
        BY <1>4 DEF ChangeMaster
      <3>2. CASE m = "EXTERNAL_SYNC"
        BY <3>1, <3>2 DEF Stream!ChangeMaster, TypeOK
      <3>3. CASE m # "EXTERNAL_SYNC"
        <4>1. master' = m /\ waiting' = FALSE /\ phase' = 0
          BY <3>1, <3>3, Zenon DEF Stream!ChangeMaster
        <4>2. phase' \in 0..11
          BY <4>1
        <4> QED BY <4>1, <4>2, Zenon
      <3> QED BY <3>2, <3>3
    <2>2. CASE master' = "EXTERNAL_SYNC"
      BY <1>4, <2>1, <2>2 DEF ChangeMaster, TypeOK, history
    <2>3. CASE master' # "EXTERNAL_SYNC"
      <3>1. Event(HearsJump(0, TRUE))
        BY <1>4, <2>3 DEF ChangeMaster
      <3>2. HearsJump(0, TRUE) \/ NotHeard
        BY <3>1, Zenon DEF Event
      <3>3. HeardTypes
        BY <3>2, 0 \in 0..11, HeardKeepsTypes, Zenon
      <3> QED BY <2>1, <3>1, <3>3, EventKeepsTypes DEF Event
    <2> QED BY <2>2, <2>3
  <1>5. CASE Start
    <2>1. CASE master = "EXTERNAL_SYNC"
      <3>1. AnchorOf(last) \in 0..11
        BY DEF AnchorOf
      <3>2. last' \in 0..11
        BY <1>5, <2>1, <3>1, PassedOne DEF Start
      <3>3. /\ master' = master /\ waiting' = TRUE /\ phase' = phase
            /\ due' = due /\ swing' = swing /\ pending' = pending /\ substep' = substep
        BY <1>5, <2>1 DEF Start, Stream!Hold
      <3>4. /\ running' = TRUE /\ step' = step /\ repeat' = repeat
            /\ burst' = 0 /\ settled' = FALSE /\ gap' = Unknown /\ strays' = 0
        BY <1>5 DEF Start
      <3>5. burst' \in 0..MaxBurst /\ gap' \in 0..Unknown /\ strays' \in 0..2
        BY <3>4, BurstAssumption DEF Unknown
      <3> QED BY <3>2, <3>3, <3>4, <3>5, Zenon DEF TypeOK
    <2>2. CASE master # "EXTERNAL_SYNC"
      <3>1. /\ phase' \in 0..11 /\ Hears(phase', Before(phase'))
            /\ UNCHANGED <<master, waiting>>
        BY <1>5, <2>2 DEF Start, Stream!AnchorPlayback, AnchorOf
      <3>2. /\ running' = TRUE /\ step' = step /\ repeat' = repeat
            /\ burst' = 0 /\ settled' = FALSE /\ gap' = Unknown /\ strays' = 0
        BY <1>5 DEF Start
      <3>3. /\ swing' \in Swing /\ pending' \in {{}} \cup {{s} : s \in Swing}
            /\ last' \in 0..11 /\ due' \in BOOLEAN /\ substep' \in BOOLEAN
        BY <3>1, HearsType
      <3>4. burst' \in 0..MaxBurst /\ gap' \in 0..Unknown /\ strays' \in 0..2
        BY <3>2, BurstAssumption DEF Unknown
      <3>5. master' = master /\ waiting' = waiting
        BY <3>1
      <3> QED BY <3>1, <3>2, <3>3, <3>4, <3>5, Zenon DEF TypeOK
    <2> QED BY <2>1, <2>2
  <1>6. CASE Stop
    <2>1. /\ running' = FALSE /\ settled' = FALSE /\ substep' = FALSE
          /\ burst' = 0 /\ gap' = Unknown /\ strays' = 0
          /\ UNCHANGED <<master, waiting, phase, last, due, step, repeat, swing, pending>>
      BY <1>6 DEF Stop, stream
    <2>2. burst' \in 0..MaxBurst /\ gap' \in 0..Unknown /\ strays' \in 0..2
      BY <2>1, BurstAssumption DEF Unknown
    <2>3. running' \in BOOLEAN /\ settled' \in BOOLEAN /\ substep' \in BOOLEAN
      BY <2>1, Zenon
    <2> QED BY <2>1, <2>2, <2>3 DEF TypeOK
  <1>7. ASSUME NEW s \in Swing, SetSwing(s) PROVE TypeOK'
    BY <1>7 DEF SetSwing, TypeOK, stream, history
  <1>8. ASSUME NEW length \in RepeatLength \cup {0}, SetRepeat(length) PROVE TypeOK'
    BY <1>8, RepeatedType DEF SetRepeat, TypeOK, stream, history
  <1>9. CASE ClearRepeat
    <2>1. 0 \in Steps
      BY NumStepsAssumption DEF Steps
    <2> QED BY <1>9, <2>1 DEF ClearRepeat, NoRepeat, TypeOK, stream, history
  <1>10. CASE ManualStep
    BY <1>10 DEF ManualStep, TypeOK, stream
  <1>11. CASE Update
    <2>1. due' \in BOOLEAN /\ step' \in Steps
      BY <1>11, WrapKeepsParity DEF Update, PlayStep, TypeOK
    <2>2. repeat' \in [length : RepeatLength \cup {0}, start : Steps, since : 0..2]
      <3>1. (repeat.since + 1) % 3 \in 0..2
        BY DEF TypeOK
      <3>2. repeat' = repeat \/ repeat' = [repeat EXCEPT !.since = (repeat.since + 1) % 3]
        BY <1>11 DEF Update, PlayStep
      <3> QED BY <3>1, <3>2 DEF TypeOK
    <2>3. strays' \in 0..2
      BY <1>11 DEF Update, TypeOK
    <2> QED
      BY <1>11, <2>1, <2>2, <2>3, BurstAssumption DEF Update, TypeOK, stream
  <1>12. CASE UNCHANGED vars
    BY <1>12 DEF vars, stream, history, TypeOK
  <1> QED
    BY <1>1, <1>2, <1>3, <1>4, <1>5, <1>6, <1>7, <1>8, <1>9, <1>10, <1>11, <1>12
    DEF Next

\* Every variable stays within its type, for every pattern length, swing
\* offset and delay of update().
THEOREM TypeCorrect == Spec => []TypeOK
  <1>1. TypeOK /\ [Next]_vars => TypeOK'
    BY TypeNext
  <1> QED BY TypeInit, <1>1, PTL DEF Spec

-----------------------------------------------------------------------------
(* The inductive invariant *)

\* What Hears does to the sequencer's own state, in terms of the onset.
LEMMA HearsDue ==
    ASSUME TypeOK, NEW p \in 0..11, NEW l, Hears(p, l)
    PROVE  /\ last' = p
           /\ swing' \in Swing
           /\ p # 0 => swing' = swing
           /\ due' <=> due \/ Onset(swing', step % 2 = 0) \in Passed(l, p)
  <1>1. NextIsEven = (step % 2 = 0)
    BY ParityOfTransport, Zenon DEF NextIsEven
  <1>2. swing' = SwingAt(p) /\ last' = p
    BY DEF Hears
  <1>3. due' <=> due \/ Onset(swing', NextIsEven) \in Passed(l, p)
    BY DEF Hears
  <1> QED BY <1>1, <1>2, <1>3, SwingAtType

\* Before the phase reaches 0 the step that was due has been played.
LEMMA NoneDueAtDownbeat ==
    ASSUME IInv, running, ~waiting, burst < MaxBurst, phase = 11
    PROVE  ~due
  <1> SUFFICES ASSUME due PROVE FALSE
    OBVIOUS
  <1>1. last = 11 /\ burst \in Nat /\ burst < MaxBurst /\ MaxBurst <= 6 - SwingOffset
    BY BurstAssumption DEF IInv, FollowsStream, TypeOK
  <1>2. CASE ~settled
    <2>1. phase - burst <= 11 - MaxBurst
      BY <1>2, Zenon DEF IInv, PlayedBeforeDownbeat
    <2> QED BY <1>1, <2>1, BurstAssumption
  <1>3. CASE settled
    <2>1. PICK onset \in {0, SwingOffset, 6, 6 + SwingOffset} : last \in onset .. onset + burst - 1
      <3>1. Onset(swing, step % 2 = 0) \in {0, SwingOffset, 6, 6 + SwingOffset}
        BY OnsetHalf DEF IInv, TypeOK
      <3> QED BY <1>3, <3>1, Zenon DEF IInv, DueSince
    <2> QED BY <1>1, <2>1, SwingAssumption, BurstAssumption
  <1> QED BY <1>2, <1>3

\* What a heard tick does, given the invariant.
LEMMA TickHeard ==
    ASSUME IInv, Stream!Advance, running, HearsTick(phase'), burst < MaxBurst
    PROVE  /\ last = phase /\ phase \in 0..11
           /\ phase' = (IF phase = 11 THEN 0 ELSE phase + 1)
           /\ last' = phase'
           /\ ~waiting'
           /\ swing' \in Swing
           /\ phase' # 0 => swing' = swing
           /\ due' <=> due \/ Onset(swing', step % 2 = 0) = phase'
           /\ settled' <=> settled \/ phase' = 0
           /\ phase = 11 => ~due
  <1>1. TypeOK /\ ~waiting /\ UNCHANGED waiting
    BY DEF IInv, Stream!Advance
  <1>2. last = phase /\ phase \in 0..11
    BY <1>1 DEF IInv, FollowsStream, TypeOK
  <1>3. phase' = (phase + 1) % 12 /\ phase' = (IF phase = 11 THEN 0 ELSE phase + 1)
    BY <1>2 DEF Stream!Advance
  <1>4. phase' \in 0..11
    BY <1>2, <1>3
  <1>5. Passed(last, phase') = {phase'}
    BY <1>2, <1>3, PassedOne
  <1>6. Hears(phase', last)
    BY DEF HearsTick
  <1>7. /\ last' = phase' /\ swing' \in Swing /\ (phase' # 0 => swing' = swing)
        /\ due' <=> due \/ Onset(swing', step % 2 = 0) = phase'
    BY <1>1, <1>4, <1>5, <1>6, HearsDue
  <1>8. settled' <=> settled \/ phase' = 0
    BY DEF HearsTick
  <1>9. phase = 11 => ~due
    BY <1>1, NoneDueAtDownbeat
  <1> QED BY <1>1, <1>2, <1>3, <1>7, <1>8, <1>9

\* A tick keeps the invariant: in either half of the cycle the step of its
\* parity comes due at its onset, once.
LEMMA TickKeeps ==
    ASSUME IInv, Tick, TypeOK', running
    PROVE  FollowsStream' /\ PlayedBeforeDownbeat' /\ DueSince' /\ OnsetTaken'
  <1>1. /\ Stream!Advance /\ HearsTick(phase') /\ burst < MaxBurst
        /\ burst' = burst + 1 /\ step' = step /\ running'
    BY DEF Tick, Event
  <1>2. /\ last = phase /\ phase \in 0..11
        /\ phase' = (IF phase = 11 THEN 0 ELSE phase + 1)
        /\ last' = phase'
        /\ ~waiting'
        /\ swing' \in Swing
        /\ phase' # 0 => swing' = swing
        /\ due' <=> due \/ Onset(swing', step % 2 = 0) = phase'
        /\ settled' <=> settled \/ phase' = 0
        /\ phase = 11 => ~due
    BY <1>1, TickHeard
  <1>3. /\ burst \in Nat /\ MaxBurst \in 1..3 /\ MaxBurst <= 6 - SwingOffset
        /\ SwingOffset \in 1..5 /\ step \in Nat
    BY BurstAssumption, SwingAssumption DEF IInv, TypeOK, Steps
  <1>4. (step + 1) % 2 = 0 <=> ~(step % 2 = 0)
    BY <1>3
  <1> DEFINE evenOnset == Onset(swing, TRUE)
             oddOnset  == Onset(swing, FALSE)
             evenNext  == Onset(swing', TRUE)
             oddNext   == Onset(swing', FALSE)
  <1>5. /\ evenOnset \in {0, SwingOffset} /\ oddOnset \in {6, 6 + SwingOffset}
        /\ evenNext \in {0, SwingOffset} /\ oddNext \in {6, 6 + SwingOffset}
    BY <1>2, OnsetHalf DEF IInv, TypeOK
  <1>6. /\ phase' # 0 => evenNext = evenOnset /\ oddNext = oddOnset
        /\ step % 2 = 0 => (due' <=> due \/ evenNext = phase')
        /\ step % 2 # 0 => (due' <=> due \/ oddNext = phase')
    BY <1>2
  <1>7. /\ settled /\ due /\ step % 2 = 0 => last \in evenOnset .. evenOnset + burst - 1
        /\ settled /\ due /\ step % 2 # 0 => last \in oddOnset .. oddOnset + burst - 1
    BY DEF IInv, DueSince
  <1>8. settled => /\ last \in evenOnset .. 5 => ~NextIsEvenAfterDue
                   /\ last \in oddOnset .. 11 => NextIsEvenAfterDue
    BY DEF IInv, OnsetTaken
  <1> HIDE DEF evenOnset, oddOnset, evenNext, oddNext
  <1>9. FollowsStream'
    BY <1>2 DEF FollowsStream
  <1>10. PlayedBeforeDownbeat'
    <2> SUFFICES ASSUME ~settled', due' PROVE phase' - burst' <= 11 - MaxBurst
      BY DEF PlayedBeforeDownbeat
    <2>1. ~settled /\ phase' # 0 /\ phase' = phase + 1
      BY <1>2
    <2>2. CASE due
      <3>1. phase - burst <= 11 - MaxBurst
        BY <2>1, <2>2, Zenon, <1>2, <1>1 DEF IInv, PlayedBeforeDownbeat, Stream!Advance
      <3> QED BY <1>1, <1>2, <1>3, <2>1, <3>1
    <2>3. CASE ~due
      <3>1. phase' <= 6 + SwingOffset
        BY <1>3, <1>5, <1>6, <2>3
      <3> QED BY <1>1, <1>2, <1>3, <2>1, <3>1
    <2> QED BY <2>2, <2>3
  <1>11. DueSince'
    <2> SUFFICES ASSUME settled', due'
                 PROVE  /\ step % 2 = 0 => last' \in evenNext .. evenNext + burst' - 1
                        /\ step % 2 # 0 => last' \in oddNext .. oddNext + burst' - 1
      BY <1>1 DEF DueSince, evenNext, oddNext
    <2>1. CASE due
      <3>1. settled /\ phase' # 0 /\ phase' = phase + 1
        BY <1>2, <2>1
      <3> QED BY <1>1, <1>2, <1>3, <1>5, <1>6, <1>7, <2>1, <3>1
    <2>2. CASE ~due
      BY <1>1, <1>2, <1>3, <1>5, <1>6, <2>2
    <2> QED BY <2>1, <2>2
  <1>12. OnsetTaken'
    <2> SUFFICES ASSUME settled'
                 PROVE  /\ last' \in evenNext .. 5 => (step % 2 = 0 <=> due')
                        /\ last' \in oddNext .. 11 => (step % 2 # 0 <=> due')
      BY <1>1, <1>4 DEF OnsetTaken, NextIsEvenAfterDue, evenNext, oddNext
    <2>1. CASE phase' = 0
      BY <1>2, <1>3, <1>5, <1>6, <2>1
    <2>2. CASE phase' # 0 /\ due
      BY <1>1, <1>2, <1>3, <1>5, <1>6, <1>7, <2>2
    <2>3. CASE phase' # 0 /\ ~due
      <3>1. /\ last \in evenOnset .. 5 => step % 2 # 0
            /\ last \in oddOnset .. 11 => step % 2 = 0
        BY <1>2, <1>8, <2>3 DEF NextIsEvenAfterDue
      <3> QED BY <1>2, <1>3, <1>5, <1>6, <2>3, <3>1
    <2> QED BY <2>1, <2>2, <2>3
  <1> QED BY <1>9, <1>10, <1>11, <1>12

\* A jump keeps it: the stream is unsettled, in the first ten phases, and the
\* sequencer hears of it.
LEMMA JumpKeeps ==
    ASSUME IInv, NEW p \in {0, 3, 6, 9}, NEW resync, running,
           HearsJump(p, resync), phase' = p, burst' = burst + 1
    PROVE  FollowsStream' /\ PlayedBeforeDownbeat' /\ DueSince' /\ OnsetTaken'
  <1>1. TypeOK /\ p \in 0..11
    BY DEF IInv
  <1>2. PICK l : Hears(p, l)
    BY Zenon DEF HearsJump
  <1>3. last' = p /\ ~settled'
    BY <1>2, Zenon DEF HearsJump, Hears
  <1>4. p - burst' <= 11 - MaxBurst
    BY <1>1, BurstAssumption DEF TypeOK
  <1> QED BY <1>3, <1>4 DEF FollowsStream, PlayedBeforeDownbeat, DueSince, OnsetTaken

\* What the sequencer keeps for itself it keeps while it is not told anything.
LEMMA UnheardKeeps ==
    ASSUME IInv, UNCHANGED <<running, last, due, step, swing, settled, burst>>,
           running => UNCHANGED <<waiting, phase>>
    PROVE  FollowsStream' /\ PlayedBeforeDownbeat' /\ DueSince' /\ OnsetTaken'
  <1>1. FollowsStream' /\ PlayedBeforeDownbeat'
    BY DEF IInv, FollowsStream, PlayedBeforeDownbeat
  <1>2. DueSince' /\ OnsetTaken'
    BY DEF IInv, DueSince, OnsetTaken, NextIsEvenAfterDue, Onset
  <1> QED BY <1>1, <1>2

LEMMA IInvInit == Init => IInv
  <1> SUFFICES ASSUME Init PROVE IInv
    OBVIOUS
  <1>1. TypeOK
    BY TypeInit
  <1>2. ~running /\ strays = 0
    BY DEF Init
  <1> QED BY <1>1, <1>2
    DEF IInv, FollowsStream, PlayedBeforeDownbeat, DueSince, OnsetTaken, OneStray

LEMMA IInvNext == IInv /\ [Next]_vars => IInv'
  <1> SUFFICES ASSUME IInv, [Next]_vars PROVE IInv'
    OBVIOUS
  <1> DEFINE Heeds == FollowsStream' /\ PlayedBeforeDownbeat' /\ DueSince' /\ OnsetTaken'
  <1>1. TypeOK /\ OneStray
    BY DEF IInv
  <1>2. TypeOK'
    BY <1>1, TypeNext
  <1>3. OneStray /\ UNCHANGED <<running, due, strays>> => OneStray'
    BY DEF OneStray
  <1>4. running /\ running' /\ strays' = strays => OneStray'
    BY <1>1 DEF OneStray
  <1>5. CASE Tick
    <2>1. /\ Event(HearsTick(phase')) /\ UNCHANGED <<running, strays, step>>
      BY <1>5 DEF Tick, Event
    <2>2. CASE running
      BY <1>2, <1>4, <1>5, <2>1, <2>2, TickKeeps DEF IInv
    <2>3. CASE ~running
      <3>1. NotHeard /\ UNCHANGED burst
        BY <2>1, <2>3 DEF Event
      <3> QED BY <1>1, <1>2, <1>3, <2>1, <2>3, <3>1, UnheardKeeps DEF IInv, NotHeard
    <2> QED BY <2>2, <2>3
  <1>6. CASE Beat
    <2>1. /\ phase' \in {0, 3, 6, 9} /\ Event(HearsJump(phase', FALSE))
          /\ UNCHANGED <<running, strays, step>>
      BY <1>1, <1>6, StreamTypes DEF Beat, Event
    <2>2. CASE running
      <3>1. HearsJump(phase', FALSE) /\ burst' = burst + 1
        BY <2>1, <2>2 DEF Event
      <3> QED BY <1>2, <1>4, <2>1, <2>2, <3>1, JumpKeeps DEF IInv
    <2>3. CASE ~running
      <3>1. NotHeard /\ UNCHANGED burst
        BY <2>1, <2>3 DEF Event
      <3> QED BY <1>1, <1>2, <1>3, <2>1, <2>3, <3>1, UnheardKeeps DEF IInv, NotHeard
    <2> QED BY <2>2, <2>3
  <1>7. CASE MidiRestart \/ (ChangeMaster /\ master' # "EXTERNAL_SYNC")
    <2>1. /\ phase' = 0 /\ Event(HearsJump(0, TRUE))
          /\ UNCHANGED <<running, strays, step>>
      <3>1. CASE MidiRestart
        BY <3>1 DEF MidiRestart, Event
      <3>2. CASE ChangeMaster /\ master' # "EXTERNAL_SYNC"
        <4>1. PICK m \in {"INTERNAL", "MIDI", "EXTERNAL_SYNC"} : Stream!ChangeMaster(m)
          BY <3>2 DEF ChangeMaster
        <4>2. phase' = 0
          BY <3>2, <4>1 DEF Stream!ChangeMaster
        <4> QED BY <3>2, <4>2 DEF ChangeMaster, Event
      <3> QED BY <1>7, <3>1, <3>2
    <2>2. CASE running
      <3>1. HearsJump(0, TRUE) /\ burst' = burst + 1
        BY <2>1, <2>2 DEF Event
      <3> QED BY <1>2, <1>4, <2>1, <2>2, <3>1, JumpKeeps, 0 \in {0, 3, 6, 9} DEF IInv
    <2>3. CASE ~running
      <3>1. NotHeard /\ UNCHANGED burst
        BY <2>1, <2>3 DEF Event
      <3> QED BY <1>1, <1>2, <1>3, <2>1, <2>3, <3>1, UnheardKeeps DEF IInv, NotHeard
    <2> QED BY <2>2, <2>3
  <1>8. CASE ChangeMaster /\ master' = "EXTERNAL_SYNC"
    <2>1. UNCHANGED <<waiting, phase>>
      BY <1>8 DEF ChangeMaster, Stream!ChangeMaster
    <2>2. UNCHANGED <<running, last, due, step, swing, settled, burst, strays>>
      BY <1>8 DEF ChangeMaster, history
    <2> QED BY <1>1, <1>2, <1>3, <2>1, <2>2, UnheardKeeps DEF IInv
  <1>9. CASE Start
    <2>1. running' /\ ~settled' /\ burst' = 0 /\ strays' = 0
      BY <1>9 DEF Start
    <2>2. waiting' \/ (phase' \in {0, 6} /\ last' = phase')
      BY <1>9 DEF Start, Stream!Hold, AnchorOf, Hears
    <2>3. FollowsStream' /\ DueSince' /\ OnsetTaken' /\ OneStray'
      BY <2>1, <2>2 DEF FollowsStream, DueSince, OnsetTaken, OneStray
    <2>4. ~waiting' => phase' - burst' <= 11 - MaxBurst
      BY <2>1, <2>2, BurstAssumption
    <2>5. PlayedBeforeDownbeat'
      BY <2>4 DEF PlayedBeforeDownbeat
    <2> QED BY <1>2, <2>3, <2>5 DEF IInv
  <1>10. CASE Stop
    <2>1. ~running' /\ strays' = 0
      BY <1>10 DEF Stop
    <2> QED BY <1>2, <2>1
      DEF IInv, FollowsStream, PlayedBeforeDownbeat, DueSince, OnsetTaken, OneStray
  <1>11. CASE \/ \E s \in Swing : SetSwing(s)
              \/ \E length \in RepeatLength \cup {0} : SetRepeat(length)
              \/ ClearRepeat
    <2>1. UNCHANGED <<stream, running, last, due, step, swing, history>>
      BY <1>11 DEF SetSwing, SetRepeat, ClearRepeat
    <2>2. UNCHANGED <<waiting, phase, running, last, due, step, swing, settled, burst, strays>>
      BY <2>1 DEF stream, history
    <2> QED BY <1>1, <1>2, <1>3, <2>2, UnheardKeeps DEF IInv
  <1>12. CASE ManualStep
    <2>1. ~running' /\ strays' = 0
      BY <1>12 DEF ManualStep
    <2> QED BY <1>2, <2>1
      DEF IInv, FollowsStream, PlayedBeforeDownbeat, DueSince, OnsetTaken, OneStray
  <1>13. CASE Update
    <2>1. /\ UNCHANGED <<waiting, phase, running, last, swing, settled>>
          /\ due' = FALSE
          /\ IF due THEN step' = (step + 1) % NumSteps ELSE step' = step
          /\ strays' = IF due /\ ~running /\ strays < 2 THEN strays + 1 ELSE strays
      BY <1>13 DEF Update, PlayStep, stream
    <2>2. FollowsStream' /\ PlayedBeforeDownbeat' /\ DueSince'
      BY <2>1 DEF IInv, FollowsStream, PlayedBeforeDownbeat, DueSince
    <2>3. NextIsEvenAfterDue' <=> NextIsEvenAfterDue
      BY <1>1, <2>1, WrapKeepsParity DEF NextIsEvenAfterDue, TypeOK
    <2>4. OnsetTaken'
      BY <2>1, <2>3 DEF IInv, OnsetTaken, Onset
    <2>5. OneStray'
      BY <1>1, <2>1 DEF OneStray
    <2> QED BY <1>2, <2>2, <2>4, <2>5 DEF IInv
  <1>14. CASE UNCHANGED vars
    <2>1. UNCHANGED <<waiting, phase, running, last, due, step, swing, settled, burst, strays>>
      BY <1>14 DEF vars, stream, history
    <2> QED BY <1>1, <1>2, <1>3, <2>1, UnheardKeeps DEF IInv
  <1> QED
    BY <1>5, <1>6, <1>7, <1>8, <1>9, <1>10, <1>11, <1>12, <1>13, <1>14 DEF Next

-----------------------------------------------------------------------------
(* Theorems *)

\* No onset passes untaken and none is taken twice once the phase has come
\* round to 0, however swing, REPEAT and the source change and however late
\* update() comes within its bound.
THEOREM OnsetsTaken == Spec => []OnsetTaken
  <1>1. IInv => OnsetTaken
    BY DEF IInv
  <1> QED BY IInvInit, IInvNext, <1>1, PTL DEF Spec

\* After the sequencer has stopped at most one step sounds that REPEAT did
\* not ask for.
THEOREM StopsSettle == Spec => []StopSettles
  <1>1. IInv => StopSettles
    BY DEF IInv, OneStray, StopSettles
  <1> QED BY IInvInit, IInvNext, <1>1, PTL DEF Spec

-----------------------------------------------------------------------------
(* Steady gaps *)

\* The phases since the last step came due tell where in the cycle it did:
\* an even step at the even onset of this cycle, an odd one at an odd onset
\* of this cycle or, while the phase is short of the next even onset, of the
\* one before, perhaps under another swing.
GapSince ==
    running /\ gap # Unknown =>
        /\ due => gap < burst
        /\ NextIsEvenAfterDue =>
             \E onset \in {6, 6 + SwingOffset} :
                \/ last >= 6 /\ last = onset + gap
                \/ last < Onset(swing, TRUE) /\ last + 12 = onset + gap
        /\ ~NextIsEvenAfterDue =>
             last < Onset(swing, FALSE) /\ last = Onset(swing, TRUE) + gap

\* What a heard tick does to the gap.
LEMMA GapAtTick ==
    ASSUME TypeOK, TypeOK', HearsTick(phase')
    PROVE  /\ due' /\ ~due => gap' = 0
           /\ ~(due' /\ ~due) /\ gap # Unknown => gap' = gap + 1
           /\ ~(due' /\ ~due) /\ gap = Unknown => gap' = Unknown
  <1>1. due \in BOOLEAN /\ due' \in BOOLEAN /\ (due => due')
    BY DEF TypeOK, HearsTick, Hears
  <1>2. gap \in 0..Unknown
    BY DEF TypeOK
  <1>3. gap' = CASE due' /\ ~due -> 0
                 [] due' = due /\ gap < Unknown -> gap + 1
                 [] OTHER -> Unknown
    BY DEF HearsTick
  <1>4. CASE due' /\ ~due
    BY <1>1, <1>3, <1>4
  <1>5. CASE ~(due' /\ ~due)
    <2>1. due' = due
      BY <1>1, <1>5, Zenon
    <2> QED BY <1>2, <1>3, <1>5, <2>1 DEF Unknown
  <1> QED BY <1>4, <1>5

\* A tick finds the next step due no earlier and no later than the swing
\* offset allows.
LEMMA TickKeepsGap ==
    ASSUME IInv, GapSince, Tick, TypeOK', running
    PROVE  /\ GapSince'
           /\ gap # Unknown => IF due' /\ ~due THEN gap + 1 >= 6 - SwingOffset
                                               ELSE gap + 1 < 6 + SwingOffset
  <1>1. /\ Stream!Advance /\ HearsTick(phase') /\ burst < MaxBurst
        /\ burst' = burst + 1 /\ step' = step /\ running'
    BY DEF Tick, Event
  <1>2. /\ last = phase /\ phase \in 0..11
        /\ phase' = (IF phase = 11 THEN 0 ELSE phase + 1)
        /\ last' = phase'
        /\ swing' \in Swing
        /\ phase' # 0 => swing' = swing
        /\ due' <=> due \/ Onset(swing', step % 2 = 0) = phase'
        /\ phase = 11 => ~due
    BY <1>1, TickHeard
  <1>3. /\ burst \in Nat /\ MaxBurst \in 1..3 /\ MaxBurst <= 6 - SwingOffset
        /\ SwingOffset \in 1..5 /\ step \in Nat /\ gap \in Nat
    BY BurstAssumption, SwingAssumption DEF IInv, TypeOK, Steps
  <1>4. /\ (step + 1) % 2 = 0 <=> ~(step % 2 = 0)
        /\ NextIsEvenAfterDue <=> (due <=> step % 2 # 0)
        /\ NextIsEvenAfterDue' <=> (due' <=> step % 2 # 0)
    BY <1>1, <1>3 DEF NextIsEvenAfterDue
  <1>5. /\ due' /\ ~due => gap' = 0
        /\ ~(due' /\ ~due) /\ gap # Unknown => gap' = gap + 1
        /\ ~(due' /\ ~due) /\ gap = Unknown => gap' = Unknown
    BY <1>1, GapAtTick DEF IInv
  <1> DEFINE evenOnset == Onset(swing, TRUE)
             oddOnset  == Onset(swing, FALSE)
             evenNext  == Onset(swing', TRUE)
             oddNext   == Onset(swing', FALSE)
             oldOnset  == {6, 6 + SwingOffset}
  <1>6. /\ evenOnset \in {0, SwingOffset} /\ oddOnset \in {6, 6 + SwingOffset}
        /\ evenNext \in {0, SwingOffset} /\ oddNext \in {6, 6 + SwingOffset}
    BY <1>2, OnsetHalf DEF IInv, TypeOK
  <1>7. /\ phase' # 0 => evenNext = evenOnset /\ oddNext = oddOnset
        /\ step % 2 = 0 => (due' <=> due \/ evenNext = phase')
        /\ step % 2 # 0 => (due' <=> due \/ oddNext = phase')
    BY <1>2
  <1>8. gap # Unknown =>
          /\ due => gap < burst
          /\ NextIsEvenAfterDue => \E onset \in oldOnset :
                \/ last >= 6 /\ last = onset + gap
                \/ last < evenOnset /\ last + 12 = onset + gap
          /\ ~NextIsEvenAfterDue => last < oddOnset /\ last = evenOnset + gap
    BY DEF GapSince
  <1> HIDE DEF evenOnset, oddOnset, evenNext, oddNext
  \* The gap begins with the step that comes due.
  <1>9. ASSUME due', ~due PROVE GapSince'
    <2>1. gap' = 0 /\ gap' < burst' /\ Unknown = 12
      BY <1>1, <1>3, <1>5, <1>9 DEF Unknown
    <2>2. NextIsEvenAfterDue' => last' \in oldOnset /\ last' >= 6
      BY <1>2, <1>3, <1>4, <1>6, <1>7, <1>9
    <2>3. ~NextIsEvenAfterDue' => last' < oddNext /\ last' = evenNext + gap'
      BY <1>2, <1>3, <1>4, <1>6, <1>7, <1>9, <2>1
    <2>4. NextIsEvenAfterDue' =>
             \E onset \in oldOnset :
                \/ last' >= 6 /\ last' = onset + gap'
                \/ last' < evenNext /\ last' + 12 = onset + gap'
      BY <1>3, <2>1, <2>2
    <2> QED BY <2>1, <2>3, <2>4 DEF GapSince, evenNext, oddNext
  \* After an even step the odd onset of the same cycle is next.
  <1>10. ASSUME gap # Unknown, ~NextIsEvenAfterDue
         PROVE  /\ ~(due' /\ ~due) => gap + 1 < 6 + SwingOffset /\ GapSince'
                /\ due' /\ ~due => gap + 1 >= 6 - SwingOffset
    <2>1. last < oddOnset /\ last = evenOnset + gap /\ (due => gap < burst)
      BY <1>8, <1>10
    <2>2. phase' = phase + 1 /\ evenNext = evenOnset /\ oddNext = oddOnset
      BY <1>2, <1>3, <1>6, <1>7, <2>1
    <2>3. ASSUME due', ~due PROVE gap + 1 >= 6 - SwingOffset
      BY <1>2, <1>3, <1>4, <1>6, <1>7, <1>10, <2>1, <2>2, <2>3
    <2>4. ASSUME ~(due' /\ ~due) PROVE gap + 1 < 6 + SwingOffset /\ GapSince'
      <3>1. gap' = gap + 1 /\ (due' <=> due) /\ (due' => gap' < burst')
        BY <1>1, <1>3, <1>5, <1>7, <1>10, <2>1, <2>4
      <3>2. last' < oddNext /\ last' = evenNext + gap'
        <4>1. CASE due
          BY <1>1, <1>2, <1>3, <1>6, <2>1, <2>2, <3>1, <4>1
        <4>2. CASE ~due
          BY <1>2, <1>3, <1>4, <1>6, <1>7, <1>10, <2>1, <2>2, <3>1, <4>2
        <4> QED BY <4>1, <4>2
      <3>3. ~NextIsEvenAfterDue'
        BY <1>4, <1>10, <3>1
      <3>4. gap + 1 < 6 + SwingOffset
        BY <1>3, <1>6, <3>1, <3>2
      <3> QED BY <3>1, <3>2, <3>3, <3>4 DEF GapSince, evenNext, oddNext
    <2> QED BY <2>3, <2>4
  \* After an odd step the even onset of the next cycle is.
  <1>11. ASSUME gap # Unknown, NextIsEvenAfterDue
         PROVE  /\ ~(due' /\ ~due) => gap + 1 < 6 + SwingOffset /\ GapSince'
                /\ due' /\ ~due => gap + 1 >= 6 - SwingOffset
    <2>1. PICK onset \in oldOnset :
             \/ last >= 6 /\ last = onset + gap
             \/ last < evenOnset /\ last + 12 = onset + gap
      BY <1>8, <1>11
    <2>2. due => gap < burst
      BY <1>8, <1>11
    <2>3. ASSUME due', ~due PROVE gap + 1 >= 6 - SwingOffset
      BY <1>2, <1>3, <1>4, <1>6, <1>7, <1>11, <2>1, <2>3
    <2>4. ASSUME ~(due' /\ ~due) PROVE gap + 1 < 6 + SwingOffset /\ GapSince'
      <3>1. gap' = gap + 1 /\ (due' <=> due) /\ (due' => gap' < burst')
        BY <1>1, <1>3, <1>5, <1>7, <1>11, <2>2, <2>4
      <3>2. \/ last' >= 6 /\ last' = onset + gap'
            \/ last' < evenNext /\ last' + 12 = onset + gap'
        <4>1. CASE last < evenOnset /\ last + 12 = onset + gap
          <5>1. ~due
            BY <1>1, <1>2, <1>3, <2>1, <2>2, <4>1
          <5> QED BY <1>2, <1>3, <1>4, <1>6, <1>7, <1>11, <3>1, <4>1, <5>1
        <4>2. CASE last >= 6 /\ last = onset + gap /\ last # 11
          BY <1>2, <1>3, <3>1, <4>2
        <4>3. CASE last >= 6 /\ last = onset + gap /\ last = 11
          <5>1. ~due /\ phase' = 0
            BY <1>2, <4>3
          <5> QED BY <1>2, <1>3, <1>4, <1>6, <1>7, <1>11, <3>1, <4>3, <5>1
        <4> QED BY <2>1, <4>1, <4>2, <4>3
      <3>3. NextIsEvenAfterDue'
        BY <1>4, <1>11, <3>1
      <3>4. gap + 1 < 6 + SwingOffset
        BY <1>2, <1>3, <1>6, <2>1, <3>1, <3>2
      <3> QED BY <2>1, <3>1, <3>2, <3>3, <3>4 DEF GapSince, evenNext
    <2> QED BY <2>3, <2>4
  <1>12. CASE gap = Unknown /\ ~(due' /\ ~due)
    BY <1>5, <1>12 DEF GapSince
  <1> QED BY <1>9, <1>10, <1>11, <1>12

LEMMA GapNext == IInv /\ GapSince /\ [Next]_vars => GapSince'
  <1> SUFFICES ASSUME IInv, GapSince, [Next]_vars PROVE GapSince'
    OBVIOUS
  <1>1. TypeOK /\ TypeOK'
    BY TypeNext DEF IInv
  <1>2. ASSUME UNCHANGED <<running, gap, due, last, step, swing, burst>> PROVE GapSince'
    BY <1>2 DEF GapSince, NextIsEvenAfterDue, Onset
  <1>3. ASSUME running' => gap' = Unknown PROVE GapSince'
    BY <1>3 DEF GapSince
  <1>4. ASSUME NEW p, NEW resync, Event(HearsJump(p, resync)) PROVE GapSince'
    <2>1. CASE running
      BY <1>3, <1>4, <2>1 DEF Event, HearsJump
    <2>2. CASE ~running
      BY <1>3, <1>4, <2>2 DEF Event
    <2> QED BY <2>1, <2>2
  <1>5. CASE Tick
    <2>1. CASE running
      BY <1>1, <1>5, <2>1, TickKeepsGap
    <2>2. CASE ~running
      BY <1>3, <1>5, <2>2 DEF Tick, Event
    <2> QED BY <2>1, <2>2
  <1>6. CASE Beat
    BY <1>4, <1>6 DEF Beat
  <1>7. CASE MidiRestart
    BY <1>4, <1>7 DEF MidiRestart
  <1>8. CASE ChangeMaster
    <2>1. CASE master' = "EXTERNAL_SYNC"
      BY <1>2, <1>8, <2>1 DEF ChangeMaster, history
    <2>2. CASE master' # "EXTERNAL_SYNC"
      BY <1>4, <1>8, <2>2 DEF ChangeMaster
    <2> QED BY <2>1, <2>2
  <1>9. CASE Start \/ Stop
    BY <1>3, <1>9 DEF Start, Stop
  <1>10. CASE \/ \E s \in Swing : SetSwing(s)
              \/ \E length \in RepeatLength \cup {0} : SetRepeat(length)
              \/ ClearRepeat
    <2>1. UNCHANGED <<running, gap, due, last, step, swing, history>>
      BY <1>10 DEF SetSwing, SetRepeat, ClearRepeat, history
    <2> QED BY <1>2, <2>1 DEF history
  <1>11. CASE ManualStep
    BY <1>3, <1>11 DEF ManualStep
  <1>12. CASE Update
    <2>1. /\ UNCHANGED <<running, gap, last, swing>> /\ due' = FALSE
          /\ IF due THEN step' = (step + 1) % NumSteps ELSE step' = step
      BY <1>12 DEF Update, PlayStep
    <2>2. NextIsEvenAfterDue' <=> NextIsEvenAfterDue
      BY <1>1, <2>1, WrapKeepsParity DEF NextIsEvenAfterDue, TypeOK
    <2> QED BY <2>1, <2>2 DEF GapSince, Onset
  <1>13. CASE UNCHANGED vars
    BY <1>2, <1>13 DEF vars, history
  <1> QED
    BY <1>5, <1>6, <1>7, <1>8, <1>9, <1>10, <1>11, <1>12, <1>13 DEF Next

\* As long as the stream does not jump, consecutive steps are half a cycle
\* apart, give or take the swing offset, however swing and REPEAT change.
THEOREM StepsAreSteady == Spec => SteadyGaps
  <1> DEFINE Steady == Tick /\ running /\ gap # Unknown =>
                         IF due' /\ ~due THEN gap + 1 >= 6 - SwingOffset
                                         ELSE gap + 1 < 6 + SwingOffset
  <1>1. Init => IInv /\ GapSince
    BY IInvInit DEF Init, GapSince
  <1>2. IInv /\ GapSince /\ [Next]_vars => [Steady]_vars
    <2> SUFFICES ASSUME IInv, GapSince, Next, Tick, running, gap # Unknown
                 PROVE  IF due' /\ ~due THEN gap + 1 >= 6 - SwingOffset
                                        ELSE gap + 1 < 6 + SwingOffset
      OBVIOUS
    <2>1. TypeOK'
      BY TypeNext DEF IInv
    <2> QED BY <2>1, TickKeepsGap
  <1>3. Spec => [][Steady]_vars
    BY <1>1, <1>2, IInvNext, GapNext, PTL DEF Spec
  <1> QED BY <1>3 DEF SteadyGaps

-----------------------------------------------------------------------------
(* One substep grid *)

\* With the firmware's swing offset the grids aligned to an even and to an
\* odd step are the same.
LEMMA GridsCoincide ==
    ASSUME SwingOffset = 2, NEW s \in Swing
    PROVE  Substeps(s, Onset(s, TRUE)) = Substeps(s, Onset(s, FALSE))
  <1>1. CASE ~s.on
    <2>1. Onset(s, TRUE) = 0 /\ Onset(s, FALSE) = 6
      BY <1>1 DEF Onset
    <2>2. \A onset : Substeps(s, onset) = {(onset + k) % 12 : k \in {0, 3, 6, 9}}
      BY <1>1, Zenon DEF Substeps
    <2>3. Substeps(s, 0) = {0, 3, 6, 9} /\ Substeps(s, 6) = {0, 3, 6, 9}
      BY <2>2
    <2> QED BY <2>1, <2>3, Zenon
  <1>2. CASE s.on
    <2>1. \A onset : Substeps(s, onset) = {(onset + k) % 12 : k \in {0, 4, 8}}
      BY <1>2, Zenon DEF Substeps
    <2>2. CASE s.delaysOdd
      <3>1. Onset(s, TRUE) = 0 /\ Onset(s, FALSE) = 8
        BY <1>2, <2>2 DEF Onset
      <3>2. Substeps(s, 0) = {0, 4, 8} /\ Substeps(s, 8) = {0, 4, 8}
        BY <2>1
      <3> QED BY <3>1, <3>2, Zenon
    <2>3. CASE ~s.delaysOdd
      <3>1. Onset(s, TRUE) = 2 /\ Onset(s, FALSE) = 6
        BY <1>2, <2>3 DEF Onset
      <3>2. Substeps(s, 2) = {2, 6, 10} /\ Substeps(s, 6) = {2, 6, 10}
        BY <2>1
      <3> QED BY <3>1, <3>2, Zenon
    <2> QED BY <2>2, <2>3
  <1> QED BY <1>1, <1>2

\* With the firmware's swing offset the retrigger grid does not depend on
\* how late update() plays the step that is due.
THEOREM GridIsOne == SwingOffset = 2 /\ Spec => OneSubstepGrid
  <1> DEFINE OneGrid == Tick /\ running =>
                          (substep' <=> phase' \in Substeps(swing', Onset(swing', TRUE)))
  <1>1. ASSUME SwingOffset = 2, IInv, [Next]_vars PROVE [OneGrid]_vars
    <2> SUFFICES ASSUME Next, Tick, running
                 PROVE  substep' <=> phase' \in Substeps(swing', Onset(swing', TRUE))
      BY <1>1, Zenon
    <2>1. Stream!Advance /\ Hears(phase', last)
      BY DEF Tick, Event, HearsTick
    <2>2. last = phase /\ phase' = (phase + 1) % 12 /\ phase \in 0..11
      BY <1>1, <2>1 DEF IInv, FollowsStream, TypeOK, Stream!Advance
    <2>3. Passed(last, phase') = {phase'}
      BY <2>2, PassedOne
    <2>4. swing' \in Swing /\ swing' = SwingAt(phase')
      BY <1>1, <2>1, SwingAtType DEF Hears, IInv
    <2>5. substep' <=> phase' \in Substeps(swing', Onset(swing', NextIsEven))
      BY <2>1, <2>3, <2>4 DEF Hears
    <2>6. NextIsEven \in BOOLEAN
      BY <1>1, ParityOfTransport, Zenon DEF IInv, NextIsEven
    <2>7. Substeps(swing', Onset(swing', NextIsEven)) = Substeps(swing', Onset(swing', TRUE))
      <3>1. CASE NextIsEven = TRUE
        BY <3>1, Zenon
      <3>2. CASE NextIsEven = FALSE
        BY <1>1, <2>4, <3>2, GridsCoincide, Zenon
      <3> QED BY <2>6, <3>1, <3>2, Zenon
    <2> QED BY <2>5, <2>7, Zenon
  <1>2. ASSUME SwingOffset = 2 PROVE Spec => [][OneGrid]_vars
    <2>1. IInv /\ [Next]_vars => [OneGrid]_vars
      BY <1>1, <1>2
    <2> QED BY <2>1, IInvInit, IInvNext, PTL DEF Spec
  <1> QED BY <1>2 DEF OneSubstepGrid

-----------------------------------------------------------------------------
(* The environment *)

\* Whatever the sequencer does, the phases it hears are those of the stream
\* the clock chain promises.
THEOREM FollowsTheStream == Spec => Stream!Spec
  <1>1. Init => Stream!Init
    BY DEF Init
  <1>2. TypeOK /\ [Next]_vars => [Stream!Next]_(Stream!vars)
    <2> SUFFICES ASSUME TypeOK, [Next]_vars, ~UNCHANGED stream PROVE Stream!Next
      BY DEF Stream!vars, stream
    <2>1. CASE Tick
      BY <2>1 DEF Tick, Stream!Next
    <2>2. CASE Beat
      BY <2>2 DEF Beat, Stream!Next
    <2>3. CASE MidiRestart
      BY <2>3 DEF MidiRestart, Stream!Next
    <2>4. CASE ChangeMaster
      BY <2>4 DEF ChangeMaster, Stream!Next
    <2>5. CASE Start
      BY <2>5 DEF Start, Stream!Next
    <2>6. CASE \/ Stop
               \/ \E s \in Swing : SetSwing(s)
               \/ \E length \in RepeatLength \cup {0} : SetRepeat(length)
               \/ ClearRepeat \/ ManualStep \/ Update
      BY <2>6 DEF Stop, SetSwing, SetRepeat, ClearRepeat, ManualStep, Update
    <2>7. CASE UNCHANGED vars
      BY <2>7 DEF vars
    <2> QED BY <2>1, <2>2, <2>3, <2>4, <2>5, <2>6, <2>7 DEF Next
  <1> QED BY <1>1, <1>2, TypeInit, TypeNext, PTL DEF Spec, Stream!Spec

-----------------------------------------------------------------------------
(* The tracks: effects and traces *)

\* What was played k steps ago, as the effects have it now.
PlayedAgo(k) ==
    LET base   == (loop.start + (((loop.since + 3 - k) % 3) % fx.repeat)) % PatternLength
        which  == IF fx.repeat = 3 THEN (index + 3 - k) % 3 ELSE index
        offset == IF fx.offset THEN offsets[which] ELSE 0
    IN  (base + offset) % PatternLength

\* Nothing is remembered outside a loop, and in one what the loop plays.
HeardIsLoop ==
    /\ fx.repeat = 0 => heard = << >>
    /\ fx.repeat # 0 => \A k \in 1..Len(heard) : heard[Len(heard) + 1 - k] = PlayedAgo(k)

\* The hit is as old as the trace has faded, and will fade with the ticks that
\* are still to be counted.
AgeIsFading ==
    \A s \in PatternSteps :
        LET faded == TraceTicks - traces.velocity[s] + traces.elapsed
        IN  traces.age[s] = IF faded > TraceTicks THEN TraceTicks ELSE faded

TracksInv == TrackTypeOK /\ HeardIsLoop /\ AgeIsFading

-----------------------------------------------------------------------------
LEMMA FxTypes ==
    ASSUME NEW f \in Effects
    PROVE  /\ \A s \in RandomEffectState, r \in BOOLEAN : transition_to(f, s, r) \in Effects
           /\ \A l \in {0, 1, 3} : set_intended_repeat_state(f, l) \in Effects
           /\ enable_random_offset_mode(f) \in Effects
           /\ trigger_random_hard_press_behavior(f) \in Effects
           /\ disable_random_offset_mode(f) \in Effects
           /\ start_step_highlighting(f) \in Effects
           /\ stop_step_highlighting(f) \in Effects
           /\ stop(f) \in Effects
<1>1. \A g \in Effects : Left(g) \in Effects
  BY DEF Left, Effects, RandomEffectState
<1>2. \A g \in Effects, s \in RandomEffectState : Entered(g, s) \in Effects
  <2> TAKE g \in Effects, s \in RandomEffectState
  <2> DEFINE o == g.offset \/ s \in {"OffsetActive", "OffsetWithFlip"}
             p == g.flip \/ s = "OffsetWithFlip"
  <2>1. o \in BOOLEAN /\ p \in BOOLEAN
    BY Zenon
  <2>2. Entered(g, s) = [g EXCEPT !.state = s, !.offset = o, !.flip = p]
    BY Zenon DEF Entered
  <2> HIDE DEF o, p
  <2> QED BY <2>1, <2>2 DEF Effects
<1>3. \A g \in Effects, s \in RandomEffectState, r \in BOOLEAN : transition_to(g, s, r) \in Effects
  <2> TAKE g \in Effects, s \in RandomEffectState, r \in BOOLEAN
  <2> DEFINE a == IF r /\ s = "OffsetWithFlip" THEN "OffsetActive" ELSE s
  <2>1. a \in RandomEffectState
    BY DEF RandomEffectState
  <2>2. Entered(Left(g), a) \in Effects
    BY <1>1, <1>2, <2>1
  <2> QED BY <2>2 DEF transition_to
<1>4. \A g \in Effects : /\ g.repeat \in {0, 1, 3} /\ g.state \in RandomEffectState
                         /\ g.offset \in BOOLEAN /\ g.intends \in BOOLEAN /\ g.running \in BOOLEAN
  BY DEF Effects
<1>5. \A s \in {"Inactive", "OffsetActive", "OffsetWithFlip", "StepPreview"} : s \in RandomEffectState
  BY DEF RandomEffectState
<1>6. \A g \in Effects, s \in RandomEffectState : request_state(g, s) \in Effects
  BY <1>3, <1>4 DEF request_state
<1>7. \A l \in {0, 1, 3} : set_intended_repeat_state(f, l) \in Effects
  <2> TAKE l \in {0, 1, 3}
  <2> DEFINE g == [f EXCEPT !.repeat = l]
  <2>1. g \in Effects /\ g.repeat = l
    BY DEF Effects
  <2>2. request_state(g, f.state) \in Effects /\ transition_to(g, "OffsetWithFlip", FALSE) \in Effects
    BY <2>1, <1>3, <1>4, <1>5, <1>6
  <2> QED BY <2>1, <2>2 DEF set_intended_repeat_state
<1>8. enable_random_offset_mode(f) \in Effects
  BY <1>5, <1>6 DEF enable_random_offset_mode
<1>9. \A g \in Effects, b \in BOOLEAN :
         [g EXCEPT !.intends = b] \in Effects /\ [g EXCEPT !.highlighted = b] \in Effects
  BY DEF Effects
<1>10. trigger_random_hard_press_behavior(f) \in Effects
  BY <1>5, <1>6, <1>8, <1>9 DEF trigger_random_hard_press_behavior
<1>11. disable_random_offset_mode(f) \in Effects
  BY <1>5, <1>6, <1>9 DEF disable_random_offset_mode
<1>12. start_step_highlighting(f) \in Effects
  BY <1>3, <1>5, <1>9 DEF start_step_highlighting
<1>13. stop_step_highlighting(f) \in Effects
  BY <1>3, <1>5, <1>9 DEF stop_step_highlighting
<1>14. stop(f) \in Effects
  <2>1. transition_to(f, "Inactive", FALSE) \in Effects
    BY <1>3, <1>5
  <2>2. \A g \in Effects : [g EXCEPT !.running = FALSE, !.intends = FALSE] \in Effects
    BY DEF Effects
  <2> QED BY <2>1, <2>2 DEF stop
<1> QED BY <1>3, <1>7, <1>8, <1>10, <1>11, <1>12, <1>13, <1>14

\* The buttons forget what was heard.
LEMMA ChangedForgets ==
    ASSUME TracksInv, NEW f \in Effects, Changed(f), loop' \in [start : PatternSteps, since : 0..2],
           UNCHANGED traces
    PROVE  TracksInv'
<1>1. index' \in 0..2
  BY DEF TracksInv, TrackTypeOK, Changed, Restarted
<1>2. heard' = << >> /\ heard' \in Seq(PatternSteps) /\ Len(heard') = 0
  BY DEF Changed
<1>3. TrackTypeOK'
  BY <1>1, <1>2 DEF TracksInv, TrackTypeOK, Changed
<1>4. HeardIsLoop'
  BY <1>2 DEF HeardIsLoop
<1>5. AgeIsFading'
  BY DEF TracksInv, AgeIsFading
<1> QED BY <1>3, <1>4, <1>5 DEF TracksInv

\* What is to be played is what was played the loop's length ago.
LEMMA NextInLoop ==
    ASSUME TrackTypeOK, fx.repeat # 0, NEW offset \in Offsets
    PROVE  /\ (base_step_index + offset) % PatternLength = PlayedAgo(fx.repeat)
           /\ PlayedAgo(fx.repeat) \in PatternSteps
<1>1. /\ fx.repeat \in {1, 3} /\ fx.offset \in BOOLEAN
      /\ loop.start \in PatternSteps /\ loop.since \in 0..2 /\ index \in 0..2
      /\ offsets[index] \in PatternSteps /\ PatternLength \in Nat \ {0}
  BY LengthAssumption DEF TrackTypeOK, Effects
<1>2. fx.repeat = 3 => (loop.since + 3 - fx.repeat) % 3 = loop.since /\ (index + 3 - fx.repeat) % 3 = index
  BY <1>1
<1>3. fx.repeat = 1 => /\ ((loop.since + 3 - fx.repeat) % 3) % fx.repeat = 0
                       /\ loop.since % fx.repeat = 0
  BY <1>1
<1>4. offset = IF fx.offset THEN offsets[index] ELSE 0
  BY <1>1 DEF Offsets
<1>5. base_step_index = (loop.start + (loop.since % fx.repeat)) % PatternLength
  BY <1>1 DEF base_step_index
<1>6. (base_step_index + offset) % PatternLength = PlayedAgo(fx.repeat)
  <2>1. CASE fx.repeat = 3
    BY <1>1, <1>2, <1>4, <1>5, <2>1 DEF PlayedAgo
  <2>2. CASE fx.repeat = 1
    BY <1>1, <1>3, <1>4, <1>5, <2>2 DEF PlayedAgo
  <2> QED BY <1>1, <2>1, <2>2
<1>7. base_step_index \in Nat /\ offset \in Nat
  <2>1. loop.since % fx.repeat \in Nat
    BY <1>1
  <2> QED BY <1>1, <1>4, <1>5, <2>1 DEF PatternSteps
<1>8. (base_step_index + offset) % PatternLength \in PatternSteps
  BY <1>1, <1>7 DEF PatternSteps
<1> QED BY <1>6, <1>8

LEMMA PlayTrackKeeps ==
    ASSUME TracksInv, PlayTrack, UNCHANGED traces
    PROVE  /\ TracksInv'
           /\ fx.repeat # 0 /\ Len(heard) >= fx.repeat => played' = heard[Len(heard) - fx.repeat + 1]
<1>1. /\ fx.repeat \in {0, 1, 3} /\ fx.offset \in BOOLEAN /\ PatternLength \in Nat \ {0}
      /\ loop.start \in PatternSteps /\ loop.since \in 0..2 /\ index \in 0..2 /\ counter \in PatternSteps
      /\ heard \in Seq(PatternSteps) /\ Len(heard) \in 0..3
  <2>1. heard \in Seq(PatternSteps) /\ Len(heard) <= 3
    BY DEF TracksInv, TrackTypeOK
  <2>2. Len(heard) \in 0..3
    <3> DEFINE n == Len(heard)
    <3>1. n \in Nat /\ n <= 3
      BY <2>1, LenProperties
    <3> HIDE DEF n
    <3>2. n \in 0..3
      BY <3>1
    <3> QED BY <3>2 DEF n
  <2> QED BY <2>1, <2>2, LengthAssumption DEF TracksInv, TrackTypeOK, Effects
<1>2. PICK offset \in Offsets : played' = (base_step_index + offset) % PatternLength
  BY DEF PlayTrack
<1>3. offset \in PatternSteps
  BY <1>1, <1>2 DEF Offsets, PatternSteps, TracksInv, TrackTypeOK
<1>4. base_step_index \in Nat
  <2>1. fx.repeat # 0 => loop.since % fx.repeat \in Nat
    BY <1>1
  <2> QED BY <1>1, <2>1 DEF PatternSteps, base_step_index
<1>5. played' \in PatternSteps
  BY <1>1, <1>2, <1>3, <1>4 DEF PatternSteps
<1>6. /\ index' \in 0..2 /\ counter' \in PatternSteps
      /\ loop' \in [start : PatternSteps, since : 0..2]
      /\ fx.repeat # 0 => loop'.start = loop.start /\ loop'.since = (loop.since + 1) % 3
  <2>1. index' \in 0..2
    BY <1>1 DEF PlayTrack, advance_offset_indices
  <2>2. counter' \in PatternSteps
    BY <1>1 DEF PlayTrack, PatternSteps
  <2>3. loop \in [start : PatternSteps, since : 0..2] /\ (loop.since + 1) % 3 \in 0..2
    BY <1>1 DEF TracksInv, TrackTypeOK
  <2>4. loop' = IF fx.repeat = 0 THEN loop ELSE [loop EXCEPT !.since = (@ + 1) % 3]
    BY DEF PlayTrack
  <2> QED BY <2>1, <2>2, <2>3, <2>4
<1>7. /\ heard' \in Seq(PatternSteps) /\ Len(heard') <= 3
      /\ fx.repeat = 0 => heard' = << >>
      /\ fx.repeat # 0 =>
            /\ Len(heard') \in 1..3 /\ heard'[Len(heard')] = played'
            /\ \A k \in 2..Len(heard') :
                  k - 1 \in 1..Len(heard) /\ heard'[Len(heard') + 1 - k] = heard[Len(heard) + 1 - (k - 1)]
  <2>1. CASE fx.repeat = 0
    BY <2>1 DEF PlayTrack
  <2>2. CASE fx.repeat # 0
    <3> DEFINE base == IF Len(heard) = 3 THEN Tail(heard) ELSE heard
    <3>1. /\ base \in Seq(PatternSteps) /\ Len(base) \in 0..2
          /\ \A k \in 1..Len(base) : k \in 1..Len(heard) /\ base[Len(base) + 1 - k] = heard[Len(heard) + 1 - k]
      <4>1. CASE Len(heard) = 3
        <5>1. heard # << >>
          BY <4>1
        <5>2. Tail(heard) \in Seq(PatternSteps) /\ Len(Tail(heard)) = Len(heard) - 1
              /\ \A i \in 1..Len(Tail(heard)) : Tail(heard)[i] = heard[i + 1]
          BY <1>1, <5>1, HeadTailProperties
        <5>3. base = Tail(heard) /\ Len(base) = 2
          BY <4>1, <5>2
        <5> HIDE DEF base
        <5>4. ASSUME NEW k \in 1..2 PROVE base[3 - k] = heard[4 - k]
          <6>1. 3 - k \in 1..2 /\ 3 - k + 1 = 4 - k
            OBVIOUS
          <6> QED BY <5>2, <5>3, <6>1
        <5>5. ASSUME NEW k \in 1..Len(base)
              PROVE  k \in 1..Len(heard) /\ base[Len(base) + 1 - k] = heard[Len(heard) + 1 - k]
          <6>1. k \in 1..2 /\ Len(base) + 1 - k = 3 - k /\ Len(heard) + 1 - k = 4 - k /\ k \in 1..Len(heard)
            BY <4>1, <5>3
          <6> QED BY <5>4, <6>1
        <5>6. base \in Seq(PatternSteps) /\ Len(base) \in 0..2
          BY <5>2, <5>3
        <5> QED BY <5>5, <5>6
      <4>2. CASE Len(heard) # 3
        BY <1>1, <4>2
      <4> QED BY <4>1, <4>2
    <3>2. heard' = Append(base, played')
      BY <2>2 DEF PlayTrack
    <3> HIDE DEF base
    <3>3. /\ heard' \in Seq(PatternSteps) /\ Len(heard') = Len(base) + 1
          /\ heard'[Len(base) + 1] = played'
          /\ \A i \in 1..Len(base) : heard'[i] = base[i]
      BY <1>5, <3>1, <3>2, AppendProperties
    <3>4. ASSUME NEW k \in 2..Len(heard')
          PROVE  k - 1 \in 1..Len(heard) /\ heard'[Len(heard') + 1 - k] = heard[Len(heard) + 1 - (k - 1)]
      <4>1. k - 1 \in 1..Len(base) /\ Len(heard') + 1 - k = Len(base) + 1 - (k - 1)
            /\ Len(base) + 1 - (k - 1) \in 1..Len(base)
        BY <3>1, <3>3
      <4> QED BY <3>1, <3>3, <4>1
    <3>5. Len(heard') \in 1..3 /\ Len(heard') <= 3 /\ heard'[Len(heard')] = played'
      BY <3>1, <3>3
    <3> QED BY <2>2, <3>3, <3>4, <3>5
  <2> QED BY <2>1, <2>2
<1>8. TrackTypeOK'
  BY <1>5, <1>6, <1>7 DEF PlayTrack, TracksInv, TrackTypeOK
<1>9. ASSUME fx.repeat # 0
      PROVE  \A k \in 1..Len(heard') : heard'[Len(heard') + 1 - k] = PlayedAgo(k)'
  <2>1. fx' = fx /\ offsets' = offsets /\ fx.repeat \in {1, 3}
    BY <1>1, <1>9 DEF PlayTrack
  <2> TAKE k \in 1..Len(heard')
  <2>2. Len(heard') \in 1..3
    BY <1>7, <1>9
  <2>3. k \in 1..3
    <3> DEFINE n == Len(heard')
    <3>1. n \in 1..3 /\ k \in 1..n
      BY <2>2
    <3> HIDE DEF n
    <3> QED BY <3>1
  <2>4. /\ (loop'.since + 3 - k) % 3 = (loop.since + 3 - (k - 1)) % 3
        /\ loop'.start = loop.start
    BY <1>1, <1>6, <1>9, <2>3
  <2>5. IF fx.repeat = 3 /\ fx.offset THEN (index' + 3 - k) % 3 = (index + 3 - (k - 1)) % 3 ELSE index' = index
    BY <1>1, <2>3 DEF PlayTrack, advance_offset_indices
  <2>6. PlayedAgo(k)' = PlayedAgo(k - 1)
    <3>1. CASE fx.repeat = 3 /\ fx.offset
      BY <2>1, <2>4, <2>5, <3>1 DEF PlayedAgo
    <3>2. CASE fx.repeat = 3 /\ ~fx.offset
      BY <2>1, <2>4, <2>5, <3>2 DEF PlayedAgo
    <3>3. CASE fx.repeat = 1
      BY <2>1, <2>4, <2>5, <3>3 DEF PlayedAgo
    <3> QED BY <2>1, <3>1, <3>2, <3>3
  <2>7. CASE k = 1
    <3>1. PlayedAgo(0) = PlayedAgo(fx.repeat)
      <4>1. (loop.since + 3 - 0) % 3 = loop.since /\ (loop.since + 3 - 3) % 3 = loop.since
            /\ (index + 3 - 0) % 3 = index /\ (index + 3 - 3) % 3 = index
        BY <1>1
      <4>2. CASE fx.repeat = 3
        BY <4>1, <4>2 DEF PlayedAgo
      <4>3. CASE fx.repeat = 1
        <5>1. \A x \in 0..2 : x % 1 = 0
          OBVIOUS
        <5>2. (loop.since + 3 - 0) % 3 \in 0..2 /\ (loop.since + 3 - 1) % 3 \in 0..2
          BY <1>1
        <5> QED BY <4>3, <5>1, <5>2 DEF PlayedAgo
      <4> QED BY <2>1, <4>2, <4>3
    <3>2. played' = PlayedAgo(fx.repeat)
      BY <1>2, <1>9, NextInLoop DEF TracksInv
    <3>3. heard'[Len(heard') + 1 - k] = played'
      BY <1>7, <1>9, <2>7, <2>2
    <3>4. k - 1 = 0
      BY <2>7
    <3> QED BY <2>6, <3>1, <3>2, <3>3, <3>4
  <2>8. CASE k # 1
    <3>1. k \in 2..Len(heard')
      BY <2>2, <2>8
    <3>2. k - 1 \in 1..Len(heard) /\ heard'[Len(heard') + 1 - k] = heard[Len(heard) + 1 - (k - 1)]
      BY <1>7, <1>9, <3>1
    <3>3. heard[Len(heard) + 1 - (k - 1)] = PlayedAgo(k - 1)
      BY <1>9, <3>2 DEF TracksInv, HeardIsLoop
    <3> QED BY <2>6, <3>2, <3>3
  <2> QED BY <2>7, <2>8
<1>10. HeardIsLoop'
  <2>1. fx' = fx
    BY DEF PlayTrack
  <2> QED BY <1>7, <1>9, <2>1 DEF HeardIsLoop
<1>11. AgeIsFading'
  BY DEF TracksInv, AgeIsFading
<1>12. ASSUME fx.repeat # 0, Len(heard) >= fx.repeat
       PROVE  played' = heard[Len(heard) - fx.repeat + 1]
  <2>1. fx.repeat \in 1..Len(heard) /\ Len(heard) + 1 - fx.repeat = Len(heard) - fx.repeat + 1
    BY <1>1, <1>12
  <2>2. heard[Len(heard) + 1 - fx.repeat] = PlayedAgo(fx.repeat)
    BY <1>12, <2>1 DEF TracksInv, HeardIsLoop
  <2>3. played' = PlayedAgo(fx.repeat)
    BY <1>2, <1>12, NextInLoop DEF TracksInv
  <2> QED BY <2>1, <2>2, <2>3
<1> QED BY <1>8, <1>10, <1>11, <1>12 DEF TracksInv

\* Before a trace fades or is renewed, its age tells what is left of it.
LEMMA FadedIs ==
    ASSUME NEW t \in Traces,
           \A s \in PatternSteps : LET faded == TraceTicks - t.velocity[s] + t.elapsed
                                   IN  t.age[s] = IF faded > TraceTicks THEN TraceTicks ELSE faded
    PROVE  /\ fade_traces(t) \in Traces /\ fade_traces(t).elapsed = 0
           /\ \A s \in PatternSteps : fade_traces(t).age[s] = TraceTicks - fade_traces(t).velocity[s]
<1> DEFINE v == [s \in PatternSteps |-> IF t.velocity[s] > t.elapsed THEN t.velocity[s] - t.elapsed ELSE 0]
<1>1. TraceTicks \in Nat /\ t.elapsed \in Nat /\ 0 \in 0..MaxElapsed
      /\ \A s \in PatternSteps : t.velocity[s] \in 0..TraceTicks /\ t.age[s] \in 0..TraceTicks
  BY TicksAssumption DEF Traces
<1>2. v \in [PatternSteps -> 0..TraceTicks]
  BY <1>1
<1>3. \A s \in PatternSteps : t.age[s] = TraceTicks - v[s]
  BY <1>1
<1>4. fade_traces(t) = [t EXCEPT !.velocity = v, !.elapsed = 0]
  BY DEF fade_traces
<1> HIDE DEF v
<1> QED BY <1>1, <1>2, <1>3, <1>4 DEF Traces

LEMMA TracedIs ==
    ASSUME NEW t \in Traces, NEW steps,
           t.elapsed = 0 /\ \A s \in PatternSteps : t.age[s] = TraceTicks - t.velocity[s]
    PROVE  /\ Traced(t, steps) \in Traces /\ Traced(t, steps).elapsed = 0
           /\ \A s \in PatternSteps : Traced(t, steps).age[s] = TraceTicks - Traced(t, steps).velocity[s]
<1> DEFINE v == [s \in PatternSteps |-> IF s \in steps THEN TraceTicks ELSE t.velocity[s]]
           a == [s \in PatternSteps |-> IF s \in steps THEN 0 ELSE t.age[s]]
<1>1. TraceTicks \in Nat /\ t.velocity \in [PatternSteps -> 0..TraceTicks] /\ t.age \in [PatternSteps -> 0..TraceTicks]
  BY TicksAssumption DEF Traces
<1>2. v \in [PatternSteps -> 0..TraceTicks] /\ a \in [PatternSteps -> 0..TraceTicks]
  BY <1>1
<1>3. \A s \in PatternSteps : a[s] = TraceTicks - v[s]
  BY <1>1
<1>4. Traced(t, steps) = [t EXCEPT !.velocity = v, !.age = a]
  BY DEF Traced
<1> HIDE DEF v, a
<1> QED BY <1>2, <1>3, <1>4 DEF Traces

\* What holds of the traces at any time ...
Fading(t) ==
    \A s \in PatternSteps :
        LET faded == TraceTicks - t.velocity[s] + t.elapsed
        IN  t.age[s] = IF faded > TraceTicks THEN TraceTicks ELSE faded

\* ... follows at a hit from what holds once they have faded.
LEMMA HitKeeps ==
    ASSUME NEW t \in Traces, Fading(t), NEW zone \in Zones
    PROVE  record_pad_hit_trace(t, zone) \in Traces /\ Fading(record_pad_hit_trace(t, zone))
<1> DEFINE f == fade_traces(t)
<1>1. f \in Traces /\ f.elapsed = 0 /\ \A s \in PatternSteps : f.age[s] = TraceTicks - f.velocity[s]
  BY FadedIs DEF Fading
<1> HIDE DEF f
<1> DEFINE h == Traced(f, TraceStep(t.step, zone))
<1>2. h \in Traces /\ h.elapsed = 0 /\ \A s \in PatternSteps : h.age[s] = TraceTicks - h.velocity[s]
  BY <1>1, TracedIs
<1>3. record_pad_hit_trace(t, zone) = IF t.running THEN h ELSE t
  BY DEF record_pad_hit_trace, f
<1> HIDE DEF h
<1>4. Fading(h)
  BY <1>2, TicksAssumption DEF Fading, Traces
<1> QED BY <1>2, <1>3, <1>4

LEMMA FadeKeeps ==
    ASSUME NEW t \in Traces, Fading(t)
    PROVE  fade_traces(t) \in Traces /\ Fading(fade_traces(t))
<1> DEFINE f == fade_traces(t)
<1>1. f \in Traces /\ f.elapsed = 0 /\ \A s \in PatternSteps : f.age[s] = TraceTicks - f.velocity[s]
  BY FadedIs DEF Fading
<1> HIDE DEF f
<1>2. Fading(f)
  BY <1>1, TicksAssumption DEF Fading, Traces
<1> QED BY <1>1, <1>2 DEF f

LEMMA StepMoves ==
    ASSUME NEW t \in Traces, Fading(t), NEW s \in PatternSteps
    PROVE  [t EXCEPT !.step = s] \in Traces /\ Fading([t EXCEPT !.step = s])
  BY DEF Traces, Fading

LEMMA TraceNextKeeps ==
    ASSUME traces \in Traces, Fading(traces), TraceNext
    PROVE  traces' \in Traces /\ Fading(traces')
<1>1. CASE Hit
  BY <1>1, HitKeeps DEF Hit
<1>2. CASE TraceTick
  <2>1. PICK ticks \in 1..MaxElapsed - traces.elapsed :
           traces' = [traces EXCEPT
                        !.elapsed = @ + ticks,
                        !.age = [s \in PatternSteps |->
                                    IF @[s] + ticks > TraceTicks THEN TraceTicks ELSE @[s] + ticks]]
    BY <1>2 DEF TraceTick
  <2> DEFINE a == [s \in PatternSteps |->
                     IF traces.age[s] + ticks > TraceTicks THEN TraceTicks ELSE traces.age[s] + ticks]
             e == traces.elapsed + ticks
  <2>2. traces' = [traces EXCEPT !.elapsed = e, !.age = a]
    BY <2>1
  <2>3. /\ TraceTicks \in Nat /\ MaxElapsed \in Nat /\ traces.elapsed \in 0..MaxElapsed
        /\ \A s \in PatternSteps : traces.velocity[s] \in 0..TraceTicks /\ traces.age[s] \in 0..TraceTicks
    BY TicksAssumption DEF Traces
  <2>4. e \in 0..MaxElapsed
    BY <2>3
  <2>5. a \in [PatternSteps -> 0..TraceTicks]
    BY <2>3
  <2>6. \A s \in PatternSteps :
            a[s] = IF TraceTicks - traces.velocity[s] + e > TraceTicks THEN TraceTicks
                   ELSE TraceTicks - traces.velocity[s] + e
    BY <2>3 DEF Fading
  <2> HIDE DEF a, e
  <2> QED BY <2>2, <2>4, <2>5, <2>6 DEF Traces, Fading
<1>3. CASE TraceUpdate
  <2>1. PICK hits \in BOOLEAN, zone \in Zones :
           LET t == fade_traces(IF hits THEN record_pad_hit_trace(traces, zone) ELSE traces)
           IN  \/ traces' = t
               \/ \E s \in PatternSteps :
                     \/ traces' = [t EXCEPT !.step = s]
                     \/ traces' = record_pad_hit_trace([t EXCEPT !.step = s], zone)
    BY <1>3 DEF TraceUpdate
  <2> DEFINE h == IF hits THEN record_pad_hit_trace(traces, zone) ELSE traces
             t == fade_traces(h)
  <2>2. h \in Traces /\ Fading(h)
    BY HitKeeps
  <2> HIDE DEF h
  <2>3. t \in Traces /\ Fading(t)
    BY <2>2, FadeKeeps
  <2>4. \/ traces' = t
        \/ \E s \in PatternSteps :
              \/ traces' = [t EXCEPT !.step = s]
              \/ traces' = record_pad_hit_trace([t EXCEPT !.step = s], zone)
    BY <2>1 DEF h
  <2> HIDE DEF t
  <2>5. CASE traces' = t
    BY <2>3, <2>5
  <2>6. ASSUME NEW s \in PatternSteps,
               \/ traces' = [t EXCEPT !.step = s]
               \/ traces' = record_pad_hit_trace([t EXCEPT !.step = s], zone)
        PROVE  traces' \in Traces /\ Fading(traces')
    <3> DEFINE g == [t EXCEPT !.step = s]
    <3>1. g \in Traces /\ Fading(g)
      BY <2>3, StepMoves
    <3>2. traces' = g \/ traces' = record_pad_hit_trace(g, zone)
      BY <2>6
    <3> HIDE DEF g
    <3> QED BY <3>1, <3>2, HitKeeps
  <2> QED BY <2>4, <2>5, <2>6
<1>4. CASE TraceRuns
  <2>1. ASSUME NEW s \in PatternSteps, traces' = [traces EXCEPT !.running = TRUE, !.step = s]
        PROVE  traces' \in Traces /\ Fading(traces')
    BY <2>1 DEF Traces, Fading
  <2>2. ASSUME traces' = [traces EXCEPT !.running = FALSE, !.velocity = [s \in PatternSteps |-> 0],
                                        !.age = [s \in PatternSteps |-> TraceTicks]]
        PROVE  traces' \in Traces /\ Fading(traces')
    <3> DEFINE v == [s \in PatternSteps |-> 0]  a == [s \in PatternSteps |-> TraceTicks]
    <3>1. v \in [PatternSteps -> 0..TraceTicks] /\ a \in [PatternSteps -> 0..TraceTicks]
      BY TicksAssumption
    <3>2. traces' = [traces EXCEPT !.running = FALSE, !.velocity = v, !.age = a]
      BY <2>2
    <3>3. traces.elapsed \in Nat
      BY TicksAssumption DEF Traces
    <3>4. \A s \in PatternSteps : v[s] = 0 /\ a[s] = TraceTicks
      OBVIOUS
    <3> HIDE DEF v, a
    <3>5. traces' \in Traces
      BY <3>1, <3>2 DEF Traces
    <3>6. traces'.velocity = v /\ traces'.age = a /\ traces'.elapsed = traces.elapsed
      BY <3>2 DEF Traces
    <3> QED BY <3>3, <3>4, <3>5, <3>6, TicksAssumption DEF Fading
  <2> QED BY <1>4, <2>1, <2>2 DEF TraceRuns
<1> QED BY <1>1, <1>2, <1>3, <1>4 DEF TraceNext

-----------------------------------------------------------------------------
\* A step of the sequencer or a button.
LEMMA StepNextKeeps ==
    ASSUME TracksInv, StepNext, UNCHANGED traces
    PROVE  /\ TracksInv'
           /\ counter' # counter /\ fx.repeat # 0 /\ Len(heard) >= fx.repeat
                => played' = heard[Len(heard) - fx.repeat + 1]
<1> USE DEF TracksInv
<1>1. /\ fx \in Effects /\ counter \in PatternSteps
      /\ loop \in [start : PatternSteps, since : 0..2]
  BY DEF TrackTypeOK
<1>2. CASE PlayTrack
  BY <1>2, PlayTrackKeeps
<1>3. CASE PressRandom
  <2>1. fx' \in Effects
    BY <1>1, <1>3, FxTypes DEF PressRandom
  <2>2. offsets' \in [0..2 -> PatternSteps] /\ index' \in 0..2 /\ counter' = counter
    BY <1>3, DrawsAssumption DEF PressRandom, regenerate_offsets
  <2>3. heard' = << >> /\ heard' \in Seq(PatternSteps) /\ Len(heard') = 0
    BY <1>3 DEF PressRandom
  <2>4. TrackTypeOK'
    BY <1>3, <2>1, <2>2, <2>3 DEF PressRandom, TrackTypeOK
  <2>5. HeardIsLoop'
    BY <2>3 DEF HeardIsLoop
  <2>6. AgeIsFading'
    BY DEF AgeIsFading
  <2> QED BY <2>2, <2>4, <2>5, <2>6
<1>4. CASE ReleaseRandom
  <2>1. loop' = loop /\ counter' = counter
    BY <1>4 DEF ReleaseRandom, Changed
  <2> QED BY <1>1, <1>4, <2>1, FxTypes, ChangedForgets DEF ReleaseRandom
<1>5. CASE PreviewSteps
  <2>1. loop' = loop /\ counter' = counter
    BY <1>5 DEF PreviewSteps, Changed
  <2> QED BY <1>1, <1>5, <2>1, FxTypes, ChangedForgets DEF PreviewSteps
<1>6. CASE PressRepeat
  <2>1. PICK length \in {0, 1, 3} :
            /\ Changed(set_intended_repeat_state(fx, length))
            /\ loop' = IF fx.repeat = 0 THEN [start |-> counter, since |-> 0] ELSE loop
    BY <1>6 DEF PressRepeat
  <2>2. loop' \in [start : PatternSteps, since : 0..2] /\ counter' = counter
    BY <1>1, <2>1 DEF Changed
  <2> QED BY <1>1, <2>1, <2>2, FxTypes, ChangedForgets
<1>7. CASE StartPlaying
  <2>1. fx.repeat = 0 /\ fx'.repeat = 0 /\ fx' \in Effects /\ counter' = counter /\ played' = NotPlayed
    BY <1>1, <1>7 DEF StartPlaying, Effects
  <2>2. heard' = heard /\ heard = << >>
    BY <1>7, <2>1 DEF StartPlaying, HeardIsLoop
  <2>3. TrackTypeOK'
    BY <1>7, <2>1, <2>2 DEF StartPlaying, TrackTypeOK
  <2>4. HeardIsLoop'
    BY <2>1, <2>2 DEF HeardIsLoop
  <2>5. AgeIsFading'
    BY DEF AgeIsFading
  <2> QED BY <2>1, <2>3, <2>4, <2>5
<1>8. CASE StopPlaying
  <2>1. loop' = loop /\ counter' = counter
    BY <1>8 DEF StopPlaying, Changed
  <2> QED BY <1>1, <1>8, <2>1, FxTypes, ChangedForgets DEF StopPlaying
<1>9. CASE EndLoop
  <2>1. loop' = loop /\ counter' = counter
    BY <1>9 DEF EndLoop, Changed
  <2> QED BY <1>1, <1>9, <2>1, FxTypes, ChangedForgets DEF EndLoop
<1> QED BY StepNext, <1>2, <1>3, <1>4, <1>5, <1>6, <1>7, <1>8, <1>9 DEF StepNext

LEMMA TrackStepKeeps ==
    ASSUME TracksInv, [TrackNext]_trackVars
    PROVE  /\ TracksInv'
           /\ counter' # counter /\ fx.repeat # 0 /\ Len(heard) >= fx.repeat
                => played' = heard[Len(heard) - fx.repeat + 1]
<1>1. CASE StepNext /\ UNCHANGED traces
  BY <1>1, StepNextKeeps
<1>2. CASE TraceNext /\ UNCHANGED stepVars
  <2>1. traces' \in Traces /\ Fading(traces')
    BY <1>2, TraceNextKeeps DEF TracksInv, TrackTypeOK, AgeIsFading, Fading
  <2>2. AgeIsFading'
    BY <2>1 DEF AgeIsFading, Fading
  <2>3. TrackTypeOK' /\ HeardIsLoop' /\ counter' = counter
    BY <1>2, <2>1 DEF stepVars, TracksInv, TrackTypeOK, HeardIsLoop, PlayedAgo
  <2> QED BY <2>2, <2>3 DEF TracksInv
<1>3. CASE UNCHANGED trackVars
  BY <1>3 DEF trackVars, stepVars, TracksInv, TrackTypeOK, HeardIsLoop, PlayedAgo, AgeIsFading
<1> QED BY <1>1, <1>2, <1>3 DEF TrackNext

LEMMA TrackInitInv == TrackInit => TracksInv
<1> SUFFICES ASSUME TrackInit PROVE TracksInv
  OBVIOUS
<1>1. 0 \in PatternSteps /\ 0 \in 0..2 /\ 0 \in 0..MaxElapsed /\ NotPlayed \in {NotPlayed}
      /\ 0 \in 0..TraceTicks /\ TraceTicks \in 0..TraceTicks
  BY LengthAssumption, TicksAssumption DEF PatternSteps
<1>2. fx \in Effects /\ fx.repeat = 0
  BY DEF TrackInit, Effects, RandomEffectState
<1>3. heard = << >> /\ heard \in Seq(PatternSteps) /\ Len(heard) <= 3
  BY DEF TrackInit
<1>4. traces \in Traces
  BY <1>1 DEF TrackInit, Traces
<1>5. TrackTypeOK
  BY <1>1, <1>2, <1>3, <1>4 DEF TrackInit, TrackTypeOK
<1>6. HeardIsLoop
  BY <1>2, <1>3 DEF HeardIsLoop
<1>7. AgeIsFading
  BY TicksAssumption DEF TrackInit, AgeIsFading
<1> QED BY <1>5, <1>6, <1>7 DEF TracksInv

\* The tracks' variables keep their types, what is remembered of a loop is what
\* the loop plays, and a trace's age what is left of it.
THEOREM TracksCorrect == TrackSpec => []TracksInv
<1>1. TracksInv /\ [TrackNext]_trackVars => TracksInv'
  BY TrackStepKeeps
<1> QED BY <1>1, TrackInitInv, PTL DEF TrackSpec

\* A trace is seen for as many ticks as it is meant to last from its hit on.
THEOREM TracesLastAlways == TrackSpec => []TracesLast
<1>1. TracksInv => TracesLast
  <2> SUFFICES ASSUME TracksInv, traces.elapsed = 0, NEW s \in PatternSteps
               PROVE  traces.velocity[s] = TraceTicks - traces.age[s]
    BY DEF TracesLast
  <2>1. traces.velocity[s] \in 0..TraceTicks /\ TraceTicks \in Nat
    BY TicksAssumption DEF TracksInv, TrackTypeOK, Traces
  <2> QED BY <2>1 DEF TracksInv, AgeIsFading
<1> QED BY <1>1, TracksCorrect, PTL

\* A loop of REPEAT repeats while no button changes the effects.
THEOREM LoopRepeatsAlways == TrackSpec => LoopRepeats
<1>1. TracksInv /\ [TrackNext]_trackVars
        => [ counter' # counter /\ fx.repeat # 0 /\ Len(heard) >= fx.repeat
               => played' = heard[Len(heard) - fx.repeat + 1] ]_trackVars
  BY TrackStepKeeps
<1> QED BY <1>1, TracksCorrect, PTL DEF TrackSpec, LoopRepeats
=============================================================================

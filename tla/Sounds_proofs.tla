--------------------------- MODULE Sounds_proofs ---------------------------
(***************************************************************************)
(* From the pattern to what is heard, for every size of it. The pattern in *)
(* flash: a clean state is the one that is stored, and an edit is saved in *)
(* time, wherever the clock wraps. The notes of the steps: no note hangs   *)
(* that its track does not remember, by what a queue delivers and what     *)
(* each track's turn keeps. The voices: what a voice plays is one version  *)
(* of one sample from its beginning, by the order in which play_on_voice   *)
(* and the interrupt take their steps.                                     *)
(***************************************************************************)
EXTENDS StatePersistence, StepSounds, Voices, Lemmas

(* The pattern and its file *)

\* A step's note is that of its track's pad, if it has one.
NotesFollow == \A t \in Tracks, s \in Steps : pattern.step[t][s].note \in {NoNote, pattern.active[t]}

\* A clean state would be restored, if fclose tells the truth.
CleanIsKept == ~CloseMayFail /\ mode # "Off" /\ ready /\ ~timing.dirty => Kept = create_persistent_state(Restored(file))

\* While no save has failed: an edit waits since it was made, and no longer
\* than since the last save but for one millisecond.
Waiting ==
    /\ timing.dirty /\ mode # "Off" => ready
    /\ failures = 0 => age <= Interval + 1
    /\ failures = 0 /\ mode # "Off" =>
          /\ ~timing.dirty \/ mode # "Sequencer" => age = 0
          /\ age <= Since(timing.save) + 1
          /\ looped => age = 0 \/ Since(timing.save) < Interval

PersistenceInv == PersistenceTypeOK /\ NotesFollow /\ CleanIsKept /\ Waiting

-----------------------------------------------------------------------------
\* The time between two readings of the clock, which may have gone back.
LEMMA Elapsed ==
    ASSUME NEW t \in Clock, NEW u \in Clock
    PROVE  (u - t) % Word = IF u >= t THEN u - t ELSE (u - t) + Word
<1>1. Word \in Nat /\ Wrap \in Nat /\ Word > Wrap /\ t \in 0..Wrap - 1 /\ u \in 0..Wrap - 1
  BY TimeAssumption DEF Clock
<1>2. CASE u >= t
  <2>1. u - t \in 0..Word - 1
    BY <1>1, <1>2
  <2> QED BY <1>1, <1>2, <2>1
<1>3. CASE u < t
  <2> DEFINE r == (u - t) + Word
  <2>1. r \in 0..Word - 1 /\ u - t = Word * (-1) + r
    BY <1>1, <1>3
  <2> HIDE DEF r
  <2>2. (u - t) % Word = r
    BY <1>1, <2>1
  <2> QED BY <1>1, <1>3, <2>2 DEF r
<1> QED BY <1>1, <1>2, <1>3

LEMMA SinceNat ==
    ASSUME NEW t \in Clock, NEW u \in Clock PROVE (u - t) % Word \in Nat
<1>1. Word \in Nat /\ Wrap \in Nat /\ Word > Wrap /\ t \in 0..Wrap - 1 /\ u \in 0..Wrap - 1
  BY TimeAssumption DEF Clock
<1> QED BY <1>1, Elapsed

LEMMA Ticked ==
    ASSUME NEW t \in Clock, now \in Clock
    PROVE  /\ (now + 1) % Wrap \in Clock
           /\ Since(t) \in Nat
           /\ Since(t) < Interval =>
                 LET later == (((now + 1) % Wrap) - t) % Word
                 IN  later = Since(t) + 1 \/ later > Interval
           /\ (((now + 1) % Wrap) - t) % Word \in Nat
<1>1. Word \in Nat /\ Wrap \in Nat \ {0} /\ Word >= Wrap + Interval /\ Wrap > Interval /\ Interval \in Nat \ {0}
      /\ t \in 0..Wrap - 1 /\ now \in 0..Wrap - 1
  BY TimeAssumption DEF Clock
<1>2. (now + 1) % Wrap = IF now + 1 = Wrap THEN 0 ELSE now + 1
  BY <1>1
<1> DEFINE n == (now + 1) % Wrap
<1>3. n \in Clock
  BY <1>1, <1>2 DEF Clock
<1> HIDE DEF n
<1>4. (n - t) % Word = IF n >= t THEN n - t ELSE (n - t) + Word
  BY <1>3, Elapsed
<1>5. Since(t) = IF now >= t THEN now - t ELSE (now - t) + Word
  BY Elapsed DEF Since
<1>6. n \in 0..Wrap - 1 /\ n = IF now + 1 = Wrap THEN 0 ELSE now + 1
  BY <1>2, <1>3 DEF n, Clock
<1>7. Since(t) \in Nat /\ (n - t) % Word \in Nat
  BY <1>1, <1>4, <1>5, <1>6
<1>8. ASSUME Since(t) < Interval PROVE (n - t) % Word = Since(t) + 1 \/ (n - t) % Word > Interval
  BY <1>1, <1>4, <1>5, <1>6, <1>8
<1> QED BY <1>3, <1>7, <1>8 DEF n

-----------------------------------------------------------------------------
LEMMA SevenBits == Velocities \cup {0} \subseteq 0..127 /\ Notes \subseteq 0..127
<1>1. \A v \in Velocities : v \in 0..127
  <2>1. \A v \in Velocities : v \in 1..127
    BY VelocityAssumption
  <2> QED BY <2>1
<1>2. 0 \in 0..127
  OBVIOUS
<1> QED BY <1>1, <1>2, RangeAssumption

\* The payload of a SysEx message holds what was put into it.
LEMMA PayloadIs ==
    ASSUME NEW kept \in SequencerPersistentState
    PROVE  decode_sequencer_state(encode_sequencer_state(kept)) = kept
<1> DEFINE N == NumTracks  M == NumSteps  e == encode_sequencer_state(kept)
<1>1. N \in Nat \ {0} /\ M \in Nat \ {0}
  BY SizeAssumption
<1>2. /\ \A t \in Tracks, s \in Steps : kept.velocities[t][s] \in 0..127
      /\ \A t \in Tracks : kept.active[t] \in 0..127
  BY SevenBits DEF SequencerPersistentState
<1>3. ASSUME NEW t \in Tracks, NEW s \in Steps PROVE e[t * M + s] = kept.velocities[t][s]
  <2>1. t \in 0..N - 1 /\ s \in 0..M - 1
    BY DEF Tracks, Steps
  <2>2. t * M + s < N * M /\ t * M + s \in Nat
    <3>1. t * M + s < (t + 1) * M /\ t * M \in Nat
      BY <1>1, <2>1
    <3>2. (t + 1) * M <= N * M
      BY <1>1, <2>1
    <3> QED BY <1>1, <2>1, <3>1, <3>2
  <2>3. (t * M + s) \div M = t /\ (t * M + s) % M = s
    BY <1>1, <2>1
  <2>4. t * M + s \in 0..N * M + N - 1
    BY <1>1, <2>2
  <2>5. e[t * M + s] = kept.velocities[t][s] % 128
    BY <2>2, <2>3, <2>4 DEF encode_sequencer_state
  <2> QED BY <1>2, <2>5
<1>4. ASSUME NEW t \in Tracks PROVE e[N * M + t] = kept.active[t]
  <2>1. t \in 0..N - 1 /\ N * M \in Nat
    BY <1>1 DEF Tracks
  <2>2. N * M + t \in 0..N * M + N - 1 /\ ~(N * M + t < N * M) /\ (N * M + t) - N * M = t
    BY <1>1, <2>1
  <2>3. e[N * M + t] = kept.active[t] % 128
    BY <2>2 DEF encode_sequencer_state
  <2> QED BY <1>2, <2>3
<1> HIDE DEF e
<1>5. [t \in Tracks |-> [s \in Steps |-> e[t * M + s]]] = kept.velocities
  BY <1>3 DEF SequencerPersistentState
<1>6. [t \in Tracks |-> e[N * M + t]] = kept.active
  BY <1>4 DEF SequencerPersistentState
<1>7. decode_sequencer_state(e) = [velocities |-> kept.velocities, active |-> kept.active]
  BY <1>5, <1>6 DEF decode_sequencer_state
<1> QED BY <1>7 DEF SequencerPersistentState, e

LEMMA TracksAre == Tracks \subseteq Nat /\ NumTracks \in Nat \ {0}
  BY SizeAssumption DEF Tracks

LEMMA InitialIs ==
    /\ InitialPattern \in Pattern
    /\ \A t \in Tracks, s \in Steps :
          InitialPattern.step[t][s].note = InitialPattern.active[t] /\ ~InitialPattern.step[t][s].enabled
  BY RangeAssumption, VelocityAssumption DEF InitialPattern, Pattern, Step

LEMMA CreatedIs ==
    ASSUME NEW p \in Pattern PROVE create_persistent_state(p) \in SequencerPersistentState
<1>1. \A t \in Tracks, s \in Steps :
        (IF p.step[t][s].enabled THEN p.step[t][s].velocity ELSE 0) \in Velocities \cup {0}
  BY DEF Pattern, Step
<1> QED BY <1>1 DEF create_persistent_state, SequencerPersistentState, Pattern

LEMMA AppliedIs ==
    ASSUME NEW k \in SequencerPersistentState
    PROVE  /\ apply_persistent_state(k) \in Pattern
           /\ apply_persistent_state(k).active = k.active
           /\ \A t \in Tracks, s \in Steps :
                 apply_persistent_state(k).step[t][s] =
                    IF k.velocities[t][s] > 0
                    THEN [note |-> k.active[t], velocity |-> k.velocities[t][s], enabled |-> TRUE]
                    ELSE [note |-> NoNote, velocity |-> 0, enabled |-> FALSE]
<1>1. ASSUME NEW t \in Tracks, NEW s \in Steps
      PROVE  (IF k.velocities[t][s] > 0
              THEN [note |-> k.active[t], velocity |-> k.velocities[t][s], enabled |-> TRUE]
              ELSE [note |-> NoNote, velocity |-> 0, enabled |-> FALSE]) \in Step
  <2>1. k.velocities[t][s] \in Velocities \cup {0} /\ k.active[t] \in Notes
    BY DEF SequencerPersistentState
  <2> QED BY <2>1 DEF Step
<1>2. k.active \in [Tracks -> Notes]
  BY DEF SequencerPersistentState
<1> QED BY <1>1, <1>2 DEF apply_persistent_state, Pattern

\* What is kept of a pattern is kept of what is made of that.
LEMMA KeptAgain ==
    ASSUME NEW p \in Pattern
    PROVE  create_persistent_state(apply_persistent_state(create_persistent_state(p))) = create_persistent_state(p)
<1> DEFINE k == create_persistent_state(p)  a == apply_persistent_state(k)
<1>1. k \in SequencerPersistentState
  BY CreatedIs
<1> HIDE DEF k
<1>2. /\ a \in Pattern /\ a.active = k.active
      /\ \A t \in Tracks, s \in Steps :
                 a.step[t][s] =
                    IF k.velocities[t][s] > 0
                    THEN [note |-> k.active[t], velocity |-> k.velocities[t][s], enabled |-> TRUE]
                    ELSE [note |-> NoNote, velocity |-> 0, enabled |-> FALSE]
  BY <1>1, AppliedIs
<1> HIDE DEF a
<1>3. ASSUME NEW t \in Tracks, NEW s \in Steps
      PROVE  (IF a.step[t][s].enabled THEN a.step[t][s].velocity ELSE 0) = k.velocities[t][s]
  <2>1. k.velocities[t][s] \in Velocities \cup {0}
    BY <1>1 DEF SequencerPersistentState
  <2>2. k.velocities[t][s] \in 0..127
    BY <2>1, SevenBits
  <2>3. CASE k.velocities[t][s] > 0
    <3>1. a.step[t][s] = [note |-> k.active[t], velocity |-> k.velocities[t][s], enabled |-> TRUE]
      BY <1>2, <2>3
    <3> QED BY <3>1
  <2>4. CASE ~(k.velocities[t][s] > 0)
    <3>1. a.step[t][s] = [note |-> NoNote, velocity |-> 0, enabled |-> FALSE]
      BY <1>2, <2>4
    <3> QED BY <2>2, <2>4, <3>1
  <2> QED BY <2>3, <2>4
<1>4. [t \in Tracks |-> [s \in Steps |-> IF a.step[t][s].enabled THEN a.step[t][s].velocity ELSE 0]] = k.velocities
  BY <1>1, <1>3 DEF SequencerPersistentState
<1>5. create_persistent_state(a) = [velocities |-> k.velocities, active |-> k.active]
  BY <1>2, <1>4 DEF create_persistent_state
<1> QED BY <1>1, <1>5 DEF SequencerPersistentState, a, k

LEMMA RestoredIs ==
    ASSUME NEW f \in SequencerPersistentState \cup {NoFile, Torn}
    PROVE  /\ Restored(f) \in Pattern
           /\ \A t \in Tracks, s \in Steps :
                 /\ Restored(f).step[t][s].note \in {NoNote, Restored(f).active[t]}
                 /\ Restored(f).step[t][s].enabled =>
                       Restored(f).step[t][s].note = Restored(f).active[t]
<1>1. CASE f \in {NoFile, Torn}
  <2>1. Restored(f) = InitialPattern
    BY <1>1 DEF Restored
  <2> QED BY <2>1, InitialIs
<1>2. CASE f \notin {NoFile, Torn}
  <2>1. Restored(f) = apply_persistent_state(f) /\ f \in SequencerPersistentState
    BY <1>2 DEF Restored
  <2>2. ASSUME NEW t \in Tracks, NEW s \in Steps
        PROVE  /\ Restored(f).step[t][s].note \in {NoNote, Restored(f).active[t]}
               /\ Restored(f).step[t][s].enabled => Restored(f).step[t][s].note = Restored(f).active[t]
    <3>1. CASE f.velocities[t][s] > 0
      <4>1. Restored(f).step[t][s] = [note |-> f.active[t], velocity |-> f.velocities[t][s], enabled |-> TRUE]
            /\ Restored(f).active = f.active
        BY <2>1, <3>1, AppliedIs
      <4> QED BY <4>1
    <3>2. CASE ~(f.velocities[t][s] > 0)
      <4>1. apply_persistent_state(f).step[t][s] = [note |-> NoNote, velocity |-> 0, enabled |-> FALSE]
        BY <2>1, <3>2, AppliedIs
      <4> QED BY <2>1, <4>1
    <3> QED BY <3>1, <3>2
  <2> QED BY <2>1, <2>2, AppliedIs
<1> QED BY <1>1, <1>2

-----------------------------------------------------------------------------
\* The edits.
LEMMA PatternParts ==
    ASSUME NEW p \in Pattern
    PROVE  /\ p.active \in [Tracks -> Notes] /\ p.step \in [Tracks -> [Steps -> Step]]
           /\ p = [active |-> p.active, step |-> p.step]
  BY DEF Pattern

LEMMA CellReplaced ==
    ASSUME NEW T, NEW S, NEW V, NEW g \in [T -> [S -> V]], NEW t \in T, NEW s \in S, NEW x \in V
    PROVE  LET q == [g EXCEPT ![t][s] = x]
           IN  /\ q \in [T -> [S -> V]] /\ q[t][s] = x
               /\ \A u \in T, w \in S : q[u][w] = IF u = t /\ w = s THEN x ELSE g[u][w]
<1> DEFINE row == [g[t] EXCEPT ![s] = x]  q == [g EXCEPT ![t] = row]
<1>1. row \in [S -> V] /\ \A w \in S : row[w] = IF w = s THEN x ELSE g[t][w]
  OBVIOUS
<1> HIDE DEF row
<1>2. q \in [T -> [S -> V]] /\ \A u \in T : q[u] = IF u = t THEN row ELSE g[u]
  BY <1>1
<1> HIDE DEF q
<1>3. q \in [T -> [S -> V]] /\ q[t][s] = x /\ \A u \in T, w \in S : q[u][w] = IF u = t /\ w = s THEN x ELSE g[u][w]
  BY <1>1, <1>2
<1>4. [g EXCEPT ![t][s] = x] = q
  BY DEF q, row
<1> QED BY <1>3, <1>4

LEMMA PressedIs ==
    ASSUME NEW p \in Pattern, NEW t \in Tracks, NEW s \in Steps,
           \A u \in Tracks, w \in Steps : p.step[u][w].note \in {NoNote, p.active[u]}
    PROVE  /\ Pressed(p, t, s) \in Pattern
           /\ \A u \in Tracks, w \in Steps :
                 Pressed(p, t, s).step[u][w].note \in {NoNote, Pressed(p, t, s).active[u]}
<1> DEFINE x == IF p.step[t][s].enabled THEN [p.step[t][s] EXCEPT !.enabled = FALSE]
                ELSE [note |-> p.active[t], velocity |-> DefaultVelocity, enabled |-> TRUE]
           q == [p.step EXCEPT ![t][s] = x]
<1>1. p.active \in [Tracks -> Notes] /\ p.step \in [Tracks -> [Steps -> Step]]
  BY PatternParts
<1>2. x \in Step /\ x.note \in {NoNote, p.active[t]}
  <2>1. p.step[t][s] \in Step /\ p.active[t] \in Notes /\ DefaultVelocity \in Velocities
    BY <1>1, VelocityAssumption
  <2> QED BY <2>1 DEF Step
<1>3. Pressed(p, t, s) = [p EXCEPT !.step = q]
  BY DEF Pressed, Pattern
<1> HIDE DEF x
<1>4. /\ q \in [Tracks -> [Steps -> Step]]
      /\ \A u \in Tracks, w \in Steps : q[u][w] = IF u = t /\ w = s THEN x ELSE p.step[u][w]
  BY <1>1, <1>2, CellReplaced
<1> HIDE DEF q
<1>5. Pressed(p, t, s) \in Pattern /\ Pressed(p, t, s).active = p.active /\ Pressed(p, t, s).step = q
  BY <1>1, <1>3, <1>4 DEF Pattern
<1> QED BY <1>2, <1>4, <1>5

LEMMA HeldIs ==
    ASSUME NEW p \in Pattern, NEW t \in Tracks, NEW s \in Steps,
           \A u \in Tracks, w \in Steps : p.step[u][w].note \in {NoNote, p.active[u]}
    PROVE  /\ Held(p, t, s) \in Pattern
           /\ \A u \in Tracks, w \in Steps :
                 Held(p, t, s).step[u][w].note \in {NoNote, Held(p, t, s).active[u]}
<1> DEFINE y == [p.step[t][s] EXCEPT !.enabled = TRUE]  x == [y EXCEPT !.velocity = HoldVelocity]
           g == [p.step EXCEPT ![t][s] = y]  h == [g EXCEPT ![t][s] = x]
           q == [p.step EXCEPT ![t][s] = x]
<1>1. p.active \in [Tracks -> Notes] /\ p.step \in [Tracks -> [Steps -> Step]]
  BY PatternParts
<1>2. y \in Step /\ x \in Step /\ x.note = p.step[t][s].note
  <2>1. p.step[t][s] \in Step /\ HoldVelocity \in Velocities
    BY <1>1, VelocityAssumption
  <2>2. y \in Step /\ y.note = p.step[t][s].note
    BY <2>1 DEF Step
  <2> HIDE DEF y
  <2> QED BY <2>1, <2>2 DEF Step
<1>6. [g[t][s] EXCEPT !.velocity = HoldVelocity] = x
  <2> HIDE DEF y
  <2>1. g[t][s] = y
    BY <1>1, <1>2, CellReplaced
  <2> QED BY <2>1
<1>7. h = q
  <2> HIDE DEF y, x
  <2>1. g = [p.step EXCEPT ![t] = [p.step[t] EXCEPT ![s] = y]]
    OBVIOUS
  <2>2. h = [g EXCEPT ![t] = [g[t] EXCEPT ![s] = x]]
    OBVIOUS
  <2>3. g \in [Tracks -> [Steps -> Step]] /\ h \in [Tracks -> [Steps -> Step]] /\ q \in [Tracks -> [Steps -> Step]]
    BY <1>1, <1>2, CellReplaced
  <2>4. \A u \in Tracks, w \in Steps : g[u][w] = IF u = t /\ w = s THEN y ELSE p.step[u][w]
    BY <1>1, <1>2, CellReplaced
  <2>5. \A u \in Tracks, w \in Steps : q[u][w] = IF u = t /\ w = s THEN x ELSE p.step[u][w]
    BY <1>1, <1>2, CellReplaced
  <2>6. \A u \in Tracks, w \in Steps : h[u][w] = IF u = t /\ w = s THEN x ELSE g[u][w]
    <3> HIDE DEF g
    <3> QED BY <1>2, <2>3, CellReplaced
  <2> HIDE DEF g, h, q
  <2>7. \A u \in Tracks, w \in Steps : h[u][w] = q[u][w]
    BY <2>4, <2>5, <2>6
  <2>8. \A u \in Tracks : h[u] = q[u]
    BY <2>3, <2>7
  <2> QED BY <2>3, <2>8
<1>8. Held(p, t, s) = [[p EXCEPT !.step = g] EXCEPT !.step[t][s] = [g[t][s] EXCEPT !.velocity = HoldVelocity]]
  BY DEF Held, Pattern
<1>9. [p EXCEPT !.step = g].step = g
  BY DEF Pattern
<1>3. Held(p, t, s) = [p EXCEPT !.step = q]
  <2> HIDE DEF g, x, q
  <2>1. Held(p, t, s) = [[p EXCEPT !.step = g] EXCEPT !.step = h]
    BY <1>6, <1>8, <1>9
  <2> QED BY <2>1, <1>7 DEF Pattern
<1> HIDE DEF x, y
<1>4. /\ q \in [Tracks -> [Steps -> Step]]
      /\ \A u \in Tracks, w \in Steps : q[u][w] = IF u = t /\ w = s THEN x ELSE p.step[u][w]
  BY <1>1, <1>2, CellReplaced
<1> HIDE DEF q
<1>5. Held(p, t, s) \in Pattern /\ Held(p, t, s).active = p.active /\ Held(p, t, s).step = q
  BY <1>1, <1>3, <1>4 DEF Pattern
<1> QED BY <1>2, <1>4, <1>5

LEMMA WithNoteIs ==
    ASSUME NEW p \in Pattern, NEW t \in Tracks, NEW n \in Notes,
           \A u \in Tracks, w \in Steps : p.step[u][w].note \in {NoNote, p.active[u]}
    PROVE  /\ WithNote(p, t, n) \in Pattern
           /\ \A u \in Tracks, w \in Steps :
                 WithNote(p, t, n).step[u][w].note \in {NoNote, WithNote(p, t, n).active[u]}
<1> DEFINE row == [s \in Steps |-> [p.step[t][s] EXCEPT !.note = n]]
           a == [p.active EXCEPT ![t] = n]  q == [p.step EXCEPT ![t] = row]
<1>1. p.active \in [Tracks -> Notes] /\ p.step \in [Tracks -> [Steps -> Step]]
  BY PatternParts
<1>2. row \in [Steps -> Step] /\ \A s \in Steps : row[s].note = n
  <2>1. ASSUME NEW s \in Steps
        PROVE  [p.step[t][s] EXCEPT !.note = n] \in Step /\ [p.step[t][s] EXCEPT !.note = n].note = n
    <3>1. p.step[t][s] \in Step
      BY <1>1
    <3> QED BY <3>1 DEF Step
  <2> QED BY <2>1
<1>3. WithNote(p, t, n) = [[p EXCEPT !.active = a] EXCEPT !.step = q]
  BY <1>1 DEF WithNote, Pattern
<1> HIDE DEF row
<1>4. /\ q \in [Tracks -> [Steps -> Step]] /\ a \in [Tracks -> Notes]
      /\ \A u \in Tracks : IF u = t THEN q[u] = row /\ a[u] = n ELSE q[u] = p.step[u] /\ a[u] = p.active[u]
  BY <1>1, <1>2
<1> HIDE DEF q, a
<1>5. WithNote(p, t, n) \in Pattern /\ WithNote(p, t, n).active = a /\ WithNote(p, t, n).step = q
  BY <1>1, <1>3, <1>4 DEF Pattern
<1> QED BY <1>2, <1>4, <1>5

LEMMA WithinRange ==
    ASSUME NEW lo \in 0..127, NEW hi \in 0..127, lo <= hi, NEW a \in 0..127, NEW d \in {-1, 1}
    PROVE  lo + ((a + d - lo) % (hi - lo + 1)) \in lo..hi
<1> DEFINE w == hi - lo + 1  x == a + d - lo
<1>1. w \in Nat \ {0} /\ x \in Int
  OBVIOUS
<1>2. x % w \in 0..w - 1
  <2> HIDE DEF x, w
  <2> QED BY <1>1
<1> QED BY <1>1, <1>2

LEMMA SelectedIs ==
    ASSUME NEW p \in Pattern, NEW t \in Tracks, NEW offset \in {-1, 1}
    PROVE  SelectedNote(p, t, offset) \in Notes
<1>1. /\ Low[t] \in Notes /\ High[t] \in Notes /\ p.active[t] \in Notes
      /\ Low[t] <= High[t] /\ Low[t]..High[t] \subseteq Notes
  BY RangeAssumption, PatternParts
<1>2. Low[t] \in 0..127 /\ High[t] \in 0..127 /\ p.active[t] \in 0..127
  BY <1>1, SevenBits
<1>3. SelectedNote(p, t, offset) \in Low[t]..High[t]
  BY <1>1, <1>2, WithinRange DEF SelectedNote
<1> QED BY <1>1, <1>3

LEMMA FirstIs ==
    ASSUME NEW n \in Notes, TracksOf(n) # {} PROVE FirstTrackOf(n) \in Tracks
<1>1. TracksOf(n) \subseteq Nat /\ TracksOf(n) \subseteq Tracks
  BY TracksAre DEF TracksOf
<1>2. PICK t \in TracksOf(n) : \A u \in TracksOf(n) : t <= u
  BY <1>1, LeastOf
<1>3. FirstTrackOf(n) \in TracksOf(n)
  BY <1>2 DEF FirstTrackOf
<1> QED BY <1>1, <1>3

-----------------------------------------------------------------------------
LEMMA PersistenceStarts ==
    ASSUME PersistenceInit PROVE PersistenceInv
<1>1. Wrap \in Nat \ {0} /\ 0 \in Clock /\ Interval \in Nat \ {0} /\ MaxFailures \in Nat /\ MaxOutages \in Nat
  BY TimeAssumption, FlashAssumption DEF Clock
<1>2. PersistenceTypeOK
  <2>1. mode \in Mode /\ looped \in BOOLEAN /\ ready \in BOOLEAN
    BY DEF PersistenceInit, Mode
  <2>2. timing \in SaveTimingManager
    BY <1>1 DEF PersistenceInit, Fresh, SaveTimingManager
  <2>3. pattern \in Pattern
    BY InitialIs DEF PersistenceInit
  <2>4. now \in Clock /\ age \in 0..Interval + 2 /\ failures \in 0..MaxFailures /\ outages \in 0..MaxOutages
        /\ file \in {NoFile, Torn}
    BY <1>1 DEF PersistenceInit
  <2> QED BY <2>1, <2>2, <2>3, <2>4 DEF PersistenceTypeOK
<1>3. NotesFollow
  BY InitialIs DEF PersistenceInit, NotesFollow
<1>4. CleanIsKept /\ Waiting
  BY <1>1 DEF PersistenceInit, CleanIsKept, Waiting, Fresh
<1> QED BY <1>2, <1>3, <1>4 DEF PersistenceInv

\* The parts of the state.
LEMMA PersistenceParts ==
    ASSUME PersistenceInv
    PROVE  /\ timing \in SaveTimingManager /\ timing.save \in Clock /\ timing.dirty \in BOOLEAN
           /\ now \in Clock /\ age \in Nat /\ Interval \in Nat \ {0}
           /\ Since(timing.save) \in Nat
           /\ pattern \in Pattern /\ file \in SequencerPersistentState \cup {NoFile, Torn}
           /\ failures \in Nat
<1>1. timing \in SaveTimingManager /\ now \in Clock /\ Interval \in Nat \ {0} /\ age \in 0..Interval + 2
      /\ failures \in 0..MaxFailures /\ MaxFailures \in Nat
  BY TimeAssumption, FlashAssumption DEF PersistenceInv, PersistenceTypeOK
<1>2. timing.save \in Clock /\ timing.dirty \in BOOLEAN
  BY <1>1 DEF SaveTimingManager
<1> QED BY <1>1, <1>2, SinceNat DEF PersistenceInv, PersistenceTypeOK, Since

\* Any edit, of whatever kind, makes the state dirty.
LEMMA EditKeeps ==
    ASSUME PersistenceInv, NEW p \in Pattern, mode # "Off", Edit(p),
           \A t \in Tracks, s \in Steps : p.step[t][s].note \in {NoNote, p.active[t]}
    PROVE  PersistenceInv'
<1>1. /\ pattern' = p /\ timing' = IF ready THEN mark_dirty(timing) ELSE timing
      /\ UNCHANGED <<mode, ready, now, looped, file, age, failures, outages>>
  BY DEF Edit
<1>2. PersistenceTypeOK
  BY DEF PersistenceInv
<1>3. /\ timing' \in SaveTimingManager /\ timing'.save = timing.save
      /\ ready => timing'.dirty
      /\ ~ready => timing' = timing
  BY <1>1, <1>2 DEF PersistenceTypeOK, SaveTimingManager, mark_dirty
<1>4. PersistenceTypeOK'
  BY <1>1, <1>2, <1>3 DEF PersistenceTypeOK
<1>5. NotesFollow'
  BY <1>1 DEF NotesFollow
<1>6. CleanIsKept'
  BY <1>1, <1>3 DEF CleanIsKept
<1>7. Since(timing.save)' = Since(timing.save)
  <2>1. now' = now
    BY <1>1
  <2> QED BY <1>3, <2>1 DEF Since
<1>8. Waiting'
  <2>1. Waiting
    BY DEF PersistenceInv
  <2>2. CASE ready
    BY <1>1, <1>3, <1>7, <2>1, <2>2 DEF Waiting
  <2>3. CASE ~ready
    BY <1>1, <1>3, <1>7, <2>1, <2>3 DEF Waiting
  <2> QED BY <2>2, <2>3
<1> QED BY <1>4, <1>5, <1>6, <1>8 DEF PersistenceInv

\* A save, successful or not.
LEMMA SaveIs ==
    ASSUME PersistenceInv, Save
    PROVE  /\ file' \in SequencerPersistentState \cup {NoFile, Torn}
           /\ \/ /\ timing' = mark_clean(timing) /\ timing' \in SaveTimingManager /\ ~timing'.dirty
                 /\ timing'.save = now /\ age' = 0 /\ failures' = failures
                 /\ ~CloseMayFail => file' = Kept
              \/ /\ failures' = failures + 1 /\ failures' \in 0..MaxFailures /\ failures' # 0
                 /\ UNCHANGED <<file, timing, age>>
<1>1. Kept \in SequencerPersistentState
  BY PersistenceParts, CreatedIs DEF Kept
<1>2. timing \in SaveTimingManager /\ now \in Clock /\ failures \in Nat /\ MaxFailures \in Nat
  BY PersistenceParts, FlashAssumption
<1>3. /\ mark_clean(timing) \in SaveTimingManager /\ ~mark_clean(timing).dirty
      /\ mark_clean(timing).save = now
  BY <1>2 DEF mark_clean, SaveTimingManager
<1>4. CASE /\ file' \in {Kept} \cup (IF CloseMayFail THEN {file, Torn} ELSE {})
           /\ timing' = mark_clean(timing) /\ age' = 0 /\ UNCHANGED failures
  BY <1>1, <1>3, <1>4, FlashAssumption, PersistenceParts
<1>5. CASE failures < MaxFailures /\ failures' = failures + 1 /\ UNCHANGED <<file, timing, age>>
  BY <1>2, <1>5, PersistenceParts
<1> QED BY <1>4, <1>5 DEF Save

\* Saved or not, the state stays correct; once saved it waits for nothing.
LEMMA SaveKeeps ==
    ASSUME PersistenceInv, Save, UNCHANGED <<pattern, ready, now, outages>>, mode # "Off",
           mode' \in Mode \ {"Off"}, looped' \in BOOLEAN
    PROVE  PersistenceInv'
<1>1. PersistenceTypeOK'
  BY SaveIs, TimeAssumption, FlashAssumption DEF PersistenceInv, PersistenceTypeOK
<1>2. NotesFollow'
  BY DEF PersistenceInv, NotesFollow
<1>3. CASE /\ timing' = mark_clean(timing) /\ timing' \in SaveTimingManager /\ ~timing'.dirty
           /\ timing'.save = now /\ age' = 0 /\ failures' = failures
           /\ ~CloseMayFail => file' = Kept
  <2>1. CleanIsKept'
    <3> SUFFICES ASSUME ~CloseMayFail PROVE Kept' = create_persistent_state(Restored(file))'
      BY DEF CleanIsKept
    <3>1. file' = Kept /\ Kept \in SequencerPersistentState /\ pattern \in Pattern
      BY <1>3, PersistenceParts, CreatedIs DEF Kept
    <3>2. Restored(file') = apply_persistent_state(Kept)
      BY <3>1, FileAssumption DEF Restored
    <3>3. create_persistent_state(Restored(file')) = Kept
      BY <3>1, <3>2, KeptAgain DEF Kept
    <3> QED BY <3>3 DEF Kept, Restored
  <2>2. Since(timing.save)' \in Nat /\ Interval \in Nat
    <3>1. now' \in Clock /\ timing'.save \in Clock
      BY <1>3, PersistenceParts
    <3> QED BY <3>1, SinceNat, TimeAssumption DEF Since
  <2>3. Waiting'
    BY <1>3, <2>2 DEF Waiting
  <2> QED BY <1>1, <1>2, <2>1, <2>3 DEF PersistenceInv
<1>4. CASE /\ failures' = failures + 1 /\ failures' \in 0..MaxFailures /\ failures' # 0
           /\ UNCHANGED <<file, timing, age>>
  <2>1. CleanIsKept'
    BY <1>4 DEF PersistenceInv, CleanIsKept, Kept
  <2>2. Waiting'
    BY <1>4 DEF PersistenceInv, Waiting
  <2> QED BY <1>1, <1>2, <2>1, <2>2 DEF PersistenceInv
<1> QED BY <1>3, <1>4, SaveIs

LEMMA UpdateKeeps ==
    ASSUME PersistenceInv, UpdateState PROVE PersistenceInv'
<1>1. /\ mode = "Sequencer" /\ looped' = TRUE /\ UNCHANGED <<mode, pattern, ready, now, outages>>
      /\ IF ready /\ should_save_now THEN Save ELSE UNCHANGED <<timing, file, age, failures>>
  BY DEF UpdateState
<1>2. CASE ready /\ should_save_now
  <2>1. mode' \in Mode \ {"Off"}
    BY <1>1 DEF Mode
  <2> QED BY <1>1, <1>2, <2>1, SaveKeeps
<1>3. CASE ~(ready /\ should_save_now)
  <2>1. UNCHANGED <<timing, file, age, failures>>
    BY <1>1, <1>3
  <2>2. PersistenceTypeOK' /\ NotesFollow' /\ CleanIsKept'
    BY <1>1, <2>1 DEF PersistenceInv, PersistenceTypeOK, NotesFollow, CleanIsKept, Kept
  <2>3. failures = 0 => age = 0 \/ Since(timing.save) < Interval
    <3>1. Since(timing.save) \in Nat /\ Interval \in Nat
      BY PersistenceParts
    <3>2. CASE timing.dirty
      <4>1. ready
        BY <1>1, <3>2 DEF PersistenceInv, Waiting
      <4>2. ~(Since(timing.save) >= Interval)
        BY <1>3, <3>2, <4>1 DEF should_save_now
      <4> QED BY <3>1, <4>2
    <3>3. CASE ~timing.dirty
      BY <1>1, <3>3 DEF PersistenceInv, Waiting
    <3> QED BY <3>2, <3>3
  <2>4. Since(timing.save)' = Since(timing.save)
    BY <1>1, <2>1 DEF Since
  <2>5. Waiting'
    BY <1>1, <2>1, <2>3, <2>4 DEF PersistenceInv, Waiting
  <2> QED BY <2>2, <2>5 DEF PersistenceInv
<1> QED BY <1>2, <1>3

LEMMA TickKeeps ==
    ASSUME PersistenceInv, Millisecond PROVE PersistenceInv'
<1>1. /\ mode # "Off"
      /\ mode = "Sequencer" => looped
      /\ now' = (now + 1) % Wrap /\ looped' = FALSE
      /\ age' = IF mode = "Sequencer" /\ timing.dirty /\ age < Interval + 2 THEN age + 1 ELSE age
      /\ UNCHANGED <<mode, pattern, ready, timing, file, failures, outages>>
  BY DEF Millisecond, device
<1>2. /\ now' \in Clock /\ Since(timing.save) \in Nat /\ Since(timing.save)' \in Nat
      /\ Since(timing.save) < Interval =>
            Since(timing.save)' = Since(timing.save) + 1 \/ Since(timing.save)' > Interval
  <2>1. timing.save \in Clock /\ now \in Clock
    BY PersistenceParts
  <2>2. Since(timing.save)' = (((now + 1) % Wrap) - timing.save) % Word
    BY <1>1 DEF Since
  <2> QED BY <1>1, <2>1, <2>2, Ticked
<1>3. age \in 0..Interval + 2 /\ Interval \in Nat \ {0} /\ failures \in Nat
  BY PersistenceParts DEF PersistenceInv, PersistenceTypeOK
<1>4. age' \in 0..Interval + 2
  <2>1. age' = age \/ (age < Interval + 2 /\ age' = age + 1)
    BY <1>1
  <2> QED BY <1>3, <2>1
<1>5. PersistenceTypeOK' /\ NotesFollow' /\ CleanIsKept'
  BY <1>1, <1>2, <1>4 DEF PersistenceInv, PersistenceTypeOK, NotesFollow, CleanIsKept, Kept
<1>6. Waiting
  BY DEF PersistenceInv
<1>7. CASE failures = 0 /\ mode = "Sequencer" /\ timing.dirty
  <2>1. age' = age + 1
    <3>1. age < Interval + 2
      BY <1>3, <1>6, <1>7 DEF Waiting
    <3> QED BY <1>1, <1>7, <3>1
  <2>2. age = 0 \/ Since(timing.save) < Interval
    BY <1>1, <1>6, <1>7 DEF Waiting
  <2>3. age <= Since(timing.save) + 1
    BY <1>1, <1>6, <1>7 DEF Waiting
  <2>4. age' <= Interval + 1 /\ age' <= Since(timing.save)' + 1
    BY <1>2, <1>3, <2>1, <2>2, <2>3
  <2> QED BY <1>1, <1>5, <1>6, <1>7, <2>4 DEF PersistenceInv, Waiting
<1>8. CASE failures = 0 /\ ~(mode = "Sequencer" /\ timing.dirty)
  <2>1. age = 0 /\ age' = 0
    BY <1>1, <1>6, <1>8 DEF Waiting
  <2> QED BY <1>1, <1>2, <1>3, <1>5, <1>6, <2>1 DEF PersistenceInv, Waiting
<1>9. CASE failures # 0
  BY <1>1, <1>5, <1>6, <1>9 DEF PersistenceInv, Waiting
<1> QED BY <1>7, <1>8, <1>9

LEMMA PowerOnKeeps ==
    ASSUME PersistenceInv, PowerOn PROVE PersistenceInv'
<1>1. /\ mode' = "Boot" /\ timing' = Fresh /\ now' = 0 /\ looped' = FALSE /\ age' = 0
      /\ ready' \in BOOLEAN /\ UNCHANGED <<file, failures, outages>>
      /\ \/ ready' = FALSE /\ pattern' = InitialPattern
         \/ pattern' = Restored(file)
  BY DEF PowerOn
<1>2. /\ file \in SequencerPersistentState \cup {NoFile, Torn} /\ Interval \in Nat \ {0}
      /\ 0 \in Clock /\ 0 \in 0..Interval + 2
  BY PersistenceParts, TimeAssumption DEF Clock
<1>3. Fresh \in SaveTimingManager /\ ~Fresh.dirty /\ Fresh.save = 0
  BY <1>2 DEF Fresh, SaveTimingManager
<1>4. pattern' \in Pattern /\ NotesFollow'
  BY <1>1, <1>2, InitialIs, RestoredIs DEF NotesFollow
<1>5. PersistenceTypeOK'
  BY <1>1, <1>2, <1>3, <1>4 DEF PersistenceInv, PersistenceTypeOK, Mode
<1>6. CleanIsKept'
  BY <1>1 DEF CleanIsKept, Kept, Restored
<1>7. Since(timing.save)' \in Nat
  BY <1>1, <1>2, <1>3, SinceNat DEF Since
<1>8. Waiting'
  BY <1>1, <1>2, <1>3, <1>7 DEF Waiting
<1> QED BY <1>4, <1>5, <1>6, <1>8 DEF PersistenceInv

\* Going from one mode to another without a save ...
LEMMA EnterKeeps ==
    ASSUME PersistenceInv, NEW m \in Mode \ {"Off"}, Enter(m), mode # "Off",
           UNCHANGED <<pattern, ready, timing, now, file, failures, outages>>,
           age' = 0 \/ (age' = age /\ (mode # "Sequencer" \/ ~ready))
    PROVE  PersistenceInv'
<1>1. mode' = m /\ looped' = FALSE /\ m \in Mode /\ m # "Off"
  BY DEF Enter
<1>2. age \in 0..Interval + 2 /\ Interval \in Nat \ {0} /\ Since(timing.save) \in Nat
  BY PersistenceParts DEF PersistenceInv, PersistenceTypeOK
<1>3. age' \in 0..Interval + 2
  BY <1>2
<1>4. PersistenceTypeOK' /\ NotesFollow'
  BY <1>1, <1>3 DEF PersistenceInv, PersistenceTypeOK, NotesFollow
<1>5. CleanIsKept'
  BY <1>1 DEF PersistenceInv, CleanIsKept, Kept
<1>6. Since(timing.save)' = Since(timing.save)
  BY DEF Since
<1>7. Waiting
  BY DEF PersistenceInv
<1>8. failures = 0 => age' = 0
  BY <1>7 DEF Waiting
<1>9. timing' = timing /\ failures' = failures /\ ready' = ready
  OBVIOUS
<1>10. Waiting'
  <2>1. (timing.dirty /\ mode # "Off" => ready)'
    BY <1>7, <1>9 DEF Waiting
  <2>2. CASE failures = 0
    BY <1>1, <1>2, <1>6, <1>8, <1>9, <2>1, <2>2 DEF Waiting
  <2>3. CASE failures # 0
    BY <1>9, <2>1, <2>3 DEF Waiting
  <2> QED BY <2>2, <2>3
<1> QED BY <1>4, <1>5, <1>10 DEF PersistenceInv

\* ... and losing power, which may take the file with it.
LEMMA OffKeeps ==
    ASSUME PersistenceInv, Enter("Off"),
           UNCHANGED <<pattern, ready, timing, now, age, failures>>, outages' \in 0..MaxOutages,
           file' \in SequencerPersistentState \cup {NoFile, Torn}
    PROVE  PersistenceInv'
<1>1. mode' = "Off" /\ looped' = FALSE
  BY DEF Enter
<1>2. PersistenceTypeOK' /\ NotesFollow' /\ CleanIsKept'
  BY <1>1 DEF PersistenceInv, PersistenceTypeOK, NotesFollow, CleanIsKept, Mode
<1>3. Waiting'
  BY <1>1 DEF PersistenceInv, Waiting
<1> QED BY <1>2, <1>3 DEF PersistenceInv

-----------------------------------------------------------------------------
LEMMA PersistenceStep ==
    ASSUME PersistenceInv, [PersistenceNext]_persistenceVars PROVE PersistenceInv'
<1>1. /\ pattern \in Pattern /\ file \in SequencerPersistentState \cup {NoFile, Torn}
      /\ \A t \in Tracks, s \in Steps : pattern.step[t][s].note \in {NoNote, pattern.active[t]}
      /\ outages \in 0..MaxOutages /\ MaxOutages \in Nat
  BY PersistenceParts, FlashAssumption DEF PersistenceInv, NotesFollow, PersistenceTypeOK
<1>2. {"Sequencer", "FileTransfer", "FallingAsleep", "Sleep"} \subseteq Mode \ {"Off"}
  BY DEF Mode
<1>3. CASE StartSequencer
  BY <1>1, <1>2, <1>3, EnterKeeps DEF StartSequencer
<1>4. CASE StartTransfer
  BY <1>1, <1>2, <1>4, EnterKeeps DEF StartTransfer
<1>5. CASE FallAsleep
  <2>1. /\ mode = "Sequencer" /\ Enter("FallingAsleep") /\ UNCHANGED <<pattern, ready, now, outages>>
        /\ IF ready THEN Save ELSE UNCHANGED <<timing, file, age, failures>>
    BY <1>5 DEF FallAsleep, SaveIfReady
  <2>2. CASE ready
    <3>1. mode' \in Mode \ {"Off"} /\ looped' \in BOOLEAN
      BY <1>2, <2>1 DEF Enter
    <3> QED BY <2>1, <2>2, <3>1, SaveKeeps
  <2>3. CASE ~ready
    <3> QED BY <1>2, <2>1, <2>3, EnterKeeps
  <2> QED BY <2>2, <2>3
<1>6. CASE Sleep
  BY <1>1, <1>2, <1>6, EnterKeeps DEF Sleep
<1>7. CASE Wake
  BY <1>1, <1>7, OffKeeps DEF Wake
<1>8. CASE PowerFails
  <2>1. outages' \in 0..MaxOutages
    BY <1>1, <1>8 DEF PowerFails, Outage
  <2> QED BY <1>1, <1>8, <2>1, OffKeeps DEF PowerFails, Outage
<1>9. CASE PowerFailsInSave
  <2>1. outages' \in 0..MaxOutages
    BY <1>1, <1>9 DEF PowerFailsInSave, Outage
  <2>2. Kept \in SequencerPersistentState
    BY <1>1, CreatedIs DEF Kept
  <2>3. file' \in SequencerPersistentState \cup {NoFile, Torn}
    BY <1>9, <2>2 DEF PowerFailsInSave, Outage
  <2> QED BY <1>9, <2>1, <2>3, OffKeeps DEF PowerFailsInSave, Outage
<1>10. CASE PressKey
  BY <1>1, <1>10, PressedIs, EditKeeps DEF PressKey
<1>11. CASE HoldKey
  BY <1>1, <1>11, HeldIs, EditKeeps DEF HoldKey
<1>12. CASE EditSample
  BY <1>1, <1>12, SelectedIs, WithNoteIs, EditKeeps DEF EditSample
<1>13. CASE handle_incoming_note_on
  BY <1>1, <1>13, FirstIs, WithNoteIs, EditKeeps DEF handle_incoming_note_on
<1>14. CASE LoadState
  <2>1. PICK kept \in SequencerPersistentState :
           Edit(apply_persistent_state(decode_sequencer_state(encode_sequencer_state(kept))))
    BY <1>14 DEF LoadState
  <2>2. Edit(apply_persistent_state(kept)) /\ mode # "Off"
    BY <1>14, <2>1, PayloadIs DEF LoadState
  <2>3. Restored(kept) = apply_persistent_state(kept)
    BY FileAssumption DEF Restored
  <2> QED BY <2>2, <2>3, RestoredIs, EditKeeps
<1>15. CASE UNCHANGED persistenceVars
  BY <1>15 DEF persistenceVars, device, PersistenceInv, PersistenceTypeOK, NotesFollow, CleanIsKept, Kept, Waiting, Since
<1> QED BY <1>3, <1>4, <1>5, <1>6, <1>7, <1>8, <1>9, <1>10, <1>11, <1>12, <1>13, <1>14, <1>15,
           UpdateKeeps, TickKeeps, PowerOnKeeps DEF PersistenceNext

\* In every reachable state a clean device has in its file what would be saved,
\* and the age of an edit is bounded by the time since the last save.
THEOREM PersistenceInvariance == PersistenceSpec => []PersistenceInv
<1> QED BY PersistenceStarts, PersistenceStep, PTL DEF PersistenceSpec

LEMMA KeptSounds ==
    ASSUME PersistenceInv, CloseMayFail = FALSE PROVE CleanIsStored
<1> SUFFICES ASSUME mode # "Off", ready, ~timing.dirty
             PROVE  /\ Kept = create_persistent_state(Restored(file))
                    /\ \A t \in Tracks, s \in Steps :
                         Audible(pattern, t, s) => Restored(file).step[t][s] = pattern.step[t][s]
  BY DEF CleanIsStored
<1> DEFINE r == Restored(file)
<1>1. Kept = create_persistent_state(r)
  BY DEF PersistenceInv, CleanIsKept
<1>2. ASSUME NEW t \in Tracks, NEW s \in Steps, Audible(pattern, t, s) PROVE r.step[t][s] = pattern.step[t][s]
  <2>1. pattern \in Pattern /\ r \in Pattern
    BY PersistenceParts, RestoredIs
  <2> DEFINE a == pattern.step[t][s]  b == r.step[t][s]
  <2>2. a \in Step /\ b \in Step
    BY <2>1, PatternParts
  <2>3. a.enabled /\ a.velocity > 0 /\ a.note # NoNote /\ a.note = pattern.active[t]
    BY <1>2 DEF Audible, PersistenceInv, NotesFollow
  <2>4. Kept.velocities[t][s] = a.velocity /\ Kept.active = pattern.active
    BY <2>3 DEF Kept, create_persistent_state
  <2>5. create_persistent_state(r).velocities[t][s] = IF b.enabled THEN b.velocity ELSE 0
    BY DEF create_persistent_state
  <2>6. create_persistent_state(r).active = r.active
    BY DEF create_persistent_state
  <2>7. b.enabled => b.note = r.active[t]
    BY RestoredIs, PersistenceParts
  <2> HIDE DEF a, b, r
  <2>8. b.enabled /\ b.velocity = a.velocity /\ b.note = a.note
    BY <1>1, <2>3, <2>4, <2>5, <2>6, <2>7
  <2>9. a.enabled = TRUE /\ b.enabled = TRUE
    BY <2>2, <2>3, <2>8 DEF Step
  <2>10. a = b
    BY <2>2, <2>8, <2>9 DEF Step
  <2> QED BY <2>10 DEF a, b
<1> QED BY <1>1, <1>2

\* For every size of the pattern and every setting of the times: unless fclose
\* fails, what a clean state would be restored to sounds as what is in memory.
THEOREM CleanIsStoredAlways == CloseMayFail = FALSE => (PersistenceSpec => []CleanIsStored)
<1> SUFFICES ASSUME CloseMayFail = FALSE PROVE PersistenceSpec => []CleanIsStored
  OBVIOUS
<1>1. PersistenceInv => CleanIsStored
  BY KeptSounds
<1> QED BY <1>1, PersistenceInvariance, PTL

\* An edit never waits longer than the maximum interval and a millisecond for
\* its save while saves succeed, whenever the clock restarts.
THEOREM SavedInTimeAlways == PersistenceSpec => []SavedInTime
<1>1. PersistenceInv => SavedInTime
  BY DEF PersistenceInv, Waiting, SavedInTime
<1> QED BY <1>1, PersistenceInvariance, PTL

-----------------------------------------------------------------------------
(* The notes of the steps *)

\* What a receiver has on once the queue is delivered, and what will be ended
\* or is known not to be.
Heard(b) == Delivered(b.queue, sounding)
Ends(b)  == {b.last[t] : t \in Tracks} \cup b.stray

\* The notebooks no note of which hangs.
Kempt == {b \in Notebook : Len(b.queue) <= QueueSize /\ Heard(b) \subseteq Ends(b)}

SoundsInv == TypeOK /\ NotesFollow /\ NoNoteHangs

-----------------------------------------------------------------------------
(* The queue *)

LEMMA NothingDelivered ==
    ASSUME NEW on PROVE Delivered(<<>>, on) = on \cap Notes
<1>1. \A n \in Notes : {i \in 1..Len(<<>>) : <<>>[i].note = n} = {}
  OBVIOUS
<1> QED BY <1>1 DEF Delivered

\* One more event decides about its note and no other.
LEMMA DeliveredAppend ==
    ASSUME NEW q \in Seq(Event), NEW on, NEW e \in Event
    PROVE  /\ e.on = TRUE  => Delivered(Append(q, e), on) = Delivered(q, on) \cup {e.note}
           /\ e.on = FALSE => Delivered(Append(q, e), on) = Delivered(q, on) \ {e.note}
<1> DEFINE n == e.note  o == e.on
           r == Append(q, e)
           Places(s, m) == {i \in 1..Len(s) : s[i].note = m}
           Newest(s, m) == CHOOSE i \in Places(s, m) : \A j \in Places(s, m) : j <= i
           IsOn(s, m) == IF Places(s, m) = {} THEN m \in on ELSE s[Newest(s, m)].on
<1>1. /\ Len(q) \in Nat /\ Len(r) = Len(q) + 1 /\ r[Len(q) + 1] = e
      /\ \A i \in 1..Len(q) : r[i] = q[i]
  OBVIOUS
<1>2. e.note = n /\ e.on = o /\ n \in Notes /\ o \in BOOLEAN
  BY Zenon DEF Event
<1>3. /\ Delivered(q, on) = {m \in Notes : IsOn(q, m)}
      /\ Delivered(r, on) = {m \in Notes : IsOn(r, m)}
  BY DEF Delivered
<1> HIDE DEF n, o, r
<1>4. ASSUME NEW m \in Notes, m # n PROVE IsOn(r, m) = IsOn(q, m)
  <2>1. Places(r, m) = Places(q, m)
    BY <1>1, <1>2, <1>4
  <2>2. CASE Places(q, m) = {}
    BY <2>1, <2>2
  <2>3. CASE Places(q, m) # {}
    <3>1. Newest(r, m) = Newest(q, m)
      BY <2>1
    <3>2. Places(q, m) \in SUBSET Nat /\ Places(q, m) \subseteq 1..Len(q)
      OBVIOUS
    <3>3. \E i \in Places(q, m) : \A j \in Places(q, m) : j <= i
      <4> DEFINE T == Places(q, m)  L == Len(q)  D == {k \in Nat : \E i \in T : k = L - i}
      <4> HIDE DEF T, L
      <4>1. T \subseteq 1..L /\ T # {} /\ L \in Nat
        BY <1>1, <2>3, <3>2 DEF T, L
      <4>2. D \in SUBSET Nat /\ D # {}
        <5>1. PICK i \in T : TRUE
          BY <4>1
        <5>2. L - i \in Nat
          BY <4>1
        <5> QED BY <5>1, <5>2
      <4>3. PICK k \in D : \A l \in D : k <= l
        <5> HIDE DEF D
        <5> QED BY <4>2, LeastOf
      <4>4. PICK i \in T : k = L - i
        BY <4>3
      <4>5. ASSUME NEW j \in T PROVE j <= i
        <5>1. L - j \in D
          BY <4>1
        <5>2. L - i <= L - j
          BY <4>3, <4>4, <5>1
        <5> QED BY <4>1, <5>2
      <4> QED BY <4>5 DEF T
    <3> DEFINE k == Newest(q, m)
    <3>4. k \in Places(q, m)
      BY <3>3
    <3> HIDE DEF k
    <3>5. r[k] = q[k]
      BY <1>1, <3>2, <3>4
    <3>6. r[Newest(r, m)] = q[Newest(q, m)]
      BY <3>1, <3>5 DEF k
    <3> HIDE DEF Newest, Places
    <3> QED BY <2>1, <3>6
  <2> QED BY <2>2, <2>3
<1>5. IsOn(r, n) = o
  <2> DEFINE L == Len(q) + 1
  <2>1. L \in Places(r, n) /\ \A j \in Places(r, n) : j \in Nat /\ j <= L
    BY <1>1, <1>2
  <2>2. L \in Nat
    BY <1>1
  <2> HIDE DEF L
  <2>3. Newest(r, n) \in Places(r, n) /\ \A j \in Places(r, n) : j <= Newest(r, n)
    BY <2>1
  <2>4. Newest(r, n) = L
    <3> DEFINE k == Newest(r, n)
    <3>1. k \in Places(r, n) /\ \A j \in Places(r, n) : j <= k
      BY <2>3
    <3> HIDE DEF k, Places
    <3>2. k = L
      BY <2>1, <2>2, <3>1
    <3> QED BY <3>2 DEF k
  <2>5. r[Newest(r, n)].on = o
    BY <1>1, <1>2, <2>4 DEF L
  <2> QED BY <2>1, <2>5
<1> HIDE DEF IsOn
<1>6. CASE o = TRUE
  BY <1>3, <1>4, <1>5, <1>6, <1>2, Zenon DEF r, n, o
<1>7. CASE o = FALSE
  BY <1>3, <1>4, <1>5, <1>7, <1>2, Zenon DEF r, n, o
<1> QED BY <1>6, <1>7, <1>2 DEF o

LEMMA DeliveredNotes == ASSUME NEW q, NEW on PROVE Delivered(q, on) \subseteq Notes
  BY DEF Delivered

-----------------------------------------------------------------------------
(* The router *)

LEMMA BookParts ==
    ASSUME NEW b \in Notebook
    PROVE  /\ b.last \in [Tracks -> Notes \cup {NoNote}] /\ b.queue \in Seq(Event)
           /\ b.recent \in SUBSET Notes /\ b.stray \in SUBSET Notes
           /\ b = [last |-> b.last, queue |-> b.queue, recent |-> b.recent, stray |-> b.stray]
           /\ Len(b.queue) \in Nat
  BY DEF Notebook

LEMMA OffIs ==
    ASSUME NEW b \in Notebook, Len(b.queue) <= QueueSize, NEW n \in Notes
    PROVE  /\ Off(b, n) \in Notebook /\ Len(Off(b, n).queue) <= QueueSize
           /\ Off(b, n).last = b.last
           /\ Heard(Off(b, n)) \subseteq Heard(b)
           /\ n \in Heard(Off(b, n)) => n \in Off(b, n).stray
           /\ b.stray \ {n} \subseteq Off(b, n).stray
<1> DEFINE e == [note |-> n, on |-> FALSE]  q == Append(b.queue, e)
<1>1. /\ b.last \in [Tracks -> Notes \cup {NoNote}] /\ b.queue \in Seq(Event)
      /\ b.recent \in SUBSET Notes /\ b.stray \in SUBSET Notes
      /\ Len(b.queue) \in Nat /\ QueueSize \in Nat
  BY BookParts, QueueAssumption
<1>2. CASE Room(b)
  <2>1. e \in Event
    BY DEF Event
  <2>2. Delivered(q, sounding) = Delivered(b.queue, sounding) \ {n}
    <3>1. e.on = FALSE /\ e.note = n
      OBVIOUS
    <3> HIDE DEF e
    <3> QED BY <1>1, <2>1, <3>1, DeliveredAppend
  <2>3. Off(b, n) = [b EXCEPT !.queue = q, !.stray = @ \ {n}]
    BY <1>2 DEF Off
  <2> HIDE DEF e
  <2>4. q \in Seq(Event) /\ Len(q) = Len(b.queue) + 1
    BY <1>1, <2>1
  <2>5. Len(q) <= QueueSize
    BY <1>1, <1>2, <2>4 DEF Room
  <2> HIDE DEF q
  <2>6. Off(b, n) = [last |-> b.last, queue |-> q, recent |-> b.recent, stray |-> b.stray \ {n}]
    BY <2>3 DEF Notebook
  <2> QED BY <1>1, <2>2, <2>4, <2>5, <2>6 DEF Heard, Notebook
<1>3. CASE ~Room(b)
  <2>1. Off(b, n) = [last |-> b.last, queue |-> b.queue, recent |-> b.recent, stray |-> b.stray \cup {n}]
    BY <1>3 DEF Off, Notebook
  <2> QED BY <1>1, <2>1 DEF Heard, Notebook
<1> QED BY <1>2, <1>3

LEMMA OnIs ==
    ASSUME NEW b \in Notebook, Len(b.queue) <= QueueSize, NEW n \in Notes
    PROVE  /\ On(b, n) \in Notebook /\ Len(On(b, n).queue) <= QueueSize
           /\ On(b, n).last = b.last /\ On(b, n).stray = b.stray
           /\ Heard(On(b, n)) \subseteq Heard(b) \cup {n}
<1> DEFINE e == [note |-> n, on |-> TRUE]  q == Append(b.queue, e)
<1>1. /\ b.last \in [Tracks -> Notes \cup {NoNote}] /\ b.queue \in Seq(Event)
      /\ b.recent \in SUBSET Notes /\ b.stray \in SUBSET Notes
      /\ Len(b.queue) \in Nat /\ QueueSize \in Nat
  BY BookParts, QueueAssumption
<1>2. CASE n \in b.recent
  BY <1>1, <1>2 DEF On
<1>3. CASE n \notin b.recent /\ Room(b)
  <2>1. e \in Event
    BY DEF Event
  <2>2. Delivered(q, sounding) = Delivered(b.queue, sounding) \cup {n}
    <3>1. e.on = TRUE /\ e.note = n
      OBVIOUS
    <3> HIDE DEF e
    <3> QED BY <1>1, <2>1, <3>1, DeliveredAppend
  <2>3. On(b, n) = [b EXCEPT !.queue = q, !.recent = @ \cup {n}]
    BY <1>3 DEF On
  <2> HIDE DEF e
  <2>4. q \in Seq(Event) /\ Len(q) = Len(b.queue) + 1
    BY <1>1, <2>1
  <2>5. Len(q) <= QueueSize
    BY <1>1, <1>3, <2>4 DEF Room
  <2> HIDE DEF q
  <2>6. On(b, n) = [last |-> b.last, queue |-> q, recent |-> b.recent \cup {n}, stray |-> b.stray]
    BY <2>3 DEF Notebook
  <2> QED BY <1>1, <2>2, <2>4, <2>5, <2>6 DEF Heard, Notebook
<1>4. CASE n \notin b.recent /\ ~Room(b)
  <2>1. On(b, n) = [last |-> b.last, queue |-> b.queue, recent |-> b.recent \cup {n}, stray |-> b.stray]
    BY <1>4 DEF On, Notebook
  <2> QED BY <1>1, <2>1 DEF Heard, Notebook
<1> QED BY <1>2, <1>3, <1>4

\* What a track remembers is changed.
LEMMA Remembered ==
    ASSUME NEW b \in Notebook, NEW t \in Tracks, NEW n \in Notes \cup {NoNote}
    PROVE  LET c == [b EXCEPT !.last[t] = n]
           IN  /\ c \in Notebook /\ c.queue = b.queue /\ c.stray = b.stray
               /\ c.last[t] = n /\ \A u \in Tracks \ {t} : c.last[u] = b.last[u]
<1> DEFINE l == [b.last EXCEPT ![t] = n]
<1>1. [b EXCEPT !.last[t] = n] = [last |-> l, queue |-> b.queue, recent |-> b.recent, stray |-> b.stray]
  BY DEF Notebook
<1>2. /\ l \in [Tracks -> Notes \cup {NoNote}] /\ l[t] = n
      /\ \A u \in Tracks \ {t} : l[u] = b.last[u]
  BY BookParts
<1> HIDE DEF l
<1> QED BY <1>1, <1>2, BookParts DEF Notebook

-----------------------------------------------------------------------------
(* The tracks *)

\* Once a track's note is ended its memory is free.
LEMMA EndedIs ==
    ASSUME NEW b \in Kempt, NEW t \in Tracks
    PROVE  /\ Ended(b, t) \in Kempt
           /\ Heard(Ended(b, t)) \subseteq
                 {Ended(b, t).last[u] : u \in Tracks \ {t}} \cup Ended(b, t).stray
<1> DEFINE c == Ended(b, t)
<1>1. /\ b \in Notebook /\ Len(b.queue) <= QueueSize /\ Heard(b) \subseteq Ends(b)
      /\ b.last[t] \in Notes \cup {NoNote} /\ NoNote \notin Notes
      /\ Heard(b) \subseteq Notes
  BY BookParts, RangeAssumption, DeliveredNotes DEF Kempt, Heard
<1>2. CASE b.last[t] = NoNote
  <2>1. c = b
    BY <1>2 DEF Ended
  <2>2. Heard(b) \subseteq {b.last[u] : u \in Tracks \ {t}} \cup b.stray
    BY <1>1, <1>2 DEF Ends
  <2> QED BY <2>1, <2>2
<1>3. CASE b.last[t] # NoNote
  <2> DEFINE n == b.last[t]
  <2>1. n \in Notes /\ c = Off(b, n)
    BY <1>1, <1>3 DEF Ended
  <2> HIDE DEF n, c
  <2>2. /\ c \in Notebook /\ Len(c.queue) <= QueueSize /\ c.last = b.last
        /\ Heard(c) \subseteq Heard(b) /\ (n \in Heard(c) => n \in c.stray)
        /\ b.stray \ {n} \subseteq c.stray
    BY <1>1, <2>1, OffIs
  <2>3. Heard(c) \subseteq {c.last[u] : u \in Tracks \ {t}} \cup c.stray
    <3> SUFFICES ASSUME NEW m \in Heard(c), m \notin c.stray
                 PROVE  \E u \in Tracks \ {t} : m = c.last[u]
      OBVIOUS
    <3>1. m # n /\ m \in Ends(b) /\ m \notin b.stray
      BY <1>1, <2>2
    <3>2. PICK u \in Tracks : m = b.last[u]
      BY <3>1 DEF Ends
    <3> QED BY <2>2, <3>1, <3>2 DEF n
  <2>4. c \in Kempt
    BY <2>2, <2>3 DEF Kempt, Ends
  <2> QED BY <2>3, <2>4 DEF c
<1> QED BY <1>2, <1>3

LEMMA ForgottenIs ==
    ASSUME NEW b \in Kempt, NEW t \in Tracks
    PROVE  [Ended(b, t) EXCEPT !.last[t] = NoNote] \in Kempt
<1> DEFINE c == Ended(b, t)  d == [c EXCEPT !.last[t] = NoNote]
<1>1. c \in Kempt /\ Heard(c) \subseteq {c.last[u] : u \in Tracks \ {t}} \cup c.stray
  BY EndedIs
<1> HIDE DEF c
<1>2. /\ d \in Notebook /\ d.queue = c.queue /\ d.stray = c.stray
      /\ \A u \in Tracks \ {t} : d.last[u] = c.last[u]
  BY <1>1, Remembered DEF Kempt
<1> HIDE DEF d
<1> QED BY <1>1, <1>2 DEF Kempt, Heard, Ends, d, c

\* A note-on that the track remembers, once its last note needs it no more.
LEMMA TakenOn ==
    ASSUME NEW b \in Notebook, Len(b.queue) <= QueueSize, NEW t \in Tracks, NEW n \in Notes,
           Heard(b) \subseteq {b.last[u] : u \in Tracks \ {t}} \cup b.stray \cup {n}
    PROVE  [On(b, n) EXCEPT !.last[t] = n] \in Kempt
<1> DEFINE c == On(b, n)  d == [c EXCEPT !.last[t] = n]
<1>1. /\ c \in Notebook /\ Len(c.queue) <= QueueSize /\ c.last = b.last /\ c.stray = b.stray
      /\ Heard(c) \subseteq Heard(b) \cup {n}
  BY OnIs
<1> HIDE DEF c
<1>2. /\ d \in Notebook /\ d.queue = c.queue /\ d.stray = c.stray
      /\ d.last[t] = n /\ \A u \in Tracks \ {t} : d.last[u] = c.last[u]
  BY <1>1, Remembered
<1> HIDE DEF d
<1>3. Heard(d) \subseteq Ends(d)
  <2> SUFFICES ASSUME NEW m \in Heard(d), m \notin d.stray
               PROVE  \E u \in Tracks : m = d.last[u]
    BY DEF Ends
  <2>1. m = n \/ \E u \in Tracks \ {t} : m = b.last[u]
    BY <1>1, <1>2 DEF Heard
  <2> QED BY <1>1, <1>2, <2>1
<1>4. d \in Kempt
  BY <1>1, <1>2, <1>3 DEF Kempt
<1> QED BY <1>4 DEF d, c

LEMMA TriggeredIs ==
    ASSUME NEW b \in Kempt, NEW t \in Tracks, NEW n \in Notes
    PROVE  trigger_note_on(b, t, n) \in Kempt
<1>1. /\ b \in Notebook /\ Len(b.queue) <= QueueSize /\ Heard(b) \subseteq Ends(b)
      /\ b.last[t] \in Notes \cup {NoNote} /\ NoNote \notin Notes
      /\ Heard(b) \subseteq Notes
  BY BookParts, RangeAssumption, DeliveredNotes DEF Kempt, Heard
<1>2. CASE b.last[t] \in {NoNote, n}
  <2>1. trigger_note_on(b, t, n) = [On(b, n) EXCEPT !.last[t] = n]
    BY <1>2 DEF trigger_note_on
  <2>2. Heard(b) \subseteq {b.last[u] : u \in Tracks \ {t}} \cup b.stray \cup {n}
    BY <1>1, <1>2 DEF Ends
  <2> QED BY <1>1, <2>1, <2>2, TakenOn
<1>3. CASE b.last[t] \notin {NoNote, n}
  <2> DEFINE c == Ended(b, t)
  <2>1. trigger_note_on(b, t, n) = [On(c, n) EXCEPT !.last[t] = n]
    BY <1>3 DEF trigger_note_on, Ended
  <2>2. /\ c \in Notebook /\ Len(c.queue) <= QueueSize
        /\ Heard(c) \subseteq {c.last[u] : u \in Tracks \ {t}} \cup c.stray
    BY EndedIs DEF Kempt
  <2> HIDE DEF c
  <2>3. Heard(c) \subseteq {c.last[u] : u \in Tracks \ {t}} \cup c.stray \cup {n}
    BY <2>2
  <2> QED BY <2>1, <2>2, <2>3, TakenOn
<1> QED BY <1>2, <1>3

LEMMA LetGoIs ==
    ASSUME NEW b \in Kempt, NEW t \in Tracks, NEW n \in Notes
    PROVE  trigger_note_off(b, t, n) \in Kempt
<1>1. CASE b.last[t] = n
  <2>1. trigger_note_off(b, t, n) = [Ended(b, t) EXCEPT !.last[t] = NoNote]
    BY <1>1, RangeAssumption DEF trigger_note_off, Ended
  <2> QED BY <2>1, ForgottenIs
<1>2. CASE b.last[t] # n
  BY <1>2 DEF trigger_note_off
<1> QED BY <1>1, <1>2

LEMMA UntrackedIs ==
    ASSUME NEW b \in Kempt, NEW n \in Notes
    PROVE  Untracked(b, n) \in Kempt
<1> DEFINE c == On(b, n)
<1>1. /\ b \in Notebook /\ Len(b.queue) <= QueueSize /\ Heard(b) \subseteq Ends(b)
  BY DEF Kempt
<1>2. /\ c \in Notebook /\ Len(c.queue) <= QueueSize /\ c.last = b.last /\ c.stray = b.stray
      /\ Heard(c) \subseteq Heard(b) \cup {n}
  BY <1>1, OnIs
<1>3. Untracked(b, n) = IF c.queue = b.queue THEN c ELSE [c EXCEPT !.stray = @ \cup {n}]
  BY DEF Untracked
<1> HIDE DEF c
<1>4. CASE c.queue = b.queue
  BY <1>1, <1>2, <1>3, <1>4 DEF Kempt, Heard, Ends
<1>5. CASE c.queue # b.queue
  <2> DEFINE d == [c EXCEPT !.stray = @ \cup {n}]
  <2>1. d = [last |-> c.last, queue |-> c.queue, recent |-> c.recent, stray |-> c.stray \cup {n}]
    <3>1. c = [last |-> c.last, queue |-> c.queue, recent |-> c.recent, stray |-> c.stray]
      BY <1>2, BookParts
    <3> QED BY <3>1
  <2>2. d \in Notebook
    BY <1>2, <2>1, BookParts DEF Notebook
  <2>3. /\ d.queue = c.queue /\ d.last = c.last /\ d.stray = c.stray \cup {n}
    BY <2>1
  <2> HIDE DEF d
  <2>4. Heard(d) \subseteq Ends(d)
    BY <1>1, <1>2, <2>3 DEF Heard, Ends
  <2>5. d \in Kempt
    BY <1>2, <2>2, <2>3, <2>4 DEF Kempt
  <2> QED BY <1>3, <1>5, <2>5 DEF d
<1> QED BY <1>4, <1>5

LEMMA StepPlayedIs ==
    ASSUME NEW b \in Kempt, NEW t \in Tracks, NEW s \in Steps, NEW f \in BOOLEAN, pattern \in Pattern
    PROVE  process_track_step(b, t, s, f) \in Kempt
<1> DEFINE c == Ended(b, t)  d == [c EXCEPT !.last[t] = NoNote]  n == pattern.step[t][s].note
<1>1. n \in Notes \cup {NoNote}
  <2>1. pattern.step[t][s] \in Step
    BY PatternParts
  <2> QED BY <2>1 DEF Step
<1>2. d \in Kempt
  BY ForgottenIs
<1>3. process_track_step(b, t, s, f) \in {d, [On(d, n) EXCEPT !.last[t] = n]}
      /\ (n = NoNote => process_track_step(b, t, s, f) = d)
  BY DEF process_track_step
<1>4. CASE n # NoNote
  <2>1. c \in Kempt /\ Heard(c) \subseteq {c.last[u] : u \in Tracks \ {t}} \cup c.stray
    BY EndedIs
  <2>2. /\ d \in Notebook /\ d.queue = c.queue /\ d.stray = c.stray
        /\ \A u \in Tracks \ {t} : d.last[u] = c.last[u]
    <3> HIDE DEF c, n
    <3>1. c \in Notebook /\ NoNote \in Notes \cup {NoNote}
      BY <2>1 DEF Kempt
    <3> QED BY <3>1, Remembered
  <2> HIDE DEF c, d, n
  <2>3. Heard(d) \subseteq {d.last[u] : u \in Tracks \ {t}} \cup d.stray \cup {n}
    BY <2>1, <2>2 DEF Heard
  <2>4. [On(d, n) EXCEPT !.last[t] = n] \in Kempt
    BY <1>1, <1>2, <1>4, <2>3, TakenOn DEF Kempt
  <2> QED BY <1>2, <1>3, <2>4
<1> QED BY <1>2, <1>3, <1>4

-----------------------------------------------------------------------------
(* The loops over the tracks *)

\* What each track's turn keeps the loop keeps.
LEMMA ForEachKeeps ==
    ASSUME NEW S, NEW does, NEW b \in S, \A c \in S, t \in Tracks : does[t][c] \in S
    PROVE  ForEachTrack(does, b) \in S
<1> DEFINE N == NumTracks
           F == [x \in S \X (1..N) |-> does[x[2] - 1][x[1]]]
           G == CHOOSE g : g = [n \in 0..N |-> IF n = 0 THEN b ELSE does[n - 1][g[n - 1]]]
<1>1. N \in Nat \ {0} /\ \A i \in 1..N : i - 1 \in Tracks
  BY SizeAssumption DEF Tracks
<1>2. F \in [S \X (1..N) -> S]
  BY <1>1
<1>3. PICK f \in [0..N -> S] : f[0] = b /\ \A i \in 1..N : f[i] = F[<<f[i - 1], i>>]
  <2>1. N \in Nat
    BY <1>1
  <2> HIDE DEF F, N
  <2>2. PICK f : IsRun(f, N, S, b, F)
    BY <1>2, <2>1, RunExists
  <2> QED BY <2>2 DEF IsRun
<1>4. \A i \in 1..N : f[i] = does[i - 1][f[i - 1]]
  <2> SUFFICES ASSUME NEW i \in 1..N PROVE f[i] = does[i - 1][f[i - 1]]
    OBVIOUS
  <2>1. <<f[i - 1], i>> \in S \X (1..N)
    BY <1>1
  <2> QED BY <1>3, <2>1
<1>5. f = [n \in 0..N |-> IF n = 0 THEN b ELSE does[n - 1][f[n - 1]]]
  <2>1. \A n \in 0..N : f[n] = IF n = 0 THEN b ELSE does[n - 1][f[n - 1]]
    <3>1. ASSUME NEW n \in 0..N PROVE f[n] = IF n = 0 THEN b ELSE does[n - 1][f[n - 1]]
      <4>1. CASE n = 0
        BY <1>3, <4>1
      <4>2. CASE n # 0
        <5>1. n \in 1..N
          BY <1>1, <4>2
        <5> QED BY <1>4, <4>2, <5>1
      <4> QED BY <4>1, <4>2
    <3> QED BY <3>1
  <2> HIDE DEF N, F
  <2> QED BY <1>3, <2>1, Zenon
<1>6. G = [n \in 0..N |-> IF n = 0 THEN b ELSE does[n - 1][G[n - 1]]]
  BY <1>5
<1>7. ForEachTrack(does, b) = G[N]
  BY DEF ForEachTrack
<1> HIDE DEF G, F
<1> DEFINE T == {n \in Nat : n <= N => G[n] = f[n]}
<1>8. 0 \in T
  <2>1. 0 \in 0..N
    BY <1>1
  <2>2. G[0] = b
    BY <1>6, <2>1
  <2> QED BY <1>3, <2>2
<1>9. ASSUME NEW n \in Nat, n \in T PROVE n + 1 \in T
  <2> SUFFICES ASSUME n + 1 <= N PROVE G[n + 1] = f[n + 1]
    OBVIOUS
  <2>1. G[n] = f[n] /\ n + 1 \in 1..N /\ (n + 1) - 1 = n
    BY <1>1, <1>9
  <2>2. G[n + 1] = does[n][G[n]]
    BY <1>1, <1>6, <2>1
  <2>3. f[n + 1] = does[n][f[n]]
    BY <1>4, <2>1
  <2> QED BY <2>1, <2>2, <2>3
<1> HIDE DEF T
<1>10. N \in T
  BY <1>1, <1>8, <1>9, Ind
<1>11. G[N] = f[N]
  BY <1>1, <1>10 DEF T
<1>12. f[N] \in S
  <2>1. N \in 0..N
    BY <1>1
  <2> QED BY <1>3, <2>1
<1> QED BY <1>7, <1>11, <1>12

LEMMA KemptSubset == Kempt \subseteq Notebook
  BY DEF Kempt

LEMMA RetriggersKeep ==
    ASSUME NEW b \in Kempt, pattern \in Pattern PROVE retrigger_due(b) \in Kempt
<1> DEFINE does == [t \in Tracks |-> [c \in Notebook |->
                       IF t \in dueMask THEN trigger_note_on(c, t, pattern.active[t]) ELSE c]]
<1>1. ASSUME NEW c \in Kempt, NEW t \in Tracks PROVE does[t][c] \in Kempt
  <2>1. pattern.active[t] \in Notes /\ c \in Notebook
    BY PatternParts, KemptSubset
  <2>2. does[t][c] = IF t \in dueMask THEN trigger_note_on(c, t, pattern.active[t]) ELSE c
    BY <2>1
  <2> HIDE DEF does
  <2> QED BY <2>1, <2>2, TriggeredIs
<1>2. retrigger_due(b) = ForEachTrack(does, b)
  BY DEF retrigger_due
<1> HIDE DEF does
<1> QED BY <1>1, <1>2, ForEachKeeps

LEMMA PlayKeeps ==
    ASSUME NEW b \in Kempt, pattern \in Pattern, NEW step \in [Tracks -> Steps], NEW flipped \in SUBSET Tracks
    PROVE  play_step(b, step, flipped) \in Kempt
<1> DEFINE turn(c, t) == LET d == process_track_step(c, t, step[t], t \in flipped)
                         IN IF retrigger[t] = "Step" THEN trigger_note_on(d, t, pattern.active[t]) ELSE d
           does == [t \in Tracks |-> [c \in Notebook |-> turn(c, t)]]
<1>1. ASSUME NEW c \in Kempt, NEW t \in Tracks PROVE does[t][c] \in Kempt
  <2> DEFINE o == t \in flipped  d == process_track_step(c, t, step[t], o)
  <2>1. pattern.active[t] \in Notes /\ c \in Notebook /\ step[t] \in Steps
    BY PatternParts, KemptSubset
  <2>2. o \in BOOLEAN
    <3> HIDE DEF does, turn, d
    <3> QED OBVIOUS
  <2>3. d \in Kempt
    <3> HIDE DEF o
    <3> QED BY <2>1, <2>2, StepPlayedIs
  <2>4. does[t][c] = turn(c, t)
    BY <2>1
  <2>5. turn(c, t) \in {d, trigger_note_on(d, t, pattern.active[t])}
    BY Zenon
  <2> HIDE DEF does, turn, d
  <2> QED BY <2>1, <2>3, <2>4, <2>5, TriggeredIs
<1>2. play_step(b, step, flipped) = ForEachTrack(does, b)
  BY DEF play_step
<1> HIDE DEF does
<1> QED BY <1>1, <1>2, ForEachKeeps

LEMMA PadNotesKeep ==
    ASSUME NEW b \in Kempt, pattern \in Pattern, NEW moved PROVE PadNotes(b, moved) \in Kempt
<1> DEFINE turn(c, t) == IF pad[t] = "up" /\ moved[t] = "down"
                         THEN trigger_note_on(c, t, pattern.active[t])
                         ELSE IF pad[t] # "up" /\ moved[t] = "up"
                         THEN trigger_note_off(c, t, pattern.active[t])
                         ELSE c
           does == [t \in Tracks |-> [c \in Notebook |-> turn(c, t)]]
<1>1. ASSUME NEW c \in Kempt, NEW t \in Tracks PROVE does[t][c] \in Kempt
  <2>1. pattern.active[t] \in Notes /\ c \in Notebook
    BY PatternParts, KemptSubset
  <2>2. does[t][c] = turn(c, t)
    BY <2>1
  <2>3. turn(c, t) \in {c, trigger_note_on(c, t, pattern.active[t]), trigger_note_off(c, t, pattern.active[t])}
    BY Zenon
  <2> HIDE DEF does, turn
  <2> QED BY <2>1, <2>2, <2>3, TriggeredIs, LetGoIs
<1>2. PadNotes(b, moved) = ForEachTrack(does, b)
  BY DEF PadNotes
<1> HIDE DEF does
<1> QED BY <1>1, <1>2, ForEachKeeps

LEMMA PreviewKeeps ==
    ASSUME NEW b \in Kempt, pattern \in Pattern, NEW step \in [Tracks -> Steps]
    PROVE  ForEachTrack([t \in Tracks |-> [c \in Notebook |->
                            IF Audible(pattern, t, step[t])
                            THEN Untracked(c, pattern.step[t][step[t]].note) ELSE c]], b) \in Kempt
<1> DEFINE turn(c, t) == IF Audible(pattern, t, step[t])
                         THEN Untracked(c, pattern.step[t][step[t]].note) ELSE c
           does == [t \in Tracks |-> [c \in Notebook |-> turn(c, t)]]
<1>1. ASSUME NEW c \in Kempt, NEW t \in Tracks PROVE does[t][c] \in Kempt
  <2>1. pattern.step[t][step[t]] \in Step /\ c \in Notebook
    BY PatternParts, KemptSubset
  <2>2. does[t][c] = turn(c, t)
    BY <2>1
  <2>3. CASE Audible(pattern, t, step[t])
    <3>1. pattern.step[t][step[t]].note \in Notes
      BY <2>1, <2>3 DEF Audible, Step
    <3>2. turn(c, t) = Untracked(c, pattern.step[t][step[t]].note)
      BY <2>3
    <3> HIDE DEF turn, does
    <3> QED BY <2>2, <3>1, <3>2, UntrackedIs
  <2>4. CASE ~Audible(pattern, t, step[t])
    <3>1. turn(c, t) = c
      BY <2>4
    <3> HIDE DEF turn, does
    <3> QED BY <2>2, <3>1
  <2> QED BY <2>3, <2>4
<1> HIDE DEF does
<1>2. ForEachTrack(does, b) \in Kempt
  BY <1>1, ForEachKeeps
<1> QED BY <1>2 DEF does

LEMMA StopKeeps ==
    ASSUME NEW b \in Kempt
    PROVE  ForEachTrack([t \in Tracks |-> [c \in Notebook |-> Ended(c, t)]], b) \in Kempt
<1> DEFINE does == [t \in Tracks |-> [c \in Notebook |-> Ended(c, t)]]
<1>1. ASSUME NEW c \in Kempt, NEW t \in Tracks PROVE does[t][c] \in Kempt
  <2>1. does[t][c] = Ended(c, t)
    BY KemptSubset
  <2> HIDE DEF does
  <2> QED BY <2>1, EndedIs
<1> HIDE DEF does
<1>2. ForEachTrack(does, b) \in Kempt
  BY <1>1, ForEachKeeps
<1> QED BY <1>2 DEF does

-----------------------------------------------------------------------------
(* The actions *)

LEMMA SoundsParts ==
    ASSUME SoundsInv
    PROVE  /\ pattern \in Pattern /\ notes \in Kempt
           /\ \A t \in Tracks, s \in Steps : pattern.step[t][s].note \in {NoNote, pattern.active[t]}
  BY DEF SoundsInv, TypeOK, NoNoteHangs, NotesFollow, Kempt, Heard, Ends

\* All that is left to show where the receiver hears nothing new.
LEMMA KemptIs ==
    ASSUME notes' \in Kempt, sounding' = sounding
    PROVE  notes' \in Notebook /\ Len(notes'.queue) <= QueueSize /\ NoNoteHangs'
  BY DEF Kempt, Heard, Ends, NoNoteHangs

LEMMA SoundsStarts == ASSUME Init PROVE SoundsInv
<1>1. NotesFollow
  BY InitialIs DEF Init, NotesFollow
<1>2. notes \in Notebook
  <2>1. [t \in Tracks |-> NoNote] \in [Tracks -> Notes \cup {NoNote}] /\ <<>> \in Seq(Event)
    OBVIOUS
  <2> QED BY <2>1 DEF Init, Notebook
<1>3. notes.queue = <<>> /\ Len(notes.queue) <= QueueSize /\ sounding = {}
  BY QueueAssumption DEF Init
<1>4. NoNoteHangs
  <2>1. Delivered(notes.queue, sounding) = {}
    BY <1>3, NothingDelivered
  <2> QED BY <2>1 DEF NoNoteHangs
<1>5. TypeOK
  BY <1>2, <1>3, InitialIs DEF Init, TypeOK
<1> QED BY <1>1, <1>4, <1>5 DEF SoundsInv

LEMMA UpdateSounds == ASSUME SoundsInv, Update PROVE SoundsInv'
<1>1. pattern \in Pattern /\ notes \in Kempt
  BY SoundsParts
<1>2. PICK step \in [Tracks -> Steps], flipped \in SUBSET (IF flip THEN Tracks ELSE {}) :
         LET ended  == retrigger_due(notes)
             done == IF stepDue THEN play_step(ended, step, flipped) ELSE ended
         IN sounding' = Delivered(done.queue, sounding) /\ notes' = [done EXCEPT !.queue = <<>>]
  BY DEF Update
<1> DEFINE ended  == retrigger_due(notes)
           done == IF stepDue THEN play_step(ended, step, flipped) ELSE ended
<1>3. ended \in Kempt
  BY <1>1, RetriggersKeep
<1>4. done \in Kempt
  <2>1. flipped \in SUBSET Tracks
    BY <1>2
  <2> HIDE DEF ended
  <2> QED BY <1>1, <1>3, <2>1, PlayKeeps
<1>5. sounding' = Delivered(done.queue, sounding) /\ notes' = [done EXCEPT !.queue = <<>>]
  BY <1>2, Zenon
<1> HIDE DEF done
<1>6. /\ done \in Notebook /\ Delivered(done.queue, sounding) \subseteq Ends(done)
  BY <1>4 DEF Kempt, Heard
<1>7. notes' = [last |-> done.last, queue |-> <<>>, recent |-> done.recent, stray |-> done.stray]
  BY <1>5, <1>6 DEF Notebook
<1>8. /\ notes' \in Notebook /\ notes'.queue = <<>> /\ notes'.last = done.last /\ notes'.stray = done.stray
      /\ Len(notes'.queue) <= QueueSize
  <2>1. <<>> \in Seq(Event) /\ Len(<<>>) = 0 /\ QueueSize \in Nat
    BY QueueAssumption
  <2> QED BY <1>6, <1>7, <2>1, BookParts DEF Notebook
<1>9. sounding' \subseteq Notes
  BY <1>5, DeliveredNotes
<1>10. NoNoteHangs'
  <2>1. Delivered(notes'.queue, sounding') \subseteq sounding'
    BY <1>8, NothingDelivered
  <2> QED BY <1>5, <1>6, <1>8, <2>1 DEF NoNoteHangs, Ends
<1>11. TypeOK'
  BY <1>8, <1>9 DEF SoundsInv, TypeOK, Update
<1>12. NotesFollow'
  BY DEF SoundsInv, NotesFollow, Update
<1> QED BY <1>10, <1>11, <1>12 DEF SoundsInv

LEMMA StopSounds == ASSUME SoundsInv, stop, sounding' = sounding PROVE notes' \in Kempt
<1>1. notes \in Kempt
  BY SoundsParts
<1>2. notes' = ForEachTrack([t \in Tracks |-> [c \in Notebook |-> Ended(c, t)]], notes)
  BY DEF stop
<1> QED BY <1>1, <1>2, StopKeeps

\* The actions that leave the notes alone.
LEMMA QuietSounds ==
    ASSUME SoundsInv, notes' = notes, sounding' = sounding, pattern' = pattern, TypeOK'
    PROVE  SoundsInv'
  BY DEF SoundsInv, NotesFollow, NoNoteHangs

\* The actions that play notes or change them.
LEMMA NotedSounds ==
    ASSUME SoundsInv, notes' \in Kempt, sounding' = sounding, pattern' \in Pattern, NotesFollow',
           UNCHANGED <<pad, squeezed, dueMask, stepDue>>,
           running' \in BOOLEAN, flip' \in BOOLEAN,
           phase' \in {"keys", "pads", "buttons", "play", "update", "input"},
           hit' \in SUBSET Tracks, retrigger' \in [Tracks -> {"Off", "Step", "Substeps"}]
    PROVE  SoundsInv'
<1>1. notes' \in Notebook /\ Len(notes'.queue) <= QueueSize /\ NoNoteHangs'
  BY KemptIs
<1>2. TypeOK
  BY DEF SoundsInv
<1>3. {running, stepDue, flip}' \subseteq BOOLEAN
  BY <1>2 DEF TypeOK
<1>4. TypeOK'
  BY <1>1, <1>2, <1>3 DEF TypeOK
<1> QED BY <1>1, <1>4 DEF SoundsInv

LEMMA SoundsStep == ASSUME SoundsInv, [Next]_vars PROVE SoundsInv'
<1>1. /\ pattern \in Pattern /\ notes \in Kempt /\ notes \in Notebook
      /\ \A t \in Tracks, s \in Steps : pattern.step[t][s].note \in {NoNote, pattern.active[t]}
      /\ NotesFollow
  BY SoundsParts, KemptSubset DEF NotesFollow
<1>2. /\ running \in BOOLEAN /\ flip \in BOOLEAN /\ stepDue \in BOOLEAN /\ hit \in SUBSET Tracks
      /\ retrigger \in [Tracks -> {"Off", "Step", "Substeps"}] /\ dueMask \in SUBSET Tracks
      /\ phase \in {"keys", "pads", "buttons", "play", "update", "input"}
  BY DEF SoundsInv, TypeOK
<1>3. ASSUME UNCHANGED pattern PROVE pattern' \in Pattern /\ NotesFollow'
  BY <1>1, <1>3 DEF NotesFollow
<1>4. ASSUME stop PROVE running' \in BOOLEAN /\ flip' \in BOOLEAN /\ retrigger' \in [Tracks -> {"Off", "Step", "Substeps"}]
  BY <1>4 DEF stop
<1>5. CASE SysExTransfer
  <2>1. /\ stop /\ phase' = "update" /\ UNCHANGED <<pattern, sounding, stepDue, pad, squeezed, hit, dueMask>>
    BY <1>5 DEF SysExTransfer
  <2>2. notes' \in Kempt
    BY <2>1, StopSounds
  <2> QED BY <1>2, <1>3, <1>4, <2>1, <2>2, NotedSounds
<1>6. CASE SetSequencerState
  <2>1. /\ \E kept \in SequencerPersistentState : pattern' = apply_persistent_state(kept)
        /\ UNCHANGED <<phase, notes, sounding, running, stepDue, flip, pad, squeezed, hit, retrigger, dueMask>>
    BY <1>6 DEF SetSequencerState
  <2>2. PICK kept \in SequencerPersistentState : pattern' = apply_persistent_state(kept)
    BY <2>1
  <2>3. ASSUME NEW t \in Tracks, NEW s \in Steps
        PROVE  pattern'.step[t][s].note \in {NoNote, pattern'.active[t]}
    <3>1. CASE kept.velocities[t][s] > 0
      <4>1. pattern'.step[t][s] = [note |-> kept.active[t], velocity |-> kept.velocities[t][s], enabled |-> TRUE]
            /\ pattern'.active = kept.active
        BY <2>2, <3>1, AppliedIs
      <4> QED BY <4>1
    <3>2. CASE ~(kept.velocities[t][s] > 0)
      <4>1. pattern'.step[t][s] = [note |-> NoNote, velocity |-> 0, enabled |-> FALSE]
        BY <2>2, <3>2, AppliedIs
      <4> QED BY <4>1
    <3> QED BY <3>1, <3>2
  <2>4. pattern' \in Pattern /\ NotesFollow'
    BY <2>2, <2>3, AppliedIs DEF NotesFollow
  <2> QED BY <1>1, <1>2, <2>1, <2>4, NotedSounds
<1>7. CASE SelectSample
  <2>1. PICK t \in Tracks, offset \in {-1, 1} :
           /\ pattern' = WithNote(pattern, t, SelectedNote(pattern, t, offset))
           /\ notes' = IF running THEN notes ELSE trigger_note_on(notes, t, SelectedNote(pattern, t, offset))
    BY <1>7 DEF SelectSample
  <2>2. SelectedNote(pattern, t, offset) \in Notes
    BY <1>1, SelectedIs
  <2>3. pattern' \in Pattern /\ NotesFollow'
    BY <1>1, <2>1, <2>2, WithNoteIs DEF NotesFollow
  <2>4. notes' \in Kempt
    BY <1>1, <2>1, <2>2, TriggeredIs
  <2> QED BY <1>2, <1>7, <2>3, <2>4, NotedSounds DEF SelectSample
<1>8. CASE PressStep
  <2>1. PICK t \in Tracks, s \in Steps :
           /\ pattern' = Pressed(pattern, t, s)
           /\ notes' \in {notes, trigger_note_on(notes, t, pattern.active[t])}
    BY <1>8 DEF PressStep
  <2>2. pattern' \in Pattern /\ NotesFollow'
    BY <1>1, <2>1, PressedIs DEF NotesFollow
  <2>3. notes' \in Kempt
    <3>1. pattern.active[t] \in Notes
      BY <1>1, PatternParts
    <3> QED BY <1>1, <2>1, <3>1, TriggeredIs
  <2> QED BY <1>2, <1>8, <2>2, <2>3, NotedSounds DEF PressStep
<1>9. CASE HoldStep
  <2>1. PICK t \in Tracks, s \in Steps : pattern' = Held(pattern, t, s)
    BY <1>9 DEF HoldStep
  <2>2. pattern' \in Pattern /\ NotesFollow'
    BY <1>1, <2>1, HeldIs DEF NotesFollow
  <2> QED BY <1>1, <1>2, <1>9, <2>2, NotedSounds DEF HoldStep
<1>10. CASE KeysDone
  BY <1>1, <1>2, <1>3, <1>10, NotedSounds DEF KeysDone
<1>11. CASE Pads
  <2>1. PICK moved \in [Tracks -> {"up", "down", "held"}], hard \in SUBSET Tracks :
           /\ pad' = moved /\ squeezed' = hard
           /\ notes' = PadNotes(notes, moved)
           /\ hit' = {t \in Tracks : moved[t] # "up" /\ (t \in hit \/ pad[t] = "up")}
           /\ retrigger' = [t \in Tracks |-> RetriggerMode(moved[t], t \in hard, t \in hit')]
    BY <1>11 DEF Pads
  <2>2. notes' \in Kempt
    BY <1>1, <2>1, PadNotesKeep
  <2>3. notes' \in Notebook /\ Len(notes'.queue) <= QueueSize /\ NoNoteHangs'
    BY <1>11, <2>2, KemptIs DEF Pads
  <2>4. /\ pad' \in [Tracks -> {"up", "down", "held"}]
        /\ squeezed' \subseteq Tracks /\ hit' \subseteq Tracks
        /\ retrigger' \in [Tracks -> {"Off", "Step", "Substeps"}]
    <3>1. \A p, h, k : RetriggerMode(p, h, k) \in {"Off", "Step", "Substeps"}
      BY DEF RetriggerMode
    <3> QED BY <2>1, <3>1
  <2>5. /\ phase' = "buttons" /\ UNCHANGED <<pattern, sounding, running, stepDue, flip, dueMask>>
    BY <1>11 DEF Pads
  <2>6. TypeOK'
    BY <2>3, <2>4, <2>5 DEF SoundsInv, TypeOK
  <2> QED BY <1>3, <2>3, <2>5, <2>6 DEF SoundsInv
<1>12. CASE PreviewRandom
  <2>1. PICK step \in [Tracks -> Steps] :
           notes' = ForEachTrack([t \in Tracks |-> [c \in Notebook |->
                                     IF Audible(pattern, t, step[t])
                                     THEN Untracked(c, pattern.step[t][step[t]].note) ELSE c]], notes)
    BY <1>12 DEF PreviewRandom
  <2>2. notes' \in Kempt
    BY <1>1, <2>1, PreviewKeeps
  <2>3. /\ phase' = "play"
        /\ UNCHANGED <<pattern, sounding, running, stepDue, flip, pad, squeezed, hit, retrigger, dueMask>>
    BY <1>12 DEF PreviewRandom
  <2> QED BY <1>2, <1>3, <2>2, <2>3, NotedSounds
<1>13. CASE Flip
  BY <1>1, <1>2, <1>3, <1>13, NotedSounds DEF Flip
<1>14. CASE StepOnce
  BY <1>2, <1>14, QuietSounds DEF StepOnce, TypeOK, SoundsInv
<1>15. CASE NoButton
  BY <1>1, <1>2, <1>3, <1>15, NotedSounds DEF NoButton
<1>16. CASE PlayButton
  <2>1. /\ phase' = "update" /\ UNCHANGED <<pattern, sounding, stepDue, pad, squeezed, hit, dueMask>>
        /\ IF running THEN stop ELSE running' = TRUE /\ UNCHANGED <<notes, retrigger, flip>>
    BY <1>16 DEF PlayButton
  <2>2. CASE running
    <3>1. notes' \in Kempt
      BY <2>1, <2>2, StopSounds
    <3> QED BY <1>2, <1>3, <1>4, <2>1, <2>2, <3>1, NotedSounds
  <2>3. CASE ~running
    BY <1>1, <1>2, <1>3, <2>1, <2>3, NotedSounds
  <2> QED BY <2>2, <2>3
<1>17. CASE NoPlayButton
  BY <1>1, <1>2, <1>3, <1>17, NotedSounds DEF NoPlayButton
<1>18. CASE NoteIn
  <2>1. PICK n \in {m \in Notes : TracksOf(m) # {}} :
           notes' = Untracked(notes, n) /\ pattern' = WithNote(pattern, FirstTrackOf(n), n)
    BY <1>18 DEF NoteIn
  <2>2. notes' \in Kempt
    BY <1>1, <2>1, UntrackedIs
  <2>3. pattern' \in Pattern /\ NotesFollow'
    BY <1>1, <2>1, FirstIs, WithNoteIs DEF NotesFollow
  <2> QED BY <1>2, <1>18, <2>2, <2>3, NotedSounds DEF NoteIn
<1>19. CASE Tick
  <2>1. /\ stepDue' \in BOOLEAN /\ dueMask' \subseteq Tracks /\ phase' = "keys"
        /\ UNCHANGED <<notes, sounding, running, flip, pad, squeezed, hit, retrigger>>
    BY <1>2, <1>19 DEF Tick
  <2>2. pattern' \in Pattern /\ NotesFollow'
    <3>1. CASE pattern' = pattern
      BY <1>3, <3>1
    <3>2. CASE \E t \in Tracks, offset \in {-1, 1} :
                 pattern' = WithNote(pattern, t, SelectedNote(pattern, t, offset))
      <4>1. PICK t \in Tracks, offset \in {-1, 1} :
               pattern' = WithNote(pattern, t, SelectedNote(pattern, t, offset))
        BY <3>2
      <4>2. SelectedNote(pattern, t, offset) \in Notes
        BY <1>1, SelectedIs
      <4> QED BY <1>1, <4>1, <4>2, WithNoteIs DEF NotesFollow
    <3> QED BY <1>19, <3>1, <3>2 DEF Tick
  <2>3. TypeOK'
    BY <2>1, <2>2 DEF SoundsInv, TypeOK
  <2>4. NoNoteHangs'
    BY <2>1 DEF SoundsInv, NoNoteHangs
  <2> QED BY <2>2, <2>3, <2>4 DEF SoundsInv
<1>20. CASE InputDone
  <2>1. PICK still \in SUBSET notes.recent : notes' = [notes EXCEPT !.recent = still]
    BY <1>20 DEF InputDone
  <2>2. notes' = [last |-> notes.last, queue |-> notes.queue, recent |-> still, stray |-> notes.stray]
    BY <1>1, <2>1 DEF Notebook
  <2>3. notes' \in Notebook /\ notes'.queue = notes.queue /\ notes'.last = notes.last /\ notes'.stray = notes.stray
    BY <1>1, <2>2, BookParts DEF Notebook
  <2>4. notes' \in Kempt
    BY <1>1, <2>3 DEF Kempt, Heard, Ends
  <2> QED BY <1>2, <1>3, <1>20, <2>4, NotedSounds DEF InputDone
<1>21. CASE UNCHANGED vars
  BY <1>21, QuietSounds DEF vars, SoundsInv, TypeOK
<1> QED BY <1>5, <1>6, <1>7, <1>8, <1>9, <1>10, <1>11, <1>12, <1>13, <1>14, <1>15, <1>16, <1>17,
           <1>18, <1>19, <1>20, <1>21, UpdateSounds DEF Next

\* Through every edit, preview, retrigger and stop, what a receiver has on is
\* what the tracks remember, a note known to be astray, or ended in the queue.
THEOREM SoundsInvariance == Spec => []SoundsInv
<1> QED BY SoundsStarts, SoundsStep, PTL DEF Spec

\* Whatever the pattern, the number of tracks and the size of the queue, a note
\* that is on is remembered by its track or is known not to be.
THEOREM NoNoteHangsAlways == Spec => []NoNoteHangs
<1>1. SoundsInv => NoNoteHangs
  BY DEF SoundsInv
<1> QED BY <1>1, SoundsInvariance, PTL

-----------------------------------------------------------------------------
(* The voices *)

\* The types, in full.
Slot == [sample : Samples \cup {NoSample}, length : 0..MaxBlocks, buffer : [1..MaxBlocks -> Block]]
Reader == {r \in [count : 0..MaxBlocks, pos : 0..MaxBlocks] : r.pos <= r.count}
Shifter == [speed : Speeds, held : Block]
Envelope == {e \in [active : BOOLEAN, end : Nat, rendered : Nat] : e.rendered <= e.end}
Playing ==
    [pc : {"commit", "committing", "start", "replaced", "starting"}, voice : VoiceIds,
     sample : Samples, speed : Speeds, decay : Decays]

VoiceTypes ==
    /\ sampleFile \in [Samples -> [version : 0..MaxUploads, length : 0..MaxBlocks, whole : BOOLEAN]]
    /\ uploading \in Samples \cup {NoSample}
    /\ slot \in [VoiceIds -> Slot]
    /\ reader \in [VoiceIds -> Reader]
    /\ shifter \in [VoiceIds -> Shifter]
    /\ envelope \in [VoiceIds -> Envelope]
    /\ due \in [VoiceIds -> Seq(Block)]
    /\ main = Idle \/ main \in Playing

\* Interrupts are disabled while a buffer is replaced and while a note starts;
\* a note is played to its end before anything else happens in the main loop.
MainOrder ==
    /\ irqs <=> main.pc \notin {"committing", "starting"}
    /\ main.pc # "idle" => uploading = NoSample
    /\ main.pc \in {"commit", "committing"} => staging = Staged(main.sample)
    /\ uploading # NoSample => ~sampleFile[uploading].whole

Replacing(v) == main.pc = "committing" /\ main.voice = v

\* A slot holds the beginning of one version of one sample, and that of the
\* file if it claims a sample that was stored to its end.
SlotWhole(l) ==
    l.length = 0 \/ \E s \in Samples, n \in 0..MaxUploads :
                       \A i \in 1..l.length : l.buffer[i] = <<s, n, i>>

SlotFresh(l) ==
    l.sample # NoSample /\ sampleFile[l.sample].whole =>
        /\ l.length = sampleFile[l.sample].length
        /\ \A i \in 1..l.length : l.buffer[i] = <<l.sample, sampleFile[l.sample].version, i>>

SlotsKept == \A v \in VoiceIds : ~Replacing(v) => SlotWhole(slot[v]) /\ SlotFresh(slot[v])

\* How many blocks a reader r and its shifter s still have to play from a
\* buffer b, and which.
Rest(r, s) ==
    IF s.speed = "unit" THEN r.count - r.pos
    ELSE 2 * (r.count - r.pos) + (IF s.held = Silence THEN 0 ELSE 1)

Coming(r, s, b, j) ==
    IF s.speed = "unit" THEN b[r.pos + j]
    ELSE IF s.held = Silence THEN b[r.pos + ((j + 1) \div 2)]
    ELSE b[r.pos + (j \div 2)]

\* What is due, d, is what is to come, up to the end of the decay.
InStep(r, s, e, b, d) ==
    /\ \A i \in 1..r.count : b[i] # Silence
    /\ s.held # Silence => s.speed = "half" /\ r.pos > 0 /\ s.held = b[r.pos]
    /\ Len(d) = IF e.active THEN e.end - e.rendered ELSE Rest(r, s)
    /\ Len(d) <= Rest(r, s)
    /\ \A j \in 1..Len(d) : d[j] = Coming(r, s, b, j)

\* A voice is out of step from the moment its sample is replaced by another
\* that can be played until that is started.
OutOfStep(v) ==
    /\ main.pc # "idle" /\ main.voice = v
    /\ \/ main.pc = "starting"
       \/ main.pc = "committing" /\ staging.blocks # << >>
       \/ main.pc = "replaced" /\ slot[v].length # 0

VoicesInStep ==
    /\ \A v \in VoiceIds : ~OutOfStep(v) =>
          InStep(reader[v], shifter[v], envelope[v], slot[v].buffer, due[v])
    /\ main.pc = "starting" =>
          LET v == main.voice
          IN  /\ reader[v].pos = 0
              /\ InStep(reader[v], [speed |-> main.speed, held |-> Silence], envelope[v],
                        slot[v].buffer, due[v])

VoicesInv == VoiceTypes /\ MainOrder /\ SlotsKept /\ VoicesInStep

-----------------------------------------------------------------------------
LEMMA BlockIs ==
    ASSUME NEW s \in Samples, NEW n \in 0..MaxUploads, NEW i \in 1..MaxBlocks
    PROVE  <<s, n, i>> \in Block /\ <<s, n, i>> # Silence
  BY DEF Block, Silence

LEMMA SilenceIs == Silence \in Block
  BY DEF Block

\* The parts of a voice.
LEMMA VoiceParts ==
    ASSUME VoiceTypes, NEW v \in VoiceIds
    PROVE  /\ slot[v] \in Slot /\ slot[v].length \in 0..MaxBlocks
           /\ slot[v].buffer \in [1..MaxBlocks -> Block]
           /\ slot[v].sample \in Samples \cup {NoSample}
           /\ reader[v] \in Reader /\ reader[v].count \in 0..MaxBlocks
           /\ reader[v].pos \in 0..reader[v].count
           /\ shifter[v] \in Shifter /\ shifter[v].speed \in Speeds /\ shifter[v].held \in Block
           /\ envelope[v] \in Envelope /\ envelope[v].active \in BOOLEAN
           /\ envelope[v].end \in Nat /\ envelope[v].rendered \in Nat
           /\ envelope[v].rendered <= envelope[v].end
           /\ due[v] \in Seq(Block) /\ MaxBlocks \in Nat \ {0}
<1>1. slot[v] \in Slot /\ reader[v] \in Reader /\ shifter[v] \in Shifter
      /\ envelope[v] \in Envelope /\ due[v] \in Seq(Block)
  BY DEF VoiceTypes
<1> QED BY <1>1, BlocksAssumption DEF Slot, Reader, Shifter, Envelope

\* What the interrupt makes of a voice.
LEMMA ReadIs ==
    ASSUME VoiceTypes, NEW v \in VoiceIds
    PROVE  LET read == read_samples(v)
           IN  /\ read.out \in Block /\ read.reader \in Reader
               /\ read.reader.count = reader[v].count
               /\ IF reader[v].pos < reader[v].count
                  THEN read.out = slot[v].buffer[reader[v].pos + 1] /\ read.reader.pos = reader[v].pos + 1
                  ELSE read.out = Silence /\ read.reader.pos = reader[v].pos
<1>1. CASE reader[v].pos < reader[v].count
  <2>1. reader[v].pos + 1 \in 1..MaxBlocks /\ reader[v].pos + 1 <= reader[v].count
    BY <1>1, VoiceParts
  <2>2. [reader[v] EXCEPT !.pos = reader[v].pos + 1] \in Reader
    BY <2>1, VoiceParts DEF Reader
  <2>3. slot[v].buffer[reader[v].pos + 1] \in Block
    BY <2>1, VoiceParts
  <2> QED BY <1>1, <2>2, <2>3, VoiceParts DEF read_samples, Reader
<1>2. CASE ~(reader[v].pos < reader[v].count)
  BY <1>2, VoiceParts, SilenceIs DEF read_samples
<1> QED BY <1>1, <1>2

LEMMA ShiftedTypes ==
    ASSUME VoiceTypes, NEW v \in VoiceIds
    PROVE  LET x == Shifted(v)
           IN  x.out \in Block /\ x.reader \in Reader /\ x.shifter \in Shifter
<1>1. read_samples(v).out \in Block /\ read_samples(v).reader \in Reader
  BY ReadIs
<1>2. shifter[v] \in Shifter /\ shifter[v].held \in Block /\ reader[v] \in Reader /\ Silence \in Block
  BY VoiceParts, SilenceIs
<1> QED BY <1>1, <1>2 DEF Shifted, Shifter

\* Whatever is to come is the next block, and then what comes after it.
LEMMA ShiftedIs ==
    ASSUME VoiceTypes, NEW v \in VoiceIds,
           \A i \in 1..reader[v].count : slot[v].buffer[i] # Silence,
           shifter[v].held # Silence =>
              shifter[v].speed = "half" /\ reader[v].pos > 0 /\ shifter[v].held = slot[v].buffer[reader[v].pos]
    PROVE  LET x == Shifted(v)  b == slot[v].buffer
           IN  /\ x.reader.count = reader[v].count
               /\ x.shifter.held # Silence =>
                     x.shifter.speed = "half" /\ x.reader.pos > 0 /\ x.shifter.held = b[x.reader.pos]
               /\ IF Rest(reader[v], shifter[v]) = 0
                  THEN x.out = Silence /\ Rest(x.reader, x.shifter) = 0
                  ELSE /\ x.out = Coming(reader[v], shifter[v], b, 1)
                       /\ Rest(x.reader, x.shifter) = Rest(reader[v], shifter[v]) - 1
                       /\ \A j \in Nat \ {0} : Coming(x.reader, x.shifter, b, j) = Coming(reader[v], shifter[v], b, j + 1)
<1> DEFINE x == Shifted(v)  b == slot[v].buffer  r == reader[v]  s == shifter[v]  read == read_samples(v)
<1>1. /\ r.count \in 0..MaxBlocks /\ r.pos \in 0..r.count /\ s \in Shifter /\ s.speed \in {"unit", "half"}
      /\ MaxBlocks \in Nat
  BY VoiceParts DEF Speeds
<1>2. /\ read.out \in Block /\ read.reader \in Reader /\ read.reader.count = r.count
      /\ IF r.pos < r.count
         THEN read.out = b[r.pos + 1] /\ read.reader.pos = r.pos + 1
         ELSE read.out = Silence /\ read.reader.pos = r.pos
  BY ReadIs
<1>3. /\ \A i \in 1..r.count : b[i] # Silence
      /\ s.held # Silence => s.speed = "half" /\ r.pos > 0 /\ s.held = b[r.pos]
  OBVIOUS
<1>4. CASE s.speed = "unit"
  <2>1. x = [out |-> read.out, reader |-> read.reader, shifter |-> s]
    BY <1>4 DEF Shifted
  <2>2. x.out = read.out /\ x.reader = read.reader /\ x.shifter = s
    BY <2>1
  <2> HIDE DEF x, b, r, s, read
  <2>3. CASE r.pos < r.count
    <3>1. \A j \in Nat \ {0} : r.pos + (j + 1) = (r.pos + 1) + j
      BY <1>1
    <3> QED BY <1>1, <1>2, <1>3, <1>4, <2>2, <2>3, <3>1 DEF x, b, r, s, Rest, Coming
  <2>4. CASE ~(r.pos < r.count)
    BY <1>1, <1>2, <1>3, <1>4, <2>2, <2>4 DEF x, b, r, s, Rest, Coming
  <2> QED BY <2>3, <2>4
<1>5. CASE s.speed = "half" /\ s.held # Silence
  <2>1. x = [out |-> s.held, reader |-> r, shifter |-> [s EXCEPT !.held = Silence]]
    BY <1>5 DEF Shifted
  <2>2. x.out = s.held /\ x.reader = r /\ x.shifter.speed = "half" /\ x.shifter.held = Silence
    BY <1>1, <1>5, <2>1 DEF Shifter
  <2> HIDE DEF x, b, r, s, read
  <2>3. Rest(r, s) = 2 * (r.count - r.pos) + 1
    BY <1>5 DEF Rest
  <2>8. Rest(x.reader, x.shifter) = 2 * (r.count - r.pos)
    <3>1. Rest(x.reader, x.shifter) = 2 * (r.count - r.pos) + 0
      BY <2>2 DEF Rest
    <3> QED BY <1>1, <3>1
  <2>4. Coming(r, s, b, 1) = b[r.pos]
    <3>1. 1 \div 2 = 0 /\ r.pos + 0 = r.pos
      BY <1>1
    <3> QED BY <1>5, <3>1 DEF Coming
  <2>5. \A j \in Nat \ {0} : Coming(x.reader, x.shifter, b, j) = Coming(r, s, b, j + 1)
    BY <1>5, <2>2 DEF Coming
  <2>6. Rest(r, s) # 0 /\ Rest(x.reader, x.shifter) = Rest(r, s) - 1
    BY <1>1, <2>3, <2>8
  <2> QED BY <1>3, <1>5, <2>2, <2>4, <2>5, <2>6 DEF x, b, r, s
<1>6. CASE s.speed = "half" /\ s.held = Silence
  <2>1. x = [out |-> read.out, reader |-> read.reader, shifter |-> [s EXCEPT !.held = read.out]]
    BY <1>6 DEF Shifted
  <2>2. x.out = read.out /\ x.reader = read.reader /\ x.shifter.speed = "half" /\ x.shifter.held = read.out
    BY <1>1, <1>6, <2>1 DEF Shifter
  <2> HIDE DEF x, b, r, s, read
  <2>3. Rest(r, s) = 2 * (r.count - r.pos)
    BY <1>1, <1>6 DEF Rest
  <2>4. CASE r.pos < r.count
    <3>1. r.pos + 1 \in 1..r.count
      BY <1>1, <2>4
    <3>2. x.shifter.held = b[r.pos + 1] /\ x.shifter.held # Silence /\ x.reader.pos = r.pos + 1
          /\ x.reader.count = r.count
      BY <1>2, <1>3, <2>2, <2>4, <3>1
    <3>3. Rest(x.reader, x.shifter) = 2 * (r.count - (r.pos + 1)) + 1
      BY <2>2, <3>2 DEF Rest
    <3>4. Rest(r, s) # 0 /\ Rest(x.reader, x.shifter) = Rest(r, s) - 1
      BY <1>1, <2>3, <2>4, <3>3
    <3>5. Coming(r, s, b, 1) = b[r.pos + 1]
      <4>1. (1 + 1) \div 2 = 1
        OBVIOUS
      <4> QED BY <1>6, <4>1 DEF Coming
    <3>6. ASSUME NEW j \in Nat \ {0} PROVE Coming(x.reader, x.shifter, b, j) = Coming(r, s, b, j + 1)
      <4>1. (r.pos + 1) + (j \div 2) = r.pos + (((j + 1) + 1) \div 2)
        BY <1>1
      <4>2. Coming(x.reader, x.shifter, b, j) = b[(r.pos + 1) + (j \div 2)]
        BY <2>2, <3>2 DEF Coming
      <4>3. Coming(r, s, b, j + 1) = b[r.pos + (((j + 1) + 1) \div 2)]
        BY <1>6 DEF Coming
      <4> QED BY <4>1, <4>2, <4>3
    <3>7. x.reader.pos > 0
      BY <1>1, <3>2
    <3> QED BY <2>2, <3>2, <3>4, <3>5, <3>6, <3>7, <1>2 DEF x, b, r, s
  <2>5. CASE ~(r.pos < r.count)
    <3>1. r.pos = r.count /\ x.shifter.held = Silence /\ x.reader.pos = r.pos /\ x.reader.count = r.count
      BY <1>1, <1>2, <2>2, <2>5
    <3>2. Rest(r, s) = 0 /\ Rest(x.reader, x.shifter) = 0
      BY <1>1, <2>2, <2>3, <3>1 DEF Rest
    <3> QED BY <1>2, <2>2, <2>5, <3>1, <3>2 DEF x, b, r, s
  <2> QED BY <2>4, <2>5
<1> QED BY <1>1, <1>4, <1>5, <1>6

Consumed(d) == IF d = << >> THEN << >> ELSE Tail(d)

LEMMA FillTypes ==
    ASSUME VoiceTypes, NEW v \in VoiceIds
    PROVE  /\ fill_buffer(v).reader \in Reader /\ fill_buffer(v).shifter \in Shifter
           /\ fill_buffer(v).envelope \in Envelope
           /\ Consumed(due[v]) \in Seq(Block)
<1>1. Shifted(v).reader \in Reader /\ Shifted(v).shifter \in Shifter
  BY ShiftedTypes
<1>2. /\ envelope[v] \in Envelope /\ envelope[v].end \in Nat /\ envelope[v].rendered \in Nat
      /\ envelope[v].rendered < envelope[v].end => [envelope[v] EXCEPT !.rendered = @ + 1] \in Envelope
  BY VoiceParts DEF Envelope
<1>3. Consumed(due[v]) \in Seq(Block)
  <2>1. due[v] \in Seq(Block)
    BY VoiceParts
  <2>2. CASE due[v] = << >>
    BY <2>2 DEF Consumed
  <2>3. CASE due[v] # << >>
    <3>1. Tail(due[v]) \in Seq(Block)
      BY <2>1, <2>3, HeadTailProperties
    <3> QED BY <2>3, <3>1 DEF Consumed
  <2> QED BY <2>2, <2>3
<1> QED BY <1>1, <1>2, <1>3 DEF fill_buffer

LEMMA FillIs ==
    ASSUME VoiceTypes, NEW v \in VoiceIds,
           InStep(reader[v], shifter[v], envelope[v], slot[v].buffer, due[v])
    PROVE  LET f == fill_buffer(v)
           IN  /\ f.out = IF due[v] = << >> THEN Silence ELSE Head(due[v])
               /\ InStep(f.reader, f.shifter, f.envelope, slot[v].buffer, Consumed(due[v]))
<1> DEFINE f == fill_buffer(v)  x == Shifted(v)  b == slot[v].buffer  r == reader[v]  s == shifter[v]
           e == envelope[v]  d == due[v]
<1>1. /\ \A i \in 1..r.count : b[i] # Silence
      /\ s.held # Silence => s.speed = "half" /\ r.pos > 0 /\ s.held = b[r.pos]
      /\ Len(d) = IF e.active THEN e.end - e.rendered ELSE Rest(r, s)
      /\ Len(d) <= Rest(r, s)
      /\ \A j \in 1..Len(d) : d[j] = Coming(r, s, b, j)
  BY DEF InStep
<1>2. /\ x.reader.count = r.count
      /\ x.shifter.held # Silence =>
            x.shifter.speed = "half" /\ x.reader.pos > 0 /\ x.shifter.held = b[x.reader.pos]
      /\ IF Rest(r, s) = 0
         THEN x.out = Silence /\ Rest(x.reader, x.shifter) = 0
         ELSE /\ x.out = Coming(r, s, b, 1)
              /\ Rest(x.reader, x.shifter) = Rest(r, s) - 1
              /\ \A j \in Nat \ {0} : Coming(x.reader, x.shifter, b, j) = Coming(r, s, b, j + 1)
  BY <1>1, ShiftedIs
<1>3. /\ f.out = IF e.active /\ e.rendered = e.end THEN Silence ELSE x.out
      /\ f.reader = x.reader /\ f.shifter = x.shifter
      /\ f.envelope = IF e.active /\ e.rendered < e.end THEN [e EXCEPT !.rendered = @ + 1] ELSE e
  BY DEF fill_buffer
<1>4. /\ e.active \in BOOLEAN /\ e.end \in Nat /\ e.rendered \in Nat /\ e.rendered <= e.end
      /\ e \in Envelope /\ d \in Seq(Block)
      /\ r.count \in 0..MaxBlocks /\ r.pos \in 0..r.count /\ MaxBlocks \in Nat
  BY VoiceParts
<1>5. Rest(r, s) \in Nat /\ Len(d) \in Nat
  <2>1. Len(d) \in Nat
    BY <1>4, LenProperties
  <2>2. Rest(r, s) \in Nat
    BY <1>4 DEF Rest
  <2> QED BY <2>1, <2>2
<1> HIDE DEF f, x, b, r, s, e, d
<1>6. CASE d = << >>
  <2>1. Len(d) = 0 /\ Consumed(d) = << >> /\ Len(Consumed(d)) = 0
    BY <1>6 DEF Consumed
  <2>2. CASE e.active
    <3>1. e.rendered = e.end
      BY <1>1, <1>4, <2>1, <2>2
    <3>2. f.out = Silence /\ f.envelope = e
      BY <1>3, <1>4, <2>2, <3>1
    <3>3. Rest(f.reader, f.shifter) \in Nat
      BY <1>2, <1>3, <1>5
    <3>4. InStep(f.reader, f.shifter, f.envelope, b, Consumed(d))
      <4>1. Len(Consumed(d)) = f.envelope.end - f.envelope.rendered
        BY <1>4, <2>1, <3>1, <3>2
      <4>2. f.envelope.active /\ Len(Consumed(d)) <= Rest(f.reader, f.shifter)
        BY <2>1, <2>2, <3>2, <3>3
      <4>3. \A j \in 1..Len(Consumed(d)) : Consumed(d)[j] = Coming(f.reader, f.shifter, b, j)
        BY <2>1
      <4> QED BY <1>1, <1>2, <1>3, <4>1, <4>2, <4>3 DEF InStep
    <3> QED BY <1>6, <3>2, <3>4 DEF f, b, d
  <2>3. CASE ~e.active
    <3>1. Rest(r, s) = 0
      BY <1>1, <2>1, <2>3
    <3>2. f.out = Silence /\ f.envelope = e /\ Rest(f.reader, f.shifter) = 0
      BY <1>2, <1>3, <2>3, <3>1
    <3>3. InStep(f.reader, f.shifter, f.envelope, b, Consumed(d))
      <4>1. Len(Consumed(d)) = Rest(f.reader, f.shifter) /\ ~f.envelope.active
            /\ Len(Consumed(d)) <= Rest(f.reader, f.shifter)
        BY <2>1, <2>3, <3>2
      <4>3. \A j \in 1..Len(Consumed(d)) : Consumed(d)[j] = Coming(f.reader, f.shifter, b, j)
        BY <2>1
      <4> QED BY <1>1, <1>2, <1>3, <4>1, <4>3 DEF InStep
    <3> QED BY <1>6, <3>2, <3>3 DEF f, b, d
  <2> QED BY <2>2, <2>3
<1>7. CASE d # << >>
  <2>1. /\ Len(d) \in Nat \ {0} /\ Consumed(d) = Tail(d) /\ Len(Tail(d)) = Len(d) - 1
        /\ Head(d) = d[1] /\ \A j \in 1..Len(Tail(d)) : Tail(d)[j] = d[j + 1]
    BY <1>4, <1>5, <1>7, HeadTailProperties, EmptySeq DEF Consumed
  <2>2. Rest(r, s) # 0
    BY <1>1, <1>5, <2>1
  <2>3. x.out = Head(d)
    <3>1. 1 \in 1..Len(d)
      BY <2>1
    <3> QED BY <1>1, <1>2, <2>1, <2>2, <3>1
  <2>4. \A j \in 1..Len(Consumed(d)) : Consumed(d)[j] = Coming(f.reader, f.shifter, b, j)
    <3> TAKE j \in 1..Len(Consumed(d))
    <3>1. j \in Nat \ {0} /\ j + 1 \in 1..Len(d) /\ j \in 1..Len(Tail(d))
      BY <2>1
    <3> QED BY <1>1, <1>2, <1>3, <2>1, <2>2, <3>1
  <2>5. CASE e.active
    <3>1. e.rendered < e.end
      BY <1>1, <1>4, <2>1, <2>5
    <3>2. f.out = Head(d) /\ f.envelope = [e EXCEPT !.rendered = @ + 1]
      BY <1>3, <1>4, <2>3, <2>5, <3>1
    <3>3. f.envelope.active /\ f.envelope.end - f.envelope.rendered = Len(Consumed(d))
      BY <1>1, <1>4, <2>1, <2>5, <3>2 DEF Envelope
    <3>4. Len(Consumed(d)) <= Rest(f.reader, f.shifter)
      BY <1>1, <1>2, <1>3, <1>5, <2>1, <2>2
    <3>5. InStep(f.reader, f.shifter, f.envelope, b, Consumed(d))
      BY <1>1, <1>2, <1>3, <2>4, <3>3, <3>4 DEF InStep
    <3> QED BY <1>7, <3>2, <3>5 DEF f, b, d
  <2>6. CASE ~e.active
    <3>1. f.out = Head(d) /\ f.envelope = e
      BY <1>3, <2>3, <2>6
    <3>2. Len(Consumed(d)) = Rest(f.reader, f.shifter)
      BY <1>1, <1>2, <1>3, <1>5, <2>1, <2>2, <2>6
    <3>3. InStep(f.reader, f.shifter, f.envelope, b, Consumed(d))
      BY <1>1, <1>2, <1>3, <1>5, <2>1, <2>4, <2>6, <3>1, <3>2 DEF InStep
    <3> QED BY <1>7, <3>1, <3>3 DEF f, b, d
  <2> QED BY <2>5, <2>6
<1> QED BY <1>6, <1>7

-----------------------------------------------------------------------------
\* A file's contents, and a copy of them.
LEMMA ContentsAre ==
    ASSUME VoiceTypes, NEW s \in Samples
    PROVE  /\ Contents(s) \in Seq(Block) /\ Len(Contents(s)) = sampleFile[s].length
           /\ sampleFile[s].length \in 0..MaxBlocks /\ sampleFile[s].version \in 0..MaxUploads
           /\ \A i \in 1..sampleFile[s].length : Contents(s)[i] = <<s, sampleFile[s].version, i>>
<1>1. sampleFile[s].length \in 0..MaxBlocks /\ sampleFile[s].version \in 0..MaxUploads
  BY DEF VoiceTypes
<1>2. ASSUME NEW i \in 1..sampleFile[s].length PROVE <<s, sampleFile[s].version, i>> \in Block
  <2>1. i \in 1..MaxBlocks
    BY <1>1, BlocksAssumption
  <2> QED BY <1>1, <2>1, BlockIs
<1>3. Contents(s) \in [1..sampleFile[s].length -> Block]
  BY <1>2 DEF Contents
<1>4. sampleFile[s].length \in Nat
  BY <1>1, BlocksAssumption
<1>5. Contents(s) \in Seq(Block) /\ Len(Contents(s)) = sampleFile[s].length
  BY <1>3, <1>4, SeqDef, LenProperties
<1>6. \A i \in 1..sampleFile[s].length : Contents(s)[i] = <<s, sampleFile[s].version, i>>
  BY DEF Contents
<1> QED BY <1>1, <1>5, <1>6

LEMMA CopiedTypes ==
    ASSUME NEW buffer \in [1..MaxBlocks -> Block], NEW blocks \in Seq(Block), NEW upTo \in Nat
    PROVE  /\ Copied(buffer, blocks, upTo) \in [1..MaxBlocks -> Block]
           /\ blocks = << >> => Copied(buffer, blocks, upTo) = buffer
<1>1. ASSUME NEW i \in 1..MaxBlocks, i <= Len(blocks) PROVE blocks[i] \in Block
  <2>1. Len(blocks) \in Nat /\ \A j \in 1..Len(blocks) : blocks[j] \in Block
    BY ElementOfSeq, LenProperties
  <2>2. i \in 1..Len(blocks)
    BY <1>1, <2>1, BlocksAssumption
  <2> QED BY <2>1, <2>2
<1>2. Copied(buffer, blocks, upTo) \in [1..MaxBlocks -> Block]
  BY <1>1 DEF Copied
<1>3. ASSUME blocks = << >> PROVE Copied(buffer, blocks, upTo) = buffer
  <2>1. \A i \in 1..MaxBlocks : ~(i <= Len(blocks))
    BY <1>3, BlocksAssumption
  <2> QED BY <2>1 DEF Copied
<1> QED BY <1>2, <1>3

LEMMA CopiedIs ==
    ASSUME VoiceTypes, NEW s \in Samples, NEW buffer \in [1..MaxBlocks -> Block],
           NEW i \in 1..sampleFile[s].length
    PROVE  Copied(buffer, Contents(s), MaxBlocks)[i] = <<s, sampleFile[s].version, i>>
<1>1. i \in 1..MaxBlocks /\ i <= Len(Contents(s)) /\ i <= MaxBlocks
  BY ContentsAre, BlocksAssumption
<1> QED BY <1>1, ContentsAre DEF Copied

\* What a note asks for is what a reader at the beginning will play.
LEMMA AskedIs ==
    ASSUME VoiceTypes, NEW v \in VoiceIds, NEW speed \in Speeds, slot[v].length # 0,
           NEW r \in Reader, r.count = slot[v].length, r.pos = 0,
           NEW s \in Shifter, s.speed = speed, s.held = Silence
    PROVE  /\ Asked(v, speed) \in Seq(Block) /\ Len(Asked(v, speed)) = Rest(r, s)
           /\ Rest(r, s) \in Nat \ {0}
           /\ \A j \in 1..Rest(r, s) : Asked(v, speed)[j] = Coming(r, s, slot[v].buffer, j)
           /\ EndOfDecay(v, speed) \in 1..Rest(r, s)
<1> DEFINE b == slot[v].buffer  n == slot[v].length  blocks == SubSeq(b, 1, n)
<1>1. n \in 1..MaxBlocks /\ b \in [1..MaxBlocks -> Block] /\ MaxBlocks \in Nat
  BY VoiceParts
<1>2. b \in Seq(Block) /\ Len(b) = MaxBlocks
  BY <1>1, SeqDef, LenProperties
<1>3. blocks \in Seq(Block) /\ Len(blocks) = n /\ \A i \in 1..n : blocks[i] = b[i] /\ b[i] \in Block
  BY <1>1, <1>2, SubSeqProperties
<1> DEFINE a == Asked(v, speed)
<1>4. /\ a \in Seq(Block) /\ Len(a) = Rest(r, s) /\ Rest(r, s) \in Nat \ {0}
      /\ \A j \in 1..Rest(r, s) : a[j] = Coming(r, s, b, j)
  <2>1. CASE speed = "unit"
    <3>1. a = blocks
      BY <2>1 DEF Asked
    <3>2. Rest(r, s) = n - 0 /\ \A j : Coming(r, s, b, j) = b[0 + j]
      BY <2>1 DEF Rest, Coming
    <3> HIDE DEF a, blocks, b, n
    <3>3. Rest(r, s) = n
      BY <1>1, <3>2
    <3> QED BY <1>1, <1>3, <3>1, <3>2, <3>3
  <2>2. CASE speed = "half"
    <3>1. a = [i \in 1..2 * n |-> blocks[(i + 1) \div 2]]
      BY <1>3, <2>2 DEF Asked
    <3>2. Rest(r, s) = 2 * (n - 0) + 0 /\ \A j : Coming(r, s, b, j) = b[0 + ((j + 1) \div 2)]
      BY <2>2 DEF Rest, Coming
    <3> HIDE DEF a, blocks, b, n
    <3>3. Rest(r, s) = 2 * n /\ 2 * n \in Nat
      BY <1>1, <3>2
    <3>4. ASSUME NEW j \in 1..2 * n
          PROVE  (j + 1) \div 2 \in 1..n /\ 0 + ((j + 1) \div 2) = (j + 1) \div 2
      BY <1>1
    <3>5. a \in [1..2 * n -> Block]
      BY <1>3, <3>1, <3>4
    <3>6. a \in Seq(Block) /\ Len(a) = 2 * n
      BY <3>3, <3>5, SeqDef, LenProperties
    <3>7. \A j \in 1..2 * n : a[j] = Coming(r, s, b, j)
      BY <1>3, <3>1, <3>2, <3>4
    <3> QED BY <1>1, <3>3, <3>6, <3>7
  <2> QED BY <2>1, <2>2 DEF Speeds
<1>5. EndOfDecay(v, speed) = LET half == Len(a) \div 2 IN IF half = 0 THEN 1 ELSE half
  BY DEF EndOfDecay
<1> HIDE DEF a
<1>6. EndOfDecay(v, speed) \in 1..Rest(r, s)
  BY <1>4, <1>5
<1> QED BY <1>4, <1>6 DEF a, b

-----------------------------------------------------------------------------
LEMMA VoicesInitInv ==
    ASSUME VoicesInit PROVE VoicesInv
<1>1. MaxBlocks \in Nat \ {0} /\ MaxUploads \in Nat
  BY BlocksAssumption, UploadsAssumption
<1>2. PICK c \in [VoiceIds -> Samples \cup {NoSample}] :
        slot = [v \in VoiceIds |->
                    IF c[v] = NoSample THEN Empty
                    ELSE [sample |-> c[v], length |-> sampleFile[c[v]].length,
                          buffer |-> Copied(Empty.buffer, Contents(c[v]), MaxBlocks)]]
  BY DEF VoicesInit
<1>3. /\ sampleFile \in [Samples -> [version : 0..MaxUploads, length : 0..MaxBlocks, whole : BOOLEAN]]
      /\ uploading \in Samples \cup {NoSample}
      /\ reader \in [VoiceIds -> Reader] /\ shifter \in [VoiceIds -> Shifter]
      /\ envelope \in [VoiceIds -> Envelope] /\ due \in [VoiceIds -> Seq(Block)] /\ main = Idle
  <2>1. sampleFile \in [Samples -> [version : 0..MaxUploads, length : 0..MaxBlocks, whole : BOOLEAN]]
    <3>1. sampleFile \in [Samples -> [version : {0}, length : 1..MaxBlocks, whole : {TRUE}]]
      BY DEF VoicesInit
    <3>2. 0 \in 0..MaxUploads /\ 1..MaxBlocks \subseteq 0..MaxBlocks
      BY <1>1
    <3>3. [version : {0}, length : 1..MaxBlocks, whole : {TRUE}]
             \subseteq [version : 0..MaxUploads, length : 0..MaxBlocks, whole : BOOLEAN]
      BY <3>2
    <3> QED BY <3>1, <3>3
  <2>2. shifter \in [VoiceIds -> Shifter]
    BY SilenceIs DEF VoicesInit, Shifter, Speeds
  <2>3. reader \in [VoiceIds -> Reader]
    BY <1>1 DEF VoicesInit, Reader
  <2>4. envelope \in [VoiceIds -> Envelope]
    BY DEF VoicesInit, Envelope
  <2> QED BY <2>1, <2>2, <2>3, <2>4 DEF VoicesInit
<1>4. Empty.buffer \in [1..MaxBlocks -> Block] /\ Empty \in Slot /\ Empty.length = 0
  BY <1>1, SilenceIs DEF Empty, Slot
<1>5. ASSUME NEW s \in Samples
      PROVE  /\ Contents(s) \in Seq(Block) /\ sampleFile[s].length \in 0..MaxBlocks
             /\ Copied(Empty.buffer, Contents(s), MaxBlocks) \in [1..MaxBlocks -> Block]
  <2>1. sampleFile[s].length \in 0..MaxBlocks /\ sampleFile[s].version \in 0..MaxUploads
    BY <1>3
  <2>2. ASSUME NEW i \in 1..sampleFile[s].length PROVE <<s, sampleFile[s].version, i>> \in Block
    <3>1. i \in 1..MaxBlocks
      BY <1>1, <2>1
    <3> QED BY <2>1, <3>1, BlockIs
  <2>3. Contents(s) \in [1..sampleFile[s].length -> Block] /\ sampleFile[s].length \in Nat
    BY <1>1, <2>1, <2>2 DEF Contents
  <2>4. Contents(s) \in Seq(Block)
    BY <2>3, SeqDef
  <2> QED BY <1>1, <1>4, <2>1, <2>4, CopiedTypes
<1>6. slot \in [VoiceIds -> Slot]
  <2>1. ASSUME NEW v \in VoiceIds PROVE slot[v] \in Slot
    <3>1. CASE c[v] = NoSample
      BY <1>2, <1>4, <3>1
    <3>2. CASE c[v] # NoSample
      <4>1. c[v] \in Samples
        BY <3>2
      <4> QED BY <1>2, <1>5, <3>2, <4>1 DEF Slot
    <3> QED BY <3>1, <3>2
  <2> QED BY <1>2, <2>1
<1>7. VoiceTypes
  BY <1>3, <1>6 DEF VoiceTypes
<1>8. MainOrder
  BY SamplesAssumption DEF VoicesInit, MainOrder, Idle
<1>9. SlotsKept
  <2> SUFFICES ASSUME NEW v \in VoiceIds PROVE SlotWhole(slot[v]) /\ SlotFresh(slot[v])
    BY DEF SlotsKept
  <2>1. CASE c[v] = NoSample
    <3>1. slot[v] = Empty
      BY <1>2, <2>1
    <3>2. SlotFresh(slot[v])
      BY <3>1 DEF SlotFresh, Empty
    <3> QED BY <1>4, <3>1, <3>2 DEF SlotWhole
  <2>2. CASE c[v] # NoSample
    <3>1. c[v] \in Samples
      BY <2>2
    <3>2. /\ slot[v].sample = c[v] /\ slot[v].length = sampleFile[c[v]].length
          /\ slot[v].buffer = Copied(Empty.buffer, Contents(c[v]), MaxBlocks)
      BY <1>2, <2>2
    <3>3. \A i \in 1..slot[v].length : slot[v].buffer[i] = <<c[v], sampleFile[c[v]].version, i>>
      BY <1>4, <1>7, <3>1, <3>2, CopiedIs
    <3>4. sampleFile[c[v]].version \in 0..MaxUploads
      BY <1>7, <3>1, ContentsAre
    <3>5. SlotWhole(slot[v])
      BY <3>1, <3>3, <3>4 DEF SlotWhole
    <3>6. SlotFresh(slot[v])
      BY <3>2, <3>3 DEF SlotFresh
    <3> QED BY <3>5, <3>6
  <2> QED BY <2>1, <2>2
<1>10. VoicesInStep
  <2>1. ASSUME NEW v \in VoiceIds
        PROVE  InStep(reader[v], shifter[v], envelope[v], slot[v].buffer, due[v])
    <3>1. /\ reader[v] = [count |-> 0, pos |-> 0] /\ shifter[v] = [speed |-> "unit", held |-> Silence]
          /\ envelope[v] = [active |-> FALSE, end |-> 0, rendered |-> 0] /\ due[v] = << >>
      BY DEF VoicesInit
    <3>2. Rest(reader[v], shifter[v]) = 0 /\ Len(due[v]) = 0
      BY <3>1 DEF Rest
    <3>3. ~envelope[v].active /\ shifter[v].held = Silence /\ reader[v].count = 0
      BY <3>1
    <3> QED BY <3>2, <3>3 DEF InStep
  <2>2. main.pc # "starting"
    BY <1>3 DEF Idle
  <2> QED BY <2>1, <2>2 DEF VoicesInStep
<1> QED BY <1>7, <1>8, <1>9, <1>10 DEF VoicesInv

-----------------------------------------------------------------------------
\* Who is out of step, and whose buffer is being replaced, does not change
\* when the program counter, the slots and the staging buffer do not.
LEMMA RenderKeeps ==
    ASSUME VoicesInv, Render PROVE VoicesInv'
<1>1. VoiceTypes'
  <2>1. \A v \in VoiceIds : /\ fill_buffer(v).reader \in Reader /\ fill_buffer(v).shifter \in Shifter
                            /\ fill_buffer(v).envelope \in Envelope
                            /\ Consumed(due[v]) \in Seq(Block)
    BY FillTypes DEF VoicesInv
  <2>2. due' = [v \in VoiceIds |-> Consumed(due[v])]
    BY DEF Render, Consumed
  <2>3. reader' \in [VoiceIds -> Reader] /\ shifter' \in [VoiceIds -> Shifter]
        /\ envelope' \in [VoiceIds -> Envelope] /\ due' \in [VoiceIds -> Seq(Block)]
    BY <2>1, <2>2 DEF Render
  <2> QED BY <2>3 DEF VoicesInv, VoiceTypes, Render
<1>2. MainOrder'
  BY DEF VoicesInv, MainOrder, Render, Staged, Contents
<1>3. SlotsKept'
  BY DEF VoicesInv, SlotsKept, Render, Replacing, SlotWhole, SlotFresh
<1>4. VoicesInStep'
  <2>1. main.pc # "starting"
    BY DEF VoicesInv, MainOrder, Render
  <2>2. ASSUME NEW v \in VoiceIds, ~OutOfStep(v)
        PROVE  InStep(reader'[v], shifter'[v], envelope'[v], slot[v].buffer, due'[v])
    <3>1. InStep(reader[v], shifter[v], envelope[v], slot[v].buffer, due[v])
      BY <2>2 DEF VoicesInv, VoicesInStep
    <3>2. /\ reader'[v] = fill_buffer(v).reader /\ shifter'[v] = fill_buffer(v).shifter
          /\ envelope'[v] = fill_buffer(v).envelope /\ due'[v] = Consumed(due[v])
      BY DEF Render, Consumed
    <3>3. InStep(fill_buffer(v).reader, fill_buffer(v).shifter, fill_buffer(v).envelope,
                 slot[v].buffer, Consumed(due[v]))
      BY <3>1, FillIs DEF VoicesInv
    <3> QED BY <3>2, <3>3
  <2>3. UNCHANGED <<main, slot, staging>>
    BY DEF Render
  <2> QED BY <2>1, <2>2, <2>3 DEF VoicesInStep, OutOfStep
<1> QED BY <1>1, <1>2, <1>3, <1>4 DEF VoicesInv

LEMMA VoicePlayKeeps ==
    ASSUME VoicesInv, NEW v \in VoiceIds, NEW s \in Samples, Play(v, s) PROVE VoicesInv'
<1>1. PICK speed \in Speeds, decay \in Decays, opens \in BOOLEAN :
         LET loads == ~voice_has_sample(v, s) /\ opens
         IN /\ main' = [pc |-> IF loads THEN "commit" ELSE "start",
                        voice |-> v, sample |-> s, speed |-> speed, decay |-> decay]
            /\ staging' = IF loads THEN Staged(s) ELSE staging
  BY DEF Play
<1>2. main.pc = "idle" /\ uploading = NoSample
      /\ UNCHANGED <<sampleFile, uploading, slot, reader, shifter, envelope, irqs, due>>
  BY DEF Play
<1>3. /\ main'.pc \in {"commit", "start"} /\ main'.sample = s /\ main' \in Playing
      /\ main'.pc = "commit" => staging' = Staged(s)
  BY <1>1 DEF Playing
<1>8. main'.pc # "idle" /\ main'.pc \notin {"committing", "starting", "replaced"}
  BY <1>3
<1>4. VoiceTypes'
  <2>1. VoiceTypes
    BY DEF VoicesInv
  <2> QED BY <1>2, <1>3, <2>1 DEF VoiceTypes
<1>5. MainOrder'
  <2>1. (main.pc = "commit" => staging = Staged(main.sample))'
    BY <1>2, <1>3 DEF Staged, Contents
  <2>2. irqs'
    BY <1>2 DEF VoicesInv, MainOrder
  <2> QED BY <1>2, <1>8, <2>1, <2>2 DEF MainOrder
<1>6. SlotsKept'
  BY <1>2, <1>3 DEF VoicesInv, SlotsKept, Replacing, SlotWhole, SlotFresh
<1>7. VoicesInStep'
  <2>1. \A w \in VoiceIds : InStep(reader[w], shifter[w], envelope[w], slot[w].buffer, due[w])
    BY <1>2 DEF VoicesInv, VoicesInStep, OutOfStep
  <2>2. \A w \in VoiceIds :
           InStep(reader[w], shifter[w], envelope[w], slot[w].buffer, due[w])'
    BY <1>2, <2>1 DEF InStep, Rest, Coming
  <2> QED BY <1>8, <2>2 DEF VoicesInStep
<1> QED BY <1>4, <1>5, <1>6, <1>7 DEF VoicesInv

LEMMA PlayingParts ==
    ASSUME VoicesInv, main.pc # "idle"
    PROVE  /\ main \in Playing /\ main.voice \in VoiceIds /\ main.sample \in Samples
           /\ main.speed \in Speeds /\ main.decay \in Decays
  BY DEF VoicesInv, VoiceTypes, Idle, Playing

LEMMA CommitBeginsKeeps ==
    ASSUME VoicesInv, CommitBegins PROVE VoicesInv'
<1> DEFINE v == main.voice  b == Copied(slot[v].buffer, staging.blocks, 1)
<1>1. main.pc = "commit" /\ main' = [main EXCEPT !.pc = "committing"] /\ irqs' = FALSE
      /\ UNCHANGED <<sampleFile, uploading, staging, reader, shifter, envelope, due>>
      /\ slot' = [slot EXCEPT ![v].buffer = b]
  BY DEF CommitBegins, At
<1>2. main \in Playing /\ v \in VoiceIds /\ main.sample \in Samples
  BY <1>1, PlayingParts
<1>3. main' \in Playing /\ main'.pc = "committing" /\ main'.voice = v /\ main'.sample = main.sample
  BY <1>1, <1>2 DEF Playing
<1>4. staging.blocks = Contents(main.sample) /\ staging.blocks \in Seq(Block)
  BY <1>1, <1>2, ContentsAre DEF VoicesInv, MainOrder, Staged
<1>5. /\ b \in [1..MaxBlocks -> Block]
      /\ staging.blocks = << >> => b = slot[v].buffer
  BY <1>2, <1>4, VoiceParts, CopiedTypes DEF VoicesInv
<1>6. slot \in [VoiceIds -> Slot]
  BY DEF VoicesInv, VoiceTypes
<1> HIDE DEF b, v
<1>7. slot' \in [VoiceIds -> Slot] /\ slot'[v].buffer = b /\ slot'[v].length = slot[v].length
      /\ \A w \in VoiceIds \ {v} : slot'[w] = slot[w]
  <2>1. slot' = [slot EXCEPT ![v] = [slot[v] EXCEPT !.buffer = b]]
    BY <1>1, <1>2, <1>6
  <2>2. [slot[v] EXCEPT !.buffer = b] \in Slot /\ [slot[v] EXCEPT !.buffer = b].buffer = b
        /\ [slot[v] EXCEPT !.buffer = b].length = slot[v].length
    BY <1>2, <1>5, <1>6 DEF Slot
  <2> QED BY <1>2, <1>6, <2>1, <2>2
<1>8. VoiceTypes'
  BY <1>1, <1>3, <1>7 DEF VoicesInv, VoiceTypes
<1>9. MainOrder'
  BY <1>1, <1>3 DEF VoicesInv, MainOrder, Staged, Contents
<1>10. SlotsKept'
  <2> SUFFICES ASSUME NEW w \in VoiceIds, w # v PROVE (SlotWhole(slot[w]) /\ SlotFresh(slot[w]))'
    BY <1>3 DEF SlotsKept, Replacing
  <2>1. SlotWhole(slot[w]) /\ SlotFresh(slot[w])
    BY <1>1 DEF VoicesInv, SlotsKept, Replacing
  <2>2. slot'[w] = slot[w]
    BY <1>7
  <2> QED BY <1>1, <2>1, <2>2 DEF SlotWhole, SlotFresh
<1>11. VoicesInStep'
  <2>1. ASSUME NEW w \in VoiceIds, ~OutOfStep(w)'
        PROVE  InStep(reader[w], shifter[w], envelope[w], slot'[w].buffer, due[w])
    <3>1. InStep(reader[w], shifter[w], envelope[w], slot[w].buffer, due[w])
      BY <1>1 DEF VoicesInv, VoicesInStep, OutOfStep
    <3>2. CASE w # v
      BY <1>7, <3>1, <3>2
    <3>3. CASE w = v
      <4>1. staging.blocks = << >>
        BY <1>1, <1>3, <2>1, <3>3 DEF OutOfStep
      <4> QED BY <1>5, <1>7, <3>1, <3>3, <4>1
    <3> QED BY <3>2, <3>3
  <2> QED BY <1>1, <1>3, <2>1 DEF VoicesInStep
<1> QED BY <1>8, <1>9, <1>10, <1>11 DEF VoicesInv

LEMMA CommitEndsKeeps ==
    ASSUME VoicesInv, CommitEnds PROVE VoicesInv'
<1> DEFINE v == main.voice  s == main.sample  b == Copied(slot[v].buffer, staging.blocks, MaxBlocks)
           l == [sample |-> s, length |-> sampleFile[s].length, buffer |-> b]
<1>1. /\ main.pc = "committing" /\ main' = [main EXCEPT !.pc = "replaced"]
      /\ staging' = NotStaged /\ irqs' = TRUE
      /\ UNCHANGED <<sampleFile, uploading, reader, shifter, envelope, due>>
      /\ slot' = [slot EXCEPT ![v] = [sample |-> staging.sample, length |-> Len(staging.blocks), buffer |-> b]]
  BY DEF CommitEnds, At
<1>2. main \in Playing /\ v \in VoiceIds /\ s \in Samples
  BY <1>1, PlayingParts
<1>3. main' \in Playing /\ main'.pc = "replaced" /\ main'.voice = v
  BY <1>1, <1>2 DEF Playing
<1>4. /\ staging.sample = s /\ staging.blocks = Contents(s) /\ staging.blocks \in Seq(Block)
      /\ Len(staging.blocks) = sampleFile[s].length /\ sampleFile[s].length \in 0..MaxBlocks
      /\ sampleFile[s].version \in 0..MaxUploads
  BY <1>1, <1>2, ContentsAre DEF VoicesInv, MainOrder, Staged
<1>5. /\ b \in [1..MaxBlocks -> Block]
      /\ staging.blocks = << >> => b = slot[v].buffer
      /\ \A i \in 1..sampleFile[s].length : b[i] = <<s, sampleFile[s].version, i>>
  <2>1. MaxBlocks \in Nat /\ slot[v].buffer \in [1..MaxBlocks -> Block] /\ VoiceTypes
    BY <1>2, BlocksAssumption, VoiceParts DEF VoicesInv
  <2>2. \A i \in 1..sampleFile[s].length : b[i] = <<s, sampleFile[s].version, i>>
    BY <1>2, <1>4, <2>1, CopiedIs
  <2>3. /\ b \in [1..MaxBlocks -> Block]
        /\ staging.blocks = << >> => b = slot[v].buffer
    BY <1>4, <2>1, CopiedTypes
  <2> QED BY <2>2, <2>3
<1>6. slot \in [VoiceIds -> Slot]
  BY DEF VoicesInv, VoiceTypes
<1> HIDE DEF b, v, s
<1>7. l \in Slot /\ l.sample = s /\ l.length = sampleFile[s].length /\ l.buffer = b
  BY <1>2, <1>4, <1>5 DEF Slot
<1>8. slot' = [slot EXCEPT ![v] = l]
  BY <1>1, <1>4
<1> HIDE DEF l
<1>9. /\ slot' \in [VoiceIds -> Slot] /\ slot'[v] = l
      /\ \A w \in VoiceIds \ {v} : slot'[w] = slot[w]
  BY <1>2, <1>6, <1>7, <1>8
<1>10. VoiceTypes'
  BY <1>1, <1>3, <1>9 DEF VoicesInv, VoiceTypes
<1>11. MainOrder'
  BY <1>1, <1>3 DEF VoicesInv, MainOrder
<1>12. SlotsKept'
  <2> SUFFICES ASSUME NEW w \in VoiceIds PROVE (SlotWhole(slot[w]) /\ SlotFresh(slot[w]))'
    BY DEF SlotsKept
  <2>1. CASE w # v
    <3>1. SlotWhole(slot[w]) /\ SlotFresh(slot[w])
      BY <2>1 DEF VoicesInv, SlotsKept, Replacing, v
    <3>2. slot'[w] = slot[w]
      BY <1>9, <2>1
    <3> QED BY <1>1, <3>1, <3>2 DEF SlotWhole, SlotFresh
  <2>2. CASE w = v
    <3>1. SlotWhole(l)
      BY <1>2, <1>4, <1>5, <1>7 DEF SlotWhole
    <3>2. SlotFresh(l)
      BY <1>5, <1>7 DEF SlotFresh
    <3> QED BY <1>1, <1>9, <2>2, <3>1, <3>2 DEF SlotWhole, SlotFresh
  <2> QED BY <2>1, <2>2
<1>13. VoicesInStep'
  <2>1. ASSUME NEW w \in VoiceIds, ~OutOfStep(w)'
        PROVE  InStep(reader[w], shifter[w], envelope[w], slot'[w].buffer, due[w])
    <3>1. CASE w # v
      <4>1. ~OutOfStep(w)
        BY <3>1 DEF OutOfStep, v
      <4> QED BY <1>9, <2>1, <3>1, <4>1 DEF VoicesInv, VoicesInStep
    <3>2. CASE w = v
      <4>1. slot'[w].length = 0
        BY <1>3, <2>1, <3>2 DEF OutOfStep
      <4>2. Len(staging.blocks) = 0
        BY <1>4, <1>7, <1>9, <3>2, <4>1
      <4>3. staging.blocks = << >>
        BY <1>4, <4>2, EmptySeq
      <4>4. ~OutOfStep(w)
        BY <1>1, <4>3 DEF OutOfStep
      <4> QED BY <1>5, <1>7, <1>9, <3>2, <4>3, <4>4 DEF VoicesInv, VoicesInStep
    <3> QED BY <3>1, <3>2
  <2> QED BY <1>1, <1>3, <2>1 DEF VoicesInStep
<1> QED BY <1>10, <1>11, <1>12, <1>13 DEF VoicesInv

LEMMA NothingToPlayKeeps ==
    ASSUME VoicesInv, NothingToPlay PROVE VoicesInv'
<1>1. /\ main.pc \in {"start", "replaced"} /\ slot[main.voice].length = 0 /\ main' = Idle
      /\ UNCHANGED <<sampleFile, uploading, slot, staging, reader, shifter, envelope, irqs, due>>
  BY DEF NothingToPlay
<1>2. main'.pc = "idle"
  BY <1>1 DEF Idle
<1>3. VoiceTypes'
  BY <1>1 DEF VoicesInv, VoiceTypes
<1>4. MainOrder'
  BY <1>1, <1>2 DEF VoicesInv, MainOrder
<1>5. SlotsKept'
  BY <1>1, <1>2 DEF VoicesInv, SlotsKept, Replacing, SlotWhole, SlotFresh
<1>6. VoicesInStep'
  <2>1. \A w \in VoiceIds : InStep(reader[w], shifter[w], envelope[w], slot[w].buffer, due[w])
    BY <1>1 DEF VoicesInv, VoicesInStep, OutOfStep
  <2> QED BY <1>1, <1>2, <2>1 DEF VoicesInStep
<1> QED BY <1>3, <1>4, <1>5, <1>6 DEF VoicesInv

LEMMA StartKeeps ==
    ASSUME VoicesInv, Start PROVE VoicesInv'
<1> DEFINE v == main.voice  a == Asked(v, main.speed)
           r == [count |-> slot[v].length, pos |-> 0]  s == [speed |-> main.speed, held |-> Silence]
           e == [active |-> main.decay # "none", end |-> EndOfDecay(v, main.speed), rendered |-> 0]
           n == IF main.decay = "none" THEN Len(a) ELSE EndOfDecay(v, main.speed)
           d == SubSeq(a, 1, n)
<1>1. /\ main.pc \in {"start", "replaced"} /\ slot[v].length # 0
      /\ main' = [main EXCEPT !.pc = "starting"] /\ irqs' = FALSE
      /\ UNCHANGED <<sampleFile, uploading, slot, staging, shifter>>
      /\ reader' = [reader EXCEPT ![v] = r] /\ envelope' = [envelope EXCEPT ![v] = e]
      /\ due' = [due EXCEPT ![v] = d]
  BY DEF Start, At
<1>2. main \in Playing /\ v \in VoiceIds /\ main.speed \in Speeds /\ VoiceTypes
  BY <1>1, PlayingParts DEF VoicesInv
<1>3. main' \in Playing /\ main'.pc = "starting" /\ main'.voice = v /\ main'.speed = main.speed
      /\ main'.sample = main.sample
  BY <1>1, <1>2 DEF Playing
<1>4. /\ slot[v].length \in 0..MaxBlocks /\ slot[v].length # 0
      /\ slot[v].buffer \in [1..MaxBlocks -> Block] /\ MaxBlocks \in Nat
  BY <1>1, <1>2, VoiceParts
<1>5. r \in Reader /\ r.count = slot[v].length /\ r.pos = 0
  BY <1>4 DEF Reader
<1>6. s \in Shifter /\ s.speed = main.speed /\ s.held = Silence
  BY <1>2, SilenceIs DEF Shifter
<1>7. /\ a \in Seq(Block) /\ Len(a) = Rest(r, s) /\ Rest(r, s) \in Nat \ {0}
      /\ \A j \in 1..Rest(r, s) : a[j] = Coming(r, s, slot[v].buffer, j)
      /\ EndOfDecay(v, main.speed) \in 1..Rest(r, s)
  <2> HIDE DEF r, s
  <2> QED BY <1>2, <1>4, <1>5, <1>6, AskedIs
<1>8. n \in 1..Rest(r, s) /\ n \in Nat
  <2> HIDE DEF a, r, s
  <2> QED BY <1>7
<1>9. d \in Seq(Block) /\ Len(d) = n /\ \A j \in 1..n : d[j] = a[j]
  <2> HIDE DEF a, r, s, n
  <2>1. 1 \in 1..Len(a) /\ n \in 1..Len(a)
    BY <1>7, <1>8
  <2> QED BY <1>7, <1>8, <2>1, SubSeqProperties
<1>10. e \in Envelope /\ e.active = (main.decay # "none") /\ e.end = EndOfDecay(v, main.speed) /\ e.rendered = 0
  <2> DEFINE o == main.decay # "none"
  <2>1. o \in BOOLEAN
    BY Zenon
  <2>2. e = [active |-> o, end |-> EndOfDecay(v, main.speed), rendered |-> 0]
    BY Zenon
  <2>3. EndOfDecay(v, main.speed) \in Nat
    <3> HIDE DEF r, s, a
    <3> QED BY <1>7
  <2> HIDE DEF o, e
  <2>4. e \in Envelope /\ e.active = o /\ e.end = EndOfDecay(v, main.speed) /\ e.rendered = 0
    BY <2>1, <2>2, <2>3 DEF Envelope
  <2> QED BY <2>4 DEF o
<1>11. \A i \in 1..slot[v].length : slot[v].buffer[i] # Silence
  <2>1. SlotWhole(slot[v])
    BY <1>1, <1>2 DEF VoicesInv, SlotsKept, Replacing
  <2>2. PICK t \in Samples, m \in 0..MaxUploads :
            \A i \in 1..slot[v].length : slot[v].buffer[i] = <<t, m, i>>
    BY <1>4, <2>1 DEF SlotWhole
  <2>3. \A i \in 1..slot[v].length : i \in 1..MaxBlocks
    BY <1>4
  <2> QED BY <2>2, <2>3, BlockIs
<1>12. InStep(r, s, e, slot[v].buffer, d)
  <2>1. Len(d) = IF e.active THEN e.end - e.rendered ELSE Rest(r, s)
    <3> HIDE DEF r, s, a, e, d
    <3>1. EndOfDecay(v, main.speed) - 0 = EndOfDecay(v, main.speed)
      BY <1>7
    <3> QED BY <1>7, <1>9, <1>10, <3>1
  <2> HIDE DEF r, s, a, e, d, n
  <2>2. Len(d) <= Rest(r, s) /\ \A j \in 1..Len(d) : d[j] = Coming(r, s, slot[v].buffer, j)
    BY <1>7, <1>8, <1>9
  <2> QED BY <1>5, <1>6, <1>11, <2>1, <2>2 DEF InStep
<1> HIDE DEF a, r, s, e, d, n, v
<1>13. /\ reader' \in [VoiceIds -> Reader] /\ envelope' \in [VoiceIds -> Envelope]
       /\ due' \in [VoiceIds -> Seq(Block)]
       /\ reader'[v] = r /\ envelope'[v] = e /\ due'[v] = d
       /\ \A w \in VoiceIds \ {v} : reader'[w] = reader[w] /\ envelope'[w] = envelope[w] /\ due'[w] = due[w]
  BY <1>1, <1>2, <1>5, <1>9, <1>10 DEF VoiceTypes
<1>14. VoiceTypes'
  BY <1>1, <1>2, <1>3, <1>13 DEF VoiceTypes
<1>15. MainOrder'
  BY <1>1, <1>3 DEF VoicesInv, MainOrder
<1>16. SlotsKept'
  BY <1>1, <1>3 DEF VoicesInv, SlotsKept, Replacing, SlotWhole, SlotFresh
<1>17. VoicesInStep'
  <2>1. ASSUME NEW w \in VoiceIds, ~OutOfStep(w)'
        PROVE  InStep(reader[w], shifter[w], envelope[w], slot[w].buffer, due[w])'
    <3>1. w # v
      BY <1>3, <2>1 DEF OutOfStep
    <3>2. ~OutOfStep(w)
      BY <3>1 DEF OutOfStep, v
    <3>3. InStep(reader[w], shifter[w], envelope[w], slot[w].buffer, due[w])
      BY <3>2 DEF VoicesInv, VoicesInStep
    <3> QED BY <1>1, <1>13, <3>1, <3>3
  <2>2. InStep(reader'[v], [speed |-> main'.speed, held |-> Silence], envelope'[v],
               slot'[v].buffer, due'[v])
    BY <1>1, <1>3, <1>12, <1>13 DEF s
  <2>3. reader'[v].pos = 0
    BY <1>5, <1>13
  <2> QED BY <1>3, <2>1, <2>2, <2>3 DEF VoicesInStep
<1> QED BY <1>14, <1>15, <1>16, <1>17 DEF VoicesInv

LEMMA SoundPlayKeeps ==
    ASSUME VoicesInv, SoundPlay PROVE VoicesInv'
<1> DEFINE v == main.voice  r == [reader[v] EXCEPT !.pos = 0]  s == Reset(shifter[v], main.speed)
<1>1. /\ main.pc = "starting" /\ main' = Idle /\ irqs' = TRUE
      /\ UNCHANGED <<sampleFile, uploading, slot, staging, envelope, due>>
      /\ shifter' = [shifter EXCEPT ![v] = s] /\ reader' = [reader EXCEPT ![v] = r]
  BY DEF SoundPlay
<1>2. v \in VoiceIds /\ main.speed \in Speeds /\ VoiceTypes /\ main'.pc = "idle"
  BY <1>1, PlayingParts DEF VoicesInv, Idle
<1>3. r \in Reader /\ r = reader[v]
  <2>1. reader[v] \in Reader /\ reader[v].pos = 0
    BY <1>1, <1>2, VoiceParts DEF VoicesInv, VoicesInStep
  <2> QED BY <2>1 DEF Reader
<1>4. s \in Shifter /\ s = [speed |-> main.speed, held |-> Silence]
  <2>1. shifter[v] \in Shifter
    BY <1>2, VoiceParts
  <2>2. ASSUME NEW h \in Shifter
        PROVE  [h EXCEPT !.speed = main.speed, !.held = Silence] = [speed |-> main.speed, held |-> Silence]
    <3> DEFINE k == [h EXCEPT !.speed = main.speed]  m == [speed |-> main.speed, held |-> Silence]
               g == [k EXCEPT !.held = Silence]
    <3>1. k \in Shifter /\ k.speed = main.speed
      BY <1>2 DEF Shifter
    <3> HIDE DEF k
    <3>2. g \in Shifter /\ g.speed = main.speed /\ g.held = Silence
      BY <3>1, SilenceIs DEF Shifter
    <3>3. m \in Shifter /\ m.speed = main.speed /\ m.held = Silence
      BY <1>2, SilenceIs DEF Shifter
    <3> HIDE DEF g, m
    <3>4. g = m
      BY <3>2, <3>3 DEF Shifter
    <3> QED BY <3>4 DEF g, m, k
  <2>3. s = [speed |-> main.speed, held |-> Silence]
    BY <2>1, <2>2 DEF Reset
  <2> QED BY <1>2, <2>3, SilenceIs DEF Shifter
<1> HIDE DEF r, s, v
<1>5. /\ reader' = reader /\ shifter' \in [VoiceIds -> Shifter]
      /\ shifter'[v] = s /\ \A w \in VoiceIds \ {v} : shifter'[w] = shifter[w]
  BY <1>1, <1>2, <1>3, <1>4 DEF VoiceTypes
<1>6. VoiceTypes'
  BY <1>1, <1>2, <1>5 DEF VoiceTypes
<1>7. MainOrder'
  BY <1>1, <1>2 DEF VoicesInv, MainOrder
<1>8. SlotsKept'
  BY <1>1, <1>2 DEF VoicesInv, SlotsKept, Replacing, SlotWhole, SlotFresh
<1>9. VoicesInStep'
  <2>1. ASSUME NEW w \in VoiceIds
        PROVE  InStep(reader[w], shifter[w], envelope[w], slot[w].buffer, due[w])'
    <3>1. CASE w # v
      <4>1. ~OutOfStep(w)
        BY <3>1 DEF OutOfStep, v
      <4>2. InStep(reader[w], shifter[w], envelope[w], slot[w].buffer, due[w])
        BY <4>1 DEF VoicesInv, VoicesInStep
      <4> QED BY <1>1, <1>5, <3>1, <4>2
    <3>2. CASE w = v
      <4>1. InStep(reader[v], s, envelope[v], slot[v].buffer, due[v])
        BY <1>1, <1>4 DEF VoicesInv, VoicesInStep, v
      <4> QED BY <1>1, <1>5, <3>2, <4>1
    <3> QED BY <3>1, <3>2
  <2> QED BY <1>2, <2>1 DEF VoicesInStep
<1> QED BY <1>6, <1>7, <1>8, <1>9 DEF VoicesInv

-----------------------------------------------------------------------------
\* There is a last version.
LEMMA UploadsIs ==
    ASSUME VoiceTypes, NEW s \in Samples
    PROVE  Uploads \in 0..MaxUploads
<1> DEFINE Above(k) == \A t \in Samples : sampleFile[t].version <= k
           Latest == \E n \in 0..MaxUploads :
                        /\ \E t \in Samples : sampleFile[t].version = n
                        /\ \A t \in Samples : sampleFile[t].version <= n
           T == {k \in Nat : Above(k) => Latest}
<1>1. MaxUploads \in Nat /\ \A t \in Samples : sampleFile[t].version \in 0..MaxUploads
  BY UploadsAssumption DEF VoiceTypes
<1>2. 0 \in T
  <2> SUFFICES ASSUME Above(0) PROVE Latest
    OBVIOUS
  <2>1. \A t \in Samples : sampleFile[t].version = 0
    BY <1>1
  <2> QED BY <1>1, <2>1
<1>3. ASSUME NEW k \in Nat, k \in T PROVE k + 1 \in T
  <2> SUFFICES ASSUME Above(k + 1) PROVE Latest
    OBVIOUS
  <2>1. CASE \E t \in Samples : sampleFile[t].version = k + 1
    BY <1>1, <2>1
  <2>2. CASE ~\E t \in Samples : sampleFile[t].version = k + 1
    <3>1. Above(k)
      BY <1>1, <2>2
    <3> QED BY <1>3, <3>1
  <2> QED BY <2>1, <2>2
<1>4. Nat \subseteq T
  <2> HIDE DEF T
  <2> QED BY <1>2, <1>3, Ind
<1>5. Latest
  BY <1>1, <1>4
<1> QED BY <1>5 DEF Uploads

LEMMA UploadBeginsKeeps ==
    ASSUME VoicesInv, NEW s \in Samples, UploadBegins(s) PROVE VoicesInv'
<1>1. /\ main.pc = "idle" /\ uploading = NoSample /\ Uploads < MaxUploads /\ uploading' = s
      /\ sampleFile' = [sampleFile EXCEPT ![s] = [version |-> Uploads + 1, length |-> 0, whole |-> FALSE]]
      /\ UNCHANGED <<slot, staging, reader, shifter, envelope, main, irqs, due>>
  BY DEF UploadBegins
<1>2. VoiceTypes /\ Uploads + 1 \in 0..MaxUploads /\ 0 \in 0..MaxBlocks
  BY <1>1, UploadsIs, UploadsAssumption, BlocksAssumption DEF VoicesInv
<1>3. [version |-> Uploads + 1, length |-> 0, whole |-> FALSE]
          \in [version : 0..MaxUploads, length : 0..MaxBlocks, whole : BOOLEAN]
  BY <1>2
<1>4. /\ sampleFile' \in [Samples -> [version : 0..MaxUploads, length : 0..MaxBlocks, whole : BOOLEAN]]
      /\ ~sampleFile'[s].whole /\ \A t \in Samples \ {s} : sampleFile'[t] = sampleFile[t]
  BY <1>1, <1>2, <1>3 DEF VoiceTypes
<1>5. VoiceTypes'
  BY <1>1, <1>2, <1>4 DEF VoiceTypes
<1>6. MainOrder'
  BY <1>1, <1>4 DEF VoicesInv, MainOrder
<1>7. SlotsKept'
  <2> SUFFICES ASSUME NEW v \in VoiceIds PROVE (SlotWhole(slot[v]) /\ SlotFresh(slot[v]))'
    BY DEF SlotsKept
  <2>1. SlotWhole(slot[v]) /\ SlotFresh(slot[v])
    BY <1>1 DEF VoicesInv, SlotsKept, Replacing
  <2>2. slot[v].sample \in Samples \cup {NoSample}
    BY <1>2, VoiceParts
  <2> QED BY <1>1, <1>4, <2>1, <2>2 DEF SlotWhole, SlotFresh
<1>8. VoicesInStep'
  BY <1>1 DEF VoicesInv, VoicesInStep, OutOfStep
<1> QED BY <1>5, <1>6, <1>7, <1>8 DEF VoicesInv

LEMMA UploadCompletesKeeps ==
    ASSUME VoicesInv, UploadCompletes PROVE VoicesInv'
<1>1. PICK length \in 0..MaxBlocks :
         sampleFile' = [sampleFile EXCEPT ![uploading].length = length, ![uploading].whole = TRUE]
  BY DEF UploadCompletes
<1>2. /\ main.pc = "idle" /\ uploading # NoSample /\ slot' = invalidate_sample(uploading)
      /\ staging' = IF staging.sample = uploading THEN NotStaged ELSE staging
      /\ uploading' = NoSample /\ UNCHANGED <<reader, shifter, envelope, main, irqs, due>>
      /\ VoiceTypes /\ uploading \in Samples
  BY DEF UploadCompletes, VoicesInv, VoiceTypes
<1>3. /\ sampleFile' \in [Samples -> [version : 0..MaxUploads, length : 0..MaxBlocks, whole : BOOLEAN]]
      /\ \A t \in Samples \ {uploading} : sampleFile'[t] = sampleFile[t]
  BY <1>1, <1>2 DEF VoiceTypes
<1>4. ASSUME NEW v \in VoiceIds
      PROVE  /\ slot'[v] \in Slot /\ slot'[v].length = slot[v].length /\ slot'[v].buffer = slot[v].buffer
             /\ slot'[v].sample # uploading
             /\ slot'[v].sample = slot[v].sample \/ slot'[v].sample = NoSample
  <2>1. slot[v] \in Slot
    BY <1>2, VoiceParts
  <2> QED BY <1>2, <2>1 DEF invalidate_sample, Slot
<1>5. slot' \in [VoiceIds -> Slot]
  BY <1>2, <1>4 DEF invalidate_sample
<1>6. VoiceTypes'
  BY <1>2, <1>3, <1>5 DEF VoiceTypes
<1>7. MainOrder'
  BY <1>2 DEF VoicesInv, MainOrder
<1>8. SlotsKept'
  <2> SUFFICES ASSUME NEW v \in VoiceIds PROVE (SlotWhole(slot[v]) /\ SlotFresh(slot[v]))'
    BY DEF SlotsKept
  <2>1. SlotWhole(slot[v]) /\ SlotFresh(slot[v])
    BY <1>2 DEF VoicesInv, SlotsKept, Replacing
  <2>2. slot[v].sample \in Samples \cup {NoSample}
    BY <1>2, VoiceParts
  <2>3. SlotWhole(slot[v])'
    BY <1>4, <2>1 DEF SlotWhole
  <2>4. SlotFresh(slot[v])'
    BY <1>3, <1>4, <2>1, <2>2 DEF SlotFresh
  <2> QED BY <2>3, <2>4
<1>9. VoicesInStep'
  <2>1. \A v \in VoiceIds : InStep(reader[v], shifter[v], envelope[v], slot[v].buffer, due[v])
    BY <1>2 DEF VoicesInv, VoicesInStep, OutOfStep
  <2> QED BY <1>2, <1>4, <2>1 DEF VoicesInStep
<1> QED BY <1>6, <1>7, <1>8, <1>9 DEF VoicesInv

LEMMA UploadFailsKeeps ==
    ASSUME VoicesInv, UploadFails PROVE VoicesInv'
<1>1. PICK length \in 0..MaxBlocks : sampleFile' = [sampleFile EXCEPT ![uploading].length = length]
  BY DEF UploadFails
<1>2. /\ main.pc = "idle" /\ uploading # NoSample /\ uploading' = NoSample
      /\ UNCHANGED <<slot, staging, reader, shifter, envelope, main, irqs, due>>
      /\ VoiceTypes /\ uploading \in Samples
  BY DEF UploadFails, VoicesInv, VoiceTypes
<1>3. ~sampleFile[uploading].whole
  BY <1>2 DEF VoicesInv, MainOrder
<1>4. /\ sampleFile' \in [Samples -> [version : 0..MaxUploads, length : 0..MaxBlocks, whole : BOOLEAN]]
      /\ ~sampleFile'[uploading].whole /\ \A t \in Samples \ {uploading} : sampleFile'[t] = sampleFile[t]
  BY <1>1, <1>2, <1>3 DEF VoiceTypes
<1>5. VoiceTypes'
  BY <1>2, <1>4 DEF VoiceTypes
<1>6. MainOrder'
  BY <1>2 DEF VoicesInv, MainOrder
<1>7. SlotsKept'
  <2> SUFFICES ASSUME NEW v \in VoiceIds PROVE (SlotWhole(slot[v]) /\ SlotFresh(slot[v]))'
    BY DEF SlotsKept
  <2>1. SlotWhole(slot[v]) /\ SlotFresh(slot[v])
    BY <1>2 DEF VoicesInv, SlotsKept, Replacing
  <2>2. slot[v].sample \in Samples \cup {NoSample}
    BY <1>2, VoiceParts
  <2> QED BY <1>2, <1>4, <2>1, <2>2 DEF SlotWhole, SlotFresh
<1>8. VoicesInStep'
  BY <1>2 DEF VoicesInv, VoicesInStep, OutOfStep
<1> QED BY <1>5, <1>6, <1>7, <1>8 DEF VoicesInv

-----------------------------------------------------------------------------
LEMMA VoicesStepInv ==
    ASSUME VoicesInv, [VoicesNext]_voiceVars PROVE VoicesInv'
<1>1. CASE VoicesNext
  BY <1>1, RenderKeeps, VoicePlayKeeps, CommitBeginsKeeps, CommitEndsKeeps, NothingToPlayKeeps, StartKeeps,
     SoundPlayKeeps, UploadBeginsKeeps, UploadCompletesKeeps, UploadFailsKeeps DEF VoicesNext
<1>2. CASE UNCHANGED voiceVars
  <2> USE <1>2 DEF voiceVars
  <2>1. VoiceTypes'
    BY DEF VoicesInv, VoiceTypes
  <2>2. MainOrder'
    BY DEF VoicesInv, MainOrder, Staged, Contents
  <2>3. SlotsKept'
    BY DEF VoicesInv, SlotsKept, Replacing, SlotWhole, SlotFresh
  <2>4. VoicesInStep'
    BY DEF VoicesInv, VoicesInStep, OutOfStep
  <2> QED BY <2>1, <2>2, <2>3, <2>4 DEF VoicesInv
<1> QED BY <1>1, <1>2

\* Every voice's slot, reader, shifter and decay are always of the right kind,
\* interrupts are off exactly while a buffer is replaced or a note started, and
\* what is due is what the voice has still to play.
THEOREM VoicesInvariance == VoicesSpec => []VoicesInv
<1> QED BY VoicesInitInv, VoicesStepInv, PTL DEF VoicesSpec

LEMMA InvWhole ==
    ASSUME VoicesInv PROVE WholeSample
<1>1. ASSUME irqs, NEW v \in VoiceIds, NEW i \in 2..slot[v].length
      PROVE  slot[v].buffer[i] = [slot[v].buffer[1] EXCEPT ![3] = i]
  <2>1. SlotWhole(slot[v]) /\ slot[v].length \in 0..MaxBlocks /\ MaxBlocks \in Nat
    BY <1>1, VoiceParts DEF VoicesInv, MainOrder, SlotsKept, Replacing
  <2>2. i \in 1..slot[v].length /\ 1 \in 1..slot[v].length /\ slot[v].length # 0
    BY <2>1
  <2>3. PICK s \in Samples, n \in 0..MaxUploads :
            \A j \in 1..slot[v].length : slot[v].buffer[j] = <<s, n, j>>
    BY <2>1, <2>2 DEF SlotWhole
  <2>4. slot[v].buffer[i] = <<s, n, i>> /\ slot[v].buffer[1] = <<s, n, 1>>
    BY <2>2, <2>3
  <2>5. [<<s, n, 1>> EXCEPT ![3] = i] = <<s, n, i>>
    OBVIOUS
  <2> QED BY <2>4, <2>5
<1>2. ASSUME main.pc = "starting", slot[main.voice].sample = main.sample, sampleFile[main.sample].whole
      PROVE  SubSeq(slot[main.voice].buffer, 1, slot[main.voice].length) = Contents(main.sample)
  <2> DEFINE v == main.voice  s == main.sample  b == slot[v].buffer  n == slot[v].length
  <2>1. v \in VoiceIds /\ s \in Samples /\ VoiceTypes
    BY <1>2, PlayingParts DEF VoicesInv
  <2>2. SlotFresh(slot[v])
    BY <1>2, <2>1 DEF VoicesInv, SlotsKept, Replacing
  <2>3. n = sampleFile[s].length /\ \A i \in 1..n : b[i] = <<s, sampleFile[s].version, i>>
    BY <1>2, <2>1, <2>2, SamplesAssumption DEF SlotFresh
  <2>4. n \in 0..MaxBlocks /\ b \in [1..MaxBlocks -> Block] /\ MaxBlocks \in Nat
    BY <2>1, VoiceParts
  <2>5. b \in Seq(Block) /\ Len(b) = MaxBlocks
    BY <2>4, SeqDef, LenProperties
  <2>6. /\ Contents(s) \in Seq(Block) /\ Len(Contents(s)) = n
        /\ \A i \in 1..n : Contents(s)[i] = <<s, sampleFile[s].version, i>>
    BY <2>1, <2>3, ContentsAre
  <2> HIDE DEF b, n
  <2>7. /\ SubSeq(b, 1, n) \in Seq(Block) /\ Len(SubSeq(b, 1, n)) = n
        /\ \A i \in 1..n : SubSeq(b, 1, n)[i] = b[i]
    BY <2>4, <2>5, SubSeqProperties
  <2>8. \A i \in 1..n : SubSeq(b, 1, n)[i] = Contents(s)[i]
    BY <2>3, <2>6, <2>7
  <2>9. SubSeq(b, 1, n) = Contents(s)
    BY <2>6, <2>7, <2>8, SeqEqual
  <2> QED BY <2>9 DEF b, n
<1> QED BY <1>1, <1>2 DEF WholeSample

\* For every number of voices, samples and blocks: whenever the interrupt can
\* render, a voice holds one version of one sample from its beginning, and a
\* note that its voice's slot is claimed to have is played as the file is.
THEOREM WholeSampleAlways == VoicesSpec => []WholeSample
<1> QED BY VoicesInvariance, InvWhole, PTL

LEMMA RenderIsDue ==
    ASSUME VoicesInv, Render
    PROVE  \A v \in VoiceIds :
              \/ fill_buffer(v).out = IF due[v] = << >> THEN Silence ELSE Head(due[v])
              \/ main.pc = "replaced" /\ main.voice = v
<1> SUFFICES ASSUME NEW v \in VoiceIds, ~(main.pc = "replaced" /\ main.voice = v)
             PROVE  fill_buffer(v).out = IF due[v] = << >> THEN Silence ELSE Head(due[v])
  OBVIOUS
<1>1. ~OutOfStep(v)
  BY DEF Render, VoicesInv, MainOrder, OutOfStep
<1>2. InStep(reader[v], shifter[v], envelope[v], slot[v].buffer, due[v])
  BY <1>1 DEF VoicesInv, VoicesInStep
<1> QED BY <1>2, FillIs DEF VoicesInv

\* Every block rendered is the next one the voice's last note asked for, but
\* between the copy of a new sample and its start.
THEOREM HeardAsAskedAlways == VoicesSpec => HeardAsAsked
<1>1. VoicesInv /\ [VoicesNext]_voiceVars =>
        [Render => \A v \in VoiceIds :
          \/ fill_buffer(v).out = IF due[v] = << >> THEN Silence ELSE Head(due[v])
          \/ main.pc = "replaced" /\ main.voice = v]_voiceVars
  BY RenderIsDue
<1> QED BY <1>1, VoicesInvariance, PTL DEF VoicesSpec, HeardAsAsked
=============================================================================

-------------------------- MODULE ClockChain_proofs --------------------------
(***************************************************************************)
(* Proofs about the clock chain for every set of knob positions, anchors   *)
(* and clock policy.  The inductive invariant is the conjunction of the    *)
(* named invariants; lemmas say what one event and one modifier change do  *)
(* to the adapter and the tempo handler.                                   *)
(***************************************************************************)
EXTENDS ClockChain, TLAPS

\* What a notification may be applied to.
ChainType == [adapter : SpeedAdapter, tempo : TempoHandler,
              out : [raw : Nat, midi : Nat, tempo : Nat]]

\* The chain agrees on the modifier: nothing the handler asked for is lost.
Agrees(c) == Requested(c.adapter) = c.tempo.modifier

\* What the handler asks of the adapter is what the knob means.
KnobAsked ==
    /\ tempo.modifier = KnobModifier(source, tempo.knob)
    /\ source = "INTERNAL" => clocks.bpm = tempo.knob

IInv ==
    /\ TypeOK
    /\ SingleMaster
    /\ WaitsOnlyForJack
    /\ RequestKept
    /\ KnobAsked

-----------------------------------------------------------------------------
(* Lemmas about the operators *)

\* A change of modifier keeps the adapter well formed and is never lost: it
\* is in force or pending afterwards.
LEMMA SetModifierRequests ==
    ASSUME NEW a \in SpeedAdapter, NEW m \in SpeedModifier
    PROVE  /\ SetModifier(a, m) \in SpeedAdapter
           /\ Requested(SetModifier(a, m)) = m
  <1>1. a.modifier \in SpeedModifier /\ a.heard \in ClockSource /\ m # NoModifier
    BY DEF SpeedAdapter, SpeedModifier, NoModifier
  <1>2. CASE a.modifier = m /\ a.pending = NoModifier
    BY <1>2 DEF SetModifier, Requested
  <1>3. CASE ~(a.modifier = m /\ a.pending = NoModifier) /\ a.heard = "EXTERNAL_SYNC"
    <2>1. SetModifier(a, m) = [a EXCEPT !.pending = m]
      BY <1>3 DEF SetModifier
    <2>2. SetModifier(a, m) \in SpeedAdapter
      BY <2>1 DEF SpeedAdapter
    <2>3. SetModifier(a, m).pending = m
      BY <2>1 DEF SpeedAdapter
    <2> QED BY <1>1, <2>2, <2>3 DEF Requested
  <1>4. CASE ~(a.modifier = m /\ a.pending = NoModifier) /\ a.heard # "EXTERNAL_SYNC"
    <2>1. SetModifier(a, m)
            = [heard |-> a.heard, modifier |-> m, pending |-> NoModifier, count |-> 0]
      BY <1>4 DEF SetModifier
    <2> QED BY <1>1, <2>1 DEF Requested, SpeedAdapter
  <1> QED BY <1>2, <1>3, <1>4

\* Hearing an event may apply the deferred change, never drop it.
LEMMA AdapterHearsKeeps ==
    ASSUME NEW a \in SpeedAdapter, NEW e \in ClockEvent
    PROVE  /\ AdapterHears(a, e) \in SpeedAdapter
           /\ Requested(AdapterHears(a, e)) = Requested(a)
  <1>1. /\ e.source \in ClockSource /\ a.count \in 0..3
        /\ a.modifier \in SpeedModifier /\ a.pending \in SpeedModifier \cup {NoModifier}
        /\ Requested(a) \in SpeedModifier
    BY DEF SpeedAdapter, ClockEvent, Requested
  <1>2. CASE e.resync
    <2>1. AdapterHears(a, e) = [a EXCEPT !.heard = e.source, !.count = 0]
      BY <1>2 DEF AdapterHears
    <2>2. AdapterHears(a, e) \in SpeedAdapter
      BY <1>1, <2>1, 0 \in 0..3 DEF SpeedAdapter
    <2>3. /\ AdapterHears(a, e).modifier = a.modifier
          /\ AdapterHears(a, e).pending = a.pending
      BY <2>1 DEF SpeedAdapter
    <2> QED BY <2>2, <2>3 DEF Requested
  <1>3. CASE ~e.resync /\ e.beat
    <2>1. AdapterHears(a, e) = [heard |-> e.source, modifier |-> Requested(a),
                                pending |-> NoModifier, count |-> 0]
      BY <1>3 DEF AdapterHears
    <2> QED BY <1>1, <2>1 DEF Requested, SpeedAdapter
  <1>4. CASE ~e.resync /\ ~e.beat
    <2>1. AdapterHears(a, e)
            = [a EXCEPT !.heard = e.source, !.count = (a.count + 1) % 4]
      BY <1>4 DEF AdapterHears
    <2>2. (a.count + 1) % 4 \in 0..3
      BY <1>1
    <2> QED BY <1>1, <2>1, <2>2 DEF Requested, SpeedAdapter
  <1> QED BY <1>2, <1>3, <1>4

\* The nearest grid point is a phase and a point of the grid.
LEMMA AlignedPhaseOnGrid ==
    ASSUME NEW m \in SpeedModifier, NEW p \in Phase
    PROVE  /\ AlignedPhase(m, p) \in Phase
           /\ AlignedPhase(m, p) % GridWidth[m] = 0
  <1>1. CASE m = "HALF_SPEED"
    BY <1>1 DEF AlignedPhase, GridWidth, Phase
  <1>2. CASE m = "NORMAL_SPEED"
    BY <1>2 DEF AlignedPhase, GridWidth, Phase
  <1>3. CASE m = "DOUBLE_SPEED"
    BY <1>3 DEF AlignedPhase, GridWidth, Phase
  <1> QED BY <1>1, <1>2, <1>3 DEF SpeedModifier

\* The next phase is a phase, whatever the event.
LEMMA NextPhaseType ==
    ASSUME NEW t \in TempoHandler, NEW e \in ClockEvent
    PROVE  NextPhase(t, e) \in Phase
  <1>1. t.modifier \in SpeedModifier /\ t.phase \in Phase
    BY DEF TempoHandler
  <1>2. AlignedPhase(t.modifier, t.phase) \in Phase
    BY <1>1, AlignedPhaseOnGrid
  <1>3. (t.phase + 1) % 12 \in Phase
    BY <1>1 DEF Phase
  <1> QED BY <1>2, <1>3 DEF NextPhase, Phase

\* An event moves only the phase and the synchronisation state of the
\* handler, and never starts a wait.
LEMMA TempoHearsKeeps ==
    ASSUME NEW t \in TempoHandler, NEW e \in ClockEvent
    PROVE  /\ TempoHears(t, e) \in TempoHandler
           /\ TempoHears(t, e).modifier = t.modifier
           /\ TempoHears(t, e).knob = t.knob
           /\ TempoHears(t, e).playing = t.playing
           /\ t.sync = "RUNNING" => TempoHears(t, e).sync = "RUNNING"
  BY NextPhaseType DEF TempoHears, TempoHandler, SyncAfter, SyncState

\* Delivering one event to the chain.
LEMMA DeliverKeeps ==
    ASSUME NEW c \in ChainType, NEW e \in ClockEvent
    PROVE  /\ Deliver(c, e) \in ChainType
           /\ Agrees(c) => Agrees(Deliver(c, e))
           /\ Deliver(c, e).tempo.modifier = c.tempo.modifier
           /\ Deliver(c, e).tempo.knob = c.tempo.knob
           /\ Deliver(c, e).tempo.playing = c.tempo.playing
           /\ c.tempo.sync = "RUNNING" => Deliver(c, e).tempo.sync = "RUNNING"
           /\ Deliver(c, e).out.raw = c.out.raw + (IF e.resync THEN 0 ELSE 1)
           /\ Deliver(c, e).out.midi
                = c.out.midi + (IF SendsMidiClock(c.tempo, e) THEN 1 ELSE 0)
           /\ Deliver(c, e).out.tempo \in c.out.tempo .. c.out.tempo + 1
  <1>1. /\ c.adapter \in SpeedAdapter /\ c.tempo \in TempoHandler
        /\ c.out.raw \in Nat /\ c.out.midi \in Nat /\ c.out.tempo \in Nat
    BY DEF ChainType
  <1>2. /\ AdapterHears(c.adapter, e) \in SpeedAdapter
        /\ Requested(AdapterHears(c.adapter, e)) = Requested(c.adapter)
    BY <1>1, AdapterHearsKeeps
  <1>3. /\ TempoHears(c.tempo, e) \in TempoHandler
        /\ TempoHears(c.tempo, e).modifier = c.tempo.modifier
        /\ TempoHears(c.tempo, e).knob = c.tempo.knob
        /\ TempoHears(c.tempo, e).playing = c.tempo.playing
        /\ c.tempo.sync = "RUNNING" => TempoHears(c.tempo, e).sync = "RUNNING"
    BY <1>1, TempoHearsKeeps
  <1> QED BY <1>1, <1>2, <1>3 DEF Deliver, ChainType, Agrees

\* Setting a modifier leaves the chain in agreement on it.
LEMMA SetSpeedModifierAgrees ==
    ASSUME NEW c \in ChainType, NEW m \in SpeedModifier
    PROVE  /\ SetSpeedModifier(c, m) \in ChainType
           /\ Agrees(SetSpeedModifier(c, m))
           /\ SetSpeedModifier(c, m).tempo = [c.tempo EXCEPT !.modifier = m]
           /\ SetSpeedModifier(c, m).out = c.out
  <1>1. /\ c.adapter \in SpeedAdapter /\ c.tempo \in TempoHandler
    BY DEF ChainType
  <1>2. /\ SetModifier(c.adapter, m) \in SpeedAdapter
        /\ Requested(SetModifier(c.adapter, m)) = m
    BY <1>1, SetModifierRequests
  <1> QED BY <1>1, <1>2 DEF SetSpeedModifier, ChainType, Agrees, TempoHandler

LEMMA KnobModifierType ==
    ASSUME NEW s \in ClockSource, NEW k \in Knob
    PROVE  KnobModifier(s, k) \in SpeedModifier
  BY DEF KnobModifier, SpeedModifier, ClockSource

\* Applying the knob: the handler follows it and the chain agrees.
LEMMA SetTempoControlAgrees ==
    ASSUME NEW c \in ChainType, NEW s \in ClockSource, NEW k \in Knob
    PROVE  /\ SetTempoControl(c, s, k) \in ChainType
           /\ Agrees(SetTempoControl(c, s, k))
           /\ SetTempoControl(c, s, k).tempo
                = [c.tempo EXCEPT !.knob = k, !.modifier = KnobModifier(s, k)]
           /\ SetTempoControl(c, s, k).out = c.out
  <1> DEFINE d == [c EXCEPT !.tempo.knob = k]
  <1>1. d \in ChainType /\ d.out = c.out /\ d.tempo = [c.tempo EXCEPT !.knob = k]
    BY DEF ChainType, TempoHandler
  <1>2. KnobModifier(s, k) \in SpeedModifier
    BY KnobModifierType
  <1> HIDE DEF d
  <1>3. /\ SetSpeedModifier(d, KnobModifier(s, k)) \in ChainType
        /\ Agrees(SetSpeedModifier(d, KnobModifier(s, k)))
        /\ SetSpeedModifier(d, KnobModifier(s, k)).tempo
             = [d.tempo EXCEPT !.modifier = KnobModifier(s, k)]
        /\ SetSpeedModifier(d, KnobModifier(s, k)).out = d.out
    BY <1>1, <1>2, SetSpeedModifierAgrees
  <1>4. SetTempoControl(c, s, k) = SetSpeedModifier(d, KnobModifier(s, k))
    BY DEF SetTempoControl, d
  <1> QED BY <1>1, <1>3, <1>4

\* The listener of a source change ends any wait unless the jack takes over,
\* and leaves the knob in force.
LEMMA OnSourceChangedKeeps ==
    ASSUME NEW c \in ChainType, NEW s \in ClockSource
    PROVE  /\ OnSourceChanged(c, s) \in ChainType
           /\ Agrees(OnSourceChanged(c, s))
           /\ OnSourceChanged(c, s).tempo.modifier = KnobModifier(s, c.tempo.knob)
           /\ OnSourceChanged(c, s).tempo.knob = c.tempo.knob
           /\ OnSourceChanged(c, s).tempo.playing = c.tempo.playing
           /\ OnSourceChanged(c, s).out = c.out
           /\ s # "EXTERNAL_SYNC" => OnSourceChanged(c, s).tempo.sync = "RUNNING"
           /\ OnSourceChanged(c, s).tempo.phase = c.tempo.phase
           /\ s = "EXTERNAL_SYNC" => OnSourceChanged(c, s).tempo.sync = c.tempo.sync
  <1> DEFINE r == IF s # "EXTERNAL_SYNC"
                    THEN [c EXCEPT !.tempo.sync = "RUNNING"] ELSE c
             n == IF s = "INTERNAL"
                    THEN SetSpeedModifier(r, "NORMAL_SPEED") ELSE r
  <1>1. /\ r \in ChainType /\ r.out = c.out
        /\ r.tempo = [c.tempo EXCEPT !.sync = IF s # "EXTERNAL_SYNC"
                                                THEN "RUNNING" ELSE c.tempo.sync]
    BY DEF ChainType, TempoHandler, SyncState
  <1>2. /\ SetSpeedModifier(r, "NORMAL_SPEED") \in ChainType
        /\ SetSpeedModifier(r, "NORMAL_SPEED").tempo
             = [r.tempo EXCEPT !.modifier = "NORMAL_SPEED"]
        /\ SetSpeedModifier(r, "NORMAL_SPEED").out = r.out
    BY <1>1, SetSpeedModifierAgrees DEF SpeedModifier
  <1>3. c.tempo \in TempoHandler /\ c.tempo.knob \in Knob
    BY DEF ChainType, TempoHandler
  <1>4. /\ n \in ChainType /\ n.out = c.out
        /\ n.tempo.knob = c.tempo.knob /\ n.tempo.playing = c.tempo.playing
        /\ n.tempo.phase = c.tempo.phase
        /\ n.tempo.sync = IF s # "EXTERNAL_SYNC" THEN "RUNNING" ELSE c.tempo.sync
    BY <1>1, <1>2, <1>3 DEF TempoHandler
  <1>5. OnSourceChanged(c, s) = SetTempoControl(n, s, c.tempo.knob)
    BY DEF OnSourceChanged, EndWait
  <1> HIDE DEF r, n
  <1>6. /\ SetTempoControl(n, s, c.tempo.knob) \in ChainType
        /\ Agrees(SetTempoControl(n, s, c.tempo.knob))
        /\ SetTempoControl(n, s, c.tempo.knob).tempo
             = [n.tempo EXCEPT !.knob = c.tempo.knob,
                               !.modifier = KnobModifier(s, c.tempo.knob)]
        /\ SetTempoControl(n, s, c.tempo.knob).out = n.out
    BY <1>3, <1>4, SetTempoControlAgrees
  <1>7. n.tempo \in TempoHandler
    BY <1>4 DEF ChainType
  <1> QED BY <1>3, <1>4, <1>5, <1>6, <1>7 DEF TempoHandler

-----------------------------------------------------------------------------
(* The inductive invariant *)

\* The current state is a chain the lemmas apply to.
LEMMA ChainNow ==
    ASSUME TypeOK, RequestKept
    PROVE  /\ Chain \in ChainType /\ Agrees(Chain)
           /\ Chain.tempo = tempo /\ Chain.adapter = adapter /\ Chain.out = Quiet
  BY DEF TypeOK, RequestKept, Chain, ChainType, Agrees, Quiet

\* A step that leaves a well-formed chain behind with the modifier and the
\* knob untouched keeps the part of the invariant about the chain.
LEMMA BecomesKeeps ==
    ASSUME IInv, NEW c \in ChainType, Agrees(c), Becomes(c),
           c.tempo.modifier = tempo.modifier, c.tempo.knob = tempo.knob,
           tempo.sync = "RUNNING" => c.tempo.sync = "RUNNING",
           c.out \in [raw : 0..1, midi : 0..1, tempo : 0..2],
           source' = source, attached' = attached, clocks' = clocks,
           midiAge' \in {"nil", "fresh", "stale"}, cable' \in BOOLEAN
    PROVE  IInv'
  <1>1. adapter' \in SpeedAdapter /\ tempo' \in TempoHandler /\ out' = c.out
    BY DEF Becomes, ChainType
  <1>2. TypeOK'
    BY <1>1 DEF IInv, TypeOK
  <1>3. SingleMaster' /\ KnobAsked' /\ RequestKept'
    BY DEF IInv, SingleMaster, KnobAsked, RequestKept, Becomes, Agrees, KnobModifier
  <1>4. WaitsOnlyForJack'
    <2>1. tempo.sync \in {"RUNNING", "WAITING_FOR_BEAT"}
      BY DEF IInv, TypeOK, TempoHandler, SyncState
    <2> QED BY <2>1 DEF IInv, WaitsOnlyForJack, Becomes
  <1> QED BY <1>2, <1>3, <1>4 DEF IInv

\* Delivering one raw tick or resync of a source, when nothing was output yet.
LEMMA DeliverFromChain ==
    ASSUME IInv, NEW e \in ClockEvent
    PROVE  LET d == Deliver(Chain, e) IN
           /\ d \in ChainType /\ Agrees(d)
           /\ d.tempo.modifier = tempo.modifier /\ d.tempo.knob = tempo.knob
           /\ d.tempo.playing = tempo.playing
           /\ tempo.sync = "RUNNING" => d.tempo.sync = "RUNNING"
           /\ d.out.raw = IF e.resync THEN 0 ELSE 1
           /\ d.out.midi = IF SendsMidiClock(tempo, e) THEN 1 ELSE 0
           /\ d.out.tempo \in 0..1
           /\ d.out \in [raw : 0..1, midi : 0..1, tempo : 0..2]
  <1>1. Chain \in ChainType /\ Agrees(Chain) /\ Chain.tempo = tempo /\ Chain.out = Quiet
    BY ChainNow DEF IInv
  <1> DEFINE d == Deliver(Chain, e)
  <1>2. /\ d \in ChainType /\ Agrees(d)
        /\ d.tempo.modifier = tempo.modifier /\ d.tempo.knob = tempo.knob
        /\ d.tempo.playing = tempo.playing
        /\ tempo.sync = "RUNNING" => d.tempo.sync = "RUNNING"
        /\ d.out.raw = Quiet.raw + (IF e.resync THEN 0 ELSE 1)
        /\ d.out.midi = Quiet.midi + (IF SendsMidiClock(tempo, e) THEN 1 ELSE 0)
        /\ d.out.tempo \in Quiet.tempo .. Quiet.tempo + 1
    BY <1>1, DeliverKeeps
  <1>3. /\ d.out.raw = IF e.resync THEN 0 ELSE 1
        /\ d.out.midi = IF SendsMidiClock(tempo, e) THEN 1 ELSE 0
        /\ d.out.tempo \in 0..1
    BY <1>2 DEF Quiet
  <1> HIDE DEF d
  <1>4. d.out \in [raw : 0..1, midi : 0..1, tempo : 0..2]
    <2>1. d.out \in [raw : Nat, midi : Nat, tempo : Nat]
      BY <1>2 DEF ChainType
    <2> QED BY <1>3, <2>1
  <1> QED BY <1>2, <1>3, <1>4 DEF d

LEMMA TickTypes ==
    ASSUME NEW s \in ClockSource
    PROVE  /\ Tick(s) \in ClockEvent /\ ~Tick(s).resync /\ Tick(s).source = s
           /\ Resync(s) \in ClockEvent /\ Resync(s).resync
           /\ Beat \in ClockEvent /\ ~Beat.resync /\ Beat.source = "EXTERNAL_SYNC"
  BY DEF Tick, Resync, Beat, ClockEvent, ClockSource

LEMMA InitIInv == Init => IInv
  <1> SUFFICES ASSUME Init PROVE IInv
    OBVIOUS
  <1> PICK k \in Knob :
         /\ clocks = [running |-> TRUE, echo |-> FALSE, bpm |-> k]
         /\ tempo = [modifier |-> "NORMAL_SPEED", phase |-> 0,
                     sync |-> "RUNNING", knob |-> k, playing |-> FALSE]
    BY DEF Init
  <1>1. TypeOK
    BY DEF Init, TypeOK, ClockSource, SpeedAdapter, TempoHandler, SpeedModifier,
           Phase, SyncState, Quiet
  <1>2. SingleMaster /\ WaitsOnlyForJack /\ RequestKept /\ KnobAsked
    BY DEF Init, SingleMaster, WaitsOnlyForJack, RequestKept, KnobAsked,
           Requested, KnobModifier
  <1> QED BY <1>1, <1>2 DEF IInv

\* A source change keeps the invariant: the switches move together with the
\* source, and the listener settles modifier, knob and wait.
LEMMA SetClockSourceKeeps ==
    ASSUME IInv, NEW new \in ClockSource, new # source, SetClockSource(new)
    PROVE  IInv' /\ out'.raw = 0 /\ out'.midi = 0
  <1> DEFINE w == OnSourceChanged(Chain, new)
             c == IF new = "EXTERNAL_SYNC" THEN w ELSE Deliver(w, Resync(new))
  <1>1. Chain \in ChainType /\ Chain.tempo = tempo /\ Chain.out = Quiet
    BY ChainNow DEF IInv
  <1>2. /\ w \in ChainType /\ Agrees(w)
        /\ w.tempo.modifier = KnobModifier(new, tempo.knob)
        /\ w.tempo.knob = tempo.knob
        /\ w.out = Quiet
        /\ new # "EXTERNAL_SYNC" => w.tempo.sync = "RUNNING"
    BY <1>1, OnSourceChangedKeeps
  <1> HIDE DEF w
  <1>3. /\ Resync(new) \in ClockEvent /\ Resync(new).resync
    BY TickTypes
  <1>4. /\ Deliver(w, Resync(new)) \in ChainType
        /\ Agrees(Deliver(w, Resync(new)))
        /\ Deliver(w, Resync(new)).tempo.modifier = w.tempo.modifier
        /\ Deliver(w, Resync(new)).tempo.knob = w.tempo.knob
        /\ w.tempo.sync = "RUNNING" => Deliver(w, Resync(new)).tempo.sync = "RUNNING"
        /\ Deliver(w, Resync(new)).out.raw = 0
        /\ Deliver(w, Resync(new)).out.midi = 0
        /\ Deliver(w, Resync(new)).out.tempo \in 0..1
    <2>1. ~SendsMidiClock(w.tempo, Resync(new))
      BY <1>3 DEF SendsMidiClock
    <2> QED BY <1>2, <1>3, <2>1, DeliverKeeps, SMTT(30) DEF Quiet
  <1>5. /\ c \in ChainType /\ Agrees(c)
        /\ c.tempo.modifier = KnobModifier(new, tempo.knob)
        /\ c.tempo.knob = tempo.knob
        /\ new # "EXTERNAL_SYNC" => c.tempo.sync = "RUNNING"
        /\ c.out.raw = 0 /\ c.out.midi = 0 /\ c.out.tempo \in 0..1
    BY <1>2, <1>4 DEF Quiet
  <1>6. Becomes(c)
    BY DEF SetClockSource, w
  <1> HIDE DEF c
  <1>7. /\ adapter' \in SpeedAdapter /\ tempo' \in TempoHandler
        /\ out' \in [raw : 0..1, midi : 0..1, tempo : 0..2]
    <2>1. c.out \in [raw : Nat, midi : Nat, tempo : Nat]
      BY <1>5 DEF ChainType
    <2>2. c.out \in [raw : 0..1, midi : 0..1, tempo : 0..2]
      BY <1>5, <2>1
    <2> QED BY <1>5, <1>6, <2>2 DEF Becomes, ChainType
  <1>8. /\ source' = new /\ attached' = {new} /\ cable' = cable
        /\ midiAge' \in {"nil", "fresh", "stale"}
    BY DEF SetClockSource, Reattach, IInv, SingleMaster, TypeOK
  <1>9. /\ clocks' \in [running : BOOLEAN, echo : BOOLEAN, bpm : Knob]
        /\ clocks'.running <=> new = "INTERNAL"
        /\ clocks'.echo <=> new = "MIDI"
        /\ new = "INTERNAL" => clocks'.bpm = tempo.knob
    <2>1. tempo.knob \in Knob
      BY DEF IInv, TypeOK, TempoHandler
    <2>2. clocks' = [running |-> CASE new = "INTERNAL"    -> TRUE
                                   [] source = "INTERNAL" -> FALSE
                                   [] OTHER               -> clocks.running,
                     echo    |-> CASE new = "MIDI"    -> TRUE
                                   [] source = "MIDI" -> FALSE
                                   [] OTHER           -> clocks.echo,
                     bpm     |-> IF new = "INTERNAL" THEN tempo.knob
                                                     ELSE clocks.bpm]
      BY DEF SetClockSource
    <2>3. /\ clocks.running \in BOOLEAN /\ clocks.echo \in BOOLEAN /\ clocks.bpm \in Knob
          /\ clocks.running <=> source = "INTERNAL"
          /\ clocks.echo <=> source = "MIDI"
      BY DEF IInv, TypeOK, SingleMaster
    <2>4. clocks'.running = (new = "INTERNAL")
      BY <2>2, <2>3
    <2>5. clocks'.echo = (new = "MIDI")
      BY <2>2, <2>3
    <2>6. clocks'.bpm = IF new = "INTERNAL" THEN tempo.knob ELSE clocks.bpm
      BY <2>2
    <2>7. clocks' \in [running : BOOLEAN, echo : BOOLEAN, bpm : Knob]
      BY <2>1, <2>2, <2>3, <2>4, <2>5
    <2> QED BY <2>4, <2>5, <2>6, <2>7
  <1>10. TypeOK'
    BY <1>7, <1>8, <1>9 DEF TypeOK, IInv
  <1>11. SingleMaster' /\ WaitsOnlyForJack' /\ RequestKept' /\ KnobAsked'
    BY <1>5, <1>6, <1>8, <1>9 DEF SingleMaster, WaitsOnlyForJack, RequestKept,
       KnobAsked, Agrees, Becomes
  <1>12. out'.raw = 0 /\ out'.midi = 0
    BY <1>5, <1>6 DEF Becomes
  <1> QED BY <1>10, <1>11, <1>12 DEF IInv

\* A MIDI tick: heard only as master, then echoed exactly once.
LEMMA MidiTickKeeps ==
    ASSUME IInv, MidiTick
    PROVE  IInv' /\ OneMidiClockPerTick'
  <1>1. /\ Chain \in ChainType /\ Agrees(Chain) /\ Chain.tempo = tempo
        /\ Chain.out = Quiet
    BY ChainNow DEF IInv
  <1>2. "MIDI" \in ClockSource
    BY DEF ClockSource
  <1>3. /\ Tick("MIDI") \in ClockEvent /\ ~Tick("MIDI").resync
        /\ Tick("MIDI").source = "MIDI"
        /\ Resync("MIDI") \in ClockEvent /\ Resync("MIDI").resync
    BY <1>2, TickTypes
  <1>4. /\ attached = {source} /\ (clocks.echo <=> source = "MIDI")
        /\ clocks.echo \in BOOLEAN
    BY DEF IInv, SingleMaster, TypeOK
  <1>5. midiAge' = "fresh" /\ UNCHANGED <<source, attached, clocks, cable>>
        /\ cable' \in BOOLEAN
    BY DEF MidiTick, IInv, TypeOK
  <1>6. CASE source # "MIDI"
    <2>1. Becomes(Chain)
      BY <1>4, <1>6 DEF MidiTick
    <2>2. IInv'
      BY <1>1, <1>5, <2>1, BecomesKeeps DEF Quiet
    <2>3. out' = Quiet
      BY <1>1, <2>1 DEF Becomes
    <2> QED BY <2>2, <2>3 DEF OneMidiClockPerTick, Quiet
  <1>7. CASE source = "MIDI"
    <2> DEFINE y == IF midiAge = "fresh" THEN Chain ELSE Deliver(Chain, Resync("MIDI"))
               t == Deliver(y, Tick("MIDI"))
               c == [t EXCEPT !.out.midi = @ + 1]
    <2>1. /\ Deliver(Chain, Resync("MIDI")) \in ChainType
          /\ Agrees(Deliver(Chain, Resync("MIDI")))
          /\ Deliver(Chain, Resync("MIDI")).tempo.modifier = tempo.modifier
          /\ Deliver(Chain, Resync("MIDI")).tempo.knob = tempo.knob
          /\ tempo.sync = "RUNNING" => Deliver(Chain, Resync("MIDI")).tempo.sync = "RUNNING"
          /\ Deliver(Chain, Resync("MIDI")).out.raw = 0
          /\ Deliver(Chain, Resync("MIDI")).out.midi = 0
          /\ Deliver(Chain, Resync("MIDI")).out.tempo \in 0..1
      <3>1. ~SendsMidiClock(tempo, Resync("MIDI"))
        BY <1>3 DEF SendsMidiClock
      <3> QED BY <1>3, <3>1, DeliverFromChain
    <2>2. /\ y \in ChainType /\ Agrees(y)
          /\ y.tempo.modifier = tempo.modifier /\ y.tempo.knob = tempo.knob
          /\ tempo.sync = "RUNNING" => y.tempo.sync = "RUNNING"
          /\ y.out.raw = 0 /\ y.out.midi = 0 /\ y.out.tempo \in 0..1
      BY <1>1, <2>1 DEF Quiet
    <2> HIDE DEF y
    <2>3. /\ t \in ChainType /\ Agrees(t)
          /\ t.tempo.modifier = tempo.modifier /\ t.tempo.knob = tempo.knob
          /\ tempo.sync = "RUNNING" => t.tempo.sync = "RUNNING"
          /\ t.out.raw = 1 /\ t.out.midi = 0 /\ t.out.tempo \in 0..2
      <3>1. ~SendsMidiClock(y.tempo, Tick("MIDI"))
        BY <1>3 DEF SendsMidiClock
      <3>2. /\ t \in ChainType /\ (Agrees(y) => Agrees(t))
            /\ t.tempo.modifier = y.tempo.modifier /\ t.tempo.knob = y.tempo.knob
            /\ y.tempo.sync = "RUNNING" => t.tempo.sync = "RUNNING"
            /\ t.out.raw = y.out.raw + 1 /\ t.out.midi = y.out.midi + 0
            /\ t.out.tempo \in y.out.tempo .. y.out.tempo + 1
        BY <1>3, <2>2, <3>1, DeliverKeeps
      <3> QED BY <2>2, <3>2
    <2> HIDE DEF t
    <2>4. /\ c \in ChainType /\ Agrees(c) /\ c.tempo = t.tempo
          /\ c.out.raw = 1 /\ c.out.midi = 1
          /\ c.out \in [raw : 0..1, midi : 0..1, tempo : 0..2]
      <3>1. t.out \in [raw : Nat, midi : Nat, tempo : Nat]
        BY <2>3 DEF ChainType
      <3>2. /\ c.out = [t.out EXCEPT !.midi = @ + 1]
            /\ c.adapter = t.adapter /\ c.tempo = t.tempo
            /\ c \in ChainType
        BY <2>3, <3>1 DEF ChainType
      <3> HIDE DEF c
      <3>3. /\ c.out.raw = 1 /\ c.out.midi = 1 /\ c.out.tempo = t.out.tempo
            /\ c.out \in [raw : 0..1, midi : 0..1, tempo : 0..2]
        BY <2>3, <3>1, <3>2
      <3> QED BY <2>3, <3>2, <3>3 DEF Agrees
    <2>5. Becomes(c)
      BY <1>4, <1>7 DEF MidiTick, c, t, y
    <2> HIDE DEF c
    <2>6. IInv'
      BY <1>5, <2>3, <2>4, <2>5, BecomesKeeps
    <2>7. out'.raw = 1 /\ out'.midi = 1 /\ source' = "MIDI"
      BY <1>5, <1>7, <2>4, <2>5 DEF Becomes
    <2> QED BY <2>6, <2>7 DEF OneMidiClockPerTick
  <1> QED BY <1>6, <1>7

\* A tick of a source other than MIDI: one delivery if it is the master.
LEMMA TickKeeps ==
    ASSUME IInv, NEW e \in ClockEvent, ~e.resync, e.source # "MIDI",
           Hear(e.source, Deliver(Chain, e)),
           UNCHANGED <<source, attached, clocks, midiAge, cable>>
    PROVE  IInv' /\ OneMidiClockPerTick'
  <1>1. /\ Chain \in ChainType /\ Agrees(Chain) /\ Chain.tempo = tempo
        /\ Chain.out = Quiet
    BY ChainNow DEF IInv
  <1>2. /\ midiAge' \in {"nil", "fresh", "stale"} /\ cable' \in BOOLEAN
        /\ attached = {source}
    BY DEF IInv, TypeOK, SingleMaster
  <1>3. CASE e.source # source
    <2>1. Becomes(Chain)
      BY <1>2, <1>3 DEF Hear
    <2>2. IInv'
      BY <1>1, <1>2, <2>1, BecomesKeeps DEF Quiet
    <2>3. out' = Quiet
      BY <1>1, <2>1 DEF Becomes
    <2> QED BY <2>2, <2>3 DEF OneMidiClockPerTick, Quiet
  <1>4. CASE e.source = source
    <2> DEFINE d == Deliver(Chain, e)
    <2>1. Becomes(d)
      BY <1>2, <1>4 DEF Hear
    <2>2. /\ d \in ChainType /\ Agrees(d)
          /\ d.tempo.modifier = tempo.modifier /\ d.tempo.knob = tempo.knob
          /\ d.tempo.playing = tempo.playing
          /\ tempo.sync = "RUNNING" => d.tempo.sync = "RUNNING"
          /\ d.out.raw = 1
          /\ d.out.midi = IF SendsMidiClock(tempo, e) THEN 1 ELSE 0
          /\ d.out \in [raw : 0..1, midi : 0..1, tempo : 0..2]
      BY DeliverFromChain
    <2> HIDE DEF d
    <2>3. IInv'
      BY <1>2, <2>1, <2>2, BecomesKeeps
    <2>4. /\ out'.raw = 1 /\ source' = source /\ tempo'.playing = tempo.playing
          /\ out'.midi = IF SendsMidiClock(tempo, e) THEN 1 ELSE 0
      BY <2>1, <2>2 DEF Becomes
    <2>5. SendsMidiClock(tempo, e) <=>
            ~(source = "INTERNAL" /\ ~tempo.playing /\ ~SendWhenStopped)
      BY <1>4 DEF SendsMidiClock, ClockEvent, ClockSource
    <2> QED BY <2>3, <2>4, <2>5 DEF OneMidiClockPerTick
  <1> QED BY <1>3, <1>4

\* Playback control touches the handler only.
LEMMA PlaybackKeeps ==
    ASSUME IInv, StopPlayback \/ \E p \in Anchor : StartPlayback(p)
    PROVE  IInv' /\ OneMidiClockPerTick'
  <1>1. tempo \in TempoHandler /\ Anchor \subseteq Phase
    BY AnchorAssumption DEF IInv, TypeOK, Phase
  <1> DEFINE OnlyPlayback ==
          /\ tempo' \in TempoHandler /\ tempo'.modifier = tempo.modifier
          /\ tempo'.knob = tempo.knob
          /\ tempo'.sync = tempo.sync \/ source = "EXTERNAL_SYNC"
          /\ out' \in [raw : 0..1, midi : 0..1, tempo : 0..2]
          /\ out'.raw = 0 /\ out'.midi = 0
          /\ UNCHANGED <<source, attached, clocks, midiAge, cable, adapter>>
  <1>2. /\ Quiet \in [raw : 0..1, midi : 0..1, tempo : 0..2]
        /\ Quiet.raw = 0 /\ Quiet.midi = 0
        /\ [Quiet EXCEPT !.tempo = 1] = [raw |-> 0, midi |-> 0, tempo |-> 1]
    BY DEF Quiet
  <1>3. ASSUME StopPlayback PROVE OnlyPlayback
    <2>1. /\ tempo' = [tempo EXCEPT !.playing = FALSE] /\ out' = Quiet
          /\ UNCHANGED <<source, attached, clocks, midiAge, cable, adapter>>
      BY <1>3 DEF StopPlayback
    <2>2. /\ tempo' \in TempoHandler /\ tempo'.modifier = tempo.modifier
          /\ tempo'.knob = tempo.knob /\ tempo'.sync = tempo.sync
      BY <1>1, <2>1 DEF TempoHandler
    <2> QED BY <1>2, <2>1, <2>2
  <1>4. ASSUME NEW p \in Anchor, StartPlayback(p) PROVE OnlyPlayback
    <2>1. CASE source = "EXTERNAL_SYNC"
      <3>1. /\ tempo' = [tempo EXCEPT !.playing = TRUE, !.sync = "WAITING_FOR_BEAT"]
            /\ out' = Quiet
            /\ UNCHANGED <<source, attached, clocks, midiAge, cable, adapter>>
        BY <1>4, <2>1 DEF StartPlayback
      <3>2. /\ tempo' \in TempoHandler /\ tempo'.modifier = tempo.modifier
            /\ tempo'.knob = tempo.knob
        BY <1>1, <3>1 DEF TempoHandler, SyncState
      <3> QED BY <1>2, <2>1, <3>1, <3>2
    <2>2. CASE source # "EXTERNAL_SYNC"
      <3>1. /\ tempo' = [tempo EXCEPT !.playing = TRUE, !.phase = p]
            /\ out' = [Quiet EXCEPT !.tempo = 1]
            /\ UNCHANGED <<source, attached, clocks, midiAge, cable, adapter>>
        BY <1>4, <2>2 DEF StartPlayback
      <3>2. /\ tempo' \in TempoHandler /\ tempo'.modifier = tempo.modifier
            /\ tempo'.knob = tempo.knob /\ tempo'.sync = tempo.sync
        BY <1>1, <3>1 DEF TempoHandler
      <3>3. /\ out' \in [raw : 0..1, midi : 0..1, tempo : 0..2]
            /\ out'.raw = 0 /\ out'.midi = 0
        BY <1>2, <3>1
      <3> QED BY <3>1, <3>2, <3>3
    <2> QED BY <2>1, <2>2
  <1>5. OnlyPlayback
    BY <1>3, <1>4
  <1> HIDE DEF OnlyPlayback
  <1>6. TypeOK'
    BY <1>5 DEF OnlyPlayback, IInv, TypeOK
  <1>7. SingleMaster' /\ WaitsOnlyForJack' /\ RequestKept' /\ KnobAsked'
    BY <1>5 DEF OnlyPlayback, IInv, SingleMaster, WaitsOnlyForJack, RequestKept,
       KnobAsked
  <1>8. OneMidiClockPerTick'
    BY <1>5 DEF OnlyPlayback, OneMidiClockPerTick
  <1> QED BY <1>6, <1>7, <1>8 DEF IInv

\* Turning the knob applies its meaning under the present source.
LEMMA TurnKnobKeeps ==
    ASSUME IInv, NEW k \in Knob, TurnKnob(k)
    PROVE  IInv' /\ OneMidiClockPerTick'
  <1> DEFINE c == SetTempoControl(Chain, source, k)
  <1>1. Chain \in ChainType /\ Chain.tempo = tempo /\ Chain.out = Quiet
    BY ChainNow DEF IInv
  <1>2. source \in ClockSource /\ tempo \in TempoHandler /\ clocks.bpm \in Knob
    BY DEF IInv, TypeOK
  <1>3. /\ c \in ChainType /\ Agrees(c) /\ c.out = Quiet
        /\ c.tempo = [tempo EXCEPT !.knob = k, !.modifier = KnobModifier(source, k)]
    BY <1>1, <1>2, SetTempoControlAgrees, ZenonT(30)
  <1>4. Becomes(c) /\ UNCHANGED <<source, attached, midiAge, cable>>
    BY DEF TurnKnob
  <1> HIDE DEF c
  <1>5. /\ tempo'.knob = k /\ tempo'.modifier = KnobModifier(source, k)
        /\ tempo'.sync = tempo.sync /\ tempo' \in TempoHandler
        /\ adapter' \in SpeedAdapter /\ Requested(adapter') = tempo'.modifier
        /\ out' = Quiet
    BY <1>2, <1>3, <1>4 DEF Becomes, ChainType, Agrees, TempoHandler
  <1>6. /\ clocks' \in [running : BOOLEAN, echo : BOOLEAN, bpm : Knob]
        /\ clocks'.running = clocks.running /\ clocks'.echo = clocks.echo
        /\ source = "INTERNAL" => clocks'.bpm = k
    BY DEF TurnKnob, IInv, TypeOK
  <1>7. TypeOK'
    BY <1>4, <1>5, <1>6 DEF IInv, TypeOK, Quiet
  <1>8. SingleMaster' /\ WaitsOnlyForJack' /\ RequestKept' /\ KnobAsked'
    BY <1>4, <1>5, <1>6 DEF IInv, SingleMaster, WaitsOnlyForJack, RequestKept, KnobAsked
  <1>9. OneMidiClockPerTick'
    BY <1>5 DEF OneMidiClockPerTick, Quiet
  <1> QED BY <1>7, <1>8, <1>9 DEF IInv

\* Steps of the surroundings that reach no component.
LEMMA SurroundingsKeep ==
    ASSUME IInv, MidiTimeout \/ PlugCable
    PROVE  IInv' /\ OneMidiClockPerTick'
  <1>1. /\ UNCHANGED <<source, attached, clocks, adapter, tempo>> /\ out' = Quiet
        /\ midiAge' \in {"nil", "fresh", "stale"} /\ cable' \in BOOLEAN
    BY DEF MidiTimeout, PlugCable, IInv, TypeOK
  <1>2. TypeOK'
    BY <1>1 DEF IInv, TypeOK, Quiet
  <1> QED BY <1>1, <1>2 DEF IInv, SingleMaster, WaitsOnlyForJack, RequestKept,
          KnobAsked, OneMidiClockPerTick, Quiet

LEMMA PreferredSourceType == PreferredSource \in ClockSource
  BY DEF PreferredSource, ClockSource

LEMMA NextKeeps == IInv /\ OneMidiClockPerTick /\ [Next]_vars => IInv' /\ OneMidiClockPerTick'
  <1> SUFFICES ASSUME IInv, OneMidiClockPerTick, [Next]_vars
               PROVE  IInv' /\ OneMidiClockPerTick'
    OBVIOUS
  <1>1. CASE InternalTick
    <2>1. Hear(Tick("INTERNAL").source, Deliver(Chain, Tick("INTERNAL")))
      BY <1>1 DEF InternalTick, Tick
    <2>2. /\ Tick("INTERNAL") \in ClockEvent /\ ~Tick("INTERNAL").resync
          /\ Tick("INTERNAL").source # "MIDI"
      BY DEF Tick, ClockEvent, ClockSource
    <2> QED BY <1>1, <2>1, <2>2, TickKeeps DEF InternalTick
  <1>2. CASE MidiTick
    BY <1>2, MidiTickKeeps
  <1>3. CASE SyncBeat
    <2>1. Hear(Beat.source, Deliver(Chain, Beat))
      BY <1>3 DEF SyncBeat, Beat
    <2>2. Beat \in ClockEvent /\ ~Beat.resync /\ Beat.source # "MIDI"
      BY DEF Beat, ClockEvent, ClockSource
    <2> QED BY <1>3, <2>1, <2>2, TickKeeps DEF SyncBeat
  <1>4. CASE SyncTick
    <2>1. Hear(Tick("EXTERNAL_SYNC").source, Deliver(Chain, Tick("EXTERNAL_SYNC")))
      BY <1>4 DEF SyncTick, Tick
    <2>2. /\ Tick("EXTERNAL_SYNC") \in ClockEvent /\ ~Tick("EXTERNAL_SYNC").resync
          /\ Tick("EXTERNAL_SYNC").source # "MIDI"
      BY DEF Tick, ClockEvent, ClockSource
    <2> QED BY <1>4, <2>1, <2>2, TickKeeps DEF SyncTick
  <1>5. CASE AutoSwitch
    <2>1. IInv' /\ out'.raw = 0 /\ out'.midi = 0
      BY <1>5, PreferredSourceType, SetClockSourceKeeps DEF AutoSwitch
    <2> QED BY <2>1 DEF OneMidiClockPerTick
  <1>6. CASE MidiTimeout \/ PlugCable
    BY <1>6, SurroundingsKeep
  <1>7. CASE \E k \in Knob : TurnKnob(k)
    BY <1>7, TurnKnobKeeps
  <1>8. CASE StopPlayback \/ \E p \in Anchor : StartPlayback(p)
    BY <1>8, PlaybackKeeps
  <1>9. CASE UNCHANGED vars
    <2>1. IInv'
      BY <1>9 DEF vars, IInv, TypeOK, SingleMaster, WaitsOnlyForJack, RequestKept,
         KnobAsked
    <2> QED BY <1>9, <2>1 DEF vars, OneMidiClockPerTick
  <1> QED BY <1>1, <1>2, <1>3, <1>4, <1>5, <1>6, <1>7, <1>8, <1>9 DEF Next

\* The invariant holds in every behaviour of the chain.
THEOREM Invariance == Spec => [](IInv /\ OneMidiClockPerTick)
  <1>1. Init => IInv /\ OneMidiClockPerTick
    <2>1. Init => OneMidiClockPerTick
      BY DEF Init, OneMidiClockPerTick, Quiet
    <2> QED BY <2>1, InitIInv
  <1> QED BY <1>1, NextKeeps, PTL DEF Spec

-----------------------------------------------------------------------------
(* Theorems *)

\* Every variable stays in its type: in particular the phase always indexes
\* the alignment tables.
THEOREM TypeCorrect == Spec => []TypeOK
  BY Invariance, PTL DEF IInv

\* Exactly the current source is observed, and only it runs or echoes.
THEOREM SingleMasterAlways == Spec => []SingleMaster
  BY Invariance, PTL DEF IInv

\* A wait for a beat never outlives the sync jack as the source.
THEOREM WaitsOnlyForJackAlways == Spec => []WaitsOnlyForJack
  BY Invariance, PTL DEF IInv

\* The adapter never loses a modifier the tempo handler asked for.
THEOREM RequestNeverLost == Spec => []RequestKept
  BY Invariance, PTL DEF IInv

\* Each raw tick of the master leaves as exactly one MIDI clock byte.
THEOREM MidiClockNeverDoubled == Spec => []OneMidiClockPerTick
  BY Invariance, PTL

-----------------------------------------------------------------------------
(* The knob reaches the adapter *)

\* The adapter has heard the present source unless that is the jack, so a
\* change asked for away from the jack is never deferred.
HeardHere == source # "EXTERNAL_SYNC" => adapter.heard # "EXTERNAL_SYNC"

\* A change is applied at once unless the jack was heard last.
LEMMA SetModifierApplies ==
    ASSUME NEW a \in SpeedAdapter, NEW m \in SpeedModifier
    PROVE  /\ SetModifier(a, m).heard = a.heard
           /\ a.heard # "EXTERNAL_SYNC" => SetModifier(a, m).modifier = m
  <1>1. CASE a.modifier = m /\ a.pending = NoModifier
    BY <1>1 DEF SetModifier
  <1>2. CASE ~(a.modifier = m /\ a.pending = NoModifier) /\ a.heard = "EXTERNAL_SYNC"
    <2>1. SetModifier(a, m) = [a EXCEPT !.pending = m]
      BY <1>2 DEF SetModifier
    <2> QED BY <1>2, <2>1 DEF SpeedAdapter
  <1>3. CASE ~(a.modifier = m /\ a.pending = NoModifier) /\ a.heard # "EXTERNAL_SYNC"
    BY <1>3 DEF SetModifier
  <1> QED BY <1>1, <1>2, <1>3

\* An event leaves its source as the one heard; only a beat may change the
\* modifier in force, to the one asked for.
LEMMA DeliverHears ==
    ASSUME NEW c \in ChainType, NEW e \in ClockEvent
    PROVE  /\ Deliver(c, e).adapter.heard = e.source
           /\ ~e.beat \/ e.resync => Deliver(c, e).adapter.modifier = c.adapter.modifier
           /\ e.beat /\ ~e.resync =>
                Deliver(c, e).adapter.modifier = Requested(c.adapter)
  <1>1. c.adapter \in SpeedAdapter
    BY DEF ChainType
  <1>2. Deliver(c, e).adapter = AdapterHears(c.adapter, e)
    BY DEF Deliver
  <1> QED BY <1>1, <1>2 DEF AdapterHears, SpeedAdapter

\* What the knob asks reaches the adapter as one change of modifier.
LEMMA SetTempoControlAdapter ==
    ASSUME NEW c \in ChainType, NEW s \in ClockSource, NEW k \in Knob
    PROVE  SetTempoControl(c, s, k).adapter = SetModifier(c.adapter, KnobModifier(s, k))
  <1> DEFINE d == [c EXCEPT !.tempo.knob = k]
  <1>1. d.adapter = c.adapter /\ DOMAIN d = DOMAIN c
    BY DEF ChainType
  <1>2. c \in ChainType /\ d \in ChainType
    BY DEF ChainType, TempoHandler
  <1>3. SetTempoControl(c, s, k) = SetSpeedModifier(d, KnobModifier(s, k))
    BY DEF SetTempoControl
  <1> HIDE DEF d
  <1> QED BY <1>1, <1>2, <1>3 DEF SetSpeedModifier, ChainType

\* A source change asked for while the adapter has not heard the jack last
\* puts the knob in force at once.
LEMMA OnSourceChangedApplies ==
    ASSUME NEW c \in ChainType, NEW s \in ClockSource
    PROVE  /\ OnSourceChanged(c, s) \in ChainType
           /\ c.adapter.heard # "EXTERNAL_SYNC" =>
                OnSourceChanged(c, s).adapter.modifier = KnobModifier(s, c.tempo.knob)
  <1> DEFINE r == EndWait(c, s)
             n == IF s = "INTERNAL" THEN SetSpeedModifier(r, "NORMAL_SPEED") ELSE r
  <1>1. /\ r \in ChainType /\ r.adapter = c.adapter /\ r.tempo.knob = c.tempo.knob
        /\ c.tempo.knob \in Knob
    BY DEF EndWait, ChainType, TempoHandler, SyncState
  <1>2. KnobModifier(s, c.tempo.knob) \in SpeedModifier /\ "NORMAL_SPEED" \in SpeedModifier
    BY <1>1, KnobModifierType DEF SpeedModifier
  <1>3. n \in ChainType /\ n.adapter.heard = c.adapter.heard
    <2>1. CASE s = "INTERNAL"
      <3>1. n = SetSpeedModifier(r, "NORMAL_SPEED")
        BY <2>1
      <3>2. n \in ChainType
        BY <1>1, <1>2, <3>1, SetSpeedModifierAgrees
      <3>3. n.adapter = SetModifier(r.adapter, "NORMAL_SPEED")
        BY <1>1, <3>1 DEF SetSpeedModifier, ChainType
      <3>4. r.adapter \in SpeedAdapter
        BY <1>1 DEF ChainType
      <3>5. SetModifier(r.adapter, "NORMAL_SPEED").heard = r.adapter.heard
        BY <1>2, <3>4, SetModifierApplies
      <3> QED BY <1>1, <3>2, <3>3, <3>5
    <2>2. CASE s # "INTERNAL"
      BY <1>1, <2>2
    <2> QED BY <2>1, <2>2
  <1>4. OnSourceChanged(c, s) = SetTempoControl(n, s, c.tempo.knob)
    BY DEF OnSourceChanged
  <1> HIDE DEF n
  <1>5. OnSourceChanged(c, s).adapter
          = SetModifier(n.adapter, KnobModifier(s, c.tempo.knob))
    BY <1>1, <1>3, <1>4, SetTempoControlAdapter
  <1>6. n.adapter \in SpeedAdapter
    BY <1>3 DEF ChainType
  <1> QED BY <1>2, <1>3, <1>5, <1>6, SetModifierApplies, OnSourceChangedKeeps

\* A step of the router leaves the new source heard, unless it is the jack,
\* and the knob in force unless the jack was left.
LEMMA AutoSwitchApplies ==
    ASSUME IInv, HeardHere, AutoSwitch
    PROVE  HeardHere' /\ (source # "EXTERNAL_SYNC" => InForce')
  <1> DEFINE new == PreferredSource
             w == OnSourceChanged(Chain, new)
             c == IF new = "EXTERNAL_SYNC" THEN w ELSE Deliver(w, Resync(new))
  <1>1. /\ Chain \in ChainType /\ Chain.tempo = tempo /\ Chain.adapter = adapter
        /\ new \in ClockSource
    BY ChainNow, PreferredSourceType DEF IInv
  <1>2. source' = new /\ Becomes(c)
    BY DEF AutoSwitch, SetClockSource
  <1> HIDE DEF new
  <1>3. /\ w \in ChainType /\ w.tempo.knob = tempo.knob
        /\ adapter.heard # "EXTERNAL_SYNC" => w.adapter.modifier = KnobModifier(new, tempo.knob)
    BY <1>1, OnSourceChangedKeeps, OnSourceChangedApplies
  <1> HIDE DEF w
  <1>4. /\ Resync(new) \in ClockEvent /\ Resync(new).resync /\ Resync(new).source = new
    BY <1>1 DEF Resync, ClockEvent
  <1>5. /\ Deliver(w, Resync(new)).adapter.heard = new
        /\ Deliver(w, Resync(new)).adapter.modifier = w.adapter.modifier
        /\ Deliver(w, Resync(new)).tempo.knob = w.tempo.knob
    BY <1>3, <1>4, DeliverHears, DeliverKeeps
  <1>6. c.adapter.modifier = w.adapter.modifier /\ c.tempo.knob = tempo.knob
    BY <1>3, <1>5
  <1>7. HeardHere'
    BY <1>2, <1>5 DEF HeardHere, Becomes
  <1> HIDE DEF c
  <1>8. ASSUME source # "EXTERNAL_SYNC" PROVE InForce'
    BY <1>2, <1>3, <1>6, <1>8 DEF HeardHere, InForce, Becomes
  <1> QED BY <1>7, <1>8

LEMMA TurnKnobApplies ==
    ASSUME IInv, HeardHere, NEW k \in Knob, TurnKnob(k)
    PROVE  HeardHere' /\ (source # "EXTERNAL_SYNC" => InForce')
  <1>1. /\ Chain \in ChainType /\ Chain.adapter = adapter /\ Chain.tempo = tempo
        /\ source \in ClockSource /\ adapter \in SpeedAdapter /\ tempo \in TempoHandler
    BY ChainNow DEF IInv, TypeOK
  <1>2. source' = source /\ Becomes(SetTempoControl(Chain, source, k))
    BY DEF TurnKnob
  <1>3. /\ adapter' = SetModifier(adapter, KnobModifier(source, k))
        /\ KnobModifier(source, k) \in SpeedModifier
    BY <1>1, <1>2, SetTempoControlAdapter, KnobModifierType DEF Becomes
  <1>4. tempo'.knob = k
    <2>1. tempo' = [tempo EXCEPT !.knob = k, !.modifier = KnobModifier(source, k)]
      BY <1>1, <1>2, SetTempoControlAgrees, ZenonT(30) DEF Becomes
    <2> QED BY <1>1, <2>1 DEF TempoHandler
  <1>5. /\ adapter'.heard = adapter.heard
        /\ adapter.heard # "EXTERNAL_SYNC" => adapter'.modifier = KnobModifier(source, k)
    BY <1>1, <1>3, SetModifierApplies
  <1> QED BY <1>2, <1>4, <1>5 DEF HeardHere, InForce

\* An event other than a beat leaves the modifier alone, and only the
\* present source is heard.
LEMMA EventHeard ==
    ASSUME IInv, HeardHere, NEW c \in ChainType, NEW e \in ClockEvent,
           c.adapter.modifier = adapter.modifier, c.tempo.knob = tempo.knob,
           Becomes(Deliver(c, e)), source' = source, e.source = source,
           ~e.beat \/ e.resync
    PROVE  HeardHere' /\ (InForce => InForce')
  BY DeliverHears, DeliverKeeps DEF HeardHere, InForce, Becomes

\* Nothing is heard of a source the router is not attached to.
LEMMA NothingHeard ==
    ASSUME HeardHere, Becomes(Chain), source' = source
    PROVE  HeardHere' /\ (InForce => InForce')
  BY DEF HeardHere, InForce, Becomes, Chain

\* What one step does to the modifier in force.
KnobStep ==
    /\ source # "EXTERNAL_SYNC" /\ (AutoSwitch \/ \E k \in Knob : TurnKnob(k)) => InForce'
    /\ source = "EXTERNAL_SYNC" /\ SyncBeat => InForce'
    /\ InForce /\ ~InForce' => source = "EXTERNAL_SYNC"

LEMMA SyncBeatHeard ==
    ASSUME IInv, HeardHere, SyncBeat
    PROVE  HeardHere' /\ (source = "EXTERNAL_SYNC" \/ InForce => InForce')
  <1>1. /\ Chain \in ChainType /\ Chain.adapter = adapter /\ Chain.tempo = tempo
        /\ attached = {source} /\ source' = source
    BY ChainNow DEF IInv, SingleMaster, SyncBeat
  <1>2. CASE source # "EXTERNAL_SYNC"
    BY <1>1, <1>2, NothingHeard DEF SyncBeat, Hear
  <1>3. CASE source = "EXTERNAL_SYNC"
    <2>1. Becomes(Deliver(Chain, Beat))
      BY <1>1, <1>3 DEF SyncBeat, Hear
    <2>2. Beat \in ClockEvent /\ Beat.beat /\ ~Beat.resync
      BY DEF Beat, ClockEvent, ClockSource
    <2>3. adapter'.modifier = Requested(adapter) /\ tempo'.knob = tempo.knob
      BY <1>1, <2>1, <2>2, DeliverHears, DeliverKeeps DEF Becomes
    <2>4. Requested(adapter) = KnobModifier(source, tempo.knob)
      BY DEF IInv, RequestKept, KnobAsked
    <2> QED BY <1>1, <1>3, <2>3, <2>4 DEF HeardHere, InForce
  <1> QED BY <1>2, <1>3

LEMMA TicksHeard ==
    ASSUME IInv, HeardHere, InternalTick \/ SyncTick \/ MidiTick
    PROVE  HeardHere' /\ (InForce => InForce')
  <1>1. /\ Chain \in ChainType /\ Chain.adapter = adapter /\ Chain.tempo = tempo
        /\ attached = {source} /\ source' = source
    BY ChainNow DEF IInv, SingleMaster, InternalTick, SyncTick, MidiTick
  <1>2. \A s \in ClockSource : /\ Tick(s) \in ClockEvent /\ Tick(s).source = s
                               /\ ~Tick(s).beat
                               /\ Resync(s) \in ClockEvent /\ Resync(s).resync
    BY DEF Tick, Resync, ClockEvent
  <1>3. "INTERNAL" \in ClockSource /\ "MIDI" \in ClockSource /\ "EXTERNAL_SYNC" \in ClockSource
    BY DEF ClockSource
  <1>4. ASSUME NEW s \in ClockSource, Hear(s, Deliver(Chain, Tick(s)))
        PROVE  HeardHere' /\ (InForce => InForce')
    <2>1. CASE s = source
      BY <1>1, <1>2, <1>4, <2>1, EventHeard DEF Hear
    <2>2. CASE s # source
      BY <1>1, <1>4, <2>2, NothingHeard DEF Hear
    <2> QED BY <2>1, <2>2
  <1>5. CASE InternalTick \/ SyncTick
    BY <1>3, <1>4, <1>5 DEF InternalTick, SyncTick
  <1>6. CASE MidiTick
    <2>1. CASE source # "MIDI"
      <3>1. Becomes(Chain)
        BY <1>1, <1>6, <2>1 DEF MidiTick, IInv, SingleMaster
      <3> QED BY <1>1, <3>1, NothingHeard
    <2>2. CASE source = "MIDI"
      <3> DEFINE y == IF midiAge = "fresh" THEN Chain ELSE Deliver(Chain, Resync("MIDI"))
                 d == Deliver(y, Tick("MIDI"))
      <3>1. /\ y \in ChainType /\ y.adapter.modifier = adapter.modifier
            /\ y.tempo.knob = tempo.knob
        <4>1. /\ Deliver(Chain, Resync("MIDI")) \in ChainType
              /\ Deliver(Chain, Resync("MIDI")).adapter.modifier = Chain.adapter.modifier
              /\ Deliver(Chain, Resync("MIDI")).tempo.knob = Chain.tempo.knob
          BY <1>1, <1>2, <1>3, DeliverHears, DeliverKeeps
        <4> QED BY <1>1, <4>1
      <3>2. /\ adapter' = d.adapter \/ adapter' = [d EXCEPT !.out.midi = @ + 1].adapter
            /\ tempo' = d.tempo \/ tempo' = [d EXCEPT !.out.midi = @ + 1].tempo
        BY <1>1, <1>6, <2>2 DEF MidiTick, Becomes
      <3> HIDE DEF y
      <3>3. d \in ChainType /\ d.tempo.knob = tempo.knob
        BY <1>2, <1>3, <3>1, DeliverKeeps
      <3>4. d.adapter.heard = "MIDI" /\ d.adapter.modifier = adapter.modifier
        BY <1>2, <1>3, <3>1, DeliverHears
      <3> HIDE DEF d
      <3>5. adapter' = d.adapter /\ tempo' = d.tempo
        BY <3>2, <3>3 DEF ChainType
      <3> QED BY <1>1, <2>2, <3>3, <3>4, <3>5 DEF HeardHere, InForce
    <2> QED BY <2>1, <2>2
  <1> QED BY <1>5, <1>6

LEMMA KnobStepHolds ==
    ASSUME IInv, HeardHere, [Next]_vars
    PROVE  HeardHere' /\ [KnobStep]_vars
  <1> DEFINE Elsewhere == MidiTimeout \/ PlugCable \/ StopPlayback
                          \/ (\E p \in Anchor : StartPlayback(p)) \/ UNCHANGED vars
  <1>1. ASSUME AutoSwitch PROVE HeardHere' /\ (source # "EXTERNAL_SYNC" => InForce')
    BY <1>1, AutoSwitchApplies
  <1>2. ASSUME NEW k \in Knob, TurnKnob(k)
        PROVE  HeardHere' /\ (source # "EXTERNAL_SYNC" => InForce')
    BY <1>2, TurnKnobApplies
  <1>3. ASSUME SyncBeat
        PROVE  HeardHere' /\ (source = "EXTERNAL_SYNC" \/ InForce => InForce')
    BY <1>3, SyncBeatHeard
  <1>4. ASSUME InternalTick \/ SyncTick \/ MidiTick
        PROVE  HeardHere' /\ (InForce => InForce')
    BY <1>4, TicksHeard
  <1>5. ASSUME Elsewhere PROVE HeardHere' /\ (InForce => InForce')
    <2>1. tempo \in TempoHandler
      BY DEF IInv, TypeOK
    <2>2. CASE MidiTimeout \/ PlugCable \/ UNCHANGED vars
      BY <2>2 DEF MidiTimeout, PlugCable, vars, HeardHere, InForce
    <2>3. CASE StopPlayback
      BY <2>1, <2>3 DEF StopPlayback, TempoHandler, HeardHere, InForce
    <2>4. ASSUME NEW p \in Anchor, StartPlayback(p)
          PROVE  HeardHere' /\ (InForce => InForce')
      <3>1. adapter' = adapter /\ source' = source
        BY <2>4 DEF StartPlayback
      <3>2. tempo'.knob = tempo.knob
        BY <2>1, <2>4 DEF StartPlayback, TempoHandler
      <3> QED BY <3>1, <3>2 DEF HeardHere, InForce
    <2> QED BY <1>5, <2>2, <2>3, <2>4
  <1>6. AutoSwitch \/ (\E k \in Knob : TurnKnob(k)) \/ SyncBeat
          \/ (InternalTick \/ SyncTick \/ MidiTick) \/ Elsewhere
    BY DEF Next
  <1> HIDE DEF Elsewhere
  <1>7. HeardHere' /\ (InForce /\ ~InForce' => source = "EXTERNAL_SYNC")
    BY <1>1, <1>2, <1>3, <1>4, <1>5, <1>6
  <1> QED BY <1>1, <1>2, <1>3, <1>7 DEF KnobStep

\* Away from the jack a turn of the knob or a source change is in force at
\* once, at the jack from the next beat on; nothing but a change asked for at
\* the jack takes the knob out of force.
THEOREM KnobAlwaysInForce == Spec => KnobInForce
  <1>1. Init => HeardHere
    BY DEF Init, HeardHere
  <1>2. IInv /\ HeardHere /\ [Next]_vars => HeardHere' /\ [KnobStep]_vars
    BY KnobStepHolds
  <1>3. IInv' => /\ ~InForce' => adapter'.pending = KnobModifier(source', tempo'.knob)
                 /\ source' = "INTERNAL" => clocks'.bpm = tempo'.knob
    BY DEF IInv, RequestKept, Requested, KnobAsked, InForce
  <1>4. IInv' /\ [KnobStep]_vars =>
          [/\ source # "EXTERNAL_SYNC" /\ (AutoSwitch \/ \E k \in Knob : TurnKnob(k)) => InForce'
           /\ source = "EXTERNAL_SYNC" /\ SyncBeat => InForce'
           /\ InForce /\ ~InForce' => source = "EXTERNAL_SYNC"
           /\ ~InForce' => adapter'.pending = KnobModifier(source', tempo'.knob)
           /\ source' = "INTERNAL" => clocks'.bpm = tempo'.knob]_vars
    BY <1>3 DEF KnobStep
  <1> QED BY <1>1, <1>2, <1>4, Invariance, PTL DEF Spec, KnobInForce

-----------------------------------------------------------------------------
(* The chain implements the abstract stream *)

Waiting(t) == t.sync = "WAITING_FOR_BEAT"

\* A waiting handler ignores an event that is no beat; otherwise a tick
\* advances the phase by one and a resync resets it.
LEMMA TempoHearsEvent ==
    ASSUME NEW t \in TempoHandler, NEW e \in ClockEvent, ~e.beat
    PROVE  /\ Waiting(t) => TempoHears(t, e) = t
           /\ ~Waiting(t) => /\ ~Waiting(TempoHears(t, e))
                             /\ TempoHears(t, e).phase
                                  = IF e.resync THEN 0 ELSE (t.phase + 1) % 12
  <1>1. t.sync \in {"RUNNING", "WAITING_FOR_BEAT"}
    BY DEF TempoHandler, SyncState
  <1>2. SyncAfter(t, e) = t.sync
    BY DEF SyncAfter
  <1>3. NextPhase(t, e) = IF e.resync THEN 0 ELSE (t.phase + 1) % 12
    BY DEF NextPhase
  <1>4. CASE Waiting(t)
    BY <1>2, <1>4 DEF TempoHears, Waiting
  <1>5. CASE ~Waiting(t)
    <2>1. TempoHears(t, e) = [t EXCEPT !.sync = "RUNNING", !.phase = NextPhase(t, e)]
      BY <1>2, <1>5 DEF TempoHears, Waiting
    <2> QED BY <1>3, <1>5, <2>1 DEF TempoHandler, Waiting
  <1> QED BY <1>4, <1>5

\* A beat of the jack ends the wait at a quarter of the cycle.
LEMMA TempoHearsBeat ==
    ASSUME NEW t \in TempoHandler
    PROVE  /\ ~Waiting(TempoHears(t, Beat))
           /\ TempoHears(t, Beat).phase \in {0, 3, 6, 9}
  <1>1. SyncAfter(t, Beat) = "RUNNING" /\ NextPhase(t, Beat) = AlignedPhase(t.modifier, t.phase)
    BY DEF SyncAfter, NextPhase, Beat
  <1>2. TempoHears(t, Beat) = [t EXCEPT !.sync = "RUNNING", !.phase = NextPhase(t, Beat)]
    BY <1>1 DEF TempoHears
  <1>3. t.modifier \in SpeedModifier /\ t.phase \in 0..11
    BY DEF TempoHandler, Phase
  <1>4. AlignedPhase(t.modifier, t.phase) \in {0, 3, 6, 9}
    <2>1. CASE t.modifier = "HALF_SPEED"
      <3>1. AlignedPhase(t.modifier, t.phase) = (((t.phase + 1) \div 3) * 3) % 12
        BY <2>1 DEF AlignedPhase, GridWidth
      <3> QED BY <1>3, <3>1
    <2>2. CASE t.modifier = "NORMAL_SPEED"
      <3>1. AlignedPhase(t.modifier, t.phase) = (((t.phase + 3) \div 6) * 6) % 12
        BY <2>2 DEF AlignedPhase, GridWidth
      <3> QED BY <1>3, <3>1
    <2>3. CASE t.modifier = "DOUBLE_SPEED"
      <3>1. AlignedPhase(t.modifier, t.phase) = (((t.phase + 6) \div 12) * 12) % 12
        BY <2>3 DEF AlignedPhase, GridWidth
      <3> QED BY <1>3, <3>1
    <2> QED BY <1>3, <2>1, <2>2, <2>3 DEF SpeedModifier
  <1> QED BY <1>1, <1>2, <1>4 DEF TempoHandler, Waiting

\* The adapter passes on every resync and every beat, and of the ticks some.
LEMMA Delivered ==
    ASSUME NEW c \in ChainType, NEW e \in ClockEvent
    PROVE  /\ Deliver(c, e).tempo \in {c.tempo, TempoHears(c.tempo, e)}
           /\ e.resync \/ e.beat => Deliver(c, e).tempo = TempoHears(c.tempo, e)
  BY DEF Deliver, AdapterForwards

\* A raw tick that reaches the chain advances the stream or leaves it alone.
LEMMA TickAdvances ==
    ASSUME IInv, NEW e \in ClockEvent, ~e.beat, ~e.resync,
           Becomes(Deliver(Chain, e)) \/ Becomes(Chain), source' = source
    PROVE  [Stream!Next]_(Stream!vars)
  <1>1. Chain \in ChainType /\ Chain.tempo = tempo /\ tempo \in TempoHandler
    BY ChainNow DEF IInv, TypeOK
  <1>2. tempo' \in {tempo, TempoHears(tempo, e)}
    BY <1>1, Delivered DEF Becomes
  <1>3. CASE tempo' = tempo
    BY <1>3 DEF Stream!vars
  <1>4. CASE tempo' = TempoHears(tempo, e) /\ Waiting(tempo)
    <2>1. tempo' = tempo
      BY <1>1, <1>4, TempoHearsEvent
    <2> QED BY <2>1 DEF Stream!vars
  <1>5. CASE tempo' = TempoHears(tempo, e) /\ ~Waiting(tempo)
    <2>1. ~Waiting(tempo)' /\ tempo'.phase = (tempo.phase + 1) % 12
      BY <1>1, <1>5, TempoHearsEvent DEF Waiting
    <2>2. Stream!Advance
      BY <1>5, <2>1 DEF Stream!Advance, Waiting
    <2> QED BY <2>2 DEF Stream!Next
  <1> QED BY <1>2, <1>3, <1>4, <1>5

\* A MIDI tick advances the stream, or restarts it when the clock was silent.
LEMMA MidiTickIsStream ==
    ASSUME IInv, MidiTick
    PROVE  [Stream!Next]_(Stream!vars)
  <1>1. /\ Chain \in ChainType /\ Chain.tempo = tempo /\ tempo \in TempoHandler
        /\ attached = {source} /\ source' = source
    BY ChainNow DEF IInv, TypeOK, SingleMaster, MidiTick
  <1>2. /\ Tick("MIDI") \in ClockEvent /\ ~Tick("MIDI").beat /\ ~Tick("MIDI").resync
        /\ Resync("MIDI") \in ClockEvent /\ ~Resync("MIDI").beat /\ Resync("MIDI").resync
    BY DEF Tick, Resync, ClockEvent, ClockSource
  <1> DEFINE synced == IF midiAge = "fresh" THEN Chain ELSE Deliver(Chain, Resync("MIDI"))
             ticked == IF "MIDI" \in attached THEN Deliver(synced, Tick("MIDI")) ELSE Chain
  <1>3. tempo' = ticked.tempo
    <2>1. Becomes(IF clocks.echo THEN [ticked EXCEPT !.out.midi = @ + 1] ELSE ticked)
      BY DEF MidiTick
    <2>2. ticked \in [adapter : SpeedAdapter, tempo : TempoHandler,
                      out : [raw : Nat, midi : Nat, tempo : Nat]]
      BY <1>1, <1>2, DeliverKeeps DEF ChainType
    <2> HIDE DEF ticked
    <2>3. [ticked EXCEPT !.out.midi = @ + 1].tempo = ticked.tempo
      BY <2>2
    <2> QED BY <2>1, <2>3 DEF Becomes
  <1>4. CASE source # "MIDI"
    <2>1. tempo' = tempo
      BY <1>1, <1>3, <1>4
    <2> QED BY <1>1, <2>1 DEF Stream!vars
  <1>5. CASE source = "MIDI" /\ midiAge = "fresh"
    <2>1. tempo' = Deliver(Chain, Tick("MIDI")).tempo
      BY <1>1, <1>3, <1>5
    <2>2. tempo' \in {tempo, TempoHears(tempo, Tick("MIDI"))}
      BY <1>1, <1>2, <2>1, Delivered
    <2>3. ~Waiting(tempo)
      BY <1>5 DEF IInv, WaitsOnlyForJack, Waiting
    <2>4. tempo' = tempo \/ (~Waiting(tempo)' /\ tempo'.phase = (tempo.phase + 1) % 12)
      BY <1>1, <1>2, <2>2, <2>3, TempoHearsEvent DEF Waiting
    <2>5. tempo' = tempo \/ Stream!Advance
      BY <1>1, <2>3, <2>4 DEF Stream!Advance, Waiting
    <2> QED BY <1>1, <2>5 DEF Stream!Next, Stream!vars
  <1>6. CASE source = "MIDI" /\ midiAge # "fresh"
    <2> DEFINE y == Deliver(Chain, Resync("MIDI"))
    <2>1. tempo' = Deliver(y, Tick("MIDI")).tempo
      BY <1>1, <1>3, <1>6
    <2>2. ~Waiting(tempo)
      BY <1>6 DEF IInv, WaitsOnlyForJack, Waiting
    <2>3. y \in ChainType /\ y.tempo \in TempoHandler
      BY <1>1, <1>2, DeliverKeeps DEF ChainType
    <2>4. y.tempo.phase = 0 /\ ~Waiting(y.tempo)
      BY <1>1, <1>2, <2>2, Delivered, TempoHearsEvent
    <2> HIDE DEF y
    <2>5. tempo' \in {y.tempo, TempoHears(y.tempo, Tick("MIDI"))}
      BY <1>2, <2>1, <2>3, Delivered
    <2>6. ~Waiting(tempo)' /\ tempo'.phase \in {0, 1}
      BY <1>2, <2>3, <2>4, <2>5, TempoHearsEvent DEF Waiting
    <2>7. Stream!Restart
      BY <1>1, <1>6, <2>2, <2>6 DEF Stream!Restart, Waiting
    <2> QED BY <2>7 DEF Stream!Next
  <1> QED BY <1>4, <1>5, <1>6

\* A source change is a change of the stream's master.
LEMMA SetClockSourceIsStream ==
    ASSUME IInv, NEW new \in ClockSource, new # source, SetClockSource(new)
    PROVE  Stream!ChangeMaster(new)
  <1> DEFINE w == OnSourceChanged(Chain, new)
  <1>1. Chain \in ChainType /\ Chain.tempo = tempo
    BY ChainNow DEF IInv
  <1>2. /\ w \in ChainType /\ w.tempo \in TempoHandler
        /\ w.tempo.phase = tempo.phase
        /\ new # "EXTERNAL_SYNC" => ~Waiting(w.tempo)
        /\ new = "EXTERNAL_SYNC" => w.tempo.sync = tempo.sync
    BY <1>1, OnSourceChangedKeeps DEF ChainType, Waiting
  <1>3. /\ source' = new
        /\ Becomes(IF new = "EXTERNAL_SYNC" THEN w ELSE Deliver(w, Resync(new)))
    BY DEF SetClockSource
  <1> HIDE DEF w
  <1>4. CASE new = "EXTERNAL_SYNC"
    <2>1. tempo'.phase = tempo.phase /\ tempo'.sync = tempo.sync
      BY <1>2, <1>3, <1>4 DEF Becomes
    <2> QED BY <1>3, <1>4, <2>1 DEF Stream!ChangeMaster
  <1>5. CASE new # "EXTERNAL_SYNC"
    <2>1. Resync(new) \in ClockEvent /\ Resync(new).resync /\ ~Resync(new).beat
      BY DEF Resync, ClockEvent
    <2>2. tempo' = TempoHears(w.tempo, Resync(new))
      BY <1>2, <1>3, <1>5, <2>1, Delivered DEF Becomes
    <2>3. ~Waiting(tempo)' /\ tempo'.phase = 0
      BY <1>2, <1>5, <2>1, <2>2, TempoHearsEvent DEF Waiting
    <2> QED BY <1>3, <1>5, <2>3 DEF Stream!ChangeMaster, Waiting
  <1> QED BY <1>4, <1>5

LEMMA NextIsStream == IInv /\ [Next]_vars => [Stream!Next]_(Stream!vars)
  <1> SUFFICES ASSUME IInv, [Next]_vars PROVE [Stream!Next]_(Stream!vars)
    OBVIOUS
  <1>0. /\ Chain \in ChainType /\ Chain.tempo = tempo /\ tempo \in TempoHandler
        /\ attached = {source} /\ source \in ClockSource
    BY ChainNow DEF IInv, TypeOK, SingleMaster
  <1>1. ASSUME NEW s \in ClockSource, Hear(s, Deliver(Chain, Tick(s))), source' = source
        PROVE  [Stream!Next]_(Stream!vars)
    <2>1. Tick(s) \in ClockEvent /\ ~Tick(s).beat /\ ~Tick(s).resync
      BY DEF Tick, ClockEvent
    <2> QED BY <1>1, <2>1, TickAdvances DEF Hear
  <1>2. CASE InternalTick \/ SyncTick
    BY <1>1, <1>2 DEF InternalTick, SyncTick, ClockSource
  <1>3. CASE MidiTick
    BY <1>3, MidiTickIsStream
  <1>4. CASE SyncBeat
    <2>1. CASE source = "EXTERNAL_SYNC"
      <3>1. Becomes(Deliver(Chain, Beat)) /\ source' = source
        BY <1>0, <1>4, <2>1 DEF SyncBeat, Hear
      <3>2. Beat \in ClockEvent /\ Beat.beat
        BY DEF Beat, ClockEvent, ClockSource
      <3>3. tempo' = TempoHears(tempo, Beat)
        BY <1>0, <3>1, <3>2, Delivered DEF Becomes
      <3>4. ~Waiting(tempo)' /\ tempo'.phase \in {0, 3, 6, 9}
        BY <1>0, <3>3, TempoHearsBeat DEF Waiting
      <3>5. Stream!Downbeat
        BY <2>1, <3>1, <3>4 DEF Stream!Downbeat, Waiting
      <3> QED BY <3>5 DEF Stream!Next
    <2>2. CASE source # "EXTERNAL_SYNC"
      <3>1. tempo' = tempo /\ source' = source
        BY <1>0, <1>4, <2>2 DEF SyncBeat, Hear, Becomes
      <3> QED BY <3>1 DEF Stream!vars
    <2> QED BY <2>1, <2>2
  <1>5. CASE AutoSwitch
    <2>1. Stream!ChangeMaster(PreferredSource)
      BY <1>5, PreferredSourceType, SetClockSourceIsStream DEF AutoSwitch
    <2> QED BY <2>1, PreferredSourceType DEF Stream!Next, ClockSource
  <1>6. CASE \E k \in Knob : TurnKnob(k)
    <2> PICK k \in Knob : TurnKnob(k)
      BY <1>6
    <2>1. /\ tempo' = [tempo EXCEPT !.knob = k, !.modifier = KnobModifier(source, k)]
          /\ source' = source
      <3>1. SetTempoControl(Chain, source, k).tempo
              = [Chain.tempo EXCEPT !.knob = k, !.modifier = KnobModifier(source, k)]
        BY <1>0, SetTempoControlAgrees, ZenonT(30)
      <3>2. tempo' = SetTempoControl(Chain, source, k).tempo /\ source' = source
        BY DEF TurnKnob, Becomes
      <3> QED BY <1>0, <3>1, <3>2
    <2>2. tempo'.phase = tempo.phase /\ tempo'.sync = tempo.sync
      BY <1>0, <2>1 DEF TempoHandler
    <2> QED BY <2>1, <2>2 DEF Stream!vars
  <1>7. CASE \E p \in Anchor : StartPlayback(p)
    <2> PICK p \in Anchor : StartPlayback(p)
      BY <1>7
    <2>1. CASE source = "EXTERNAL_SYNC"
      <3>1. /\ tempo' = [tempo EXCEPT !.playing = TRUE, !.sync = "WAITING_FOR_BEAT"]
            /\ source' = source
        BY <2>1 DEF StartPlayback
      <3>2. Waiting(tempo)' /\ tempo'.phase = tempo.phase
        BY <1>0, <3>1 DEF TempoHandler, Waiting
      <3>3. Stream!Hold
        BY <2>1, <3>1, <3>2 DEF Stream!Hold, Waiting
      <3> QED BY <3>3 DEF Stream!Next
    <2>2. CASE source # "EXTERNAL_SYNC"
      <3>1. tempo' = [tempo EXCEPT !.playing = TRUE, !.phase = p] /\ source' = source
        BY <2>2 DEF StartPlayback
      <3>2. tempo'.sync = tempo.sync /\ tempo'.phase = p
        BY <1>0, <3>1 DEF TempoHandler
      <3>3. Stream!AnchorPlayback
        BY <2>2, <3>1, <3>2 DEF Stream!AnchorPlayback
      <3> QED BY <3>3 DEF Stream!Next
    <2> QED BY <2>1, <2>2
  <1>8. CASE StopPlayback \/ MidiTimeout \/ PlugCable \/ UNCHANGED vars
    <2>1. tempo' = tempo \/ tempo' = [tempo EXCEPT !.playing = FALSE]
      BY <1>8 DEF StopPlayback, MidiTimeout, PlugCable, vars
    <2>2. tempo'.phase = tempo.phase /\ tempo'.sync = tempo.sync
      BY <1>0, <2>1 DEF TempoHandler
    <2>3. source' = source
      BY <1>8 DEF StopPlayback, MidiTimeout, PlugCable, vars
    <2> QED BY <2>2, <2>3 DEF Stream!vars
  <1> QED BY <1>2, <1>3, <1>4, <1>5, <1>6, <1>7, <1>8 DEF Next

\* The clock chain implements the stream of TempoEvents it promises the
\* sequencer: phases advance one by one and jump only at a beat of the jack,
\* a restart of the MIDI clock, a source change or a start of playback.
THEOREM StreamImplemented == Spec => ImplementsStream
  <1>1. Init => Stream!Init
    BY DEF Init, Stream!Init
  <1>2. IInv /\ [Next]_vars => [Stream!Next]_(Stream!vars)
    BY NextIsStream
  <1>3. Spec => []IInv
    BY Invariance, PTL
  <1>4. Spec => Stream!Spec
    BY <1>1, <1>2, <1>3, PTL DEF Spec, Stream!Spec
  <1> QED BY <1>4 DEF ImplementsStream
-----------------------------------------------------------------------------
(* The action properties *)

\* A handler that waits after an event was waiting before it, and has let
\* nothing through.
LEMMA DeliverWaiting ==
    ASSUME NEW c \in ChainType, NEW e \in ClockEvent, Waiting(Deliver(c, e).tempo)
    PROVE  Deliver(c, e).tempo = c.tempo /\ Deliver(c, e).out.tempo = c.out.tempo
  <1>1. c.tempo \in TempoHandler /\ c.out.tempo \in Nat
    BY DEF ChainType
  <1>2. /\ Deliver(c, e).tempo = IF AdapterForwards(c.adapter, e)
                                   THEN TempoHears(c.tempo, e) ELSE c.tempo
        /\ Deliver(c, e).out.tempo
             = c.out.tempo + (IF AdapterForwards(c.adapter, e) /\ TempoEmits(c.tempo, e)
                                THEN 1 ELSE 0)
    BY DEF Deliver
  <1>3. CASE ~AdapterForwards(c.adapter, e)
    BY <1>1, <1>2, <1>3
  <1>4. CASE AdapterForwards(c.adapter, e)
    <2>1. CASE SyncAfter(c.tempo, e) = "WAITING_FOR_BEAT"
      <3>1. TempoHears(c.tempo, e) = c.tempo /\ ~TempoEmits(c.tempo, e)
        BY <2>1 DEF TempoHears, TempoEmits
      <3> QED BY <1>1, <1>2, <3>1
    <2>2. CASE SyncAfter(c.tempo, e) # "WAITING_FOR_BEAT"
      <3>1. TempoHears(c.tempo, e)
              = [c.tempo EXCEPT !.sync = "RUNNING", !.phase = NextPhase(c.tempo, e)]
        BY <2>2 DEF TempoHears
      <3>2. TempoHears(c.tempo, e).sync = "RUNNING"
        BY <1>1, <3>1 DEF TempoHandler
      <3> QED BY <1>2, <1>4, <3>2 DEF Waiting
    <2> QED BY <2>1, <2>2
  <1> QED BY <1>3, <1>4

\* Only the jack's own ticks, and what does not touch the phase, leave a
\* handler waiting.
LEMMA NextIsSilent ==
    ASSUME IInv, IInv', [Next]_vars, Waiting(tempo)', ~UNCHANGED vars
    PROVE  out'.tempo = 0 /\ tempo'.phase = tempo.phase
  <1>0. /\ Chain \in ChainType /\ Chain.tempo = tempo /\ tempo \in TempoHandler
        /\ Chain.out = Quiet /\ Quiet.tempo = 0
        /\ attached = {source} /\ source \in ClockSource
    BY ChainNow DEF IInv, TypeOK, SingleMaster, Quiet
  <1>1. source' = "EXTERNAL_SYNC"
    BY DEF IInv, WaitsOnlyForJack, Waiting
  <1>2. ASSUME Becomes(Chain) PROVE out'.tempo = 0 /\ tempo'.phase = tempo.phase
    BY <1>0, <1>2 DEF Becomes
  <1>3. CASE InternalTick
    <2>1. Becomes(Chain)
      BY <1>0, <1>1, <1>3 DEF InternalTick, Hear
    <2> QED BY <1>2, <2>1
  <1>4. CASE MidiTick
    <2>1. source = "EXTERNAL_SYNC" /\ ~clocks.echo
      BY <1>1, <1>4 DEF MidiTick, IInv, SingleMaster
    <2>2. Becomes(Chain)
      BY <1>0, <1>4, <2>1 DEF MidiTick
    <2> QED BY <1>2, <2>2
  <1>5. CASE SyncTick \/ SyncBeat
    <2>1. PICK e \in {Tick("EXTERNAL_SYNC"), Beat} :
            Becomes(Deliver(Chain, e)) \/ Becomes(Chain)
      BY <1>5 DEF SyncTick, SyncBeat, Hear
    <2>2. e \in ClockEvent
      BY TickTypes DEF ClockSource
    <2>3. CASE Becomes(Deliver(Chain, e))
      <3>1. tempo' = Deliver(Chain, e).tempo /\ out' = Deliver(Chain, e).out
        BY <2>3 DEF Becomes
      <3>2. Waiting(Deliver(Chain, e).tempo)
        BY <3>1 DEF Waiting
      <3> QED BY <1>0, <2>2, <3>1, <3>2, DeliverWaiting
    <2> QED BY <1>2, <2>1, <2>3
  <1>6. CASE AutoSwitch
    <2> DEFINE w == OnSourceChanged(Chain, "EXTERNAL_SYNC")
    <2>1. Becomes(w)
      BY <1>1, <1>6 DEF AutoSwitch, SetClockSource
    <2>2. w.out = Chain.out /\ w.tempo.phase = Chain.tempo.phase
      BY <1>0, OnSourceChangedKeeps DEF ClockSource
    <2> HIDE DEF w
    <2> QED BY <1>0, <2>1, <2>2 DEF Becomes
  <1>7. CASE \E k \in Knob : TurnKnob(k)
    <2> PICK k \in Knob : TurnKnob(k)
      BY <1>7
    <2> DEFINE c == SetTempoControl(Chain, source, k)
    <2>1. Becomes(c)
      BY DEF TurnKnob
    <2>2. /\ c.out = Chain.out
          /\ c.tempo = [Chain.tempo EXCEPT !.knob = k, !.modifier = KnobModifier(source, k)]
      BY <1>0, SetTempoControlAgrees, ZenonT(30)
    <2> HIDE DEF c
    <2>3. c.tempo.phase = tempo.phase
      BY <1>0, <2>2 DEF TempoHandler
    <2> QED BY <1>0, <2>1, <2>2, <2>3 DEF Becomes
  <1>8. CASE \E p \in Anchor : StartPlayback(p)
    <2> PICK p \in Anchor : StartPlayback(p)
      BY <1>8
    <2>1. source = "EXTERNAL_SYNC"
      BY <1>1 DEF StartPlayback
    <2>2. /\ out' = Quiet
          /\ tempo' = [tempo EXCEPT !.playing = TRUE, !.sync = "WAITING_FOR_BEAT"]
      BY <2>1 DEF StartPlayback
    <2> QED BY <1>0, <2>2 DEF TempoHandler
  <1>9. CASE StopPlayback \/ MidiTimeout \/ PlugCable
    <2>1. out' = Quiet /\ (tempo' = tempo \/ tempo' = [tempo EXCEPT !.playing = FALSE])
      BY <1>9 DEF StopPlayback, MidiTimeout, PlugCable
    <2> QED BY <1>0, <2>1 DEF TempoHandler
  <1> QED BY <1>3, <1>4, <1>5, <1>6, <1>7, <1>8, <1>9 DEF Next

\* While the handler waits for a beat the sequencer hears nothing and the
\* phase stands still.
THEOREM WaitIsSilent == Spec => SilentWhileWaiting
  <1>1. IInv /\ IInv' /\ [Next]_vars
          => [tempo'.sync = "WAITING_FOR_BEAT"
                => out'.tempo = 0 /\ tempo'.phase = tempo.phase]_vars
    <2> SUFFICES ASSUME IInv, IInv', [Next]_vars, ~UNCHANGED vars, Waiting(tempo)'
                 PROVE  out'.tempo = 0 /\ tempo'.phase = tempo.phase
      BY DEF Waiting
    <2> QED BY NextIsSilent
  <1>2. Spec => []IInv
    BY Invariance, PTL
  <1> QED BY <1>1, <1>2, PTL DEF Spec, SilentWhileWaiting

\* A beat finds the adapter and the handler agreed on the modifier that is in
\* force from then on.
LEMMA BeatIsOnGrid ==
    ASSUME IInv, SyncBeat, source = "EXTERNAL_SYNC"
    PROVE  /\ tempo'.sync = "RUNNING"
           /\ tempo'.phase % GridWidth[adapter'.modifier] = 0
           /\ out'.tempo = 1
  <1>1. /\ Chain \in ChainType /\ Chain.tempo = tempo /\ tempo \in TempoHandler
        /\ Chain.adapter = adapter /\ adapter \in SpeedAdapter /\ Chain.out = Quiet
        /\ "EXTERNAL_SYNC" \in attached
    BY ChainNow DEF IInv, TypeOK, SingleMaster
  <1>2. Becomes(Deliver(Chain, Beat))
    BY <1>1 DEF SyncBeat, Hear
  <1>3. /\ AdapterForwards(adapter, Beat) /\ TempoEmits(tempo, Beat)
        /\ AdapterHears(adapter, Beat).modifier = Requested(adapter)
        /\ TempoHears(tempo, Beat)
             = [tempo EXCEPT !.sync = "RUNNING",
                             !.phase = AlignedPhase(tempo.modifier, tempo.phase)]
    BY DEF AdapterForwards, TempoEmits, AdapterHears, TempoHears, SyncAfter, NextPhase, Beat
  <1>4. /\ adapter' = AdapterHears(adapter, Beat)
        /\ tempo' = TempoHears(tempo, Beat)
        /\ out'.tempo = Quiet.tempo + 1
    BY <1>1, <1>2, <1>3 DEF Becomes, Deliver
  <1>5. /\ tempo'.sync = "RUNNING"
        /\ tempo'.phase = AlignedPhase(tempo.modifier, tempo.phase)
    BY <1>1, <1>3, <1>4 DEF TempoHandler
  <1>6. adapter'.modifier = tempo.modifier
    BY <1>3, <1>4 DEF IInv, RequestKept
  <1>7. AlignedPhase(tempo.modifier, tempo.phase) % GridWidth[tempo.modifier] = 0
    BY <1>1, AlignedPhaseOnGrid DEF TempoHandler
  <1> QED BY <1>4, <1>5, <1>6, <1>7 DEF Quiet

\* A beat of the jack ends any wait on the grid of the modifier in force from
\* then on, a deferred one included, and is heard by the sequencer.
THEOREM BeatsLandOnGrid == Spec => BeatLandsOnGrid
  <1>1. IInv /\ [Next]_vars
          => [SyncBeat /\ source = "EXTERNAL_SYNC" =>
                /\ tempo'.sync = "RUNNING"
                /\ tempo'.phase % GridWidth[adapter'.modifier] = 0
                /\ out'.tempo = 1]_vars
    BY BeatIsOnGrid
  <1>2. Spec => []IInv
    BY Invariance, PTL
  <1> QED BY <1>1, <1>2, PTL DEF Spec, BeatLandsOnGrid
=============================================================================

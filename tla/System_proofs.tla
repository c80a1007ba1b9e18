--------------------------- MODULE System_proofs ---------------------------
(***************************************************************************)
(* The device as a host sees it. Its modes, for every set of slots and     *)
(* however many messages the host sends: it stays in file transfer mode,   *)
(* silent and awake, as long as a transfer is announced; the argument is   *)
(* what each point of the main loop may rely on. Its queues, for every     *)
(* size: nothing that was read is lost, and the output queue with its      *)
(* payloads beside it is one queue. Its updates, for every set of images,  *)
(* every image size and any number of faults: the device boots only whole  *)
(* images, the host's success is in flash, and, if the host waits until    *)
(* the device has booted, a partition that boots is left. That argument    *)
(* has four parts: staging (the target partition holds the stream but for  *)
(* its last block), session (host and device answer in turn), fallback     *)
(* (what runs is bought, or on trial beside a bought partition that no     *)
(* update touches) and the counters.                                       *)
(***************************************************************************)
EXTENDS SystemMode, MidiQueues, FirmwareUpdate, SequenceTheorems, TLAPS

(* System modes *)

\* In which modes each point of the loop is reached, and what is known there.
LoopOrder ==
    /\ loop.at = "sysex" => mode = loop.case /\ mode \in {"Sequencer", "FileTransfer"}
    /\ loop.at = "controls" =>
         /\ mode \in {"Sequencer", "FileTransfer"}
         /\ announced.busy <=> busy # {}

IInv == TypeOK /\ LoopOrder /\ TransferHoldsMode /\ SilentDuringTransfer

-----------------------------------------------------------------------------
(* The parts of a step that several actions share. *)

\* A reset leaves nothing announced and nothing muted.
LEMMA ResetKeeps ==
    ASSUME IInv, Reset, sent' \in 0..MaxSent
    PROVE  IInv'
BY DEF IInv, TypeOK, LoopOrder, TransferHoldsMode, SilentDuringTransfer, Reset,
       Booted, Unannounced, Mode, Receiver, Sds

\* The observers, told that a transfer is active, in the modes in which
\* SysExHandler is updated.
LEMMA HearActive ==
    ASSUME IInv, mode \in {"Sequencer", "FileTransfer"}, NEW skip, Notify(TRUE, skip)
    PROVE  /\ mode' = "FileTransfer" /\ debouncing' = FALSE
           /\ running' = FALSE
           /\ router' \in [local : {"off"}, saved : {"on", "off"}, muted : {TRUE}]
BY DEF IInv, TypeOK, Notify, RouterHears, SequencerHears, StateMachineHears,
       TransitionTo, is_valid_transition

\* The observers, told that it has ended.
LEMMA HearEnd ==
    ASSUME IInv, mode = "FileTransfer", NEW skip \in BOOLEAN, Notify(FALSE, skip)
    PROVE  /\ mode' \in {"Sequencer", "FileTransfer"} /\ debouncing' \in BOOLEAN
           /\ running' \in BOOLEAN
           /\ router' \in [local : {"on", "off"}, saved : {"none"}, muted : {FALSE}]
BY DEF IInv, TypeOK, Notify, RouterHears, SequencerHears, StateMachineHears,
       TransitionTo, is_valid_transition

\* After SysExHandler::update what is announced is what is under way.
LEMMA AnnounceAgrees ==
    ASSUME IInv, loop.at = "sysex", Announce,
           busy' \subseteq Receiver, slot' \in Slots \cup {NoSlot}
    PROVE  /\ mode' \in {"Sequencer", "FileTransfer"} /\ debouncing' \in BOOLEAN
           /\ running' \in BOOLEAN
           /\ announced' \in [busy : BOOLEAN, slot : Slots \cup {NoSlot},
                              dump : BOOLEAN, progress : BOOLEAN]
           /\ announced'.busy <=> busy' # {}
           /\ router' \in [local : {"on", "off"}, saved : {"on", "off", "none"}, muted : BOOLEAN]
           /\ TransferHoldsMode' /\ SilentDuringTransfer'
<1> DEFINE active == busy' # {}
<1>1. /\ mode \in {"Sequencer", "FileTransfer"}
      /\ announced \in [busy : BOOLEAN, slot : Slots \cup {NoSlot},
                        dump : BOOLEAN, progress : BOOLEAN]
      /\ debouncing \in BOOLEAN /\ running \in BOOLEAN
      /\ router \in [local : {"on", "off"}, saved : {"on", "off", "none"}, muted : BOOLEAN]
      /\ TransferHoldsMode /\ SilentDuringTransfer
  BY DEF IInv, TypeOK, LoopOrder
<1>2. CASE active # announced.busy /\ active
  <2>1. /\ Notify(TRUE, announced.dump)
        /\ announced' = [announced EXCEPT !.busy = TRUE, !.slot = slot', !.dump = @ /\ TRUE]
    BY <1>1, <1>2 DEF Announce
  <2> QED BY <1>1, <1>2, <2>1, HearActive DEF TransferHoldsMode, SilentDuringTransfer
<1>3. CASE active # announced.busy /\ ~active
  <2>1. /\ Notify(FALSE, announced.dump)
        /\ announced' = [announced EXCEPT !.busy = FALSE, !.slot = slot', !.dump = @ /\ FALSE]
        /\ announced.dump \in BOOLEAN /\ mode = "FileTransfer"
    BY <1>1, <1>3 DEF Announce, TransferHoldsMode
  <2> QED BY <1>1, <1>3, <2>1, HearEnd DEF TransferHoldsMode, SilentDuringTransfer
<1>4. CASE active = announced.busy
  <2>1. \/ NothingToAnnounce
        \/ active /\ Notify(TRUE, FALSE) /\ announced' = [announced EXCEPT !.progress = FALSE]
        \/ active /\ Notify(TRUE, FALSE) /\ announced' = [announced EXCEPT !.slot = slot']
    BY <1>4 DEF Announce
  <2>2. CASE NothingToAnnounce
    BY <1>1, <1>4, <2>2 DEF NothingToAnnounce, TransferHoldsMode, SilentDuringTransfer
  <2>3. CASE active /\ Notify(TRUE, FALSE)
    BY <1>1, <1>4, <2>1, <2>3, HearActive DEF TransferHoldsMode, SilentDuringTransfer, NothingToAnnounce
  <2> QED BY <2>1, <2>2, <2>3
<1> QED BY <1>2, <1>3, <1>4

-----------------------------------------------------------------------------
LEMMA InitInv == Init => IInv
<1> SUFFICES ASSUME Init PROVE IInv
  OBVIOUS
<1>1. /\ loop = [at |-> "state", case |-> "Boot"]
      /\ router \in [local : {"on", "off"}, saved : {"on", "off", "none"}, muted : {FALSE}]
      /\ update = [verified |-> FALSE, reboot |-> FALSE]
  BY DEF Init, Booted
<1>2. ~(Sds \subseteq busy) /\ busy \subseteq Receiver /\ busy \cap Sds = {} /\ sent \in 0..MaxSent
  BY SentAssumption DEF Init, Sds
<1>3. /\ announced = [busy |-> FALSE, slot |-> NoSlot, dump |-> FALSE, progress |-> TRUE]
      /\ announced \in [busy : BOOLEAN, slot : Slots \cup {NoSlot},
                        dump : BOOLEAN, progress : BOOLEAN]
  BY DEF Init, Unannounced
<1>4. /\ mode = "Boot" /\ debouncing = FALSE /\ slot = NoSlot
      /\ panel \in BOOLEAN /\ running = FALSE
  BY DEF Init
<1>5. /\ router \in [local : {"on", "off"}, saved : {"on", "off", "none"}, muted : BOOLEAN]
      /\ ~router.muted
  BY <1>1
<1>6. TypeOK
  BY <1>1, <1>2, <1>3, <1>4, <1>5 DEF TypeOK, Mode
<1>7. LoopOrder /\ TransferHoldsMode /\ SilentDuringTransfer
  BY <1>1, <1>3, <1>5 DEF LoopOrder, TransferHoldsMode, SilentDuringTransfer
<1> QED BY <1>6, <1>7 DEF IInv

LEMMA StateUpdateInv ==
    ASSUME IInv, NEW elapsed \in BOOLEAN, StateUpdate(elapsed)
    PROVE  IInv'
<1>1. /\ mode' \in Mode /\ debouncing' \in BOOLEAN
      /\ announced.busy => UNCHANGED <<mode, debouncing>>
      /\ mode \in {"FallingAsleep", "Sleep"} => mode' \in {"FallingAsleep", "Sleep"}
  BY DEF IInv, TypeOK, StateUpdate, TransitionTo, is_valid_transition, Mode, TransferHoldsMode
<1>2. /\ loop' \in [at : {"state", "sysex", "controls", "input"}, case : Mode]
      /\ LoopOrder'
  BY <1>1 DEF StateUpdate, Following, LoopOrder, Mode
<1>3. router' \in [local : {"on", "off"}, saved : {"on", "off", "none"}, muted : BOOLEAN]
  BY DEF IInv, TypeOK, StateUpdate
<1>4. TypeOK'
  BY <1>1, <1>2, <1>3 DEF IInv, TypeOK, StateUpdate
<1>5. TransferHoldsMode' /\ SilentDuringTransfer'
  BY <1>1 DEF IInv, TypeOK, StateUpdate, TransferHoldsMode, SilentDuringTransfer
<1> QED BY <1>2, <1>4, <1>5 DEF IInv

LEMMA SysExUpdateInv ==
    ASSUME IInv, NEW ended \in SUBSET Receiver, NEW elapsed \in BOOLEAN,
           SysExUpdate(ended, elapsed)
    PROVE  IInv'
<1>1. CASE elapsed /\ RebootsNow
  BY <1>1, ResetKeeps DEF SysExUpdate, IInv, TypeOK
<1>2. CASE ~(elapsed /\ RebootsNow)
  <2>1. /\ loop.at = "sysex" /\ Announce /\ Goes
        /\ busy' = busy \ ended
        /\ slot' = IF busy' \cap Sds = {} THEN NoSlot ELSE slot
        /\ update' = [update EXCEPT !.reboot = @ /\ ~elapsed]
        /\ UNCHANGED <<panel, sent>>
    BY <1>2 DEF SysExUpdate
  <2>2. /\ busy' \subseteq Receiver /\ ~(Sds \subseteq busy')
        /\ slot' \in Slots \cup {NoSlot} /\ (slot' = NoSlot <=> busy' \cap Sds = {})
        /\ update' \in [verified : BOOLEAN, reboot : BOOLEAN]
    BY <2>1 DEF IInv, TypeOK
  <2>3. /\ loop' \in [at : {"state", "sysex", "controls", "input"}, case : Mode]
        /\ loop'.at \in {"controls", "input"}
    BY <2>1 DEF Goes, Following, IInv, TypeOK, LoopOrder
  <2> QED BY <2>1, <2>2, <2>3, AnnounceAgrees DEF IInv, TypeOK, LoopOrder, Mode
<1> QED BY <1>1, <1>2

LEMMA ControlsInv ==
    ASSUME IInv, Controls
    PROVE  IInv'
<1>1. /\ mode' \in Mode /\ debouncing' \in BOOLEAN /\ running' \in BOOLEAN
      /\ announced.busy => UNCHANGED <<mode, debouncing, running>>
      /\ mode \in {"FallingAsleep", "Sleep"} => UNCHANGED mode
  BY DEF IInv, TypeOK, Controls, PlayPressed, PlayHeld, Untouched, TransitionTo,
         is_valid_transition, Mode, TransferHoldsMode, SilentDuringTransfer
<1>2. /\ loop' \in [at : {"state", "sysex", "controls", "input"}, case : Mode]
      /\ loop'.at = "input"
  BY DEF IInv, TypeOK, Controls, Goes, Following
<1>3. TypeOK'
  BY <1>1, <1>2 DEF IInv, TypeOK, Controls
<1>4. TransferHoldsMode' /\ SilentDuringTransfer'
  BY <1>1 DEF IInv, Controls, TransferHoldsMode, SilentDuringTransfer
<1> QED BY <1>2, <1>3, <1>4 DEF IInv, LoopOrder

LEMMA HandleSysExInv ==
    ASSUME IInv, HandleSysEx
    PROVE  IInv'
<1> DEFINE Received ==
      /\ busy' \subseteq Receiver /\ ~(Sds \subseteq busy')
      /\ slot' \in Slots \cup {NoSlot} /\ (slot' = NoSlot <=> busy' \cap Sds = {})
      /\ announced' \in [busy : BOOLEAN, slot : Slots \cup {NoSlot},
                         dump : BOOLEAN, progress : BOOLEAN]
      /\ announced'.busy = announced.busy
      /\ update' \in [verified : BOOLEAN, reboot : BOOLEAN]
<1> USE SlotAssumption DEF IInv, TypeOK, Receiver, Sds, Begins, Ends
<1>1. ASSUME CustomMessage PROVE Received   BY <1>1, ZenonT(30) DEF CustomMessage
<1>2. ASSUME UploadMessage PROVE Received
  <2>1. "dump" \notin busy /\ UNCHANGED <<announced, update>>
    BY <1>2 DEF UploadMessage
  <2>2. CASE busy' = busy \cup {"upload"} /\ slot' \in Slots
    BY <2>1, <2>2
  <2>3. CASE busy' = busy \ {"upload"} /\ slot' = NoSlot
    BY <2>1, <2>3
  <2> QED BY <1>2, <2>2, <2>3 DEF UploadMessage
<1>3. ASSUME DumpRequest PROVE Received     BY <1>3 DEF DumpRequest
<1>4. ASSUME DumpResponse PROVE Received    BY <1>4 DEF DumpResponse
<1>5. ASSUME FirmwareBegin PROVE Received   BY <1>5, ZenonT(30) DEF FirmwareBegin
<1>6. ASSUME FirmwareBytes PROVE Received   BY <1>6, ZenonT(30) DEF FirmwareBytes
<1>7. ASSUME FirmwareEnd PROVE Received
  <2>1. busy' = busy \ {"firmware"} /\ UNCHANGED <<slot, announced>>
    BY <1>7 DEF FirmwareEnd
  <2>2. update' = [verified |-> TRUE, reboot |-> TRUE] \/ update' = update
    BY <1>7 DEF FirmwareEnd
  <2>3. update' \in [verified : BOOLEAN, reboot : BOOLEAN]
    <3>1. CASE update' = update BY <3>1
    <3>2. CASE update' = [verified |-> TRUE, reboot |-> TRUE] BY <3>2, TRUE \in BOOLEAN
    <3> QED BY <2>2, <3>1, <3>2
  <2> QED BY <2>1, <2>3
<1>8. Received
  BY <1>1, <1>2, <1>3, <1>4, <1>5, <1>6, <1>7 DEF HandleSysEx
<1>9. TypeOK'
  BY <1>8, SentAssumption DEF HandleSysEx
<1>10. LoopOrder' /\ TransferHoldsMode' /\ SilentDuringTransfer'
  BY <1>8 DEF HandleSysEx, LoopOrder, TransferHoldsMode, SilentDuringTransfer
<1> QED BY <1>9, <1>10

\* Every step keeps the invariant.
LEMMA NextInv == IInv /\ [Next]_vars => IInv'
<1> SUFFICES ASSUME IInv, [Next]_vars PROVE IInv'
  OBVIOUS
<1>1. CASE \E elapsed \in BOOLEAN : StateUpdate(elapsed)
  BY <1>1, StateUpdateInv
<1>2. CASE Wake
  BY <1>2, ResetKeeps DEF Wake, IInv, TypeOK
<1>3. CASE \E ended \in SUBSET Receiver, elapsed \in BOOLEAN : SysExUpdate(ended, elapsed)
  BY <1>3, SysExUpdateInv
<1>4. CASE Controls
  BY <1>4, ControlsInv
<1>5. CASE HandleSysEx
  BY <1>5, HandleSysExInv
<1>6. CASE RebootBootloader
  BY <1>6, ResetKeeps, SentAssumption DEF RebootBootloader, IInv, TypeOK
<1>7. CASE InputDone
  BY <1>7 DEF InputDone, Goes, Following, IInv, TypeOK, LoopOrder, TransferHoldsMode,
              SilentDuringTransfer
<1>8. CASE UNCHANGED vars
  BY <1>8 DEF vars, IInv, TypeOK, LoopOrder, TransferHoldsMode, SilentDuringTransfer
<1> QED BY <1>1, <1>2, <1>3, <1>4, <1>5, <1>6, <1>7, <1>8 DEF Next

\* The inductive invariant of the modes, which the theorems below read off.
THEOREM Invariance == Spec => []IInv
BY InitInv, NextInv, PTL DEF Spec

-----------------------------------------------------------------------------
\* A slot is reported exactly while an SDS transfer runs, and never two of
\* those at once (SysExHandler's refusals of dumps and uploads).
THEOREM TypeCorrect == Spec => []TypeOK
BY Invariance, PTL DEF IInv

\* No debounce, button or message ends FileTransfer mode under a transfer.
THEOREM TransferKeepsMode == Spec => []TransferHoldsMode
BY Invariance, PTL DEF IInv

\* The sequencer and the sound stay off during a transfer, the panel is not
\* read, and the sound is not left off afterwards.
THEOREM TransferIsSilent == Spec => []SilentDuringTransfer
BY Invariance, PTL DEF IInv

\* The play button cannot put the device to sleep during a transfer, because
\* the handler is updated before the controls are read.
THEOREM AwakeDuringTransfer == Spec => NoSleepDuringTransfer
<1> DEFINE Awake == mode # "FallingAsleep" /\ mode' = "FallingAsleep" => busy = {}
<1>1. ASSUME IInv, [Next]_vars PROVE Awake
  <2>1. CASE Controls
    BY <1>1, <2>1 DEF IInv, LoopOrder, TransferHoldsMode, Controls, PlayPressed, PlayHeld,
                      Untouched, TransitionTo, is_valid_transition
  <2>2. CASE \E elapsed \in BOOLEAN : StateUpdate(elapsed)
    BY <2>2 DEF StateUpdate, TransitionTo
  <2>3. CASE \E ended \in SUBSET Receiver, elapsed \in BOOLEAN : SysExUpdate(ended, elapsed)
    <3> PICK ended \in SUBSET Receiver, elapsed \in BOOLEAN : SysExUpdate(ended, elapsed)
      BY <2>3
    <3>1. mode' \in {"Boot", "Sequencer", "FileTransfer", mode}
      BY DEF SysExUpdate, Reset, Announce, Notify, NothingToAnnounce, StateMachineHears,
             TransitionTo
    <3> QED BY <3>1
  <2>4. CASE Wake \/ HandleSysEx \/ RebootBootloader \/ InputDone \/ UNCHANGED vars
    BY <2>4 DEF Wake, Reset, HandleSysEx, RebootBootloader, InputDone, vars
  <2> QED BY <1>1, <2>1, <2>2, <2>3, <2>4 DEF Next
<1>2. IInv /\ [Next]_vars => [Awake]_vars
  BY <1>1
<1> QED BY <1>2, Invariance, PTL DEF Spec, NoSleepDuringTransfer

-----------------------------------------------------------------------------
(* MIDI queues *)

\* The input queues at each point of the main loop.
InputBounds ==
    /\ at \in {"work", "read", "handle", "send"}
    /\ reads \in 0..MaxReads /\ inputs \in Nat /\ chunks \in Nat
    /\ at \in {"work", "send"} => inputs = 0 /\ chunks = 0
    /\ at = "read" => inputs <= reads * Transports /\ chunks <= Transports
    /\ at = "handle" => chunks = 0

InputInv == InputBounds /\ NothingReadIsLost

LEMMA Monotone ==
    ASSUME NEW i \in Nat, NEW j \in Nat, NEW k \in Nat, i <= j
    PROVE  i * k <= j * k
BY SMT

LEMMA ReadInv ==
    ASSUME InputInv, Read
    PROVE  InputInv'
<1> USE QueueAssumption, InputAssumption DEF InputInv, InputBounds, NothingReadIsLost
<1>1. PICK m \in 0..Transports, c \in 0..Transports :
         /\ m + c \in 1..Transports
         /\ inputs' = inputs + Room(inputs, InSize, m)
         /\ chunks' = chunks + Room(chunks, SysExInSize, c)
         /\ lost' = lost + m + c - Room(inputs, InSize, m) - Room(chunks, SysExInSize, c)
  BY DEF Read
<1>2. at = "read" /\ chunks = 0 /\ reads < MaxReads /\ reads' = reads + 1 /\ at' = at
  BY DEF Read
<1>3. (reads + 1) * Transports = reads * Transports + Transports
  OBVIOUS
<1>4. (reads + 1) * Transports <= MaxReads * Transports
  BY <1>2, Monotone
<1>5. inputs + m <= reads * Transports + Transports
  BY <1>1, <1>2
<1>6. reads * Transports \in Nat /\ MaxReads * Transports \in Nat
  OBVIOUS
<1>7. inputs + m <= InSize /\ chunks + c <= SysExInSize
  BY <1>2, <1>3, <1>4, <1>5, <1>6
<1>8. Room(inputs, InSize, m) = m /\ Room(chunks, SysExInSize, c) = c
  BY <1>7 DEF Room
<1> QED BY <1>1, <1>2, <1>3, <1>5, <1>6, <1>8

-----------------------------------------------------------------------------
LEMMA InitInputInv == QueuesInit => InputInv
BY QueueAssumption, InputAssumption
   DEF QueuesInit, InputInv, InputBounds, NothingReadIsLost

LEMMA NextInputInv == InputInv /\ [QueuesNext]_queueVars => InputInv'
<1> SUFFICES ASSUME InputInv, [QueuesNext]_queueVars PROVE InputInv'
  OBVIOUS
<1> USE DEF InputInv, InputBounds, NothingReadIsLost
<1>1. CASE Work
  BY <1>1 DEF Work, input
<1>2. CASE process_input
  BY <1>2, QueueAssumption, InputAssumption DEF process_input
<1>3. CASE Read
  BY <1>3, ReadInv
<1>4. CASE HandleChunk
  BY <1>4, QueueAssumption DEF HandleChunk
<1>5. CASE EndReads
  BY <1>5 DEF EndReads
<1>6. CASE HandleMessage
  BY <1>6 DEF HandleMessage
<1>7. CASE EndInput
  BY <1>7 DEF EndInput
<1>8. CASE process_midi_output_queue
  BY <1>8 DEF process_midi_output_queue
<1>9. CASE Tick \/ UNCHANGED queueVars
  BY <1>9 DEF Tick, queueVars, input
<1> QED
  BY <1>1, <1>2, <1>3, <1>4, <1>5, <1>6, <1>7, <1>8, <1>9 DEF QueuesNext

\* Nothing that was read from a port is dropped, whatever the sizes of the
\* queues, the number of ports and the reads of an iteration (process_input),
\* as long as the input queues hold what that many reads can bring.
THEOREM NothingIsLost == QueuesSpec => []NothingReadIsLost
<1>1. InputInv => NothingReadIsLost
  BY DEF InputInv
<1> QED BY <1>1, InitInputInv, NextInputInv, PTL DEF QueuesSpec

-----------------------------------------------------------------------------
(* The output queue and the payloads beside it. *)

\* The j-th payload belongs to the f[j]-th message, and each marker has one.
Pairs(f, o, p) ==
    /\ f \in [1..Len(p) -> 1..Len(o)]
    /\ \A i, j \in 1..Len(p) : i < j => f[i] < f[j]
    /\ \A j \in 1..Len(p) : o[f[j]] = SysEx(p[j])
    /\ \A k \in 1..Len(o) : o[k].type = "SYSTEM_EXCLUSIVE" => \E j \in 1..Len(p) : f[j] = k

OutputInv ==
    /\ out \in Seq(Messages) /\ payloads \in Seq(Payloads)
    /\ \E f : Pairs(f, out, payloads)

LEMMA AppendOther ==
    ASSUME NEW o \in Seq(Messages), NEW p \in Seq(Payloads), NEW f, Pairs(f, o, p),
           NEW m \in ControlChanges \cup {Note, Clock}
    PROVE  Append(o, m) \in Seq(Messages) /\ Pairs(f, Append(o, m), p)
<1>1. m \in Messages /\ m.type # "SYSTEM_EXCLUSIVE"
  BY DEF Messages, ControlChanges, CC, Note, Clock
<1> DEFINE oo == Append(o, m)
<1>2. /\ oo \in Seq(Messages) /\ Len(oo) = Len(o) + 1 /\ Len(o) \in Nat
      /\ oo[Len(o) + 1] = m /\ \A k \in 1..Len(o) : oo[k] = o[k]
  BY <1>1
<1> HIDE DEF oo
<1>3. /\ f \in [1..Len(p) -> 1..Len(oo)]
      /\ \A j \in 1..Len(p) : oo[f[j]] = SysEx(p[j])
  <2>1. f \in [1..Len(p) -> 1..Len(o)] /\ 1..Len(o) \subseteq 1..Len(oo)
    BY <1>2 DEF Pairs
  <2>2. f \in [1..Len(p) -> 1..Len(oo)]
    BY <2>1
  <2>3. \A j \in 1..Len(p) : oo[f[j]] = o[f[j]]
    BY <1>2, <2>1
  <2> QED BY <2>2, <2>3 DEF Pairs
<1>4. ASSUME NEW k \in 1..Len(oo), oo[k].type = "SYSTEM_EXCLUSIVE"
      PROVE  \E j \in 1..Len(p) : f[j] = k
  <2>1. k \in 1..Len(o) /\ o[k].type = "SYSTEM_EXCLUSIVE"
    BY <1>1, <1>2, <1>4
  <2> QED BY <2>1 DEF Pairs
<1>5. Pairs(f, oo, p)
  BY <1>3, <1>4 DEF Pairs
<1> QED BY <1>2, <1>5 DEF oo

LEMMA AppendSysEx ==
    ASSUME NEW o \in Seq(Messages), NEW p \in Seq(Payloads), NEW f, Pairs(f, o, p),
           NEW x \in Payloads
    PROVE  /\ Append(o, SysEx(x)) \in Seq(Messages) /\ Append(p, x) \in Seq(Payloads)
           /\ \E g : Pairs(g, Append(o, SysEx(x)), Append(p, x))
<1> DEFINE g == [j \in 1..Len(p) + 1 |-> IF j <= Len(p) THEN f[j] ELSE Len(o) + 1]
           oo == Append(o, SysEx(x))
           pp == Append(p, x)
<1>1. SysEx(x) \in Messages
  BY DEF Messages
<1>2. oo \in Seq(Messages) /\ pp \in Seq(Payloads) /\ Len(oo) = Len(o) + 1 /\ Len(pp) = Len(p) + 1
  BY <1>1
<1>3. /\ \A k \in 1..Len(o) : oo[k] = o[k]
      /\ \A k \in 1..Len(p) : pp[k] = p[k]
      /\ oo[Len(o) + 1] = SysEx(x) /\ pp[Len(p) + 1] = x
  BY <1>1
<1>4. g \in [1..Len(pp) -> 1..Len(oo)]
  BY <1>2 DEF Pairs
<1>5. \A i, j \in 1..Len(pp) : i < j => g[i] < g[j]
  BY <1>2 DEF Pairs
<1>6. \A j \in 1..Len(pp) : oo[g[j]] = SysEx(pp[j])
  BY <1>2, <1>3 DEF Pairs
<1>7. \A k \in 1..Len(oo) : oo[k].type = "SYSTEM_EXCLUSIVE" => \E j \in 1..Len(pp) : g[j] = k
  <2> SUFFICES ASSUME NEW k \in 1..Len(oo), oo[k].type = "SYSTEM_EXCLUSIVE"
               PROVE  \E j \in 1..Len(pp) : g[j] = k
    OBVIOUS
  <2>1. CASE k \in 1..Len(o)
    <3>1. PICK j \in 1..Len(p) : f[j] = k
      BY <1>3, <2>1 DEF Pairs
    <3> QED BY <1>2, <3>1
  <2>2. CASE k = Len(o) + 1
    BY <1>2, <2>2
  <2> QED BY <1>2, <2>1, <2>2
<1>8. Pairs(g, oo, pp)
  BY <1>4, <1>5, <1>6, <1>7 DEF Pairs
<1> QED BY <1>2, <1>8

LEMMA ReviseOther ==
    ASSUME NEW o \in Seq(Messages), NEW p \in Seq(Payloads), NEW f, Pairs(f, o, p),
           NEW i \in 1..Len(o), o[i].type = "CONTROL_CHANGE", NEW v \in Values
    PROVE  /\ [o EXCEPT ![i].value = v] \in Seq(Messages)
           /\ Pairs(f, [o EXCEPT ![i].value = v], p)
<1> DEFINE oo == [o EXCEPT ![i].value = v]
<1>1. PICK c \in Numbers, w \in Values : o[i] = CC(c, w)
  BY DEF Messages, ControlChanges, Note, Clock, SysEx
<1>2. [o[i] EXCEPT !.value = v] = CC(c, v) /\ CC(c, v) \in Messages
  BY <1>1 DEF CC, Messages, ControlChanges
<1>3. oo \in Seq(Messages) /\ Len(oo) = Len(o) /\ oo[i] = CC(c, v)
  BY <1>2
<1>4. \A k \in 1..Len(o) : k # i => oo[k] = o[k]
  OBVIOUS
<1>5. \A j \in 1..Len(p) : f[j] # i
  <2> SUFFICES ASSUME NEW j \in 1..Len(p) PROVE f[j] # i
    OBVIOUS
  <2>1. o[f[j]] = SysEx(p[j]) /\ SysEx(p[j]).type = "SYSTEM_EXCLUSIVE"
    BY DEF Pairs, SysEx
  <2> QED BY <2>1
<1>6. CC(c, v).type # "SYSTEM_EXCLUSIVE"
  BY DEF CC
<1>7. /\ f \in [1..Len(p) -> 1..Len(oo)]
      /\ \A a, b \in 1..Len(p) : a < b => f[a] < f[b]
  BY <1>3 DEF Pairs
<1>8. \A j \in 1..Len(p) : oo[f[j]] = SysEx(p[j])
  BY <1>4, <1>5 DEF Pairs
<1>9. \A k \in 1..Len(oo) : oo[k].type = "SYSTEM_EXCLUSIVE" => \E j \in 1..Len(p) : f[j] = k
  BY <1>3, <1>4, <1>6 DEF Pairs
<1> QED BY <1>3, <1>7, <1>8, <1>9 DEF Pairs

\* What is sent has the payload it was queued with.
LEMMA TailOther ==
    ASSUME NEW o \in Seq(Messages), NEW p \in Seq(Payloads), NEW f, Pairs(f, o, p),
           o # <<>>, Head(o).type # "SYSTEM_EXCLUSIVE"
    PROVE  Tail(o) \in Seq(Messages) /\ \E g : Pairs(g, Tail(o), p)
<1> DEFINE g == [j \in 1..Len(p) |-> f[j] - 1]
<1>1. /\ Tail(o) \in Seq(Messages) /\ Len(o) \in Nat \ {0} /\ Len(Tail(o)) = Len(o) - 1
      /\ Head(o) = o[1] /\ \A k \in 1..Len(Tail(o)) : Tail(o)[k] = o[k + 1]
  OBVIOUS
<1>2. \A j \in 1..Len(p) : f[j] \in 2..Len(o)
  <2> SUFFICES ASSUME NEW j \in 1..Len(p) PROVE f[j] # 1
    BY <1>1 DEF Pairs
  <2>1. o[f[j]] = SysEx(p[j]) /\ SysEx(p[j]).type = "SYSTEM_EXCLUSIVE"
    BY DEF Pairs, SysEx
  <2> QED BY <1>1, <2>1
<1>3. /\ g \in [1..Len(p) -> 1..Len(Tail(o))]
      /\ \A i, j \in 1..Len(p) : i < j => g[i] < g[j]
  BY <1>1, <1>2 DEF Pairs
<1>4. \A j \in 1..Len(p) : Tail(o)[g[j]] = SysEx(p[j])
  BY <1>1, <1>2, <1>3 DEF Pairs
<1>5. ASSUME NEW k \in 1..Len(Tail(o)), Tail(o)[k].type = "SYSTEM_EXCLUSIVE"
      PROVE  \E j \in 1..Len(p) : g[j] = k
  <2>1. PICK j \in 1..Len(p) : f[j] = k + 1
    BY <1>1, <1>5 DEF Pairs
  <2> QED BY <2>1
<1>6. Pairs(g, Tail(o), p)
  BY <1>3, <1>4, <1>5 DEF Pairs
<1> QED BY <1>1, <1>6

LEMMA TailSysEx ==
    ASSUME NEW o \in Seq(Messages), NEW p \in Seq(Payloads), NEW f, Pairs(f, o, p),
           o # <<>>, Head(o).type = "SYSTEM_EXCLUSIVE"
    PROVE  /\ p # <<>> /\ SysEx(Head(p)) = Head(o)
           /\ Tail(o) \in Seq(Messages) /\ Tail(p) \in Seq(Payloads)
           /\ \E g : Pairs(g, Tail(o), Tail(p))
<1> DEFINE g == [j \in 1..Len(p) - 1 |-> f[j + 1] - 1]
<1>1. /\ Tail(o) \in Seq(Messages) /\ Len(o) \in Nat \ {0} /\ Len(Tail(o)) = Len(o) - 1
      /\ Head(o) = o[1] /\ \A k \in 1..Len(Tail(o)) : Tail(o)[k] = o[k + 1]
  OBVIOUS
<1>2. PICK a \in 1..Len(p) : f[a] = 1
  BY <1>1 DEF Pairs
<1>3. p # <<>> /\ a = 1
  <2>1. Len(p) \in Nat /\ 1 \in 1..Len(p)
    BY <1>2
  <2>2. f[1] \in 1..Len(o)
    BY <2>1 DEF Pairs
  <2>3. ~(1 < a)
    BY <1>2, <2>1, <2>2 DEF Pairs
  <2> QED BY <1>2, <2>1, <2>3
<1>4. /\ Tail(p) \in Seq(Payloads) /\ Len(p) \in Nat \ {0} /\ Len(Tail(p)) = Len(p) - 1
      /\ Head(p) = p[1] /\ \A k \in 1..Len(Tail(p)) : Tail(p)[k] = p[k + 1]
  BY <1>3
<1>5. SysEx(Head(p)) = Head(o)
  BY <1>1, <1>2, <1>3, <1>4 DEF Pairs
<1>6. \A j \in 1..Len(p) - 1 : f[j + 1] \in 2..Len(o)
  <2> SUFFICES ASSUME NEW j \in 1..Len(p) - 1 PROVE f[j + 1] \in 2..Len(o)
    OBVIOUS
  <2>1. 1 \in 1..Len(p) /\ j + 1 \in 1..Len(p) /\ 1 < j + 1
    BY <1>4
  <2>2. f[1] < f[j + 1] /\ f[j + 1] \in 1..Len(o) /\ f[1] = 1
    BY <1>2, <1>3, <2>1 DEF Pairs
  <2> QED BY <2>2
<1>7. /\ g \in [1..Len(Tail(p)) -> 1..Len(Tail(o))]
      /\ \A i, j \in 1..Len(Tail(p)) : i < j => g[i] < g[j]
  <2>1. \A i, j \in 1..Len(Tail(p)) : i < j => f[i + 1] < f[j + 1]
    BY <1>4 DEF Pairs
  <2> QED BY <1>1, <1>4, <1>6, <2>1, SMTT(30)
<1>8. \A j \in 1..Len(Tail(p)) : Tail(o)[g[j]] = SysEx(Tail(p)[j])
  <2> SUFFICES ASSUME NEW j \in 1..Len(Tail(p)) PROVE Tail(o)[g[j]] = SysEx(Tail(p)[j])
    OBVIOUS
  <2>1. g[j] \in 1..Len(Tail(o)) /\ g[j] + 1 = f[j + 1] /\ j + 1 \in 1..Len(p)
    BY <1>4, <1>6, <1>7
  <2>2. Tail(o)[g[j]] = o[f[j + 1]]
    BY <1>1, <2>1
  <2>3. o[f[j + 1]] = SysEx(p[j + 1])
    BY <2>1 DEF Pairs
  <2> QED BY <1>4, <2>2, <2>3
<1>9. ASSUME NEW k \in 1..Len(Tail(o)), Tail(o)[k].type = "SYSTEM_EXCLUSIVE"
      PROVE  \E j \in 1..Len(Tail(p)) : g[j] = k
  <2>1. PICK j \in 1..Len(p) : f[j] = k + 1
    BY <1>1, <1>9 DEF Pairs
  <2>2. j # 1 /\ j - 1 \in 1..Len(Tail(p))
    BY <1>2, <1>3, <1>4, <2>1
  <2>3. j - 1 \in 1..Len(p) - 1 /\ (j - 1) + 1 = j
    BY <1>4, <2>2
  <2>4. g[j - 1] = f[(j - 1) + 1] - 1
    BY <2>3
  <2>5. g[j - 1] = k
    BY <2>1, <2>3, <2>4
  <2> QED BY <2>2, <2>5
<1>10. Pairs(g, Tail(o), Tail(p))
  BY <1>7, <1>8, <1>9 DEF Pairs
<1> QED BY <1>1, <1>3, <1>4, <1>5, <1>10

-----------------------------------------------------------------------------
LEMMA InitOutputInv == QueuesInit => OutputInv
<1> SUFFICES ASSUME QueuesInit PROVE OutputInv
  OBVIOUS
<1>1. Pairs(<<>>, <<>>, <<>>)
  BY DEF Pairs
<1> QED BY <1>1 DEF QueuesInit, OutputInv

\* Each way of queueing a message leaves the queue and its payloads paired,
\* and is an acceptance, a revision or nothing.
LEMMA EnqueueMessage ==
    ASSUME OutputInv, NEW m \in ControlChanges \cup {Note, Clock}, enqueue_midi_message(m),
           UNCHANGED wire
    PROVE  OutputInv' /\ [Fifo!Next]_(Fifo!vars)
<1> USE DEF OutputInv
<1>1. m \in Messages /\ UNCHANGED payloads
  BY DEF Messages, enqueue_midi_message
<1>2. PICK f : Pairs(f, out, payloads)
  OBVIOUS
<1>3. ASSUME NEW i \in Positions(m), out' = [out EXCEPT ![i].value = m.value]
      PROVE  OutputInv' /\ Fifo!Next
  <2>1. i \in 1..Len(out) /\ i \in DOMAIN out /\ out[i].type = "CONTROL_CHANGE" /\ m.type = "CONTROL_CHANGE"
    BY DEF Positions
  <2>2. m.value \in Values
    BY <2>1 DEF ControlChanges, CC, Note, Clock
  <2>3. OutputInv'
    BY <1>1, <1>2, <1>3, <2>1, <2>2, ReviseOther
  <2>4. Fifo!Revise(i, m.value)
    BY <1>3, <2>1 DEF Fifo!Revise
  <2> QED BY <2>1, <2>2, <2>3, <2>4 DEF Fifo!Next
<1>4. CASE out' = Append(out, m)
  <2>1. OutputInv'
    BY <1>1, <1>2, <1>4, AppendOther
  <2>2. Fifo!Accept(m)
    BY <1>4 DEF Fifo!Accept
  <2> QED BY <1>1, <2>1, <2>2 DEF Fifo!Next
<1>5. CASE UNCHANGED out
  BY <1>1, <1>5 DEF Fifo!vars
<1> QED BY <1>3, <1>4, <1>5 DEF enqueue_midi_message

LEMMA EnqueueSysEx ==
    ASSUME OutputInv, NEW x \in Payloads, enqueue_sysex_message(x), UNCHANGED wire
    PROVE  OutputInv' /\ [Fifo!Next]_(Fifo!vars)
<1>1. CASE payloads' = Append(payloads, x) /\ out' = Append(out, SysEx(x))
  <2>1. OutputInv'
    BY <1>1, AppendSysEx DEF OutputInv
  <2>2. Fifo!Accept(SysEx(x)) /\ SysEx(x) \in Messages
    BY <1>1 DEF Fifo!Accept, Messages
  <2> QED BY <2>1, <2>2 DEF Fifo!Next
<1>2. CASE UNCHANGED output
  BY <1>2 DEF OutputInv, output, Fifo!vars
<1> QED BY <1>1, <1>2 DEF enqueue_sysex_message

LEMMA Send ==
    ASSUME OutputInv, process_midi_output_queue
    PROVE  OutputInv' /\ [Fifo!Next]_(Fifo!vars)
<1>1. CASE ~MaySend
  BY <1>1 DEF process_midi_output_queue, OutputInv, output, Fifo!vars
<1>2. CASE MaySend /\ Head(out).type = "SYSTEM_EXCLUSIVE"
  <2>1. /\ out # <<>> /\ out' = Tail(out) /\ payloads' = Tail(payloads)
        /\ wire' = SysEx(Head(payloads))
    BY <1>2 DEF process_midi_output_queue, MaySend
  <2>2. PICK f : Pairs(f, out, payloads)
    BY DEF OutputInv
  <2>3. OutputInv' /\ wire' = Head(out)
    BY <1>2, <2>1, <2>2, TailSysEx DEF OutputInv
  <2> QED BY <2>1, <2>3 DEF Fifo!Next, Fifo!Deliver
<1>3. CASE MaySend /\ Head(out).type # "SYSTEM_EXCLUSIVE"
  <2>1. /\ out # <<>> /\ out' = Tail(out) /\ UNCHANGED payloads
        /\ wire' = Head(out)
    BY <1>3 DEF process_midi_output_queue, MaySend
  <2>2. OutputInv'
    BY <1>3, <2>1, TailOther DEF OutputInv
  <2> QED BY <2>1, <2>2 DEF Fifo!Next, Fifo!Deliver
<1> QED BY <1>1, <1>2, <1>3

LEMMA NextOutputInv == OutputInv /\ [QueuesNext]_queueVars => OutputInv' /\ [Fifo!Next]_(Fifo!vars)
<1> SUFFICES ASSUME OutputInv, [QueuesNext]_queueVars
             PROVE  OutputInv' /\ [Fifo!Next]_(Fifo!vars)
  OBVIOUS
<1>1. CASE UNCHANGED <<output, wire>>
  BY <1>1 DEF OutputInv, output, Fifo!vars
<1>2. CASE Work
  BY <1>2, EnqueueMessage, EnqueueSysEx DEF Work
<1>3. CASE HandleChunk
  BY <1>3, <1>1, EnqueueSysEx DEF HandleChunk
<1>4. CASE HandleMessage
  BY <1>4, <1>1, EnqueueMessage DEF HandleMessage
<1>5. CASE process_midi_output_queue
  BY <1>5, Send
<1>6. CASE Tick \/ process_input \/ Read \/ EndReads \/ EndInput \/ UNCHANGED queueVars
  BY <1>1, <1>6 DEF Tick, process_input, Read, EndReads, EndInput, queueVars
<1> QED BY <1>2, <1>3, <1>4, <1>5, <1>6 DEF QueuesNext

\* The two output queues behave as one first-in-first-out queue, whatever
\* their sizes and whatever is queued: each step of MidiOutputQueue's
\* functions is an acceptance, a revision of a control change or the delivery
\* of the oldest message, SysEx with its own payload.
THEOREM StepsAreFifo == QueuesSpec => Fifo!Init /\ [][Fifo!Next]_(Fifo!vars)
<1>1. QueuesInit => Fifo!Init
  BY DEF QueuesInit, Fifo!Init
<1> QED BY <1>1, InitOutputInv, NextOutputInv, PTL DEF QueuesSpec

-----------------------------------------------------------------------------
(* Firmware update *)

Packets == [tag : {"begin", "bytes", "end", "abort"}, block : Block]

Types ==
    /\ flash \in [Partition -> [blocks : Seq(Block), bought : BOOLEAN]]
    /\ device \in [partition : Partition, at : {"boot", "normal", "bricked"},
                   trial : BOOLEAN, healthy : BOOLEAN, allowed : BOOLEAN]
    /\ receiver \in [receiving : BOOLEAN, got : 0..Blocks]
    /\ writer \in [receiving : BOOLEAN, ready : BOOLEAN, image : Image,
                   stream : Seq(Block), staged : Seq(Block)]
    /\ pending \in BOOLEAN
    /\ host \in [phase : {"idle", "begin", "bytes", "end", "done"}, image : Image,
                 next : 1..Blocks]
    /\ toDevice \in Seq(Packets) /\ toHost \in Seq({"ack", "nack"})

Counters == faults \in 0..MaxFaults /\ sessions \in 0..MaxSessions

\* The target partition holds what has been hashed but for the last block.
Staged ==
    LET n == Len(writer.stream) IN
    IF writer.stream = <<>> THEN writer.staged = <<>>
    ELSE /\ writer.staged = <<writer.stream[n]>>
         /\ writer.stream[n].index = n
         /\ n > 1 => flash[Target].blocks = SubSeq(writer.stream, 1, n - 1)

Staging ==
    /\ receiver.receiving =>
         writer.receiving /\ ~writer.ready /\ receiver.got = Len(writer.stream)
    /\ writer.receiving => Staged
    /\ writer.ready => Holds(Target)

Stored == \E p \in Partition : flash[p].blocks = Whole(host.image)

Active == host.phase \in {"begin", "bytes", "end"}

\* One message or one answer of a session is under way.
Session ==
    /\ Active =>
         /\ Len(toDevice) + Len(toHost) <= 1
         /\ \A k \in 1..Len(toDevice) :
              toDevice[k].tag = host.phase /\ toDevice[k].block.image = host.image
    /\ host.phase \in {"bytes", "end"} /\ receiver.receiving => writer.image = host.image
    /\ host.phase = "begin" /\ toHost = <<"ack">> /\ receiver.receiving =>
         writer.image = host.image
    /\ host.phase = "end" /\ toHost = <<"ack">> => Stored
    /\ host.phase = "done" => toDevice = <<>> /\ toHost = <<>> /\ Stored

\* What runs on trial is whole; nothing is received on trial, and what runs
\* otherwise, or beside the trial, is bought.
Fallback ==
    /\ device.at # "bricked"
    /\ device.at = "boot" => \A k \in 1..Len(toDevice) : toDevice[k].tag # "begin"
    /\ device.trial =>
         /\ ~receiver.receiving /\ ~writer.ready
         /\ device.at = "normal" => ~device.allowed
         /\ Bootable(Target)
    /\ ~device.trial => Bootable(device.partition)

TrialWhole == device.trial => Holds(device.partition)

UpdateInv == Types /\ Counters /\ Staging /\ Session /\ TrialWhole

-----------------------------------------------------------------------------
(* The two partitions, and what a flush does. *)

LEMMA OtherPartition ==
    ASSUME NEW p \in Partition
    PROVE  Other(p) \in Partition /\ Other(p) # p /\ Other(Other(p)) = p
<1>1. \A r \in Partition : \E q \in Partition : q # r
  BY DEF Partition
<1>2. \A r \in Partition : Other(r) \in Partition /\ Other(r) # r
  BY <1>1 DEF Other
<1> QED BY <1>2 DEF Partition

LEMMA WholeIsSeq == ASSUME NEW i \in Image PROVE Whole(i) \in Seq(Block)
BY BlocksAssumption, IsASeq DEF Whole, Block

LEMMA FlushType ==
    ASSUME Types, FlushSector
    PROVE  /\ flash' \in [Partition -> [blocks : Seq(Block), bought : BOOLEAN]]
           /\ \A p \in Partition : p # Target => flash'[p] = flash[p]
<1>1. Target \in Partition
  BY OtherPartition DEF Types, Target
<1>2. /\ writer.staged \in Seq(Block) /\ flash[Target].blocks \in Seq(Block)
      /\ flash[Target].bought \in BOOLEAN
  BY <1>1 DEF Types
<1>3. flash[Target].blocks \o writer.staged \in Seq(Block)
  BY <1>2, ConcatProperties
<1> QED BY <1>1, <1>2, <1>3, ZenonT(30) DEF Types, FlushSector

\* After the flush the target partition holds the stream to its last block.
LEMMA FlushStream ==
    ASSUME Types, Staged, writer.stream # <<>>, FlushSector
    PROVE  flash'[Target].blocks = writer.stream
<1> DEFINE n == Len(writer.stream)
           st == writer.stream
<1>1. st \in Seq(Block) /\ n \in Nat \ {0} /\ Target \in Partition
  BY OtherPartition, EmptySeq DEF Types, Target
<1>2. writer.staged = <<st[n]>> /\ writer.staged[1].index = n /\ writer.staged # <<>>
  BY DEF Staged
<1>3. SubSeq(st, 1, n) = st
  BY <1>1, SubSeqFull
<1>4. 1 \in 1..n /\ n \in 1..n
  BY <1>1
<1>5. CASE n = 1
  <2>1. SubSeq(st, 1, n) = SubSeq(st, 1, n - 1) \o <<st[n]>>
    BY <1>1, <1>4, SubSeqRecursiveSecond
  <2>2. SubSeq(st, 1, n - 1) = <<>>
    BY <1>5, SubSeqEmpty
  <2>3. <<>> \o <<st[n]>> = <<st[n]>>
    BY <1>1, <1>4, ElementOfSeq, ConcatEmptySeq
  <2>4. writer.staged = st
    BY <1>2, <1>3, <2>1, <2>2, <2>3
  <2>5. flash' = [flash EXCEPT ![Target] = [blocks |-> writer.staged, bought |-> FALSE]]
    BY <1>2, <1>5 DEF FlushSector
  <2> QED BY <1>1, <2>4, <2>5 DEF Types
<1>6. CASE n # 1
  <2>1. SubSeq(st, 1, n) = SubSeq(st, 1, n - 1) \o <<st[n]>>
    BY <1>1, <1>4, SubSeqRecursiveSecond
  <2>2. flash[Target].blocks = SubSeq(st, 1, n - 1)
    <3>1. Len(writer.stream) > 1 => flash[Target].blocks = SubSeq(writer.stream, 1, Len(writer.stream) - 1)
      BY DEF Staged
    <3>a. n \in Nat /\ n # 0 /\ n # 1
      BY <1>1, <1>6
    <3>b. \A k \in Nat : k # 0 /\ k # 1 => k > 1
      OBVIOUS
    <3>2. Len(writer.stream) > 1
      BY <3>a, <3>b
    <3> QED BY <3>1, <3>2
  <2>3. flash' = [flash EXCEPT ![Target].blocks = @ \o writer.staged]
    BY <1>2, <1>6 DEF FlushSector
  <2>4. flash'[Target].blocks = flash[Target].blocks \o writer.staged
    BY <1>1, <2>3 DEF Types
  <2> QED BY <1>2, <1>3, <2>1, <2>2, <2>4
<1> QED BY <1>5, <1>6

-----------------------------------------------------------------------------
(* Types *)

LEMMA MessageType ==
    ASSUME NEW t \in {"begin", "bytes", "end", "abort"}, NEW i \in Image, NEW k \in 1..Blocks
    PROVE  Message(t, i, k) \in Packets
BY DEF Message, Packets, Block

LEMMA ReplyType ==
    ASSUME Types, NEW t \in {"ack", "nack"}, Reply(t)
    PROVE  toHost' \in Seq({"ack", "nack"})
BY DEF Types, Reply

LEMMA AbortType ==
    ASSUME Types
    PROVE  Abort(writer) \in [receiving : BOOLEAN, ready : BOOLEAN, image : Image,
                               stream : Seq(Block), staged : Seq(Block)]
<1>1. <<>> \in Seq(Block)
  OBVIOUS
<1> QED BY <1>1 DEF Types, Abort

LEMMA DeviceHearsTypes == ASSUME Types, DeviceHears PROVE Types'
<1> DEFINE msg == Head(toDevice)
<1>1. /\ msg \in Packets /\ msg.block \in Block /\ msg.block.image \in Image
      /\ toDevice' \in Seq(Packets)
      /\ UNCHANGED <<device, host, faults, sessions>>
  <2>1. toDevice \in Seq(Packets) /\ toDevice # <<>>
    BY DEF DeviceHears, Types
  <2>2. msg \in Packets /\ Tail(toDevice) \in Seq(Packets)
    BY <2>1, HeadTailProperties
  <2> QED BY <2>2 DEF DeviceHears, Packets, Block
<1> SUFFICES /\ flash' \in [Partition -> [blocks : Seq(Block), bought : BOOLEAN]]
             /\ receiver' \in [receiving : BOOLEAN, got : 0..Blocks]
             /\ writer' \in [receiving : BOOLEAN, ready : BOOLEAN, image : Image,
                              stream : Seq(Block), staged : Seq(Block)]
             /\ pending' \in BOOLEAN /\ toHost' \in Seq({"ack", "nack"})
  BY <1>1 DEF Types
<1>2. CASE HandleBegin(msg.block.image)
  <2>1. CASE AcceptBegin(msg.block.image)
    <3>1. /\ Begin(msg.block.image) \in [receiving : BOOLEAN, ready : BOOLEAN, image : Image,
                                         stream : Seq(Block), staged : Seq(Block)]
          /\ 0 \in 0..Blocks
      BY <1>1, BlocksAssumption DEF Begin
    <3> QED BY <2>1, <3>1, ReplyType DEF AcceptBegin, Types
  <2>2. CASE RefuseBegin
    BY <2>2, ReplyType DEF RefuseBegin, Types
  <2>3. CASE /\ writer' = Abort(writer)
             /\ receiver' = [receiver EXCEPT !.receiving = FALSE]
             /\ Reply("nack") /\ UNCHANGED <<flash, pending>>
    BY <2>3, ReplyType, AbortType DEF Types
  <2> QED BY <1>2, <2>1, <2>2, <2>3 DEF HandleBegin
<1>3. CASE HandleBytes(msg.block)
  <2>1. CASE ~receiver.receiving
    BY <1>3, <2>1, ReplyType DEF HandleBytes, Types
  <2>2. CASE receiver.receiving /\ receiver.got < Blocks /\ Accepts(msg.block)
    <3>1. /\ FlushSector /\ Reply("ack") /\ UNCHANGED pending
          /\ writer' = [writer EXCEPT !.stream = Append(@, msg.block), !.staged = <<msg.block>>]
          /\ receiver' = [receiver EXCEPT !.got = @ + 1]
      BY <1>3, <2>2 DEF HandleBytes
    <3>2. Append(writer.stream, msg.block) \in Seq(Block) /\ <<msg.block>> \in Seq(Block)
      BY <1>1 DEF Types
    <3>3. receiver.got + 1 \in 0..Blocks
      BY <2>2, BlocksAssumption DEF Types
    <3> QED BY <3>1, <3>2, <3>3, FlushType, ReplyType DEF Types
  <2>3. CASE receiver.receiving /\ ~(receiver.got < Blocks /\ Accepts(msg.block))
    BY <1>3, <2>3, ReplyType, AbortType DEF HandleBytes, Types
  <2> QED BY <2>1, <2>2, <2>3
<1>4. CASE HandleEnd
  <2>1. CASE ~receiver.receiving
    BY <1>4, <2>1, ReplyType DEF HandleEnd, Types
  <2>2. CASE receiver.receiving
    <3>1. flash' \in [Partition -> [blocks : Seq(Block), bought : BOOLEAN]]
      BY <1>4, <2>2, FlushType DEF HandleEnd, Finalize, Types
    <3>2. [Abort(writer) EXCEPT !.ready = TRUE] \in
              [receiving : BOOLEAN, ready : BOOLEAN, image : Image,
               stream : Seq(Block), staged : Seq(Block)]
      BY AbortType
    <3> QED BY <1>4, <2>2, <3>1, <3>2, ReplyType, AbortType DEF HandleEnd, Types
  <2> QED BY <2>1, <2>2
<1>5. CASE HandleAbort
  BY <1>5, ReplyType, AbortType DEF HandleAbort, Types
<1> QED BY <1>2, <1>3, <1>4, <1>5 DEF DeviceHears

LEMMA RestartTypes ==
    ASSUME Types, NEW d, Restart(d),
           d \in [partition : Partition, at : {"boot", "normal", "bricked"},
                  trial : BOOLEAN, healthy : BOOLEAN, allowed : BOOLEAN]
    PROVE  Types'
<1>1. /\ <<>> \in Seq(Block) /\ <<>> \in Seq(Packets) /\ <<>> \in Seq({"ack", "nack"})
      /\ 0 \in 0..Blocks /\ Factory \in Image
  BY ImageAssumption, BlocksAssumption
<1> QED BY <1>1 DEF Types, Restart, IdleReceiver, IdleWriter

LEMMA NormalBootTypes == ASSUME Types, NormalBoot PROVE Types'
<1>1. CASE \E p \in Partition : Bootable(p)
  BY <1>1, RestartTypes DEF NormalBoot, Started
<1>2. CASE ~\E p \in Partition : Bootable(p)
  BY <1>2, RestartTypes DEF NormalBoot, Types
<1> QED BY <1>1, <1>2

LEMMA HostTypes ==
    ASSUME Types, (\E i \in Image : HostBegins(i)) \/ HostHears \/ HostTimesOut
    PROVE  Types'
<1>1. /\ UNCHANGED <<flash, device, receiver, writer, pending>>
      /\ \/ UNCHANGED toHost
         \/ toHost # <<>> /\ toHost' = Tail(toHost)
  BY DEF HostBegins, HostHears, HostTimesOut, HostOnly
<1>2. toHost' \in Seq({"ack", "nack"})
  <2>1. toHost \in Seq({"ack", "nack"})
    BY DEF Types
  <2>2. toHost # <<>> => Tail(toHost) \in Seq({"ack", "nack"})
    BY <2>1, HeadTailProperties
  <2> QED BY <1>1, <2>1, <2>2
<1> DEFINE HostType == [phase : {"idle", "begin", "bytes", "end", "done"}, image : Image,
                        next : 1..Blocks]
<1>3. \A t \in {"begin", "bytes", "end", "abort"}, i \in Image, k \in 1..Blocks :
         Sends(t, i, k) => toDevice' \in Seq(Packets)
  BY MessageType DEF Sends, Types
<1>4. 1 \in 1..Blocks
  BY BlocksAssumption
<1>5. ASSUME NEW k \in Nat \ {0}, Continue(k)
      PROVE  host' \in HostType /\ toDevice' \in Seq(Packets)
  <2>1. host \in HostType
    BY DEF Types
  <2>2. CASE k <= Blocks
    <3>1. k \in 1..Blocks
      BY <1>5, <2>2, BlocksAssumption
    <3>2. host' = [host EXCEPT !.phase = "bytes", !.next = k] /\ Sends("bytes", host.image, k)
      BY <1>5, <2>2 DEF Continue
    <3> QED BY <1>3, <2>1, <3>1, <3>2
  <2>3. CASE ~(k <= Blocks)
    <3>1. host' = [host EXCEPT !.phase = "end"] /\ Sends("end", host.image, 1)
      BY <1>5, <2>3 DEF Continue
    <3> QED BY <1>3, <1>4, <2>1, <3>1
  <2> QED BY <2>2, <2>3
<1>6. ASSUME GiveUp
      PROVE  host' \in HostType /\ toDevice' \in Seq(Packets)
  <2>1. host \in HostType /\ toDevice \in Seq(Packets)
    BY DEF Types
  <2>2. /\ host' = [host EXCEPT !.phase = "idle"]
        /\ Sends("abort", host.image, 1) \/ UNCHANGED toDevice
    BY <1>6 DEF GiveUp
  <2> QED BY <1>3, <1>4, <2>1, <2>2
<1>7. host' \in HostType /\ toDevice' \in Seq(Packets)
  <2>1. CASE \E i \in Image : HostBegins(i)
    BY <1>3, <1>4, <2>1 DEF HostBegins
  <2>2. CASE HostHears
    <3>1. host.next + 1 \in Nat \ {0}
      BY BlocksAssumption DEF Types
    <3>2. \/ Continue(1) \/ Continue(host.next + 1) \/ GiveUp
          \/ host' = [host EXCEPT !.phase = "done"] /\ UNCHANGED toDevice
          \/ UNCHANGED <<host, toDevice>>
      BY <2>2 DEF HostHears
    <3>3. CASE Continue(1) \/ Continue(host.next + 1) \/ GiveUp
      BY <1>5, <1>6, <3>1, <3>3
    <3>4. CASE host' = [host EXCEPT !.phase = "done"] /\ UNCHANGED toDevice
      BY <3>4 DEF Types
    <3>5. CASE UNCHANGED <<host, toDevice>>
      BY <3>5 DEF Types
    <3> QED BY <3>2, <3>3, <3>4, <3>5
  <2>3. CASE HostTimesOut
    BY <1>6, <2>3 DEF HostTimesOut
  <2> QED BY <2>1, <2>2, <2>3
<1> QED BY <1>1, <1>2, <1>7 DEF Types

LEMMA LinkTypes == ASSUME Types, Lose \/ Damage PROVE Types'
<1>1. CASE Lose
  <2>1. toDevice \in Seq(Packets) /\ toHost \in Seq({"ack", "nack"})
    BY DEF Types
  <2>2. /\ toDevice # <<>> => Tail(toDevice) \in Seq(Packets)
        /\ toHost # <<>> => Tail(toHost) \in Seq({"ack", "nack"})
    BY <2>1, HeadTailProperties
  <2>3. toDevice' \in Seq(Packets) /\ toHost' \in Seq({"ack", "nack"})
    BY <1>1, <2>1, <2>2 DEF Lose
  <2> QED BY <1>1, <2>3 DEF Lose, Types
<1>2. CASE Damage
  <2>1. 1 \in 1..Len(toDevice) /\ toDevice[1] \in Packets
    BY <1>2, EmptySeq, ElementOfSeq DEF Damage, Types
  <2>2. [toDevice[1] EXCEPT !.block.damaged = TRUE] \in Packets
    BY <2>1 DEF Packets, Block
  <2>3. toDevice' = [toDevice EXCEPT ![1] = [toDevice[1] EXCEPT !.block.damaged = TRUE]]
    BY <1>2 DEF Damage
  <2>4. toDevice' \in Seq(Packets)
    BY <2>1, <2>2, <2>3, ExceptSeq DEF Types
  <2> QED BY <1>2, <2>4 DEF Damage, Types
<1> QED BY <1>1, <1>2

LEMMA NextTypes == Types /\ [FirmwareNext]_firmwareVars => Types'
<1> SUFFICES ASSUME Types, [FirmwareNext]_firmwareVars PROVE Types'
  OBVIOUS
<1>1. CASE DeviceHears
  BY <1>1, DeviceHearsTypes
<1>2. CASE CheckTimeout
  BY <1>2, AbortType DEF CheckTimeout, Types, link
<1>3. CASE RebootIntoUpdate
  <2>1. CASE writer.ready
    <3>1. Started(Target, TRUE) \in [partition : Partition, at : {"boot", "normal", "bricked"},
                                     trial : BOOLEAN, healthy : BOOLEAN, allowed : BOOLEAN]
      BY OtherPartition DEF Started, Target, Types
    <3> QED BY <1>3, <2>1, <3>1, RestartTypes DEF RebootIntoUpdate
  <2>2. CASE ~writer.ready
    BY <1>3, <2>2 DEF RebootIntoUpdate, Types, link
  <2> QED BY <2>1, <2>2
<1>4. CASE PowerFails \/ Crash
  BY <1>4, NormalBootTypes DEF PowerFails, Crash
<1>5. CASE BootOver \/ StartHealthPeriod
  BY <1>5 DEF BootOver, StartHealthPeriod, Types, link
<1>6. CASE Buy
  <2>1. /\ [flash EXCEPT ![device.partition].bought = TRUE] \in
                [Partition -> [blocks : Seq(Block), bought : BOOLEAN]]
        /\ UNCHANGED <<receiver, writer, pending, host, toDevice, toHost>>
    BY <1>6 DEF Types, Buy, link
  <2>2. CASE Buys
    BY <2>1, <2>2 DEF Types, Buys
  <2>3. CASE BuyFails
    BY <2>1, <2>3 DEF Types, BuyFails
  <2> QED BY <1>6, <2>2, <2>3 DEF Buy
<1>7. CASE (\E i \in Image : HostBegins(i)) \/ HostHears \/ HostTimesOut
  BY <1>7, HostTypes
<1>8. CASE Lose \/ Damage
  BY <1>8, LinkTypes
<1>9. CASE UNCHANGED firmwareVars
  BY <1>9 DEF firmwareVars, link, Types
<1> QED BY <1>1, <1>2, <1>3, <1>4, <1>5, <1>6, <1>7, <1>8, <1>9 DEF FirmwareNext

-----------------------------------------------------------------------------
(* Staging *)

LEMMA AppendedPrefix ==
    ASSUME NEW st \in Seq(Block), NEW b \in Block
    PROVE  SubSeq(Append(st, b), 1, Len(st)) = st
<1> DEFINE t == Append(st, b)
           u == SubSeq(t, 1, Len(st))
<1>1. /\ t \in Seq(Block) /\ Len(st) \in Nat /\ Len(t) = Len(st) + 1
      /\ \A k \in 1..Len(st) : t[k] = st[k]
  OBVIOUS
<1>2. \A k \in 1..Len(st) : t[k] \in Block
  BY <1>1, ElementOfSeq
<1> HIDE DEF t
<1>3. /\ u \in Seq(Block) /\ Len(u) = Len(st)
      /\ \A k \in 1..Len(u) : u[k] = t[k]
  BY <1>1, <1>2, SubSeqProperties
<1> HIDE DEF u
<1>4. u = st
  BY <1>1, <1>3, SeqEqual
<1> QED BY <1>4 DEF t, u

\* What the flush of a received stream leaves in flash.
LEMMA BytesStaged ==
    ASSUME Types, Staging, receiver.receiving, NEW b \in Block, Accepts(b), FlushSector,
           writer' = [writer EXCEPT !.stream = Append(@, b), !.staged = <<b>>],
           receiver' = [receiver EXCEPT !.got = @ + 1], UNCHANGED device
    PROVE  Staging'
<1> DEFINE st == writer.stream
<1>1. /\ st \in Seq(Block) /\ Len(st) \in Nat /\ b.index = Len(st) + 1
      /\ Append(st, b) \in Seq(Block) /\ Len(Append(st, b)) = Len(st) + 1
      /\ Append(st, b)[Len(st) + 1] = b
  BY DEF Types, Accepts
<1>2. /\ writer'.stream = Append(st, b) /\ writer'.staged = <<b>>
      /\ writer'.receiving = writer.receiving /\ writer'.ready = writer.ready
      /\ receiver'.receiving = receiver.receiving /\ receiver'.got = receiver.got + 1
      /\ Target' = Target
  BY DEF Types, Target
<1>3. writer.receiving /\ ~writer.ready /\ receiver.got = Len(st) /\ Staged
  BY DEF Staging
<1>4. Len(st) + 1 > 1 => flash'[Target].blocks = st
  <2>1. Len(st) + 1 > 1 => st # <<>>
    BY <1>1
  <2> QED BY <1>3, <2>1, FlushStream
<1>5. SubSeq(Append(st, b), 1, (Len(st) + 1) - 1) = st
  BY <1>1, AppendedPrefix
<1>6. Append(st, b) # <<>>
  BY <1>1
<1>7. Staged'
  BY <1>1, <1>2, <1>4, <1>5, <1>6 DEF Staged
<1> QED BY <1>1, <1>2, <1>3, <1>7 DEF Staging

LEMMA EndStaged ==
    ASSUME Types, Staging, HandleEnd, receiver.receiving, UNCHANGED device
    PROVE  /\ Staging'
           /\ toHost' = Append(toHost, "ack") =>
                flash'[Target].blocks = Whole(writer.image) /\ Target \in Partition
<1>1. writer.receiving /\ Staged
  BY DEF Staging
<1>2. receiver'.receiving = FALSE /\ Target' = Target /\ Target \in Partition
  BY OtherPartition DEF HandleEnd, Types, Target
<1>3. CASE Complete(writer) /\ Verified(writer)
  <2>1. writer.stream # <<>>
    BY <1>3, BlocksAssumption DEF Complete
  <2>2. FlushSector
    BY <1>3 DEF HandleEnd, Finalize
  <2>3. flash'[Target].blocks = Whole(writer.image)
    BY <1>1, <1>3, <2>1, <2>2, FlushStream DEF Verified
  <2>4. writer' = [Abort(writer) EXCEPT !.ready = TRUE]
    BY <1>3 DEF HandleEnd
  <2>5. ~writer'.receiving
    BY <2>4 DEF Abort, Types
  <2>6. writer.image \in Image
    BY DEF Types
  <2> QED BY <1>2, <2>3, <2>5, <2>6 DEF Staging, Holds
<1>4. CASE ~(Complete(writer) /\ Verified(writer))
  <2>1. writer' = Abort(writer) /\ toHost' = Append(toHost, "nack")
    BY <1>4 DEF HandleEnd, Reply
  <2>2. ~writer'.receiving /\ ~writer'.ready
    BY <2>1 DEF Abort, Types
  <2>3. toHost' # Append(toHost, "ack")
    <3>1. toHost \in Seq({"ack", "nack"})
      BY DEF Types
    <3>2. /\ Append(toHost, "ack")[Len(toHost) + 1] = "ack"
          /\ Append(toHost, "nack")[Len(toHost) + 1] = "nack"
      BY <3>1
    <3> QED BY <2>1, <3>2
  <2> QED BY <1>2, <2>2, <2>3 DEF Staging
<1> QED BY <1>3, <1>4

\* A writer that has stopped has nothing staged to speak of.
LEMMA StoppedStaged ==
    ASSUME ~receiver'.receiving, ~writer'.receiving, ~writer'.ready
    PROVE  Staging'
BY DEF Staging

LEMMA AbortStops ==
    ASSUME Types
    PROVE  ~Abort(writer).receiving /\ ~Abort(writer).ready /\ Abort(writer).image = writer.image
BY DEF Types, Abort

LEMMA SameStaged ==
    ASSUME Staging, UNCHANGED <<receiver, writer>>, Target' = Target,
           flash'[Target].blocks = flash[Target].blocks
    PROVE  Staging'
BY DEF Staging, Staged, Holds

LEMMA DeviceHearsStaging == ASSUME Types, Staging, DeviceHears PROVE Staging'
<1> DEFINE msg == Head(toDevice)
<1>1. msg.block \in Block
  <2>1. toDevice \in Seq(Packets) /\ toDevice # <<>>
    BY DEF DeviceHears, Types
  <2>2. msg \in Packets
    BY <2>1, HeadTailProperties
  <2> QED BY <2>2 DEF Packets
<1>2. UNCHANGED device /\ Target' = Target
  BY DEF DeviceHears, Target
<1>3. CASE HandleBegin(msg.block.image)
  <2>1. CASE AcceptBegin(msg.block.image)
    BY <2>1 DEF AcceptBegin, Begin, Staging, Staged
  <2>2. CASE RefuseBegin
    BY <1>2, <2>2, SameStaged DEF RefuseBegin
  <2>3. CASE writer' = Abort(writer) /\ receiver' = [receiver EXCEPT !.receiving = FALSE]
    BY <2>3, AbortStops, StoppedStaged DEF Types
  <2> QED BY <1>3, <2>1, <2>2, <2>3 DEF HandleBegin
<1>4. CASE HandleBytes(msg.block)
  <2>1. CASE ~receiver.receiving
    BY <1>2, <1>4, <2>1, SameStaged DEF HandleBytes
  <2>2. CASE receiver.receiving /\ receiver.got < Blocks /\ Accepts(msg.block)
    BY <1>1, <1>2, <1>4, <2>2, BytesStaged DEF HandleBytes
  <2>3. CASE receiver.receiving /\ ~(receiver.got < Blocks /\ Accepts(msg.block))
    <3>1. writer' = Abort(writer) /\ receiver' = [receiver EXCEPT !.receiving = FALSE]
      BY <1>4, <2>3 DEF HandleBytes
    <3> QED BY <3>1, AbortStops, StoppedStaged DEF Types
  <2> QED BY <2>1, <2>2, <2>3
<1>5. CASE HandleEnd
  <2>1. CASE ~receiver.receiving
    BY <1>2, <1>5, <2>1, SameStaged DEF HandleEnd
  <2> QED BY <1>2, <1>5, <2>1, EndStaged
<1>6. CASE HandleAbort
  <2>1. CASE receiver.receiving
    <3>1. writer' = Abort(writer) /\ receiver' = [receiver EXCEPT !.receiving = FALSE]
      BY <1>6, <2>1 DEF HandleAbort
    <3> QED BY <3>1, AbortStops, StoppedStaged DEF Types
  <2>2. CASE ~receiver.receiving
    <3>1. writer' = writer /\ UNCHANGED flash /\ ~receiver'.receiving
      BY <1>6, <2>2 DEF HandleAbort, Types
    <3> QED BY <1>2, <2>2, <3>1 DEF Staging, Staged, Holds
  <2> QED BY <2>1, <2>2
<1> QED BY <1>3, <1>4, <1>5, <1>6 DEF DeviceHears

LEMMA BuyKeepsBlocks ==
    ASSUME Types, Buy
    PROVE  /\ device'.partition = device.partition
           /\ \A p \in Partition : flash'[p].blocks = flash[p].blocks
           /\ \A p \in Partition : flash[p].bought => flash'[p].bought
<1>1. CASE Buys
  <2>1. device' = [device EXCEPT !.trial = FALSE, !.allowed = TRUE]
    BY <1>1 DEF Buys
  <2>2. flash' = [flash EXCEPT ![device.partition].bought = TRUE]
    BY <1>1 DEF Buys
  <2> QED BY <2>1, <2>2 DEF Types
<1>2. CASE BuyFails
  <2>1. device' = [device EXCEPT !.healthy = FALSE] /\ flash' = flash
    BY <1>2 DEF BuyFails
  <2> QED BY <2>1 DEF Types
<1> QED BY <1>1, <1>2 DEF Buy

LEMMA NextStaging == Types /\ Staging /\ [FirmwareNext]_firmwareVars => Staging'
<1> SUFFICES ASSUME Types, Staging, [FirmwareNext]_firmwareVars PROVE Staging'
  OBVIOUS
<1>1. CASE DeviceHears
  BY <1>1, DeviceHearsStaging
<1>2. CASE CheckTimeout
  <2>1. writer' = Abort(writer) /\ receiver' = [receiver EXCEPT !.receiving = FALSE]
    BY <1>2 DEF CheckTimeout
  <2> QED BY <2>1, AbortStops, StoppedStaged DEF Types
<1>3. ASSUME NEW d, Restart(d) PROVE Staging'
  BY <1>3, StoppedStaged DEF Restart, IdleReceiver, IdleWriter
<1>4. CASE RebootIntoUpdate /\ ~writer.ready
  BY <1>4, SameStaged DEF RebootIntoUpdate, Target
<1>5. CASE PowerFails \/ Crash \/ (RebootIntoUpdate /\ writer.ready)
  BY <1>3, <1>5 DEF PowerFails, Crash, NormalBoot, RebootIntoUpdate
<1>6. CASE BootOver \/ StartHealthPeriod
  <2>1. device'.partition = device.partition /\ UNCHANGED <<flash, receiver, writer>>
    BY <1>6 DEF BootOver, StartHealthPeriod, Types
  <2> QED BY <2>1, SameStaged DEF Target
<1>7. CASE Buy
  <2>1. UNCHANGED <<receiver, writer>>
    BY <1>7 DEF Buy
  <2>2. Target \in Partition
    BY OtherPartition DEF Types, Target
  <2> QED BY <1>7, <2>1, <2>2, BuyKeepsBlocks, SameStaged DEF Target
<1>8. CASE (\E i \in Image : HostBegins(i)) \/ HostHears \/ HostTimesOut \/ Lose \/ Damage
  <2>1. UNCHANGED <<flash, device, receiver, writer>>
    BY <1>8 DEF HostBegins, HostHears, HostTimesOut, HostOnly, Lose, Damage
  <2> QED BY <2>1, SameStaged DEF Target
<1>9. CASE UNCHANGED firmwareVars
  BY <1>9, SameStaged DEF firmwareVars, Target
<1> QED BY <1>1, <1>2, <1>4, <1>5, <1>6, <1>7, <1>8, <1>9 DEF FirmwareNext

-----------------------------------------------------------------------------
(* Session *)

LEMMA StoredKept ==
    ASSUME Stored, host'.image = host.image,
           \A p \in Partition : flash'[p].blocks = flash[p].blocks
    PROVE  Stored'
BY DEF Stored

LEMMA Single ==
    ASSUME NEW S, NEW s \in Seq(S), Len(s) = 1
    PROVE  s = <<Head(s)>> /\ Tail(s) = <<>> /\ Head(s) = s[1]
<1>1. s # <<>> /\ 1 \in 1..Len(s)
  OBVIOUS
<1>2. Head(s) \in S /\ Tail(s) \in Seq(S) /\ Len(Tail(s)) = 0 /\ Head(s) = s[1]
  BY <1>1, HeadTailProperties
<1>3. <<Head(s)>> \in Seq(S) /\ Len(<<Head(s)>>) = 1 /\ <<Head(s)>>[1] = s[1]
  BY <1>2
<1>4. s = <<Head(s)>>
  BY <1>3, SeqEqual
<1> QED BY <1>2, <1>4, EmptySeq

LEMMA OneOfTwo ==
    ASSUME NEW m \in Nat, NEW n \in Nat, m + n <= 1, m # 0
    PROVE  m = 1 /\ n = 0
OBVIOUS

\* What a device hears in a session is its only message.
LEMMA OnlyMessage ==
    ASSUME Types, Session, Active, toDevice # <<>>
    PROVE  /\ Head(toDevice).tag = host.phase /\ Head(toDevice).block.image = host.image
           /\ Tail(toDevice) = <<>> /\ toHost = <<>>
<1>1. /\ toDevice \in Seq(Packets) /\ Len(toDevice) \in Nat /\ Len(toDevice) # 0
      /\ toHost \in Seq({"ack", "nack"}) /\ Len(toHost) \in Nat
  BY DEF Types
<1>2. Len(toDevice) = 1 /\ Len(toHost) = 0
  <2>1. Len(toDevice) + Len(toHost) <= 1
    BY DEF Session
  <2> QED BY <1>1, <2>1, OneOfTwo
<1>3. Head(toDevice) = toDevice[1] /\ Tail(toDevice) = <<>> /\ toHost = <<>>
  BY <1>1, <1>2, Single
<1>4. toDevice[1].tag = host.phase /\ toDevice[1].block.image = host.image
  <2>1. 1 \in 1..Len(toDevice)
    BY <1>2
  <2> QED BY <2>1 DEF Session
<1> QED BY <1>3, <1>4

LEMMA OnlyAnswer ==
    ASSUME Types, Session, Active, toHost # <<>>
    PROVE  toHost = <<Head(toHost)>> /\ Tail(toHost) = <<>> /\ toDevice = <<>>
<1>1. /\ toDevice \in Seq(Packets) /\ Len(toDevice) \in Nat
      /\ toHost \in Seq({"ack", "nack"}) /\ Len(toHost) \in Nat /\ Len(toHost) # 0
  BY DEF Types
<1>2. Len(toDevice) = 0 /\ Len(toHost) = 1
  <2>1. Len(toDevice) + Len(toHost) <= 1
    BY DEF Session
  <2>2. Len(toHost) + Len(toDevice) <= 1
    BY <1>1, <2>1
  <2> QED BY <1>1, <2>2, OneOfTwo
<1> QED BY <1>1, <1>2, Single

LEMMA DeviceHearsSession ==
    ASSUME Types, Staging, Session, DeviceHears
    PROVE  Session'
<1> DEFINE msg == Head(toDevice)
<1>1. toDevice # <<>> /\ toDevice' = Tail(toDevice) /\ UNCHANGED <<host, device>>
  BY DEF DeviceHears
<1>2. CASE ~Active
  BY <1>1, <1>2 DEF Session, Active, Types
<1>3. CASE Active
  <2>1. /\ msg.tag = host.phase /\ msg.block.image = host.image
        /\ toDevice' = <<>> /\ toHost = <<>>
    BY <1>1, <1>3, OnlyMessage
  <2>2. ASSUME NEW t \in {"ack", "nack"}, Reply(t)
        PROVE  toHost' = <<t>> /\ Len(toHost') = 1 /\ Len(toDevice') = 0
               /\ (t = "nack" => toHost' # <<"ack">>)
    BY <2>1, <2>2 DEF Reply
  <2>3. CASE host.phase = "begin"
    <3>1. HandleBegin(host.image)
      BY <2>1, <2>3 DEF DeviceHears
    <3>2. CASE AcceptBegin(host.image)
      <4>1. writer'.image = host.image /\ Reply("ack")
        BY <3>2 DEF AcceptBegin, Begin
      <4>2. Len(toHost') = 1 /\ Len(toDevice') = 0
        BY <2>2, <4>1
      <4> QED BY <1>1, <2>3, <4>1, <4>2 DEF Session, Active
    <3>3. CASE Reply("nack")
      <4>1. Len(toHost') = 1 /\ Len(toDevice') = 0 /\ toHost' # <<"ack">>
        BY <2>2, <3>3
      <4> QED BY <1>1, <2>3, <4>1 DEF Session, Active
    <3> QED BY <3>1, <3>2, <3>3 DEF HandleBegin, RefuseBegin
  <2>4. CASE host.phase = "bytes"
    <3>1. HandleBytes(msg.block)
      BY <2>1, <2>4 DEF DeviceHears
    <3>2. (Reply("ack") \/ Reply("nack")) /\ writer'.image = writer.image
          /\ (receiver'.receiving => receiver.receiving)
      BY <3>1, AbortStops DEF HandleBytes, Types
    <3>3. Len(toHost') = 1 /\ Len(toDevice') = 0
      BY <2>2, <3>2
    <3> QED BY <1>1, <2>1, <2>4, <3>2, <3>3 DEF Session, Active
  <2>5. CASE host.phase = "end"
    <3>1. HandleEnd
      BY <2>1, <2>5 DEF DeviceHears
    <3>2. ~receiver'.receiving /\ (Reply("ack") \/ Reply("nack"))
      BY <3>1 DEF HandleEnd, Types
    <3>3. Reply("ack") => receiver.receiving
      BY <2>2, <3>1 DEF HandleEnd
    <3>4. Reply("ack") => Stored'
      <4> SUFFICES ASSUME Reply("ack") PROVE Stored'
        OBVIOUS
      <4>1. flash'[Target].blocks = Whole(writer.image) /\ Target \in Partition
        BY <1>1, <3>1, <3>3, EndStaged DEF Reply
      <4>2. writer.image = host.image
        BY <2>5, <3>3 DEF Session
      <4> QED BY <1>1, <4>1, <4>2 DEF Stored
    <3>5. Len(toHost') = 1 /\ Len(toDevice') = 0 /\ (toHost' = <<"ack">> => Reply("ack"))
      BY <2>2, <3>2
    <3> QED BY <1>1, <2>1, <2>5, <3>2, <3>4, <3>5 DEF Session, Active
  <2> QED BY <1>3, <2>3, <2>4, <2>5 DEF Active
<1> QED BY <1>2, <1>3

LEMMA SilentSession ==
    ASSUME Types, Session, UNCHANGED host, \A p \in Partition : flash'[p].blocks = flash[p].blocks,
           toDevice' = <<>>, toHost' = <<>>, ~receiver'.receiving
    PROVE  Session'
BY StoredKept DEF Session, Active

LEMMA SameSession ==
    ASSUME Types, Session, UNCHANGED <<host, toDevice, toHost>>,
           \A p \in Partition : flash'[p].blocks = flash[p].blocks,
           receiver'.receiving => receiver.receiving /\ writer'.image = writer.image
    PROVE  Session'
BY StoredKept DEF Session, Active

LEMMA HostSession ==
    ASSUME Types, Session, (\E i \in Image : HostBegins(i)) \/ HostHears \/ HostTimesOut
    PROVE  Session'
<1>1. UNCHANGED <<flash, receiver, writer>>
  BY DEF HostBegins, HostHears, HostTimesOut, HostOnly
<1>2. ASSUME NEW t, NEW i, NEW k, Sends(t, i, k), toDevice = <<>>, toHost' = <<>>,
             host'.phase = t, host'.image = i, t \in {"begin", "bytes", "end"},
             t # "begin" /\ receiver.receiving => writer.image = i
      PROVE  Session'
  <2>1. toDevice' = <<Message(t, i, k)>>
    BY <1>2 DEF Sends
  <2>2. Len(toDevice') = 1 /\ toDevice'[1].tag = t /\ toDevice'[1].block.image = i /\ Len(toHost') = 0
    BY <1>2, <2>1 DEF Message
  <2> QED BY <1>1, <1>2, <2>2 DEF Session, Active
<1>3. CASE \E i \in Image : HostBegins(i)
  <2>1. PICK i \in Image : HostBegins(i)
    BY <1>3
  <2>2. /\ toDevice = <<>> /\ toHost' = <<>> /\ Sends("begin", i, 1)
        /\ host'.phase = "begin" /\ host'.image = i
    BY <2>1 DEF HostBegins, link
  <2> QED BY <1>2, <2>2
<1>4. ASSUME GiveUp PROVE host'.phase = "idle"
  BY <1>4 DEF GiveUp, Types
<1>5. ASSUME host'.phase = "idle" PROVE Session'
  BY <1>5 DEF Session, Active
<1>6. CASE HostHears
  <2>1. toHost # <<>> /\ toHost' = Tail(toHost)
    BY <1>6 DEF HostHears
  <2>2. CASE Active
    <3>1. toHost = <<Head(toHost)>> /\ toHost' = <<>> /\ toDevice = <<>>
      BY <2>1, <2>2, OnlyAnswer
    <3>2. ASSUME NEW k, Continue(k), receiver.receiving => writer.image = host.image
          PROVE  Session'
      <4>1. \/ Sends("bytes", host.image, k) /\ host'.phase = "bytes" /\ host'.image = host.image
            \/ Sends("end", host.image, 1) /\ host'.phase = "end" /\ host'.image = host.image
        BY <3>2 DEF Continue, Types
      <4> QED BY <1>2, <3>1, <3>2, <4>1
    <3>3. CASE Head(toHost) = "ack" /\ host.phase = "begin"
      <4>1. Continue(1)
        BY <1>6, <3>3 DEF HostHears
      <4> QED BY <3>1, <3>2, <3>3, <4>1 DEF Session
    <3>4. CASE Head(toHost) = "ack" /\ host.phase = "bytes"
      <4>1. Continue(host.next + 1)
        BY <1>6, <3>4 DEF HostHears
      <4> QED BY <3>2, <3>4, <4>1 DEF Session
    <3>5. CASE Head(toHost) = "ack" /\ host.phase = "end"
      <4>1. host' = [host EXCEPT !.phase = "done"] /\ toDevice' = <<>>
        BY <1>6, <3>1, <3>5 DEF HostHears
      <4>2. Stored
        BY <3>1, <3>5 DEF Session
      <4>3. host'.phase = "done" /\ host'.image = host.image
        BY <4>1 DEF Types
      <4>4. Stored'
        BY <1>1, <4>2, <4>3, StoredKept
      <4> QED BY <3>1, <4>1, <4>3, <4>4 DEF Session, Active
    <3>6. CASE Head(toHost) # "ack"
      <4>1. GiveUp
        BY <1>6, <2>2, <3>6 DEF HostHears, Active
      <4> QED BY <1>4, <1>5, <4>1
    <3> QED BY <2>2, <3>3, <3>4, <3>5, <3>6 DEF Active
  <2>3. CASE host.phase = "idle"
    BY <1>5, <1>6, <2>3 DEF HostHears
  <2>4. CASE host.phase = "done"
    BY <2>1, <2>4 DEF Session
  <2> QED BY <2>2, <2>3, <2>4 DEF Active, Types
<1>7. CASE HostTimesOut
  BY <1>4, <1>5, <1>7 DEF HostTimesOut
<1> QED BY <1>3, <1>6, <1>7

LEMMA LinkSession ==
    ASSUME Types, Session, Lose \/ Damage
    PROVE  Session'
<1>1. UNCHANGED <<flash, receiver, writer, host>>
  BY DEF Lose, Damage
<1>2. CASE Lose
  <2>1. CASE ~Active
    BY <1>1, <1>2, <2>1, StoredKept DEF Session, Active, Lose
  <2>2. CASE Active
    <3>1. \/ toDevice # <<>> /\ toDevice' = Tail(toDevice) /\ toHost' = toHost
          \/ toHost # <<>> /\ toHost' = Tail(toHost) /\ toDevice' = toDevice
      BY <1>2 DEF Lose
    <3>2. toDevice' = <<>> /\ toHost' = <<>>
      BY <2>2, <3>1, OnlyMessage, OnlyAnswer
    <3> QED BY <1>1, <2>2, <3>2 DEF Session, Active
  <2> QED BY <2>1, <2>2
<1>3. CASE Damage
  <2>1. /\ toDevice \in Seq(Packets) /\ toDevice # <<>> /\ UNCHANGED toHost
        /\ toDevice' = [toDevice EXCEPT ![1] = [toDevice[1] EXCEPT !.block.damaged = TRUE]]
    BY <1>3 DEF Damage, Types
  <2>2. 1 \in 1..Len(toDevice) /\ toDevice[1] \in Packets
    BY <2>1, EmptySeq, ElementOfSeq
  <2>3. /\ Len(toDevice') = Len(toDevice)
        /\ \A k \in 1..Len(toDevice) : /\ toDevice'[k].tag = toDevice[k].tag
                                       /\ toDevice'[k].block.image = toDevice[k].block.image
    BY <2>1, <2>2 DEF Packets, Block
  <2>4. host.phase # "done"
    BY <2>1 DEF Session
  <2> QED BY <1>1, <2>1, <2>3, <2>4, StoredKept DEF Session, Active
<1> QED BY <1>2, <1>3

LEMMA NextSession == Types /\ Staging /\ Session /\ [FirmwareNext]_firmwareVars => Session'
<1> SUFFICES ASSUME Types, Staging, Session, [FirmwareNext]_firmwareVars PROVE Session'
  OBVIOUS
<1>1. CASE DeviceHears
  BY <1>1, DeviceHearsSession
<1>2. CASE CheckTimeout
  BY <1>2, SameSession DEF CheckTimeout, Types, link
<1>3. ASSUME NEW d, Restart(d) PROVE Session'
  BY <1>3, SilentSession DEF Restart, IdleReceiver
<1>4. CASE RebootIntoUpdate /\ ~writer.ready
  BY <1>4, SameSession DEF RebootIntoUpdate, link
<1>5. CASE PowerFails \/ Crash \/ (RebootIntoUpdate /\ writer.ready)
  BY <1>3, <1>5 DEF PowerFails, Crash, NormalBoot, RebootIntoUpdate
<1>6. CASE BootOver \/ StartHealthPeriod \/ UNCHANGED firmwareVars
  BY <1>6, SameSession DEF BootOver, StartHealthPeriod, firmwareVars, link
<1>7. CASE Buy
  <2>1. UNCHANGED <<receiver, writer, host, toDevice, toHost>>
    BY <1>7 DEF Buy, link
  <2> QED BY <1>7, <2>1, BuyKeepsBlocks, SameSession
<1>8. CASE (\E i \in Image : HostBegins(i)) \/ HostHears \/ HostTimesOut
  BY <1>8, HostSession
<1>9. CASE Lose \/ Damage
  BY <1>9, LinkSession
<1> QED BY <1>1, <1>2, <1>4, <1>5, <1>6, <1>7, <1>8, <1>9 DEF FirmwareNext

-----------------------------------------------------------------------------
(* Trial and fallback *)

\* What the device hears changes no partition but the target.
LEMMA HeardAtTarget ==
    ASSUME Types, DeviceHears
    PROVE  \A p \in Partition : p # Target => flash'[p] = flash[p]
BY FlushType DEF DeviceHears, HandleBegin, AcceptBegin, RefuseBegin, HandleBytes, HandleEnd,
                 Finalize, HandleAbort

LEMMA NextTrialWhole ==
    Types /\ Staging /\ TrialWhole /\ [FirmwareNext]_firmwareVars => TrialWhole'
<1> SUFFICES ASSUME Types, Staging, TrialWhole, [FirmwareNext]_firmwareVars PROVE TrialWhole'
  OBVIOUS
<1>1. CASE DeviceHears
  <2>1. device.partition \in Partition /\ device.partition # Target /\ UNCHANGED device
    BY <1>1, OtherPartition DEF Types, Target, DeviceHears
  <2> QED BY <1>1, <2>1, HeardAtTarget DEF TrialWhole, Holds
<1>2. ASSUME NEW d, Restart(d), ~d.trial PROVE TrialWhole'
  BY <1>2 DEF Restart, TrialWhole
<1>3. CASE PowerFails \/ Crash
  BY <1>2, <1>3 DEF PowerFails, Crash, NormalBoot, Started, Types
<1>4. CASE RebootIntoUpdate
  <2>1. CASE writer.ready
    BY <1>4, <2>1 DEF RebootIntoUpdate, Restart, Started, Staging, TrialWhole, Holds
  <2>2. CASE ~writer.ready
    BY <1>4, <2>2 DEF RebootIntoUpdate, TrialWhole, Holds
  <2> QED BY <2>1, <2>2
<1>5. CASE BootOver \/ StartHealthPeriod
  <2>1. device'.partition = device.partition /\ device'.trial = device.trial /\ UNCHANGED flash
    BY <1>5 DEF BootOver, StartHealthPeriod, Types
  <2> QED BY <2>1 DEF TrialWhole, Holds
<1>6. CASE Buy
  <2>1. device'.trial => device.trial
    BY <1>6 DEF Buy, Buys, BuyFails, Types
  <2> QED BY <1>6, <2>1, BuyKeepsBlocks DEF TrialWhole, Holds, Types
<1>7. CASE \/ CheckTimeout \/ Lose \/ Damage \/ HostHears \/ HostTimesOut
           \/ \E i \in Image : HostBegins(i)
  <2>1. UNCHANGED <<flash, device>>
    BY <1>7 DEF CheckTimeout, Lose, Damage, HostBegins, HostHears, HostTimesOut, HostOnly
  <2> QED BY <2>1 DEF TrialWhole, Holds
<1>8. CASE UNCHANGED firmwareVars
  BY <1>8 DEF firmwareVars, TrialWhole, Holds
<1> QED BY <1>1, <1>3, <1>4, <1>5, <1>6, <1>7, <1>8 DEF FirmwareNext

\* A partition other than the target boots as before.
LEMMA BootableKept ==
    ASSUME NEW p \in Partition, Bootable(p), flash'[p].blocks = flash[p].blocks, flash'[p].bought
    PROVE  Bootable(p)'
BY DEF Bootable, Holds

LEMMA NextFallback ==
    ASSUME HostWaits, Types, Staging, TrialWhole, Fallback, [FirmwareNext]_firmwareVars
    PROVE  Fallback'
<1>1. /\ device.partition \in Partition /\ Target \in Partition
      /\ device.partition # Target /\ Other(Target) = device.partition
  BY OtherPartition DEF Types, Target
<1>2. CASE DeviceHears
  <2>1. UNCHANGED device /\ toDevice # <<>> /\ toDevice' = Tail(toDevice) /\ Target' = Target
    BY <1>2 DEF DeviceHears, Target
  <2>2. device.at = "boot" => \A k \in 1..Len(toDevice') : toDevice'[k].tag # "begin"
    <3>1. toDevice \in Seq(Packets) /\ toDevice # <<>>
      BY <2>1 DEF Types
    <3>2. \A k \in 1..Len(Tail(toDevice)) : k + 1 \in 1..Len(toDevice) /\ Tail(toDevice)[k] = toDevice[k + 1]
      BY <3>1
    <3> QED BY <2>1, <3>2 DEF Fallback
  <2>3. CASE ~device.trial
    <3>1. Bootable(device.partition)'
      BY <1>1, <1>2, <2>1, <2>3, HeardAtTarget DEF Fallback, Bootable, Holds
    <3> QED BY <2>1, <2>2, <2>3, <3>1 DEF Fallback
  <2>4. CASE device.trial
    <3>1. ~receiver.receiving /\ ~writer.ready /\ Bootable(Target)
      BY <2>4 DEF Fallback
    <3>2. ~HandleBegin(Head(toDevice).block.image) \/ Head(toDevice).tag # "begin" \/ RefuseBegin
      <4>1. CASE device.at = "boot"
        <5>1. toDevice \in Seq(Packets) /\ toDevice # <<>>
          BY <2>1 DEF Types
        <5>2. 1 \in 1..Len(toDevice) /\ Head(toDevice) = toDevice[1]
          BY <5>1
        <5> QED BY <4>1, <5>2 DEF Fallback
      <4>2. CASE device.at = "normal"
        BY <2>4, <4>2 DEF Fallback, HandleBegin
      <4> QED BY <4>1, <4>2 DEF Types, Fallback
    <3>3. UNCHANGED flash /\ ~receiver'.receiving /\ ~writer'.ready
      BY <1>2, <3>1, <3>2 DEF DeviceHears, RefuseBegin, HandleBytes, HandleEnd, HandleAbort, Types
    <3>4. Bootable(Target)'
      BY <2>1, <3>1, <3>3 DEF Bootable, Holds
    <3> QED BY <2>1, <2>2, <2>4, <3>3, <3>4 DEF Fallback
  <2> QED BY <2>3, <2>4
<1>3. CASE CheckTimeout
  <2>1. /\ UNCHANGED <<flash, device, toDevice>> /\ Target' = Target
        /\ writer' = Abort(writer) /\ receiver' = [receiver EXCEPT !.receiving = FALSE]
    BY <1>3 DEF CheckTimeout, Target, link
  <2> QED BY <2>1, AbortStops DEF Fallback, Bootable, Holds, Types
<1>4. CASE PowerFails \/ Crash
  <2>1. NormalBoot
    BY <1>4 DEF PowerFails, Crash
  <2>2. \E p \in Partition : Bootable(p)
    BY <1>1 DEF Fallback
  <2>3. PICK p \in Partition : Bootable(p) /\ Restart(Started(p, FALSE))
    BY <2>1, <2>2 DEF NormalBoot
  <2> QED BY <2>3 DEF Restart, Started, Fallback, Bootable, Holds
<1>5. CASE RebootIntoUpdate
  <2>1. CASE writer.ready
    <3>1. ~device.trial /\ Bootable(device.partition)
      BY <2>1 DEF Fallback
    <3>2. Restart(Started(Target, TRUE))
      BY <1>5, <2>1 DEF RebootIntoUpdate
    <3>3. Target' = device.partition
      BY <1>1, <3>2 DEF Restart, Started, Target
    <3>4. Bootable(Target)'
      BY <3>1, <3>2, <3>3 DEF Restart, Bootable, Holds
    <3>5. /\ device'.at = "boot" /\ device'.trial /\ toDevice' = <<>>
          /\ ~receiver'.receiving /\ ~writer'.ready
      BY <3>2 DEF Restart, Started, IdleReceiver, IdleWriter
    <3> QED BY <3>4, <3>5 DEF Fallback
  <2>2. CASE ~writer.ready
    BY <1>5, <2>2 DEF RebootIntoUpdate, Fallback, Bootable, Holds, Target, link
  <2> QED BY <2>1, <2>2
<1>6. CASE BootOver
  <2>1. /\ device'.at = "normal" /\ device'.trial = device.trial
        /\ device'.partition = device.partition /\ device'.allowed = ~device.trial
        /\ UNCHANGED <<flash, receiver, writer, toDevice>>
    BY <1>6 DEF BootOver, Types, link
  <2> QED BY <2>1 DEF Fallback, Bootable, Holds, Target
<1>7. CASE StartHealthPeriod
  <2>1. /\ device'.at = device.at /\ device'.trial = device.trial
        /\ device'.partition = device.partition /\ device'.allowed = device.allowed
        /\ UNCHANGED <<flash, receiver, writer, toDevice>>
    BY <1>7 DEF StartHealthPeriod, Types, link
  <2> QED BY <2>1 DEF Fallback, Bootable, Holds, Target
<1>8. CASE Buy
  <2>1. /\ device.trial /\ device.at = "normal" /\ Holds(device.partition)
        /\ UNCHANGED <<receiver, writer, toDevice>>
    BY <1>8 DEF Buy, TrialWhole, link
  <2>2. CASE Buys
    <3>1. /\ ~device'.trial /\ device'.at = "normal" /\ device'.partition = device.partition
          /\ flash'[device.partition].bought
          /\ flash'[device.partition].blocks = flash[device.partition].blocks
      BY <1>1, <2>1, <2>2 DEF Buys, Types
    <3> QED BY <2>1, <3>1 DEF Fallback, Bootable, Holds
  <2>3. CASE BuyFails
    <3>1. /\ device'.trial = device.trial /\ device'.at = device.at
          /\ device'.partition = device.partition /\ device'.allowed = device.allowed
          /\ UNCHANGED flash
      BY <2>3 DEF BuyFails, Types
    <3> QED BY <2>1, <3>1 DEF Fallback, Bootable, Holds, Target
  <2> QED BY <1>8, <2>2, <2>3 DEF Buy
<1>9. ASSUME UNCHANGED <<flash, device, receiver, writer>>,
             device.at = "boot" => \A k \in 1..Len(toDevice') : toDevice'[k].tag # "begin"
      PROVE  Fallback'
  BY <1>9 DEF Fallback, Bootable, Holds, Target
<1>10. ASSUME NEW t \in {"bytes", "end", "abort"}, NEW i, NEW k, Sends(t, i, k)
       PROVE  device.at = "boot" => \A j \in 1..Len(toDevice') : toDevice'[j].tag # "begin"
  <2>1. /\ toDevice \in Seq(Packets) /\ toDevice' = Append(toDevice, Message(t, i, k))
        /\ Message(t, i, k).tag # "begin"
    BY <1>10 DEF Sends, Message, Types
  <2>2. \A j \in 1..Len(toDevice') :
           \/ j \in 1..Len(toDevice) /\ toDevice'[j] = toDevice[j]
           \/ toDevice'[j] = Message(t, i, k)
    BY <2>1
  <2> QED BY <2>1, <2>2 DEF Fallback
<1>11. CASE \E i \in Image : HostBegins(i)
  <2>1. device.at = "normal" /\ UNCHANGED <<flash, device, receiver, writer>>
    BY <1>11 DEF HostBegins, HostOnly
  <2> QED BY <1>9, <2>1
<1>12. CASE HostHears \/ HostTimesOut
  <2>1. UNCHANGED <<flash, device, receiver, writer>>
    BY <1>12 DEF HostHears, HostTimesOut, HostOnly
  <2>2. \/ UNCHANGED toDevice
        \/ \E t \in {"bytes", "end", "abort"} : \E i, k : Sends(t, i, k)
    <3>1. \A k : Continue(k) => \E t \in {"bytes", "end", "abort"} : \E i, j : Sends(t, i, j)
      BY DEF Continue
    <3>2. GiveUp => \/ UNCHANGED toDevice
                    \/ \E t \in {"bytes", "end", "abort"} : \E i, j : Sends(t, i, j)
      BY DEF GiveUp
    <3>3. CASE HostHears
      <4>1. \/ Continue(1) \/ Continue(host.next + 1) \/ GiveUp \/ UNCHANGED toDevice
        BY <3>3 DEF HostHears
      <4> QED BY <3>1, <3>2, <4>1
    <3> QED BY <1>12, <3>2, <3>3 DEF HostTimesOut
  <2> QED BY <1>9, <1>10, <2>1, <2>2 DEF Fallback
<1>13. CASE Lose
  <2>1. UNCHANGED <<flash, device, receiver, writer>>
    BY <1>13 DEF Lose
  <2>2. UNCHANGED toDevice \/ (toDevice # <<>> /\ toDevice' = Tail(toDevice))
    BY <1>13 DEF Lose
  <2>3. toDevice # <<>> => \A k \in 1..Len(Tail(toDevice)) :
            k + 1 \in 1..Len(toDevice) /\ Tail(toDevice)[k] = toDevice[k + 1]
    BY DEF Types
  <2>4. device.at = "boot" => \A k \in 1..Len(toDevice') : toDevice'[k].tag # "begin"
    BY <2>2, <2>3 DEF Fallback
  <2> QED BY <1>9, <2>1, <2>4
<1>14. CASE Damage
  <2>1. UNCHANGED <<flash, device, receiver, writer>>
    BY <1>14 DEF Damage
  <2>2. /\ toDevice \in Seq(Packets) /\ toDevice # <<>>
        /\ toDevice' = [toDevice EXCEPT ![1] = [toDevice[1] EXCEPT !.block.damaged = TRUE]]
    BY <1>14 DEF Damage, Types
  <2>3. 1 \in 1..Len(toDevice) /\ toDevice[1] \in Packets
    BY <2>2, EmptySeq, ElementOfSeq
  <2>4. /\ Len(toDevice') = Len(toDevice)
        /\ \A k \in 1..Len(toDevice) : toDevice'[k].tag = toDevice[k].tag
    BY <2>2, <2>3 DEF Packets
  <2>5. device.at = "boot" => \A k \in 1..Len(toDevice') : toDevice'[k].tag # "begin"
    BY <2>4 DEF Fallback
  <2> QED BY <1>9, <2>1, <2>5
<1>15. CASE UNCHANGED firmwareVars
  BY <1>9, <1>15 DEF firmwareVars, link, Fallback
<1> QED BY <1>2, <1>3, <1>4, <1>5, <1>6, <1>7, <1>8, <1>11, <1>12, <1>13, <1>14, <1>15 DEF FirmwareNext

-----------------------------------------------------------------------------
LEMMA InitUpdateInv == FirmwareInit => UpdateInv /\ Fallback
<1> SUFFICES ASSUME FirmwareInit PROVE UpdateInv /\ Fallback
  OBVIOUS
<1>1. /\ Factory \in Image /\ Whole(Factory) \in Seq(Block) /\ <<>> \in Seq(Block)
      /\ 0 \in 0..Blocks /\ 1 \in 1..Blocks
      /\ "A" \in Partition /\ "B" \in Partition
  BY ImageAssumption, BlocksAssumption, WholeIsSeq DEF Partition
<1>2. /\ flash["A"] = [blocks |-> Whole(Factory), bought |-> TRUE]
      /\ flash \in [Partition -> [blocks : Seq(Block), bought : BOOLEAN]]
  BY <1>1 DEF FirmwareInit
<1>3. /\ device = [partition |-> "A", at |-> "boot", trial |-> FALSE, healthy |-> FALSE,
                   allowed |-> TRUE]
      /\ receiver = [receiving |-> FALSE, got |-> 0]
      /\ writer = [receiving |-> FALSE, ready |-> FALSE, image |-> Factory,
                   stream |-> <<>>, staged |-> <<>>]
      /\ host = [phase |-> "idle", image |-> Factory, next |-> 1]
      /\ pending = FALSE /\ toDevice = <<>> /\ toHost = <<>> /\ faults = 0 /\ sessions = 0
  BY DEF FirmwareInit, Started, IdleReceiver, IdleWriter, IdleHost
<1>4. <<>> \in Seq(Packets) /\ <<>> \in Seq({"ack", "nack"})
  OBVIOUS
<1>5. Types
  BY <1>1, <1>2, <1>3, <1>4 DEF Types
<1>6. Counters
  BY <1>3, BoundAssumption DEF Counters
<1>7. Staging /\ Session /\ TrialWhole
  BY <1>3 DEF Staging, Session, Active, TrialWhole
<1>8. Fallback
  BY <1>1, <1>2, <1>3 DEF Fallback, Bootable, Holds
<1> QED BY <1>5, <1>6, <1>7, <1>8 DEF UpdateInv

LEMMA NextCounters == Counters /\ [FirmwareNext]_firmwareVars => Counters'
<1> SUFFICES ASSUME Counters, [FirmwareNext]_firmwareVars PROVE Counters'
  OBVIOUS
<1>1. CASE UNCHANGED <<faults, sessions>>
  BY <1>1 DEF Counters
<1>2. CASE Fault /\ UNCHANGED sessions
  BY <1>2, BoundAssumption DEF Counters, Fault
<1>3. CASE \E i \in Image : HostBegins(i)
  BY <1>3, BoundAssumption DEF HostBegins, HostOnly, Counters
<1>4. ASSUME NEW d, Restart(d) PROVE UNCHANGED sessions
  BY <1>4 DEF Restart
<1>5. CASE PowerFails
  BY <1>2, <1>4, <1>5 DEF PowerFails, NormalBoot
<1>6. CASE Crash \/ RebootIntoUpdate
  BY <1>1, <1>4, <1>6 DEF Crash, NormalBoot, RebootIntoUpdate
<1>7. CASE Buy
  BY <1>1, <1>2, <1>7 DEF Buy, Buys, BuyFails
<1>8. CASE Lose \/ Damage
  BY <1>2, <1>8 DEF Lose, Damage
<1>9. CASE \/ DeviceHears \/ CheckTimeout \/ BootOver \/ StartHealthPeriod
           \/ HostHears \/ HostTimesOut \/ UNCHANGED firmwareVars
  BY <1>1, <1>9 DEF DeviceHears, CheckTimeout, BootOver, StartHealthPeriod, HostHears,
                    HostTimesOut, HostOnly, firmwareVars
<1> QED BY <1>3, <1>5, <1>6, <1>7, <1>8, <1>9 DEF FirmwareNext

LEMMA NextUpdateInv == UpdateInv /\ [FirmwareNext]_firmwareVars => UpdateInv'
BY NextTypes, NextCounters, NextStaging, NextSession, NextTrialWhole DEF UpdateInv

\* The state of FirmwareUpdate and FirmwareWriter and of the host keeps its
\* type, and the receiver has counted what the writer has hashed.
THEOREM UpdateTypeCorrect == FirmwareSpec => []FirmwareTypeOK
<1>1. UpdateInv => FirmwareTypeOK
  BY DEF UpdateInv, Types, Counters, Staging, Staged, FirmwareTypeOK
<1> QED BY <1>1, InitUpdateInv, NextUpdateInv, PTL DEF FirmwareSpec

\* The reboot after an update (SysExHandler::update) goes into a complete,
\* verified image, and what the host reports as accepted is in flash, for all
\* images and any number of losses, damages, power failures and crashes.
THEOREM TrialsAreWhole == FirmwareSpec => []TrialIsWhole
<1>1. UpdateInv => TrialIsWhole
  BY DEF UpdateInv, TrialWhole, Session, Stored, TrialIsWhole
<1> QED BY <1>1, InitUpdateInv, NextUpdateInv, PTL DEF FirmwareSpec

\* With a host that waits until the device has booted, no update, and nothing
\* that goes wrong in one, leaves the device without a partition that boots.
THEOREM StaysBootable == HostWaits /\ FirmwareSpec => []NeverBricked
<1> SUFFICES ASSUME HostWaits PROVE FirmwareSpec => []NeverBricked
  OBVIOUS
<1>1. UpdateInv /\ Fallback /\ [FirmwareNext]_firmwareVars => UpdateInv' /\ Fallback'
  BY NextUpdateInv, NextFallback DEF UpdateInv
<1>2. Fallback => NeverBricked
  BY DEF Fallback, NeverBricked
<1> QED BY <1>1, <1>2, InitUpdateInv, PTL DEF FirmwareSpec
=============================================================================

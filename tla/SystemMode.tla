----------------------------- MODULE SystemMode -----------------------------
(***************************************************************************)
(* How the drum changes between playing, transferring files and sleeping:  *)
(* SystemStateMachine with its states, the main loop, the part of          *)
(* SysExHandler that announces transfers, and what MessageRouter and       *)
(* SequencerController do when they hear of them.                          *)
(*                                                                         *)
(* One thread runs the loop, but its steps see each other's state: SysEx   *)
(* messages arrive at the end of an iteration, transfers are announced at  *)
(* the beginning of the next, and a button pressed between them acts on    *)
(* either.  Deadlines are abstract: each may have passed or not, at every  *)
(* iteration.  The four receivers of SysEx are busy or not; what they      *)
(* transfer is modelled in SdsDump and SdsUpload.                          *)
(***************************************************************************)
EXTENDS Naturals

CONSTANTS
    Slots,      \* sample slots a transfer may be about
    NoSlot,
    MaxSent     \* SysEx messages the host sends

ASSUME SlotAssumption == NoSlot \notin Slots
ASSUME SentAssumption == MaxSent \in Nat

VARIABLES
    loop,       \* where the main loop is, and the case its switch has chosen
    mode,       \* current_state_
    debouncing, \* FileTransferState::in_debounce_period_
    busy,       \* receivers with a transfer under way
    slot,       \* the slot of the SDS transfer under way
    announced,  \* SysExHandler: was_busy_, last_notified_sample_slot_,
                \*   sds_dump_was_active_, progress not yet notified
    update,     \* a verified image, and a reboot into it pending
    router,     \* MessageRouter: local control and its saved value; muted
    panel,      \* the control panel is connected
    running,    \* the sequencer runs
    sent        \* messages sent so far

vars == <<loop, mode, debouncing, busy, slot, announced, update, router,
          panel, running, sent>>

-----------------------------------------------------------------------------
Mode     == {"Boot", "Sequencer", "FileTransfer", "FallingAsleep", "Sleep"}
Receiver == {"custom", "upload", "dump", "firmware"}
Sds      == {"upload", "dump"}

is_valid_transition == {<<"Boot", "Sequencer">>, <<"Sequencer", "FileTransfer">>,
                        <<"Sequencer", "FallingAsleep">>, <<"FileTransfer", "Sequencer">>,
                        <<"FallingAsleep", "Sleep">>}

\* Entering and leaving FileTransfer both clear in_debounce_period_.
TransitionTo(to) ==
    IF <<mode, to>> \in is_valid_transition
    THEN mode' = to /\ debouncing' = FALSE
    ELSE UNCHANGED <<mode, debouncing>>

Unannounced == [busy |-> FALSE, slot |-> NoSlot, dump |-> FALSE, progress |-> TRUE]

\* Power on, or a reset by the watchdog or the bootrom; PizzaControls::init
\* disables local control for want of a panel.
Booted(connected) ==
    [loop |-> [at |-> "state", case |-> "Boot"],
     router |-> [local |-> IF connected THEN "on" ELSE "off", saved |-> "none",
                 muted |-> FALSE],
     update |-> [verified |-> FALSE, reboot |-> FALSE]]

Init ==
    /\ panel \in BOOLEAN
    /\ loop = Booted(panel).loop /\ router = Booted(panel).router
    /\ update = Booted(panel).update
    /\ mode = "Boot" /\ debouncing = FALSE
    /\ busy = {} /\ slot = NoSlot /\ announced = Unannounced
    /\ running = FALSE /\ sent = 0

Reset ==
    /\ loop' = Booted(panel).loop /\ router' = Booted(panel).router
    /\ update' = Booted(panel).update
    /\ mode' = "Boot" /\ debouncing' = FALSE
    /\ busy' = {} /\ slot' = NoSlot /\ announced' = Unannounced
    /\ running' = FALSE
    /\ UNCHANGED panel

-----------------------------------------------------------------------------
(* The main loop *)

\* What each case of the switch calls after what.  Booting and falling
\* asleep read MIDI but do not look after the transfers.
Following(at, case) ==
    CASE at = "state" /\ case \in {"Sequencer", "FileTransfer"} -> "sysex"
      [] at = "state" /\ case \in {"Boot", "FallingAsleep"}     -> "input"
      [] at = "sysex" /\ case = "Sequencer"                     -> "controls"
      [] at = "sysex" /\ case = "FileTransfer"                  -> "input"
      [] at = "controls"                                        -> "input"
      [] OTHER                                                  -> "state"

Goes == loop' = [loop EXCEPT !.at = Following(loop.at, loop.case)]

\* The current state's update(), then the display and the switch.
StateUpdate(elapsed) ==
    /\ loop.at = "state" /\ mode # "Sleep"
    /\ IF elapsed
       THEN \/ mode = "Boot" /\ TransitionTo("Sequencer")
            \/ mode = "FileTransfer" /\ debouncing /\ TransitionTo("Sequencer")
            \/ mode = "FallingAsleep" /\ TransitionTo("Sleep")
       ELSE UNCHANGED <<mode, debouncing>>
    /\ loop' = [at |-> Following("state", mode'), case |-> mode']
    /\ router' = IF mode' = "FallingAsleep" THEN [router EXCEPT !.muted = TRUE] ELSE router
    /\ UNCHANGED <<busy, slot, announced, update, panel, running, sent>>

\* Asleep, the button is let go and pressed again: the watchdog resets.
Wake == loop.at = "state" /\ mode = "Sleep" /\ Reset /\ UNCHANGED sent

-----------------------------------------------------------------------------
(* SysExTransferStateChangeEvent, in the order the observers are attached *)

\* MessageRouter
RouterHears(active) ==
    router' = IF active
              THEN [local |-> "off", saved |-> router.local, muted |-> TRUE]
              ELSE [local |-> IF router.saved = "none" THEN router.local ELSE router.saved,
                    saved |-> "none", muted |-> FALSE]

\* SequencerController
SequencerHears(active) == running' = (running /\ ~active)

\* Mutant: a transfer that begins while the last one's debounce runs does
\* not cancel it.
StateMachineHearsNoRestart(active, skip) ==
    IF active
    THEN TransitionTo("FileTransfer")
    ELSE CASE mode # "FileTransfer"         -> UNCHANGED <<mode, debouncing>>
           [] mode = "FileTransfer" /\ skip -> TransitionTo("Sequencer")
           [] OTHER                         -> debouncing' = TRUE /\ UNCHANGED mode

\* Mutant: the end of a transfer starts no debounce.
StateMachineHearsNoEnd(active, skip) ==
    IF active
    THEN IF mode = "FileTransfer" THEN debouncing' = FALSE /\ UNCHANGED mode
                                  ELSE TransitionTo("FileTransfer")
    ELSE IF mode = "FileTransfer" /\ skip THEN TransitionTo("Sequencer")
                                          ELSE UNCHANGED <<mode, debouncing>>

\* SystemStateMachine
StateMachineHears(active, skip) ==
    IF active
    THEN IF mode = "FileTransfer" THEN debouncing' = FALSE /\ UNCHANGED mode
                                  ELSE TransitionTo("FileTransfer")
    ELSE CASE mode # "FileTransfer"         -> UNCHANGED <<mode, debouncing>>
           [] mode = "FileTransfer" /\ skip -> TransitionTo("Sequencer")
           [] OTHER                         -> debouncing' = TRUE /\ UNCHANGED mode

Notify(active, skip) ==
    RouterHears(active) /\ SequencerHears(active) /\ StateMachineHears(active, skip)

-----------------------------------------------------------------------------
(* SysExHandler::update *)

NothingToAnnounce ==
    UNCHANGED <<announced, router, running, mode, debouncing>>

Announce ==
    LET active == busy' # {} IN
    IF active # announced.busy
    THEN /\ Notify(active, announced.dump)
         /\ announced' = [announced EXCEPT !.busy = active, !.slot = slot',
                                           !.dump = @ /\ active]
    ELSE IF active /\ "firmware" \in busy'
         THEN IF announced.progress
              THEN Notify(TRUE, FALSE) /\ announced' = [announced EXCEPT !.progress = FALSE]
              ELSE NothingToAnnounce
         ELSE IF active /\ slot' # announced.slot
              THEN Notify(TRUE, FALSE) /\ announced' = [announced EXCEPT !.slot = slot']
              ELSE NothingToAnnounce

RebootsNow == update.reboot /\ update.verified

\* Receivers time out, or the dump has sent its last packet; the 500 ms
\* after a verified update are over or not.
SysExUpdate(ended, elapsed) ==
    /\ loop.at = "sysex"
    /\ ended \subseteq busy
    /\ elapsed => update.reboot
    /\ IF elapsed /\ RebootsNow
       THEN Reset /\ UNCHANGED sent
       ELSE /\ busy' = busy \ ended
            /\ slot' = IF busy' \cap Sds = {} THEN NoSlot ELSE slot
            /\ update' = [update EXCEPT !.reboot = @ /\ ~elapsed]
            /\ Announce
            /\ Goes
            /\ UNCHANGED <<panel, sent>>

-----------------------------------------------------------------------------
(* PizzaControls::update, the play button *)

PlayPressed == running' = ~running /\ UNCHANGED <<mode, debouncing>>
PlayHeld    == TransitionTo("FallingAsleep") /\ UNCHANGED running
Untouched   == UNCHANGED <<mode, debouncing, running>>

\* Mutant: the panel is read whatever local control says.
ControlsAlways ==
    /\ loop.at = "controls"
    /\ PlayPressed \/ PlayHeld \/ Untouched
    /\ Goes
    /\ UNCHANGED <<busy, slot, announced, update, router, panel, sent>>

\* The panel is read only under local control.
Controls ==
    /\ loop.at = "controls"
    /\ \/ router.local = "on" /\ (PlayPressed \/ PlayHeld)
       \/ Untouched
    /\ Goes
    /\ UNCHANGED <<busy, slot, announced, update, router, panel, sent>>

-----------------------------------------------------------------------------
(* SysExHandler::handle_sysex_message, called from process_input *)

Begins(r) == busy' = busy \cup {r}
Ends(r)   == r \in busy /\ busy' = busy \ {r}

CustomMessage ==
    /\ Begins("custom") \/ Ends("custom")
    /\ UNCHANGED <<slot, announced, update>>

\* A header for another slot interrupts an upload.
UploadMessage ==
    /\ "dump" \notin busy
    /\ \/ Begins("upload") /\ slot' \in Slots
       \/ Ends("upload") /\ slot' = NoSlot
    /\ UNCHANGED <<announced, update>>

\* The request may be refused, for want of a sample or because a dump runs.
DumpRequest ==
    /\ "upload" \notin busy
    /\ \/ "dump" \notin busy /\ Begins("dump") /\ slot' \in Slots
       \/ UNCHANGED <<busy, slot>>
    /\ announced' = [announced EXCEPT !.dump = TRUE]
    /\ UNCHANGED update

\* A CANCEL, or the ACK of the last packet.
DumpResponse ==
    /\ Ends("dump") /\ slot' = NoSlot
    /\ UNCHANGED <<announced, update>>

\* Accepted, or rejected by the writer, which in either case forgets the
\* image it had; too short to reach the writer; or refused on a trial boot,
\* which changes nothing.
FirmwareBegin ==
    /\ \/ /\ Begins("firmware") \/ busy' = busy \ {"firmware"}
          /\ update' = [update EXCEPT !.verified = FALSE]
       \/ busy' = busy \ {"firmware"} /\ UNCHANGED update
    /\ announced' = [announced EXCEPT !.progress = TRUE]
    /\ UNCHANGED slot

\* Stored, or not and given up; an AbortFirmwareUpdate ends it as well.
FirmwareBytes ==
    /\ "firmware" \in busy
    /\ \/ UNCHANGED busy /\ announced' = [announced EXCEPT !.progress = TRUE]
       \/ Ends("firmware") /\ UNCHANGED announced
    /\ UNCHANGED <<slot, update>>

FirmwareEnd ==
    /\ Ends("firmware")
    /\ update' \in {[verified |-> TRUE, reboot |-> TRUE], update}
    /\ UNCHANGED <<slot, announced>>

HandleSysEx ==
    /\ loop.at = "input" /\ sent < MaxSent
    /\ \/ CustomMessage \/ UploadMessage \/ DumpRequest \/ DumpResponse
       \/ FirmwareBegin \/ FirmwareBytes \/ FirmwareEnd
    /\ sent' = sent + 1
    /\ UNCHANGED <<loop, mode, debouncing, router, panel, running>>

\* The host resets the device into the bootloader, from where it starts anew.
RebootBootloader ==
    /\ loop.at = "input" /\ sent < MaxSent
    /\ Reset
    /\ sent' = sent + 1

InputDone ==
    /\ loop.at = "input"
    /\ Goes
    /\ UNCHANGED <<mode, debouncing, busy, slot, announced, update, router,
                   panel, running, sent>>

-----------------------------------------------------------------------------
Next ==
    \/ \E elapsed \in BOOLEAN : StateUpdate(elapsed)
    \/ Wake
    \/ \E ended \in SUBSET Receiver, elapsed \in BOOLEAN : SysExUpdate(ended, elapsed)
    \/ Controls
    \/ HandleSysEx
    \/ RebootBootloader
    \/ InputDone

\* The loop does not stop, and time passes: a deadline that is still set at
\* the next iterations has at last been reached.  Nobody need press a button.
Fairness ==
    /\ WF_vars(\E elapsed \in BOOLEAN : StateUpdate(elapsed))
    /\ WF_vars(\E ended \in SUBSET Receiver, elapsed \in BOOLEAN : SysExUpdate(ended, elapsed))
    /\ WF_vars(Controls) /\ WF_vars(InputDone)
    /\ SF_vars(StateUpdate(TRUE))
    /\ SF_vars(busy # {} /\ SysExUpdate(busy, FALSE))

Spec == Init /\ [][Next]_vars /\ Fairness

-----------------------------------------------------------------------------
(* Properties *)

\* The state of the loop, the handler and its observers; a slot is reported
\* exactly while an SDS transfer runs, and of those there is one at a time.
TypeOK ==
    /\ loop \in [at : {"state", "sysex", "controls", "input"}, case : Mode]
    /\ mode \in Mode /\ debouncing \in BOOLEAN
    /\ busy \subseteq Receiver /\ ~(Sds \subseteq busy)
    /\ slot \in Slots \cup {NoSlot} /\ (slot = NoSlot <=> busy \cap Sds = {})
    /\ announced \in [busy : BOOLEAN, slot : Slots \cup {NoSlot},
                      dump : BOOLEAN, progress : BOOLEAN]
    /\ update \in [verified : BOOLEAN, reboot : BOOLEAN]
    /\ router \in [local : {"on", "off"}, saved : {"on", "off", "none"}, muted : BOOLEAN]
    /\ panel \in BOOLEAN /\ running \in BOOLEAN /\ sent \in 0..MaxSent

\* While a transfer is announced the device stays in FileTransfer mode, and
\* no debounce of an earlier one is about to end it.
TransferHoldsMode == announced.busy => mode = "FileTransfer" /\ ~debouncing

\* During a transfer the sequencer is stopped and stays stopped, nothing
\* sounds, and the panel is not read; the sound comes back with its end.
SilentDuringTransfer ==
    /\ announced.busy => ~running /\ router.muted /\ router.local = "off"
    /\ router.muted => announced.busy \/ mode \in {"FallingAsleep", "Sleep"}

\* However the play button and the host's messages interleave, the device
\* does not leave for sleep while it is busy with a transfer.
NoSleepDuringTransfer ==
    [][mode # "FallingAsleep" /\ mode' = "FallingAsleep" => busy = {}]_vars

\* When the host falls silent, finished or not, the device plays again.
ReturnsToSequencer == mode = "FileTransfer" ~> mode = "Sequencer"

=============================================================================

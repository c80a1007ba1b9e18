--------------------------- MODULE FirmwareUpdate ---------------------------
(***************************************************************************)
(* Updating the firmware over SysEx: sysex::FirmwareUpdate, FirmwareWriter *)
(* and FirmwareUpdateBuyer on the device, flash_firmware() of              *)
(* tools/drumtool on the host, and the bootrom that chooses between the    *)
(* two partitions.  Messages may be lost or damaged, the power may fail    *)
(* and a broken image crashes, at any moment.                              *)
(*                                                                         *)
(* A block stands for one flash sector's worth of the UF2 stream and one   *)
(* FirmwareBytes message.  An image is identified by its name; its         *)
(* SHA-256 matches exactly its own undamaged blocks.                       *)
(***************************************************************************)
EXTENDS Naturals, Sequences

CONSTANTS
    Image,        \* firmware images
    Broken,       \* those that crash before they have been healthy for long
    Factory,      \* the image the device starts with
    Blocks,       \* blocks of an image
    HostWaits,    \* the host begins only when the device has finished booting
    MaxFaults,    \* messages lost or damaged, power failures, failed buys
    MaxSessions   \* updates the host begins

ASSUME ImageAssumption   == Broken \subseteq Image /\ Factory \in Image \ Broken
ASSUME BlocksAssumption  == Blocks \in Nat \ {0}
ASSUME HostAssumption    == HostWaits \in BOOLEAN
ASSUME BoundAssumption   == MaxFaults \in Nat /\ MaxSessions \in Nat

VARIABLES
    flash,     \* of each partition its blocks, and whether it is bought
    device,    \* what runs: partition, boot or normal mode; the buyer's
               \*   state; firmware_update_allowed_
    receiver,  \* FirmwareUpdate: state_, bytes received of the announced
    writer,    \* FirmwareWriter: receiving_, image_ready_, expected_sha_,
               \*   the stream it has hashed, the staged sector
    pending,   \* firmware_reboot_pending_
    host,      \* drumtool: phase, image, next block
    toDevice, toHost,
    faults, sessions

firmwareVars == <<flash, device, receiver, writer, pending, host, toDevice, toHost,
          faults, sessions>>
link == <<toDevice, toHost>>

-----------------------------------------------------------------------------
Partition == {"A", "B"}
Other(p)  == CHOOSE q \in Partition : q # p

Block    == [image : Image, index : 1..Blocks, damaged : BOOLEAN]
Whole(i) == [k \in 1..Blocks |-> [image |-> i, index |-> k, damaged |-> FALSE]]

Holds(p)    == \E i \in Image : flash[p].blocks = Whole(i)
Bootable(p) == flash[p].bought /\ Holds(p)
Crashes     == ~Holds(device.partition)
                 \/ \E i \in Broken : flash[device.partition].blocks = Whole(i)

\* What RAM holds after a reset; BeginFirmwareUpdate is allowed by default.
Started(p, trial) ==
    [partition |-> p, at |-> "boot", trial |-> trial, healthy |-> FALSE, allowed |-> TRUE]
IdleReceiver == [receiving |-> FALSE, got |-> 0]
IdleWriter   == [receiving |-> FALSE, ready |-> FALSE, image |-> Factory,
                 stream |-> <<>>, staged |-> <<>>]
IdleHost     == [phase |-> "idle", image |-> Factory, next |-> 1]

FirmwareInit ==
    /\ flash = [p \in Partition |->
                  IF p = "A" THEN [blocks |-> Whole(Factory), bought |-> TRUE]
                             ELSE [blocks |-> <<>>, bought |-> FALSE]]
    /\ device = Started("A", FALSE)
    /\ receiver = IdleReceiver /\ writer = IdleWriter /\ pending = FALSE
    /\ host = IdleHost /\ toDevice = <<>> /\ toHost = <<>>
    /\ faults = 0 /\ sessions = 0

Fault == faults < MaxFaults /\ faults' = faults + 1

-----------------------------------------------------------------------------
(* FirmwareWriter; it writes to the partition that does not run. *)

Target == Other(device.partition)

Abort(w) == [w EXCEPT !.receiving = FALSE, !.ready = FALSE, !.staged = <<>>]

\* Mutant: a new update does not forget that an image was ready.
BeginForgettingNothing(i) ==
    [receiving |-> TRUE, ready |-> writer.ready, image |-> i, stream |-> <<>>, staged |-> <<>>]

Begin(i) ==
    [receiving |-> TRUE, ready |-> FALSE, image |-> i, stream |-> <<>>, staged |-> <<>>]

\* Erase and program the staged sector.  The first sector of an image makes
\* the partition one that is not bought.
FlushSector ==
    flash' = CASE writer.staged = <<>>          -> flash
               [] writer.staged # <<>>
                  /\ writer.staged[1].index = 1 ->
                    [flash EXCEPT ![Target] = [blocks |-> writer.staged, bought |-> FALSE]]
               [] OTHER                         ->
                    [flash EXCEPT ![Target].blocks = @ \o writer.staged]

\* The parser accepts blocks in sequence only.
Accepts(b) == writer.receiving /\ b.index = Len(writer.stream) + 1

Complete(w) == Len(w.stream) = Blocks
Verified(w) == w.stream = Whole(w.image)

-----------------------------------------------------------------------------
(* FirmwareUpdate *)

Reply(tag) == toHost' = Append(toHost, tag)

RefuseBegin == Reply("nack") /\ UNCHANGED <<receiver, writer, flash, pending>>

AcceptBegin(i) ==
    /\ writer' = Begin(i)
    /\ receiver' = [receiving |-> TRUE, got |-> 0]
    /\ Reply("ack") /\ UNCHANGED <<flash, pending>>

\* Mutant: an update is accepted during a trial boot.
HandleBeginAlways(i) == AcceptBegin(i)

\* SysExHandler asks whether updates are allowed; the writer may reject it.
HandleBegin(i) ==
    IF ~device.allowed
    THEN RefuseBegin
    ELSE \/ AcceptBegin(i)
         \/ /\ writer' = Abort(writer)
            /\ receiver' = [receiver EXCEPT !.receiving = FALSE]
            /\ Reply("nack") /\ UNCHANGED <<flash, pending>>

HandleBytes(b) ==
    /\ UNCHANGED pending
    /\ CASE ~receiver.receiving ->
              Reply("nack") /\ UNCHANGED <<receiver, writer, flash>>
         [] receiver.receiving /\ receiver.got < Blocks /\ Accepts(b) ->
              /\ FlushSector
              /\ writer' = [writer EXCEPT !.stream = Append(@, b), !.staged = <<b>>]
              /\ receiver' = [receiver EXCEPT !.got = @ + 1]
              /\ Reply("ack")
         [] OTHER ->
              /\ writer' = Abort(writer)
              /\ receiver' = [receiver EXCEPT !.receiving = FALSE]
              /\ Reply("nack") /\ UNCHANGED flash

Finalize == IF Complete(writer) THEN FlushSector ELSE UNCHANGED flash

HandleEnd ==
    IF ~receiver.receiving
    THEN Reply("nack") /\ UNCHANGED <<receiver, writer, flash, pending>>
    ELSE /\ receiver' = [receiver EXCEPT !.receiving = FALSE]
         /\ Finalize
         /\ IF Complete(writer) /\ Verified(writer)
            THEN /\ writer' = [Abort(writer) EXCEPT !.ready = TRUE]
                 /\ pending' = TRUE /\ Reply("ack")
            ELSE writer' = Abort(writer) /\ UNCHANGED pending /\ Reply("nack")

\* Acknowledged even when nothing is received; a verified image stays ready.
HandleAbort ==
    /\ writer' = IF receiver.receiving THEN Abort(writer) ELSE writer
    /\ receiver' = [receiver EXCEPT !.receiving = FALSE]
    /\ Reply("ack") /\ UNCHANGED <<flash, pending>>

\* Messages are read in boot mode as well.
DeviceHears ==
    /\ device.at # "bricked" /\ toDevice # <<>>
    /\ LET msg == Head(toDevice) IN
         \/ msg.tag = "begin" /\ HandleBegin(msg.block.image)
         \/ msg.tag = "bytes" /\ HandleBytes(msg.block)
         \/ msg.tag = "end"   /\ HandleEnd
         \/ msg.tag = "abort" /\ HandleAbort
    /\ toDevice' = Tail(toDevice)
    /\ UNCHANGED <<device, host, faults, sessions>>

\* Mutant: the update that times out is aborted but stays active.
CheckTimeoutStaying ==
    /\ device.at = "normal" /\ receiver.receiving
    /\ writer' = Abort(writer)
    /\ UNCHANGED <<flash, device, receiver, pending, host, link, faults, sessions>>

CheckTimeout ==
    /\ device.at = "normal" /\ receiver.receiving
    /\ writer' = Abort(writer)
    /\ receiver' = [receiver EXCEPT !.receiving = FALSE]
    /\ UNCHANGED <<flash, device, pending, host, link, faults, sessions>>

-----------------------------------------------------------------------------
(* Booting *)

\* RAM and USB are lost; the flash is not.
Restart(d) ==
    /\ device' = d
    /\ receiver' = IdleReceiver /\ writer' = IdleWriter /\ pending' = FALSE
    /\ toDevice' = <<>> /\ toHost' = <<>>
    /\ UNCHANGED <<flash, host, sessions>>

\* The bootrom boots a partition that is bought, if there is one.
NormalBoot ==
    IF \E p \in Partition : Bootable(p)
    THEN \E p \in Partition : Bootable(p) /\ Restart(Started(p, FALSE))
    ELSE Restart([device EXCEPT !.at = "bricked", !.trial = FALSE])

\* Half a second after a verified update: a trial boot, unless another
\* update has been begun meanwhile.
RebootIntoUpdate ==
    /\ device.at = "normal" /\ pending
    /\ IF writer.ready
       THEN Restart(Started(Target, TRUE)) /\ UNCHANGED faults
       ELSE /\ pending' = FALSE
            /\ UNCHANGED <<flash, device, receiver, writer, host, link, faults, sessions>>

PowerFails == device.at # "bricked" /\ Fault /\ NormalBoot

\* A broken image crashes during its trial: the watchdog resets the device.
Crash == device.trial /\ Crashes /\ NormalBoot /\ UNCHANGED faults

\* Two seconds after the start the loop runs normally: in its first iteration
\* the buyer's health period begins and the permission is renewed.
BootOver ==
    /\ device.at = "boot"
    /\ device' = [device EXCEPT !.at = "normal", !.healthy = @ \/ device.trial,
                                !.allowed = ~device.trial]
    /\ UNCHANGED <<flash, receiver, writer, pending, host, link, faults, sessions>>

Buys ==
    /\ flash' = [flash EXCEPT ![device.partition].bought = TRUE]
    /\ device' = [device EXCEPT !.trial = FALSE, !.allowed = TRUE]
    /\ UNCHANGED faults

BuyFails ==
    /\ Fault
    /\ device' = [device EXCEPT !.healthy = FALSE]
    /\ UNCHANGED flash

\* The health period is over.
Buy ==
    /\ device.at = "normal" /\ device.trial /\ device.healthy
    /\ ~Crashes
    /\ Buys \/ BuyFails
    /\ UNCHANGED <<receiver, writer, pending, host, link, sessions>>

\* The next iteration after a failed buy.
StartHealthPeriod ==
    /\ device.at = "normal" /\ device.trial /\ ~device.healthy
    /\ device' = [device EXCEPT !.healthy = TRUE]
    /\ UNCHANGED <<flash, receiver, writer, pending, host, link, faults, sessions>>

-----------------------------------------------------------------------------
(* The host, and the link *)

Message(tag, i, k) == [tag |-> tag, block |-> [image |-> i, index |-> k, damaged |-> FALSE]]
Sends(tag, i, k)   == toDevice' = Append(toDevice, Message(tag, i, k))

HostOnly == UNCHANGED <<flash, device, receiver, writer, pending, faults>>

HostBegins(i) ==
    /\ host.phase \in {"idle", "done"} /\ sessions < MaxSessions
    /\ link = <<<<>>, <<>>>>
    /\ HostWaits => device.at = "normal"
    /\ device.at # "bricked"
    /\ host' = [phase |-> "begin", image |-> i, next |-> 1]
    /\ Sends("begin", i, 1)
    /\ sessions' = sessions + 1
    /\ HostOnly /\ UNCHANGED toHost

\* The next block, or the end of the stream.
Continue(k) ==
    IF k <= Blocks
    THEN /\ host' = [host EXCEPT !.phase = "bytes", !.next = k]
         /\ Sends("bytes", host.image, k)
    ELSE /\ host' = [host EXCEPT !.phase = "end"]
         /\ Sends("end", host.image, 1)

GiveUp ==
    /\ host' = [host EXCEPT !.phase = "idle"]
    /\ IF host.phase = "bytes" THEN Sends("abort", host.image, 1) ELSE UNCHANGED toDevice

HostHears ==
    /\ toHost # <<>>
    /\ toHost' = Tail(toHost)
    /\ CASE Head(toHost) = "ack" /\ host.phase = "begin" -> Continue(1)
         [] Head(toHost) = "ack" /\ host.phase = "bytes" -> Continue(host.next + 1)
         [] Head(toHost) = "ack" /\ host.phase = "end"   ->
              host' = [host EXCEPT !.phase = "done"] /\ UNCHANGED toDevice
         [] host.phase \in {"idle", "done"}              -> UNCHANGED <<host, toDevice>>
         [] OTHER                                        -> GiveUp
    /\ HostOnly /\ UNCHANGED sessions

\* No answer for five seconds, or the program is interrupted.
HostTimesOut ==
    /\ host.phase \in {"begin", "bytes", "end"}
    /\ GiveUp
    /\ HostOnly /\ UNCHANGED <<toHost, sessions>>

Lose ==
    /\ Fault
    /\ \/ toDevice # <<>> /\ toDevice' = Tail(toDevice) /\ UNCHANGED toHost
       \/ toHost # <<>> /\ toHost' = Tail(toHost) /\ UNCHANGED toDevice
    /\ UNCHANGED <<flash, device, receiver, writer, pending, host, sessions>>

Damage ==
    /\ Fault
    /\ toDevice # <<>> /\ Head(toDevice).tag = "bytes"
    /\ toDevice' = [toDevice EXCEPT ![1].block.damaged = TRUE]
    /\ UNCHANGED <<flash, device, receiver, writer, pending, host, toHost, sessions>>

-----------------------------------------------------------------------------
FirmwareNext ==
    \/ DeviceHears \/ CheckTimeout \/ RebootIntoUpdate
    \/ PowerFails \/ Crash \/ BootOver \/ Buy \/ StartHealthPeriod
    \/ \E i \in Image : HostBegins(i)
    \/ HostHears \/ HostTimesOut \/ Lose \/ Damage

\* The loop runs and time passes; a broken image does crash.  The buyer is
\* only called while no transfer holds the mode.
FirmwareFairness ==
    /\ WF_firmwareVars(DeviceHears) /\ WF_firmwareVars(CheckTimeout) /\ WF_firmwareVars(BootOver)
    /\ WF_firmwareVars(Crash) /\ WF_firmwareVars(StartHealthPeriod)
    /\ WF_firmwareVars(~receiver.receiving /\ Buy /\ Buys)

FirmwareSpec == FirmwareInit /\ [][FirmwareNext]_firmwareVars /\ FirmwareFairness

-----------------------------------------------------------------------------
(* Properties *)

\* The state of flash, device, host and link; the receiver counts the blocks
\* the writer has hashed, and what is staged is the last of them.
FirmwareTypeOK ==
    /\ flash \in [Partition -> [blocks : Seq(Block), bought : BOOLEAN]]
    /\ device \in [partition : Partition, at : {"boot", "normal", "bricked"},
                   trial : BOOLEAN, healthy : BOOLEAN, allowed : BOOLEAN]
    /\ receiver \in [receiving : BOOLEAN, got : 0..Blocks]
    /\ writer.image \in Image /\ writer.ready \in BOOLEAN
    /\ receiver.receiving => writer.receiving /\ receiver.got = Len(writer.stream)
    /\ writer.receiving /\ writer.stream # <<>> =>
         writer.staged = <<writer.stream[Len(writer.stream)]>>
    /\ pending \in BOOLEAN
    /\ host \in [phase : {"idle", "begin", "bytes", "end", "done"}, image : Image,
                 next : 1..Blocks]
    /\ toHost \in Seq({"ack", "nack"})
    /\ faults \in 0..MaxFaults /\ sessions \in 0..MaxSessions

\* "A failed or broken update can never brick the device" (drum/README.md):
\* whatever is lost, cut off or crashes, a partition is left that boots.
NeverBricked == device.at # "bricked"

\* The device reboots only into an image that is complete and verified, even
\* if another update is begun while the reboot is pending; and an update the
\* host reports as verified is in flash to the last block.
TrialIsWhole ==
    /\ device.trial => Holds(device.partition)
    /\ host.phase = "done" => \E p \in Partition : flash[p].blocks = Whole(host.image)

\* An update whose host has gone away does not keep the device busy for ever.
UpdateEnds == receiver.receiving ~> ~receiver.receiving
=============================================================================

------------------------------ MODULE SdsDump ------------------------------
(***************************************************************************)
(* Downloading a sample: sds::DumpSender on the device, receiveSample() of *)
(* tools/drumtool on the host, and the USB MIDI link between them, which   *)
(* keeps messages in order but may lose or damage them.                    *)
(*                                                                         *)
(* A data packet is represented by the index of its 80-byte block in the   *)
(* sample; on the wire it carries that index modulo PacketNumbers.  Time   *)
(* is left out: a timer may expire whenever it runs, except in the         *)
(* behaviours where prompt says that the link and the host always answer   *)
(* within the retransmission interval and the file can be read; there a    *)
(* timer expires only when nothing is on its way.                          *)
(***************************************************************************)
EXTENDS Integers, Sequences

CONSTANTS
    Packets,        \* blocks of the stored sample
    PacketNumbers,  \* 128: packet numbers are 7 bits wide
    MaxFaults,      \* messages the link loses or damages
    MaxSessions,    \* dump requests the host makes
    MaxInFlight,    \* capacity of the link in each direction
    Promptness      \* the values of prompt that behaviours start with

ASSUME SizeAssumption ==
    /\ Packets \in Nat \ {0}
    /\ PacketNumbers \in Nat \ {0, 1}
    /\ MaxFaults \in Nat
    /\ MaxSessions \in Nat
    /\ MaxInFlight \in Nat \ {0}
ASSUME PromptnessAssumption == Promptness \subseteq BOOLEAN

VARIABLES
    device,    \* DumpSender: state_, packets sent, wait_pending_
    host,      \* the download session: phase, blocks stored, packet put off
    toHost,    \* messages on their way to the host
    toDevice,  \* messages on their way to the device
    prompt,    \* answers arrive within RETRANSMIT_INTERVAL_US and the file can
               \* be read (chosen once)
    faults,    \* messages lost or damaged so far
    sessions   \* dump requests made so far

vars == <<device, host, toHost, toDevice, prompt, faults, sessions>>

-----------------------------------------------------------------------------
Block == 0..(Packets - 1)

\* What the device sends: its header, a block (possibly damaged on the way)
\* and CANCEL.
Header    == [type |-> "header",  block |-> 0]
Data(b)   == [type |-> "data",    block |-> b]
Damaged   == [type |-> "damaged", block |-> 0]
Cancel    == [type |-> "cancel",  block |-> 0]
ToHost    == {Header, Damaged, Cancel} \cup {Data(b) : b \in Block}

Response  == {"ack", "nak", "wait", "cancel"}
ToDevice  == Response \cup {"request"}

DumpState == {"Idle", "AwaitingHeaderResponse", "AwaitingPacketResponse", "OpenLoop"}
IdleDump  == [state |-> "Idle", sent |-> 0, wait |-> FALSE]
NoSession == [phase |-> "idle", stored |-> <<>>, busy |-> FALSE]

\* A message that finds the link full is dropped, as the output queue does.
Send(link, msg) == IF Len(link) < MaxInFlight THEN Append(link, msg) ELSE link

Quiet == toHost = <<>> /\ toDevice = <<>>

-----------------------------------------------------------------------------
(* DumpSender *)

transfer_complete == device.sent >= Packets

\* The header is the last message sent until the first block goes out.
LastSent == IF device.sent = 0 THEN Header ELSE Data(device.sent - 1)

Finish == device' = IdleDump

\* send_next_packet: a block that cannot be read ends the dump with CANCEL.
SendNextPacket ==
    \/ /\ device' = [state |-> IF device.state = "OpenLoop" THEN "OpenLoop"
                               ELSE "AwaitingPacketResponse",
                     sent  |-> device.sent + 1,
                     wait  |-> FALSE]
       /\ toHost' = Send(toHost, Data(device.sent))
    \/ /\ ~prompt
       /\ toHost' = Send(toHost, Cancel)
       /\ Finish

ResendLast == toHost' = Send(toHost, LastSent)

\* A request while a dump runs, or for an empty slot, is refused.
HandleDumpRequest ==
    \/ /\ toHost' = Send(toHost, Cancel)
       /\ UNCHANGED device
    \/ /\ device.state = "Idle"
       /\ toHost' = Send(toHost, Header)
       /\ device' = [IdleDump EXCEPT !.state = "AwaitingHeaderResponse"]

HandleAck ==
    IF transfer_complete
      THEN Finish /\ UNCHANGED toHost
      ELSE SendNextPacket

HandleNak ==
    /\ ResendLast
    /\ device' = [device EXCEPT !.wait = FALSE]

HandleWait ==
    /\ device' = [device EXCEPT !.wait = TRUE]
    /\ UNCHANGED toHost

HandleCancel == Finish /\ UNCHANGED toHost

\* A response that finds no dump running is too short for the receiving
\* protocol and is dropped.
HandleResponse(type) ==
    IF device.state = "Idle" THEN UNCHANGED <<device, toHost>>
    ELSE \/ type = "ack"    /\ HandleAck
         \/ type = "nak"    /\ HandleNak
         \/ type = "wait"   /\ HandleWait
         \/ type = "cancel" /\ HandleCancel

DeviceHears ==
    /\ toDevice # <<>>
    /\ toDevice' = Tail(toDevice)
    /\ \/ Head(toDevice) = "request" /\ HandleDumpRequest
       \/ Head(toDevice) \in Response /\ HandleResponse(Head(toDevice))
    /\ UNCHANGED <<host, prompt, faults, sessions>>

\* update(): a host that never answers the header gets the dump open-loop.
HeaderTimeout ==
    /\ device.state = "AwaitingHeaderResponse" /\ ~device.wait
    /\ prompt => Quiet
    /\ \/ /\ device' = [device EXCEPT !.state = "OpenLoop", !.sent = 1]
          /\ toHost' = Send(toHost, Data(0))
       \/ ~prompt /\ toHost' = Send(toHost, Cancel) /\ Finish
    /\ UNCHANGED <<host, toDevice, prompt, faults, sessions>>

\* Mutant: only the header is sent again.
RetransmitHeaderOnly ==
    /\ device.state = "AwaitingHeaderResponse" /\ ~device.wait
    /\ prompt => Quiet
    /\ ResendLast
    /\ UNCHANGED <<device, host, toDevice, prompt, faults, sessions>>

Retransmit ==
    /\ device.state = "AwaitingPacketResponse" /\ ~device.wait
    /\ prompt => Quiet
    /\ ResendLast
    /\ UNCHANGED <<device, host, toDevice, prompt, faults, sessions>>

OpenLoopTick ==
    /\ device.state = "OpenLoop" /\ ~device.wait
    /\ IF transfer_complete THEN Finish /\ UNCHANGED toHost ELSE SendNextPacket
    /\ UNCHANGED <<host, toDevice, prompt, faults, sessions>>

\* Mutant: retransmitting counts as activity, so only a WAIT can stall.
StallAfterWaitOnly ==
    /\ device.state # "Idle" /\ device.wait
    /\ prompt => Quiet
    /\ Finish
    /\ UNCHANGED <<host, toHost, toDevice, prompt, faults, sessions>>

\* No response for STALL_TIMEOUT_US: the host is gone, or what it sent after
\* a WAIT was lost.  Open-loop, sending counts as activity.
Stall ==
    /\ device.state # "Idle"
    /\ device.state = "OpenLoop" => device.wait
    /\ prompt => Quiet /\ (device.wait \/ host.phase # "receiving")
    /\ Finish
    /\ UNCHANGED <<host, toHost, toDevice, prompt, faults, sessions>>

-----------------------------------------------------------------------------
(* The host, and the link *)

Expected == Len(host.stored) % PacketNumbers

\* A session begins by cancelling whatever dump an earlier host left running.
\* What the earlier host's session had on its way is through by then.
HostRequest ==
    /\ host.phase \notin {"asking", "receiving"}
    /\ sessions < MaxSessions
    /\ Quiet
    /\ sessions' = sessions + 1
    /\ host' = [NoSession EXCEPT !.phase = "asking"]
    /\ toDevice' = Send(Send(toDevice, "cancel"), "request")
    /\ UNCHANGED <<device, toHost, prompt, faults>>

Listening == host.phase \in {"asking", "receiving"}

\* Mutant: the packet number is not compared.
HostStoresAny(b) ==
    LET all == Append(host.stored, b)
    IN  [phase  |-> IF Len(all) = Packets THEN "done" ELSE "receiving",
         stored |-> all, busy |-> FALSE]

\* Blocks before the header are ignored, damaged ones NAKed; any number but
\* the expected one counts as a duplicate and is ACKed again.
HostStores(b) ==
    IF b % PacketNumbers = Expected
      THEN LET all == Append(host.stored, b)
           IN  [phase  |-> IF Len(all) = Packets THEN "done" ELSE "receiving",
                stored |-> all, busy |-> FALSE]
      ELSE [host EXCEPT !.busy = FALSE]

HostHears ==
    /\ toHost # <<>>
    /\ toHost' = Tail(toHost)
    /\ LET msg == Head(toHost) IN
         \/ /\ msg.type = "cancel" /\ Listening
            /\ host' = [host EXCEPT !.phase = "empty"]
            /\ UNCHANGED toDevice
         \/ /\ msg.type = "header" /\ Listening
            /\ host' = [host EXCEPT !.phase = "receiving"]
            /\ toDevice' = Send(toDevice, "ack")
         \/ /\ msg.type = "damaged" /\ host.phase = "receiving"
            /\ toDevice' = Send(toDevice, "nak")
            /\ UNCHANGED host
         \/ /\ msg.type = "data" /\ host.phase = "receiving"
            /\ host' = HostStores(msg.block)
            /\ toDevice' = Send(toDevice, "ack")
         \/ /\ \/ ~Listening
               \/ host.phase = "asking" /\ msg.type \in {"data", "damaged"}
            /\ UNCHANGED <<host, toDevice>>
    /\ UNCHANGED <<device, prompt, faults, sessions>>

\* A host may put a block off before it answers it (the protocol's WAIT).
HostWaits ==
    /\ toHost # <<>> /\ Head(toHost).type = "data"
    /\ host.phase = "receiving" /\ ~host.busy
    /\ host' = [host EXCEPT !.busy = TRUE]
    /\ toDevice' = Send(toDevice, "wait")
    /\ UNCHANGED <<device, toHost, prompt, faults, sessions>>

HostGivesUp ==
    /\ Listening
    /\ host' = [host EXCEPT !.phase = "failed"]
    /\ UNCHANGED <<device, toHost, toDevice, prompt, faults, sessions>>

LoseToHost ==
    /\ toHost # <<>> /\ faults < MaxFaults
    /\ toHost' = Tail(toHost)
    /\ faults' = faults + 1
    /\ UNCHANGED <<device, host, toDevice, prompt, sessions>>

LoseToDevice ==
    /\ toDevice # <<>> /\ faults < MaxFaults
    /\ toDevice' = Tail(toDevice)
    /\ faults' = faults + 1
    /\ UNCHANGED <<device, host, toHost, prompt, sessions>>

Damage ==
    /\ toHost # <<>> /\ Head(toHost).type = "data" /\ faults < MaxFaults
    /\ toHost' = <<Damaged>> \o Tail(toHost)
    /\ faults' = faults + 1
    /\ UNCHANGED <<device, host, toDevice, prompt, sessions>>

-----------------------------------------------------------------------------
Init ==
    /\ device = IdleDump
    /\ host = NoSession
    /\ toHost = <<>> /\ toDevice = <<>>
    /\ prompt \in Promptness
    /\ faults = 0
    /\ sessions = 0

Next ==
    \/ DeviceHears \/ HeaderTimeout \/ Retransmit \/ OpenLoopTick \/ Stall
    \/ HostRequest \/ HostHears \/ HostWaits \/ HostGivesUp
    \/ LoseToHost \/ LoseToDevice \/ Damage

\* The main loop reads MIDI input and calls update() for as long as the
\* device runs, and a live host reads what arrives.  Retransmitting does not
\* put the stall deadline off, hence strong fairness.
Fairness ==
    /\ WF_vars(DeviceHears) /\ WF_vars(HostHears)
    /\ WF_vars(HeaderTimeout) /\ WF_vars(Retransmit)
    /\ WF_vars(OpenLoopTick) /\ SF_vars(Stall)

Spec == Init /\ [][Next]_vars /\ Fairness

-----------------------------------------------------------------------------
(* Properties *)

\* The state machine, the session and the link stay in their types; a dump
\* never sends a block past the end of the sample.
TypeOK ==
    /\ device \in [state : DumpState, sent : 0..Packets, wait : BOOLEAN]
    /\ host \in [phase : {"idle", "asking", "receiving", "done", "empty", "failed"},
                 stored : Seq(Block), busy : BOOLEAN]
    /\ toHost \in Seq(ToHost) /\ toDevice \in Seq(ToDevice)
    /\ prompt \in BOOLEAN
    /\ faults \in 0..MaxFaults /\ sessions \in 0..MaxSessions

\* Whatever is lost, damaged, repeated or late, and even open-loop, a sample
\* the host reports as downloaded is the stored one: every block, in order.
SampleIntact == host.phase = "done" => host.stored = [i \in 1..Packets |-> i - 1]

Handshaking == device.state = "AwaitingPacketResponse" /\ host.phase = "receiving"

\* A dump never keeps the device busy for ever, even if the host vanishes:
\* it would stay in file transfer mode, silent.
DumpEnds == device.state # "Idle" ~> device.state = "Idle"

\* If answers are prompt and the file can be read, a handshaking host gets the
\* whole sample although packets and answers are lost or damaged, unless it
\* gives up itself or the answer that was to follow its WAIT is lost: after a
\* WAIT the device sends nothing again.
HandshakeDelivers ==
    prompt /\ Handshaking
      ~> \/ host.phase = "done"
         \/ host.phase = "failed"
         \/ device.wait /\ Quiet
=============================================================================

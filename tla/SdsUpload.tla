----------------------------- MODULE SdsUpload -----------------------------
(***************************************************************************)
(* Uploading samples into one slot: sds::Protocol on the device,           *)
(* transferSample() and deliverPacket() of tools/drumtool on the host, and *)
(* the link between them, which keeps messages in order but may lose or    *)
(* damage them.  An upload may begin while the device is still busy with    *)
(* one whose host has gone away.                                           *)
(*                                                                         *)
(* A block is 80 bytes of the sample; on the wire it carries its index     *)
(* modulo PacketNumbers.  The host's timers may expire at any moment.      *)
(***************************************************************************)
EXTENDS Integers, Sequences

CONSTANTS
    MaxBlocks,      \* the most blocks a sample has
    Sizes,          \* blocks of each upload, in the order they are made
    PacketNumbers,  \* 128: packet numbers are 7 bits wide
    MaxFaults,      \* messages the link loses or damages
    MaxInFlight,    \* capacity of the link in each direction
    MaxDownloads    \* downloads begun, each with a CANCEL

ASSUME SizeAssumption ==
    /\ MaxBlocks \in Nat
    /\ Sizes \in Seq(0..MaxBlocks) /\ Sizes # <<>>
    /\ PacketNumbers \in Nat \ {0, 1}
    /\ MaxFaults \in Nat
    /\ MaxInFlight \in Nat \ {0}
    /\ MaxDownloads \in Nat

VARIABLES
    device,     \* Protocol: state_, current_sample_, packet counters, handle
    file,       \* the blocks in /NN.pcm
    host,       \* the upload: phase, number, next block to send
    toHost,     \* messages on their way to the host
    toDevice,   \* messages on their way to the device
    faults,     \* messages lost or damaged so far
    downloads   \* downloads begun so far

vars == <<device, file, host, toHost, toDevice, faults, downloads>>

-----------------------------------------------------------------------------
Upload == 1..Len(Sizes)
Phase  == {"idle", "header", "retry", "sending", "openLoop",
           "done", "streamed", "failed"}
Active == {"header", "retry", "sending", "openLoop"}

Block     == [upload : Upload, index : 0..(MaxBlocks - 1)]
Number(b) == b.index % PacketNumbers

Header(u)  == [type |-> "header",  upload |-> u, index |-> 0]
Data(u, i) == [type |-> "data",    upload |-> u, index |-> i]
Cancel     == [type |-> "cancel",  upload |-> 0, index |-> 0]
Reply(t, n) == [type |-> t, number |-> n]

BlockOf(msg) == [upload |-> msg.upload, index |-> msg.index]
Whole(u)     == [i \in 1..Sizes[u] |-> [upload |-> u, index |-> i - 1]]

Quiet == toHost = <<>> /\ toDevice = <<>>

Send(link, msg) == IF Len(link) < MaxInFlight THEN Append(link, msg) ELSE link

-----------------------------------------------------------------------------
(* Protocol *)

Respond(t, n) == toHost' = Send(toHost, Reply(t, n))

\* A header is parsed into current_sample_ even if it is then refused: the
\* sample is empty, or its file cannot be opened.  A transfer it interrupts
\* stays in ReceivingData, in the second case without a file.
HandleDumpHeader(u) ==
    \/ /\ Sizes[u] = 0
       /\ device' = [device EXCEPT !.upload = u]
       /\ Respond("nak", 0)
       /\ UNCHANGED file
    \/ /\ Sizes[u] # 0
       /\ device' = [device EXCEPT !.upload = u, !.open = FALSE]
       /\ Respond("nak", 0)
       /\ UNCHANGED file
    \/ /\ Sizes[u] # 0
       /\ device' = [busy |-> TRUE, upload |-> u, expected |-> 0,
                     received |-> 0, open |-> TRUE]
       /\ Respond("ack", 0)
       /\ file' = <<>>

Idle(d) == [d EXCEPT !.busy = FALSE, !.open = FALSE]

\* The block after it is stored, or passed over for want of an open file.
Accepted(b) ==
    LET d == [device EXCEPT !.expected = (Number(b) + 1) % PacketNumbers,
                            !.received = IF device.open THEN @ + 1 ELSE @]
    IN  IF d.received >= Sizes[d.upload] THEN Idle(d) ELSE d

\* Mutant: a failed write is not noticed.
StoreBlockUnchecked(b) ==
    /\ device' = Accepted(b)
    /\ file' \in {IF device.open THEN Append(file, b) ELSE file, file}
    /\ Respond("ack", Number(b))

StoreBlock(b) ==
    \/ /\ device' = Accepted(b)
       /\ file' = IF device.open THEN Append(file, b) ELSE file
       /\ Respond("ack", Number(b))
    \/ /\ device.open
       /\ device' = Idle(device)
       /\ Respond("nak", Number(b))
       /\ UNCHANGED file

IsPrevious(b) ==
    /\ Number(b) = (device.expected - 1) % PacketNumbers
    /\ device.received > 0

HandleDataPacket(b) ==
    \/ /\ ~device.busy
       /\ Respond("nak", 0)
       /\ UNCHANGED <<device, file>>
    \/ /\ device.busy /\ Number(b) = device.expected
       /\ StoreBlock(b)
    \/ /\ device.busy /\ Number(b) # device.expected
       /\ IF IsPrevious(b) THEN Respond("ack", Number(b))
                           ELSE Respond("nak", device.expected)
       /\ UNCHANGED <<device, file>>

HandleDamagedPacket(b) ==
    /\ Respond("nak", IF device.busy THEN Number(b) ELSE 0)
    /\ UNCHANGED <<device, file>>

\* process_message() refuses messages of fewer than three bytes, and a CANCEL
\* is two: it never reaches handle_cancel_message().
HandleCancel == UNCHANGED <<device, file, toHost>>

DeviceHears ==
    /\ toDevice # <<>>
    /\ toDevice' = Tail(toDevice)
    /\ LET msg == Head(toDevice) IN
         \/ msg.type = "header"  /\ HandleDumpHeader(msg.upload)
         \/ msg.type = "data"    /\ HandleDataPacket(BlockOf(msg))
         \/ msg.type = "damaged" /\ HandleDamagedPacket(BlockOf(msg))
         \/ msg.type = "cancel"  /\ HandleCancel
    /\ UNCHANGED <<host, faults, downloads>>

\* Mutant: the timeout closes the file but does not leave ReceivingData.
CheckTimeoutStaying ==
    /\ device.busy /\ host.phase # "sending"
    /\ device' = [device EXCEPT !.open = FALSE]
    /\ UNCHANGED <<file, host, toHost, toDevice, faults, downloads>>

\* check_timeout(): a handshaking host gives up on a packet after
\* PACKET_RETRY_WINDOW, long before the device has heard nothing for
\* TIMEOUT_US.
CheckTimeout ==
    /\ device.busy
    /\ host.phase # "sending"
    /\ device' = Idle(device)
    /\ UNCHANGED <<file, host, toHost, toDevice, faults, downloads>>

-----------------------------------------------------------------------------
(* The host *)

SendHeader == toDevice' = Send(toDevice, Header(host.upload))
SendBlock(i) == toDevice' = Send(toDevice, Data(host.upload, i))

\* A batch leaves the device a moment between uploads, and a new process
\* opens the ports: nothing of an earlier upload is on its way any more.
HostBegins ==
    /\ host.phase \notin Active
    /\ Quiet
    /\ host.upload < Len(Sizes)
    /\ host' = [phase |-> "header", upload |-> host.upload + 1, next |-> 0]
    /\ toDevice' = Send(toDevice, Header(host.upload + 1))
    /\ UNCHANGED <<device, file, toHost, faults, downloads>>

\* The phase after block i - 1: the next block goes out, or all are through.
SendFrom(i) ==
    IF i < Sizes[host.upload]
      THEN host' = [host EXCEPT !.phase = "sending", !.next = i] /\ SendBlock(i)
      ELSE host' = [host EXCEPT !.phase = "done", !.next = i] /\ UNCHANGED toDevice

\* The number of a response is not looked at while a header is answered.
HostHearsHeaderResponse(r) ==
    \/ /\ host.phase = "header" /\ r.type = "ack"
       /\ SendFrom(0)
    \/ /\ host.phase = "header" /\ r.type = "nak"
       /\ host' = [host EXCEPT !.phase = "retry"]
       /\ SendHeader
    \/ /\ host.phase = "retry"
       /\ host' = [host EXCEPT !.phase = IF r.type = "ack" THEN "openLoop" ELSE "failed"]
       /\ UNCHANGED toDevice

HostHearsPacketResponse(r) ==
    LET n == host.next % PacketNumbers IN
    \/ /\ r = Reply("ack", n)
       /\ SendFrom(host.next + 1)
    \/ /\ r = Reply("nak", n)
       /\ SendBlock(host.next)
       /\ UNCHANGED host
    \/ r.number # n /\ UNCHANGED <<host, toDevice>>

HostHears ==
    /\ toHost # <<>>
    /\ toHost' = Tail(toHost)
    /\ LET r == Head(toHost) IN
         \/ host.phase \in {"header", "retry"} /\ HostHearsHeaderResponse(r)
         \/ host.phase = "sending" /\ HostHearsPacketResponse(r)
         \/ host.phase \notin {"header", "retry", "sending"}
              /\ UNCHANGED <<host, toDevice>>
    /\ UNCHANGED <<device, file, faults, downloads>>

\* HEADER_TIMEOUT and PACKET_TIMEOUT.
HostHeaderTimeout ==
    /\ host.phase \in {"header", "retry"}
    /\ host' = [host EXCEPT !.phase = "openLoop"]
    /\ UNCHANGED <<device, file, toHost, toDevice, faults, downloads>>

HostRetransmits ==
    /\ host.phase = "sending"
    /\ SendBlock(host.next)
    /\ UNCHANGED <<device, file, host, toHost, faults, downloads>>

\* No answer within PACKET_RETRY_WINDOW, or the process is stopped.
HostGivesUp ==
    /\ host.phase \in Active
    /\ host' = [host EXCEPT !.phase = "failed"]
    /\ UNCHANGED <<device, file, toHost, toDevice, faults, downloads>>

\* One block every 10 ms, whatever the device answers.
HostStreams ==
    /\ host.phase = "openLoop"
    /\ IF host.next < Sizes[host.upload]
         THEN SendBlock(host.next) /\ host' = [host EXCEPT !.next = @ + 1]
         ELSE UNCHANGED toDevice /\ host' = [host EXCEPT !.phase = "streamed"]
    /\ UNCHANGED <<device, file, toHost, faults, downloads>>

\* receiveSample() cancels whatever transfer an earlier host left running;
\* the dump request that follows is refused for as long as one runs.
DownloadBegins ==
    /\ host.phase \notin Active
    /\ downloads < MaxDownloads
    /\ downloads' = downloads + 1
    /\ toDevice' = Send(toDevice, Cancel)
    /\ UNCHANGED <<device, file, host, toHost, faults>>

-----------------------------------------------------------------------------
(* The link *)

Lose(link) == link # <<>> /\ faults < MaxFaults /\ link' = Tail(link) /\ faults' = faults + 1

LoseToHost ==
    Lose(toHost) /\ UNCHANGED <<device, file, host, toDevice, downloads>>

LoseToDevice ==
    Lose(toDevice) /\ UNCHANGED <<device, file, host, toHost, downloads>>

Damage ==
    /\ toDevice # <<>> /\ Head(toDevice).type = "data" /\ faults < MaxFaults
    /\ toDevice' = <<[Head(toDevice) EXCEPT !.type = "damaged"]>> \o Tail(toDevice)
    /\ faults' = faults + 1
    /\ UNCHANGED <<device, file, host, toHost, downloads>>

-----------------------------------------------------------------------------
Init ==
    /\ device = [busy |-> FALSE, upload |-> 1, expected |-> 0,
                 received |-> 0, open |-> FALSE]
    /\ file = <<>>
    /\ host = [phase |-> "idle", upload |-> 0, next |-> 0]
    /\ toHost = <<>> /\ toDevice = <<>>
    /\ faults = 0
    /\ downloads = 0

Next ==
    \/ DeviceHears \/ CheckTimeout
    \/ HostBegins \/ HostHears \/ HostHeaderTimeout
    \/ HostRetransmits \/ HostGivesUp \/ HostStreams \/ DownloadBegins
    \/ LoseToHost \/ LoseToDevice \/ Damage

\* The main loop reads MIDI input and checks the timeout for as long as the
\* device runs; the host's retry window is finite.
Fairness ==
    /\ WF_vars(DeviceHears) /\ WF_vars(CheckTimeout)
    /\ WF_vars(HostGivesUp)

Spec == Init /\ [][Next]_vars /\ Fairness

-----------------------------------------------------------------------------
(* Properties *)

\* The protocol's state, the host's and the link's stay in their types;
\* packet numbers stay within their width.
TypeOK ==
    /\ device \in [busy : BOOLEAN, upload : Upload, expected : 0..(PacketNumbers - 1),
                   received : 0..MaxBlocks, open : BOOLEAN]
    /\ file \in Seq(Block)
    /\ host \in [phase : Phase, upload : 0..Len(Sizes), next : 0..MaxBlocks]
    /\ toHost \in Seq([type : {"ack", "nak"}, number : 0..(PacketNumbers - 1)])
    /\ toDevice \in Seq([type : {"header", "data", "damaged", "cancel"},
                         upload : 0..Len(Sizes), index : 0..MaxBlocks])
    /\ faults \in 0..MaxFaults /\ downloads \in 0..MaxDownloads

\* A handshaking host never moves past a block that is not stored, and what
\* is stored before it is this upload's, not an interrupted one's.
NeverAhead ==
    host.phase = "sending" =>
      /\ Len(file) >= host.next
      /\ \A i \in 1..host.next : file[i] = Whole(host.upload)[i]

\* Even when the host streams without looking at the answers, no block is
\* stored twice or after a later one of its upload.  (One may be missing:
\* after a loss the packet numbers meet again PacketNumbers blocks later.)
BlocksAscend ==
    \A i, j \in 1..Len(file) :
      i < j /\ file[i].upload = file[j].upload => file[i].index < file[j].index

\* Whatever is lost, damaged, retransmitted or late, whatever write fails and
\* whatever transfer it interrupts, an upload the host completes with the
\* device's acknowledgements is in the slot: every block, once, in order; and
\* what is stored of an upload that was not completed ascends.
UploadIntact ==
    /\ host.phase = "done" => file = Whole(host.upload)
    /\ BlocksAscend

\* An upload whose host has gone away does not keep the device in file
\* transfer mode, silent, for ever.
UploadEnds == device.busy ~> ~device.busy
=============================================================================

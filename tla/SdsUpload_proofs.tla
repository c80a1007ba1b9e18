-------------------------- MODULE SdsUpload_proofs --------------------------
(***************************************************************************)
(* Proofs about SdsUpload, for any number of packet numbers from 2, any    *)
(* uploads, faults and capacity of the link: types are kept, and an upload *)
(* the host completes with the device's acknowledgements is in the slot.   *)
(* And about Encodings: files arrive as they were sent.                    *)
(***************************************************************************)
EXTENDS SdsUpload, Encodings, Lemmas

IsData(m)   == m.type \in {"data", "damaged"}
IsAck(r, n) == r.type = "ack" /\ r.number = n

DeviceMessage ==
    [type : {"header"}, upload : Upload, index : {0}]
        \cup [type : {"data", "damaged"}, upload : Upload, index : 0..(MaxBlocks - 1)]
        \cup {Cancel}

Response == [type : {"ack", "nak"}, number : 0..(PacketNumbers - 1)]

\* The types, with what the next step needs to keep them: a file that is open
\* has room, and the host is within its upload.
Types ==
    /\ device \in [busy : BOOLEAN, upload : Upload, expected : 0..(PacketNumbers - 1),
                   received : 0..MaxBlocks, open : BOOLEAN]
    /\ file \in Seq(Block)
    /\ host \in [phase : Phase, upload : 0..Len(Sizes), next : 0..MaxBlocks]
    /\ toHost \in Seq(Response)
    /\ toDevice \in Seq(DeviceMessage)
    /\ faults \in 0..MaxFaults /\ downloads \in 0..MaxDownloads
    /\ device.busy /\ device.open => device.received < MaxBlocks
    /\ device.open => device.busy
    /\ host.phase # "idle" => host.upload \in Upload
    /\ host.phase \in {"header", "retry"} => host.next = 0
    /\ host.phase = "sending" => host.next < Sizes[host.upload]
    /\ host.phase = "openLoop" => host.next <= Sizes[host.upload]

\* Data travels in order, and the file has what came before it: of the present
\* upload nothing beyond what is on its way, and the number the device expects
\* is not that of the last block.
Order ==
    /\ \A k \in 1..Len(toDevice) : IsData(toDevice[k]) =>
          toDevice[k].upload = host.upload /\ toDevice[k].index <= host.next
    /\ \A j, k \in 1..Len(toDevice) :
          j < k /\ IsData(toDevice[j]) /\ IsData(toDevice[k])
             => toDevice[j].index <= toDevice[k].index
    /\ \A i \in 1..Len(file) :
          /\ file[i].upload <= host.upload
          /\ file[i].upload = host.upload =>
               /\ file[i].index <= host.next
               /\ \A k \in 1..Len(toDevice) : IsData(toDevice[k]) => file[i].index <= toDevice[k].index
    /\ \A i, j \in 1..Len(file) : i < j => file[i].upload <= file[j].upload
    /\ device.open /\ file # <<>> =>
          device.expected = (file[Len(file)].index + 1) % PacketNumbers
    /\ BlocksAscend

\* The file is the beginning of the present upload, and the device, if it
\* still receives, is waiting for its next block.
Begun == \A i \in 1..Len(file) : file[i] = [upload |-> host.upload, index |-> i - 1]

Receiving ==
    device.busy =>
        /\ device.upload = host.upload /\ device.open
        /\ device.received = Len(file) /\ device.expected = Len(file) % PacketNumbers
        /\ Len(file) < Sizes[host.upload]

HeaderSent ==
    /\ Len(toDevice) + Len(toHost) <= 1
    /\ \A k \in 1..Len(toDevice) : toDevice[k] = Header(host.upload)
    /\ \A k \in 1..Len(toHost) : toHost[k].type = "ack" =>
          file = <<>> /\ Sizes[host.upload] # 0 /\ Receiving

\* What may be on the links while a host has n blocks acknowledged and the file
\* has l: that block, or the one before while the file has no more than n, and
\* the block's acknowledgements only when it is stored.
Blocks(t, n, l) ==
    \A k \in 1..Len(t) :
      IsData(t[k]) /\ t[k].index >= n - 1 /\ (l = n + 1 => t[k].index = n)

Acks(t, n, l) ==
    /\ \A k \in 1..Len(t) : IsAck(t[k], n % PacketNumbers) => l = n + 1
    /\ \A j, k \in 1..Len(t) :
          j < k /\ IsAck(t[j], n % PacketNumbers) /\ t[k].type = "ack"
             => IsAck(t[k], n % PacketNumbers)

\* A handshaking host is at most one block behind the file.
Handshake ==
    /\ Begun /\ Receiving
    /\ Len(file) \in {host.next, host.next + 1}
    /\ Blocks(toDevice, host.next, Len(file))
    /\ Acks(toHost, host.next, Len(file))

Completed ==
    /\ Begun /\ Len(file) = Sizes[host.upload] /\ ~device.busy
    /\ \A k \in 1..Len(toDevice) : toDevice[k].type # "header"

Host ==
    /\ host.phase = "header"  => HeaderSent
    /\ host.phase = "sending" => Handshake
    /\ host.phase = "done"    => Completed

-----------------------------------------------------------------------------
(* Packet numbers, and messages sent and taken *)
LEMMA SendIs ==
    ASSUME NEW S, NEW s \in Seq(S), NEW m \in S
    PROVE  /\ Send(s, m) \in Seq(S)
           /\ Len(Send(s, m)) \in {Len(s), Len(s) + 1}
           /\ \A k \in 1..Len(Send(s, m)) :
                 \/ k \in 1..Len(s) /\ Send(s, m)[k] = s[k]
                 \/ k = Len(s) + 1 /\ Send(s, m)[k] = m
  BY SentIs DEF Send

LEMMA NumberRange ==
    PacketNumbers \in Nat \ {0, 1} /\ \A n \in Nat : n % PacketNumbers \in 0..(PacketNumbers - 1)
<1>1. PacketNumbers \in Nat \ {0, 1}
  BY SizeAssumption
<1> QED BY <1>1, ModRange, Zenon

LEMMA SizeIs ==
    ASSUME NEW u \in Upload
    PROVE  Sizes[u] \in 0..MaxBlocks
  BY SizeAssumption, ElementOfSeq DEF Upload

LEMMA MessageIs ==
    /\ \A u \in Upload : Header(u) \in DeviceMessage
    /\ \A u \in Upload : \A i \in 0..(MaxBlocks - 1) : Data(u, i) \in DeviceMessage
    /\ Cancel \in DeviceMessage
    /\ \A t \in {"ack", "nak"} : \A n \in 0..(PacketNumbers - 1) : Reply(t, n) \in Response
  BY DEF Header, Data, Cancel, Reply, DeviceMessage, Response

-----------------------------------------------------------------------------
(* Types *)

LEMMA RespondTypes ==
    ASSUME Types, NEW t \in {"ack", "nak"}, NEW n \in 0..(PacketNumbers - 1), Respond(t, n)
    PROVE  toHost' \in Seq(Response)
  BY MessageIs, SendIs DEF Types, Respond

LEMMA HeaderTypes ==
    ASSUME Types, NEW u \in Upload, HandleDumpHeader(u)
    PROVE  /\ device' \in [busy : BOOLEAN, upload : Upload, expected : 0..(PacketNumbers - 1),
                           received : 0..MaxBlocks, open : BOOLEAN]
           /\ file' \in Seq(Block) /\ toHost' \in Seq(Response)
           /\ device'.busy /\ device'.open => device'.received < MaxBlocks
           /\ device'.open => device'.busy
<1>1. 0 \in 0..(PacketNumbers - 1) /\ Sizes[u] \in 0..MaxBlocks
  BY SizeAssumption, SizeIs
<1>2. toHost' \in Seq(Response)
  BY <1>1, RespondTypes DEF HandleDumpHeader
<1>3. CASE device' = [device EXCEPT !.upload = u] /\ UNCHANGED file
  BY <1>2, <1>3 DEF Types
<1>4. CASE device' = [device EXCEPT !.upload = u, !.open = FALSE] /\ UNCHANGED file
  BY <1>2, <1>4 DEF Types
<1>5. CASE /\ Sizes[u] # 0 /\ file' = <<>>
           /\ device' = [busy |-> TRUE, upload |-> u, expected |-> 0, received |-> 0, open |-> TRUE]
  <2>1. 0 \in 0..MaxBlocks /\ 0 < MaxBlocks /\ <<>> \in Seq(Block)
    BY <1>1, <1>5, SizeAssumption
  <2> QED BY <1>1, <1>2, <1>5, <2>1
<1> QED BY <1>3, <1>4, <1>5 DEF HandleDumpHeader

LEMMA BlockIs ==
    ASSUME NEW m \in DeviceMessage, IsData(m)
    PROVE  /\ BlockOf(m) \in Block /\ m.upload \in Upload /\ m.index \in 0..(MaxBlocks - 1)
           /\ BlockOf(m).upload = m.upload /\ BlockOf(m).index = m.index
           /\ Number(BlockOf(m)) = m.index % PacketNumbers
           /\ Number(BlockOf(m)) \in 0..(PacketNumbers - 1)
<1>1. /\ m.upload \in Upload /\ m.index \in 0..(MaxBlocks - 1)
  BY DEF IsData, DeviceMessage, Cancel
<1>2. m.index \in Nat
  BY <1>1
<1>3. m.index % PacketNumbers \in 0..(PacketNumbers - 1)
  BY <1>2, NumberRange
<1> QED BY <1>1, <1>3 DEF BlockOf, Block, Number

LEMMA AcceptedIs ==
    ASSUME Types, NEW b \in Block, device.busy
    PROVE  /\ Accepted(b) \in [busy : BOOLEAN, upload : Upload, expected : 0..(PacketNumbers - 1),
                               received : 0..MaxBlocks, open : BOOLEAN]
           /\ Accepted(b).open => Accepted(b).busy /\ device.open
           /\ Accepted(b).busy /\ device.open => Accepted(b).open
           /\ Accepted(b).upload = device.upload
           /\ Accepted(b).expected = (Number(b) + 1) % PacketNumbers
           /\ Accepted(b).received = IF device.open THEN device.received + 1 ELSE device.received
           /\ Accepted(b).busy => Accepted(b).received < Sizes[device.upload]
<1> DEFINE d == [device EXCEPT !.expected = (Number(b) + 1) % PacketNumbers,
                               !.received = IF device.open THEN @ + 1 ELSE @]
<1>1. Number(b) + 1 \in Nat
  <2>1. b.index \in Nat
    BY DEF Block
  <2> QED BY <2>1, NumberRange DEF Number
<1>2. (Number(b) + 1) % PacketNumbers \in 0..(PacketNumbers - 1)
  BY <1>1, NumberRange
<1>3. Sizes[device.upload] \in 0..MaxBlocks
  BY SizeIs DEF Types
<1>4. (IF device.open THEN device.received + 1 ELSE device.received) \in 0..MaxBlocks
  BY SizeAssumption DEF Types
<1>5. /\ d.upload = device.upload /\ d.expected = (Number(b) + 1) % PacketNumbers
      /\ d.received = IF device.open THEN device.received + 1 ELSE device.received
      /\ d \in [busy : BOOLEAN, upload : Upload, expected : 0..(PacketNumbers - 1),
                received : 0..MaxBlocks, open : BOOLEAN]
  BY <1>2, <1>4 DEF Types
<1>6. d.busy /\ (d.open <=> device.open)
  BY DEF Types
<1> HIDE DEF d
<1>7. Accepted(b) = IF d.received >= Sizes[d.upload] THEN Idle(d) ELSE d
  BY DEF Accepted, d
<1>8. CASE d.received >= Sizes[d.upload]
  <2>1. Accepted(b) = Idle(d)
    BY <1>7, <1>8
  <2>2. /\ Idle(d) \in [busy : BOOLEAN, upload : Upload, expected : 0..(PacketNumbers - 1),
                        received : 0..MaxBlocks, open : BOOLEAN]
        /\ Idle(d).upload = d.upload /\ Idle(d).expected = d.expected
        /\ Idle(d).received = d.received /\ ~Idle(d).busy /\ ~Idle(d).open
    BY <1>5 DEF Idle
  <2> QED BY <1>5, <2>1, <2>2
<1>9. CASE ~(d.received >= Sizes[d.upload])
  <2>1. Accepted(b) = d
    BY <1>7, <1>9
  <2>2. d.received < Sizes[device.upload]
    BY <1>3, <1>5, <1>9
  <2> QED BY <1>5, <1>6, <2>1, <2>2
<1> QED BY <1>8, <1>9

LEMMA DataTypes ==
    ASSUME Types, NEW b \in Block, HandleDataPacket(b)
    PROVE  /\ device' \in [busy : BOOLEAN, upload : Upload, expected : 0..(PacketNumbers - 1),
                           received : 0..MaxBlocks, open : BOOLEAN]
           /\ file' \in Seq(Block) /\ toHost' \in Seq(Response)
           /\ device'.busy /\ device'.open => device'.received < MaxBlocks
           /\ device'.open => device'.busy
<1>1. 0 \in 0..(PacketNumbers - 1) /\ device.expected \in 0..(PacketNumbers - 1)
  BY SizeAssumption DEF Types
<1>2. Number(b) \in 0..(PacketNumbers - 1)
  <2>1. b.index \in Nat
    BY DEF Block
  <2> QED BY <2>1, NumberRange DEF Number
<1>3. toHost' \in Seq(Response)
  BY <1>1, <1>2, RespondTypes DEF HandleDataPacket, StoreBlock
<1>4. CASE UNCHANGED <<device, file>>
  BY <1>3, <1>4 DEF Types
<1>5. CASE device.busy /\ device' = Accepted(b)
           /\ file' = IF device.open THEN Append(file, b) ELSE file
  <2>1. file' \in Seq(Block)
    BY <1>5, AppendProperties DEF Types
  <2>2. Sizes[device.upload] \in 0..MaxBlocks
    BY SizeIs DEF Types
  <2>3. /\ device' \in [busy : BOOLEAN, upload : Upload, expected : 0..(PacketNumbers - 1),
                        received : 0..MaxBlocks, open : BOOLEAN]
        /\ device'.busy => device'.received < Sizes[device.upload]
        /\ device'.open => device'.busy
    BY <1>5, AcceptedIs
  <2>4. device'.busy /\ device'.open => device'.received < MaxBlocks
    BY <2>2, <2>3, SizeAssumption
  <2> QED BY <1>3, <2>1, <2>3, <2>4
<1>6. CASE device' = Idle(device) /\ UNCHANGED file
  BY <1>3, <1>6 DEF Types, Idle
<1> QED BY <1>4, <1>5, <1>6 DEF HandleDataPacket, StoreBlock

LEMMA DeviceHearsTypes ==
    ASSUME Types, DeviceHears
    PROVE  Types'
<1> DEFINE m == Head(toDevice)
<1>1. toDevice' \in Seq(DeviceMessage) /\ m \in DeviceMessage
  BY TailIs DEF Types, DeviceHears
<1>2. UNCHANGED <<host, faults, downloads>>
  BY DEF DeviceHears
<1> HIDE DEF m
<1>3. /\ device' \in [busy : BOOLEAN, upload : Upload, expected : 0..(PacketNumbers - 1),
                      received : 0..MaxBlocks, open : BOOLEAN]
      /\ file' \in Seq(Block) /\ toHost' \in Seq(Response)
      /\ device'.busy /\ device'.open => device'.received < MaxBlocks
      /\ device'.open => device'.busy
  <2>1. CASE m.type = "header" /\ HandleDumpHeader(m.upload)
    <3>1. m.upload \in Upload
      BY <1>1, <2>1 DEF DeviceMessage, Cancel
    <3> QED BY <2>1, <3>1, HeaderTypes
  <2>2. CASE m.type = "data" /\ HandleDataPacket(BlockOf(m))
    BY <1>1, <2>2, BlockIs, DataTypes DEF IsData
  <2>3. CASE m.type = "damaged" /\ HandleDamagedPacket(BlockOf(m))
    <3>1. Number(BlockOf(m)) \in 0..(PacketNumbers - 1) /\ 0 \in 0..(PacketNumbers - 1)
      BY <1>1, <2>3, BlockIs, SizeAssumption DEF IsData
    <3> QED BY <2>3, <3>1, RespondTypes DEF HandleDamagedPacket, Types
  <2>4. CASE HandleCancel
    BY <2>4 DEF HandleCancel, Types
  <2> QED BY <2>1, <2>2, <2>3, <2>4 DEF DeviceHears, m
<1> QED BY <1>1, <1>2, <1>3 DEF Types

LEMMA SendTypes ==
    ASSUME Types
    PROVE  /\ \A u \in Upload : Send(toDevice, Header(u)) \in Seq(DeviceMessage)
           /\ \A u \in Upload : \A i \in 0..(MaxBlocks - 1) :
                 Send(toDevice, Data(u, i)) \in Seq(DeviceMessage)
           /\ Send(toDevice, Cancel) \in Seq(DeviceMessage)
  BY MessageIs, SendIs DEF Types

LEMMA SendFromTypes ==
    ASSUME Types, host.phase \in Active, NEW i \in 0..MaxBlocks, SendFrom(i)
    PROVE  /\ host' \in [phase : Phase, upload : 0..Len(Sizes), next : 0..MaxBlocks]
           /\ toDevice' \in Seq(DeviceMessage)
           /\ host'.phase \in {"sending", "done"} /\ host'.upload = host.upload
           /\ host'.phase = "sending" => host'.next < Sizes[host.upload]
<1>1. host.upload \in Upload
  BY DEF Types, Active
<1>2. Sizes[host.upload] \in 0..MaxBlocks
  BY <1>1, SizeIs
<1>3. CASE i < Sizes[host.upload]
  <2>1. i \in 0..(MaxBlocks - 1)
    BY <1>2, <1>3, SizeAssumption
  <2>2. toDevice' \in Seq(DeviceMessage)
    BY <1>1, <1>3, <2>1, SendTypes DEF SendFrom, SendBlock
  <2> QED BY <1>3, <2>2 DEF SendFrom, Types, Phase
<1>4. CASE ~(i < Sizes[host.upload])
  BY <1>4 DEF SendFrom, Types, Phase
<1> QED BY <1>3, <1>4

LEMMA HostHearsTypes ==
    ASSUME Types, HostHears
    PROVE  Types'
<1> DEFINE r == Head(toHost)
<1>1. toHost' \in Seq(Response) /\ r \in Response
  BY TailIs DEF Types, HostHears
<1>2. UNCHANGED <<device, file, faults, downloads>>
  BY DEF HostHears
<1> HIDE DEF r
<1>3. CASE UNCHANGED <<host, toDevice>>
  BY <1>1, <1>2, <1>3 DEF Types
<1>4. CASE host.phase \in {"header", "retry"} /\ HostHearsHeaderResponse(r)
  <2>1. host.phase \in Active /\ host.upload \in Upload
    BY <1>4 DEF Active, Types
  <2>2. CASE SendFrom(0)
    <3>1. 0 \in 0..MaxBlocks
      BY SizeAssumption
    <3> QED BY <1>1, <1>2, <2>1, <2>2, <3>1, SendFromTypes DEF Types
  <2>3. CASE host' = [host EXCEPT !.phase = "retry"] /\ SendHeader
    BY <1>1, <1>2, <1>4, <2>1, <2>3, SendTypes DEF Types, Phase, SendHeader
  <2>4. CASE host' = [host EXCEPT !.phase = IF r.type = "ack" THEN "openLoop" ELSE "failed"]
             /\ UNCHANGED toDevice
    <3>1. Sizes[host.upload] \in 0..MaxBlocks /\ host.next = 0
      BY <1>4, <2>1, SizeIs DEF Types
    <3> QED BY <1>1, <1>2, <2>1, <2>4, <3>1, SMTT(30) DEF Types, Phase
  <2> QED BY <1>4, <2>2, <2>3, <2>4 DEF HostHearsHeaderResponse
<1>5. CASE host.phase = "sending" /\ HostHearsPacketResponse(r)
  <2>1. host.phase \in Active /\ host.upload \in Upload
    BY <1>5 DEF Active, Types
  <2>2. /\ host.next + 1 \in 0..MaxBlocks /\ host.next \in 0..(MaxBlocks - 1)
        /\ Sizes[host.upload] \in 0..MaxBlocks
    BY <1>5, <2>1, SizeIs, SizeAssumption DEF Types
  <2>3. CASE SendFrom(host.next + 1)
    BY <1>1, <1>2, <2>1, <2>2, <2>3, SendFromTypes DEF Types
  <2>4. CASE SendBlock(host.next) /\ UNCHANGED host
    <3>1. toDevice' \in Seq(DeviceMessage)
      BY <2>1, <2>2, <2>4, SendTypes DEF SendBlock
    <3> QED BY <1>1, <1>2, <2>4, <3>1 DEF Types
  <2> QED BY <1>3, <1>5, <2>3, <2>4 DEF HostHearsPacketResponse
<1> QED BY <1>3, <1>4, <1>5 DEF HostHears, r

LEMMA HostTypes ==
    ASSUME Types,
           HostBegins \/ HostHeaderTimeout \/ HostRetransmits \/ HostGivesUp \/ HostStreams
             \/ DownloadBegins
    PROVE  Types'
<1>1. CASE HostBegins
  <2>1. host.upload + 1 \in Upload
    BY <1>1, SizeAssumption, LenProperties DEF HostBegins, Types, Upload
  <2>2. toDevice' \in Seq(DeviceMessage)
    BY <1>1, <2>1, SendTypes DEF HostBegins
  <2>3. host' \in [phase : Phase, upload : 0..Len(Sizes), next : 0..MaxBlocks]
    BY <1>1, <2>1, SizeAssumption DEF HostBegins, Phase, Upload
  <2> QED BY <1>1, <2>1, <2>2, <2>3 DEF HostBegins, Types
<1>2. CASE HostHeaderTimeout
  <2>1. host.upload \in Upload /\ host.next = 0
    BY <1>2 DEF HostHeaderTimeout, Types
  <2>2. Sizes[host.upload] \in 0..MaxBlocks
    BY <2>1, SizeIs
  <2> QED BY <1>2, <2>1, <2>2 DEF HostHeaderTimeout, Types, Phase
<1>3. CASE HostRetransmits
  <2>1. host.upload \in Upload
    BY <1>3 DEF HostRetransmits, Types
  <2>2. host.next \in 0..(MaxBlocks - 1)
    BY <1>3, <2>1, SizeIs, SizeAssumption DEF HostRetransmits, Types
  <2>3. toDevice' \in Seq(DeviceMessage)
    BY <1>3, <2>1, <2>2, SendTypes DEF HostRetransmits, SendBlock
  <2> QED BY <1>3, <2>3 DEF HostRetransmits, Types
<1>4. CASE HostGivesUp
  BY <1>4 DEF HostGivesUp, Types, Phase, Active
<1>5. CASE HostStreams
  <2>1. host.upload \in Upload /\ Sizes[host.upload] \in 0..MaxBlocks
    BY <1>5, SizeIs DEF HostStreams, Types
  <2>2. CASE host.next < Sizes[host.upload]
    <3>1. host.next \in 0..(MaxBlocks - 1) /\ host.next + 1 \in 0..MaxBlocks
          /\ host.next + 1 <= Sizes[host.upload]
      BY <2>1, <2>2, SizeAssumption, SMTT(30) DEF Types
    <3>2. toDevice' \in Seq(DeviceMessage)
      BY <1>5, <2>1, <2>2, <3>1, SendTypes DEF HostStreams, SendBlock
    <3> QED BY <1>5, <2>2, <3>1, <3>2 DEF HostStreams, Types
  <2>3. CASE ~(host.next < Sizes[host.upload])
    BY <1>5, <2>1, <2>3 DEF HostStreams, Types, Phase
  <2> QED BY <2>2, <2>3
<1>6. CASE DownloadBegins
  <2>1. toDevice' \in Seq(DeviceMessage) /\ downloads' \in 0..MaxDownloads
    BY <1>6, SendTypes, SizeAssumption DEF DownloadBegins, Types
  <2> QED BY <1>6, <2>1 DEF DownloadBegins, Types
<1> QED BY <1>1, <1>2, <1>3, <1>4, <1>5, <1>6

LEMMA DamageIs ==
    ASSUME Types, Damage
    PROVE  /\ toDevice' \in Seq(DeviceMessage) /\ Len(toDevice') = Len(toDevice)
           /\ \A k \in 1..Len(toDevice) :
                 /\ toDevice'[k].upload = toDevice[k].upload
                 /\ toDevice'[k].index = toDevice[k].index
                 /\ toDevice[k].type # "header" => toDevice'[k].type # "header"
                 /\ IsData(toDevice[k]) <=> IsData(toDevice'[k])
<1> DEFINE m == Head(toDevice)  d == [m EXCEPT !.type = "damaged"]
<1>1. /\ m \in DeviceMessage /\ Len(toDevice) \in Nat \ {0} /\ m = toDevice[1] /\ m.type = "data"
      /\ Tail(toDevice) \in Seq(DeviceMessage) /\ Len(Tail(toDevice)) = Len(toDevice) - 1
      /\ \A k \in 1..Len(toDevice) - 1 : Tail(toDevice)[k] = toDevice[k + 1]
  BY TailIs, EmptySeq, LenProperties DEF Types, Damage
<1>2. d \in DeviceMessage /\ d.upload = m.upload /\ d.index = m.index /\ d.type = "damaged"
  BY <1>1 DEF DeviceMessage, Cancel
<1> HIDE DEF d
<1>3. toDevice' = <<d>> \o Tail(toDevice)
  BY DEF Damage, d
<1> HIDE DEF m
<1>4. <<d>> \in Seq(DeviceMessage) /\ Len(<<d>>) = 1 /\ <<d>>[1] = d
  BY <1>2
<1>5. /\ toDevice' \in Seq(DeviceMessage) /\ Len(toDevice') = Len(toDevice)
      /\ \A k \in 1..Len(toDevice) : toDevice'[k] = IF k = 1 THEN d ELSE toDevice[k]
  <2>1. toDevice' \in Seq(DeviceMessage) /\ Len(toDevice') = Len(toDevice)
    BY <1>1, <1>3, <1>4, ConcatProperties
  <2>2. ASSUME NEW k \in 1..Len(toDevice)
        PROVE  toDevice'[k] = IF k = 1 THEN d ELSE toDevice[k]
    <3>1. toDevice'[k] = IF k <= 1 THEN <<d>>[k] ELSE Tail(toDevice)[k - 1]
      BY <1>1, <1>3, <1>4, ConcatProperties
    <3>2. k # 1 => k - 1 \in 1..Len(toDevice) - 1
      BY <1>1
    <3> QED BY <1>1, <1>4, <3>1, <3>2
  <2> QED BY <2>1, <2>2
<1> QED BY <1>1, <1>2, <1>5 DEF IsData

LEMMA LinkTypes ==
    ASSUME Types, LoseToHost \/ LoseToDevice \/ Damage
    PROVE  Types'
<1>1. CASE LoseToHost
  BY <1>1, TailIs, SizeAssumption DEF LoseToHost, Lose, Types
<1>2. CASE LoseToDevice
  BY <1>2, TailIs, SizeAssumption DEF LoseToDevice, Lose, Types
<1>3. CASE Damage
  <2>1. toDevice' \in Seq(DeviceMessage)
    BY <1>3, DamageIs
  <2> QED BY <1>3, <2>1, SizeAssumption DEF Damage, Types
<1> QED BY <1>1, <1>2, <1>3

LEMMA InitTypes == Init => Types
<1>1. 1 \in Upload
  BY SizeAssumption, EmptySeq, LenProperties DEF Upload
<1>2. /\ <<>> \in Seq(Block) /\ <<>> \in Seq(Response) /\ <<>> \in Seq(DeviceMessage)
  OBVIOUS
<1>3. 0 \in 0..Len(Sizes)
  BY <1>1 DEF Upload
<1> QED BY <1>1, <1>2, <1>3, SizeAssumption DEF Init, Types, Phase

LEMMA NextTypes == Types /\ [Next]_vars => Types'
<1> SUFFICES ASSUME Types, [Next]_vars PROVE Types'
  OBVIOUS
<1>1. CASE CheckTimeout
  BY <1>1 DEF CheckTimeout, Idle, Types
<1>2. CASE UNCHANGED vars
  BY <1>2 DEF vars, Types
<1> QED BY <1>1, <1>2, DeviceHearsTypes, HostHearsTypes, HostTypes, LinkTypes DEF Next

-----------------------------------------------------------------------------
(* What is stored ascends *)

\* A message that is sent comes after all that are on their way.
LEMMA OrderSends ==
    ASSUME Types, Order, UNCHANGED <<device, file>>,
           host'.upload = host.upload, host'.next \in Nat, host.next <= host'.next,
           NEW m \in DeviceMessage, toDevice' = Send(toDevice, m) \/ toDevice' = toDevice,
           IsData(m) => m.upload = host.upload /\ host.next <= m.index /\ m.index <= host'.next
    PROVE  Order'
<1> DEFINE t == toDevice'
<1>1. /\ toDevice \in Seq(DeviceMessage) /\ file \in Seq(Block) /\ host.next \in Nat
      /\ \A k \in 1..Len(toDevice) : toDevice[k] \in DeviceMessage
      /\ \A i \in 1..Len(file) : file[i].index \in Nat
  <2>1. toDevice \in Seq(DeviceMessage) /\ file \in Seq(Block) /\ host.next \in Nat
    BY DEF Types
  <2>2. \A i \in 1..Len(file) : file[i] \in Block
    BY <2>1, ElementOfSeq
  <2>3. \A k \in 1..Len(toDevice) : toDevice[k] \in DeviceMessage
    BY <2>1, ElementOfSeq
  <2> QED BY <2>1, <2>2, <2>3 DEF Block
<1>2. /\ t \in Seq(DeviceMessage) /\ Len(t) \in {Len(toDevice), Len(toDevice) + 1}
      /\ \A k \in 1..Len(t) : \/ k \in 1..Len(toDevice) /\ t[k] = toDevice[k]
                              \/ k = Len(toDevice) + 1 /\ t[k] = m
  <2>1. CASE t = Send(toDevice, m)
    BY <1>1, <2>1, SendIs
  <2>2. CASE t = toDevice
    BY <1>1, <2>2
  <2> QED BY <2>1, <2>2
<1>3. \A n \in DeviceMessage : IsData(n) => n.index \in Nat
  BY BlockIs
<1> HIDE DEF t
<1>4. \A k \in 1..Len(t) : IsData(t[k]) => t[k].upload = host'.upload /\ t[k].index <= host'.next
  BY <1>1, <1>2, <1>3, SMTT(30) DEF Order
<1>5. \A j, k \in 1..Len(t) :
        j < k /\ IsData(t[j]) /\ IsData(t[k]) => t[j].index <= t[k].index
  <2> SUFFICES ASSUME NEW j \in 1..Len(t), NEW k \in 1..Len(t), j < k, IsData(t[j]), IsData(t[k])
               PROVE  t[j].index <= t[k].index
    OBVIOUS
  <2>1. j \in 1..Len(toDevice) /\ t[j] = toDevice[j]
    BY <1>1, <1>2
  <2>2. CASE k \in 1..Len(toDevice) /\ t[k] = toDevice[k]
    BY <2>1, <2>2 DEF Order
  <2>3. CASE t[k] = m
    BY <1>1, <1>3, <2>1, <2>3, SMTT(30) DEF Order
  <2> QED BY <1>2, <2>2, <2>3
<1>6. \A i \in 1..Len(file) :
        /\ file[i].upload <= host'.upload
        /\ file[i].upload = host'.upload =>
             /\ file[i].index <= host'.next
             /\ \A k \in 1..Len(t) : IsData(t[k]) => file[i].index <= t[k].index
  <2> SUFFICES ASSUME NEW i \in 1..Len(file), file[i].upload = host.upload
               PROVE  /\ file[i].index <= host'.next
                      /\ \A k \in 1..Len(t) : IsData(t[k]) => file[i].index <= t[k].index
    BY DEF Order
  <2>1. file[i].index <= host.next /\ file[i].index \in Nat
    BY <1>1 DEF Order
  <2>2. ASSUME NEW k \in 1..Len(t), IsData(t[k]) PROVE file[i].index <= t[k].index
    <3>1. CASE k \in 1..Len(toDevice) /\ t[k] = toDevice[k]
      BY <2>2, <3>1 DEF Order
    <3>2. CASE t[k] = m
      BY <1>1, <1>3, <2>1, <2>2, <3>2
    <3> QED BY <1>2, <3>1, <3>2
  <2> QED BY <1>1, <2>1, <2>2
<1> QED BY <1>4, <1>5, <1>6 DEF Order, BlocksAscend, t

\* A message that is taken, with or without effect on the device.
LEMMA OrderTakes ==
    ASSUME Types, Order, UNCHANGED <<file, host>>,
           toDevice' = toDevice \/ (toDevice # <<>> /\ toDevice' = Tail(toDevice)),
           device'.open => device.open /\ device'.expected = device.expected
    PROVE  Order'
<1> DEFINE t == toDevice'
<1>1. \/ t = toDevice
      \/ Len(t) = Len(toDevice) - 1 /\ \A k \in 1..Len(t) :
                                          k + 1 \in 1..Len(toDevice) /\ t[k] = toDevice[k + 1]
  <2>1. toDevice \in Seq(DeviceMessage)
    BY DEF Types
  <2>2. CASE toDevice # <<>> /\ t = Tail(toDevice)
    BY <2>1, <2>2, TailIs
  <2> QED BY <2>2
<1> HIDE DEF t
<1>2. CASE t = toDevice
  BY <1>2 DEF Order, BlocksAscend, t
<1>3. CASE Len(t) = Len(toDevice) - 1 /\ \A k \in 1..Len(t) :
                                          k + 1 \in 1..Len(toDevice) /\ t[k] = toDevice[k + 1]
  <2>1. \A k \in 1..Len(t) : IsData(t[k]) => t[k].upload = host'.upload /\ t[k].index <= host'.next
    BY <1>3 DEF Order
  <2>2. \A j, k \in 1..Len(t) :
          j < k /\ IsData(t[j]) /\ IsData(t[k]) => t[j].index <= t[k].index
    <3> SUFFICES ASSUME NEW j \in 1..Len(t), NEW k \in 1..Len(t), j < k, IsData(t[j]), IsData(t[k])
                 PROVE  t[j].index <= t[k].index
      OBVIOUS
    <3>1. /\ j + 1 \in 1..Len(toDevice) /\ k + 1 \in 1..Len(toDevice) /\ j + 1 < k + 1
          /\ t[j] = toDevice[j + 1] /\ t[k] = toDevice[k + 1]
      BY <1>3
    <3> QED BY <3>1 DEF Order
  <2>3. \A i \in 1..Len(file) :
          /\ file[i].upload <= host'.upload
          /\ file[i].upload = host'.upload =>
               /\ file[i].index <= host'.next
               /\ \A k \in 1..Len(t) : IsData(t[k]) => file[i].index <= t[k].index
    BY <1>3 DEF Order
  <2> QED BY <2>1, <2>2, <2>3 DEF Order, BlocksAscend, t
<1> QED BY <1>1, <1>2, <1>3

\* A block whose number the device expects is later than all in the file.
LEMMA OrderStores ==
    ASSUME Types, Order, NEW b \in Block, toDevice # <<>>, toDevice' = Tail(toDevice),
           IsData(Head(toDevice)), b = BlockOf(Head(toDevice)), UNCHANGED host,
           device.open, Number(b) = device.expected, file' = Append(file, b),
           device'.open => device'.expected = (Number(b) + 1) % PacketNumbers
    PROVE  Order'
<1> DEFINE t == toDevice'  f == file'  n == Len(file)
<1>1. /\ Len(t) = Len(toDevice) - 1 /\ 1 \in 1..Len(toDevice) /\ Head(toDevice) = toDevice[1]
      /\ \A k \in 1..Len(t) : k + 1 \in 1..Len(toDevice) /\ t[k] = toDevice[k + 1]
      /\ toDevice[1] \in DeviceMessage /\ Len(toDevice) \in Nat
  BY TailIs, LenProperties DEF Types
<1>2. /\ b.upload = host.upload /\ b.index <= host.next /\ b.index = toDevice[1].index
      /\ b.index \in Nat /\ b.upload \in Nat /\ host.next \in Nat
  <2>1. toDevice[1].upload = host.upload /\ toDevice[1].index <= host.next
    BY <1>1 DEF Order
  <2>2. b.upload = toDevice[1].upload /\ b.index = toDevice[1].index
    BY <1>1, BlockIs
  <2> QED BY <2>1, <2>2 DEF Block, Upload, Types
<1>3. /\ n \in Nat /\ Len(f) = n + 1 /\ f[n + 1] = b
      /\ \A i \in 1..n : f[i] = file[i] /\ file[i].index \in Nat /\ file[i].upload \in Nat
  <2>1. file \in Seq(Block)
    BY DEF Types
  <2>2. n \in Nat /\ \A i \in 1..n : file[i] \in Block
    BY <2>1, ElementOfSeq, LenProperties
  <2>3. Len(f) = n + 1 /\ f[n + 1] = b /\ \A i \in 1..n : f[i] = file[i]
    BY <2>1, AppendProperties
  <2> QED BY <2>2, <2>3 DEF Block, Upload
<1>4. \A i \in 1..n : file[i].upload <= b.upload
  BY <1>2 DEF Order
<1>5. ASSUME NEW i \in 1..n, file[i].upload = b.upload PROVE file[i].index < b.index
  <2>1. file[i].index <= b.index
    BY <1>1, <1>2, <1>5 DEF Order
  <2>2. file[n].upload = b.upload /\ file[n].index <= b.index /\ n \in 1..n
    <3>1. n \in 1..n /\ (i < n \/ i = n)
      BY <1>3
    <3>2. file[i].upload <= file[n].upload
      BY <1>3, <1>5, <3>1 DEF Order
    <3>3. file[n].upload = b.upload
      BY <1>2, <1>3, <1>4, <1>5, <3>1, <3>2
    <3> QED BY <1>1, <1>2, <3>1, <3>3 DEF Order
  <2>3. file[n].index # b.index
    <3>1. device.expected = (file[n].index + 1) % PacketNumbers
      <4>1. file # <<>>
        BY <1>3, <2>2
      <4> QED BY <4>1 DEF Order
    <3>2. Number(b) = b.index % PacketNumbers
      BY DEF Number
    <3>3. (b.index + 1) % PacketNumbers # b.index % PacketNumbers
      BY <1>2, NumberRange, ModNext, Zenon
    <3> QED BY <3>1, <3>2, <3>3
  <2>4. CASE i = n
    BY <1>2, <1>3, <2>1, <2>3, <2>4
  <2>5. CASE i < n
    <3>1. file[i].index < file[n].index
      BY <1>5, <2>2, <2>5 DEF Order, BlocksAscend
    <3> QED BY <1>2, <1>3, <2>2, <3>1
  <2> QED BY <1>3, <2>4, <2>5
<1> HIDE DEF t, f
<1>6. \A k \in 1..Len(t) : IsData(t[k]) =>
        t[k].upload = host.upload /\ t[k].index <= host.next /\ b.index <= t[k].index
  <2> SUFFICES ASSUME NEW k \in 1..Len(t), IsData(t[k])
               PROVE  t[k].upload = host.upload /\ t[k].index <= host.next /\ b.index <= t[k].index
    OBVIOUS
  <2>1. k + 1 \in 1..Len(toDevice) /\ t[k] = toDevice[k + 1] /\ 1 < k + 1
    BY <1>1
  <2> QED BY <1>1, <1>2, <2>1 DEF Order
<1>7. \A j, k \in 1..Len(t) :
        j < k /\ IsData(t[j]) /\ IsData(t[k]) => t[j].index <= t[k].index
  <2> SUFFICES ASSUME NEW j \in 1..Len(t), NEW k \in 1..Len(t), j < k, IsData(t[j]), IsData(t[k])
               PROVE  t[j].index <= t[k].index
    OBVIOUS
  <2>1. /\ j + 1 \in 1..Len(toDevice) /\ k + 1 \in 1..Len(toDevice) /\ j + 1 < k + 1
        /\ t[j] = toDevice[j + 1] /\ t[k] = toDevice[k + 1]
    BY <1>1
  <2> QED BY <2>1 DEF Order
<1>8. ASSUME NEW i \in 1..Len(f)
      PROVE  /\ f[i].upload <= host.upload
             /\ f[i].upload = host.upload =>
                  /\ f[i].index <= host.next
                  /\ \A k \in 1..Len(t) : IsData(t[k]) => f[i].index <= t[k].index
  <2>1. CASE i = n + 1
    BY <1>2, <1>3, <1>6, <2>1
  <2>2. CASE i \in 1..n
    <3>1. f[i] = file[i]
      BY <1>3, <2>2
    <3>2. \A k \in 1..Len(t) : k + 1 \in 1..Len(toDevice) /\ t[k] = toDevice[k + 1]
      BY <1>1
    <3> QED BY <2>2, <3>1, <3>2 DEF Order
  <2> QED BY <1>3, <2>1, <2>2
<1>9. ASSUME NEW i \in 1..Len(f), NEW j \in 1..Len(f), i < j
      PROVE  f[i].upload <= f[j].upload /\ (f[i].upload = f[j].upload => f[i].index < f[j].index)
  <2>1. i \in 1..n /\ f[i] = file[i]
    BY <1>3, <1>9
  <2>2. CASE j = n + 1
    BY <1>3, <1>4, <1>5, <2>1, <2>2
  <2>3. CASE j \in 1..n
    <3>1. f[j] = file[j]
      BY <1>3, <2>3
    <3> QED BY <1>9, <2>1, <2>3, <3>1 DEF Order, BlocksAscend
  <2> QED BY <1>3, <2>2, <2>3
<1>10. device'.open /\ f # <<>> => device'.expected = (f[Len(f)].index + 1) % PacketNumbers
  <2>1. (Number(b) + 1) % PacketNumbers = (b.index + 1) % PacketNumbers
    BY <1>2, NumberRange, ModNext, Zenon DEF Number
  <2> QED BY <1>3, <2>1
<1>11. /\ \A k \in 1..Len(t) : IsData(t[k]) => t[k].upload = host'.upload /\ t[k].index <= host'.next
       /\ \A i \in 1..Len(f) :
            /\ f[i].upload <= host'.upload
            /\ f[i].upload = host'.upload =>
                  /\ f[i].index <= host'.next
                  /\ \A k \in 1..Len(t) : IsData(t[k]) => f[i].index <= t[k].index
  BY <1>6, <1>8
<1>12. /\ \A i, j \in 1..Len(f) : i < j => f[i].upload <= f[j].upload
       /\ \A i, j \in 1..Len(f) : i < j /\ f[i].upload = f[j].upload => f[i].index < f[j].index
  BY <1>9
<1> QED BY <1>7, <1>10, <1>11, <1>12 DEF Order, BlocksAscend, t, f

LEMMA DeviceHearsOrder ==
    ASSUME Types, Order, DeviceHears
    PROVE  Order'
<1> DEFINE m == Head(toDevice)
<1>1. /\ toDevice # <<>> /\ toDevice' = Tail(toDevice) /\ UNCHANGED host /\ m \in DeviceMessage
  BY TailIs DEF DeviceHears, Types
<1>2. CASE m.type = "header" /\ HandleDumpHeader(m.upload)
  <2>1. CASE UNCHANGED file /\ (device'.open => device.open /\ device'.expected = device.expected)
    BY <1>1, <2>1, OrderTakes
  <2>2. CASE file' = <<>>
    <3>1. Len(file') = 0 /\ 1..Len(file') = {}
      BY <2>2
    <3>2. Len(toDevice') = Len(toDevice) - 1 /\ \A k \in 1..Len(toDevice') :
             k + 1 \in 1..Len(toDevice) /\ toDevice'[k] = toDevice[k + 1]
      BY <1>1, TailIs DEF Types
    <3>3. \A k \in 1..Len(toDevice') : IsData(toDevice'[k]) =>
             toDevice'[k].upload = host'.upload /\ toDevice'[k].index <= host'.next
      BY <1>1, <3>2 DEF Order
    <3>4. \A j, k \in 1..Len(toDevice') :
             j < k /\ IsData(toDevice'[j]) /\ IsData(toDevice'[k])
                => toDevice'[j].index <= toDevice'[k].index
      <4> SUFFICES ASSUME NEW j \in 1..Len(toDevice'), NEW k \in 1..Len(toDevice'), j < k,
                          IsData(toDevice'[j]), IsData(toDevice'[k])
                   PROVE  toDevice'[j].index <= toDevice'[k].index
        OBVIOUS
      <4>1. /\ j + 1 \in 1..Len(toDevice) /\ k + 1 \in 1..Len(toDevice) /\ j + 1 < k + 1
            /\ toDevice'[j] = toDevice[j + 1] /\ toDevice'[k] = toDevice[k + 1]
        BY <3>2
      <4> QED BY <4>1 DEF Order
    <3> QED BY <2>2, <3>1, <3>3, <3>4 DEF Order, BlocksAscend
  <2> QED BY <1>2, <2>1, <2>2 DEF HandleDumpHeader, Types
<1>3. CASE m.type = "data" /\ HandleDataPacket(BlockOf(m))
  <2>1. CASE UNCHANGED <<device, file>>
    BY <1>1, <2>1, OrderTakes
  <2>2. CASE device' = Idle(device) /\ UNCHANGED file
    BY <1>1, <2>2, OrderTakes DEF Idle, Types
  <2>3. CASE /\ device.busy /\ Number(BlockOf(m)) = device.expected /\ device' = Accepted(BlockOf(m))
             /\ file' = IF device.open THEN Append(file, BlockOf(m)) ELSE file
    <3>1. BlockOf(m) \in Block /\ IsData(m)
      BY <1>1, <1>3, BlockIs DEF IsData
    <3>2. /\ device'.open => device.open
          /\ device'.expected = (Number(BlockOf(m)) + 1) % PacketNumbers
      BY <2>3, <3>1, AcceptedIs
    <3>3. CASE device.open
      BY <1>1, <2>3, <3>1, <3>2, <3>3, OrderStores
    <3>4. CASE ~device.open
      BY <1>1, <2>3, <3>2, <3>4, OrderTakes
    <3> QED BY <3>3, <3>4
  <2> QED BY <1>3, <2>1, <2>2, <2>3 DEF HandleDataPacket, StoreBlock
<1>4. CASE (m.type = "damaged" /\ HandleDamagedPacket(BlockOf(m))) \/ HandleCancel
  BY <1>1, <1>4, OrderTakes DEF HandleDamagedPacket, HandleCancel, DeviceHears
<1> QED BY <1>2, <1>3, <1>4 DEF DeviceHears

\* The host sends nothing, its next block, or a header.
LEMMA HostOrder ==
    ASSUME Types, Order,
           HostHears \/ HostHeaderTimeout \/ HostRetransmits \/ HostGivesUp \/ HostStreams
             \/ DownloadBegins
    PROVE  Order'
<1>1. UNCHANGED <<device, file>> /\ host.next \in Nat
  BY DEF HostHears, HostHeaderTimeout, HostRetransmits, HostGivesUp, HostStreams, DownloadBegins, Types
<1>2. ASSUME NEW m \in DeviceMessage, toDevice' = Send(toDevice, m) \/ toDevice' = toDevice,
             host'.upload = host.upload, host'.next \in Nat, host.next <= host'.next,
             IsData(m) => m.upload = host.upload /\ host.next <= m.index /\ m.index <= host'.next
      PROVE  Order'
  BY <1>1, <1>2, OrderSends
<1>3. Cancel \in DeviceMessage /\ ~IsData(Cancel)
  BY DEF Cancel, DeviceMessage, IsData
<1>4. CASE UNCHANGED toDevice /\ host'.upload = host.upload /\ host'.next = host.next
  <2>1. Cancel \in DeviceMessage /\ ~IsData(Cancel)
    BY DEF Cancel, DeviceMessage, IsData
  <2> QED BY <1>1, <1>2, <1>4, <2>1
<1>5. \A i \in 0..(MaxBlocks - 1), u \in Upload :
        /\ Data(u, i) \in DeviceMessage /\ Data(u, i).upload = u /\ Data(u, i).index = i
        /\ Header(u) \in DeviceMessage /\ ~IsData(Header(u))
  BY DEF Data, Header, DeviceMessage, IsData
<1>6. ASSUME NEW i \in Nat, host.phase \in Active, SendFrom(i), host.next <= i PROVE Order'
  <2>1. host.upload \in Upload
    BY <1>6 DEF Types, Active
  <2>2. Sizes[host.upload] \in 0..MaxBlocks
    BY <2>1, SizeIs
  <2>3. host'.upload = host.upload /\ host'.next = i
    BY <1>6 DEF SendFrom, Types
  <2>4. CASE i < Sizes[host.upload]
    <3>1. i \in 0..(MaxBlocks - 1)
      BY <2>2, <2>4, SizeAssumption
    <3>2. toDevice' = Send(toDevice, Data(host.upload, i))
      BY <1>6, <2>4 DEF SendFrom, SendBlock
    <3> QED BY <1>1, <1>2, <1>5, <1>6, <2>1, <2>3, <3>1, <3>2
  <2>5. CASE ~(i < Sizes[host.upload])
    <3>1. toDevice' = toDevice
      BY <1>6, <2>5 DEF SendFrom
    <3> QED BY <1>1, <1>2, <1>3, <1>6, <2>3, <3>1
  <2> QED BY <2>4, <2>5
<1>7. ASSUME host.phase = "sending", SendBlock(host.next), UNCHANGED host PROVE Order'
  <2>1. host.upload \in Upload
    BY <1>7 DEF Types
  <2>2. host.next \in 0..(MaxBlocks - 1)
    BY <1>7, <2>1, SizeIs, SizeAssumption DEF Types
  <2> QED BY <1>1, <1>2, <1>5, <1>7, <2>1, <2>2 DEF SendBlock
<1>8. CASE HostHears
  <2> DEFINE r == Head(toHost)
  <2>1. CASE host.phase \in {"header", "retry"} /\ HostHearsHeaderResponse(r)
    <3>1. host.phase \in Active /\ host.next = 0 /\ host.upload \in Upload
      BY <2>1 DEF Active, Types
    <3>2. CASE SendFrom(0)
      BY <1>6, <3>1, <3>2
    <3>3. CASE host' = [host EXCEPT !.phase = "retry"] /\ SendHeader
      <4>1. 0 \in 0..(MaxBlocks - 1) \/ MaxBlocks = 0
        BY SizeAssumption
      <4>2. Header(host.upload) \in DeviceMessage /\ ~IsData(Header(host.upload))
        BY <3>1 DEF Header, DeviceMessage, IsData
      <4>3. host'.upload = host.upload /\ host'.next = host.next
        BY <3>3 DEF Types
      <4> QED BY <1>1, <1>2, <3>3, <4>2, <4>3 DEF SendHeader
    <3>4. CASE host' = [host EXCEPT !.phase = IF r.type = "ack" THEN "openLoop" ELSE "failed"]
               /\ UNCHANGED toDevice
      BY <1>4, <3>4 DEF Types
    <3> QED BY <2>1, <3>2, <3>3, <3>4 DEF HostHearsHeaderResponse
  <2>2. CASE host.phase = "sending" /\ HostHearsPacketResponse(r)
    <3>1. host.phase \in Active /\ host.next + 1 \in Nat /\ host.next <= host.next + 1
      BY <1>1, <2>2 DEF Active
    <3>2. CASE SendFrom(host.next + 1)
      BY <1>6, <3>1, <3>2
    <3>3. CASE SendBlock(host.next) /\ UNCHANGED host
      BY <1>7, <2>2, <3>3
    <3>4. CASE UNCHANGED <<host, toDevice>>
      BY <1>4, <3>4
    <3> QED BY <2>2, <3>2, <3>3, <3>4 DEF HostHearsPacketResponse
  <2>3. CASE UNCHANGED <<host, toDevice>>
    BY <1>4, <2>3
  <2> QED BY <1>8, <2>1, <2>2, <2>3 DEF HostHears
<1>9. CASE HostHeaderTimeout \/ HostGivesUp
  BY <1>4, <1>9 DEF HostHeaderTimeout, HostGivesUp, Types
<1>10. CASE HostRetransmits
  BY <1>7, <1>10 DEF HostRetransmits
<1>11. CASE HostStreams
  <2>1. host.upload \in Upload /\ Sizes[host.upload] \in 0..MaxBlocks
    BY <1>11, SizeIs DEF HostStreams, Types
  <2>2. CASE host.next < Sizes[host.upload]
    <3>1. host.next \in 0..(MaxBlocks - 1)
      BY <1>1, <2>1, <2>2, SizeAssumption
    <3>2. /\ toDevice' = Send(toDevice, Data(host.upload, host.next))
          /\ host'.upload = host.upload /\ host'.next = host.next + 1
      BY <1>11, <2>2 DEF HostStreams, SendBlock, Types
    <3> QED BY <1>1, <1>2, <1>5, <2>1, <3>1, <3>2
  <2>3. CASE ~(host.next < Sizes[host.upload])
    BY <1>4, <1>11, <2>3 DEF HostStreams, Types
  <2> QED BY <2>2, <2>3
<1>12. CASE DownloadBegins
  BY <1>1, <1>2, <1>3, <1>12 DEF DownloadBegins
<1> QED BY <1>8, <1>9, <1>10, <1>11, <1>12

LEMMA HostBeginsOrder ==
    ASSUME Types, Order, HostBegins
    PROVE  Order'
<1>1. /\ toDevice = <<>> /\ UNCHANGED <<device, file>>
      /\ host' = [phase |-> "header", upload |-> host.upload + 1, next |-> 0]
      /\ toDevice' = Send(toDevice, Header(host.upload + 1))
  BY DEF HostBegins, Quiet
<1>2. host.upload \in Nat /\ \A i \in 1..Len(file) : file[i].upload \in Nat
  <2>1. \A i \in 1..Len(file) : file[i] \in Block
    BY ElementOfSeq DEF Types
  <2> QED BY <2>1, SMTT(30) DEF Types, Block, Upload
<1>3. Len(toDevice') \in {0, 1} /\ \A k \in 1..Len(toDevice') : toDevice'[k].type = "header"
  BY <1>1 DEF Send, Header
<1>4. \A i \in 1..Len(file) : file[i].upload < host'.upload
  BY <1>1, <1>2 DEF Order
<1>5. \A i \in 1..Len(file) : file[i].upload <= host'.upload /\ file[i].upload # host'.upload
  BY <1>1, <1>2, <1>4
<1>6. \A k \in 1..Len(toDevice') : ~IsData(toDevice'[k])
  BY <1>3 DEF IsData
<1> QED BY <1>1, <1>5, <1>6 DEF Order, BlocksAscend

LEMMA NextOrder == Types /\ Order /\ [Next]_vars => Order'
<1> SUFFICES ASSUME Types, Order, [Next]_vars PROVE Order'
  OBVIOUS
<1>1. CASE CheckTimeout
  BY <1>1, OrderTakes DEF CheckTimeout, Idle, Types
<1>2. CASE LoseToHost \/ UNCHANGED vars
  BY <1>2, OrderTakes DEF LoseToHost, vars
<1>3. CASE LoseToDevice
  BY <1>3, OrderTakes DEF LoseToDevice, Lose
<1>4. CASE Damage
  <2>1. UNCHANGED <<host, file, device>>
    BY <1>4 DEF Damage
  <2>2. /\ Len(toDevice') = Len(toDevice)
        /\ \A k \in 1..Len(toDevice) :
                 /\ toDevice'[k].upload = toDevice[k].upload
                 /\ toDevice'[k].index = toDevice[k].index
                 /\ IsData(toDevice[k]) <=> IsData(toDevice'[k])
    BY <1>4, DamageIs
  <2> QED BY <2>1, <2>2 DEF Order, BlocksAscend
<1> QED BY <1>1, <1>2, <1>3, <1>4, DeviceHearsOrder, HostOrder, HostBeginsOrder DEF Next

-----------------------------------------------------------------------------
(* What the host completes *)

LEMMA BlocksKept ==
    ASSUME NEW s \in Seq(DeviceMessage), NEW n \in Nat, NEW l \in Nat, Blocks(s, n, l)
    PROVE  /\ s # <<>> => Blocks(Tail(s), n, l)
           /\ \A u \in Upload : n \in 0..(MaxBlocks - 1) => Blocks(Send(s, Data(u, n)), n, l)
<1>1. ASSUME s # <<>> PROVE Blocks(Tail(s), n, l)
  <2>1. \A k \in 1..Len(Tail(s)) : k + 1 \in 1..Len(s) /\ Tail(s)[k] = s[k + 1]
    BY <1>1, TailIs
  <2> QED BY <2>1 DEF Blocks
<1>2. ASSUME NEW u \in Upload, n \in 0..(MaxBlocks - 1) PROVE Blocks(Send(s, Data(u, n)), n, l)
  <2> DEFINE m == Data(u, n)  t == Send(s, m)
  <2>1. m \in DeviceMessage /\ IsData(m) /\ m.index = n
    BY <1>2, MessageIs DEF Data, IsData
  <2>2. \A k \in 1..Len(t) : (k \in 1..Len(s) /\ t[k] = s[k]) \/ t[k] = m
    BY <2>1, SendIs
  <2> HIDE DEF m, t
  <2>3. Blocks(t, n, l)
    BY <2>1, <2>2 DEF Blocks
  <2> QED BY <2>3 DEF m, t
<1> QED BY <1>1, <1>2

LEMMA AcksKept ==
    ASSUME NEW s \in Seq(Response), NEW n \in Nat, NEW l \in Nat, Acks(s, n, l)
    PROVE  /\ s # <<>> => Acks(Tail(s), n, l)
           /\ \A m \in Response :
                 /\ IsAck(m, n % PacketNumbers) => l = n + 1
                 /\ m.type = "ack" /\ l = n + 1 => IsAck(m, n % PacketNumbers)
                 => Acks(Send(s, m), n, l)
<1> DEFINE a == n % PacketNumbers
<1>1. ASSUME s # <<>> PROVE Acks(Tail(s), n, l)
  <2> DEFINE t == Tail(s)
  <2>1. \A k \in 1..Len(t) : k + 1 \in 1..Len(s) /\ t[k] = s[k + 1]
    BY <1>1, TailIs
  <2> HIDE DEF t, a
  <2>2. \A k \in 1..Len(t) : IsAck(t[k], a) => l = n + 1
    BY <2>1 DEF Acks, a
  <2>3. ASSUME NEW j \in 1..Len(t), NEW k \in 1..Len(t), j < k, IsAck(t[j], a), t[k].type = "ack"
        PROVE  IsAck(t[k], a)
    <3>1. /\ j + 1 \in 1..Len(s) /\ k + 1 \in 1..Len(s) /\ j + 1 < k + 1
          /\ t[j] = s[j + 1] /\ t[k] = s[k + 1]
      BY <2>1, <2>3
    <3> QED BY <2>3, <3>1 DEF Acks, a
  <2> QED BY <2>2, <2>3 DEF Acks, a, t
<1>2. ASSUME NEW m \in Response, IsAck(m, a) => l = n + 1,
             m.type = "ack" /\ l = n + 1 => IsAck(m, a)
      PROVE  Acks(Send(s, m), n, l)
  <2> DEFINE t == Send(s, m)
  <2>1. /\ Len(s) \in Nat
        /\ \A k \in 1..Len(t) : (k \in 1..Len(s) /\ t[k] = s[k]) \/ (k = Len(s) + 1 /\ t[k] = m)
        /\ Len(t) \in {Len(s), Len(s) + 1}
    BY SendIs, LenProperties
  <2> HIDE DEF t, a
  <2>2. \A k \in 1..Len(t) : IsAck(t[k], a) => l = n + 1
    BY <1>2, <2>1 DEF Acks, a
  <2>3. ASSUME NEW j \in 1..Len(t), NEW k \in 1..Len(t), j < k, IsAck(t[j], a), t[k].type = "ack"
        PROVE  IsAck(t[k], a)
    <3>1. j \in 1..Len(s) /\ t[j] = s[j]
      BY <2>1, <2>3
    <3>2. CASE k \in 1..Len(s) /\ t[k] = s[k]
      BY <2>3, <3>1, <3>2 DEF Acks, a
    <3>3. CASE t[k] = m
      <4>1. l = n + 1
        BY <2>3, <3>1 DEF Acks, a
      <4> QED BY <1>2, <2>3, <3>3, <4>1
    <3> QED BY <2>1, <3>2, <3>3
  <2> QED BY <2>2, <2>3 DEF Acks, a, t
<1> QED BY <1>1, <1>2

\* A block whose number the device expects is the next one of the file.
LEMMA NextBlock ==
    ASSUME Types, Order, Handshake, device.busy, NEW m \in DeviceMessage, IsData(m),
           toDevice # <<>>, m = Head(toDevice)
    PROVE  /\ m.upload = host.upload /\ m.index \in {host.next - 1, host.next}
           /\ device.expected = Len(file) % PacketNumbers
           /\ Len(file) = host.next + 1 =>
                m.index = host.next /\ Number(BlockOf(m)) = host.next % PacketNumbers
                  /\ Number(BlockOf(m)) # device.expected
           /\ Number(BlockOf(m)) = device.expected => Len(file) = host.next /\ m.index = host.next
<1>1. /\ 1 \in 1..Len(toDevice) /\ m = toDevice[1] /\ host.next \in Nat
  BY TailIs DEF Types
<1>2. /\ m.upload = host.upload /\ m.index <= host.next /\ m.index >= host.next - 1
      /\ Len(file) = host.next + 1 => m.index = host.next
  BY <1>1 DEF Order, Handshake, Blocks
<1>3. m.index \in Nat /\ Number(BlockOf(m)) = m.index % PacketNumbers
  BY BlockIs
<1>4. m.index \in {host.next - 1, host.next}
  <2>1. \A a, b \in Nat : a <= b /\ a >= b - 1 => a = b - 1 \/ a = b
    OBVIOUS
  <2> QED BY <1>1, <1>2, <1>3, <2>1
<1>5. \A n \in Nat : (n + 1) % PacketNumbers # n % PacketNumbers
  BY NumberRange, ModNext
<1>6. device.expected = Len(file) % PacketNumbers /\ Len(file) \in {host.next, host.next + 1}
  BY DEF Handshake, Receiving
<1>7. (host.next + 1) % PacketNumbers # host.next % PacketNumbers
  BY <1>1, <1>5
<1>8. ASSUME m.index = host.next - 1
      PROVE  Number(BlockOf(m)) # host.next % PacketNumbers
  <2>1. host.next = m.index + 1
    BY <1>1, <1>3, <1>8
  <2> QED BY <1>3, <1>5, <2>1
<1>9. Len(file) = host.next + 1 =>
         m.index = host.next /\ Number(BlockOf(m)) = host.next % PacketNumbers
           /\ Number(BlockOf(m)) # device.expected
  BY <1>2, <1>3, <1>6, <1>7
<1>10. Number(BlockOf(m)) = device.expected => Len(file) = host.next /\ m.index = host.next
  BY <1>4, <1>6, <1>8, <1>9
<1> QED BY <1>2, <1>4, <1>6, <1>9, <1>10

\* A sending host's blocks arrive.
LEMMA StoresNext ==
    ASSUME Types, Order, Handshake, host.phase = "sending", DeviceHears, device.busy,
           NEW m \in DeviceMessage, m = Head(toDevice), IsData(m),
           Number(BlockOf(m)) = device.expected, StoreBlock(BlockOf(m))
    PROVE  Handshake'
<1> DEFINE b == BlockOf(m)  n == host.next
<1>1. /\ toDevice # <<>> /\ toDevice' = Tail(toDevice) /\ UNCHANGED host
      /\ toDevice \in Seq(DeviceMessage) /\ toHost \in Seq(Response) /\ file \in Seq(Block)
      /\ n \in Nat /\ Len(file) \in Nat
  BY DEF DeviceHears, Types
<1>2. Len(file) = n /\ m.index = n /\ m.upload = host.upload
  BY <1>1, NextBlock
<1>3. /\ b \in Block /\ b.upload = host.upload /\ b.index = n
      /\ Number(b) \in 0..(PacketNumbers - 1) /\ Number(b) = n % PacketNumbers
  BY <1>2, BlockIs
<1> HIDE DEF b
<1>4. /\ Begun /\ device.open /\ device.upload = host.upload /\ device.received = Len(file)
      /\ Blocks(toDevice, n, n) /\ Acks(toHost, n, n)
  BY <1>2 DEF Handshake, Receiving
<1>5. CASE /\ device' = Accepted(b) /\ file' = Append(file, b) /\ Respond("ack", Number(b))
  <2>1. /\ Len(file') = n + 1 /\ file'[n + 1] = b
        /\ \A i \in 1..n : file'[i] = file[i]
    BY <1>1, <1>2, <1>3, <1>5, AppendProperties
  <2>2. Begun'
    <3>1. b = [upload |-> host.upload, index |-> n]
      BY <1>3 DEF Block
    <3>2. ASSUME NEW i \in 1..(n + 1) PROVE file'[i] = [upload |-> host.upload, index |-> i - 1]
      <4>1. CASE i = n + 1
        <5>1. i - 1 = n
          BY <1>1, <4>1
        <5> QED BY <2>1, <3>1, <4>1, <5>1
      <4>2. CASE i \in 1..n
        BY <1>2, <1>4, <2>1, <4>2 DEF Begun
      <4> QED BY <1>1, <4>1, <4>2
    <3> QED BY <1>1, <2>1, <3>2 DEF Begun
  <2>3. Receiving'
    <3>1. /\ device'.busy => device'.open /\ device'.received < Sizes[device.upload]
          /\ device'.upload = device.upload /\ device'.expected = (Number(b) + 1) % PacketNumbers
          /\ device'.received = device.received + 1
      BY <1>3, <1>4, <1>5, AcceptedIs
    <3>2. (Number(b) + 1) % PacketNumbers = (n + 1) % PacketNumbers
      BY <1>1, <1>3, NumberRange, ModNext, Zenon
    <3> QED BY <1>1, <1>2, <1>4, <2>1, <3>1, <3>2 DEF Receiving
  <2>4. Blocks(toDevice', n, n + 1)
    <3>1. \A k \in 1..Len(toDevice') : k + 1 \in 1..Len(toDevice) /\ toDevice'[k] = toDevice[k + 1]
      BY <1>1, TailIs
    <3>2. 1 \in 1..Len(toDevice) /\ m = toDevice[1]
      BY <1>1, TailIs
    <3>3. ASSUME NEW k \in 1..Len(toDevice') PROVE IsData(toDevice'[k]) /\ toDevice'[k].index = n
      <4>1. /\ k + 1 \in 1..Len(toDevice) /\ 1 < k + 1 /\ toDevice'[k] = toDevice[k + 1]
        BY <3>1
      <4>2. IsData(toDevice[k + 1])
        BY <1>4, <4>1 DEF Blocks
      <4>3. toDevice[1].index <= toDevice[k + 1].index /\ toDevice[k + 1].index <= n
        BY <3>2, <4>1, <4>2 DEF Order
      <4>4. toDevice[k + 1].index \in Nat
        <5>1. toDevice[k + 1] \in DeviceMessage
          BY <1>1, <4>1, ElementOfSeq
        <5> QED BY <4>2, <5>1, BlockIs
      <4> QED BY <1>1, <1>2, <3>2, <4>1, <4>2, <4>3, <4>4
    <3> QED BY <1>1, <3>3 DEF Blocks
  <2>5. Acks(toHost', n, n + 1)
    <3> DEFINE r == Reply("ack", Number(b))
    <3>1. r \in Response /\ r.type = "ack" /\ IsAck(r, n % PacketNumbers)
      BY <1>3 DEF Reply, Response, IsAck
    <3>2. Acks(toHost, n, n + 1)
      BY <1>1, <1>4 DEF Acks
    <3> HIDE DEF r
    <3>3. Acks(Send(toHost, r), n, n + 1)
      BY <1>1, <3>1, <3>2, AcksKept
    <3> QED BY <1>5, <3>3 DEF Respond, r
  <2> QED BY <1>1, <2>1, <2>2, <2>3, <2>4, <2>5 DEF Handshake
<1>6. CASE /\ device' = Idle(device) /\ UNCHANGED file /\ Respond("nak", Number(b))
  <2>1. ~device'.busy
    BY <1>6 DEF Idle, Types
  <2>2. Blocks(toDevice', n, Len(file))
    BY <1>1, <1>2, <1>4, BlocksKept
  <2>3. Acks(toHost', n, Len(file))
    <3> DEFINE r == Reply("nak", Number(b))
    <3>1. r \in Response /\ r.type = "nak"
      BY <1>3 DEF Reply, Response
    <3> HIDE DEF r
    <3>2. Acks(Send(toHost, r), n, n)
      BY <1>1, <1>4, <3>1, AcksKept DEF IsAck
    <3> QED BY <1>2, <1>6, <3>2 DEF Respond, r
  <2> QED BY <1>1, <1>2, <1>4, <1>6, <2>1, <2>2, <2>3 DEF Handshake, Begun, Receiving
<1> QED BY <1>4, <1>5, <1>6 DEF StoreBlock, b

\* Whatever else a sending host's device hears leaves the file as it is.
LEMMA DeviceHearsHandshake ==
    ASSUME Types, Order, Handshake, host.phase = "sending", DeviceHears
    PROVE  Handshake'
<1> DEFINE m == Head(toDevice)  b == BlockOf(m)  n == host.next
<1>1. /\ toDevice # <<>> /\ toDevice' = Tail(toDevice) /\ UNCHANGED host
      /\ toDevice \in Seq(DeviceMessage) /\ toHost \in Seq(Response)
      /\ n \in Nat /\ Len(file) \in Nat /\ file \in Seq(Block)
  BY DEF DeviceHears, Types
<1>2. m \in DeviceMessage /\ IsData(m)
  BY <1>1, TailIs DEF Handshake, Blocks
<1>3. Number(b) \in 0..(PacketNumbers - 1) /\ device.expected \in 0..(PacketNumbers - 1)
  BY <1>2, BlockIs DEF Types
<1>4. ASSUME UNCHANGED <<device, file>>, NEW r \in Response, toHost' = Send(toHost, r),
             r.type = "ack" => /\ IsAck(r, n % PacketNumbers) => Len(file) = n + 1
                               /\ Len(file) = n + 1 => IsAck(r, n % PacketNumbers)
      PROVE  Handshake'
  <2>1. Blocks(toDevice', n, Len(file))
    BY <1>1, BlocksKept DEF Handshake
  <2>2. Acks(toHost', n, Len(file))
    BY <1>1, <1>4, AcksKept DEF Handshake, IsAck
  <2> QED BY <1>1, <1>4, <2>1, <2>2 DEF Handshake, Begun, Receiving
<1>5. \A k \in 0..(PacketNumbers - 1) :
        Reply("nak", k) \in Response /\ Reply("nak", k).type = "nak"
  BY DEF Reply, Response
<1>6. CASE m.type = "damaged" /\ HandleDamagedPacket(b)
  <2>1. (IF device.busy THEN Number(b) ELSE 0) \in 0..(PacketNumbers - 1)
    BY <1>3, SizeAssumption
  <2> QED BY <1>4, <1>5, <1>6, <2>1 DEF HandleDamagedPacket, Respond
<1>7. CASE m.type = "data" /\ HandleDataPacket(b)
  <2>1. CASE Respond("nak", 0) /\ UNCHANGED <<device, file>>
    BY <1>4, <1>5, <2>1, SizeAssumption DEF Respond
  <2>2. CASE device.busy /\ Number(b) = device.expected /\ StoreBlock(b)
    BY <1>2, <2>2, StoresNext
  <2>3. CASE /\ device.busy /\ Number(b) # device.expected /\ UNCHANGED <<device, file>>
             /\ Respond("ack", Number(b)) \/ Respond("nak", device.expected)
    <3>1. CASE Respond("nak", device.expected)
      BY <1>3, <1>4, <1>5, <2>3, <3>1 DEF Respond
    <3>2. CASE Respond("ack", Number(b))
      <4> DEFINE r == Reply("ack", Number(b))
      <4>1. r \in Response /\ r.type = "ack" /\ r.number = Number(b)
        BY <1>3 DEF Reply, Response
      <4>2. /\ Len(file) = n + 1 => Number(b) = n % PacketNumbers
            /\ device.expected = Len(file) % PacketNumbers /\ Len(file) \in {n, n + 1}
        BY <1>1, <1>2, <2>3, NextBlock DEF Handshake
      <4>3. IsAck(r, n % PacketNumbers) <=> Number(b) = n % PacketNumbers
        BY <4>1 DEF IsAck
      <4> HIDE DEF r
      <4>4. toHost' = Send(toHost, r)
        BY <3>2 DEF Respond, r
      <4>5. Number(b) = n % PacketNumbers => Len(file) = n + 1
        BY <2>3, <4>2
      <4> QED BY <1>4, <2>3, <4>1, <4>2, <4>3, <4>4, <4>5
    <3> QED BY <2>3, <3>1, <3>2
  <2> QED BY <1>7, <2>1, <2>2, <2>3 DEF HandleDataPacket
<1> QED BY <1>2, <1>6, <1>7 DEF DeviceHears, IsData

\* The device answers the header.
LEMMA DeviceHearsHeader ==
    ASSUME Types, HeaderSent, host.phase = "header", DeviceHears
    PROVE  HeaderSent'
<1> DEFINE u == host.upload
<1>1. /\ toDevice # <<>> /\ toDevice' = Tail(toDevice) /\ UNCHANGED host /\ u \in Upload
      /\ toDevice \in Seq(DeviceMessage) /\ toHost \in Seq(Response)
  BY DEF DeviceHears, Types
<1>2. /\ Head(toDevice) = Header(u)
      /\ Len(toDevice) = 1 /\ Len(toHost) = 0 /\ Len(toDevice') = 0
  <2>1. /\ 1 \in 1..Len(toDevice) /\ Head(toDevice) = toDevice[1] /\ Len(toDevice') = Len(toDevice) - 1
        /\ Len(toDevice) \in Nat /\ Len(toHost) \in Nat
    BY <1>1, TailIs, LenProperties
  <2> QED BY <2>1 DEF HeaderSent
<1>3. HandleDumpHeader(u)
  BY <1>2 DEF DeviceHears, Header
<1>4. PICK r \in Response : /\ toHost' = Send(toHost, r)
                            /\ r.type = "ack" =>
                                 /\ Sizes[u] # 0 /\ file' = <<>>
                                 /\ device' = [busy |-> TRUE, upload |-> u, expected |-> 0,
                                               received |-> 0, open |-> TRUE]
  <2>1. \A t \in {"ack", "nak"} : Reply(t, 0) \in Response /\ Reply(t, 0).type = t
    BY SizeAssumption DEF Reply, Response
  <2>2. CASE Respond("nak", 0)
    BY <2>1, <2>2 DEF Respond
  <2>3. CASE /\ Respond("ack", 0) /\ Sizes[u] # 0 /\ file' = <<>>
             /\ device' = [busy |-> TRUE, upload |-> u, expected |-> 0,
                           received |-> 0, open |-> TRUE]
    BY <2>1, <2>3 DEF Respond
  <2> QED BY <1>3, <2>2, <2>3 DEF HandleDumpHeader
<1>5. Len(toHost') \in {0, 1} /\ \A k \in 1..Len(toHost') : toHost'[k] = r
  <2> DEFINE t == Send(toHost, r)
  <2>1. /\ Len(t) \in {Len(toHost), Len(toHost) + 1}
        /\ \A k \in 1..Len(t) : k \in 1..Len(toHost) \/ t[k] = r
    BY <1>1, <1>4, SendIs
  <2> HIDE DEF t
  <2>2. Len(t) \in {0, 1} /\ \A k \in 1..Len(t) : t[k] = r
    BY <1>2, <2>1
  <2> QED BY <1>4, <2>2 DEF t
<1>6. r.type = "ack" => (file' = <<>> /\ Sizes[u] # 0 /\ Receiving')
  <2>1. Sizes[u] \in 0..MaxBlocks /\ 0 % PacketNumbers = 0
    BY <1>1, SizeIs, SizeAssumption
  <2>2. file' = <<>> => Len(file') = 0
    OBVIOUS
  <2> QED BY <1>1, <1>4, <2>1, <2>2, SizeAssumption DEF Receiving
<1> QED BY <1>1, <1>2, <1>5, <1>6 DEF HeaderSent

\* A block is sent again.
LEMMA ResendsHandshake ==
    ASSUME Types, Handshake, host.phase = "sending", SendBlock(host.next),
           UNCHANGED <<host, device, file>>,
           toHost' = toHost \/ (toHost # <<>> /\ toHost' = Tail(toHost))
    PROVE  Handshake'
<1>1. host.upload \in Upload /\ host.next \in Nat /\ Len(file) \in Nat
      /\ toDevice \in Seq(DeviceMessage) /\ toHost \in Seq(Response)
  BY LenProperties DEF Types
<1>2. host.next \in 0..(MaxBlocks - 1)
  BY <1>1, SizeIs, SizeAssumption DEF Types
<1>3. Blocks(toDevice', host.next, Len(file))
  BY <1>1, <1>2, BlocksKept DEF SendBlock, Handshake
<1>4. Acks(toHost', host.next, Len(file))
  BY <1>1, AcksKept DEF Handshake
<1> QED BY <1>3, <1>4 DEF Handshake, Begun, Receiving

\* The acknowledgement the host waits for: its block is in the file.
LEMMA HostHearsAck ==
    ASSUME Types, Handshake, host.phase = "sending", HostHears,
           Head(toHost) = Reply("ack", host.next % PacketNumbers), SendFrom(host.next + 1)
    PROVE  Host'
<1> DEFINE n == host.next  u == host.upload
<1>1. /\ toHost # <<>> /\ toHost' = Tail(toHost) /\ UNCHANGED <<device, file>> /\ u \in Upload
      /\ toDevice \in Seq(DeviceMessage) /\ toHost \in Seq(Response)
      /\ n \in Nat /\ n < Sizes[u]
  BY DEF HostHears, Types
<1>2. /\ 1 \in 1..Len(toHost) /\ toHost[1] = Reply("ack", n % PacketNumbers)
      /\ \A k \in 1..Len(toHost') : k + 1 \in 1..Len(toHost) /\ toHost'[k] = toHost[k + 1]
  BY <1>1, TailIs
<1>3. IsAck(toHost[1], n % PacketNumbers)
  BY <1>2 DEF IsAck, Reply
<1>4. Len(file) = n + 1 /\ Begun /\ Receiving
  BY <1>2, <1>3 DEF Handshake, Acks
<1>5. \A k \in 1..Len(toDevice) : IsData(toDevice[k]) /\ toDevice[k].index = n
  BY <1>4 DEF Handshake, Blocks
<1>6. CASE n + 1 < Sizes[u]
  <2>1. host' = [host EXCEPT !.phase = "sending", !.next = n + 1] /\ SendBlock(n + 1)
    BY <1>6 DEF SendFrom
  <2>2. host'.phase = "sending" /\ host'.next = n + 1 /\ host'.upload = u
    BY <2>1 DEF Types
  <2>3. Blocks(toDevice', n + 1, n + 1)
    <3>1. n + 1 \in 0..(MaxBlocks - 1)
      BY <1>1, <1>6, SizeIs, SizeAssumption, SMTT(30)
    <3>2. Blocks(toDevice, n + 1, n + 1)
      BY <1>1, <1>5 DEF Blocks
    <3> QED BY <1>1, <2>1, <3>1, <3>2, BlocksKept DEF SendBlock
  <2>4. Acks(toHost', n + 1, n + 1)
    <3>1. (n + 1) % PacketNumbers # n % PacketNumbers
      BY <1>1, NumberRange, ModNext, Zenon
    <3>2. ASSUME NEW k \in 1..Len(toHost') PROVE ~IsAck(toHost'[k], (n + 1) % PacketNumbers)
      <4>1. k + 1 \in 1..Len(toHost) /\ toHost'[k] = toHost[k + 1] /\ 1 < k + 1
        BY <1>2
      <4>2. toHost[k + 1].type = "ack" => IsAck(toHost[k + 1], n % PacketNumbers)
        BY <1>2, <1>3, <4>1 DEF Handshake, Acks
      <4> QED BY <3>1, <4>1, <4>2 DEF IsAck
    <3> QED BY <3>2 DEF Acks
  <2>5. Begun' /\ Receiving'
    BY <1>1, <1>4, <2>2 DEF Begun, Receiving
  <2>6. Handshake'
    BY <1>1, <1>4, <2>2, <2>3, <2>4, <2>5 DEF Handshake
  <2> QED BY <2>2, <2>6 DEF Host
<1>7. CASE ~(n + 1 < Sizes[u])
  <2>1. host' = [host EXCEPT !.phase = "done", !.next = n + 1] /\ UNCHANGED toDevice
    BY <1>7 DEF SendFrom
  <2>2. host'.phase = "done" /\ host'.upload = u
    BY <2>1 DEF Types
  <2>3. Len(file) = Sizes[u]
    BY <1>1, <1>4, <1>7, SizeIs
  <2>4. ~device.busy
    BY <1>1, <1>4, <1>7, SizeIs DEF Receiving
  <2>5. \A k \in 1..Len(toDevice) : toDevice[k].type # "header"
    BY <1>5 DEF IsData
  <2>6. Completed'
    BY <1>1, <1>4, <2>1, <2>2, <2>3, <2>4, <2>5 DEF Completed, Begun
  <2> QED BY <2>2, <2>6 DEF Host
<1> QED BY <1>6, <1>7

LEMMA HostHearsHost ==
    ASSUME Types, Host, HostHears
    PROVE  Host'
<1> DEFINE r == Head(toHost)  u == host.upload
<1>1. /\ toHost # <<>> /\ toHost' = Tail(toHost) /\ UNCHANGED <<device, file>>
      /\ toDevice \in Seq(DeviceMessage) /\ toHost \in Seq(Response) /\ r \in Response
  BY TailIs DEF HostHears, Types
<1>2. CASE host.phase = "header"
  <2>1. /\ Len(toDevice) = 0 /\ Len(toHost') = 0 /\ r = toHost[1] /\ 1 \in 1..Len(toHost)
        /\ u \in Upload
    <3>1. /\ 1 \in 1..Len(toHost) /\ r = toHost[1] /\ Len(toHost') = Len(toHost) - 1
          /\ Len(toDevice) \in Nat /\ Len(toHost) \in Nat
      BY <1>1, TailIs, LenProperties
    <3>2. Len(toDevice) + Len(toHost) <= 1
      BY <1>2 DEF Host, HeaderSent
    <3> QED BY <1>2, <3>1, <3>2 DEF Types
  <2>2. CASE r.type = "ack" /\ SendFrom(0)
    <3>1. file = <<>> /\ Len(file) = 0 /\ Sizes[u] # 0 /\ Receiving
      BY <1>2, <2>1, <2>2 DEF Host, HeaderSent
    <3>2. 0 < Sizes[u] /\ 0 \in 0..(MaxBlocks - 1)
      BY <2>1, <3>1, SizeIs, SizeAssumption
    <3>3. host' = [host EXCEPT !.phase = "sending", !.next = 0] /\ SendBlock(0)
      BY <2>2, <3>2 DEF SendFrom
    <3>4. host'.phase = "sending" /\ host'.next = 0 /\ host'.upload = u
      BY <3>3 DEF Types
    <3>5. Blocks(toDevice', 0, 0)
      <4>1. Blocks(toDevice, 0, 0)
        BY <2>1 DEF Blocks
      <4> QED BY <1>1, <2>1, <3>2, <3>3, <4>1, BlocksKept DEF SendBlock
    <3>6. Acks(toHost', 0, 0)
      BY <2>1 DEF Acks
    <3>7. Handshake'
      BY <1>1, <3>1, <3>4, <3>5, <3>6 DEF Handshake, Begun, Receiving
    <3> QED BY <3>4, <3>7 DEF Host
  <2>3. CASE host' = [host EXCEPT !.phase = "retry"]
    BY <2>3 DEF Host, Types
  <2> QED BY <1>2, <2>2, <2>3 DEF HostHears, HostHearsHeaderResponse
<1>3. CASE host.phase = "retry"
  <2>1. host' = [host EXCEPT !.phase = IF r.type = "ack" THEN "openLoop" ELSE "failed"]
    BY <1>3 DEF HostHears, HostHearsHeaderResponse
  <2>2. host'.phase \in {"openLoop", "failed"}
    BY <2>1 DEF Types
  <2> QED BY <2>2 DEF Host
<1>4. CASE host.phase = "sending"
  <2>1. Handshake
    BY <1>4 DEF Host
  <2>2. CASE r = Reply("ack", host.next % PacketNumbers) /\ SendFrom(host.next + 1)
    BY <1>4, <2>1, <2>2, HostHearsAck
  <2>3. CASE SendBlock(host.next) /\ UNCHANGED host
    BY <1>1, <1>4, <2>1, <2>3, ResendsHandshake DEF Host
  <2>4. CASE UNCHANGED <<host, toDevice>>
    <3>1. Acks(toHost', host.next, Len(file))
      <4>1. host.next \in Nat /\ Len(file) \in Nat
        BY LenProperties DEF Types
      <4> QED BY <1>1, <2>1, <4>1, AcksKept DEF Handshake
    <3> QED BY <1>1, <1>4, <2>1, <2>4, <3>1 DEF Host, Handshake, Begun, Receiving
  <2> QED BY <1>4, <2>2, <2>3, <2>4 DEF HostHears, HostHearsPacketResponse
<1>5. CASE host.phase \notin {"header", "retry", "sending"}
  BY <1>1, <1>5 DEF HostHears, Host, Completed, Begun
<1> QED BY <1>2, <1>3, <1>4, <1>5

\* A message the link drops.
LEMMA LossHost ==
    ASSUME Types, Host, UNCHANGED <<device, file, host>>,
           \/ UNCHANGED toHost /\ toDevice # <<>> /\ toDevice' = Tail(toDevice)
           \/ UNCHANGED toDevice /\ toHost # <<>> /\ toHost' = Tail(toHost)
    PROVE  Host'
<1>1. /\ toDevice \in Seq(DeviceMessage) /\ toHost \in Seq(Response)
      /\ host.next \in Nat /\ Len(file) \in Nat
      /\ Len(toDevice) \in Nat /\ Len(toHost) \in Nat
  BY LenProperties DEF Types
<1>2. /\ toDevice' = toDevice \/ (/\ Len(toDevice') = Len(toDevice) - 1
                                  /\ \A k \in 1..Len(toDevice') :
                                       k + 1 \in 1..Len(toDevice) /\ toDevice'[k] = toDevice[k + 1])
      /\ toHost' = toHost \/ (/\ Len(toHost') = Len(toHost) - 1
                              /\ \A k \in 1..Len(toHost') :
                                   k + 1 \in 1..Len(toHost) /\ toHost'[k] = toHost[k + 1])
  <2>1. CASE UNCHANGED toHost /\ toDevice # <<>> /\ toDevice' = Tail(toDevice)
    BY <1>1, <2>1, TailIs
  <2>2. CASE UNCHANGED toDevice /\ toHost # <<>> /\ toHost' = Tail(toHost)
    BY <1>1, <2>2, TailIs
  <2> QED BY <2>1, <2>2
<1>3. ASSUME HeaderSent PROVE HeaderSent'
  <2>1. Len(toDevice') + Len(toHost') <= 1
    BY <1>1, <1>2, <1>3 DEF HeaderSent
  <2>2. \A k \in 1..Len(toDevice') : toDevice'[k] = Header(host'.upload)
    BY <1>2, <1>3 DEF HeaderSent
  <2>3. \A k \in 1..Len(toHost') : toHost'[k].type = "ack" =>
          file' = <<>> /\ Sizes[host'.upload] # 0 /\ Receiving'
    BY <1>2, <1>3 DEF HeaderSent, Receiving
  <2> QED BY <2>1, <2>2, <2>3 DEF HeaderSent
<1>4. ASSUME Handshake PROVE Handshake'
  <2>1. Blocks(toDevice', host.next, Len(file))
    BY <1>1, <1>4, BlocksKept DEF Handshake
  <2>2. Acks(toHost', host.next, Len(file))
    BY <1>1, <1>4, AcksKept DEF Handshake
  <2> QED BY <1>4, <2>1, <2>2 DEF Handshake, Begun, Receiving
<1>5. ASSUME Completed PROVE Completed'
  BY <1>2, <1>5 DEF Completed, Begun
<1> QED BY <1>3, <1>4, <1>5 DEF Host

LEMMA NextHost == Types /\ Order /\ Host /\ [Next]_vars => Host'
<1> SUFFICES ASSUME Types, Order, Host, [Next]_vars PROVE Host'
  OBVIOUS
<1>1. CASE DeviceHears
  <2>1. UNCHANGED host
    BY <1>1 DEF DeviceHears
  <2>2. CASE host.phase = "header"
    BY <1>1, <2>1, <2>2, DeviceHearsHeader DEF Host
  <2>3. CASE host.phase = "sending"
    BY <1>1, <2>1, <2>3, DeviceHearsHandshake DEF Host
  <2>4. CASE host.phase = "done"
    <3>1. /\ Head(toDevice).type # "header" /\ ~device.busy
          /\ Begun /\ Len(file) = Sizes[host.upload]
          /\ \A k \in 1..Len(toDevice') :
               k + 1 \in 1..Len(toDevice) /\ toDevice'[k] = toDevice[k + 1]
      BY <1>1, <2>4, TailIs DEF DeviceHears, Types, Host, Completed
    <3>2. UNCHANGED <<device, file>>
      BY <1>1, <3>1 DEF DeviceHears, HandleDataPacket, HandleDamagedPacket, HandleCancel
    <3>3. \A k \in 1..Len(toDevice') : toDevice'[k].type # "header"
      BY <2>4, <3>1 DEF Host, Completed
    <3>4. Completed'
      BY <2>1, <3>1, <3>2, <3>3 DEF Completed, Begun
    <3> QED BY <2>1, <2>4, <3>4 DEF Host
  <2> QED BY <2>1, <2>2, <2>3, <2>4 DEF Host
<1>2. CASE CheckTimeout
  <2>1. device.busy /\ ~device'.busy /\ UNCHANGED <<file, host, toHost, toDevice>>
        /\ host.phase # "sending"
    BY <1>2 DEF CheckTimeout, Idle, Types
  <2> QED BY <2>1 DEF Host, HeaderSent, Receiving, Completed
<1>3. CASE HostBegins
  <2>1. /\ toHost' = <<>> /\ toDevice = <<>> /\ host'.phase = "header"
        /\ host'.upload = host.upload + 1 /\ toDevice' = Send(toDevice, Header(host.upload + 1))
    BY <1>3 DEF HostBegins, Quiet
  <2>2. Len(toDevice') \in {0, 1} /\ Len(toHost') = 0
        /\ \A k \in 1..Len(toDevice') : toDevice'[k] = Header(host'.upload)
    BY <2>1 DEF Send
  <2>3. HeaderSent'
    BY <2>2 DEF HeaderSent
  <2> QED BY <2>1, <2>3 DEF Host
<1>4. CASE HostHeaderTimeout
  <2>1. host'.phase = "openLoop"
    BY <1>4 DEF HostHeaderTimeout, Types
  <2> QED BY <2>1 DEF Host
<1>5. CASE HostGivesUp
  <2>1. host'.phase = "failed"
    BY <1>5 DEF HostGivesUp, Types
  <2> QED BY <2>1 DEF Host
<1>6. CASE HostRetransmits
  <2>1. host.phase = "sending" /\ Handshake'
    BY <1>6, ResendsHandshake DEF HostRetransmits, Host
  <2> QED BY <1>6, <2>1 DEF HostRetransmits, Host
<1>7. CASE HostStreams
  <2>1. host'.phase \in {"openLoop", "streamed"}
    BY <1>7 DEF HostStreams, Types
  <2> QED BY <2>1 DEF Host
<1>8. CASE DownloadBegins
  <2>1. /\ UNCHANGED <<device, file, host>> /\ toDevice' = Send(toDevice, Cancel)
        /\ host.phase \notin Active
    BY <1>8 DEF DownloadBegins
  <2>2. \A k \in 1..Len(toDevice') : toDevice'[k] = Cancel \/
           (k \in 1..Len(toDevice) /\ toDevice'[k] = toDevice[k])
    BY <2>1, MessageIs, SendIs DEF Types
  <2> QED BY <2>1, <2>2 DEF Host, Completed, Begun, Active, Cancel
<1>9. CASE LoseToHost \/ LoseToDevice
  BY <1>9, LossHost DEF LoseToHost, LoseToDevice, Lose
<1>10. CASE Damage
  <2>1. /\ UNCHANGED <<device, file, host, toHost>> /\ toDevice \in Seq(DeviceMessage)
        /\ toDevice # <<>> /\ Head(toDevice).type = "data"
    BY <1>10 DEF Damage, Types
  <2>2. Head(toDevice) = toDevice[1] /\ 1 \in 1..Len(toDevice)
    BY <2>1, TailIs
  <2>3. /\ Len(toDevice') = Len(toDevice)
        /\ \A k \in 1..Len(toDevice) :
             /\ toDevice'[k].index = toDevice[k].index
             /\ toDevice[k].type # "header" => toDevice'[k].type # "header"
             /\ IsData(toDevice[k]) <=> IsData(toDevice'[k])
    BY <1>10, DamageIs
  <2>4. CASE host.phase = "header"
    BY <2>1, <2>2, <2>4 DEF Host, HeaderSent, Header
  <2>5. CASE host.phase = "sending"
    <3>1. Blocks(toDevice', host.next, Len(file))
      BY <2>3, <2>5 DEF Host, Handshake, Blocks
    <3> QED BY <2>1, <2>5, <3>1 DEF Host, Handshake, Begun, Receiving
  <2>6. CASE host.phase = "done"
    BY <2>1, <2>3, <2>6 DEF Host, Completed, Begun
  <2> QED BY <2>1, <2>4, <2>5, <2>6 DEF Host
<1>11. CASE UNCHANGED vars
  BY <1>11 DEF vars, Host, HeaderSent, Handshake, Completed, Begun, Receiving
<1> QED BY <1>1, <1>2, <1>3, <1>4, <1>5, <1>6, <1>7, <1>8, <1>9, <1>10, <1>11, HostHearsHost
    DEF Next

-----------------------------------------------------------------------------
(* Theorems *)

LEMMA Initially == Init => Types /\ Order /\ Host
<1>1. Init => Order
  BY DEF Init, Order, BlocksAscend
<1>2. Init => Host
  BY DEF Init, Host
<1> QED BY <1>1, <1>2, InitTypes

LEMMA Invariant == Spec => [](Types /\ Order /\ Host)
<1>1. Types /\ Order /\ Host /\ [Next]_vars => (Types /\ Order /\ Host)'
  BY NextTypes, NextOrder, NextHost
<1> QED BY <1>1, Initially, PTL DEF Spec

\* The protocol's state, the host's and the link's stay in their types, and a
\* packet number in its width, whatever is sent, lost, damaged or refused.
THEOREM UploadTypeCorrect == Spec => []TypeOK
<1>1. Types => TypeOK
  <2> SUFFICES ASSUME Types PROVE TypeOK
    OBVIOUS
  <2>1. DeviceMessage \subseteq [type : {"header", "data", "damaged", "cancel"},
                                 upload : 0..Len(Sizes), index : 0..MaxBlocks]
    <3> SUFFICES ASSUME NEW m \in DeviceMessage
                 PROVE  m \in [type : {"header", "data", "damaged", "cancel"},
                               upload : 0..Len(Sizes), index : 0..MaxBlocks]
      OBVIOUS
    <3>1. Upload \subseteq 0..Len(Sizes) /\ 0 \in 0..Len(Sizes) /\ 0 \in 0..MaxBlocks
          /\ 0..(MaxBlocks - 1) \subseteq 0..MaxBlocks
      BY SizeAssumption, LenProperties DEF Upload
    <3>2. CASE m \in [type : {"header"}, upload : Upload, index : {0}]
      BY <3>1, <3>2
    <3>3. CASE m \in [type : {"data", "damaged"}, upload : Upload, index : 0..(MaxBlocks - 1)]
      BY <3>1, <3>3
    <3>4. CASE m = Cancel
      BY <3>1, <3>4 DEF Cancel
    <3> QED BY <3>2, <3>3, <3>4 DEF DeviceMessage
  <2>2. toDevice \in Seq([type : {"header", "data", "damaged", "cancel"},
                          upload : 0..Len(Sizes), index : 0..MaxBlocks])
    <3>1. toDevice \in Seq(DeviceMessage)
      BY DEF Types
    <3> QED BY <2>1, <3>1, SeqMonotonic, Zenon
  <2> QED BY <2>2 DEF Types, TypeOK, Response
<1> QED BY <1>1, Invariant, PTL

\* What a host completes with the acknowledgements of Protocol is in the slot,
\* every block once and in order, whatever the link lost or damaged and
\* whatever upload it interrupted; and what is stored of any other upload is
\* in order, without a block twice.
THEOREM UploadsIntact == Spec => []UploadIntact
<1>1. Types /\ Order /\ Host => UploadIntact
  <2> SUFFICES ASSUME Types, Order, Host, host.phase = "done" PROVE file = Whole(host.upload)
    BY DEF UploadIntact, Order
  <2> DEFINE w == Whole(host.upload)
  <2>1. Begun /\ Len(file) = Sizes[host.upload] /\ file \in Seq(Block)
    BY DEF Host, Completed, Types
  <2>2. file = [i \in 1..Len(file) |-> file[i]]
    BY <2>1
  <2>3. file = [i \in 1..Len(file) |-> [upload |-> host.upload, index |-> i - 1]]
    BY <2>1, <2>2 DEF Begun
  <2> QED BY <2>1, <2>3 DEF Whole
<1> QED BY <1>1, Invariant, PTL

\* A handshaking host never moves past a block that is not in the file, and
\* the blocks before it are this upload's, in order.
THEOREM HostNeverAhead == Spec => []NeverAhead
<1>1. Types /\ Host => NeverAhead
  <2> SUFFICES ASSUME Types, Host, host.phase = "sending",
                      NEW i \in 1..host.next
               PROVE  Len(file) >= host.next /\ file[i] = Whole(host.upload)[i]
    <3>1. host.phase = "sending" /\ Types /\ Host => Len(file) >= host.next
      BY LenProperties DEF Types, Host, Handshake
    <3> QED BY <3>1 DEF NeverAhead
  <2>1. Begun /\ Len(file) \in {host.next, host.next + 1} /\ host.next \in Nat
        /\ host.next < Sizes[host.upload] /\ Sizes[host.upload] \in 0..MaxBlocks
    BY SizeIs DEF Types, Host, Handshake
  <2>2. i \in 1..Len(file) /\ i \in 1..Sizes[host.upload] /\ Len(file) >= host.next
    BY <2>1
  <2> QED BY <2>1, <2>2 DEF Begun, Whole
<1> QED BY <1>1, Invariant, PTL

-----------------------------------------------------------------------------
(* The bytes: numbers *)

\* The bytes of a sample are the sample's, signed or not.
IsSample(s) == s \in Int /\ -32768 <= s /\ s <= 32767

LEMMA SampleIs ==
    ASSUME NEW low \in 0..255, NEW high \in 0..255
    PROVE  IsSample(Sample(low, high)) /\ SampleBytes(Sample(low, high)) = <<low, high>>
<1>1. low \in Nat /\ low <= 255 /\ high \in Nat /\ high <= 255
  OBVIOUS
<1> DEFINE u == low + 256 * high
<1>2. CASE u < 32768
  <2>1. u \in Int /\ -32768 <= u /\ u <= 32767
    BY <1>1, <1>2, SMT
  <2>2. u % 256 = low /\ (u \div 256) % 256 = high
    BY <1>1, <1>2, SMT
  <2>3. Sample(low, high) = u
    BY <1>2, SMT DEF Sample
  <2> HIDE DEF u
  <2> QED BY <2>1, <2>2, <2>3 DEF SampleBytes, IsSample
<1>3. CASE ~(u < 32768)
  <2> DEFINE s == u - 65536
  <2>1. s \in Int /\ -32768 <= s /\ s <= 32767
    BY <1>1, <1>3, SMT
  <2>2. s % 256 = low /\ (s \div 256) % 256 = high
    BY <1>1, SMT
  <2>3. Sample(low, high) = s
    BY <1>3, SMT DEF Sample
  <2> HIDE DEF s
  <2> QED BY <2>1, <2>2, <2>3 DEF SampleBytes, IsSample
<1> QED BY <1>2, <1>3

\* What packing takes apart.
LEMMA SampleParts ==
    ASSUME NEW h \in Nat, NEW k \in Nat, NEW l \in Nat, h < 128, k < 128, l < 4
    PROVE  LET u == 512 * h + 4 * k + l
           IN /\ (u \div 512) % 128 = h /\ (u \div 4) % 128 = k /\ (u * 32) % 128 = 32 * l
              /\ u % 65536 = u
              /\ h * 512 + k * 4 + ((32 * l) \div 32) = u
<1>1. ((512 * h + 4 * k + l) \div 512) = h /\ h % 128 = h
  BY SMT
<1>2. ((512 * h + 4 * k + l) \div 4) % 128 = k
  BY SMT
<1>3. ((512 * h + 4 * k + l) * 32) % 128 = 32 * l
  BY SMT
<1>4. (512 * h + 4 * k + l) % 65536 = 512 * h + 4 * k + l
  BY SMT
<1>5. h * 512 + k * 4 + ((32 * l) \div 32) = 512 * h + 4 * k + l
  BY SMT
<1> QED BY <1>1, <1>2, <1>3, <1>4, <1>5

\* Both sides pack alike, and unpack what was packed.
LEMMA PackedIs ==
    ASSUME NEW s, IsSample(s)
    PROVE  /\ unpack_16bit_sample(pack16BitSample(s)) = s
           /\ unpack16BitSample(pack_16bit_sample(s)) = s
<1> DEFINE u == s + 32768  h == u \div 512  n == u % 512  k == n \div 4  l == n % 4
<1>1. u \in Nat /\ u <= 65535 /\ s = u - 32768 /\ s \in Int
  BY SMT DEF IsSample
<1> HIDE DEF u
<1>2. h \in Nat /\ h < 128 /\ n \in Nat /\ n < 512 /\ u = 512 * h + n
  BY <1>1, SMT
<1> HIDE DEF h, n
<1>3. k \in Nat /\ k < 128 /\ l \in Nat /\ l < 4 /\ n = 4 * k + l
  BY <1>2, SMT
<1> HIDE DEF k, l
<1>4. u = 512 * h + 4 * k + l
  BY <1>2, <1>3, SMT
<1>5. /\ (u \div 512) % 128 = h /\ (u \div 4) % 128 = k /\ (u * 32) % 128 = 32 * l
      /\ u % 65536 = u /\ h * 512 + k * 4 + ((32 * l) \div 32) = u
  BY <1>2, <1>3, <1>4, SampleParts
<1>6. 2^15 = 32768 /\ 2^16 = 65536 /\ 2^9 = 512
  BY SMT
<1> DEFINE packed == <<h, k, 32 * l>>
<1>7. s + 2^15 = u
  BY <1>6 DEF u
<1> DEFINE first == (u \div 512) % 128  second == (u \div 4) % 128  third == (u * 32) % 128
<1>8. first = h /\ second = k /\ third = 32 * l
  BY <1>5
<1>9. pack16BitSample(s) = <<first, second, third>>
  BY <1>7, SMT DEF pack16BitSample
<1>10. pack_16bit_sample(s) = LET w == u % 65536
                              IN <<(w \div 512) % 128, (w \div 4) % 128, (w * 32) % 128>>
  BY <1>7, SMT DEF pack_16bit_sample
<1>11. u % 65536 = u
  BY <1>5
<1>12. pack_16bit_sample(s) = <<first, second, third>>
  BY <1>10, <1>11, SMT
<1> HIDE DEF first, second, third
<1>13. pack16BitSample(s) = packed /\ pack_16bit_sample(s) = packed
  BY <1>8, <1>9, <1>12
<1>14. packed[1] = h /\ packed[2] = k /\ packed[3] = 32 * l
  OBVIOUS
<1> HIDE DEF packed
<1> DEFINE sum == packed[1] * 512 + packed[2] * 4 + (packed[3] \div 32)
<1>15. sum = u
  BY <1>5, <1>14
<1>16. packed[1] \in Nat /\ packed[2] \in Nat /\ packed[3] \in Nat
  BY <1>2, <1>3, <1>14
<1>18. unpack16BitSample(packed) = sum - 32768
  BY <1>16, SMT DEF unpack16BitSample
<1>19. unpack_16bit_sample(packed) = (sum % 65536) - 32768
  BY <1>16, SMT DEF unpack_16bit_sample
<1> HIDE DEF sum
<1>17. unpack16BitSample(packed) = s /\ unpack_16bit_sample(packed) = s
  BY <1>1, <1>11, <1>15, <1>18, <1>19
<1> QED BY <1>13, <1>17

\* Three groups of seven bits.
LEMMA SevenBitParts ==
    ASSUME NEW a \in Nat, NEW b \in Nat, NEW c \in Nat, a < 128, b < 128, c < 128
    PROVE  LET n == 16384 * c + 128 * b + a
           IN n % 128 = a /\ (n \div 128) % 128 = b /\ (n \div 16384) % 128 = c
<1>1. (16384 * c + 128 * b + a) % 128 = a
  BY SMT
<1>2. ((16384 * c + 128 * b + a) \div 128) % 128 = b
  BY SMT
<1>3. (16384 * c + 128 * b + a) \div 16384 = c /\ c % 128 = c
  BY SMT
<1> QED BY <1>1, <1>2, <1>3

LEMMA SevenBitsOf ==
    ASSUME NEW n \in Nat, n < 2097152, NEW r, NEW a, NEW b, NEW c,
           a = n % 128, r = n \div 128, b = r % 128, c = r \div 128
    PROVE  /\ a \in Nat /\ b \in Nat /\ c \in Nat /\ a < 128 /\ b < 128 /\ c < 128
           /\ n = 16384 * c + 128 * b + a
<1>1. a \in Nat /\ a < 128 /\ r \in Nat /\ r < 16384 /\ n = 128 * r + a
  BY SMT
<1>2. b \in Nat /\ b < 128 /\ c \in Nat /\ c < 128 /\ r = 128 * c + b
  BY <1>1, SMT
<1> QED BY <1>1, <1>2, SMT

\* A length in three groups of seven bits.
In21Bits(n) == n \in Nat /\ n < 2097152

LEMMA LengthIs ==
    ASSUME NEW n, In21Bits(n)
    PROVE  parse_21bit(encode_21bit(n)) = n
<1> DEFINE r == n \div 128  a == n % 128  b == r % 128  c == r \div 128
<1>1. /\ a \in Nat /\ b \in Nat /\ c \in Nat /\ a < 128 /\ b < 128 /\ c < 128
      /\ n = 16384 * c + 128 * b + a
  BY SevenBitsOf, SMT DEF In21Bits
<1> HIDE DEF a, b, c
<1>2. n % 128 = a /\ (n \div 128) % 128 = b /\ (n \div 16384) % 128 = c
  BY <1>1, SevenBitParts, SMT
<1>3. 128^0 = 1 /\ 128^1 = 128 /\ 128^2 = 16384 /\ n \div 1 = n
  BY SMT DEF In21Bits
<1>4. /\ encode_21bit(n)[0] = (n \div (128^0)) % 128
      /\ encode_21bit(n)[1] = (n \div (128^1)) % 128
      /\ encode_21bit(n)[2] = (n \div (128^2)) % 128
  BY DEF encode_21bit
<1>5. encode_21bit(n)[0] = a /\ encode_21bit(n)[1] = b /\ encode_21bit(n)[2] = c
  BY <1>2, <1>3, <1>4
<1>6. a + 128 * b + 16384 * c = n
  BY <1>1, SMT DEF In21Bits
<1> QED BY <1>3, <1>5, <1>6 DEF parse_21bit

\* Two bytes in a value, in three groups of seven bits.
ValueOf(v, low, high) ==
    /\ v \in Nat
    /\ (((v \div 16384) % 128) * 16384 + ((v \div 128) % 128) * 128 + (v % 128)) % 65536 = v
    /\ v % 256 = low /\ v \div 256 = high

LEMMA ValueIs ==
    ASSUME NEW low \in 0..255, NEW high \in 0..255
    PROVE  ValueOf(low + 256 * high, low, high)
<1> DEFINE v == low + 256 * high
<1>1. low \in Nat /\ low <= 255 /\ high \in Nat /\ high <= 255
  OBVIOUS
<1>2. v \in Nat /\ v < 65536 /\ v < 2097152 /\ v % 256 = low /\ v \div 256 = high
  BY <1>1, SMT
<1> HIDE DEF v
<1> DEFINE r == v \div 128  a == v % 128  b == r % 128  c == r \div 128
<1>3. /\ a \in Nat /\ b \in Nat /\ c \in Nat /\ a < 128 /\ b < 128 /\ c < 128
      /\ v = 16384 * c + 128 * b + a
  BY <1>2, SevenBitsOf, SMT
<1> HIDE DEF a, b, c
<1>4. v % 128 = a /\ (v \div 128) % 128 = b /\ (v \div 16384) % 128 = c
  BY <1>3, SevenBitParts, SMT
<1>5. (c * 16384 + b * 128 + a) % 65536 = v
  BY <1>2, <1>3, SMT
<1> DEFINE high7 == (v \div 16384) % 128  mid7 == (v \div 128) % 128  low7 == v % 128
<1>6. high7 = c /\ mid7 = b /\ low7 = a
  BY <1>4
<1> HIDE DEF high7, mid7, low7
<1>7. (high7 * 16384 + mid7 * 128 + low7) % 65536 = v
  BY <1>5, <1>6
<1> QED BY <1>2, <1>7 DEF high7, mid7, low7, v, ValueOf

\* A byte and its eighth bit.
LEMMA ByteIs ==
    ASSUME NEW x \in 0..255
    PROVE  /\ x \div 128 \in Nat /\ x \div 128 < 2 /\ (x % 128) + 128 * (x \div 128) = x
           /\ (x \div 128) % 2 = x \div 128
<1>1. x \in Nat /\ x <= 255
  OBVIOUS
<1> QED BY <1>1, SMT

\* A bit with what is below and above it.
LEMMA BitIs ==
    ASSUME NEW b \in Nat, b < 2, NEW q \in Nat, NEW r \in Nat
    PROVE  /\ (b + 2 * q) % 2 = b
           /\ r < 2 => ((r + 2 * b + 4 * q) \div 2) % 2 = b
           /\ r < 4 => ((r + 4 * b + 8 * q) \div 4) % 2 = b
           /\ r < 8 => ((r + 8 * b + 16 * q) \div 8) % 2 = b
           /\ r < 16 => ((r + 16 * b + 32 * q) \div 16) % 2 = b
           /\ r < 32 => ((r + 32 * b + 64 * q) \div 32) % 2 = b
           /\ r < 64 => ((r + 64 * b + 128 * q) \div 64) % 2 = b
<1>1. (b + 2 * q) % 2 = b
  BY SMT
<1>2. r < 2 => (r + 2 * b + 4 * q) \div 2 = b + 2 * q
  BY SMT
<1>3. r < 4 => (r + 4 * b + 8 * q) \div 4 = b + 2 * q
  BY SMT
<1>4. r < 8 => (r + 8 * b + 16 * q) \div 8 = b + 2 * q
  BY SMT
<1>5. r < 16 => (r + 16 * b + 32 * q) \div 16 = b + 2 * q
  BY SMT
<1>6. r < 32 => (r + 32 * b + 64 * q) \div 32 = b + 2 * q
  BY SMT
<1>7. r < 64 => (r + 64 * b + 128 * q) \div 64 = b + 2 * q
  BY SMT
<1> QED BY <1>1, <1>2, <1>3, <1>4, <1>5, <1>6, <1>7

\* The eighth bits of up to seven bytes can be told apart in their byte.
Bits(b1, b2, b3, b4, b5, b6, b7) == b1 + b2 * 2 + b3 * 4 + b4 * 8 + b5 * 16 + b6 * 32 + b7 * 64

Apart(v, b1, b2, b3, b4, b5, b6, b7) ==
    /\ (v \div 1) % 2 = b1 /\ (v \div 2) % 2 = b2 /\ (v \div 4) % 2 = b3 /\ (v \div 8) % 2 = b4
    /\ (v \div 16) % 2 = b5 /\ (v \div 32) % 2 = b6 /\ (v \div 64) % 2 = b7

LEMMA BitsAre ==
    ASSUME NEW b1 \in Nat, NEW b2 \in Nat, NEW b3 \in Nat, NEW b4 \in Nat, NEW b5 \in Nat,
           NEW b6 \in Nat, NEW b7 \in Nat,
           b1 < 2, b2 < 2, b3 < 2, b4 < 2, b5 < 2, b6 < 2, b7 < 2
    PROVE  Apart(Bits(b1, b2, b3, b4, b5, b6, b7), b1, b2, b3, b4, b5, b6, b7)
<1> SUFFICES ASSUME NEW v, v = b1 + b2 * 2 + b3 * 4 + b4 * 8 + b5 * 16 + b6 * 32 + b7 * 64
             PROVE  /\ (v \div 1) % 2 = b1 /\ (v \div 2) % 2 = b2 /\ (v \div 4) % 2 = b3
                    /\ (v \div 8) % 2 = b4 /\ (v \div 16) % 2 = b5 /\ (v \div 32) % 2 = b6
                    /\ (v \div 64) % 2 = b7
  BY DEF Bits, Apart
<1>1. /\ v \div 1 = v /\ v = b1 + 2 * (b2 + 2 * b3 + 4 * b4 + 8 * b5 + 16 * b6 + 32 * b7)
      /\ b2 + 2 * b3 + 4 * b4 + 8 * b5 + 16 * b6 + 32 * b7 \in Nat
  BY SMT
<1>2. /\ v = b1 + 2 * b2 + 4 * (b3 + 2 * b4 + 4 * b5 + 8 * b6 + 16 * b7)
      /\ b3 + 2 * b4 + 4 * b5 + 8 * b6 + 16 * b7 \in Nat
  BY SMT
<1>3. /\ v = (b1 + 2 * b2) + 4 * b3 + 8 * (b4 + 2 * b5 + 4 * b6 + 8 * b7)
      /\ b4 + 2 * b5 + 4 * b6 + 8 * b7 \in Nat /\ b1 + 2 * b2 \in Nat /\ b1 + 2 * b2 < 4
  BY SMT
<1>4. /\ v = (b1 + 2 * b2 + 4 * b3) + 8 * b4 + 16 * (b5 + 2 * b6 + 4 * b7)
      /\ b5 + 2 * b6 + 4 * b7 \in Nat /\ b1 + 2 * b2 + 4 * b3 \in Nat /\ b1 + 2 * b2 + 4 * b3 < 8
  BY SMT
<1>5. /\ v = (b1 + 2 * b2 + 4 * b3 + 8 * b4) + 16 * b5 + 32 * (b6 + 2 * b7)
      /\ b6 + 2 * b7 \in Nat
      /\ b1 + 2 * b2 + 4 * b3 + 8 * b4 \in Nat /\ b1 + 2 * b2 + 4 * b3 + 8 * b4 < 16
  BY SMT
<1>6. /\ v = (b1 + 2 * b2 + 4 * b3 + 8 * b4 + 16 * b5) + 32 * b6 + 64 * b7
      /\ b1 + 2 * b2 + 4 * b3 + 8 * b4 + 16 * b5 \in Nat
      /\ b1 + 2 * b2 + 4 * b3 + 8 * b4 + 16 * b5 < 32
  BY SMT
<1>7. /\ v = (b1 + 2 * b2 + 4 * b3 + 8 * b4 + 16 * b5 + 32 * b6) + 64 * b7 + 128 * 0
      /\ b1 + 2 * b2 + 4 * b3 + 8 * b4 + 16 * b5 + 32 * b6 \in Nat
      /\ b1 + 2 * b2 + 4 * b3 + 8 * b4 + 16 * b5 + 32 * b6 < 64
  BY SMT
<1>8. (v \div 1) % 2 = b1
  BY <1>1, BitIs
<1>9. (v \div 2) % 2 = b2
  BY <1>2, BitIs
<1>10. (v \div 4) % 2 = b3
  BY <1>3, BitIs
<1>11. (v \div 8) % 2 = b4
  BY <1>4, BitIs
<1>12. (v \div 16) % 2 = b5
  BY <1>5, BitIs
<1>13. (v \div 32) % 2 = b6
  BY <1>6, BitIs
<1>14. (v \div 64) % 2 = b7
  BY <1>7, BitIs
<1> QED BY <1>8, <1>9, <1>10, <1>11, <1>12, <1>13, <1>14

\* The powers of two of a group.
LEMMA Powers ==
    /\ \A n \in Int : n = 0 => 2^n = 1
    /\ \A n \in Int : n = 1 => 2^n = 2
    /\ \A n \in Int : n = 2 => 2^n = 4
    /\ \A n \in Int : n = 3 => 2^n = 8
    /\ \A n \in Int : n = 4 => 2^n = 16
    /\ \A n \in Int : n = 5 => 2^n = 32
    /\ \A n \in Int : n = 6 => 2^n = 64
<1>1. \A n \in Int : n = 0 => 2^n = 1
  BY SMT
<1>2. \A n \in Int : n = 1 => 2^n = 2
  BY SMT
<1>3. \A n \in Int : n = 2 => 2^n = 4
  BY SMT
<1>4. \A n \in Int : n = 3 => 2^n = 8
  BY SMT
<1>5. \A n \in Int : n = 4 => 2^n = 16
  BY SMT
<1>6. \A n \in Int : n = 5 => 2^n = 32
  BY SMT
<1>7. \A n \in Int : n = 6 => 2^n = 64
  BY SMT
<1> QED BY <1>1, <1>2, <1>3, <1>4, <1>5, <1>6, <1>7
-----------------------------------------------------------------------------
(* The bytes: packets *)

\* The eighth bits of a group, each in a bit of its own.
LEMMA EighthBitsAre ==
    ASSUME NEW s \in Seq(0..255), Len(s) = GroupSize
    PROVE  /\ EighthBits(s) \in Nat
           /\ \A p \in 0..GroupSize - 1 : (EighthBits(s) \div (2^p)) % 2 = s[p + 1] \div 128
<1> DEFINE bit(i) == IF i <= GroupSize THEN s[i] \div 128 ELSE 0
           b1 == bit(1)  b2 == bit(2)  b3 == bit(3)  b4 == bit(4)  b5 == bit(5)  b6 == bit(6)
           b7 == bit(7)
           T(n) == (IF n >= 1 THEN b1 ELSE 0) + (IF n >= 2 THEN b2 * 2 ELSE 0)
                   + (IF n >= 3 THEN b3 * 4 ELSE 0) + (IF n >= 4 THEN b4 * 8 ELSE 0)
                   + (IF n >= 5 THEN b5 * 16 ELSE 0) + (IF n >= 6 THEN b6 * 32 ELSE 0)
                   + (IF n >= 7 THEN b7 * 64 ELSE 0)
           g == [n \in 0..GroupSize |-> T(n)]
           G == CHOOSE f : f = [n \in 0..GroupSize |->
                                  IF n = 0 THEN 0 ELSE f[n - 1] + (s[n] \div 128) * 2^(n - 1)]
<1>1. GroupSize \in 1..7
  BY ChunkAssumption
<1>2. \A i \in 1..7 : bit(i) \in Nat /\ bit(i) < 2 /\ (i <= GroupSize => bit(i) = s[i] \div 128)
  <2>1. ASSUME NEW i \in 1..7 PROVE bit(i) \in Nat /\ bit(i) < 2
    <3>1. CASE i <= GroupSize
      <4>1. i \in 1..Len(s)
        BY <1>1, <3>1
      <4>2. s[i] \in 0..255
        BY <4>1, ElementOfSeq
      <4>4. s[i] \div 128 \in Nat /\ s[i] \div 128 < 2
        BY <4>2, ByteIs
      <4> QED BY <3>1, <4>4
    <3>2. CASE ~(i <= GroupSize)
      BY <3>2
    <3> QED BY <3>1, <3>2
  <2> QED BY <2>1
<1> HIDE DEF bit
<1>3. /\ b1 \in Nat /\ b2 \in Nat /\ b3 \in Nat /\ b4 \in Nat /\ b5 \in Nat /\ b6 \in Nat /\ b7 \in Nat
      /\ b1 < 2 /\ b2 < 2 /\ b3 < 2 /\ b4 < 2 /\ b5 < 2 /\ b6 < 2 /\ b7 < 2
  BY <1>2
<1> HIDE DEF b1, b2, b3, b4, b5, b6, b7
<1>4. /\ 2^(1 - 1) = 1 /\ 2^(2 - 1) = 2 /\ 2^(3 - 1) = 4 /\ 2^(4 - 1) = 8 /\ 2^(5 - 1) = 16
      /\ 2^(6 - 1) = 32 /\ 2^(7 - 1) = 64
  BY Powers
<1>5. ASSUME NEW n \in 1..GroupSize PROVE T(n) = T(n - 1) + (s[n] \div 128) * 2^(n - 1)
  <2>1. n \in 1..7 /\ s[n] \div 128 = bit(n)
    BY <1>1, <1>2
  <2>2. bit(n) * 2^(n - 1) = (s[n] \div 128) * 2^(n - 1)
    BY <2>1
  <2>3. CASE n = 1
    <3>1. bit(n) * 2^(n - 1) = b1
      BY <1>3, <1>4, <2>3 DEF b1
    <3>2. T(1) = b1 /\ T(0) = 0
      BY <1>3
    <3> QED BY <1>3, <2>2, <2>3, <3>1, <3>2
  <2>4. CASE n = 2
    <3>1. bit(n) * 2^(n - 1) = b2 * 2
      BY <1>3, <1>4, <2>4 DEF b2
    <3>2. T(2) = T(1) + b2 * 2
      BY <1>3
    <3> QED BY <2>2, <2>4, <3>1, <3>2
  <2>5. CASE n = 3
    <3>1. bit(n) * 2^(n - 1) = b3 * 4
      BY <1>3, <1>4, <2>5 DEF b3
    <3>2. T(3) = T(2) + b3 * 4
      BY <1>3
    <3> QED BY <2>2, <2>5, <3>1, <3>2
  <2>6. CASE n = 4
    <3>1. bit(n) * 2^(n - 1) = b4 * 8
      BY <1>3, <1>4, <2>6 DEF b4
    <3>2. T(4) = T(3) + b4 * 8
      BY <1>3
    <3> QED BY <2>2, <2>6, <3>1, <3>2
  <2>7. CASE n = 5
    <3>1. bit(n) * 2^(n - 1) = b5 * 16
      BY <1>3, <1>4, <2>7 DEF b5
    <3>2. T(5) = T(4) + b5 * 16
      BY <1>3
    <3> QED BY <2>2, <2>7, <3>1, <3>2
  <2>8. CASE n = 6
    <3>1. bit(n) * 2^(n - 1) = b6 * 32
      BY <1>3, <1>4, <2>8 DEF b6
    <3>2. T(6) = T(5) + b6 * 32
      BY <1>3
    <3> QED BY <2>2, <2>8, <3>1, <3>2
  <2>9. CASE n = 7
    <3>1. bit(n) * 2^(n - 1) = b7 * 64
      BY <1>3, <1>4, <2>9 DEF b7
    <3>2. T(7) = T(6) + b7 * 64
      BY <1>3
    <3> QED BY <2>2, <2>9, <3>1, <3>2
  <2> QED BY <2>1, <2>3, <2>4, <2>5, <2>6, <2>7, <2>8, <2>9
<1>6. T(0) = 0
  BY <1>3
<1>7. T(GroupSize) = b1 + b2 * 2 + b3 * 4 + b4 * 8 + b5 * 16 + b6 * 32 + b7 * 64
  <2>1. \A i \in 1..7 : i > GroupSize => bit(i) = 0
    BY <1>1, <1>2 DEF bit
  <2>3. /\ (2 > GroupSize => b2 = 0) /\ (3 > GroupSize => b3 = 0) /\ (4 > GroupSize => b4 = 0)
        /\ (5 > GroupSize => b5 = 0) /\ (6 > GroupSize => b6 = 0) /\ (7 > GroupSize => b7 = 0)
    BY <2>1 DEF b2, b3, b4, b5, b6, b7
  <2> QED BY <1>1, <1>3, <2>3, SMT
<1>8. T(GroupSize) \in Nat
  BY <1>3, <1>7
<1> HIDE DEF T
<1>9. g = [n \in 0..GroupSize |-> IF n = 0 THEN 0 ELSE g[n - 1] + (s[n] \div 128) * 2^(n - 1)]
  <2>1. ASSUME NEW n \in 0..GroupSize
        PROVE  g[n] = IF n = 0 THEN 0 ELSE g[n - 1] + (s[n] \div 128) * 2^(n - 1)
    <3>1. CASE n = 0
      BY <1>6, <3>1
    <3>2. CASE n # 0
      <4>1. n \in 1..GroupSize /\ n - 1 \in 0..GroupSize
        BY <1>1, <3>2
      <4>2. g[n] = T(n) /\ g[n - 1] = T(n - 1)
        BY <4>1
      <4> QED BY <1>5, <3>2, <4>1, <4>2
    <3> QED BY <3>1, <3>2
  <2> DEFINE R(n) == IF n = 0 THEN 0 ELSE g[n - 1] + (s[n] \div 128) * 2^(n - 1)
  <2>2. \A n \in 0..GroupSize : g[n] = R(n)
    BY <2>1
  <2>3. g = [n \in 0..GroupSize |-> g[n]]
    OBVIOUS
  <2> HIDE DEF R, g
  <2>4. g = [n \in 0..GroupSize |-> R(n)]
    BY <2>2, <2>3
  <2> QED BY <2>4 DEF R
<1>10. G = [n \in 0..GroupSize |-> IF n = 0 THEN 0 ELSE G[n - 1] + (s[n] \div 128) * 2^(n - 1)]
  <2> HIDE DEF g
  <2> QED BY <1>9
<1>11. EighthBits(s) = G[GroupSize]
  BY DEF EighthBits
<1> HIDE DEF G, g
<1> DEFINE S == {n \in Nat : n <= GroupSize => G[n] = T(n)}
<1>12. \A n \in 0..GroupSize : G[n] = IF n = 0 THEN 0 ELSE G[n - 1] + (s[n] \div 128) * 2^(n - 1)
  <2> DEFINE R(n) == IF n = 0 THEN 0 ELSE G[n - 1] + (s[n] \div 128) * 2^(n - 1)
  <2>1. G = [n \in 0..GroupSize |-> R(n)]
    BY <1>10
  <2> HIDE DEF R
  <2>2. \A n \in 0..GroupSize : G[n] = R(n)
    BY <2>1
  <2> QED BY <2>2 DEF R
<1>13. 0 \in S
  BY <1>1, <1>6, <1>12
<1>14. ASSUME NEW n \in Nat, n \in S PROVE n + 1 \in S
  <2> SUFFICES ASSUME n + 1 <= GroupSize PROVE G[n + 1] = T(n + 1)
    OBVIOUS
  <2>1. G[n] = T(n) /\ n + 1 \in 1..GroupSize /\ n + 1 \in 0..GroupSize /\ n + 1 # 0 /\ (n + 1) - 1 = n
    BY <1>1, <1>14
  <2>2. G[n + 1] = G[n] + (s[n + 1] \div 128) * 2^n
    BY <1>12, <2>1
  <2>3. T(n + 1) = T(n) + (s[n + 1] \div 128) * 2^n
    BY <1>5, <2>1
  <2> QED BY <2>1, <2>2, <2>3
<1> HIDE DEF S
<1>15. G[GroupSize] = T(GroupSize)
  <2>1. GroupSize \in S
    BY <1>1, <1>13, <1>14, Ind
  <2> QED BY <1>1, <2>1 DEF S
<1> DEFINE v == EighthBits(s)
<1>16. v = b1 + b2 * 2 + b3 * 4 + b4 * 8 + b5 * 16 + b6 * 32 + b7 * 64 /\ v \in Nat
  BY <1>7, <1>8, <1>11, <1>15
<1> HIDE DEF v
<1>17. /\ (v \div 1) % 2 = b1 /\ (v \div 2) % 2 = b2 /\ (v \div 4) % 2 = b3
       /\ (v \div 8) % 2 = b4 /\ (v \div 16) % 2 = b5 /\ (v \div 32) % 2 = b6
       /\ (v \div 64) % 2 = b7
  <2>1. v = Bits(b1, b2, b3, b4, b5, b6, b7)
    BY <1>16 DEF Bits
  <2>2. Apart(Bits(b1, b2, b3, b4, b5, b6, b7), b1, b2, b3, b4, b5, b6, b7)
    BY <1>3, BitsAre, Zenon
  <2> QED BY <2>1, <2>2 DEF Apart
<1>18. ASSUME NEW p \in 0..GroupSize - 1 PROVE (v \div (2^p)) % 2 = s[p + 1] \div 128
  <2>1. p \in 0..6 /\ p + 1 \in 1..7 /\ s[p + 1] \div 128 = bit(p + 1)
    BY <1>1, <1>2
  <2>2. CASE p = 0
    BY <1>17, <2>1, <2>2, Powers DEF b1
  <2>3. CASE p = 1
    BY <1>17, <2>1, <2>3, Powers DEF b2
  <2>4. CASE p = 2
    BY <1>17, <2>1, <2>4, Powers DEF b3
  <2>5. CASE p = 3
    BY <1>17, <2>1, <2>5, Powers DEF b4
  <2>6. CASE p = 4
    BY <1>17, <2>1, <2>6, Powers DEF b5
  <2>7. CASE p = 5
    BY <1>17, <2>1, <2>7, Powers DEF b6
  <2>8. CASE p = 6
    BY <1>17, <2>1, <2>8, Powers DEF b7
  <2> QED BY <2>1, <2>2, <2>3, <2>4, <2>5, <2>6, <2>7, <2>8
<1> QED BY <1>16, <1>18 DEF v

\* Groups of S bytes: enough of them, and not one too many.
GroupsOf(S, n, g) ==
    /\ g \in Nat /\ S * g \in Nat /\ n <= S * g /\ S * g < n + S /\ (S * g) \div S = g
    /\ ((S + 1) * g) \div (S + 1) = g /\ (S + 1) * g \in Nat
    /\ \A k \in Nat : n = S * k => S * g = n

LEMMA GroupsAre ==
    ASSUME NEW S \in 1..7, NEW n \in Nat
    PROVE  GroupsOf(S, n, (n + S - 1) \div S)
<1>1. CASE S = 1
  BY <1>1, SMT DEF GroupsOf
<1>2. CASE S = 2
  BY <1>2, SMT DEF GroupsOf
<1>3. CASE S = 3
  BY <1>3, SMT DEF GroupsOf
<1>4. CASE S = 4
  BY <1>4, SMT DEF GroupsOf
<1>5. CASE S = 5
  BY <1>5, SMT DEF GroupsOf
<1>6. CASE S = 6
  BY <1>6, SMT DEF GroupsOf
<1>7. CASE S = 7
  BY <1>7, SMT DEF GroupsOf
<1> QED BY <1>1, <1>2, <1>3, <1>4, <1>5, <1>6, <1>7

\* Byte b of the groups, its place in the encoded ones and that of the eighth bits.
PlacesOf(S, g, b, group, place) ==
    /\ group \in Nat /\ group < g /\ place \in Nat /\ place < S
    /\ b = group * S + place + 1
    /\ group * (S + 1) + place + 1 \in 1..(S + 1) * g
    /\ ((group * (S + 1) + place + 1) - 1) \div (S + 1) = group
    /\ ((group * (S + 1) + place + 1) - 1) % (S + 1) = place
    /\ (group + 1) * (S + 1) \in 1..(S + 1) * g
    /\ ((group + 1) * (S + 1) - 1) \div (S + 1) = group
    /\ ((group + 1) * (S + 1) - 1) % (S + 1) = S
    /\ group * S + 1 \in 1..S * g /\ (group + 1) * S \in 1..S * g
    /\ (group + 1) * S - (group * S + 1) + 1 = S

LEMMA PlacesAre ==
    ASSUME NEW S \in 1..7, NEW g \in Nat, NEW b \in Nat, 1 <= b, b <= S * g
    PROVE  PlacesOf(S, g, b, (b - 1) \div S, (b - 1) % S)
<1> DEFINE group == (b - 1) \div S  place == (b - 1) % S
<1>1. CASE S = 1
  <2>1. group \in Nat /\ group < g /\ place \in Nat /\ place < 1 /\ b = group * 1 + place + 1
    BY <1>1, SMT
  <2> HIDE DEF group, place
  <2>2. /\ group * 2 + place + 1 \in 1..2 * g
        /\ ((group * 2 + place + 1) - 1) \div 2 = group
        /\ ((group * 2 + place + 1) - 1) % 2 = place
    BY <2>1, SMT
  <2>3. /\ (group + 1) * 2 \in 1..2 * g
        /\ ((group + 1) * 2 - 1) \div 2 = group
        /\ ((group + 1) * 2 - 1) % 2 = 1
        /\ group * 1 + 1 \in 1..1 * g /\ (group + 1) * 1 \in 1..1 * g
        /\ (group + 1) * 1 - (group * 1 + 1) + 1 = 1
    BY <2>1, SMT
  <2>4. PlacesOf(1, g, b, group, place)
    BY <2>1, <2>2, <2>3 DEF PlacesOf
  <2> QED BY <1>1, <2>4 DEF group, place
<1>2. CASE S = 2
  <2>1. group \in Nat /\ group < g /\ place \in Nat /\ place < 2 /\ b = group * 2 + place + 1
    BY <1>2, SMT
  <2> HIDE DEF group, place
  <2>2. /\ group * 3 + place + 1 \in 1..3 * g
        /\ ((group * 3 + place + 1) - 1) \div 3 = group
        /\ ((group * 3 + place + 1) - 1) % 3 = place
    BY <2>1, SMT
  <2>3. /\ (group + 1) * 3 \in 1..3 * g
        /\ ((group + 1) * 3 - 1) \div 3 = group
        /\ ((group + 1) * 3 - 1) % 3 = 2
        /\ group * 2 + 1 \in 1..2 * g /\ (group + 1) * 2 \in 1..2 * g
        /\ (group + 1) * 2 - (group * 2 + 1) + 1 = 2
    BY <2>1, SMT
  <2>4. PlacesOf(2, g, b, group, place)
    BY <2>1, <2>2, <2>3 DEF PlacesOf
  <2> QED BY <1>2, <2>4 DEF group, place
<1>3. CASE S = 3
  <2>1. group \in Nat /\ group < g /\ place \in Nat /\ place < 3 /\ b = group * 3 + place + 1
    BY <1>3, SMT
  <2> HIDE DEF group, place
  <2>2. /\ group * 4 + place + 1 \in 1..4 * g
        /\ ((group * 4 + place + 1) - 1) \div 4 = group
        /\ ((group * 4 + place + 1) - 1) % 4 = place
    BY <2>1, SMT
  <2>3. /\ (group + 1) * 4 \in 1..4 * g
        /\ ((group + 1) * 4 - 1) \div 4 = group
        /\ ((group + 1) * 4 - 1) % 4 = 3
        /\ group * 3 + 1 \in 1..3 * g /\ (group + 1) * 3 \in 1..3 * g
        /\ (group + 1) * 3 - (group * 3 + 1) + 1 = 3
    BY <2>1, SMT
  <2>4. PlacesOf(3, g, b, group, place)
    BY <2>1, <2>2, <2>3 DEF PlacesOf
  <2> QED BY <1>3, <2>4 DEF group, place
<1>4. CASE S = 4
  <2>1. group \in Nat /\ group < g /\ place \in Nat /\ place < 4 /\ b = group * 4 + place + 1
    BY <1>4, SMT
  <2> HIDE DEF group, place
  <2>2. /\ group * 5 + place + 1 \in 1..5 * g
        /\ ((group * 5 + place + 1) - 1) \div 5 = group
        /\ ((group * 5 + place + 1) - 1) % 5 = place
    BY <2>1, SMT
  <2>3. /\ (group + 1) * 5 \in 1..5 * g
        /\ ((group + 1) * 5 - 1) \div 5 = group
        /\ ((group + 1) * 5 - 1) % 5 = 4
        /\ group * 4 + 1 \in 1..4 * g /\ (group + 1) * 4 \in 1..4 * g
        /\ (group + 1) * 4 - (group * 4 + 1) + 1 = 4
    BY <2>1, SMT
  <2>4. PlacesOf(4, g, b, group, place)
    BY <2>1, <2>2, <2>3 DEF PlacesOf
  <2> QED BY <1>4, <2>4 DEF group, place
<1>5. CASE S = 5
  <2>1. group \in Nat /\ group < g /\ place \in Nat /\ place < 5 /\ b = group * 5 + place + 1
    BY <1>5, SMT
  <2> HIDE DEF group, place
  <2>2. /\ group * 6 + place + 1 \in 1..6 * g
        /\ ((group * 6 + place + 1) - 1) \div 6 = group
        /\ ((group * 6 + place + 1) - 1) % 6 = place
    BY <2>1, SMT
  <2>3. /\ (group + 1) * 6 \in 1..6 * g
        /\ ((group + 1) * 6 - 1) \div 6 = group
        /\ ((group + 1) * 6 - 1) % 6 = 5
        /\ group * 5 + 1 \in 1..5 * g /\ (group + 1) * 5 \in 1..5 * g
        /\ (group + 1) * 5 - (group * 5 + 1) + 1 = 5
    BY <2>1, SMT
  <2>4. PlacesOf(5, g, b, group, place)
    BY <2>1, <2>2, <2>3 DEF PlacesOf
  <2> QED BY <1>5, <2>4 DEF group, place
<1>6. CASE S = 6
  <2>1. group \in Nat /\ group < g /\ place \in Nat /\ place < 6 /\ b = group * 6 + place + 1
    BY <1>6, SMT
  <2> HIDE DEF group, place
  <2>2. /\ group * 7 + place + 1 \in 1..7 * g
        /\ ((group * 7 + place + 1) - 1) \div 7 = group
        /\ ((group * 7 + place + 1) - 1) % 7 = place
    BY <2>1, SMT
  <2>3. /\ (group + 1) * 7 \in 1..7 * g
        /\ ((group + 1) * 7 - 1) \div 7 = group
        /\ ((group + 1) * 7 - 1) % 7 = 6
        /\ group * 6 + 1 \in 1..6 * g /\ (group + 1) * 6 \in 1..6 * g
        /\ (group + 1) * 6 - (group * 6 + 1) + 1 = 6
    BY <2>1, SMT
  <2>4. PlacesOf(6, g, b, group, place)
    BY <2>1, <2>2, <2>3 DEF PlacesOf
  <2> QED BY <1>6, <2>4 DEF group, place
<1>7. CASE S = 7
  <2>1. group \in Nat /\ group < g /\ place \in Nat /\ place < 7 /\ b = group * 7 + place + 1
    BY <1>7, SMT
  <2> HIDE DEF group, place
  <2>2. /\ group * 8 + place + 1 \in 1..8 * g
        /\ ((group * 8 + place + 1) - 1) \div 8 = group
        /\ ((group * 8 + place + 1) - 1) % 8 = place
    BY <2>1, SMT
  <2>3. /\ (group + 1) * 8 \in 1..8 * g
        /\ ((group + 1) * 8 - 1) \div 8 = group
        /\ ((group + 1) * 8 - 1) % 8 = 7
        /\ group * 7 + 1 \in 1..7 * g /\ (group + 1) * 7 \in 1..7 * g
        /\ (group + 1) * 7 - (group * 7 + 1) + 1 = 7
    BY <2>1, SMT
  <2>4. PlacesOf(7, g, b, group, place)
    BY <2>1, <2>2, <2>3 DEF PlacesOf
  <2> QED BY <1>7, <2>4 DEF group, place
<1> QED BY <1>1, <1>2, <1>3, <1>4, <1>5, <1>6, <1>7

\* Padding fills the last group.
PaddedTo(c, g) ==
    /\ g \in Nat /\ Padded(c) \in Seq(0..255) /\ Len(Padded(c)) = GroupSize * g
    /\ Len(c) <= GroupSize * g /\ GroupSize * g < Len(c) + GroupSize
    /\ \A i \in 1..Len(c) : Padded(c)[i] = c[i]
    /\ \A k \in Nat : Len(c) = GroupSize * k => GroupSize * g = Len(c)

LEMMA PaddedIs ==
    ASSUME NEW c \in Seq(0..255)
    PROVE  PaddedTo(c, (Len(c) + GroupSize - 1) \div GroupSize)
<1> DEFINE n == Len(c)  g == (n + GroupSize - 1) \div GroupSize  m == GroupSize * g
<1>1. n \in Nat /\ GroupSize \in 1..7
  BY ChunkAssumption
<1>2. /\ g \in Nat /\ m \in Nat /\ n <= m /\ m < n + GroupSize
      /\ \A k \in Nat : n = GroupSize * k => m = n
  <2>1. GroupsOf(GroupSize, n, g)
    BY <1>1, GroupsAre
  <2> HIDE DEF g
  <2> QED BY <2>1 DEF GroupsOf
<1>3. Padded(c) = [i \in 1..m |-> IF i <= n THEN c[i] ELSE 0]
  BY DEF Padded
<1> HIDE DEF m, g
<1>4. \A i \in 1..n : c[i] \in 0..255
  BY ElementOfSeq
<1>5. \A i \in 1..m : (IF i <= n THEN c[i] ELSE 0) \in 0..255
  BY <1>1, <1>2, <1>4
<1>6. Padded(c) \in [1..m -> 0..255]
  BY <1>3, <1>5
<1>7. Padded(c) \in Seq(0..255) /\ Len(Padded(c)) = m
  BY <1>2, <1>6
<1>8. \A i \in 1..n : Padded(c)[i] = c[i]
  BY <1>1, <1>2, <1>3
<1>9. PaddedTo(c, g)
  BY <1>2, <1>7, <1>8 DEF m, PaddedTo
<1> QED BY <1>9 DEF g

\* A part of a sequence.
PartOf(S, s, i, k) ==
    /\ SubSeq(s, i, k) \in Seq(S) /\ Len(SubSeq(s, i, k)) = k - i + 1
    /\ \A j \in 1..k - i + 1 : SubSeq(s, i, k)[j] = s[i + j - 1]

LEMMA PartIs ==
    ASSUME NEW S, NEW s \in Seq(S), NEW i \in Nat, NEW k \in Nat, 1 <= i, i - 1 <= k, k <= Len(s)
    PROVE  PartOf(S, s, i, k)
<1>1. SubSeq(s, i, k) = [j \in 1..k - i + 1 |-> s[i + j - 1]]
  OBVIOUS
<1>2. \A j \in 1..k - i + 1 : i + j - 1 \in 1..Len(s)
  OBVIOUS
<1>3. \A j \in 1..k - i + 1 : s[i + j - 1] \in S
  BY <1>2, ElementOfSeq
<1>4. k - i + 1 \in Nat
  OBVIOUS
<1> DEFINE n == k - i + 1
<1> HIDE DEF n
<1>5. SubSeq(s, i, k) \in [1..n -> S] /\ n \in Nat
  BY <1>1, <1>3, <1>4 DEF n
<1>6. SubSeq(s, i, k) \in Seq(S) /\ Len(SubSeq(s, i, k)) = n
  BY <1>5
<1> QED BY <1>1, <1>6 DEF n, PartOf

\* Decoding gives the bytes back, with the padding.
LEMMA FirmwareBytesAre ==
    ASSUME NEW c \in Seq(0..255)
    PROVE  decode_8_to_7(encode8to7(c)) = Padded(c)
<1> DEFINE S == GroupSize  g == (Len(c) + S - 1) \div S  P == Padded(c)  E == encode8to7(c)
           n == (S + 1) * g
           D(b) == LET group == (b - 1) \div S
                       place == (b - 1) % S
                       msbs  == E[(group + 1) * (S + 1)]
                   IN E[group * (S + 1) + place + 1] + 128 * ((msbs \div (2^place)) % 2)
           C(s) == LET group == (s - 1) \div (S + 1)
                       place == (s - 1) % (S + 1)
                   IN IF place < S THEN P[group * S + place + 1] % 128
                      ELSE EighthBits(SubSeq(P, group * S + 1, (group + 1) * S))
<1>1. S \in 1..7 /\ Len(c) \in Nat
  BY ChunkAssumption
<1>2. g \in Nat /\ P \in Seq(0..255) /\ Len(P) = S * g
  <2>1. PaddedTo(c, g)
    BY PaddedIs
  <2> QED BY <2>1 DEF PaddedTo
<1>3. (S * g) \div S = g /\ n \div (S + 1) = g /\ n \in Nat /\ S * g \in Nat
  <2>1. GroupsOf(S, Len(c), g)
    BY <1>1, GroupsAre
  <2> QED BY <2>1 DEF GroupsOf
<1>4. E = [s \in 1..n |-> C(s)]
  BY <1>2, <1>3 DEF encode8to7
<1> HIDE DEF g, P, n
<1>5. Len(E) = n
  <2> HIDE DEF C, E
  <2> QED BY <1>3, <1>4
<1>6. decode_8_to_7(E) = [b \in 1..S * g |-> D(b)]
  <2> HIDE DEF E
  <2> QED BY <1>3, <1>5 DEF decode_8_to_7
<1>7. \A s \in 1..n : E[s] = C(s)
  <2> HIDE DEF C, E
  <2> QED BY <1>4
<1> HIDE DEF E, D
<1>8. ASSUME NEW b \in 1..S * g PROVE D(b) = P[b]
  <2> DEFINE group == (b - 1) \div S  place == (b - 1) % S
             s == group * (S + 1) + place + 1  t == (group + 1) * (S + 1)
             sub == SubSeq(P, group * S + 1, (group + 1) * S)
  <2>1. b \in Nat /\ 1 <= b /\ b <= S * g
    BY <1>3
  <2>2. /\ group \in Nat /\ group < g /\ place \in Nat /\ place < S
        /\ b = group * S + place + 1
        /\ s \in 1..n /\ (s - 1) \div (S + 1) = group /\ (s - 1) % (S + 1) = place
        /\ t \in 1..n /\ (t - 1) \div (S + 1) = group /\ (t - 1) % (S + 1) = S
        /\ group * S + 1 \in 1..S * g /\ (group + 1) * S \in 1..S * g
        /\ (group + 1) * S - (group * S + 1) + 1 = S
    <3>1. PlacesOf(S, g, b, group, place)
      BY <1>1, <1>2, <2>1, PlacesAre
    <3> HIDE DEF S, group, place
    <3> QED BY <3>1 DEF n, PlacesOf
  <2>3. D(b) = E[s] + 128 * ((E[t] \div (2^place)) % 2)
    BY DEF D
  <2> HIDE DEF group, place
  <2>4. E[s] = P[b] % 128
    <3>1. E[s] = C(s)
      BY <1>7, <2>2
    <3> HIDE DEF s
    <3>2. C(s) = P[group * S + place + 1] % 128
      BY <2>2
    <3> QED BY <2>2, <3>1, <3>2
  <2>5. E[t] = EighthBits(sub)
    <3>1. E[t] = C(t)
      BY <1>7, <2>2
    <3> HIDE DEF t
    <3>2. ~(S < S)
      BY <1>1
    <3>3. C(t) = EighthBits(sub)
      BY <2>2, <3>2
    <3> QED BY <3>1, <3>3
  <2>6. sub \in Seq(0..255) /\ Len(sub) = S /\ sub[place + 1] = P[b]
    <3> DEFINE i == group * S + 1  k == (group + 1) * S
    <3>1. i \in Nat /\ k \in Nat /\ 1 <= i /\ k <= Len(P) /\ k - i + 1 = S
      <4> DEFINE m == S * g
      <4>1. i \in 1..m /\ k \in 1..m /\ m \in Nat /\ Len(P) = m /\ k - i + 1 = S
        BY <1>2, <1>3, <2>2
      <4> HIDE DEF i, k, m
      <4> QED BY <4>1
    <3>2. i + (place + 1) - 1 = b /\ place + 1 \in 1..S
      BY <1>1, <2>2, <3>1
    <3> HIDE DEF i, k
    <3>3. i - 1 <= k
      BY <1>1, <3>1
    <3>4. /\ SubSeq(P, i, k) \in Seq(0..255) /\ Len(SubSeq(P, i, k)) = S
          /\ \A j \in 1..S : SubSeq(P, i, k)[j] = P[i + j - 1]
      <4>1. PartOf(0..255, P, i, k)
        BY <1>2, <3>1, <3>3, PartIs
      <4> QED BY <3>1, <4>1 DEF PartOf
    <3> QED BY <3>2, <3>4 DEF i, k
  <2>7. (E[t] \div (2^place)) % 2 = P[b] \div 128
    <3>1. place \in 0..GroupSize - 1
      BY <1>1, <2>2
    <3> HIDE DEF sub
    <3> QED BY <2>5, <2>6, <3>1, EighthBitsAre
  <2>8. P[b] \in 0..255
    BY <1>2, ElementOfSeq
  <2> QED BY <2>3, <2>4, <2>7, <2>8, ByteIs
<1>9. P = [b \in 1..S * g |-> P[b]]
  BY <1>2, <1>3
<1>10. \A b \in 1..S * g : D(b) = P[b]
  BY <1>8
<1>11. [b \in 1..S * g |-> D(b)] = [b \in 1..S * g |-> P[b]]
  BY <1>10
<1> QED BY <1>6, <1>9, <1>11 DEF P, E

LEMMA PowersOf128 ==
    /\ \A n \in Int : n = 0 => 128^n = 1
    /\ \A n \in Int : n = 1 => 128^n = 128
    /\ \A n \in Int : n = 2 => 128^n = 16384
<1>1. \A n \in Int : n = 0 => 128^n = 1
  BY SMT
<1>2. \A n \in Int : n = 1 => 128^n = 128
  BY SMT
<1>3. \A n \in Int : n = 2 => 128^n = 16384
  BY SMT
<1> QED BY <1>1, <1>2, <1>3

\* What is sent as values of 16 bits, two bytes each, comes out as it was.
LEMMA ValuesAre ==
    ASSUME NEW c \in Seq(0..255)
    PROVE  LET values == ValueBytes(decode_3_to_16bit(encode3to16(c)))
           IN /\ Len(values) = 2 * ((Len(c) + 1) \div 2)
              /\ \A b \in 1..Len(c) : values[b] = c[b]
<1> DEFINE n == Len(c)  m == (n + 1) \div 2
           value(i) == c[i] + 256 * (IF i < n THEN c[i + 1] ELSE 0)
           C(s) == (value(2 * ((s - 1) \div 3) + 1) \div (128^(2 - ((s - 1) % 3)))) % 128
           E == encode3to16(c)
           D(v) == (E[3 * v - 2] * 2^14 + E[3 * v - 1] * 2^7 + E[3 * v]) % 2^16
           V == decode_3_to_16bit(E)
           B(b) == IF b % 2 = 1 THEN V[(b + 1) \div 2] % 256 ELSE V[(b + 1) \div 2] \div 256
<1>1. n \in Nat /\ m \in Nat /\ (3 * m) \div 3 = m /\ 2 * m >= n /\ 2 * m <= n + 1
  <2>1. n \in Nat
    OBVIOUS
  <2> HIDE DEF n
  <2> QED BY <2>1, SMT
<1>2. E = [s \in 1..3 * m |-> C(s)]
  BY DEF encode3to16
<1> HIDE DEF m, C
<1>3. Len(E) = 3 * m /\ \A s \in 1..3 * m : E[s] = C(s)
  <2> HIDE DEF E
  <2> QED BY <1>1, <1>2
<1>4. V = [v \in 1..m |-> D(v)]
  <2> HIDE DEF E
  <2> QED BY <1>1, <1>3 DEF decode_3_to_16bit
<1> HIDE DEF E, D
<1>5. Len(V) = m /\ \A v \in 1..m : V[v] = D(v)
  <2> HIDE DEF V
  <2> QED BY <1>1, <1>4
<1>6. ValueBytes(V) = [b \in 1..2 * m |-> B(b)]
  <2> HIDE DEF V
  <2> QED BY <1>5 DEF ValueBytes
<1> HIDE DEF V
<1>7. ASSUME NEW v \in 1..m
      PROVE  /\ V[v] % 256 = c[2 * v - 1]
             /\ 2 * v <= n => V[v] \div 256 = c[2 * v]
  <2> DEFINE i == 2 * (v - 1) + 1
             low == c[i]  high == IF i < n THEN c[i + 1] ELSE 0  w == low + 256 * high
  <2>1. v \in Nat /\ 1 <= v /\ v <= m
    BY <1>1
  <2>2. i \in 1..n /\ i = 2 * v - 1 /\ (i < n <=> 2 * v <= n) /\ i + 1 = 2 * v
    BY <1>1, <2>1
  <2> HIDE DEF i
  <2>3. low \in 0..255 /\ high \in 0..255
    <3>1. low \in 0..255
      BY <2>2, ElementOfSeq
    <3>2. CASE i < n
      <4>1. i + 1 \in 1..n
        BY <1>1, <2>2, <3>2
      <4>2. c[i + 1] \in 0..255
        BY <4>1, ElementOfSeq
      <4> QED BY <3>1, <3>2, <4>2
    <3>3. CASE ~(i < n)
      BY <3>1, <3>3
    <3> QED BY <3>2, <3>3
  <2>4. w = value(i)
    OBVIOUS
  <2>5. /\ 3 * v - 2 \in 1..3 * m /\ ((3 * v - 2) - 1) \div 3 = v - 1 /\ ((3 * v - 2) - 1) % 3 = 0
        /\ 3 * v - 1 \in 1..3 * m /\ ((3 * v - 1) - 1) \div 3 = v - 1 /\ ((3 * v - 1) - 1) % 3 = 1
        /\ 3 * v \in 1..3 * m /\ (3 * v - 1) \div 3 = v - 1 /\ (3 * v - 1) % 3 = 2
    BY <1>1, <2>1, SMT
  <2>6. 128^(2 - 0) = 16384 /\ 128^(2 - 1) = 128 /\ 128^(2 - 2) = 1
    BY PowersOf128
  <2> HIDE DEF value, low, high, w
  <2>7. E[3 * v - 2] = (w \div 16384) % 128
    <3> DEFINE s == 3 * v - 2
    <3>1. E[s] = C(s) /\ (s - 1) \div 3 = v - 1 /\ (s - 1) % 3 = 0
      BY <1>3, <2>5
    <3> HIDE DEF s
    <3>2. C(s) = (value(i) \div (128^(2 - 0))) % 128
      BY <3>1 DEF C, i
    <3> QED BY <2>4, <2>6, <3>1, <3>2 DEF s
  <2>8. E[3 * v - 1] = (w \div 128) % 128
    <3> DEFINE s == 3 * v - 1
    <3>1. E[s] = C(s) /\ (s - 1) \div 3 = v - 1 /\ (s - 1) % 3 = 1
      BY <1>3, <2>5
    <3> HIDE DEF s
    <3>2. C(s) = (value(i) \div (128^(2 - 1))) % 128
      BY <3>1 DEF C, i
    <3> QED BY <2>4, <2>6, <3>1, <3>2 DEF s
  <2>9. E[3 * v] = (w \div 1) % 128
    <3> DEFINE s == 3 * v
    <3>1. E[s] = C(s) /\ (s - 1) \div 3 = v - 1 /\ (s - 1) % 3 = 2
      BY <1>3, <2>5
    <3> HIDE DEF s
    <3>2. C(s) = (value(i) \div (128^(2 - 2))) % 128
      BY <3>1 DEF C, i
    <3> QED BY <2>4, <2>6, <3>1, <3>2 DEF s
  <2>10. /\ w \in Nat
         /\ (((w \div 16384) % 128) * 16384 + ((w \div 128) % 128) * 128 + (w % 128)) % 65536 = w
         /\ w % 256 = low /\ w \div 256 = high
    <3>1. ValueOf(w, low, high)
      BY <2>3, ValueIs DEF w
    <3> QED BY <3>1 DEF ValueOf
  <2>11. w \div 1 = w
    BY <2>10, SMT
  <2>12. V[v] = w
    <3> DEFINE x == E[3 * v - 2]  y == E[3 * v - 1]  z == E[3 * v]
    <3>1. x = (w \div 16384) % 128 /\ y = (w \div 128) % 128 /\ z = w % 128
      BY <2>7, <2>8, <2>9, <2>11
    <3>2. V[v] = (x * 2^14 + y * 2^7 + z) % 2^16
      BY <1>5 DEF D
    <3> HIDE DEF x, y, z
    <3>3. x \in Nat /\ y \in Nat /\ z \in Nat
      BY <2>10, <3>1, SMT
    <3>4. (x * 2^14 + y * 2^7 + z) % 2^16 = (x * 16384 + y * 128 + z) % 65536
      BY <3>3, SMT
    <3>5. (x * 16384 + y * 128 + z) % 65536 = w
      BY <2>10, <3>1
    <3> QED BY <3>2, <3>4, <3>5
  <2> QED BY <2>2, <2>10, <2>12 DEF low, high
<1>8. ASSUME NEW b \in 1..n PROVE B(b) = c[b]
  <2> DEFINE v == (b + 1) \div 2
  <2>0. b \in Nat
    BY <1>1
  <2>1. v \in 1..m
    <3>1. b \in Nat /\ 1 <= b /\ b <= n
      BY <1>1
    <3> DEFINE k == n
    <3>2. k \in Nat /\ b <= k /\ m = (k + 1) \div 2
      BY <1>1, <3>1 DEF m
    <3> HIDE DEF k
    <3> QED BY <3>1, <3>2, SMT
  <2>2. b % 2 = 1 => 2 * v - 1 = b
    BY <2>0, SMT
  <2>3. b % 2 # 1 => 2 * v = b
    BY <2>0, SMT
  <2> HIDE DEF v
  <2>4. CASE b % 2 = 1
    BY <1>7, <2>1, <2>2, <2>4 DEF v
  <2>5. CASE b % 2 # 1
    <3>1. 2 * v <= n /\ 2 * v = b
      BY <1>1, <2>3, <2>5
    <3>2. V[v] \div 256 = c[b]
      BY <1>7, <2>1, <3>1
    <3> QED BY <2>5, <3>2 DEF v
  <2> QED BY <2>4, <2>5
<1> HIDE DEF B
<1>9. Len(ValueBytes(V)) = 2 * m
  BY <1>1, <1>6
<1>10. \A b \in 1..n : b \in 1..2 * m
  BY <1>1
<1>11. \A b \in 1..n : ValueBytes(V)[b] = c[b]
  BY <1>6, <1>8, <1>10
<1> QED BY <1>9, <1>11 DEF V, E, m

\* The size, in four bytes.
LEMMA NumberIs ==
    ASSUME NEW n \in Nat, n < 4194304
    PROVE  (n % 256) + 256 * ((n \div 256) % 256) + 65536 * ((n \div 65536) % 256)
               + 16777216 * ((n \div 16777216) % 256) = n
<1> DEFINE r == n \div 256  a == n % 256  q == r \div 256  b == r % 256
<1>1. a \in Nat /\ a < 256 /\ r \in Nat /\ r < 16384 /\ n = 256 * r + a
  BY SMT
<1>2. b \in Nat /\ b < 256 /\ q \in Nat /\ q < 64 /\ r = 256 * q + b
  BY <1>1, SMT
<1> HIDE DEF a, b, r, q
<1>3. n = 65536 * q + 256 * b + a
  BY <1>1, <1>2, SMT
<1>4. n % 256 = a
  BY <1>1, <1>3, SMT
<1>5. (n \div 256) % 256 = b
  BY <1>1, <1>2, <1>3, SMT
<1>6. n \div 65536 = q
  BY <1>1, <1>2, <1>3, SMT
<1>7. n \div 16777216 = 0
  BY SMT
<1>8. q % 256 = q /\ 0 % 256 = 0
  BY <1>2, SMT
<1>9. a + 256 * b + 65536 * q + 16777216 * 0 = n
  BY <1>1, <1>2, <1>3, SMT
<1> QED BY <1>4, <1>5, <1>6, <1>7, <1>8, <1>9

SizeByte(n, i) == (n \div (256^(i - 1))) % 256

SizeOf(n) ==
    /\ \A i \in 1..4 : SizeByte(n, i) \in 0..255
    /\ SizeByte(n, 1) + 256 * SizeByte(n, 2) + 256^2 * SizeByte(n, 3) + 256^3 * SizeByte(n, 4) = n

LEMMA SizeFits ==
    ASSUME NEW n \in Nat, n <= MaxBytes
    PROVE  SizeOf(n)
<1>1. n < 4194304
  <2>1. 2^22 = 4194304 /\ MaxBytes \in Nat
    BY BytesAssumption, SMT
  <2> QED BY <2>1, BytesAssumption, SMT
<1>2. /\ 256^(1 - 1) = 1 /\ 256^(2 - 1) = 256 /\ 256^(3 - 1) = 65536 /\ 256^(4 - 1) = 16777216
      /\ 256^2 = 65536 /\ 256^3 = 16777216
  BY SMT
<1> DEFINE x1 == n % 256  x2 == (n \div 256) % 256  x3 == (n \div 65536) % 256
           x4 == (n \div 16777216) % 256
<1>3. n \div 1 = n
  BY SMT
<1>4. SizeByte(n, 1) = x1 /\ SizeByte(n, 2) = x2 /\ SizeByte(n, 3) = x3 /\ SizeByte(n, 4) = x4
  BY <1>2, <1>3, SMT DEF SizeByte
<1>5. /\ x1 \in Nat /\ x1 <= 255 /\ x2 \in Nat /\ x2 <= 255
      /\ x3 \in Nat /\ x3 <= 255 /\ x4 \in Nat /\ x4 <= 255
  BY SMT
<1>6. x1 + 256 * x2 + 65536 * x3 + 16777216 * x4 = n
  BY <1>1, NumberIs, SMT
<1> HIDE DEF x1, x2, x3, x4
<1>7. \A i \in 1..4 : SizeByte(n, i) \in 0..255
  BY <1>4, <1>5, SMT
<1>8. SizeByte(n, 1) + 256 * SizeByte(n, 2) + 256^2 * SizeByte(n, 3) + 256^3 * SizeByte(n, 4) = n
  BY <1>2, <1>4, <1>6, SMT
<1> QED BY <1>7, <1>8 DEF SizeOf

\* A receiver that has how the file begins and stores what follows it has how
\* the file begins.
Continued(s, a, u, n, q) ==
    a \o SubSeq(u, 1, q) = SubSeq(s, 1, n + q) /\ Len(SubSeq(s, 1, n + q)) = n + q
    /\ SubSeq(s, 1, n + q) \in Seq(0..255)

LEMMA Continues ==
    ASSUME NEW s \in Seq(0..255), NEW n \in Nat, n <= Len(s), NEW a, a = SubSeq(s, 1, n),
           NEW u, NEW q \in Nat, n + q <= Len(s), \A b \in 1..q : u[b] = s[n + b]
    PROVE  Continued(s, a, u, n, q)
<1> DEFINE S == 0..255  t == SubSeq(u, 1, q)  r == SubSeq(s, 1, n + q)
<1>1. \A i \in 1..Len(s) : s[i] \in S
  BY ElementOfSeq
<1>2. \A b \in 1..q : n + b \in 1..Len(s)
  OBVIOUS
<1>3. \A b \in 1..q : u[b] \in S
  BY <1>1, <1>2
<1> HIDE DEF S
<1>4. t \in Seq(S) /\ Len(t) = q /\ \A b \in 1..q : t[b] = s[n + b]
  <2>1. \A j \in 1..q : u[j] \in S
    BY <1>3
  <2>2. /\ SubSeq(u, 1, q) \in Seq(S) /\ Len(SubSeq(u, 1, q)) = IF 1 <= q THEN q - 1 + 1 ELSE 0
        /\ \A i \in 1..q - 1 + 1 : SubSeq(u, 1, q)[i] = u[1 + i - 1]
    BY <2>1, SubSeqProperties
  <2> QED BY <2>2
<1>5. a \in Seq(S) /\ Len(a) = n /\ \A i \in 1..n : a[i] = s[i]
  <2>1. \A j \in 1..n : s[j] \in S
    BY <1>1
  <2>2. /\ SubSeq(s, 1, n) \in Seq(S) /\ Len(SubSeq(s, 1, n)) = IF 1 <= n THEN n - 1 + 1 ELSE 0
        /\ \A i \in 1..n - 1 + 1 : SubSeq(s, 1, n)[i] = s[1 + i - 1]
    BY <2>1, SubSeqProperties
  <2> QED BY <2>2
<1>6. r \in Seq(S) /\ Len(r) = n + q /\ \A i \in 1..n + q : r[i] = s[i]
  <2> DEFINE m == n + q
  <2>1. m \in Nat /\ m <= Len(s)
    OBVIOUS
  <2> HIDE DEF m
  <2>2. \A j \in 1..m : s[j] \in S
    BY <1>1, <2>1
  <2>3. /\ SubSeq(s, 1, m) \in Seq(S) /\ Len(SubSeq(s, 1, m)) = IF 1 <= m THEN m - 1 + 1 ELSE 0
        /\ \A i \in 1..m - 1 + 1 : SubSeq(s, 1, m)[i] = s[1 + i - 1]
    BY <2>1, <2>2, SubSeqProperties
  <2>4. SubSeq(s, 1, m) \in Seq(S) /\ Len(SubSeq(s, 1, m)) = m /\ \A i \in 1..m : SubSeq(s, 1, m)[i] = s[i]
    BY <2>1, <2>3
  <2> QED BY <2>4 DEF m
<1> HIDE DEF t, r
<1>7. /\ a \o t \in Seq(S) /\ Len(a \o t) = n + q
      /\ \A i \in 1..n + q : (a \o t)[i] = IF i <= n THEN a[i] ELSE t[i - n]
  BY <1>4, <1>5, ConcatProperties
<1>8. ASSUME NEW i \in 1..n + q PROVE (a \o t)[i] = r[i]
  <2>1. CASE i <= n
    BY <1>5, <1>6, <1>7, <2>1
  <2>2. CASE ~(i <= n)
    <3>1. i - n \in 1..q /\ n + (i - n) = i
      BY <2>2
    <3>2. t[i - n] = s[i]
      BY <1>4, <3>1
    <3> QED BY <1>6, <1>7, <2>2, <3>2
  <2> QED BY <2>1, <2>2
<1>9. a \o t = r
  BY <1>6, <1>7, <1>8, SeqEqual
<1> QED BY <1>6, <1>9 DEF Continued, t, r, S

\* The bytes of a sample's two come out of a packet in their order.
Byte(p, b, low, high) == Unpacked(p)[b] = IF b % 2 = 1 THEN low ELSE high

LEMMA UnpackedIs ==
    ASSUME NEW p, NEW b \in 1..BytesPerPacket, NEW low \in 0..255, NEW high \in 0..255,
           p[(b + 1) \div 2] = Sample(low, high)
    PROVE  Byte(p, b, low, high)
<1> DEFINE m == BytesPerPacket  B(k) == SampleBytes(p[(k + 1) \div 2])[2 - (k % 2)]
<1>1. m \in Nat
  BY BytesAssumption DEF BytesPerPacket
<1>2. Unpacked(p) = [k \in 1..m |-> B(k)]
  BY DEF Unpacked
<1>3. B(b) = <<low, high>>[2 - (b % 2)]
  <2>1. SampleBytes(Sample(low, high)) = <<low, high>>
    BY SampleIs
  <2>2. p[(b + 1) \div 2] = Sample(low, high)
    OBVIOUS
  <2> QED BY <2>1, <2>2, Zenon
<1>0. b \in 1..m
  OBVIOUS
<1> HIDE DEF m, B
<1>4. Unpacked(p)[b] = B(b)
  BY <1>0, <1>1, <1>2 DEF m
<1>5. b \in Nat
  BY <1>1 DEF m
<1>6. B(b) = IF b % 2 = 1 THEN low ELSE high
  <2>1. CASE b % 2 = 1
    BY <1>3, <2>1
  <2>2. CASE b % 2 # 1
    <3>1. b % 2 = 0
      BY <1>5, <2>2, SMT
    <3> QED BY <1>3, <3>1
  <2> QED BY <2>1, <2>2
<1> QED BY <1>4, <1>6 DEF Byte

LEMMA WholeUnpacked == \A p : Len(Unpacked(p)) = BytesPerPacket
<1> SUFFICES ASSUME NEW p PROVE Len(Unpacked(p)) = BytesPerPacket
  OBVIOUS
<1> DEFINE m == BytesPerPacket  B(k) == SampleBytes(p[(k + 1) \div 2])[2 - (k % 2)]
<1>1. m \in Nat
  BY BytesAssumption DEF BytesPerPacket
<1>2. Unpacked(p) = [k \in 1..m |-> B(k)]
  BY DEF Unpacked
<1> HIDE DEF m, B
<1>3. Len(Unpacked(p)) = m
  BY <1>1, <1>2
<1> QED BY <1>3 DEF m

\* Byte b of a packet is one of the two of its word.
LEMMA WordIs ==
    ASSUME NEW b \in 1..BytesPerPacket
    PROVE  LET i == (b + 1) \div 2
           IN i \in 1..WordsPerPacket /\ b = IF b % 2 = 1 THEN 2 * i - 1 ELSE 2 * i
<1>1. WordsPerPacket \in Nat /\ BytesPerPacket = 2 * WordsPerPacket
  BY BytesAssumption DEF BytesPerPacket
<1>2. b \in Nat /\ 1 <= b /\ b <= 2 * WordsPerPacket
  BY <1>1
<1> QED BY <1>1, <1>2, SMT

\* An upload's packet holds the words of the file that follow what was sent.
UploadedBytes(n) ==
    Unpacked([i \in 1..WordsPerPacket |-> unpack_16bit_sample(createDataPacket(n)[i])])

LEMMA UploadedAre ==
    ASSUME source \in Seq(0..255), NEW n \in Nat, n % 2 = 0, NEW b \in 1..BytesPerPacket,
           n + b <= WholeWords
    PROVE  UploadedBytes(n)[b] = source[n + b]
<1> DEFINE P == createDataPacket(n)
           p == [i \in 1..WordsPerPacket |-> unpack_16bit_sample(P[i])]
           j == (b + 1) \div 2  at == n + 2 * j  L == Len(source)
           low == source[at - 1]  high == source[at]
           W(k) == IF k <= L THEN pack16BitSample(Sample(source[k - 1], source[k]))
                   ELSE <<0, 0, 0>>
           C(i) == W(n + 2 * i)
<1>1. j \in 1..WordsPerPacket /\ b = IF b % 2 = 1 THEN 2 * j - 1 ELSE 2 * j
  BY WordIs
<1>2. WordsPerPacket \in Nat /\ L \in Nat /\ b \in Nat
  BY BytesAssumption DEF BytesPerPacket
<1> HIDE DEF j, L
<1>3. at \in Nat /\ at <= L /\ 2 <= at
  <2> DEFINE w == L \div 2  h == n \div 2
  <2>1. n + b <= 2 * w
    BY DEF WholeWords, L
  <2>2. w \in Nat /\ 2 * w <= L /\ h \in Nat /\ n = 2 * h
    BY <1>2, SMT
  <2>3. j \in Nat /\ 1 <= j
    BY <1>1, <1>2
  <2> HIDE DEF w, h
  <2> QED BY <1>1, <1>2, <2>1, <2>2, <2>3
<1>4. low \in 0..255 /\ high \in 0..255
  <2>1. at \in 1..Len(source) /\ at - 1 \in 1..Len(source)
    BY <1>2, <1>3 DEF L
  <2> HIDE DEF at
  <2> QED BY <2>1, ElementOfSeq
<1>5. P = [i \in 1..WordsPerPacket |-> C(i)]
  BY DEF createDataPacket, L
<1>6. C(j) = pack16BitSample(Sample(low, high))
  <2>1. W(at) = pack16BitSample(Sample(low, high))
    <3> HIDE DEF at
    <3> QED BY <1>3
  <2> QED BY <2>1
<1> HIDE DEF C, at, P, low, high
<1>7. p[j] = unpack_16bit_sample(pack16BitSample(Sample(low, high)))
  BY <1>1, <1>5, <1>6
<1>8. p[j] = Sample(low, high)
  <2>1. IsSample(Sample(low, high))
    BY <1>4, SampleIs
  <2> QED BY <1>7, <2>1, PackedIs
<1> HIDE DEF p
<1>9. Unpacked(p)[b] = IF b % 2 = 1 THEN low ELSE high
  <2>1. p[(b + 1) \div 2] = Sample(low, high)
    BY <1>8 DEF j
  <2>2. Byte(p, b, low, high)
    BY <1>4, <2>1, UnpackedIs, Zenon
  <2> QED BY <2>2 DEF Byte
<1>10. UploadedBytes(n) = Unpacked(p)
  BY DEF UploadedBytes, p, P
<1>11. CASE b % 2 = 1
  <2>1. at - 1 = n + b
    BY <1>1, <1>2, <1>3, <1>11 DEF at
  <2> QED BY <1>9, <1>10, <1>11, <2>1 DEF low
<1>12. CASE b % 2 # 1
  <2>1. at = n + b
    BY <1>1, <1>2, <1>3, <1>12 DEF at
  <2> QED BY <1>9, <1>10, <1>12, <2>1 DEF high
<1> QED BY <1>11, <1>12

\* And a download's packet the bytes that follow.
DownloadedBytes(n) ==
    Unpacked([i \in 1..WordsPerPacket |-> unpack16BitSample(send_next_packet(n)[i])])

LEMMA DownloadedAre ==
    ASSUME source \in Seq(0..255), NEW n \in Nat, NEW b \in 1..BytesPerPacket,
           n + b <= WholeWords
    PROVE  DownloadedBytes(n)[b] = source[n + b]
<1> DEFINE P == send_next_packet(n)
           p == [i \in 1..WordsPerPacket |-> unpack16BitSample(P[i])]
           raw(at) == IF at <= WholeWords THEN source[at] ELSE 0
           j == (b + 1) \div 2
           low == raw(n + 2 * j - 1)  high == raw(n + 2 * j)
           C(i) == pack_16bit_sample(Sample(raw(n + 2 * i - 1), raw(n + 2 * i)))
<1>1. j \in 1..WordsPerPacket /\ b = IF b % 2 = 1 THEN 2 * j - 1 ELSE 2 * j
  BY WordIs
<1>2. WordsPerPacket \in Nat /\ b \in Nat /\ WholeWords \in Nat /\ WholeWords <= Len(source)
  <2> DEFINE L == Len(source)
  <2>1. L \in Nat
    OBVIOUS
  <2> HIDE DEF L
  <2>2. 2 * (L \div 2) \in Nat /\ 2 * (L \div 2) <= L
    BY <2>1, SMT
  <2> QED BY <2>2, BytesAssumption DEF BytesPerPacket, WholeWords, L
<1> HIDE DEF j
<1>3. j \in Nat /\ 1 <= j
  BY <1>1, <1>2
<1>4. ASSUME NEW at \in Nat, 1 <= at PROVE raw(at) \in 0..255
  <2>1. CASE at <= WholeWords
    <3>1. at \in 1..Len(source)
      BY <1>2, <1>4, <2>1
    <3> QED BY <2>1, <3>1, ElementOfSeq
  <2>2. CASE ~(at <= WholeWords)
    BY <2>2
  <2> QED BY <2>1, <2>2
<1>5. P = [i \in 1..WordsPerPacket |-> C(i)]
  BY DEF send_next_packet
<1> HIDE DEF raw
<1>6. low \in 0..255 /\ high \in 0..255
  <2>1. n + 2 * j - 1 \in Nat /\ 1 <= n + 2 * j - 1 /\ n + 2 * j \in Nat /\ 1 <= n + 2 * j
    BY <1>3
  <2> QED BY <1>4, <2>1
<1>7. C(j) = pack_16bit_sample(Sample(low, high))
  OBVIOUS
<1> HIDE DEF C, P, low, high
<1>8. p[j] = unpack16BitSample(pack_16bit_sample(Sample(low, high)))
  BY <1>1, <1>5, <1>7
<1>9. p[j] = Sample(low, high)
  <2>1. IsSample(Sample(low, high))
    BY <1>6, SampleIs
  <2> QED BY <1>8, <2>1, PackedIs
<1> HIDE DEF p
<1>10. Unpacked(p)[b] = IF b % 2 = 1 THEN low ELSE high
  <2>1. p[(b + 1) \div 2] = Sample(low, high)
    BY <1>9 DEF j
  <2>2. Byte(p, b, low, high)
    BY <1>6, <2>1, UnpackedIs, Zenon
  <2> QED BY <2>2 DEF Byte
<1>11. DownloadedBytes(n) = Unpacked(p)
  BY DEF DownloadedBytes, p, P
<1>12. raw(n + b) = source[n + b]
  BY DEF raw
<1>13. CASE b % 2 = 1
  <2>1. n + 2 * j - 1 = n + b
    BY <1>1, <1>2, <1>3, <1>13
  <2> QED BY <1>10, <1>11, <1>12, <1>13, <2>1 DEF low
<1>14. CASE b % 2 # 1
  <2>1. n + 2 * j = n + b
    BY <1>1, <1>2, <1>3, <1>14
  <2> QED BY <1>10, <1>11, <1>12, <1>14, <2>1 DEF high
<1> QED BY <1>13, <1>14

-----------------------------------------------------------------------------
(* The bytes: the invariant *)

\* However far the journey is: what arrived is how the file begins, as far as
\* the sender has got but for padding; the sender is at a packet's boundary;
\* and both sides know the same length.
Kept ==
    /\ journey \in {"upload", "download", "firmware"}
    /\ progress \in {"begin", "sending", "ok", "failed"}
    /\ source \in Seq(0..255) /\ Len(source) <= MaxBytes
    /\ sent \in Nat /\ announced \in Nat

Hashed ==
    /\ sha \in [sent : Seq(0..255), arrived : Seq(0..255)]
    /\ \E a, b \in 0..255 : sha.sent = <<a, b>>

Beginning ==
    Len(arrived) \in Nat /\ Len(arrived) <= Len(source) /\ arrived = SubSeq(source, 1, Len(arrived))

AtStart == sent = 0 /\ arrived = << >> /\ Len(arrived) = 0

Uploading ==
    /\ announced = WholeWords /\ sent < Len(source) /\ Len(arrived) = Least(sent, WholeWords)
    /\ \E k \in Nat : sent = BytesPerPacket * k

Downloading == announced = WholeWords /\ sent < WholeWords /\ Len(arrived) = sent

Updating ==
    /\ announced = Len(source) /\ Len(arrived) = Least(sent, Len(source))
    /\ sha.arrived = sha.sent

Ended ==
    /\ progress = "ok" =>
          IF journey = "firmware" THEN Len(arrived) = Len(source) /\ sha.arrived = sha.sent
          ELSE Len(arrived) = WholeWords
    /\ progress = "failed" =>
          \/ Len(source) < 2 /\ arrived = << >>
          \/ journey = "upload" /\ Len(source) % BytesPerPacket = 1 /\ Len(arrived) = WholeWords

Conveyed ==
    /\ Kept /\ Hashed /\ Beginning /\ Ended
    /\ progress = "begin" => AtStart
    /\ progress = "sending" =>
          CASE journey = "upload" -> Uploading
            [] journey = "download" -> Downloading
            [] journey = "firmware" -> Updating

LEMMA WholeWordsAre ==
    ASSUME source \in Seq(0..255)
    PROVE  /\ WholeWords \in Nat /\ WholeWords <= Len(source) /\ Len(source) <= WholeWords + 1
           /\ WholeWords = 2 * (Len(source) \div 2) /\ Len(source) \div 2 \in Nat
           /\ (WholeWords < 2 <=> Len(source) < 2) /\ (WholeWords = 0 <=> Len(source) \div 2 = 0)
           /\ WholeWords \div 2 = Len(source) \div 2
           /\ Len(source) <= MaxBytes => In21Bits(Len(source) \div 2)
<1> DEFINE L == Len(source)  w == 2 * (L \div 2)
<1>1. L \in Nat
  OBVIOUS
<1> HIDE DEF L
<1>2. /\ w \in Nat /\ w <= L /\ L <= w + 1 /\ L \div 2 \in Nat
      /\ (w < 2 <=> L < 2) /\ (w = 0 <=> L \div 2 = 0) /\ w \div 2 = L \div 2
  BY <1>1, SMT
<1>3. L <= MaxBytes => In21Bits(L \div 2)
  <2>1. 2^22 = 4194304 /\ MaxBytes \in Nat
    BY BytesAssumption, SMT
  <2>2. L <= MaxBytes => L < 4194304
    BY <1>1, <2>1, BytesAssumption, SMT
  <2> QED BY <1>1, <2>2, SMT DEF In21Bits
<1> QED BY <1>2, <1>3, SMT DEF WholeWords, L

LEMMA ConveyedInit ==
    ASSUME EncodingInit PROVE Conveyed
<1>1. PICK n \in 0..MaxBytes : source \in [1..n -> Octets]
  BY DEF EncodingInit
<1>2. MaxBytes \in Nat /\ Octets \subseteq 0..255
  BY BytesAssumption
<1>3. source \in Seq(0..255) /\ Len(source) = n
  <2>1. n \in Nat
    BY <1>2
  <2>2. source \in [1..n -> 0..255]
    BY <1>1, <1>2
  <2> QED BY <2>1, <2>2
<1>4. PICK a, b \in Octets : sha = [sent |-> <<a, b>>, arrived |-> << >>]
  BY DEF EncodingInit
<1>5. a \in 0..255 /\ b \in 0..255
  BY <1>2
<1>6. sha \in [sent : Seq(0..255), arrived : Seq(0..255)] /\ sha.sent = <<a, b>>
  <2> DEFINE S == 0..255
  <2>1. a \in S /\ b \in S
    BY <1>5
  <2> HIDE DEF S
  <2>2. <<a, b>> \in Seq(S) /\ << >> \in Seq(S)
    BY <2>1
  <2> QED BY <1>4, <2>2 DEF S
<1>7. Beginning /\ AtStart
  <2>1. SubSeq(source, 1, 0) = << >>
    BY SubSeqEmpty
  <2>2. arrived = << >> /\ Len(arrived) = 0 /\ sent = 0
    BY DEF EncodingInit
  <2> QED BY <1>3, <2>1, <2>2 DEF Beginning, AtStart
<1>8. Kept
  <2>1. n \in Nat /\ n <= MaxBytes
    BY <1>2
  <2> QED BY <1>3, <2>1 DEF EncodingInit, Kept
<1>9. Hashed
  BY <1>5, <1>6 DEF Hashed
<1>10. progress = "begin"
  BY DEF EncodingInit
<1>11. Ended
  BY <1>10 DEF Ended
<1> QED BY <1>7, <1>8, <1>9, <1>10, <1>11 DEF Conveyed

\* Announcing changes neither the file nor what arrived of it.
LEMMA ConveyedAnnounceUpload ==
    ASSUME Conveyed, AnnounceUpload, UNCHANGED <<journey, source>>
    PROVE  Conveyed'
<1> DEFINE words == parse_21bit(lengthToSdsFormat(Len(source)))
<1> USE DEF Conveyed
<1>1. Kept /\ Hashed /\ Beginning
  OBVIOUS
<1>2. words = Len(source) \div 2
  <2> DEFINE n == Len(source) \div 2
  <2>1. In21Bits(n)
    BY <1>1, WholeWordsAre DEF Kept
  <2> HIDE DEF n
  <2>2. parse_21bit(encode_21bit(n)) = n
    BY <2>1, LengthIs
  <2> QED BY <2>2 DEF lengthToSdsFormat, n
<1>3. UNCHANGED <<journey, source, sent, arrived, sha>> /\ WholeWords' = WholeWords
  BY DEF AnnounceUpload, Fails, Agreed, WholeWords
<1>4. AtStart /\ journey = "upload" /\ progress = "begin"
  BY DEF AnnounceUpload
<1>5. Hashed' /\ Beginning'
  BY <1>1, <1>3 DEF Hashed, Beginning
<1> HIDE DEF words
<1>6. CASE words = 0
  <2>1. Len(source) < 2
    BY <1>1, <1>2, <1>6, WholeWordsAre DEF Kept
  <2>2. progress' = "failed" /\ announced' = announced
    BY <1>6 DEF AnnounceUpload, Fails, words
  <2>3. Kept' /\ Ended'
    BY <1>1, <1>3, <1>4, <2>1, <2>2 DEF Kept, Ended, AtStart
  <2> QED BY <1>5, <2>2, <2>3
<1>7. CASE words # 0
  <2>1. progress' = "sending" /\ announced' = 2 * words
    BY <1>7 DEF AnnounceUpload, Agreed, words
  <2>2. /\ 2 * words = WholeWords /\ WholeWords \in Nat /\ WholeWords > 0
        /\ WholeWords <= Len(source)
    BY <1>1, <1>2, <1>7, WholeWordsAre DEF Kept
  <2>3. Kept' /\ Ended'
    BY <1>1, <1>3, <2>1, <2>2 DEF Kept, Ended
  <2>4. Uploading'
    <3>1. BytesPerPacket \in Nat /\ BytesPerPacket' = BytesPerPacket
      BY BytesAssumption DEF BytesPerPacket
    <3>2. (\E k \in Nat : sent = BytesPerPacket * k)'
      <4>1. sent' = BytesPerPacket * 0
        BY <1>3, <1>4, <3>1 DEF AtStart
      <4> QED BY <3>1, <4>1
    <3>3. Len(arrived)' = 0 /\ sent' = 0
      BY <1>3, <1>4 DEF AtStart
    <3>4. (Len(arrived) = Least(sent, WholeWords))' /\ (sent < Len(source))'
      BY <1>1, <1>3, <2>2, <3>3 DEF Least, Kept
    <3> QED BY <1>3, <2>1, <2>2, <3>2, <3>4 DEF Uploading
  <2> QED BY <1>3, <1>4, <1>5, <2>1, <2>3, <2>4
<1> QED BY <1>6, <1>7

LEMMA ConveyedAnnounceDownload ==
    ASSUME Conveyed, AnnounceDownload, UNCHANGED <<journey, source>>
    PROVE  Conveyed'
<1> DEFINE words == parse_21bit(encode_21bit(WholeWords \div 2))
<1> USE DEF Conveyed
<1>1. Kept /\ Hashed /\ Beginning
  OBVIOUS
<1>2. words = Len(source) \div 2
  <2> DEFINE n == WholeWords \div 2
  <2>1. In21Bits(n) /\ n = Len(source) \div 2
    BY <1>1, WholeWordsAre DEF Kept
  <2> HIDE DEF n
  <2>2. parse_21bit(encode_21bit(n)) = n
    BY <2>1, LengthIs
  <2> QED BY <2>1, <2>2 DEF n
<1>3. UNCHANGED <<journey, source, sent, arrived, sha>> /\ WholeWords' = WholeWords
  BY DEF AnnounceDownload, Fails, Agreed, WholeWords
<1>4. AtStart /\ journey = "download" /\ progress = "begin"
  BY DEF AnnounceDownload
<1>5. Hashed' /\ Beginning'
  BY <1>1, <1>3 DEF Hashed, Beginning
<1> HIDE DEF words
<1>6. CASE Len(source) < 2
  <2>2. progress' = "failed" /\ announced' = announced
    BY <1>6 DEF AnnounceDownload, Fails
  <2>3. Kept' /\ Ended'
    BY <1>1, <1>3, <1>4, <1>6, <2>2 DEF Kept, Ended, AtStart
  <2> QED BY <1>5, <2>2, <2>3
<1>7. CASE ~(Len(source) < 2)
  <2>1. progress' = "sending" /\ announced' = 2 * words
    BY <1>7 DEF AnnounceDownload, Agreed, words
  <2>2. 2 * words = WholeWords /\ WholeWords \in Nat /\ WholeWords > 0
    BY <1>1, <1>2, <1>7, WholeWordsAre DEF Kept
  <2>3. Kept' /\ Ended'
    BY <1>1, <1>3, <2>1, <2>2 DEF Kept, Ended
  <2>4. Downloading'
    <3>1. Len(arrived)' = 0 /\ sent' = 0
      BY <1>3, <1>4 DEF AtStart
    <3> QED BY <1>3, <2>1, <2>2, <3>1 DEF Downloading
  <2> QED BY <1>3, <1>4, <1>5, <2>1, <2>3, <2>4
<1> QED BY <1>6, <1>7

\* What is stored carries on from what arrived, if the bytes are the file's.
LEMMA StoredIs ==
    ASSUME Kept, Beginning, NEW bytes, NEW q, q = Least(Len(bytes), announced - Len(arrived)),
           q \in Nat, Len(arrived) + q <= Len(source),
           \A b \in 1..q : bytes[b] = source[Len(arrived) + b],
           arrived' = Stored(bytes), source' = source
    PROVE  Beginning' /\ Len(arrived') = Len(arrived) + q
<1> DEFINE n == Len(arrived)
<1>1. n \in Nat /\ n <= Len(source) /\ arrived = SubSeq(source, 1, n) /\ source \in Seq(0..255)
  BY DEF Beginning, Kept
<1>2. arrived' = arrived \o SubSeq(bytes, 1, q)
  BY DEF Stored
<1> HIDE DEF n
<1>3. n + q <= Len(source) /\ \A b \in 1..q : bytes[b] = source[n + b]
  BY DEF n
<1>4. Continued(source, arrived, bytes, n, q)
  BY <1>1, <1>3, Continues
<1> DEFINE m == n + q
<1>5. m \in Nat
  BY <1>1
<1>6. arrived' = SubSeq(source, 1, m) /\ Len(SubSeq(source, 1, m)) = m
  BY <1>2, <1>4 DEF Continued
<1>7. m <= Len(source) /\ m = Len(arrived) + q
  BY <1>3 DEF n
<1> HIDE DEF m
<1> QED BY <1>5, <1>6, <1>7 DEF Beginning

LEMMA ConveyedUploadPacket ==
    ASSUME Conveyed, UploadPacket, UNCHANGED <<journey, source>>
    PROVE  Conveyed'
<1> USE DEF Conveyed
<1>1. Kept /\ Hashed /\ Beginning /\ Uploading /\ journey = "upload" /\ progress = "sending"
  BY DEF UploadPacket
<1>2. BytesPerPacket \in Nat /\ BytesPerPacket >= 2 /\ BytesPerPacket = 2 * WordsPerPacket
      /\ WordsPerPacket \in Nat
  BY BytesAssumption DEF BytesPerPacket
<1>3. /\ WholeWords \in Nat /\ WholeWords <= Len(source) /\ Len(source) <= WholeWords + 1
      /\ Len(source) \in Nat
  BY <1>1, WholeWordsAre DEF Kept
<1>4. PICK k \in Nat : sent = BytesPerPacket * k
  BY <1>1 DEF Uploading
<1>5. sent % 2 = 0
  <2> DEFINE h == WordsPerPacket * k
  <2>1. h \in Nat
    BY <1>2
  <2>2. sent = 2 * h
    BY <1>2, <1>4
  <2> HIDE DEF h
  <2> QED BY <2>1, <2>2, SMT
<1>6. Hashed' /\ WholeWords' = WholeWords /\ BytesPerPacket' = BytesPerPacket
  BY <1>1 DEF UploadPacket, Fails, Hashed, WholeWords, BytesPerPacket
<1>7. CASE Len(arrived) >= announced
  <2>1. progress' = "failed" /\ UNCHANGED <<sent, announced, arrived, sha>>
    BY <1>7 DEF UploadPacket, Fails
  <2>2. Len(arrived) = WholeWords /\ Len(source) = sent + 1
    BY <1>1, <1>3, <1>7 DEF Uploading, Least, Kept
  <2>3. Len(source) % BytesPerPacket = 1
    <3> DEFINE p == BytesPerPacket
    <3>1. Len(source) = p * k + 1 /\ p \in Nat \ {0} /\ 1 \in 0..p - 1
      BY <1>2, <1>4, <2>2
    <3> HIDE DEF p
    <3>2. (p * k + 1) % p = 1
      BY <3>1, ModUnique
    <3> QED BY <3>1, <3>2 DEF p
  <2>4. Kept' /\ Beginning' /\ Ended'
    BY <1>1, <1>6, <2>1, <2>2, <2>3 DEF Kept, Beginning, Ended
  <2> QED BY <1>6, <2>1, <2>4
<1>8. CASE ~(Len(arrived) >= announced)
  <2> DEFINE U == UploadedBytes(sent)  q == Least(Len(U), announced - Len(arrived))
  <2>1. /\ arrived' = Stored(U) /\ sent' = sent + BytesPerPacket
        /\ progress' = (IF sent' >= Len(source) THEN "ok" ELSE "sending")
        /\ UNCHANGED <<announced, sha>>
    BY <1>8 DEF UploadPacket, UploadedBytes
  <2>2. Len(U) = BytesPerPacket
    BY WholeUnpacked DEF UploadedBytes
  <2>3. announced = WholeWords /\ Len(arrived) = sent /\ sent < WholeWords /\ sent \in Nat
    BY <1>1, <1>3, <1>8 DEF Uploading, Least, Kept
  <2> HIDE DEF U
  <2>4. q \in Nat /\ q <= BytesPerPacket /\ sent + q = Least(sent + BytesPerPacket, WholeWords)
    BY <1>2, <1>3, <2>2, <2>3 DEF Least
  <2>5. sent + q <= WholeWords
    BY <1>2, <1>3, <2>3, <2>4 DEF Least
  <2>6. q = Least(Len(U), announced - Len(arrived))
    OBVIOUS
  <2> HIDE DEF q
  <2>7. \A b \in 1..q : U[b] = source[sent + b]
    <3> SUFFICES ASSUME NEW b \in 1..q PROVE U[b] = source[sent + b]
      OBVIOUS
    <3>1. b \in 1..BytesPerPacket /\ sent + b <= WholeWords
      BY <1>2, <1>3, <2>3, <2>4, <2>5
    <3> QED BY <1>1, <1>5, <2>3, <3>1, UploadedAre DEF Kept, U
  <2>8. Len(arrived) + q <= Len(source)
    BY <1>3, <2>3, <2>4, <2>5
  <2>9. Beginning' /\ Len(arrived') = Len(arrived) + q
    <3>1. \A b \in 1..q : U[b] = source[Len(arrived) + b]
      BY <2>3, <2>7
    <3>2. source' = source
      OBVIOUS
    <3> QED BY <1>1, <2>1, <2>4, <2>6, <2>8, <3>1, <3>2, StoredIs
  <2>10. Len(arrived') = Least(sent', WholeWords)
    BY <2>1, <2>3, <2>4, <2>9
  <2>11. sent' = BytesPerPacket * (k + 1) /\ k + 1 \in Nat /\ sent' \in Nat
    BY <1>2, <1>4, <2>1, <2>3
  <2>12. Kept' /\ progress' # "begin" /\ progress' # "failed"
    BY <1>1, <2>1, <2>11 DEF Kept
  <2>13. CASE sent' >= Len(source)
    <3>1. Len(arrived') = WholeWords
      BY <1>3, <2>10, <2>11, <2>13 DEF Least
    <3>2. Ended' /\ progress' = "ok"
      BY <1>1, <1>6, <2>1, <2>13, <3>1 DEF Ended
    <3> QED BY <1>6, <2>9, <2>12, <3>2
  <2>14. CASE ~(sent' >= Len(source))
    <3>1. progress' = "sending" /\ sent' < Len(source')
      BY <1>3, <2>1, <2>11, <2>14
    <3>2. (\E x \in Nat : sent = BytesPerPacket * x)'
      BY <1>6, <2>11
    <3>3. Uploading'
      BY <1>6, <2>1, <2>3, <2>10, <3>1, <3>2 DEF Uploading, Least
    <3> QED BY <1>1, <1>6, <2>9, <2>12, <3>1, <3>3 DEF Ended
  <2> QED BY <2>13, <2>14
<1> QED BY <1>7, <1>8

LEMMA ConveyedDownloadPacket ==
    ASSUME Conveyed, DownloadPacket, UNCHANGED <<journey, source>>
    PROVE  Conveyed'
<1> USE DEF Conveyed
<1>1. Kept /\ Hashed /\ Beginning /\ Downloading /\ journey = "download" /\ progress = "sending"
  BY DEF DownloadPacket
<1>2. BytesPerPacket \in Nat /\ BytesPerPacket >= 2
  BY BytesAssumption DEF BytesPerPacket
<1>3. WholeWords \in Nat /\ WholeWords <= Len(source) /\ Len(source) \in Nat
  BY <1>1, WholeWordsAre DEF Kept
<1>4. Hashed' /\ WholeWords' = WholeWords
  BY <1>1 DEF DownloadPacket, Hashed, WholeWords
<1> DEFINE U == DownloadedBytes(sent)  q == Least(Len(U), announced - Len(arrived))
<1>5. /\ arrived' = Stored(U) /\ sent' = sent + Least(BytesPerPacket, WholeWords - sent)
      /\ progress' = (IF Len(arrived') >= announced THEN "ok" ELSE "sending")
      /\ UNCHANGED <<announced, sha>>
  BY DEF DownloadPacket, DownloadedBytes
<1>6. Len(U) = BytesPerPacket
  BY WholeUnpacked DEF DownloadedBytes
<1>7. announced = WholeWords /\ Len(arrived) = sent /\ sent < WholeWords /\ sent \in Nat
  BY <1>1 DEF Downloading, Kept
<1> HIDE DEF U
<1>8. /\ q = Least(BytesPerPacket, WholeWords - sent) /\ q \in Nat /\ q <= BytesPerPacket
      /\ sent + q <= WholeWords
  BY <1>2, <1>3, <1>6, <1>7 DEF Least
<1>9. q = Least(Len(U), announced - Len(arrived))
  OBVIOUS
<1> HIDE DEF q
<1>10. \A b \in 1..q : U[b] = source[Len(arrived) + b]
  <2> SUFFICES ASSUME NEW b \in 1..q PROVE U[b] = source[sent + b]
    BY <1>7
  <2>1. b \in 1..BytesPerPacket /\ sent + b <= WholeWords
    BY <1>2, <1>3, <1>7, <1>8
  <2> QED BY <1>1, <1>7, <2>1, DownloadedAre DEF Kept, U
<1>11. Len(arrived) + q <= Len(source)
  BY <1>3, <1>7, <1>8
<1>12. Beginning' /\ Len(arrived') = Len(arrived) + q
  <2>1. source' = source
    OBVIOUS
  <2> QED BY <1>1, <1>5, <1>8, <1>9, <1>10, <1>11, <2>1, StoredIs
<1>13. Len(arrived') = sent' /\ sent' \in Nat /\ sent' <= WholeWords
  BY <1>3, <1>5, <1>7, <1>8, <1>12
<1>14. Kept' /\ progress' # "begin" /\ progress' # "failed"
  BY <1>1, <1>5, <1>13 DEF Kept
<1>15. CASE Len(arrived') >= announced
  <2>1. progress' = "ok" /\ Len(arrived') = WholeWords
    BY <1>3, <1>5, <1>7, <1>13, <1>15
  <2>2. Ended'
    BY <1>1, <1>4, <2>1 DEF Ended
  <2> QED BY <1>4, <1>12, <1>14, <2>1, <2>2
<1>16. CASE ~(Len(arrived') >= announced)
  <2>1. progress' = "sending" /\ sent' < WholeWords
    BY <1>3, <1>5, <1>7, <1>13, <1>16
  <2>2. Downloading' /\ Ended'
    BY <1>1, <1>4, <1>5, <1>7, <1>13, <2>1 DEF Downloading, Ended
  <2> QED BY <1>1, <1>4, <1>12, <1>14, <2>1, <2>2
<1> QED BY <1>15, <1>16

\* A chunk of whole groups.
Multiple(S, n) == n \div S \in Nat /\ n = S * (n \div S)

LEMMA MultipleIs ==
    ASSUME NEW S \in 1..7, NEW n \in Nat, n % S = 0
    PROVE  Multiple(S, n)
<1>1. CASE S = 1
  <2>1. n % 1 = 0
    BY <1>1
  <2>2. n \div 1 \in Nat /\ n = 1 * (n \div 1)
    BY <2>1, SMT
  <2> QED BY <1>1, <2>2 DEF Multiple
<1>2. CASE S = 2
  <2>1. n % 2 = 0
    BY <1>2
  <2>2. n \div 2 \in Nat /\ n = 2 * (n \div 2)
    BY <2>1, SMT
  <2> QED BY <1>2, <2>2 DEF Multiple
<1>3. CASE S = 3
  <2>1. n % 3 = 0
    BY <1>3
  <2>2. n \div 3 \in Nat /\ n = 3 * (n \div 3)
    BY <2>1, SMT
  <2> QED BY <1>3, <2>2 DEF Multiple
<1>4. CASE S = 4
  <2>1. n % 4 = 0
    BY <1>4
  <2>2. n \div 4 \in Nat /\ n = 4 * (n \div 4)
    BY <2>1, SMT
  <2> QED BY <1>4, <2>2 DEF Multiple
<1>5. CASE S = 5
  <2>1. n % 5 = 0
    BY <1>5
  <2>2. n \div 5 \in Nat /\ n = 5 * (n \div 5)
    BY <2>1, SMT
  <2> QED BY <1>5, <2>2 DEF Multiple
<1>6. CASE S = 6
  <2>1. n % 6 = 0
    BY <1>6
  <2>2. n \div 6 \in Nat /\ n = 6 * (n \div 6)
    BY <2>1, SMT
  <2> QED BY <1>6, <2>2 DEF Multiple
<1>7. CASE S = 7
  <2>1. n % 7 = 0
    BY <1>7
  <2>2. n \div 7 \in Nat /\ n = 7 * (n \div 7)
    BY <2>1, SMT
  <2> QED BY <1>7, <2>2 DEF Multiple
<1> QED BY <1>1, <1>2, <1>3, <1>4, <1>5, <1>6, <1>7

LEMMA ConveyedFirmwareBytes ==
    ASSUME Conveyed, FirmwareBytes, UNCHANGED <<journey, source>>
    PROVE  Conveyed'
<1> USE DEF Conveyed
<1>1. /\ Kept /\ Hashed /\ Beginning /\ Updating /\ journey = "firmware" /\ progress = "sending"
      /\ sent < Len(source)
  BY DEF FirmwareBytes
<1> DEFINE L == Len(source)  last == Least(sent + ChunkSize, L)
           chunk == SubSeq(source, sent + 1, last)  c == Len(chunk)
           g == (c + GroupSize - 1) \div GroupSize  m == GroupSize * g
           bytes == decode_8_to_7(encode8to7(chunk))
           q == Least(Len(bytes), announced - Len(arrived))
<1>2. L \in Nat /\ sent \in Nat /\ sent < L /\ ChunkSize \in Nat /\ ChunkSize > 0 /\ GroupSize \in 1..7
  BY <1>1, ChunkAssumption DEF Kept
<1>3. announced = L /\ Len(arrived) = sent
  BY <1>1, <1>2 DEF Updating, Least
<1>4. last \in Nat /\ sent + 1 <= last /\ last <= L /\ last <= sent + ChunkSize
      /\ (last = L \/ last = sent + ChunkSize)
  BY <1>2 DEF Least
<1> HIDE DEF last
<1>5. /\ chunk \in Seq(0..255) /\ c = last - sent /\ \A b \in 1..c : chunk[b] = source[sent + b]
  <2> DEFINE i == sent + 1
  <2>1. i \in Nat /\ 1 <= i /\ i - 1 <= last
    BY <1>2, <1>4
  <2> HIDE DEF i
  <2>2. PartOf(0..255, source, i, last)
    BY <1>1, <1>4, <2>1, PartIs DEF Kept
  <2>3. /\ SubSeq(source, i, last) \in Seq(0..255) /\ Len(SubSeq(source, i, last)) = last - i + 1
        /\ \A j \in 1..last - i + 1 : SubSeq(source, i, last)[j] = source[i + j - 1]
    BY <2>2 DEF PartOf
  <2>4. last - i + 1 = last - sent /\ \A j \in Int : i + j - 1 = sent + j
    BY <1>2, <1>4 DEF i
  <2>5. \A j \in 1..last - sent : SubSeq(source, i, last)[j] = source[sent + j]
    BY <2>3, <2>4
  <2> QED BY <2>3, <2>4, <2>5 DEF i
<1> HIDE DEF chunk
<1>6. bytes = Padded(chunk)
  BY <1>5, FirmwareBytesAre
<1>7. PaddedTo(chunk, g)
  BY <1>5, PaddedIs
<1> HIDE DEF g
<1>8. /\ m \in Nat /\ Len(bytes) = m /\ c <= m /\ m < c + GroupSize /\ \A b \in 1..c : bytes[b] = chunk[b]
      /\ \A k \in Nat : c = GroupSize * k => m = c
  <2>1. g \in Nat /\ GroupSize \in Nat
    BY <1>2, <1>7 DEF PaddedTo
  <2>2. m \in Nat
    BY <2>1
  <2> HIDE DEF m
  <2> QED BY <1>6, <1>7, <2>2 DEF PaddedTo, m
<1>9. c = L - sent \/ m = c
  <2>1. CASE last = L
    BY <1>5, <2>1
  <2>2. CASE last = sent + ChunkSize
    <3>1. c = ChunkSize
      BY <1>2, <1>5, <2>2
    <3>2. Multiple(GroupSize, ChunkSize)
      BY <1>2, ChunkAssumption, MultipleIs
    <3> QED BY <1>8, <3>1, <3>2 DEF Multiple
  <2> QED BY <1>4, <2>1, <2>2
<1> HIDE DEF m, c, bytes
<1>10. c \in Nat /\ c >= 1 /\ sent + c = last
  BY <1>2, <1>4, <1>5
<1>11. q = c
  BY <1>2, <1>3, <1>4, <1>8, <1>9, <1>10 DEF Least
<1>12. ~(Len(bytes) - (announced - Len(arrived)) >= GroupSize)
  <2> DEFINE x == Len(bytes)
  <2>1. x \in Nat /\ x < c + GroupSize
    BY <1>8
  <2>2. announced - Len(arrived) = L - sent
    BY <1>3
  <2>3. c <= L - sent
    BY <1>2, <1>4, <1>10
  <2> HIDE DEF x, L
  <2>4. ~(x - (L - sent) >= GroupSize)
    BY <1>2, <1>10, <2>1, <2>3
  <2> QED BY <2>2, <2>4 DEF x
<1>13. /\ arrived' = Stored(bytes) /\ sent' = sent + ChunkSize
       /\ UNCHANGED <<progress, announced, sha>>
  BY <1>12 DEF FirmwareBytes, bytes, chunk, last
<1>14. q = Least(Len(bytes), announced - Len(arrived))
  OBVIOUS
<1> HIDE DEF q
<1>15. Beginning' /\ Len(arrived') = Len(arrived) + q
  <2>1. \A b \in 1..q : bytes[b] = source[Len(arrived) + b]
    BY <1>3, <1>5, <1>8, <1>11
  <2>2. source' = source /\ q \in Nat /\ Len(arrived) + q <= Len(source)
    BY <1>2, <1>3, <1>4, <1>10, <1>11
  <2> QED BY <1>1, <1>13, <1>14, <2>1, <2>2, StoredIs
<1>16. Len(arrived') = Least(sent', Len(source')) /\ sent' \in Nat
  <2>1. Len(arrived') = last /\ sent' = sent + ChunkSize
    BY <1>3, <1>10, <1>11, <1>13, <1>15
  <2> QED BY <1>2, <2>1 DEF last, Least
<1>17. Kept' /\ Hashed' /\ Ended' /\ Updating'
  BY <1>1, <1>3, <1>13, <1>16 DEF Kept, Hashed, Ended, Updating, Least
<1> QED BY <1>1, <1>13, <1>15, <1>17

LEMMA ConveyedEndFirmwareUpdate ==
    ASSUME Conveyed, EndFirmwareUpdate, UNCHANGED <<journey, source>>
    PROVE  Conveyed'
<1> USE DEF Conveyed
<1>1. Kept /\ Hashed /\ Beginning /\ Updating /\ journey = "firmware" /\ sent >= Len(source)
  BY DEF EndFirmwareUpdate
<1>2. UNCHANGED <<sent, announced, arrived, sha>>
  BY DEF EndFirmwareUpdate
<1>3. Len(arrived) = Len(source) /\ announced = Len(source)
  BY <1>1 DEF Updating, Least, Kept
<1>4. progress' = "ok"
  BY <1>3 DEF EndFirmwareUpdate
<1>5. Kept' /\ Hashed' /\ Beginning' /\ Ended'
  BY <1>1, <1>2, <1>3, <1>4 DEF Kept, Hashed, Beginning, Ended, Updating
<1> QED BY <1>4, <1>5

\* Two sequences behind each other.
Joint(S, s, t, n, m) ==
    /\ s \o t \in Seq(S) /\ Len(s \o t) = n + m
    /\ \A i \in 1..n : (s \o t)[i] = s[i]
    /\ \A i \in 1..m : (s \o t)[n + i] = t[i]

LEMMA Joined ==
    ASSUME NEW S, NEW s \in Seq(S), NEW t \in Seq(S), NEW n \in Nat, NEW m \in Nat,
           Len(s) = n, Len(t) = m
    PROVE  Joint(S, s, t, n, m)
<1> DEFINE w == s \o t
<1>1. /\ w \in Seq(S) /\ Len(w) = n + m
      /\ \A i \in 1..n + m : w[i] = IF i <= n THEN s[i] ELSE t[i - n]
  BY ConcatProperties
<1> HIDE DEF w
<1>2. \A i \in 1..n : w[i] = s[i]
  BY <1>1
<1>3. ASSUME NEW i \in 1..m PROVE w[n + i] = t[i]
  <2>1. n + i \in 1..n + m /\ ~(n + i <= n) /\ (n + i) - n = i
    OBVIOUS
  <2> QED BY <1>1, <2>1
<1> QED BY <1>1, <1>2, <1>3 DEF Joint, w

LEMMA ConveyedAnnounceFirmware ==
    ASSUME Conveyed, AnnounceFirmware, UNCHANGED <<journey, source>>
    PROVE  Conveyed'
<1> USE DEF Conveyed
<1> DEFINE L == Len(source)
           size == [i \in 1..4 |-> (L \div (256^(i - 1))) % 256]
           payload == size \o sha.sent \o <<0, 0, 0>>
           bytes == ValueBytes(decode_3_to_16bit(encode3to16(payload)))
<1>1. Kept /\ Hashed /\ Beginning /\ AtStart /\ journey = "firmware" /\ progress = "begin"
  BY DEF AnnounceFirmware
<1>2. L \in Nat
  BY <1>1 DEF Kept
<1>3. PICK a, b \in 0..255 : sha.sent = <<a, b>>
  BY <1>1 DEF Hashed
<1>4. SizeOf(L)
  BY <1>1, SizeFits DEF Kept
<1>5. /\ size \in Seq(0..255) /\ Len(size) = 4
      /\ size[1] = SizeByte(L, 1) /\ size[2] = SizeByte(L, 2) /\ size[3] = SizeByte(L, 3)
      /\ size[4] = SizeByte(L, 4)
  <2> DEFINE S == 0..255
  <2>1. size = [i \in 1..4 |-> SizeByte(L, i)]
    BY DEF SizeByte
  <2>2. \A i \in 1..4 : SizeByte(L, i) \in S
    BY <1>4 DEF SizeOf
  <2> HIDE DEF S, L, size
  <2>3. size \in [1..4 -> S]
    BY <2>1, <2>2
  <2>4. size \in Seq(S) /\ Len(size) = 4
    <3> DEFINE k == 4
    <3>1. k \in Nat /\ size \in [1..k -> S]
      BY <2>3
    <3> HIDE DEF k
    <3>2. size \in Seq(S) /\ Len(size) = k
      BY <3>1
    <3> QED BY <3>2 DEF k
  <2> QED BY <2>1, <2>4 DEF S
<1>6. /\ payload \in Seq(0..255) /\ Len(payload) = 9
      /\ \A i \in 1..4 : payload[i] = size[i]
      /\ payload[5] = a /\ payload[6] = b
  <2> DEFINE S == 0..255  h == <<a, b>>  v == <<0, 0, 0>>  p == size \o h
  <2>1. h \in Seq(S) /\ Len(h) = 2 /\ h[1] = a /\ h[2] = b /\ v \in Seq(S) /\ Len(v) = 3
    <3>1. a \in S /\ b \in S /\ 0 \in S
      OBVIOUS
    <3> HIDE DEF S
    <3> QED BY <3>1
  <2>2. size \in Seq(S) /\ Len(size) = 4
    BY <1>5
  <2> HIDE DEF S, h, v
  <2>3. Joint(S, size, h, 4, 2)
    BY <2>1, <2>2, Joined
  <2>4. p \in Seq(S) /\ Len(p) = 6 /\ p[5] = a /\ p[6] = b /\ \A i \in 1..4 : p[i] = size[i]
    <3>1. p \in Seq(S) /\ Len(p) = 6 /\ \A i \in 1..4 : p[i] = size[i]
      BY <2>3 DEF Joint
    <3>2. p[4 + 1] = h[1] /\ p[4 + 2] = h[2]
      BY <2>3 DEF Joint
    <3> HIDE DEF p
    <3> QED BY <2>1, <3>1, <3>2
  <2> HIDE DEF p
  <2>5. Joint(S, p, v, 6, 3)
    BY <2>1, <2>4, Joined
  <2>6. payload = p \o v
    BY <1>3 DEF p, v, h
  <2> HIDE DEF payload
  <2>7. payload \in Seq(S) /\ Len(payload) = 9 /\ \A i \in 1..6 : payload[i] = p[i]
    <3>1. /\ payload \in Seq(S) /\ Len(payload) = 6 + 3
          /\ \A i \in 1..6 : payload[i] = p[i]
      BY <2>5, <2>6, Zenon DEF Joint
    <3> QED BY <3>1
  <2>8. \A i \in 1..4 : payload[i] = size[i]
    <3> SUFFICES ASSUME NEW i \in 1..4 PROVE payload[i] = size[i]
      OBVIOUS
    <3>1. i \in 1..6
      OBVIOUS
    <3>2. payload[i] = p[i] /\ p[i] = size[i]
      BY <2>4, <2>7, <3>1, Zenon
    <3> QED BY <3>2
  <2>9. payload[5] = a /\ payload[6] = b
    BY <2>4, <2>7
  <2> QED BY <2>7, <2>8, <2>9 DEF S
<1> HIDE DEF payload
<1>7. Len(bytes) = 10 /\ \A i \in 1..9 : bytes[i] = payload[i]
  <2>1. Len(bytes) = 2 * ((Len(payload) + 1) \div 2) /\ \A i \in 1..Len(payload) : bytes[i] = payload[i]
    BY <1>6, ValuesAre
  <2> HIDE DEF bytes
  <2> QED BY <1>6, <2>1
<1> HIDE DEF bytes
<1>8. bytes[1] + 256 * bytes[2] + 256^2 * bytes[3] + 256^3 * bytes[4] = L
  <2>1. /\ bytes[1] = SizeByte(L, 1) /\ bytes[2] = SizeByte(L, 2) /\ bytes[3] = SizeByte(L, 3)
        /\ bytes[4] = SizeByte(L, 4)
    BY <1>5, <1>6, <1>7
  <2> HIDE DEF L
  <2> QED BY <1>4, <2>1, Zenon DEF SizeOf
<1>9. SubSeq(bytes, 5, 6) = <<a, b>>
  <2>1. bytes[5] = a /\ bytes[6] = b
    BY <1>6, <1>7
  <2>2. SubSeq(bytes, 5, 6) = [j \in 1..2 |-> bytes[4 + j]]
    BY SMT
  <2>3. <<a, b>> = [j \in 1..2 |-> <<a, b>>[j]]
    OBVIOUS
  <2>4. \A j \in 1..2 : bytes[4 + j] = <<a, b>>[j]
    BY <2>1
  <2> QED BY <2>2, <2>3, <2>4
<1>10. UNCHANGED <<journey, source, sent, arrived>>
  BY DEF AnnounceFirmware, Fails, Agreed
<1>11. Beginning'
  BY <1>1, <1>10 DEF Beginning
<1>12. CASE source = << >>
  <2>1. progress' = "failed" /\ UNCHANGED <<announced, sha>>
    BY <1>12 DEF AnnounceFirmware, Fails
  <2>2. Len(source) < 2
    BY <1>12, EmptySeq
  <2>3. Kept' /\ Hashed' /\ Ended'
    BY <1>1, <1>10, <2>1, <2>2 DEF Kept, Hashed, Ended, AtStart
  <2> QED BY <1>11, <2>1, <2>3
<1>13. CASE source # << >>
  <2>1. ~(Len(bytes) < Len(payload))
    BY <1>6, <1>7
  <2>2. /\ progress' = "sending"
        /\ announced' = bytes[1] + 256 * bytes[2] + 256^2 * bytes[3] + 256^3 * bytes[4]
        /\ sha' = [sha EXCEPT !.arrived = SubSeq(bytes, 5, 4 + Len(sha.sent))]
    BY <1>13, <2>1, Zenon DEF AnnounceFirmware, Agreed, bytes, payload, size
  <2>3. announced' = L
    BY <1>8, <2>2, Zenon
  <2>4. Len(sha.sent) = 2
    BY <1>3
  <2>5. sha' = [sha EXCEPT !.arrived = sha.sent]
    <3>1. 4 + Len(sha.sent) = 6 /\ SubSeq(bytes, 5, 6) = sha.sent
      BY <1>3, <1>9, <2>4
    <3> QED BY <2>2, <3>1, Zenon
  <2>6. Hashed' /\ sha'.arrived = sha'.sent
    BY <1>1, <2>5 DEF Hashed
  <2>7. Kept' /\ Ended'
    BY <1>1, <1>2, <1>10, <2>2, <2>3 DEF Kept, Ended
  <2>8. Updating'
    <3>1. Len(arrived') = 0 /\ sent' = 0 /\ Len(source') = L
      BY <1>1, <1>10 DEF AtStart
    <3> QED BY <1>2, <2>3, <2>6, <3>1 DEF Updating, Least
  <2> QED BY <1>1, <1>10, <1>11, <2>2, <2>6, <2>7, <2>8
<1> QED BY <1>12, <1>13

LEMMA ConveyedNext ==
    ASSUME Conveyed, [EncodingNext]_encodingVars PROVE Conveyed'
<1>1. CASE EncodingNext
  <2>1. UNCHANGED <<journey, source>>
    BY <1>1 DEF EncodingNext
  <2> QED BY <1>1, <2>1, ConveyedAnnounceUpload, ConveyedAnnounceDownload, ConveyedAnnounceFirmware,
             ConveyedUploadPacket, ConveyedDownloadPacket, ConveyedFirmwareBytes,
             ConveyedEndFirmwareUpdate DEF EncodingNext
<1>2. CASE UNCHANGED encodingVars
  <2>1. /\ UNCHANGED <<journey, source, progress, sent, announced, arrived, sha>>
        /\ WholeWords' = WholeWords /\ BytesPerPacket' = BytesPerPacket
    BY <1>2 DEF encodingVars, WholeWords, BytesPerPacket
  <2>2. Kept /\ Hashed /\ Beginning /\ Ended
    BY DEF Conveyed
  <2>3. Kept' /\ Hashed' /\ Beginning' /\ Ended'
    <3>1. Kept' /\ Hashed'
      BY <2>1, <2>2 DEF Kept, Hashed
    <3>2. Beginning'
      BY <2>1, <2>2 DEF Beginning
    <3>3. Ended'
      BY <2>1, <2>2 DEF Ended
    <3> QED BY <3>1, <3>2, <3>3
  <2>4. CASE progress = "begin"
    <3>1. AtStart'
      BY <2>1, <2>4 DEF Conveyed, AtStart
    <3> QED BY <2>1, <2>3, <2>4, <3>1 DEF Conveyed
  <2>5. CASE progress = "sending"
    <3>1. CASE journey = "upload"
      <4>1. Uploading'
        BY <2>1, <2>5, <3>1 DEF Conveyed, Uploading, Least
      <4> QED BY <2>1, <2>3, <2>5, <3>1, <4>1 DEF Conveyed
    <3>2. CASE journey = "download"
      <4>1. Downloading'
        BY <2>1, <2>5, <3>2 DEF Conveyed, Downloading
      <4> QED BY <2>1, <2>3, <2>5, <3>2, <4>1 DEF Conveyed
    <3>3. CASE journey = "firmware"
      <4>1. Updating'
        BY <2>1, <2>5, <3>3 DEF Conveyed, Updating, Least
      <4> QED BY <2>1, <2>3, <2>5, <3>3, <4>1 DEF Conveyed
    <3> QED BY <2>2, <3>1, <3>2, <3>3 DEF Kept
  <2>6. CASE progress \notin {"begin", "sending"}
    BY <2>1, <2>3, <2>6 DEF Conveyed
  <2> QED BY <2>4, <2>5, <2>6
<1> QED BY <1>1, <1>2

\* Whatever the bytes of a file, what arrives of it at any time is how it
\* begins, and all of it but an odd byte in the end: the packing, the padding
\* and the cutting of ArrivesAsSent, for files, packets, chunks and groups of
\* any size the fields allow.
THEOREM ArrivesAsSentAlways == EncodingSpec => []ArrivesAsSent
<1>1. Conveyed => ArrivesAsSent
  BY DEF Conveyed, Kept, Beginning, Ended, ArrivesAsSent
<1> QED BY <1>1, ConveyedInit, ConveyedNext, PTL DEF EncodingSpec
=============================================================================

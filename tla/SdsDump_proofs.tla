--------------------------- MODULE SdsDump_proofs ---------------------------
(***************************************************************************)
(* Proofs about SdsDump, for samples of any length, any number of packet   *)
(* numbers from 2, any sessions, faults and capacity of the link: types    *)
(* are kept, and a sample the host reports as downloaded is the stored     *)
(* one.                                                                    *)
(***************************************************************************)
EXTENDS SdsDump, Lemmas

IsData(m) == m.type = "data"

\* The types, with what the next step needs to keep them: a dump that sends
\* blocks has sent one.
Types ==
    /\ device \in [state : DumpState, sent : 0..Packets, wait : BOOLEAN]
    /\ host \in [phase : {"idle", "asking", "receiving", "done", "empty", "failed"},
                 stored : Seq(Block), busy : BOOLEAN]
    /\ toHost \in Seq(ToHost) /\ toDevice \in Seq(ToDevice)
    /\ prompt \in BOOLEAN
    /\ faults \in 0..MaxFaults /\ sessions \in 0..MaxSessions
    /\ device.sent = 0 <=> device.state \in {"Idle", "AwaitingHeaderResponse"}

\* A session asks once: until the device has heard it, no header of this
\* session is on its way, and nothing is asked of a dump that runs.
Asking ==
    /\ host.phase = "asking" =>
         /\ host.stored = <<>>
         /\ \A k \in 1..Len(toDevice) : toDevice[k] \in {"cancel", "request"}
         /\ (\E k \in 1..Len(toHost) : toHost[k].type = "header") => toDevice = <<>>
         /\ \A j, k \in 1..Len(toDevice) : j < k => toDevice[j] # "request"
    /\ host.phase = "receiving" => \A k \in 1..Len(toDevice) : toDevice[k] # "request"

\* The messages the host will listen to: all if it is receiving, those after
\* the header if it waits for one.
Fresh(k) ==
    \/ host.phase = "receiving"
    \/ host.phase = "asking" /\ \E j \in 1..Len(toHost) : j < k /\ toHost[j].type = "header"

\* Blocks travel in order, after those that are stored and up to the last one
\* sent; a stored block has the number of its place.
Order ==
    /\ \A k \in 1..Len(toHost) : Fresh(k) /\ IsData(toHost[k]) =>
         /\ device.state # "Idle" => toHost[k].block < device.sent
         /\ \A i \in 1..Len(host.stored) : host.stored[i] <= toHost[k].block
    /\ \A j, k \in 1..Len(toHost) :
         j < k /\ Fresh(j) /\ IsData(toHost[j]) /\ IsData(toHost[k])
            => toHost[j].block <= toHost[k].block
    /\ host.phase = "receiving" /\ device.state # "Idle" =>
         \A i \in 1..Len(host.stored) : host.stored[i] < device.sent

Stored ==
    /\ \A i \in 1..Len(host.stored) : host.stored[i] % PacketNumbers = (i - 1) % PacketNumbers
    /\ \A i, j \in 1..Len(host.stored) : i < j => host.stored[j] - host.stored[i] >= j - i
    /\ host.phase = "done" => Len(host.stored) = Packets

-----------------------------------------------------------------------------
(* Types *)

LEMMA MessageIs ==
    /\ Header \in ToHost /\ Damaged \in ToHost /\ Cancel \in ToHost
    /\ \A b \in Block : Data(b) \in ToHost /\ IsData(Data(b)) /\ Data(b).block = b
                          /\ Data(b).type # "header"
    /\ \A m \in ToHost : IsData(m) => m.block \in Block
    /\ ~IsData(Header) /\ ~IsData(Damaged) /\ ~IsData(Cancel)
    /\ Damaged.type # "header" /\ Cancel.type # "header"
    /\ {"ack", "nak", "wait", "cancel"} = Response /\ Response \subseteq ToDevice
    /\ "request" \in ToDevice
<1>1. \A m \in ToHost : IsData(m) => m.block \in Block
  BY DEF Header, Damaged, Cancel, Data, ToHost, IsData
<1>2. /\ Header \in ToHost /\ Damaged \in ToHost /\ Cancel \in ToHost
      /\ ~IsData(Header) /\ ~IsData(Damaged) /\ ~IsData(Cancel)
      /\ Damaged.type # "header" /\ Cancel.type # "header"
  BY DEF Header, Damaged, Cancel, ToHost, IsData
<1>3. \A b \in Block : Data(b) \in ToHost /\ IsData(Data(b)) /\ Data(b).block = b
                         /\ Data(b).type # "header"
  BY DEF Data, ToHost, IsData
<1> QED BY <1>1, <1>2, <1>3 DEF Response, ToDevice

LEMMA SendIs ==
    ASSUME NEW S, NEW s \in Seq(S), NEW m \in S
    PROVE  /\ Send(s, m) \in Seq(S)
           /\ Len(Send(s, m)) \in {Len(s), Len(s) + 1}
           /\ \A k \in 1..Len(Send(s, m)) :
                 \/ k \in 1..Len(s) /\ Send(s, m)[k] = s[k]
                 \/ k = Len(s) + 1 /\ Send(s, m)[k] = m
  BY SentIs DEF Send

\* What a dump that runs sends, and what becomes of it: its next block, its
\* last message again, CANCEL, or nothing.
DumpSends(m) ==
    /\ m \in ToHost /\ (toHost' = Send(toHost, m) \/ toHost' = toHost)
    /\ device.state # "Idle"
    /\ device'.state # "Idle" => device.sent <= device'.sent
    /\ IsData(m) => device.sent - 1 <= m.block /\
                      (device'.state # "Idle" => m.block < device'.sent)
    /\ m.type = "header" => device.state = "AwaitingHeaderResponse"

DeviceTypes ==
    /\ device' \in [state : DumpState, sent : 0..Packets, wait : BOOLEAN]
    /\ device'.sent = 0 <=> device'.state \in {"Idle", "AwaitingHeaderResponse"}

LEMMA FinishIs ==
    ASSUME Types, Finish
    PROVE  DeviceTypes /\ device'.state = "Idle"
  BY SizeAssumption DEF Finish, IdleDump, DeviceTypes, DumpState

LEMMA SendNextIs ==
    ASSUME Types, ~transfer_complete, device.state # "Idle", SendNextPacket
    PROVE  DeviceTypes /\ \E m \in ToHost : DumpSends(m) /\ m.type # "header"
<1>1. device.sent \in Block /\ device.sent + 1 \in 0..Packets /\ device.sent \in Nat
  BY SizeAssumption DEF transfer_complete, Types, Block
<1>2. CASE /\ device' = [state |-> IF device.state = "OpenLoop" THEN "OpenLoop"
                                   ELSE "AwaitingPacketResponse",
                         sent  |-> device.sent + 1, wait  |-> FALSE]
           /\ toHost' = Send(toHost, Data(device.sent))
  <2>1. DeviceTypes /\ device'.sent = device.sent + 1
    BY <1>1, <1>2 DEF DeviceTypes, DumpState
  <2>2. Data(device.sent) \in ToHost /\ Data(device.sent).block = device.sent
        /\ Data(device.sent).type # "header"
    BY <1>1, MessageIs DEF Data
  <2>3. DumpSends(Data(device.sent))
    BY <1>1, <1>2, <2>1, <2>2 DEF DumpSends
  <2> QED BY <2>1, <2>2, <2>3
<1>3. CASE toHost' = Send(toHost, Cancel) /\ Finish
  <2>1. DumpSends(Cancel)
    BY <1>3, MessageIs, FinishIs DEF DumpSends
  <2> QED BY <1>3, <2>1, MessageIs, FinishIs
<1> QED BY <1>2, <1>3 DEF SendNextPacket

LEMMA LastSentIs ==
    ASSUME Types, device.state # "Idle"
    PROVE  /\ LastSent \in ToHost
           /\ IsData(LastSent) => device.sent - 1 <= LastSent.block /\ LastSent.block < device.sent
           /\ LastSent.type = "header" => device.state = "AwaitingHeaderResponse"
<1>1. CASE device.sent = 0
  BY <1>1, MessageIs DEF LastSent, Types
<1>2. CASE device.sent # 0
  <2>1. device.sent - 1 \in Block
    BY <1>2, SizeAssumption DEF Types, Block
  <2>2. /\ LastSent = Data(device.sent - 1) /\ LastSent \in ToHost
        /\ LastSent.block = device.sent - 1 /\ LastSent.type = "data"
    BY <1>2, <2>1, MessageIs DEF LastSent, Data
  <2> QED BY <2>1, <2>2 DEF Types
<1> QED BY <1>1, <1>2

\* Whatever a running dump does, in answer to a response or in its own time.
DumpRuns == DeviceTypes /\ \E m \in ToHost : DumpSends(m) /\
                (m.type = "header" => toDevice # <<>> /\ Head(toDevice) = "nak")

LEMMA ResponseRuns ==
    ASSUME Types, device.state # "Idle", NEW r \in Response, toDevice # <<>>, Head(toDevice) = r,
           HandleResponse(r)
    PROVE  DumpRuns
<1>1. CASE r = "ack" /\ HandleAck
  <2>1. CASE transfer_complete
    <3>1. Finish /\ UNCHANGED toHost
      BY <1>1, <2>1 DEF HandleAck
    <3>2. DumpSends(Cancel)
      BY <3>1, MessageIs, FinishIs DEF DumpSends
    <3> QED BY <3>1, <3>2, MessageIs, FinishIs DEF DumpRuns
  <2>2. CASE ~transfer_complete
    BY <1>1, <2>2, SendNextIs DEF HandleAck, DumpRuns
  <2> QED BY <2>1, <2>2
<1>2. CASE r = "nak" /\ HandleNak
  <2>1. DeviceTypes /\ device'.state = device.state /\ device'.sent = device.sent
    BY <1>2 DEF HandleNak, DeviceTypes, Types
  <2>2. DumpSends(LastSent)
    BY <1>2, <2>1, LastSentIs DEF HandleNak, ResendLast, DumpSends, Types
  <2> QED BY <1>2, <2>1, <2>2, LastSentIs DEF DumpRuns
<1>3. CASE r = "wait" /\ HandleWait
  <2>1. DeviceTypes /\ device'.state = device.state /\ device'.sent = device.sent
    BY <1>3 DEF HandleWait, DeviceTypes, Types
  <2>2. DumpSends(Cancel)
    BY <1>3, <2>1, MessageIs DEF HandleWait, DumpSends, Types
  <2> QED BY <2>1, <2>2, MessageIs DEF DumpRuns
<1>4. CASE r = "cancel" /\ HandleCancel
  <2>1. DumpSends(Cancel)
    BY <1>4, MessageIs, FinishIs DEF HandleCancel, DumpSends
  <2> QED BY <1>4, <2>1, MessageIs, FinishIs DEF HandleCancel, DumpRuns
<1> QED BY <1>1, <1>2, <1>3, <1>4 DEF HandleResponse

LEMMA TimerRuns ==
    ASSUME Types, HeaderTimeout \/ Retransmit \/ OpenLoopTick \/ Stall
    PROVE  DumpRuns /\ UNCHANGED <<host, toDevice, prompt, faults, sessions>>
<1>1. CASE HeaderTimeout
  <2>1. CASE device' = [device EXCEPT !.state = "OpenLoop", !.sent = 1] /\ toHost' = Send(toHost, Data(0))
    <3>1. 0 \in Block /\ 1 \in 0..Packets
      BY SizeAssumption DEF Block
    <3>2. DeviceTypes /\ device'.sent = 1 /\ device.sent = 0 /\ device.state # "Idle"
      <4>1. /\ device \in [state : DumpState, sent : 0..Packets, wait : BOOLEAN]
            /\ device.state = "AwaitingHeaderResponse" /\ device.sent = 0
        BY <1>1 DEF HeaderTimeout, Types
      <4>2. "OpenLoop" \in DumpState
        BY DEF DumpState
      <4>3. /\ device' \in [state : DumpState, sent : 0..Packets, wait : BOOLEAN]
            /\ device'.state = "OpenLoop" /\ device'.sent = 1
        BY <2>1, <3>1, <4>1, <4>2
      <4> QED BY <4>1, <4>3 DEF DeviceTypes
    <3>3. DumpSends(Data(0))
      BY <2>1, <3>1, <3>2, MessageIs DEF DumpSends
    <3> QED BY <1>1, <3>1, <3>2, <3>3, MessageIs DEF DumpRuns, HeaderTimeout
  <2>2. CASE toHost' = Send(toHost, Cancel) /\ Finish
    <3>1. DumpSends(Cancel)
      BY <1>1, <2>2, MessageIs, FinishIs DEF DumpSends, HeaderTimeout
    <3> QED BY <1>1, <2>2, <3>1, MessageIs, FinishIs DEF DumpRuns, HeaderTimeout
  <2> QED BY <1>1, <2>1, <2>2 DEF HeaderTimeout
<1>2. CASE Retransmit
  <2>1. DeviceTypes /\ device' = device /\ device.state = "AwaitingPacketResponse"
    BY <1>2 DEF Retransmit, DeviceTypes, Types
  <2>2. DumpSends(LastSent) /\ LastSent.type # "header"
    BY <1>2, <2>1, LastSentIs DEF Retransmit, ResendLast, DumpSends, Types
  <2> QED BY <1>2, <2>1, <2>2, LastSentIs DEF DumpRuns, Retransmit
<1>3. CASE OpenLoopTick
  <2>1. CASE transfer_complete
    <3>1. Finish /\ UNCHANGED toHost /\ device.state # "Idle"
      BY <1>3, <2>1 DEF OpenLoopTick
    <3>2. DumpSends(Cancel)
      BY <3>1, MessageIs, FinishIs DEF DumpSends
    <3> QED BY <1>3, <3>1, <3>2, MessageIs, FinishIs DEF DumpRuns, OpenLoopTick
  <2>2. CASE ~transfer_complete
    BY <1>3, <2>2, SendNextIs DEF OpenLoopTick, DumpRuns
  <2> QED BY <2>1, <2>2
<1>4. CASE Stall
  <2>1. DumpSends(Cancel)
    BY <1>4, MessageIs, FinishIs DEF DumpSends, Stall
  <2> QED BY <1>4, <2>1, MessageIs, FinishIs DEF DumpRuns, Stall
<1> QED BY <1>1, <1>2, <1>3, <1>4

LEMMA DeviceHearsIs ==
    ASSUME Types, DeviceHears
    PROVE  /\ toDevice # <<>> /\ toDevice' = Tail(toDevice)
           /\ UNCHANGED <<host, prompt, faults, sessions>>
           /\ DeviceTypes
           /\ \/ DumpRuns
              \/ /\ UNCHANGED device
                 /\ \E m \in {Cancel} : toHost' = Send(toHost, m) \/ toHost' = toHost
              \/ /\ Head(toDevice) = "request" /\ device.state = "Idle"
                 /\ device'.state = "AwaitingHeaderResponse"
                 /\ toHost' = Send(toHost, Header)
<1> DEFINE r == Head(toDevice)
<1>1. /\ toDevice # <<>> /\ toDevice' = Tail(toDevice)
      /\ UNCHANGED <<host, prompt, faults, sessions>>
  BY DEF DeviceHears
<1>2. CASE r = "request" /\ HandleDumpRequest
  <2>1. CASE toHost' = Send(toHost, Cancel) /\ UNCHANGED device
    <3>1. DeviceTypes
      BY <2>1 DEF DeviceTypes, Types
    <3> QED BY <1>1, <2>1, <3>1
  <2>2. CASE /\ device.state = "Idle" /\ toHost' = Send(toHost, Header)
             /\ device' = [IdleDump EXCEPT !.state = "AwaitingHeaderResponse"]
    <3>1. device' = [state |-> "AwaitingHeaderResponse", sent |-> 0, wait |-> FALSE]
      BY <2>2 DEF IdleDump
    <3>2. DeviceTypes /\ device'.state = "AwaitingHeaderResponse"
      BY <3>1, SizeAssumption DEF DeviceTypes, DumpState
    <3> QED BY <1>1, <1>2, <2>2, <3>2
  <2> QED BY <1>2, <2>1, <2>2 DEF HandleDumpRequest
<1>3. CASE r \in Response /\ HandleResponse(r)
  <2>1. CASE device.state = "Idle"
    <3>1. UNCHANGED <<device, toHost>>
      BY <1>3, <2>1 DEF HandleResponse
    <3>2. DeviceTypes
      BY <3>1 DEF DeviceTypes, Types
    <3> QED BY <1>1, <3>1, <3>2
  <2>2. CASE device.state # "Idle"
    <3>1. DumpRuns
      BY <1>1, <1>3, <2>2, ResponseRuns
    <3> QED BY <1>1, <3>1 DEF DumpRuns
  <2> QED BY <2>1, <2>2
<1> QED BY <1>2, <1>3 DEF DeviceHears

LEMMA DeviceStepTypes ==
    ASSUME Types, DeviceHears \/ HeaderTimeout \/ Retransmit \/ OpenLoopTick \/ Stall
    PROVE  Types'
<1>1. DeviceTypes /\ \E m \in ToHost : toHost' = Send(toHost, m) \/ toHost' = toHost
  <2>1. CASE DumpRuns
    BY <2>1 DEF DumpRuns, DumpSends
  <2>2. CASE DeviceHears /\ ~DumpRuns
    BY <2>2, DeviceHearsIs, MessageIs
  <2> QED BY <2>1, <2>2, TimerRuns
<1>2. UNCHANGED <<host, prompt, faults, sessions>> /\ toDevice' \in Seq(ToDevice)
  <2>1. CASE DeviceHears
    <3>1. toDevice \in Seq(ToDevice)
      BY DEF Types
    <3> QED BY <2>1, <3>1, DeviceHearsIs, TailIs
  <2>2. CASE ~DeviceHears
    BY <2>2, TimerRuns DEF Types
  <2> QED BY <2>1, <2>2
<1>3. toHost' \in Seq(ToHost)
  <2>1. toHost \in Seq(ToHost)
    BY DEF Types
  <2> QED BY <1>1, <2>1, SendIs
<1> QED BY <1>1, <1>2, <1>3 DEF Types, DeviceTypes

LEMMA StoresIs ==
    ASSUME Types, NEW b \in Block, host.phase = "receiving"
    PROVE  /\ HostStores(b) \in [phase : {"idle", "asking", "receiving", "done", "empty", "failed"},
                                 stored : Seq(Block), busy : BOOLEAN]
           /\ HostStores(b).phase \in {"receiving", "done"}
           /\ \/ HostStores(b).stored = host.stored /\ HostStores(b).phase = "receiving"
              \/ /\ b % PacketNumbers = Expected /\ HostStores(b).stored = Append(host.stored, b)
                 /\ HostStores(b).phase = "done" => Len(HostStores(b).stored) = Packets
<1>1. host.stored \in Seq(Block) /\ Append(host.stored, b) \in Seq(Block)
  BY AppendProperties DEF Types
<1>2. CASE b % PacketNumbers = Expected
  BY <1>1, <1>2 DEF HostStores
<1>3. CASE b % PacketNumbers # Expected
  BY <1>3 DEF HostStores, Types
<1> QED BY <1>2, <1>3

LEMMA HostHearsTypes ==
    ASSUME Types, HostHears
    PROVE  Types'
<1> DEFINE msg == Head(toHost)
<1>1. /\ toHost' \in Seq(ToHost) /\ msg \in ToHost
      /\ UNCHANGED <<device, prompt, faults, sessions>>
  <2>1. toHost \in Seq(ToHost) /\ toHost # <<>> /\ toHost' = Tail(toHost)
    BY DEF Types, HostHears
  <2> QED BY <2>1, TailIs DEF HostHears
<1>2. toDevice' \in Seq(ToDevice)
  <2>1. toDevice \in Seq(ToDevice)
    BY DEF Types
  <2> QED BY <2>1, SendIs, MessageIs DEF HostHears
<1>3. host' \in [phase : {"idle", "asking", "receiving", "done", "empty", "failed"},
                 stored : Seq(Block), busy : BOOLEAN]
  <2>1. CASE msg.type = "data" /\ host.phase = "receiving" /\ host' = HostStores(msg.block)
    <3>1. msg.block \in Block
      BY <1>1, <2>1, MessageIs DEF IsData
    <3> QED BY <2>1, <3>1, StoresIs
  <2>2. \/ host' = [host EXCEPT !.phase = "empty"] \/ host' = [host EXCEPT !.phase = "receiving"]
        \/ UNCHANGED host
        \/ msg.type = "data" /\ host.phase = "receiving" /\ host' = HostStores(msg.block)
    BY DEF HostHears
  <2>3. host \in [phase : {"idle", "asking", "receiving", "done", "empty", "failed"},
                  stored : Seq(Block), busy : BOOLEAN]
    BY DEF Types
  <2>4. CASE host' = [host EXCEPT !.phase = "empty"] \/ host' = [host EXCEPT !.phase = "receiving"]
    BY <2>3, <2>4
  <2>5. CASE UNCHANGED host
    BY <2>3, <2>5
  <2> QED BY <2>1, <2>2, <2>4, <2>5
<1> QED BY <1>1, <1>2, <1>3 DEF Types

LEMMA RestTypes ==
    ASSUME Types, HostRequest \/ HostWaits \/ HostGivesUp \/ LoseToHost \/ LoseToDevice \/ Damage
    PROVE  Types'
<1>1. toHost \in Seq(ToHost) /\ toDevice \in Seq(ToDevice)
  BY DEF Types
<1>2. CASE HostRequest
  <2>1. Send(Send(toDevice, "cancel"), "request") \in Seq(ToDevice)
    BY <1>1, MessageIs, SendIs
  <2>2. host' \in [phase : {"idle", "asking", "receiving", "done", "empty", "failed"},
                   stored : Seq(Block), busy : BOOLEAN]
    <3>1. host' = [phase |-> "asking", stored |-> <<>>, busy |-> FALSE]
      BY <1>2 DEF HostRequest, NoSession
    <3>2. <<>> \in Seq(Block)
      OBVIOUS
    <3> QED BY <3>1, <3>2
  <2> QED BY <1>2, <2>1, <2>2, SizeAssumption DEF HostRequest, Types
<1>3. CASE HostWaits
  <2>1. Send(toDevice, "wait") \in Seq(ToDevice)
    BY <1>1, MessageIs, SendIs
  <2> QED BY <1>3, <2>1 DEF HostWaits, Types
<1>4. CASE HostGivesUp
  BY <1>4 DEF HostGivesUp, Types
<1>5. CASE LoseToHost
  BY <1>1, <1>5, TailIs, SizeAssumption DEF LoseToHost, Types
<1>6. CASE LoseToDevice
  BY <1>1, <1>6, TailIs, SizeAssumption DEF LoseToDevice, Types
<1>7. CASE Damage
  <2>1. <<Damaged>> \in Seq(ToHost) /\ Tail(toHost) \in Seq(ToHost)
    BY <1>1, <1>7, MessageIs, TailIs DEF Damage
  <2>2. toHost' \in Seq(ToHost)
    BY <1>7, <2>1, ConcatProperties DEF Damage
  <2> QED BY <1>7, <2>2, SizeAssumption DEF Damage, Types
<1> QED BY <1>2, <1>3, <1>4, <1>5, <1>6, <1>7

LEMMA NextTypes == Types /\ [Next]_vars => Types'
<1> SUFFICES ASSUME Types, [Next]_vars PROVE Types'
  OBVIOUS
<1>1. CASE UNCHANGED vars
  BY <1>1 DEF vars, Types
<1> QED BY <1>1, DeviceStepTypes, HostHearsTypes, RestTypes DEF Next

LEMMA DamageIs ==
    ASSUME Types, Damage
    PROVE  /\ Len(toHost') = Len(toHost)
           /\ \A k \in 1..Len(toHost) :
                 \/ toHost'[k] = toHost[k]
                 \/ ~IsData(toHost'[k]) /\ toHost'[k].type # "header" /\ toHost[k].type # "header"
<1>1. /\ Len(toHost) \in Nat \ {0} /\ Head(toHost) = toHost[1] /\ Head(toHost).type = "data"
      /\ Tail(toHost) \in Seq(ToHost) /\ Len(Tail(toHost)) = Len(toHost) - 1
      /\ \A k \in 1..Len(toHost) - 1 : Tail(toHost)[k] = toHost[k + 1]
  BY TailIs, EmptySeq, LenProperties DEF Types, Damage
<1>2. toHost' = <<Damaged>> \o Tail(toHost)
  BY DEF Damage
<1>3. /\ <<Damaged>> \in Seq(ToHost) /\ Len(<<Damaged>>) = 1 /\ <<Damaged>>[1] = Damaged
      /\ ~IsData(Damaged) /\ Damaged.type # "header"
  BY MessageIs
<1>4. Len(toHost') = Len(toHost)
  BY <1>1, <1>2, <1>3, ConcatProperties
<1>5. ASSUME NEW k \in 1..Len(toHost) PROVE toHost'[k] = IF k = 1 THEN Damaged ELSE toHost[k]
  <2>1. toHost'[k] = IF k <= 1 THEN <<Damaged>>[k] ELSE Tail(toHost)[k - 1]
    BY <1>1, <1>2, <1>3, ConcatProperties
  <2>2. k # 1 => k - 1 \in 1..Len(toHost) - 1
    BY <1>1
  <2> QED BY <1>1, <1>3, <2>1, <2>2
<1> QED BY <1>1, <1>3, <1>4, <1>5

-----------------------------------------------------------------------------
(* A session asks once *)

LEMMA DeviceStepAsking ==
    ASSUME Types, Asking, DeviceHears \/ HeaderTimeout \/ Retransmit \/ OpenLoopTick \/ Stall
    PROVE  Asking'
<1>1. /\ toHost \in Seq(ToHost) /\ toDevice \in Seq(ToDevice) /\ UNCHANGED host
  BY DeviceHearsIs, TimerRuns DEF Types
<1>2. \/ toDevice' = toDevice
      \/ /\ toDevice # <<>> /\ toDevice' = Tail(toDevice)
         /\ Len(toDevice') = Len(toDevice) - 1
         /\ \A k \in 1..Len(toDevice') : k + 1 \in 1..Len(toDevice) /\ toDevice'[k] = toDevice[k + 1]
  BY <1>1, DeviceHearsIs, TimerRuns, TailIs
<1>3. host.phase = "receiving" => \A k \in 1..Len(toDevice') : toDevice'[k] # "request"
  BY <1>2 DEF Asking
<1>4. ASSUME host.phase = "asking"
      PROVE  /\ \A k \in 1..Len(toDevice') : toDevice'[k] \in {"cancel", "request"}
             /\ \A j, k \in 1..Len(toDevice') : j < k => toDevice'[j] # "request"
             /\ toDevice = <<>> => toDevice' = <<>>
  <2>1. CASE toDevice' = toDevice
    BY <1>4, <2>1 DEF Asking
  <2>2. CASE /\ toDevice # <<>>
             /\ \A k \in 1..Len(toDevice') : k + 1 \in 1..Len(toDevice) /\ toDevice'[k] = toDevice[k + 1]
    <3>1. \A k \in 1..Len(toDevice') : toDevice'[k] \in {"cancel", "request"}
      BY <1>4, <2>2 DEF Asking
    <3>2. ASSUME NEW j \in 1..Len(toDevice'), NEW k \in 1..Len(toDevice'), j < k
          PROVE  toDevice'[j] # "request"
      <4>1. j + 1 \in 1..Len(toDevice) /\ k + 1 \in 1..Len(toDevice) /\ j + 1 < k + 1
            /\ toDevice'[j] = toDevice[j + 1]
        BY <2>2, <3>2
      <4> QED BY <1>4, <4>1 DEF Asking
    <3> QED BY <2>2, <3>1, <3>2
  <2> QED BY <1>2, <2>1, <2>2
<1>5. ASSUME host.phase = "asking", NEW k \in 1..Len(toHost'), toHost'[k].type = "header"
      PROVE  toDevice' = <<>>
  <2>1. ASSUME toDevice # <<>>, Head(toDevice) = "request", toDevice' = Tail(toDevice)
        PROVE  toDevice' = <<>>
    <3>1. 1 \in 1..Len(toDevice) /\ toDevice[1] = "request" /\ Len(toDevice) \in Nat
          /\ Len(toDevice') = Len(toDevice) - 1 /\ toDevice' \in Seq(ToDevice)
      BY <1>1, <2>1, TailIs, LenProperties
    <3>2. ~(1 < Len(toDevice))
      <4>1. 1 < Len(toDevice) => Len(toDevice) \in 1..Len(toDevice)
        BY <3>1
      <4> QED BY <1>5, <3>1, <4>1 DEF Asking
    <3>3. Len(toDevice') = 0
      BY <3>1, <3>2
    <3> QED BY <3>1, <3>3, EmptySeq
  <2>2. ASSUME NEW m \in ToHost, m.type # "header", toHost' = Send(toHost, m) \/ toHost' = toHost
        PROVE  toDevice' = <<>>
    <3>1. k \in 1..Len(toHost) /\ toHost[k].type = "header"
      <4>1. CASE toHost' = toHost
        BY <1>5, <4>1
      <4>2. CASE toHost' = Send(toHost, m)
        <5>1. (k \in 1..Len(toHost) /\ toHost'[k] = toHost[k]) \/ toHost'[k] = m
          BY <1>1, <1>5, <4>2, SendIs
        <5> QED BY <1>5, <2>2, <5>1
      <4> QED BY <2>2, <4>1, <4>2
    <3> QED BY <1>4, <1>5, <3>1 DEF Asking
  <2>3. CASE DumpRuns
    <3>1. PICK m \in ToHost : DumpSends(m) /\ (m.type = "header" =>
                                 toDevice # <<>> /\ Head(toDevice) = "nak")
      BY <2>3 DEF DumpRuns
    <3>2. m.type # "header"
      <4>1. toDevice # <<>> => Head(toDevice) \in {"cancel", "request"}
        BY <1>1, <1>5, TailIs DEF Asking
      <4> QED BY <3>1, <4>1
    <3> QED BY <2>2, <3>1, <3>2 DEF DumpSends
  <2>4. CASE DeviceHears /\ ~DumpRuns
    BY <2>1, <2>2, <2>4, DeviceHearsIs, MessageIs
  <2> QED BY <2>3, <2>4, TimerRuns
<1>6. host.phase = "asking" /\ (\E k \in 1..Len(toHost') : toHost'[k].type = "header")
        => toDevice' = <<>>
  BY <1>5
<1> QED BY <1>1, <1>3, <1>4, <1>6 DEF Asking

LEMMA HostStepAsking ==
    ASSUME Types, Asking,
           HostRequest \/ HostHears \/ HostWaits \/ HostGivesUp \/ LoseToHost \/ LoseToDevice \/ Damage
    PROVE  Asking'
<1>1. toHost \in Seq(ToHost) /\ toDevice \in Seq(ToDevice)
  BY DEF Types
<1>2. ASSUME toHost # <<>>
      PROVE  /\ 1 \in 1..Len(toHost) /\ Head(toHost) = toHost[1]
             /\ \A k \in 1..Len(Tail(toHost)) :
                  k + 1 \in 1..Len(toHost) /\ Tail(toHost)[k] = toHost[k + 1]
  BY <1>1, <1>2, TailIs
<1>3. ASSUME NEW r \in {"ack", "nak", "wait"}, host.phase = "receiving" \/ toDevice = <<>>
      PROVE  \A k \in 1..Len(Send(toDevice, r)) : Send(toDevice, r)[k] # "request"
  <2>1. r \in ToDevice
    BY MessageIs
  <2>2. \A k \in 1..Len(toDevice) : toDevice[k] # "request"
    BY <1>3 DEF Asking
  <2> QED BY <1>1, <2>1, <2>2, SendIs
<1>4. CASE HostRequest
  <2> DEFINE one == Send(toDevice, "cancel")  two == Send(one, "request")
  <2>1. toDevice = <<>> /\ toHost' = <<>> /\ toDevice' = two
        /\ host'.phase = "asking" /\ host'.stored = <<>>
    BY <1>4 DEF HostRequest, Quiet, NoSession
  <2>2. one \in Seq(ToDevice) /\ Len(one) \in {0, 1} /\ \A k \in 1..Len(one) : one[k] = "cancel"
    <3>1. "cancel" \in ToDevice /\ Len(toDevice) = 0
      BY <2>1, MessageIs
    <3>2. /\ one \in Seq(ToDevice) /\ Len(one) \in {Len(toDevice), Len(toDevice) + 1}
          /\ \A k \in 1..Len(one) : k \in 1..Len(toDevice) \/ one[k] = "cancel"
      BY <1>1, <3>1, SendIs
    <3> HIDE DEF one
    <3> QED BY <3>1, <3>2
  <2> HIDE DEF one
  <2>3. /\ \A k \in 1..Len(two) : two[k] \in {"cancel", "request"}
        /\ \A j, k \in 1..Len(two) : j < k => two[j] # "request"
    <3>1. "request" \in ToDevice
      BY MessageIs
    <3>2. /\ Len(two) \in {Len(one), Len(one) + 1}
          /\ \A k \in 1..Len(two) : (k \in 1..Len(one) /\ two[k] = one[k])
                                      \/ (k = Len(one) + 1 /\ two[k] = "request")
      BY <2>2, <3>1, SendIs
    <3> HIDE DEF two
    <3> QED BY <2>2, <3>2
  <2> HIDE DEF two
  <2>4. Len(toHost') = 0
    BY <2>1
  <2> QED BY <2>1, <2>3, <2>4 DEF Asking
<1>5. CASE HostHears
  <2> DEFINE msg == Head(toHost)
  <2>1. toHost # <<>> /\ toHost' = Tail(toHost)
    BY <1>5 DEF HostHears
  <2>2. CASE msg.type = "cancel" /\ host' = [host EXCEPT !.phase = "empty"]
    BY <2>2 DEF Asking, Types
  <2>3. CASE /\ msg.type = "header" /\ Listening
             /\ host' = [host EXCEPT !.phase = "receiving"] /\ toDevice' = Send(toDevice, "ack")
    <3>1. host'.phase = "receiving"
      BY <2>3 DEF Types
    <3>2. host.phase = "receiving" \/ toDevice = <<>>
      BY <1>2, <2>1, <2>3 DEF Listening, Asking
    <3> QED BY <1>3, <2>3, <3>1, <3>2 DEF Asking
  <2>4. CASE host.phase = "receiving" /\ (toDevice' = Send(toDevice, "ack") \/ toDevice' = Send(toDevice, "nak"))
             /\ host'.phase # "asking"
    BY <1>3, <2>4 DEF Asking
  <2>5. CASE UNCHANGED <<host, toDevice>>
    BY <1>2, <2>1, <2>5 DEF Asking
  <2>6. msg.type = "data" /\ host.phase = "receiving" /\ host' = HostStores(msg.block)
           => host'.phase # "asking"
    <3>1. msg \in ToHost
      BY <1>1, <2>1, TailIs
    <3>2. msg.type = "data" => msg.block \in Block
      BY <3>1, MessageIs DEF IsData
    <3> QED BY <3>2, StoresIs
  <2> QED BY <1>5, <2>2, <2>3, <2>4, <2>5, <2>6 DEF HostHears
<1>6. CASE HostWaits
  <2>1. host'.phase = "receiving" /\ host.phase = "receiving"
    BY <1>6 DEF HostWaits, Types
  <2> QED BY <1>3, <1>6, <2>1 DEF HostWaits, Asking
<1>7. CASE HostGivesUp
  BY <1>7 DEF HostGivesUp, Asking, Types
<1>8. CASE LoseToHost
  BY <1>2, <1>8 DEF LoseToHost, Asking
<1>9. CASE LoseToDevice
  <2>1. /\ UNCHANGED <<host, toHost>> /\ toDevice # <<>>
        /\ \A k \in 1..Len(toDevice') : k + 1 \in 1..Len(toDevice) /\ toDevice'[k] = toDevice[k + 1]
    BY <1>1, <1>9, TailIs DEF LoseToDevice
  <2>2. ASSUME NEW j \in 1..Len(toDevice'), NEW k \in 1..Len(toDevice'), j < k, host.phase = "asking"
        PROVE  toDevice'[j] # "request"
    <3>1. j + 1 \in 1..Len(toDevice) /\ k + 1 \in 1..Len(toDevice) /\ j + 1 < k + 1
          /\ toDevice'[j] = toDevice[j + 1]
      BY <2>1, <2>2
    <3> QED BY <2>2, <3>1 DEF Asking
  <2> QED BY <2>1, <2>2 DEF Asking
<1>10. CASE Damage
  <2>1. UNCHANGED <<host, toDevice>>
    BY <1>10 DEF Damage
  <2>2. \A k \in 1..Len(toHost') : toHost'[k].type = "header"
          => k \in 1..Len(toHost) /\ toHost[k].type = "header"
    BY <1>10, DamageIs
  <2> QED BY <2>1, <2>2 DEF Asking
<1> QED BY <1>4, <1>5, <1>6, <1>7, <1>8, <1>9, <1>10

-----------------------------------------------------------------------------
(* Blocks travel in order *)

LEMMA Elements ==
    ASSUME Types
    PROVE  /\ toHost \in Seq(ToHost) /\ host.stored \in Seq(Block)
           /\ \A k \in 1..Len(toHost) : toHost[k] \in ToHost
           /\ \A k \in 1..Len(toHost) : IsData(toHost[k]) => toHost[k].block \in Nat
           /\ \A i \in 1..Len(host.stored) : host.stored[i] \in Nat
           /\ device.sent \in Nat /\ Len(toHost) \in Nat /\ Len(host.stored) \in Nat
<1>1. toHost \in Seq(ToHost) /\ host.stored \in Seq(Block) /\ device.sent \in Nat
  BY DEF Types
<1>2. \A k \in 1..Len(toHost) : toHost[k] \in ToHost
  BY <1>1, ElementOfSeq
<1>3. \A i \in 1..Len(host.stored) : host.stored[i] \in Block
  BY <1>1, ElementOfSeq
<1> QED BY <1>1, <1>2, <1>3, MessageIs, LenProperties DEF Block

\* A message that is sent comes after all that are on their way.
LEMMA OrderSends ==
    ASSUME Types, Asking, Order, UNCHANGED host, NEW m \in ToHost,
           toHost' = Send(toHost, m) \/ toHost' = toHost,
           \/ device.state # "Idle" /\ (device'.state # "Idle" => device.sent <= device'.sent)
           \/ device'.state = device.state /\ device'.sent = device.sent
           \/ host.phase # "receiving" /\ \A k \in 1..Len(toHost') : ~Fresh(k)',
           device'.sent \in Nat,
           IsData(m) => /\ device.state # "Idle" /\ device.sent - 1 <= m.block
                        /\ device'.state # "Idle" => m.block < device'.sent,
           host.phase = "receiving" => device.state # "Idle" \/ device'.state = "Idle"
    PROVE  Order'
<1> DEFINE t == toHost'
<1>1. /\ Len(t) \in {Len(toHost), Len(toHost) + 1}
      /\ \A k \in 1..Len(t) : (k \in 1..Len(toHost) /\ t[k] = toHost[k]) \/ (k = Len(toHost) + 1 /\ t[k] = m)
  <2>1. toHost \in Seq(ToHost) /\ Len(toHost) \in Nat
    BY Elements
  <2>2. CASE t = Send(toHost, m)
    BY <2>1, <2>2, SendIs
  <2>3. CASE t = toHost
    BY <2>1, <2>3
  <2> QED BY <2>2, <2>3
<1>2. \A n \in ToHost : IsData(n) => n.block \in Nat
  BY MessageIs DEF Block
<1> HIDE DEF t
<1>3. ASSUME NEW k \in 1..Len(toHost), Fresh(k)' PROVE Fresh(k)
  <2>1. CASE host.phase = "receiving"
    BY <2>1 DEF Fresh
  <2>2. CASE host.phase # "receiving"
    <3>1. host.phase = "asking" /\ \E j \in 1..Len(t) : j < k /\ t[j].type = "header"
      BY <1>3, <2>2 DEF Fresh, t
    <3>2. \A j \in 1..Len(t) : j < k => j \in 1..Len(toHost) /\ t[j] = toHost[j]
      BY <1>1, Elements
    <3> QED BY <3>1, <3>2 DEF Fresh
  <2> QED BY <2>1, <2>2
<1>4. \A i \in 1..Len(host.stored) : host.phase = "receiving" /\ device.state # "Idle"
         => host.stored[i] <= device.sent - 1
  BY Elements DEF Order
<1>5. ASSUME NEW k \in 1..Len(t), Fresh(k)', IsData(t[k])
      PROVE  /\ device'.state # "Idle" => t[k].block < device'.sent
             /\ \A i \in 1..Len(host.stored) : host.stored[i] <= t[k].block
  <2>1. CASE k \in 1..Len(toHost) /\ t[k] = toHost[k]
    <3>1. /\ device.state # "Idle" => t[k].block < device.sent
          /\ \A i \in 1..Len(host.stored) : host.stored[i] <= t[k].block
          /\ t[k].block \in Nat
      BY <1>3, <1>5, <2>1, Elements DEF Order
    <3> QED BY <1>1, <1>5, <3>1, Elements DEF t
  <2>2. CASE k = Len(toHost) + 1 /\ t[k] = m
    <3>1. device'.state # "Idle" => t[k].block < device'.sent
      BY <1>5, <2>2
    <3>2. CASE host.phase = "receiving"
      <4>1. \A i \in 1..Len(host.stored) : host.stored[i] <= device.sent - 1
        BY <1>4, <1>5, <2>2, <3>2
      <4> QED BY <1>2, <1>5, <2>2, <3>1, <4>1, Elements
    <3>3. CASE host.phase = "asking" /\ host.stored = <<>>
      <4>1. 1..Len(host.stored) = {}
        BY <3>3
      <4> QED BY <3>1, <4>1
    <3> QED BY <1>5, <3>2, <3>3 DEF Fresh, Asking
  <2> QED BY <1>1, <2>1, <2>2
<1>6. ASSUME NEW j \in 1..Len(t), NEW k \in 1..Len(t), j < k, Fresh(j)', IsData(t[j]), IsData(t[k])
      PROVE  t[j].block <= t[k].block
  <2>1. j \in 1..Len(toHost) /\ t[j] = toHost[j] /\ Fresh(j)
    BY <1>1, <1>3, <1>6, Elements
  <2>2. CASE k \in 1..Len(toHost) /\ t[k] = toHost[k]
    BY <1>6, <2>1, <2>2 DEF Order
  <2>3. CASE k = Len(toHost) + 1 /\ t[k] = m
    <3>1. toHost[j].block < device.sent /\ device.sent - 1 <= m.block
      BY <1>6, <2>1, <2>3 DEF Order
    <3>2. toHost[j].block \in Nat /\ m.block \in Nat
      BY <1>2, <1>6, <2>1, <2>3, Elements
    <3> QED BY <2>1, <2>3, <3>1, <3>2, Elements
  <2> QED BY <1>1, <2>2, <2>3
<1>7. host.phase = "receiving" /\ device'.state # "Idle" =>
         \A i \in 1..Len(host.stored) : host.stored[i] < device'.sent
  BY <1>4, Elements DEF Order
<1> QED BY <1>5, <1>6, <1>7 DEF Order, t

\* A message that is taken, or lost; a session that hears its header begins to
\* listen to what follows.
LEMMA OrderTakes ==
    ASSUME Types, Order, UNCHANGED device, host'.stored = host.stored,
           toHost' = toHost \/ (toHost # <<>> /\ toHost' = Tail(toHost)),
           \/ host'.phase = host.phase
           \/ host'.phase \notin {"asking", "receiving"}
           \/ /\ host.phase = "asking" /\ host'.phase = "receiving" /\ host.stored = <<>>
              /\ toHost # <<>> /\ toHost' = Tail(toHost) /\ Head(toHost).type = "header"
    PROVE  Order'
<1> DEFINE t == toHost'
<1>1. \/ t = toHost
      \/ /\ Len(t) = Len(toHost) - 1 /\ 1 \in 1..Len(toHost) /\ Head(toHost) = toHost[1]
         /\ \A k \in 1..Len(t) : k + 1 \in 1..Len(toHost) /\ t[k] = toHost[k + 1]
  <2>1. toHost \in Seq(ToHost)
    BY Elements
  <2> QED BY <2>1, TailIs
<1> HIDE DEF t
<1>2. CASE t = toHost
  <2>1. host'.phase \in {"asking", "receiving"} => host'.phase = host.phase
    <3>1. t = Tail(toHost) /\ toHost # <<>> => Len(t) = Len(toHost) - 1 /\ Len(toHost) \in Nat
      BY TailIs, Elements
    <3>2. ~(toHost # <<>> /\ toHost' = Tail(toHost))
      BY <1>2, <3>1 DEF t
    <3> QED BY <3>2
  <2>2. \A k \in 1..Len(toHost) : Fresh(k)' => Fresh(k)
    BY <1>2, <2>1 DEF Fresh, t
  <2> QED BY <1>2, <2>1, <2>2 DEF Order, t
<1>3. CASE /\ Len(t) = Len(toHost) - 1 /\ 1 \in 1..Len(toHost) /\ Head(toHost) = toHost[1]
           /\ \A k \in 1..Len(t) : k + 1 \in 1..Len(toHost) /\ t[k] = toHost[k + 1]
  <2>1. ASSUME NEW k \in 1..Len(t), Fresh(k)' PROVE Fresh(k + 1)
    <3>1. CASE host'.phase = host.phase
      <4>1. CASE host.phase = "receiving"
        BY <4>1 DEF Fresh
      <4>2. CASE host.phase # "receiving"
        <5>1. host.phase = "asking" /\ \E j \in 1..Len(t) : j < k /\ t[j].type = "header"
          BY <2>1, <3>1, <4>2 DEF Fresh, t
        <5>2. PICK j \in 1..Len(t) : j < k /\ t[j].type = "header"
          BY <5>1
        <5>3. j + 1 \in 1..Len(toHost) /\ j + 1 < k + 1 /\ toHost[j + 1].type = "header"
          BY <1>3, <5>2
        <5> QED BY <5>1, <5>3 DEF Fresh
      <4> QED BY <4>1, <4>2
    <3>2. CASE host'.phase \notin {"asking", "receiving"}
      BY <2>1, <3>2 DEF Fresh
    <3>3. CASE host.phase = "asking" /\ Head(toHost).type = "header"
      <4>1. 1 \in 1..Len(toHost) /\ 1 < k + 1 /\ toHost[1].type = "header"
        BY <1>3, <3>3
      <4> QED BY <3>3, <4>1 DEF Fresh
    <3> QED BY <3>1, <3>2, <3>3
  <2>2. ASSUME NEW k \in 1..Len(t), Fresh(k)', IsData(t[k])
        PROVE  /\ device.state # "Idle" => t[k].block < device.sent
               /\ \A i \in 1..Len(host.stored) : host.stored[i] <= t[k].block
    <3>1. k + 1 \in 1..Len(toHost) /\ Fresh(k + 1) /\ t[k] = toHost[k + 1]
      BY <1>3, <2>1, <2>2
    <3> QED BY <2>2, <3>1 DEF Order
  <2>3. ASSUME NEW j \in 1..Len(t), NEW k \in 1..Len(t), j < k, Fresh(j)', IsData(t[j]), IsData(t[k])
        PROVE  t[j].block <= t[k].block
    <3>1. /\ j + 1 \in 1..Len(toHost) /\ Fresh(j + 1) /\ t[j] = toHost[j + 1]
          /\ k + 1 \in 1..Len(toHost) /\ t[k] = toHost[k + 1] /\ j + 1 < k + 1
      <4>1. Fresh(j + 1)
        BY <2>1, <2>3
      <4> QED BY <1>3, <2>3, <4>1
    <3> QED BY <2>3, <3>1 DEF Order
  <2>4. host'.phase = "receiving" /\ device.state # "Idle" =>
          \A i \in 1..Len(host.stored) : host.stored[i] < device.sent
    <3>1. CASE host.phase = "receiving"
      BY <3>1 DEF Order
    <3>2. CASE host.stored = <<>>
      <4>1. 1..Len(host.stored) = {}
        BY <3>2
      <4> QED BY <4>1
    <3> QED BY <3>1, <3>2
  <2> QED BY <2>2, <2>3, <2>4 DEF Order, t
<1> QED BY <1>1, <1>2, <1>3

LEMMA DeviceStepOrder ==
    ASSUME Types, Asking, Order, DeviceHears \/ HeaderTimeout \/ Retransmit \/ OpenLoopTick \/ Stall
    PROVE  Order'
<1>1. UNCHANGED host
  BY DeviceHearsIs, TimerRuns
<1>2. Types' /\ device'.sent \in Nat
  <2>1. Types'
    BY DeviceStepTypes
  <2>2. Types => device.sent \in Nat
    BY DEF Types
  <2>3. Types' => device'.sent \in Nat
    BY DEF Types
  <2> QED BY <2>1, <2>3
<1>3. CASE DumpRuns
  <2>1. PICK m \in ToHost : DumpSends(m)
    BY <1>3 DEF DumpRuns
  <2> QED BY <1>1, <1>2, <2>1, OrderSends DEF DumpSends
<1>4. CASE DeviceHears /\ UNCHANGED device /\ (toHost' = Send(toHost, Cancel) \/ toHost' = toHost)
  BY <1>1, <1>2, <1>4, MessageIs, OrderSends
<1>5. CASE /\ DeviceHears /\ Head(toDevice) = "request" /\ device.state = "Idle"
           /\ device'.state = "AwaitingHeaderResponse" /\ toHost' = Send(toHost, Header)
  <2>1. /\ 1 \in 1..Len(toDevice) /\ toDevice[1] = "request" /\ toDevice # <<>>
    <3>1. toDevice \in Seq(ToDevice) /\ toDevice # <<>>
      BY <1>5 DEF Types, DeviceHears
    <3> QED BY <1>5, <3>1, TailIs
  <2>2. host.phase # "receiving"
    BY <2>1 DEF Asking
  <2>3. ASSUME NEW k \in 1..Len(toHost') PROVE ~Fresh(k)'
    <3>1. SUFFICES ASSUME host.phase = "asking", NEW j \in 1..Len(toHost'), j < k,
                          toHost'[j].type = "header"
                   PROVE  FALSE
      BY <1>1, <2>2 DEF Fresh
    <3>2. \A i \in 1..Len(toHost) : toHost[i].type # "header"
      BY <2>1, <3>1 DEF Asking
    <3>3. j \in 1..Len(toHost) /\ toHost'[j] = toHost[j]
      <4>1. /\ Len(toHost') \in {Len(toHost), Len(toHost) + 1} /\ Len(toHost) \in Nat
            /\ j \in 1..Len(toHost) => toHost'[j] = toHost[j]
        <5>1. /\ Len(toHost') \in {Len(toHost), Len(toHost) + 1} /\ Len(toHost) \in Nat
              /\ \A i \in 1..Len(toHost') :
                   (i \in 1..Len(toHost) /\ toHost'[i] = toHost[i]) \/ i = Len(toHost) + 1
          BY <1>5, Elements, MessageIs, SendIs
        <5> QED BY <5>1
      <4> QED BY <3>1, <4>1
    <3> QED BY <3>1, <3>2, <3>3
  <2> QED BY <1>1, <1>2, <1>5, <2>2, <2>3, MessageIs, OrderSends
<1> QED BY <1>3, <1>4, <1>5, DeviceHearsIs, TimerRuns

\* A block that is stored is later than all that are, and its number is that
\* of its place.
LEMMA StoresInOrder ==
    ASSUME Types, Order, Stored, HostHears, host.phase = "receiving", IsData(Head(toHost)),
           host' = HostStores(Head(toHost).block)
    PROVE  Order' /\ Stored'
<1> DEFINE b == Head(toHost).block  s == host.stored  n == Len(host.stored)  t == toHost'
<1>1. /\ toHost # <<>> /\ t = Tail(toHost) /\ UNCHANGED device
      /\ Len(t) = Len(toHost) - 1 /\ 1 \in 1..Len(toHost) /\ Head(toHost) = toHost[1]
      /\ \A k \in 1..Len(t) : k + 1 \in 1..Len(toHost) /\ t[k] = toHost[k + 1]
      /\ toHost[1] \in ToHost
  BY TailIs, Elements DEF HostHears
<1>2. b \in Block /\ b \in Nat
  BY <1>1, MessageIs DEF Block
<1>3. Fresh(1) /\ \A k \in 1..Len(t) : Fresh(k + 1)
  BY DEF Fresh
<1>4. /\ device.state # "Idle" => b < device.sent
      /\ \A i \in 1..n : s[i] <= b
      /\ \A k \in 1..Len(t) : IsData(t[k]) => b <= t[k].block
  <2>1. ASSUME NEW k \in 1..Len(t), IsData(t[k]) PROVE b <= t[k].block
    <3>1. k + 1 \in 1..Len(toHost) /\ t[k] = toHost[k + 1] /\ 1 < k + 1 /\ 1 \in 1..Len(toHost)
      BY <1>1
    <3>2. IsData(toHost[1]) /\ IsData(toHost[k + 1]) /\ b = toHost[1].block
      BY <1>1, <2>1, <3>1
    <3> QED BY <1>3, <3>1, <3>2 DEF Order
  <2>2. /\ device.state # "Idle" => b < device.sent
        /\ \A i \in 1..n : s[i] <= b
    BY <1>1, <1>3 DEF Order
  <2> QED BY <2>1, <2>2
<1>5. /\ host'.phase \in {"receiving", "done"}
      /\ \/ host'.stored = s /\ host'.phase = "receiving"
         \/ /\ b % PacketNumbers = n % PacketNumbers /\ host'.stored = Append(s, b)
            /\ host'.phase = "done" => Len(host'.stored) = Packets
  BY <1>2, StoresIs DEF Expected
<1> HIDE DEF b, t
<1>6. CASE host'.stored = s /\ host'.phase = "receiving"
  <2>1. Order'
    BY <1>1, <1>6, OrderTakes DEF t
  <2>2. Stored'
    BY <1>6 DEF Stored
  <2> QED BY <2>1, <2>2
<1>7. CASE /\ b % PacketNumbers = n % PacketNumbers /\ host'.stored = Append(s, b)
           /\ host'.phase = "done" => Len(host'.stored) = Packets
  <2> DEFINE f == host'.stored
  <2>1. /\ n \in Nat /\ Len(f) = n + 1 /\ f[n + 1] = b /\ \A i \in 1..n : f[i] = s[i]
        /\ \A i \in 1..n : s[i] \in Nat
    <3>1. s \in Seq(Block)
      BY Elements
    <3> QED BY <1>2, <1>7, <3>1, AppendProperties, Elements, SMTT(30)
  <2> HIDE DEF f
  <2>2. \A i \in 1..(n + 1) : f[i] % PacketNumbers = (i - 1) % PacketNumbers
    <3> SUFFICES ASSUME NEW i \in 1..(n + 1) PROVE f[i] % PacketNumbers = (i - 1) % PacketNumbers
      OBVIOUS
    <3>1. CASE i = n + 1
      <4>1. i - 1 = n
        BY <2>1, <3>1
      <4> QED BY <1>7, <2>1, <3>1, <4>1
    <3>2. CASE i \in 1..n
      BY <2>1, <3>2 DEF Stored
    <3> QED BY <2>1, <3>1, <3>2
  <2>3. ASSUME NEW i \in 1..n PROVE b - s[i] >= n + 1 - i
    <3>1. n \in 1..n /\ s[n] \in Nat /\ s[i] \in Nat /\ s[n] <= b
      BY <1>4, <2>1
    <3>2. s[n] # b
      <4>1. s[n] % PacketNumbers = (n - 1) % PacketNumbers
        BY <3>1 DEF Stored
      <4>2. (n - 1 + 1) % PacketNumbers # (n - 1) % PacketNumbers
        <5>1. n - 1 \in Nat /\ PacketNumbers \in Nat \ {0, 1}
          BY <3>1, SizeAssumption
        <5> QED BY <5>1, ModNext, Zenon
      <4>3. n - 1 + 1 = n
        BY <2>1
      <4> QED BY <1>7, <4>1, <4>2, <4>3
    <3>3. i < n => s[n] - s[i] >= n - i
      BY <3>1 DEF Stored
    <3>4. s[n] + 1 <= b
      BY <1>2, <3>1, <3>2
    <3>5. CASE i < n
      BY <1>2, <2>1, <3>1, <3>3, <3>4, <3>5
    <3>6. CASE i = n
      BY <1>2, <2>1, <3>1, <3>4, <3>6
    <3> QED BY <2>1, <3>5, <3>6
  <2>4. \A i, j \in 1..(n + 1) : i < j => f[j] - f[i] >= j - i
    <3> SUFFICES ASSUME NEW i \in 1..(n + 1), NEW j \in 1..(n + 1), i < j
                 PROVE  f[j] - f[i] >= j - i
      OBVIOUS
    <3>1. i \in 1..n /\ f[i] = s[i]
      BY <2>1
    <3>2. CASE j = n + 1
      BY <2>1, <2>3, <3>1, <3>2
    <3>3. CASE j \in 1..n
      BY <2>1, <3>1, <3>3 DEF Stored
    <3> QED BY <2>1, <3>2, <3>3
  <2>5. Stored'
    BY <1>7, <2>1, <2>2, <2>4 DEF Stored, f
  <2>6. \A i \in 1..(n + 1) : f[i] <= b
    <3> SUFFICES ASSUME NEW i \in 1..(n + 1) PROVE f[i] <= b
      OBVIOUS
    <3> QED BY <1>2, <1>4, <2>1
  <2>7. ASSUME NEW k \in 1..Len(t), IsData(t[k])
        PROVE  /\ device.state # "Idle" => t[k].block < device.sent
               /\ \A i \in 1..(n + 1) : f[i] <= t[k].block
    <3>1. k + 1 \in 1..Len(toHost) /\ t[k] = toHost[k + 1]
      BY <1>1 DEF t
    <3>2. /\ device.state # "Idle" => t[k].block < device.sent
          /\ t[k].block \in Nat /\ b <= t[k].block
      BY <1>3, <1>4, <2>7, <3>1, Elements DEF Order, t
    <3>3. \A i \in 1..(n + 1) : f[i] \in Nat
      <4> SUFFICES ASSUME NEW i \in 1..(n + 1) PROVE f[i] \in Nat
        OBVIOUS
      <4> QED BY <1>2, <2>1
    <3> QED BY <1>2, <2>6, <3>2, <3>3
  <2>8. ASSUME NEW j \in 1..Len(t), NEW k \in 1..Len(t), j < k, IsData(t[j]), IsData(t[k])
        PROVE  t[j].block <= t[k].block
    <3>1. /\ j + 1 \in 1..Len(toHost) /\ t[j] = toHost[j + 1] /\ Fresh(j + 1)
          /\ k + 1 \in 1..Len(toHost) /\ t[k] = toHost[k + 1] /\ j + 1 < k + 1
      BY <1>1, <1>3, <2>8 DEF t
    <3> QED BY <2>8, <3>1 DEF Order
  <2>9. device.state # "Idle" => \A i \in 1..(n + 1) : f[i] < device.sent
    <3>1. \A i \in 1..(n + 1) : f[i] \in Nat
      <4> SUFFICES ASSUME NEW i \in 1..(n + 1) PROVE f[i] \in Nat
        OBVIOUS
      <4> QED BY <1>2, <2>1
    <3> QED BY <1>2, <1>4, <2>6, <3>1, Elements
  <2> QED BY <1>1, <2>1, <2>5, <2>7, <2>8, <2>9 DEF Order, f, t
<1> QED BY <1>5, <1>6, <1>7

LEMMA HostStepOrder ==
    ASSUME Types, Asking, Order, Stored,
           HostRequest \/ HostHears \/ HostWaits \/ HostGivesUp \/ LoseToHost \/ LoseToDevice \/ Damage
    PROVE  Order' /\ Stored'
<1>1. CASE HostRequest
  <2>1. toHost' = <<>> /\ host'.phase = "asking" /\ host'.stored = <<>> /\ Len(host'.stored) = 0
        /\ Len(toHost') = 0
    BY <1>1 DEF HostRequest, Quiet, NoSession
  <2> QED BY <2>1 DEF Order, Stored
<1>2. CASE HostHears
  <2> DEFINE msg == Head(toHost)
  <2>1. toHost # <<>> /\ toHost' = Tail(toHost) /\ UNCHANGED device
    BY <1>2 DEF HostHears
  <2>2. CASE msg.type = "cancel" /\ host' = [host EXCEPT !.phase = "empty"]
    <3>1. host'.phase = "empty" /\ host'.stored = host.stored
      BY <2>2 DEF Types
    <3> QED BY <2>1, <3>1, OrderTakes DEF Stored
  <2>3. CASE msg.type = "header" /\ Listening /\ host' = [host EXCEPT !.phase = "receiving"]
    <3>1. host'.phase = "receiving" /\ host'.stored = host.stored
      BY <2>3 DEF Types
    <3>2. host.phase = "receiving" \/ (host.phase = "asking" /\ host.stored = <<>>)
      BY <2>3 DEF Listening, Asking
    <3> QED BY <2>1, <2>3, <3>1, <3>2, OrderTakes DEF Stored
  <2>4. CASE msg.type = "data" /\ host.phase = "receiving" /\ host' = HostStores(msg.block)
    BY <1>2, <2>4, StoresInOrder DEF IsData
  <2>5. CASE UNCHANGED host
    BY <2>1, <2>5, OrderTakes DEF Stored
  <2> QED BY <1>2, <2>2, <2>3, <2>4, <2>5 DEF HostHears
<1>3. CASE HostWaits \/ HostGivesUp \/ LoseToDevice
  <2>1. /\ UNCHANGED <<device, toHost>> /\ host'.stored = host.stored
        /\ host'.phase = host.phase \/ host'.phase = "failed"
    BY <1>3 DEF HostWaits, HostGivesUp, LoseToDevice, Types
  <2> QED BY <2>1, OrderTakes DEF Stored
<1>4. CASE LoseToHost
  BY <1>4, OrderTakes DEF LoseToHost, Stored
<1>5. CASE Damage
  <2>1. UNCHANGED <<host, device>>
    BY <1>5 DEF Damage
  <2>2. /\ Len(toHost') = Len(toHost)
        /\ \A k \in 1..Len(toHost) : IsData(toHost'[k]) => toHost'[k] = toHost[k]
        /\ \A k \in 1..Len(toHost) : toHost'[k].type = "header" => toHost[k].type = "header"
    BY <1>5, DamageIs
  <2>3. \A k \in 1..Len(toHost) : Fresh(k)' => Fresh(k)
    BY <2>1, <2>2 DEF Fresh
  <2>4. Order'
    BY <2>1, <2>2, <2>3 DEF Order
  <2> QED BY <2>1, <2>4 DEF Stored
<1> QED BY <1>1, <1>2, <1>3, <1>4, <1>5

LEMMA NextInvariant == Types /\ Asking /\ Order /\ Stored /\ [Next]_vars
                          => Types' /\ Asking' /\ Order' /\ Stored'
<1> SUFFICES ASSUME Types, Asking, Order, Stored, [Next]_vars
             PROVE  Asking' /\ Order' /\ Stored'
  BY NextTypes
<1>1. CASE DeviceHears \/ HeaderTimeout \/ Retransmit \/ OpenLoopTick \/ Stall
  <2>1. UNCHANGED host
    BY <1>1, DeviceHearsIs, TimerRuns
  <2> QED BY <1>1, <2>1, DeviceStepAsking, DeviceStepOrder DEF Stored
<1>2. CASE HostRequest \/ HostHears \/ HostWaits \/ HostGivesUp \/ LoseToHost \/ LoseToDevice \/ Damage
  BY <1>2, HostStepAsking, HostStepOrder
<1>3. CASE UNCHANGED vars
  <2>1. \A k \in 1..Len(toHost) : Fresh(k)' => Fresh(k)
    BY <1>3 DEF vars, Fresh
  <2> QED BY <1>3, <2>1 DEF vars, Asking, Order, Stored
<1> QED BY <1>1, <1>2, <1>3 DEF Next

-----------------------------------------------------------------------------
(* Theorems *)

LEMMA Initially == Init => Types /\ Asking /\ Order /\ Stored
<1> SUFFICES ASSUME Init PROVE Types /\ Asking /\ Order /\ Stored
  OBVIOUS
<1>1. /\ toHost = <<>> /\ toDevice = <<>> /\ prompt \in BOOLEAN /\ faults = 0 /\ sessions = 0
      /\ device = [state |-> "Idle", sent |-> 0, wait |-> FALSE]
      /\ host = [phase |-> "idle", stored |-> <<>>, busy |-> FALSE]
      /\ <<>> \in Seq(Block)
  BY PromptnessAssumption DEF Init, IdleDump, NoSession
<1>2. Types
  BY <1>1, SizeAssumption DEF Types, DumpState
<1>3. Asking
  BY <1>1 DEF Asking
<1>4. Len(toHost) = 0 /\ Len(host.stored) = 0
  BY <1>1
<1> QED BY <1>1, <1>2, <1>3, <1>4 DEF Order, Stored

LEMMA Invariant == Spec => [](Types /\ Asking /\ Order /\ Stored)
<1>1. Types /\ Asking /\ Order /\ Stored /\ [Next]_vars => (Types /\ Asking /\ Order /\ Stored)'
  BY NextInvariant
<1> QED BY <1>1, Initially, PTL DEF Spec

\* DumpSender's state machine, the session and the link stay in their types,
\* and a dump never sends a block past the end of the sample.
THEOREM DumpTypeCorrect == Spec => []TypeOK
<1>1. Types => TypeOK
  BY DEF Types, TypeOK
<1> QED BY <1>1, Invariant, PTL

\* Whatever packets and answers are lost, damaged, repeated or late, and even
\* if DumpSender sends open-loop, a sample the host reports as downloaded is
\* the stored one, for samples of any length: the stored blocks rise, and as
\* many as the sample has can only be all of them.
THEOREM DumpsIntact == Spec => []SampleIntact
<1>1. Types /\ Stored => SampleIntact
  <2> SUFFICES ASSUME Types, Stored, host.phase = "done"
               PROVE  host.stored = [i \in 1..Packets |-> i - 1]
    BY DEF SampleIntact
  <2> DEFINE s == host.stored
  <2>1. /\ s \in Seq(Block) /\ Len(s) = Packets /\ Packets \in Nat \ {0}
        /\ \A i \in 1..Packets : s[i] \in 0..(Packets - 1)
    <3>1. s \in Seq(Block) /\ Len(s) = Packets
      BY DEF Types, Stored
    <3> QED BY <3>1, ElementOfSeq, SizeAssumption DEF Block
  <2>2. ASSUME NEW i \in 1..Packets PROVE s[i] = i - 1
    <3>1. 1 \in 1..Packets /\ Packets \in 1..Packets
      BY <2>1
    <3>2. 1 < i => s[i] - s[1] >= i - 1
      BY <2>1, <3>1 DEF Stored
    <3>3. i < Packets => s[Packets] - s[i] >= Packets - i
      BY <2>1, <3>1 DEF Stored
    <3>4. s[i] \in 0..(Packets - 1) /\ s[1] \in 0..(Packets - 1) /\ s[Packets] \in 0..(Packets - 1)
      BY <2>1, <3>1
    <3>5. s[i] >= i - 1
      BY <2>1, <3>2, <3>4
    <3>6. s[i] <= i - 1
      BY <2>1, <3>3, <3>4
    <3> QED BY <2>1, <3>4, <3>5, <3>6
  <2>3. s = [i \in 1..Packets |-> s[i]]
    BY <2>1
  <2> QED BY <2>2, <2>3
<1> QED BY <1>1, Invariant, PTL
=============================================================================

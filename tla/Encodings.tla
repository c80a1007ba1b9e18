----------------------------- MODULE Encodings -----------------------------
(***************************************************************************)
(* What becomes of the bytes of a file on their way between drumtool and   *)
(* the device, on which no byte may have its eighth bit set: samples in    *)
(* either direction, in words of 16 bits packed in three bytes each, and   *)
(* firmware, in groups of bytes with their eighth bits behind them.  What  *)
(* does not fill a packet is padded by the sender, each in its own way,    *)
(* and the receiver cuts the padding off by the length announced.          *)
(*                                                                         *)
(* That messages arrive, in order and once, is shown by SdsUpload, SdsDump *)
(* and FirmwareUpdate: here they do.  Values fit the 21 and 32 bits of     *)
(* their fields; checksums and sample rates, which no receiver keeps, are  *)
(* left out.                                                               *)
(***************************************************************************)
EXTENDS Integers, Sequences

CONSTANTS
    WordsPerPacket,   \* 40
    GroupSize,        \* decoded bytes of an encoded group: 7
    ChunkSize,        \* FIRMWARE_CHUNK_SIZE
    Octets, MaxBytes  \* bounds: the bytes of a file, and how many it has

\* The eighth bits of a group are in a byte of seven; and without whole groups
\* the padding of one message's last would come before the next one's bytes.
ASSUME ChunkAssumption ==
    GroupSize \in 1..7 /\ ChunkSize \in Nat \ {0} /\ ChunkSize % GroupSize = 0

\* A length in words has 21 bits.
ASSUME BytesAssumption ==
    /\ Octets \subseteq 0..255 /\ WordsPerPacket \in Nat \ {0}
    /\ MaxBytes \in Nat /\ MaxBytes < 2^22

VARIABLES
    journey,    \* what is sent: "upload", "download" or "firmware"
    source,     \* the file
    progress,   \* "begin", "sending", "ok" or "failed"
    sent,       \* bytes of it the sender has done with
    announced,  \* its length, as the receiver understands it
    arrived,    \* what the receiver has of it
    sha         \* of firmware, as the host computes and the device reads it

encodingVars == <<journey, source, progress, sent, announced, arrived, sha>>

-----------------------------------------------------------------------------
BytesPerPacket == 2 * WordsPerPacket
WholeWords == 2 * (Len(source) \div 2)
Least(a, b) == IF a < b THEN a ELSE b

\* A little-endian word as the signed sample it is, and back.
Sample(low, high) == LET u == low + 256 * high IN IF u < 2^15 THEN u ELSE u - 2^16
SampleBytes(sample) == <<sample % 256, (sample \div 256) % 256>>

\* The device's packing of a sample, which wraps as the processor does, and the
\* host's, which need not: a sample and half the range are not negative.
pack_16bit_sample(sample) ==
    LET unsigned == (sample + 2^15) % 2^16
    IN <<(unsigned \div 2^9) % 128, (unsigned \div 4) % 128, (unsigned * 32) % 128>>

pack16BitSample(sample) ==
    LET unsigned == sample + 2^15
    IN <<(unsigned \div 2^9) % 128, (unsigned \div 4) % 128, (unsigned * 32) % 128>>

\* The host's unpacking, and the device's, in 16 bits.
unpack16BitSample(packed) == packed[1] * 2^9 + packed[2] * 4 + (packed[3] \div 32) - 2^15

unpack_16bit_sample(packed) ==
    LET unsigned == (packed[1] * 2^9 + packed[2] * 4 + (packed[3] \div 32)) % 2^16
    IN unsigned - 2^15

encode_21bit(value) == [i \in 0..2 |-> (value \div (128^i)) % 128]
parse_21bit(encoded) == encoded[0] + 128 * encoded[1] + 128^2 * encoded[2]
lengthToSdsFormat(bytes) == encode_21bit(bytes \div 2)

\* A word the file does not fill is padded by the host as packed ...
createDataPacket(offset) ==
    [i \in 1..WordsPerPacket |->
        LET at == offset + 2 * i
        IN IF at <= Len(source) THEN pack16BitSample(Sample(source[at - 1], source[at]))
           ELSE <<0, 0, 0>>]

\* ... and by the device before it packs.
send_next_packet(offset) ==
    LET raw(at) == IF at <= WholeWords THEN source[at] ELSE 0
    IN [i \in 1..WordsPerPacket |->
           pack_16bit_sample(Sample(raw(offset + 2 * i - 1), raw(offset + 2 * i)))]

\* The bytes of the samples that came out of a packet.
Unpacked(samples) ==
    [b \in 1..BytesPerPacket |-> SampleBytes(samples[(b + 1) \div 2])[2 - (b % 2)]]

\* Mutant: the padding is stored with the rest.
StoredWhole(bytes) == arrived \o bytes

Stored(bytes) == arrived \o SubSeq(bytes, 1, Least(Len(bytes), announced - Len(arrived)))

\* encode3to16: two bytes are a value in three, the highest first.
encode3to16(bytes) ==
    [s \in 1..3 * ((Len(bytes) + 1) \div 2) |->
        LET i == 2 * ((s - 1) \div 3) + 1
            value == bytes[i] + 256 * (IF i < Len(bytes) THEN bytes[i + 1] ELSE 0)
        IN (value \div (128^(2 - ((s - 1) % 3)))) % 128]

decode_3_to_16bit(encoded) ==
    [v \in 1..Len(encoded) \div 3 |->
        (encoded[3 * v - 2] * 2^14 + encoded[3 * v - 1] * 2^7 + encoded[3 * v]) % 2^16]

ValueBytes(values) ==
    [b \in 1..2 * Len(values) |->
        LET value == values[(b + 1) \div 2]
        IN IF b % 2 = 1 THEN value % 256 ELSE value \div 256]

\* encode8to7: bytes of seven bits, with a byte of their eighth bits after
\* each group; a group that is not full is padded.
Padded(bytes) ==
    [i \in 1..GroupSize * ((Len(bytes) + GroupSize - 1) \div GroupSize) |->
        IF i <= Len(bytes) THEN bytes[i] ELSE 0]

EighthBits(bytes) ==
    LET ofFirst[n \in 0..GroupSize] ==
            IF n = 0 THEN 0 ELSE ofFirst[n - 1] + (bytes[n] \div 128) * 2^(n - 1)
    IN ofFirst[GroupSize]

encode8to7(bytes) ==
    [s \in 1..(GroupSize + 1) * (Len(Padded(bytes)) \div GroupSize) |->
        LET group == (s - 1) \div (GroupSize + 1)
            place == (s - 1) % (GroupSize + 1)
        IN IF place < GroupSize THEN Padded(bytes)[group * GroupSize + place + 1] % 128
           ELSE EighthBits(SubSeq(Padded(bytes), group * GroupSize + 1, (group + 1) * GroupSize))]

decode_8_to_7(encoded) ==
    [b \in 1..GroupSize * (Len(encoded) \div (GroupSize + 1)) |->
        LET group == (b - 1) \div GroupSize
            place == (b - 1) % GroupSize
            msbs  == encoded[(group + 1) * (GroupSize + 1)]
        IN encoded[group * (GroupSize + 1) + place + 1] + 128 * ((msbs \div (2^place)) % 2)]

-----------------------------------------------------------------------------
Fails ==
    progress' = "failed" /\ UNCHANGED <<sent, announced, arrived, sha>>

Agreed(length) ==
    progress' = "sending" /\ announced' = length /\ UNCHANGED <<sent, arrived>>

\* createDumpHeader counts whole words, and the device refuses a sample
\* without any.
AnnounceUpload ==
    LET words == parse_21bit(lengthToSdsFormat(Len(source)))
    IN /\ journey = "upload" /\ progress = "begin"
       /\ IF words = 0 THEN Fails ELSE Agreed(2 * words) /\ UNCHANGED sha

\* Asked for a sample that is not there the device cancels.
AnnounceDownload ==
    /\ journey = "download" /\ progress = "begin"
    /\ IF Len(source) < 2 THEN Fails
       ELSE Agreed(2 * parse_21bit(encode_21bit(WholeWords \div 2))) /\ UNCHANGED sha

\* Size, hash and a version, an odd number of bytes.
AnnounceFirmware ==
    LET payload == [i \in 1..4 |-> (Len(source) \div (256^(i - 1))) % 256] \o sha.sent \o <<0, 0, 0>>
        bytes == ValueBytes(decode_3_to_16bit(encode3to16(payload)))
    IN /\ journey = "firmware" /\ progress = "begin"
       /\ IF source = << >> \/ Len(bytes) < Len(payload) THEN Fails
          ELSE /\ Agreed(bytes[1] + 256 * bytes[2] + 256^2 * bytes[3] + 256^3 * bytes[4])
               /\ sha' = [sha EXCEPT !.arrived = SubSeq(bytes, 5, 4 + Len(sha.sent))]

\* The host goes on until it has sent its file.  A device that has had all it
\* was told of refuses a further packet.
UploadPacket ==
    /\ journey = "upload" /\ progress = "sending"
    /\ IF Len(arrived) >= announced THEN Fails
       ELSE /\ LET packet == createDataPacket(sent)
               IN arrived' = Stored(Unpacked([i \in 1..WordsPerPacket |->
                                                 unpack_16bit_sample(packet[i])]))
            /\ sent' = sent + BytesPerPacket
            /\ progress' = IF sent' >= Len(source) THEN "ok" ELSE "sending"
            /\ UNCHANGED <<announced, sha>>

\* The device goes on until the host has what it was told of.
DownloadPacket ==
    /\ journey = "download" /\ progress = "sending"
    /\ LET packet == send_next_packet(sent)
       IN arrived' = Stored(Unpacked([i \in 1..WordsPerPacket |-> unpack16BitSample(packet[i])]))
    /\ sent' = sent + Least(BytesPerPacket, WholeWords - sent)
    /\ progress' = IF Len(arrived') >= announced THEN "ok" ELSE "sending"
    /\ UNCHANGED <<announced, sha>>

\* More than padding beyond the announced size is refused.
FirmwareBytes ==
    LET chunk == SubSeq(source, sent + 1, Least(sent + ChunkSize, Len(source)))
        bytes == decode_8_to_7(encode8to7(chunk))
    IN /\ journey = "firmware" /\ progress = "sending" /\ sent < Len(source)
       /\ IF Len(bytes) - (announced - Len(arrived)) >= GroupSize THEN Fails
          ELSE /\ arrived' = Stored(bytes)
               /\ sent' = sent + ChunkSize
               /\ UNCHANGED <<progress, announced, sha>>

EndFirmwareUpdate ==
    /\ journey = "firmware" /\ progress = "sending" /\ sent >= Len(source)
    /\ progress' = IF Len(arrived) = announced THEN "ok" ELSE "failed"
    /\ UNCHANGED <<sent, announced, arrived, sha>>

-----------------------------------------------------------------------------
EncodingInit ==
    /\ journey \in {"upload", "download", "firmware"}
    /\ source \in UNION {[1..n -> Octets] : n \in 0..MaxBytes}
    /\ progress = "begin" /\ sent = 0 /\ announced = 0 /\ arrived = << >>
    /\ \E a, b \in Octets : sha = [sent |-> <<a, b>>, arrived |-> << >>]

EncodingNext ==
    /\ \/ AnnounceUpload \/ AnnounceDownload \/ AnnounceFirmware
       \/ UploadPacket \/ DownloadPacket \/ FirmwareBytes \/ EndFirmwareUpdate
    /\ UNCHANGED <<journey, source>>

EncodingSpec == EncodingInit /\ [][EncodingNext]_encodingVars

-----------------------------------------------------------------------------
(* Properties *)

\* However long a file is and whatever its bytes, what arrives of it at any
\* time is how it begins, no padding, and in the end all of it but the odd
\* byte of a sample; and only a file without a word fails to arrive, or one
\* whose odd byte has a packet to itself, which the device refuses after it
\* has stored all the words.
ArrivesAsSent ==
    /\ Len(arrived) <= Len(source) /\ arrived = SubSeq(source, 1, Len(arrived))
    /\ progress = "ok" =>
          IF journey = "firmware" THEN Len(arrived) = Len(source) /\ sha.arrived = sha.sent
          ELSE Len(arrived) = WholeWords
    /\ progress = "failed" =>
          \/ Len(source) < 2 /\ arrived = << >>
          \/ journey = "upload" /\ Len(source) % BytesPerPacket = 1 /\ Len(arrived) = WholeWords
=============================================================================

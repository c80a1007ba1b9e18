----------------------------- MODULE MCSdsDump -----------------------------
(* A sample one block longer than the packet numbers, so that they wrap.   *)
EXTENDS SdsDump

MCPackets       == 4
MCPacketNumbers == 3
=============================================================================

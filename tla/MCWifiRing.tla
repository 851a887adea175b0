----------------------------- MODULE MCWifiRing -----------------------------
(* Three slots of five bytes.  Packets with payloads of up to two bytes,   *)
(* one of them with a byte 0x45, and one that is longer than a slot.       *)
(* One packet is too long or one byte is lost.                             *)
EXTENDS WifiRing

SomePayloads == {<<>>, <<7, 8>>, <<END, 9>>, <<6, 6, 6, 6, 6, 6>>}

ASSUME RoomAssumption == RoomEnough
=============================================================================

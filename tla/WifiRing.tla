------------------------------ MODULE WifiRing ------------------------------
(***************************************************************************)
(* The ring of packet buffers of wifi_mcw1001a_mikro.c, filled byte by     *)
(* byte by the UART interrupt and emptied by wifi_get_packet() in main().  *)
(* The interrupt strikes between any two looks of main() at the ring.  A   *)
(* byte takes some 1400 cycles to arrive and a look (430-446) a few tens,  *)
(* so a look is one step, and fewer bytes arrive during the looks of one   *)
(* call than the end of one packet and the whole of another have.          *)
(*                                                                         *)
(* The bytes 0x55 0xAA are one header byte here, the two length bytes one, *)
(* and the type is part of the payload.  The slots are rows of "buffer",   *)
(* one behind the other: an index past a slot is in the next.  What lies   *)
(* behind the last is not modelled: nothing is found or kept there.        *)
(*                                                                         *)
(* Nothing in the code keeps a packet from being longer than a slot (a     *)
(* RECV_FROM asks for up to 0xFFFF bytes), or the line from losing a byte. *)
(* Such faults happen here too; "faults" counts them.                      *)
(***************************************************************************)
EXTENDS Integers, Sequences

CONSTANTS BUFFER_SIZE,              \* slots
          BUFFER_MAX_PACKET_SIZE,   \* bytes in a slot
          Payloads,                 \* what the module sends, as sequences of bytes
          MaxUnread,                \* the module sends while fewer packets are unread
          BytesPerScan,             \* bytes that may arrive during one call's looks
          MaxFaults,                \* bytes lost and packets sent that are too long
          NULL                      \* no packet

HEADER == 85   \* 0x55
END    == 69   \* 0x45

HeaderSize == 2

Byte  == 0..255
Slots == 0..(BUFFER_SIZE - 1)
Cells == 0..(BUFFER_MAX_PACKET_SIZE - 1)

(* The index into a slot is a byte.  The length is one here.               *)
ASSUME SizesAssumption ==
  /\ BUFFER_SIZE \in Nat \ {0}
  /\ BUFFER_MAX_PACKET_SIZE \in (HeaderSize + 1)..256
  /\ MaxUnread \in Nat /\ BytesPerScan \in Nat /\ MaxFaults \in Nat
  /\ Payloads \subseteq Seq(Byte)
  /\ \A p \in Payloads : Len(p) \in Byte

VARIABLES
  buffer,                \* the slots
  buffer_index,          \* the slot being filled
  buffer_packet_index,   \* the next byte in it
  arrived,               \* bytes that have arrived since the call began
  index,                 \* wifi_get_packet(): the slot it looks at
  len,                   \* and the length of the packet it takes
  pc,                    \* main(): not in wifi_get_packet(), scanning, or taking
  got,                   \* the packet it returned last
  wire,                  \* bytes the module has yet to send of its packet
  sent,                  \* history: packets sent and not yet returned, oldest first,
  cut,                   \* whether one was sent that is not stored whole
  faults                 \* bytes lost and packets sent that are too long

isrVars  == <<buffer_index, buffer_packet_index, wire>>
mainVars == <<index, len, pc, got>>
history  == <<sent, cut, faults>>
vars     == <<buffer, isrVars, arrived, mainVars, history>>

Init ==
  /\ buffer = [s \in Slots |-> [c \in Cells |-> 0]]
  /\ buffer_index = 0 /\ buffer_packet_index = 0
  /\ arrived = 0 /\ index = 0 /\ len = 0 /\ pc = "idle" /\ got = NULL
  /\ wire = <<>> /\ sent = <<>> /\ cut = FALSE /\ faults = 0

-----------------------------------------------------------------------------
(* The module starts to send a packet.                                     *)
Frame(p) == <<HEADER, Len(p)>> \o p \o <<END>>

Fits(p) == HeaderSize + Len(p) + 1 <= BUFFER_MAX_PACKET_SIZE

(* A packet that is not stored whole: it is longer than a slot, or has a   *)
(* 0x45 before the end, which closes the slot too early.                   *)
Mangled(p) == ~Fits(p) \/ \E i \in 1..(Len(Frame(p)) - 1) : Frame(p)[i] = END

SendPacket(p) ==
  /\ wire = <<>>
  /\ Len(sent) < MaxUnread
  /\ wire' = Frame(p)
  /\ sent' = Append(sent, p)
  /\ cut' = (cut \/ Mangled(p))
  /\ IF Fits(p) THEN UNCHANGED faults ELSE faults < MaxFaults /\ faults' = faults + 1
  /\ UNCHANGED <<buffer, buffer_index, buffer_packet_index, arrived, mainVars>>

(* The line loses a byte: none is waiting when the handler looks.          *)
LoseByte ==
  /\ wire # <<>>
  /\ faults < MaxFaults
  /\ wire' = Tail(wire)
  /\ faults' = faults + 1 /\ cut' = TRUE
  /\ UNCHANGED <<buffer, buffer_index, buffer_packet_index, arrived, mainVars, sent>>

(* wifi_mcw1001a_mikro_interrupt_handler().                                *)
InUse == buffer_packet_index = 0 /\ buffer[buffer_index][0] # 0

ByteArrives ==
  /\ wire # <<>>
  /\ pc = "scan" => arrived < BytesPerScan
  /\ arrived' = (IF pc = "scan" THEN arrived + 1 ELSE 0)

RefuseByte ==
  /\ ByteArrives /\ InUse
  /\ wire' = Tail(wire)
  /\ UNCHANGED <<buffer, buffer_index, buffer_packet_index, mainVars, history>>

(* A byte goes to its place in the slot, or past its end.                  *)
Stored(b) ==
  LET row == buffer_index + buffer_packet_index \div BUFFER_MAX_PACKET_SIZE IN
  IF row \in Slots
  THEN [buffer EXCEPT ![row][buffer_packet_index % BUFFER_MAX_PACKET_SIZE] = b]
  ELSE buffer

Further == (buffer_packet_index + 1) % 256

ReceiveByteUnreset ==
  /\ ByteArrives /\ ~InUse
  /\ wire' = Tail(wire)
  /\ buffer' = Stored(Head(wire))
  /\ IF Head(wire) = END
     THEN buffer_index' = (buffer_index + 1) % BUFFER_SIZE
     ELSE UNCHANGED buffer_index
  /\ buffer_packet_index' = Further
  /\ UNCHANGED <<mainVars, history>>

ReceiveByte ==
  /\ ByteArrives /\ ~InUse
  /\ wire' = Tail(wire)
  /\ buffer' = Stored(Head(wire))
  /\ IF Head(wire) = END
     THEN /\ buffer_index' = (buffer_index + 1) % BUFFER_SIZE
          /\ buffer_packet_index' = 0
     ELSE /\ buffer_packet_index' = Further
          /\ UNCHANGED buffer_index
  /\ UNCHANGED <<mainVars, history>>

-----------------------------------------------------------------------------
(* wifi_get_packet().                                                      *)
Call ==
  /\ pc = "idle"
  /\ pc' = "scan"
  /\ index' = buffer_index
  /\ arrived' = 0
  /\ UNCHANGED <<buffer, isrVars, len, got, history>>

(* The byte at an index into a slot, or past its end.                      *)
At(s, k) ==
  LET row == s + k \div BUFFER_MAX_PACKET_SIZE IN
  IF row \in Slots THEN buffer[row][k % BUFFER_MAX_PACKET_SIZE] ELSE 0

(* A good header, and 0x45 where the length says the packet ends.          *)
Whole(s) == buffer[s][0] = HEADER /\ At(s, HeaderSize + buffer[s][1]) = END

LookAtCurrent ==
  /\ pc = "scan"
  /\ index' = index
  /\ pc' = (IF Whole(index') THEN "take" ELSE "idle")
  /\ len' = buffer[index'][1]
  /\ UNCHANGED <<buffer, isrVars, arrived, got, history>>

Look ==
  /\ pc = "scan"
  /\ index' = (index + 1) % BUFFER_SIZE
  /\ pc' = (IF index' = buffer_index THEN "idle"
            ELSE IF Whole(index') THEN "take" ELSE "scan")
  /\ len' = (IF pc' = "take" THEN buffer[index'][1] ELSE len)
  /\ UNCHANGED <<buffer, isrVars, arrived, got, history>>

(* The packet is copied, and its slot freed by its first byte.             *)
Payload(s, n) == [i \in 1..n |-> At(s, HeaderSize + i - 1)]

TakeUncleared ==
  /\ pc = "take"
  /\ got' = Payload(index, len)
  /\ sent' = (IF sent = <<>> THEN <<>> ELSE Tail(sent))
  /\ pc' = "idle" /\ len' = 0
  /\ UNCHANGED <<buffer, isrVars, arrived, index, cut, faults>>

TakePacket ==
  /\ pc = "take"
  /\ got' = Payload(index, len)
  /\ sent' = (IF sent = <<>> THEN <<>> ELSE Tail(sent))
  /\ buffer' = [buffer EXCEPT ![index][0] = 0]
  /\ pc' = "idle" /\ len' = 0
  /\ UNCHANGED <<isrVars, arrived, index, cut, faults>>

-----------------------------------------------------------------------------
Uart == RefuseByte \/ ReceiveByte
Main == Call \/ Look \/ TakePacket
Next == (\E p \in Payloads : SendPacket(p)) \/ LoseByte \/ Uart \/ Main

Spec == Init /\ [][Next]_vars

-----------------------------------------------------------------------------
TypeOK ==
  /\ buffer \in [Slots -> [Cells -> Byte]]
  /\ buffer_index \in Slots /\ index \in Slots
  /\ buffer_packet_index \in Byte /\ arrived \in 0..BytesPerScan /\ len \in Byte
  /\ pc \in {"idle", "scan", "take"}
  /\ got \in Seq(Byte) \cup {NULL}
  /\ wire \in Seq(Byte) /\ sent \in Seq(Payloads)
  /\ cut \in BOOLEAN /\ faults \in 0..MaxFaults

(* The interrupt does not write outside its slot: buffer_packet_index,     *)
(* which the code does not compare with BUFFER_MAX_PACKET_SIZE, stays      *)
(* below it even when packets are cut in pieces and when bytes are refused,*)
(* as long as the line loses no byte and every packet sent fits in a slot. *)
WritesInSlot == faults = 0 => buffer_packet_index < BUFFER_MAX_PACKET_SIZE

(* What the ring must be for that: see the comments on the three constants.*)
RoomEnough ==
  /\ MaxUnread < BUFFER_SIZE
  /\ \A p \in Payloads : BytesPerScan <= Len(Frame(p))

(* Nothing is refused, as long as one slot more than the unread packets    *)
(* exists, no byte was lost, no packet was longer than a slot, and none has*)
(* been cut in two by a 0x45 within it: a piece, which is never taken,     *)
(* closes its slot for good.                                               *)
NothingRefused == ~cut /\ wire # <<>> => ~InUse

(* The serial line and the ring are a first-in first-out channel: main()   *)
(* gets the packets that were sent, whole, once and in order, wherever the *)
(* interrupt strikes - until a byte is lost, or a packet is sent that is   *)
(* longer than a slot or has a 0x45 before its end, which the handler      *)
(* takes for the end (wifi_mcw1001a_mikro.c:747).                          *)
Channel == INSTANCE BoundedFifo WITH
             Capacity <- MaxUnread, Item <- Payloads, None <- NULL,
             contents <- sent, taken <- got

ImplementsChannel == Channel!Init /\ [][cut \/ Channel!Next]_<<sent, got>>
=============================================================================

--------------------------- MODULE WifiRingProofs ---------------------------
(***************************************************************************)
(* The interrupt handler writes inside the slot it fills, and never into   *)
(* the one main() takes a packet from, for every size of the ring, every   *)
(* set of packets, with bytes 0x45 in them or not, and however late main() *)
(* empties the ring, as long as no byte is lost and none of the packets    *)
(* that are sent is longer than a slot.  As long as none of them has such  *)
(* a byte either, line and ring together are a first-in first-out channel. *)
(***************************************************************************)
EXTENDS WifiRing, SequenceTheorems, TLAPS

USE DEF HEADER, END, HeaderSize, Byte

(* Without faults, what is left of the packet on the line always fits into *)
(* what is left of the slot, and ends with 0x45: that byte closes the slot *)
(* before the index can pass its end.                                      *)
IInv ==
  /\ buffer \in [Slots -> [Cells -> Byte]]
  /\ buffer_index \in Slots
  /\ buffer_packet_index \in Byte
  /\ wire \in Seq(Byte)
  /\ faults \in 0..MaxFaults
  /\ faults = 0 =>
       /\ wire = <<>> => buffer_packet_index = 0
       /\ wire # <<>> => /\ wire[Len(wire)] = END
                         /\ buffer_packet_index + Len(wire) <= BUFFER_MAX_PACKET_SIZE

LEMMA InSlot == IInv => WritesInSlot
  <1> SUFFICES ASSUME IInv, faults = 0
               PROVE  buffer_packet_index < BUFFER_MAX_PACKET_SIZE
    BY DEF WritesInSlot
  <1>1. CASE wire = <<>>
    BY <1>1, SizesAssumption DEF IInv
  <1>2. CASE wire # <<>>
    <2>1. Len(wire) \in Nat /\ Len(wire) >= 1
      BY <1>2 DEF IInv
    <2>2. QED BY <1>2, <2>1, SizesAssumption DEF IInv
  <1>3. QED BY <1>1, <1>2

(* Places in a slot, and the byte that goes there.                         *)
LEMMA InCells ==
  ASSUME NEW k \in Cells
  PROVE  k \div BUFFER_MAX_PACKET_SIZE = 0 /\ k % BUFFER_MAX_PACKET_SIZE = k
  <1>1. PICK m \in Nat \ {0} : m = BUFFER_MAX_PACKET_SIZE
    BY SizesAssumption
  <1>2. k \in 0..(m - 1)
    BY <1>1 DEF Cells
  <1>3. k \div m = 0 /\ k % m = k
    BY <1>2
  <1>4. QED BY <1>1, <1>3

LEMMA AtIs ==
  ASSUME NEW s \in Slots, NEW k \in Cells
  PROVE  At(s, k) = buffer[s][k]
  <1>1. s + k \div BUFFER_MAX_PACKET_SIZE = s
    BY InCells, SizesAssumption DEF Slots
  <1>2. QED BY <1>1, InCells DEF At

LEMMA AtType ==
  ASSUME IInv, NEW s \in Slots, NEW k \in Nat
  PROVE  At(s, k) \in Byte
  <1>1. k % BUFFER_MAX_PACKET_SIZE \in Cells
    BY SizesAssumption DEF Cells
  <1>2. QED BY <1>1 DEF At, IInv

LEMMA StoredType ==
  ASSUME IInv, NEW b \in Byte
  PROVE  Stored(b) \in [Slots -> [Cells -> Byte]]
  <1> DEFINE row == buffer_index + buffer_packet_index \div BUFFER_MAX_PACKET_SIZE
             c == buffer_packet_index % BUFFER_MAX_PACKET_SIZE
  <1>1. c \in Cells
    BY SizesAssumption DEF Cells, IInv
  <1>2. buffer \in [Slots -> [Cells -> Byte]]
    BY DEF IInv
  <1>3. Stored(b) = IF row \in Slots THEN [buffer EXCEPT ![row][c] = b] ELSE buffer
    BY DEF Stored
  <1> HIDE DEF row, c, Byte
  <1>4. QED BY <1>1, <1>2, <1>3

LEMMA StoredIs ==
  ASSUME IInv, faults = 0, NEW b
  PROVE  /\ buffer_packet_index \in Cells
         /\ Stored(b) = [buffer EXCEPT ![buffer_index][buffer_packet_index] = b]
  <1>1. buffer_packet_index \in Cells
    BY InSlot, SizesAssumption DEF IInv, WritesInSlot, Cells
  <1>2. /\ buffer_index + buffer_packet_index \div BUFFER_MAX_PACKET_SIZE = buffer_index
        /\ buffer_packet_index % BUFFER_MAX_PACKET_SIZE = buffer_packet_index
    BY <1>1, InCells, SizesAssumption DEF IInv, Slots
  <1>3. buffer_index \in Slots
    BY DEF IInv
  <1>4. QED BY <1>1, <1>2, <1>3 DEF Stored

(* What the handler does with a byte, as long as nothing went wrong.       *)
LEMMA Receives ==
  ASSUME IInv, faults = 0, ReceiveByte
  PROVE  /\ buffer_packet_index \in Cells
         /\ buffer' = [buffer EXCEPT ![buffer_index][buffer_packet_index] = Head(wire)]
         /\ Head(wire) = END => /\ buffer_index' = (buffer_index + 1) % BUFFER_SIZE
                                /\ buffer_packet_index' = 0
         /\ Head(wire) # END => /\ buffer_index' = buffer_index
                                /\ buffer_packet_index' = buffer_packet_index + 1
  <1>1. /\ buffer_packet_index \in Cells
        /\ buffer' = [buffer EXCEPT ![buffer_index][buffer_packet_index] = Head(wire)]
    BY StoredIs DEF ReceiveByte
  <1>2. ASSUME Head(wire) # END
        PROVE  /\ buffer_index' = buffer_index
               /\ buffer_packet_index' = buffer_packet_index + 1
    <2>1. wire # <<>> /\ buffer_index' = buffer_index /\ buffer_packet_index' = Further
      BY <1>2 DEF ReceiveByte, ByteArrives
    <2>2. PICK n \in Nat : n = Len(wire)
      BY DEF IInv
    <2>3. wire \in Seq(Byte) /\ n >= 1 /\ wire[n] = END /\ Head(wire) = wire[1]
      BY <2>1, <2>2 DEF IInv
    <2>4. n # 1
      BY <1>2, <2>3
    <2>5. buffer_packet_index + n <= BUFFER_MAX_PACKET_SIZE
      BY <2>1, <2>2 DEF IInv
    <2>6. buffer_packet_index \in 0..254
      BY <2>3, <2>4, <2>5, SizesAssumption DEF IInv
    <2>7. Further = buffer_packet_index + 1
      BY <2>6 DEF Further
    <2>8. QED BY <2>1, <2>7
  <1>3. QED BY <1>1, <1>2 DEF ReceiveByte

(* A packet on the line: framed, it ends with 0x45; if it fits into a slot,*)
(* it does so framed.                                                      *)
LEMMA FrameType ==
  ASSUME NEW p \in Payloads
  PROVE  /\ Frame(p) \in Seq(Byte) /\ Frame(p) # <<>>
         /\ Fits(p) => Len(Frame(p)) <= BUFFER_MAX_PACKET_SIZE
         /\ Frame(p)[Len(Frame(p))] = END
  <1>1. p \in Seq(Byte) /\ Len(p) \in Nat
    BY SizesAssumption
  <1>2. Len(p) \in Byte
    BY SizesAssumption
  <1>3. <<HEADER, Len(p)>> \in Seq(Byte) /\ Len(<<HEADER, Len(p)>>) = 2
    BY <1>2
  <1> DEFINE q == <<HEADER, Len(p)>> \o p
  <1>4. q \in Seq(Byte) /\ Len(q) = Len(p) + 2
    <2> DEFINE h == <<HEADER, Len(p)>>
    <2>1. p \in Seq(Byte) /\ Len(p) \in Nat /\ h \in Seq(Byte) /\ Len(h) = 2
      BY <1>1, <1>3
    <2> HIDE DEF h, Byte
    <2>2. h \o p \in Seq(Byte) /\ Len(h \o p) = Len(h) + Len(p)
      BY <2>1, ConcatProperties
    <2>3. h \o p \in Seq(Byte) /\ Len(h \o p) = Len(p) + 2
      BY <2>1, <2>2
    <2>4. QED BY <2>3, Zenon DEF q, h
  <1>5. <<END>> \in Seq(Byte) /\ Len(<<END>>) = 1 /\ <<END>>[1] = END
    OBVIOUS
  <1>6. Frame(p) = q \o <<END>>
    BY DEF Frame
  <1> HIDE DEF q
  <1>7. /\ Frame(p) \in Seq(Byte) /\ Len(Frame(p)) = Len(p) + 3
        /\ Frame(p)[Len(p) + 3] = END
    <2>1. /\ q \o <<END>> \in Seq(Byte) /\ Len(q \o <<END>>) = Len(q) + 1
          /\ (q \o <<END>>)[Len(q) + 1] = <<END>>[1]
      BY <1>4, <1>5, ConcatProperties
    <2>2. QED BY <1>1, <1>4, <1>5, <1>6, <2>1
  <1>8. Fits(p) => Len(p) + 3 <= BUFFER_MAX_PACKET_SIZE
    <2> DEFINE n == Len(p)  m == BUFFER_MAX_PACKET_SIZE
    <2>1. n \in Nat /\ m \in Int /\ (Fits(p) <=> 2 + n + 1 <= m)
      BY <1>1, SizesAssumption DEF Fits
    <2> HIDE DEF n, m
    <2>2. 2 + n + 1 <= m => n + 3 <= m
      BY <2>1
    <2>3. QED BY <2>1, <2>2 DEF n, m
  <1>9. QED BY <1>1, <1>7, <1>8

(* The byte that arrives, and what remains on the line after it.           *)
LEMMA ByteType ==
  ASSUME IInv, wire # <<>>
  PROVE  /\ Head(wire) \in Byte /\ Tail(wire) \in Seq(Byte)
         /\ Len(wire) \in Nat \ {0} /\ Len(Tail(wire)) = Len(wire) - 1
         /\ faults = 0 /\ Tail(wire) # <<>> => Tail(wire)[Len(Tail(wire))] = END
         /\ faults = 0 /\ Tail(wire) = <<>> => Head(wire) = END
  <1>1. /\ wire \in Seq(Byte) /\ Len(wire) \in Nat \ {0}
        /\ faults = 0 => wire[Len(wire)] = END
    BY DEF IInv
  <1>2. /\ Head(wire) \in Byte /\ Tail(wire) \in Seq(Byte)
        /\ Len(Tail(wire)) = Len(wire) - 1
        /\ \A i \in 1..Len(Tail(wire)) : Tail(wire)[i] = wire[i + 1]
    BY <1>1, HeadTailProperties
  <1>3. ASSUME faults = 0, Tail(wire) # <<>>
        PROVE  Tail(wire)[Len(Tail(wire))] = END
    <2>1. Len(Tail(wire)) \in 1..Len(Tail(wire)) /\ Len(Tail(wire)) + 1 = Len(wire)
      BY <1>1, <1>2, <1>3
    <2>2. QED BY <1>1, <1>2, <1>3, <2>1
  <1>4. ASSUME faults = 0, Tail(wire) = <<>>
        PROVE  Head(wire) = END
    <2>1. Len(wire) = 1
      <3>1. Len(Tail(wire)) = 0
        BY <1>2, <1>4, EmptySeq
      <3> DEFINE n == Len(wire)  t == Len(Tail(wire))
      <3>2. n \in Nat /\ t = n - 1 /\ t = 0
        BY <1>1, <1>2, <3>1
      <3> HIDE DEF n, t
      <3>3. n = 1
        BY <3>2
      <3>4. QED BY <3>3 DEF n
    <2>2. QED BY <1>1, <1>4, <2>1
  <1>5. QED BY <1>1, <1>2, <1>3, <1>4

LEMMA SendPreserves ==
  ASSUME IInv, NEW p \in Payloads, SendPacket(p)
  PROVE  IInv'
  <1>1. /\ wire = <<>> /\ wire' = Frame(p)
        /\ UNCHANGED <<buffer, buffer_index, buffer_packet_index>>
    BY DEF SendPacket
  <1>2. faults' \in 0..MaxFaults /\ (faults' = 0 => faults = 0 /\ Fits(p))
    BY SizesAssumption DEF SendPacket, IInv
  <1>3. ASSUME faults' = 0
        PROVE  /\ wire' # <<>> /\ wire'[Len(wire')] = END
               /\ buffer_packet_index' + Len(wire') <= BUFFER_MAX_PACKET_SIZE
    <2>1. buffer_packet_index' = 0
      BY <1>1, <1>2, <1>3 DEF IInv
    <2>2. Len(Frame(p)) \in Nat /\ Len(Frame(p)) <= BUFFER_MAX_PACKET_SIZE
      BY <1>2, <1>3, FrameType
    <2>3. 0 + Len(Frame(p)) <= BUFFER_MAX_PACKET_SIZE
      BY <2>2
    <2>4. QED BY <1>1, <2>1, <2>3, FrameType
  <1>4. wire' \in Seq(Byte)
    BY <1>1, FrameType
  <1>5. QED BY <1>1, <1>2, <1>3, <1>4 DEF IInv

(* After a fault the invariant says no more than the types.                *)
LEMMA LosePreserves ==
  ASSUME IInv, LoseByte
  PROVE  IInv'
  <1>1. /\ wire # <<>> /\ wire' = Tail(wire) /\ faults' \in 0..MaxFaults /\ faults' # 0
        /\ UNCHANGED <<buffer, buffer_index, buffer_packet_index>>
    BY SizesAssumption DEF LoseByte, IInv
  <1>2. wire' \in Seq(Byte)
    BY <1>1, ByteType
  <1>3. QED BY <1>1, <1>2 DEF IInv

LEMMA RefusePreserves ==
  ASSUME IInv, RefuseByte
  PROVE  IInv'
  <1>1. /\ wire # <<>> /\ wire' = Tail(wire) /\ buffer_packet_index = 0
        /\ UNCHANGED <<buffer, buffer_index, buffer_packet_index, faults>>
    BY DEF RefuseByte, ByteArrives, InUse, history
  <1>2. faults = 0 => 0 + Len(Tail(wire)) <= BUFFER_MAX_PACKET_SIZE
    <2>1. faults = 0 => 0 + Len(wire) <= BUFFER_MAX_PACKET_SIZE
      BY <1>1 DEF IInv
    <2>2. QED BY <1>1, <2>1, ByteType, SizesAssumption
  <1>3. QED BY <1>1, <1>2, ByteType DEF IInv

LEMMA ReceivePreserves ==
  ASSUME IInv, ReceiveByte
  PROVE  IInv'
  <1>1. wire # <<>> /\ wire' = Tail(wire) /\ buffer' = Stored(Head(wire)) /\ faults' = faults
    BY DEF ReceiveByte, ByteArrives, history
  <1>2. wire' \in Seq(Byte) /\ buffer' \in [Slots -> [Cells -> Byte]]
    BY <1>1, ByteType, StoredType
  <1>3. buffer_index' \in Slots
    BY SizesAssumption DEF ReceiveByte, IInv, Slots
  <1>4. buffer_packet_index' \in Byte
    <2>1. Further \in Byte
      BY DEF IInv, Further
    <2>2. buffer_packet_index' = 0 \/ buffer_packet_index' = Further
      BY DEF ReceiveByte
    <2>3. QED BY <2>1, <2>2
  <1>5. ASSUME faults = 0
        PROVE  /\ wire' = <<>> => buffer_packet_index' = 0
               /\ wire' # <<>> =>
                    /\ wire'[Len(wire')] = END
                    /\ buffer_packet_index' + Len(wire') <= BUFFER_MAX_PACKET_SIZE
    <2>1. wire' = <<>> => buffer_packet_index' = 0
      BY <1>1, <1>5, ByteType, Receives
    <2>2. wire' # <<>> => wire'[Len(wire')] = END
      BY <1>1, <1>5, ByteType
    <2>3. buffer_packet_index' + Len(wire') <= BUFFER_MAX_PACKET_SIZE
      <3> DEFINE k == buffer_packet_index  n == Len(wire)  t == Len(Tail(wire))
                 m == BUFFER_MAX_PACKET_SIZE
      <3>1. k \in Nat /\ k + n <= m
        BY <1>1, <1>5 DEF IInv
      <3>2. n \in Nat /\ t = n - 1 /\ m \in Int
        BY <1>1, ByteType, SizesAssumption
      <3>3. k' = 0 \/ k' = k + 1
        BY <1>5, Receives
      <3>4. Len(wire') = t
        BY <1>1
      <3> HIDE DEF n, t, m
      <3>5. k' + t <= m
        BY <3>1, <3>2, <3>3
      <3>6. QED BY <3>4, <3>5 DEF m
    <2>4. QED BY <2>1, <2>2, <2>3
  <1>6. QED BY <1>1, <1>2, <1>3, <1>4, <1>5 DEF IInv

(* main() changes nothing but the contents of the slots.                   *)
LEMMA MainPreserves ==
  ASSUME IInv, Main
  PROVE  IInv'
  <1>1. UNCHANGED <<buffer_index, buffer_packet_index, wire, faults>>
    BY DEF Main, Call, Look, TakePacket, isrVars, history
  <1>2. buffer' = buffer \/ buffer' = [buffer EXCEPT ![index][0] = 0]
    BY DEF Main, Call, Look, TakePacket
  <1>3. buffer' \in [Slots -> [Cells -> Byte]]
    <2>1. CASE buffer' = buffer
      BY <2>1 DEF IInv
    <2>2. CASE buffer' = [buffer EXCEPT ![index][0] = 0]
      <3>1. ASSUME NEW s \in Slots
            PROVE  [buffer[s] EXCEPT ![0] = 0] \in [Cells -> Byte]
        <4>1. buffer[s] \in [Cells -> Byte] /\ 0 \in Byte
          BY DEF IInv
        <4>2. PICK row : row = buffer[s]
          OBVIOUS
        <4>3. row \in [Cells -> Byte]
          BY <4>1, <4>2
        <4>4. [row EXCEPT ![0] = 0] \in [Cells -> Byte]
          BY <4>1, <4>3
        <4>5. QED BY <4>2, <4>4
      <3>2. QED BY <2>2, <3>1 DEF IInv
    <2>3. QED BY <1>2, <2>1, <2>2
  <1>4. QED BY <1>1, <1>3 DEF IInv

THEOREM RingInductive == Spec => []IInv
  <1>1. Init => IInv
    BY SizesAssumption DEF Init, IInv, Slots, Cells
  <1>2. IInv /\ [Next]_vars => IInv'
    <2> SUFFICES ASSUME IInv, [Next]_vars PROVE IInv'
      OBVIOUS
    <2>1. CASE UNCHANGED vars
      BY <2>1 DEF vars, isrVars, history, IInv
    <2>2. CASE Next
      BY <2>2, SendPreserves, LosePreserves, RefusePreserves, ReceivePreserves, MainPreserves
         DEF Next, Uart
    <2>3. QED BY <2>1, <2>2
  <1>3. QED BY <1>1, <1>2, PTL DEF Spec

(* The handler never writes past the slot it fills, which nothing in it    *)
(* checks, unless a byte is lost or a packet is longer than a slot: the    *)
(* framing of the line alone keeps the index in bounds.                    *)
THEOREM RingWritesInSlot == Spec => []WritesInSlot
  BY RingInductive, InSlot, PTL

-----------------------------------------------------------------------------
(* main() decides on a packet in one step and takes it in another.  Until  *)
(* then its slot stays as it was, as long as nothing went wrong: the       *)
(* handler fills another, or has come round to this one and finds its      *)
(* first byte still there.                                                 *)
TakesWhole ==
  pc = "take" /\ faults = 0 =>
    /\ buffer[index][0] = HEADER /\ buffer[index][1] = len
    /\ HeaderSize + len \in Cells => buffer[index][HeaderSize + len] = END
    /\ buffer_index = index => buffer_packet_index = 0

TInv == IInv /\ TypeOK /\ TakesWhole

LEMMA PayloadType ==
  ASSUME IInv, NEW s \in Slots, NEW n \in Byte
  PROVE  Payload(s, n) \in Seq(Byte)
  <1>1. ASSUME NEW i \in 1..n PROVE At(s, HeaderSize + i - 1) \in Byte
    BY AtType
  <1>2. Payload(s, n) \in [1..n -> Byte]
    BY <1>1 DEF Payload
  <1>3. n \in Nat
    OBVIOUS
  <1> HIDE DEF Byte
  <1>4. QED BY <1>2, <1>3

(* What the handler writes is not in the slot that is taken.               *)
LEMMA ReceiveKeepsTaken ==
  ASSUME TInv, ReceiveByte
  PROVE  TakesWhole'
  <1> SUFFICES ASSUME pc' = "take", faults' = 0
               PROVE  /\ buffer'[index'][0] = HEADER /\ buffer'[index'][1] = len'
                      /\ HeaderSize + len' \in Cells =>
                           buffer'[index'][HeaderSize + len'] = END
                      /\ buffer_index' = index' => buffer_packet_index' = 0
    BY DEF TakesWhole
  <1>1. UNCHANGED <<pc, index, len, faults>> /\ pc = "take" /\ faults = 0 /\ ~InUse
    BY DEF ReceiveByte, mainVars, history
  <1>2. /\ buffer[index][0] = HEADER /\ buffer[index][1] = len
        /\ HeaderSize + len \in Cells => buffer[index][HeaderSize + len] = END
        /\ buffer_index = index => buffer_packet_index = 0
    BY <1>1 DEF TInv, TakesWhole
  <1>3. buffer_index # index
    BY <1>1, <1>2 DEF InUse
  <1>4. buffer'[index] = buffer[index]
    BY <1>1, <1>3, Receives DEF TInv, IInv, TypeOK
  <1>5. buffer_index' = index' => buffer_packet_index' = 0
    BY <1>1, <1>3, Receives DEF TInv
  <1>6. QED BY <1>1, <1>2, <1>4, <1>5

(* A slot found whole has its end in it, if its length lies in it.         *)
LEMMA WholeIs ==
  ASSUME NEW s \in Slots, Whole(s), HeaderSize + buffer[s][1] \in Cells
  PROVE  buffer[s][HeaderSize + buffer[s][1]] = END
  BY AtIs DEF Whole

LEMMA TypeStep ==
  ASSUME TInv, [Next]_vars, IInv'
  PROVE  TypeOK' /\ TakesWhole'
  <1> USE DEF TInv
  <1>1. buffer' \in [Slots -> [Cells -> Byte]] /\ buffer_index' \in Slots
        /\ buffer_packet_index' \in Byte /\ wire' \in Seq(Byte)
        /\ faults' \in 0..MaxFaults
    BY DEF IInv
  <1>2. CASE UNCHANGED vars
    BY <1>2, <1>1 DEF vars, isrVars, mainVars, history, TypeOK, TakesWhole
  <1>3. ASSUME NEW p \in Payloads, SendPacket(p)
        PROVE  TypeOK' /\ TakesWhole'
    <2>1. sent' \in Seq(Payloads) /\ cut' \in BOOLEAN
      <3>1. sent \in Seq(Payloads) /\ sent' = Append(sent, p)
        BY <1>3 DEF SendPacket, TypeOK
      <3>2. sent' \in Seq(Payloads)
        BY <3>1
      <3>3. cut' = (cut \/ Mangled(p)) /\ cut \in BOOLEAN
        BY <1>3 DEF SendPacket, TypeOK
      <3>4. cut' \in BOOLEAN
        BY <3>3
      <3>5. QED BY <3>2, <3>4
    <2>2. UNCHANGED <<buffer, buffer_index, buffer_packet_index, arrived, index, len, pc, got>>
      BY <1>3 DEF SendPacket, mainVars
    <2>3. faults' = 0 => faults = 0
      BY <1>3, SizesAssumption DEF SendPacket, IInv
    <2>4. TypeOK'
      BY <1>1, <2>1, <2>2 DEF TypeOK
    <2>5. TakesWhole'
      BY <2>2, <2>3 DEF TakesWhole
    <2>6. QED BY <2>4, <2>5
  <1>4. ASSUME ByteArrives PROVE arrived' \in 0..BytesPerScan
    BY <1>4, SizesAssumption DEF ByteArrives, TypeOK
  <1>5. CASE LoseByte
    <2>1. /\ UNCHANGED <<arrived, index, len, pc, got, sent>> /\ cut' = TRUE /\ faults' # 0
      BY <1>5 DEF LoseByte, mainVars, IInv
    <2>2. QED BY <1>1, <2>1 DEF TypeOK, TakesWhole
  <1>6. CASE RefuseByte
    <2>1. /\ UNCHANGED <<buffer, buffer_index, buffer_packet_index, index, len, pc, got>>
          /\ UNCHANGED <<sent, cut, faults>>
      BY <1>6 DEF RefuseByte, mainVars, history
    <2>2. arrived' \in 0..BytesPerScan
      BY <1>4, <1>6 DEF RefuseByte
    <2>3. QED BY <1>1, <2>1, <2>2 DEF TypeOK, TakesWhole
  <1>7. CASE ReceiveByte
    <2>1. UNCHANGED <<index, len, pc, got, sent, cut, faults>>
      BY <1>7 DEF ReceiveByte, mainVars, history
    <2>2. arrived' \in 0..BytesPerScan
      BY <1>4, <1>7 DEF ReceiveByte
    <2>3. QED BY <1>1, <1>7, <2>1, <2>2, ReceiveKeepsTaken DEF TypeOK
  <1>8. CASE Call
    BY <1>1, <1>8, SizesAssumption DEF Call, isrVars, history, TypeOK, TakesWhole
  <1>9. CASE Look
    <2>1. index' \in Slots
      BY <1>9, SizesAssumption DEF Look, Slots, TypeOK
    <2>2. /\ UNCHANGED <<buffer, buffer_index, buffer_packet_index, wire, arrived, got>>
          /\ UNCHANGED <<sent, cut, faults>>
          /\ pc' \in {"idle", "scan", "take"}
          /\ pc' = "take" => /\ index' # buffer_index /\ Whole(index')
                             /\ len' = buffer[index'][1]
          /\ pc' # "take" => len' = len
      BY <1>9 DEF Look, isrVars, history
    <2>3. len' \in Byte
      <3>1. buffer[index'] \in [Cells -> Byte] /\ 1 \in Cells
        BY <2>1, SizesAssumption DEF IInv, Cells
      <3>2. buffer[index'][1] \in Byte
        BY <3>1
      <3>3. QED BY <2>2, <3>2 DEF TypeOK
    <2>4. TypeOK'
      BY <1>1, <2>1, <2>2, <2>3 DEF TypeOK
    <2>5. TakesWhole'
      <3> SUFFICES ASSUME pc' = "take" PROVE TakesWhole'
        BY DEF TakesWhole
      <3>1. HeaderSize + len' \in Cells => buffer[index'][HeaderSize + len'] = END
        BY <2>1, <2>2, WholeIs
      <3>2. buffer[index'][0] = HEADER
        BY <2>2 DEF Whole
      <3>3. QED BY <2>2, <3>1, <3>2 DEF TakesWhole
    <2>6. QED BY <2>4, <2>5
  <1>10. CASE TakePacket
    <2>1. got' \in Seq(Byte)
      BY <1>10, PayloadType DEF TakePacket, TypeOK
    <2>2. sent' \in Seq(Payloads)
      BY <1>10 DEF TakePacket, TypeOK
    <2>3. pc' = "idle" /\ len' = 0 /\ UNCHANGED <<arrived, index, cut, faults>>
      BY <1>10 DEF TakePacket
    <2>4. QED BY <1>1, <2>1, <2>2, <2>3 DEF TypeOK, TakesWhole
  <1>11. QED
    BY <1>2, <1>3, <1>5, <1>6, <1>7, <1>8, <1>9, <1>10 DEF Next, Uart, Main

(* The variables of the ring's model keep their types; a packet that is    *)
(* taken is the one that was found whole, as long as nothing went wrong.   *)
THEOREM RingTypeCorrect == Spec => [](TypeOK /\ TakesWhole)
  <1>1. Init => TInv
    <2> SUFFICES ASSUME Init PROVE TInv
      OBVIOUS
    <2>1. IInv
      BY SizesAssumption DEF Init, IInv, Slots, Cells
    <2>2. TakesWhole
      BY DEF Init, TakesWhole
    <2>3. /\ 0 \in Slots /\ 0 \in Byte /\ 0 \in 0..BytesPerScan
          /\ <<>> \in Seq(Byte) /\ <<>> \in Seq(Payloads)
      BY SizesAssumption DEF Slots
    <2>4. TypeOK
      BY <2>1, <2>3 DEF Init, IInv, TypeOK
    <2>5. QED BY <2>1, <2>2, <2>4 DEF TInv
  <1>2. TInv /\ IInv' /\ [Next]_vars => TInv'
    BY TypeStep DEF TInv
  <1>3. TInv => TypeOK /\ TakesWhole
    BY DEF TInv
  <1>4. QED BY <1>1, <1>2, <1>3, RingInductive, PTL DEF Spec
-----------------------------------------------------------------------------
(* The ring as a channel.  The slots are counted from the one being        *)
(* filled; Off is how far ahead of it a slot is.                           *)
Off(s) == IF s >= buffer_index THEN s - buffer_index ELSE s - buffer_index + BUFFER_SIZE

(* How many packets are whole in the ring: all sent but the one on its way.*)
Done == Len(sent) - (IF wire = <<>> THEN 0 ELSE 1)

Holds(s, p) == \A i \in 1..Len(Frame(p)) : buffer[s][i - 1] = Frame(p)[i]

(* The packets that are whole lie right behind the slot being filled, the  *)
(* oldest first: Turn is how old the packet in a slot is, 1 that of the    *)
(* oldest.  What is behind that is free.                                   *)
Turn(s) == Off(s) + Done + 1 - BUFFER_SIZE

SlotsInOrder ==
  \A s \in Slots \ {buffer_index} :
    /\ Turn(s) < 1  => buffer[s][0] = 0
    /\ Turn(s) >= 1 => Holds(s, sent[Turn(s)])

(* The slot being filled has the part of the packet sent last that is not  *)
(* on the line any more.                                                   *)
Newest == Frame(sent[Len(sent)])

FilledInPart ==
  /\ buffer_packet_index = 0 => buffer[buffer_index][0] = 0
  /\ wire # <<>> =>
       /\ sent # <<>>
       /\ buffer_packet_index + Len(wire) = Len(Newest)
       /\ \A i \in 1..Len(wire) : wire[i] = Newest[buffer_packet_index + i]
       /\ \A i \in 1..buffer_packet_index : buffer[buffer_index][i - 1] = Newest[i]

(* The bytes that may still arrive during the looks close no slot.         *)
Spent == IF wire = <<>> THEN arrived >= 1 ELSE arrived + Len(wire) > BytesPerScan

(* main() has the oldest packet before it, or will come to the slot being  *)
(* filled with its next look; what it takes is the oldest packet.          *)
LooksForOldest ==
  /\ pc = "scan" => Turn(index) < 1 \/ (Off(index) = BUFFER_SIZE - 1 /\ Spent)
  /\ pc = "take" => Turn(index) = 1 /\ len = Len(sent[1])

Uncut ==
  /\ faults = 0
  /\ Len(sent) <= MaxUnread
  /\ \A i \in 1..Len(sent) : ~Mangled(sent[i])
  /\ SlotsInOrder /\ FilledInPart /\ LooksForOldest

ChannelInv == ~cut => Uncut

-----------------------------------------------------------------------------
(* The bytes of a frame.                                                   *)
LEMMA FrameIs ==
  ASSUME NEW p \in Payloads
  PROVE  /\ p \in Seq(Byte) /\ Len(p) \in Nat /\ Len(Frame(p)) = Len(p) + 3
         /\ Fits(p) => HeaderSize + Len(p) \in Cells
         /\ Frame(p)[1] = HEADER /\ Frame(p)[2] = Len(p) /\ Frame(p)[Len(p) + 3] = END
         /\ \A i \in 1..Len(p) : Frame(p)[i + 2] = p[i]
  <1>1. p \in Seq(Byte) /\ Len(p) \in Nat
    BY SizesAssumption
  <1>2. PICK n \in Nat : n = Len(p)
    BY <1>1
  <1>3. /\ p \in Seq(Nat) /\ <<HEADER, n>> \in Seq(Nat) /\ <<END>> \in Seq(Nat)
        /\ Len(<<HEADER, n>>) = 2 /\ <<HEADER, n>>[1] = HEADER /\ <<HEADER, n>>[2] = n
        /\ Len(<<END>>) = 1 /\ <<END>>[1] = END
    <2>1. Byte \subseteq Nat
      OBVIOUS
    <2>2. p \in Seq(Nat)
      BY <1>1, <2>1, SeqMonotonic
    <2>3. QED BY <2>2
  <1> DEFINE q == <<HEADER, n>> \o p
  <1>4. /\ q \in Seq(Nat) /\ Len(q) = 2 + n
        /\ \A i \in 1..(2 + n) : q[i] = IF i <= 2 THEN <<HEADER, n>>[i] ELSE p[i - 2]
    BY <1>2, <1>3, ConcatProperties
  <1>5. q[1] = HEADER /\ q[2] = n /\ \A i \in 1..n : q[i + 2] = p[i]
    <2>1. q[1] = HEADER /\ q[2] = n
      BY <1>3, <1>4
    <2>2. ASSUME NEW i \in 1..n PROVE q[i + 2] = p[i]
      <3>1. i + 2 \in 1..(2 + n) /\ ~(i + 2 <= 2) /\ (i + 2) - 2 = i
        OBVIOUS
      <3> HIDE DEF q
      <3>2. QED BY <1>4, <3>1
    <2>3. QED BY <2>1, <2>2
  <1> DEFINE f == q \o <<END>>
  <1> HIDE DEF q
  <1>6. /\ Len(f) = n + 3
        /\ \A i \in 1..(n + 3) : f[i] = IF i <= n + 2 THEN q[i] ELSE <<END>>[i - (n + 2)]
    <2>1. Len(q) + 1 = n + 3 /\ Len(q) = n + 2
      BY <1>4
    <2>2. QED BY <1>3, <1>4, <2>1, ConcatProperties
  <1>7. Frame(p) = f
    BY <1>2 DEF Frame, q
  <1> HIDE DEF f
  <1>8. f[1] = HEADER /\ f[2] = n /\ f[n + 3] = END
    <2>1. 1 \in 1..(n + 3) /\ 1 <= n + 2 /\ 2 \in 1..(n + 3) /\ 2 <= n + 2
          /\ n + 3 \in 1..(n + 3) /\ ~(n + 3 <= n + 2) /\ (n + 3) - (n + 2) = 1
      OBVIOUS
    <2>2. QED BY <1>3, <1>5, <1>6, <2>1
  <1>9. ASSUME NEW i \in 1..n PROVE f[i + 2] = p[i]
    <2>1. i + 2 \in 1..(n + 3) /\ i + 2 <= n + 2
      OBVIOUS
    <2>2. QED BY <1>5, <1>6, <2>1
  <1>10. Fits(p) => HeaderSize + n \in Cells
    BY <1>2, SizesAssumption DEF Cells, Fits
  <1>11. QED BY <1>1, <1>2, <1>6, <1>7, <1>8, <1>9, <1>10

(* The slots around the one being filled.                                  *)
LEMMA NextSlot ==
  ASSUME NEW s \in Slots
  PROVE  /\ (s + 1) % BUFFER_SIZE \in Slots
         /\ (s + 1) % BUFFER_SIZE = IF s = BUFFER_SIZE - 1 THEN 0 ELSE s + 1
  <1>1. s \in Nat /\ s < BUFFER_SIZE /\ BUFFER_SIZE \in Nat \ {0}
    BY SizesAssumption DEF Slots
  <1>2. CASE s = BUFFER_SIZE - 1
    BY <1>1, <1>2 DEF Slots
  <1>3. CASE s # BUFFER_SIZE - 1
    <2>1. s + 1 < BUFFER_SIZE /\ s + 1 \in Nat
      BY <1>1, <1>3
    <2>2. QED BY <1>1, <1>3, <2>1 DEF Slots
  <1>4. QED BY <1>2, <1>3

LEMMA OffIs ==
  ASSUME buffer_index \in Slots, NEW s \in Slots
  PROVE  /\ Off(s) \in 0..(BUFFER_SIZE - 1)
         /\ Off(s) = 0 <=> s = buffer_index
         /\ Off((s + 1) % BUFFER_SIZE) = IF Off(s) = BUFFER_SIZE - 1 THEN 0 ELSE Off(s) + 1
         /\ \A t \in Slots : Off(t) = Off(s) => t = s
  <1>1. s \in Nat /\ s < BUFFER_SIZE /\ BUFFER_SIZE \in Nat \ {0}
        /\ buffer_index \in Nat /\ buffer_index < BUFFER_SIZE
    BY SizesAssumption DEF Slots
  <1>2. /\ Off(s) \in 0..(BUFFER_SIZE - 1)
        /\ Off(s) = 0 <=> s = buffer_index
    BY <1>1 DEF Off
  <1>3. Off((s + 1) % BUFFER_SIZE) = IF Off(s) = BUFFER_SIZE - 1 THEN 0 ELSE Off(s) + 1
    <2>1. CASE s = BUFFER_SIZE - 1
      BY <1>1, <2>1, NextSlot DEF Off
    <2>2. CASE s # BUFFER_SIZE - 1
      <3>1. (s + 1) % BUFFER_SIZE = s + 1
        BY <2>2, NextSlot
      <3>2. CASE s >= buffer_index
        BY <1>1, <2>2, <3>1, <3>2 DEF Off
      <3>3. CASE ~(s >= buffer_index)
        BY <1>1, <2>2, <3>1, <3>3 DEF Off
      <3>4. QED BY <3>2, <3>3
    <2>3. QED BY <2>1, <2>2
  <1>4. ASSUME NEW t \in Slots, Off(t) = Off(s) PROVE t = s
    <2>1. t \in Nat /\ t < BUFFER_SIZE
      BY SizesAssumption DEF Slots
    <2>2. QED BY <1>1, <1>4, <2>1 DEF Off
  <1>5. QED BY <1>2, <1>3, <1>4

LEMMA OffMoves ==
  ASSUME buffer_index \in Slots, buffer_index' = (buffer_index + 1) % BUFFER_SIZE,
         NEW s \in Slots
  PROVE  Off(s)' = IF Off(s) = 0 THEN BUFFER_SIZE - 1 ELSE Off(s) - 1
  <1>1. s \in Nat /\ s < BUFFER_SIZE /\ BUFFER_SIZE \in Nat \ {0}
        /\ buffer_index \in Nat /\ buffer_index < BUFFER_SIZE
    BY SizesAssumption DEF Slots
  <1>2. buffer_index' = IF buffer_index = BUFFER_SIZE - 1 THEN 0 ELSE buffer_index + 1
    BY NextSlot
  <1>3. CASE buffer_index = BUFFER_SIZE - 1
    BY <1>1, <1>2, <1>3 DEF Off
  <1>4. CASE buffer_index # BUFFER_SIZE - 1
    BY <1>1, <1>2, <1>4 DEF Off
  <1>5. QED BY <1>3, <1>4

(* How many packets there are, and of what age.                            *)
LEMMA RingFacts ==
  ASSUME TInv, Uncut, RoomEnough
  PROVE  /\ BUFFER_SIZE \in Nat \ {0} /\ buffer_index \in Slots /\ index \in Slots
         /\ Len(sent) \in Nat /\ Len(wire) \in Nat /\ (wire = <<>> <=> Len(wire) = 0)
         /\ buffer_packet_index \in Cells /\ buffer_packet_index \in Nat
         /\ \A i \in 1..Len(sent) : sent[i] \in Payloads
         /\ Done \in 0..Len(sent) /\ Done < BUFFER_SIZE
         /\ wire = <<>> => Done = Len(sent) /\ buffer_packet_index = 0
         /\ wire # <<>> => Done + 1 = Len(sent) /\ Done + 1 < BUFFER_SIZE
                           /\ Len(sent) \in 1..Len(sent)
  <1>1. /\ IInv /\ faults = 0 /\ TypeOK /\ BUFFER_SIZE \in Nat \ {0} /\ MaxUnread \in Nat
        /\ MaxUnread < BUFFER_SIZE /\ Len(sent) <= MaxUnread
    BY SizesAssumption DEF TInv, Uncut, RoomEnough
  <1>2. /\ Len(sent) \in Nat /\ Len(wire) \in Nat /\ (wire = <<>> <=> Len(wire) = 0)
        /\ sent = <<>> <=> Len(sent) = 0
        /\ \A i \in 1..Len(sent) : sent[i] \in Payloads
    BY <1>1, EmptySeq DEF TypeOK
  <1>3. buffer_packet_index \in Cells /\ buffer_packet_index \in Nat
    BY <1>1, InSlot, SizesAssumption DEF IInv, WritesInSlot, Cells
  <1>4. /\ wire = <<>> => Done = Len(sent)
        /\ wire # <<>> => Done = Len(sent) - 1 /\ Len(sent) >= 1
    BY <1>1, <1>2 DEF Done, Uncut, FilledInPart
  <1>5. wire = <<>> => buffer_packet_index = 0
    BY <1>1 DEF IInv
  <1>6. buffer_index \in Slots /\ index \in Slots
    BY <1>1 DEF TypeOK
  <1> DEFINE n == Len(sent)
  <1>7. n \in Nat
    BY <1>2
  <1> HIDE DEF n
  <1>8. CASE wire = <<>>
    <2>1. Done = n
      BY <1>4, <1>8 DEF n
    <2>2. Done \in 0..n /\ Done < BUFFER_SIZE
      BY <1>1, <1>7, <2>1 DEF n
    <2>3. QED BY <1>1, <1>2, <1>3, <1>4, <1>5, <1>6, <1>8, <2>1, <2>2 DEF n
  <1>9. CASE wire # <<>>
    <2>1. Done = n - 1 /\ n >= 1
      BY <1>4, <1>9 DEF n
    <2>2. /\ Done \in 0..n /\ Done < BUFFER_SIZE /\ Done + 1 = n /\ Done + 1 < BUFFER_SIZE
          /\ n \in 1..n
      BY <1>1, <1>7, <2>1 DEF n
    <2>3. QED BY <1>1, <1>2, <1>3, <1>5, <1>6, <1>9, <2>2 DEF n
  <1>10. QED BY <1>8, <1>9

LEMMA TurnIs ==
  ASSUME TInv, Uncut, RoomEnough, NEW s \in Slots
  PROVE  /\ Turn(s) \in Int /\ Turn(s) <= Done /\ Off(s) \in 0..(BUFFER_SIZE - 1)
         /\ Turn(s) = Off(s) + Done + 1 - BUFFER_SIZE
         /\ Turn(s) >= 1 => /\ Off(s) # 0 /\ Turn(s) \in 1..Len(sent)
                            /\ sent[Turn(s)] \in Payloads /\ Fits(sent[Turn(s)])
  <1> DEFINE n == Len(sent)
  <1>1. /\ BUFFER_SIZE \in Nat \ {0} /\ n \in Nat /\ Done \in 0..n /\ Done < BUFFER_SIZE
        /\ Off(s) \in 0..(BUFFER_SIZE - 1)
        /\ \A i \in 1..n : sent[i] \in Payloads /\ Fits(sent[i])
    BY RingFacts, OffIs DEF Uncut, Mangled
  <1> HIDE DEF n
  <1>2. /\ Turn(s) \in Int /\ Turn(s) <= Done
        /\ Turn(s) >= 1 => Off(s) # 0 /\ Turn(s) \in 1..n
    BY <1>1 DEF Turn
  <1>3. QED BY <1>1, <1>2 DEF n, Turn

(* A slot that holds a packet is found whole, and gives that packet.       *)
LEMMA HeldIsWhole ==
  ASSUME NEW s \in Slots, NEW p \in Payloads, Fits(p), Holds(s, p)
  PROVE  Whole(s) /\ buffer[s][1] = Len(p) /\ Payload(s, Len(p)) = p
  <1>1. PICK n \in Nat : n = Len(p)
    BY FrameIs
  <1>2. \A i \in 1..(n + 3) : buffer[s][i - 1] = Frame(p)[i]
    BY <1>1, FrameIs DEF Holds
  <1>3. buffer[s][0] = HEADER /\ buffer[s][1] = n /\ buffer[s][2 + n] = END
    <2>1. 1 \in 1..(n + 3) /\ 1 - 1 = 0 /\ 2 \in 1..(n + 3) /\ 2 - 1 = 1
          /\ n + 3 \in 1..(n + 3) /\ (n + 3) - 1 = 2 + n
      OBVIOUS
    <2>2. Frame(p)[1] = HEADER /\ Frame(p)[2] = n /\ Frame(p)[n + 3] = END
      BY <1>1, FrameIs
    <2>3. QED BY <1>2, <2>1, <2>2
  <1>4. Whole(s)
    <2>1. HeaderSize + n \in Cells
      BY <1>1, FrameIs
    <2>2. At(s, HeaderSize + n) = END
      BY <1>3, <2>1, AtIs
    <2>3. QED BY <1>3, <2>2 DEF Whole
  <1>5. \A i \in 1..n : At(s, HeaderSize + i - 1) = p[i]
    <2> SUFFICES ASSUME NEW i \in 1..n PROVE At(s, HeaderSize + i - 1) = p[i]
      OBVIOUS
    <2>1. i + 2 \in 1..(n + 3) /\ (i + 2) - 1 = HeaderSize + i - 1
      OBVIOUS
    <2>2. Frame(p)[i + 2] = p[i]
      BY <1>1, FrameIs
    <2>3. buffer[s][HeaderSize + i - 1] = p[i]
      BY <1>2, <2>1, <2>2
    <2>4. HeaderSize + i - 1 \in Cells
      <3>1. HeaderSize + n \in Cells
        BY <1>1, FrameIs
      <3>2. QED BY <3>1, SizesAssumption DEF Cells
    <2>5. QED BY <2>3, <2>4, AtIs
  <1>6. Payload(s, n) = [i \in 1..n |-> p[i]]
    BY <1>5 DEF Payload
  <1>7. p = [i \in 1..n |-> p[i]]
    BY <1>1, FrameIs
  <1>8. QED BY <1>1, <1>3, <1>4, <1>6, <1>7

(* Nothing is refused: the slot a packet begins in is free.                *)
LEMMA UncutRefusesNothing == Uncut => NothingRefused
  BY DEF Uncut, FilledInPart, NothingRefused, InUse

-----------------------------------------------------------------------------
(* The module begins a packet: nothing moves in the ring.                  *)
LEMMA SendUncut ==
  ASSUME TInv, Uncut, RoomEnough, NEW p \in Payloads, SendPacket(p), ~Mangled(p)
  PROVE  Uncut'
  <1> DEFINE n == Len(sent)
  <1>1. /\ wire = <<>> /\ wire' = Frame(p) /\ sent' = Append(sent, p) /\ n < MaxUnread
        /\ UNCHANGED <<buffer, buffer_index, buffer_packet_index, arrived, index, len, pc>>
        /\ faults' = 0
    BY DEF SendPacket, mainVars, Mangled, Uncut
  <1>2. /\ n \in Nat /\ Len(sent') = n + 1 /\ sent'[n + 1] = p
        /\ \A i \in 1..n : sent'[i] = sent[i]
    BY <1>1, RingFacts DEF TInv, TypeOK
  <1>3. /\ Done = n /\ buffer_packet_index = 0
        /\ BUFFER_SIZE \in Nat \ {0} /\ buffer_index \in Slots /\ index \in Slots
    BY <1>1, RingFacts
  <1>4. Frame(p) # <<>> /\ Len(Frame(p)) \in Nat \ {0}
    BY FrameType, FrameIs
  <1>5. Done' = Done
    <2>1. Done' = Len(sent') - 1
      BY <1>1, <1>4 DEF Done
    <2> HIDE DEF n
    <2>2. QED BY <1>2, <1>3, <2>1
  <1>6. /\ \A s : Off(s)' = Off(s) /\ Turn(s)' = Turn(s)
        /\ \A s, q : Holds(s, q)' = Holds(s, q)
    BY <1>1, <1>5 DEF Off, Turn, Holds
  <1>7. Len(sent') <= MaxUnread /\ \A i \in 1..Len(sent') : ~Mangled(sent'[i])
    <2>1. \A i \in 1..(n + 1) : i \in 1..n \/ i = n + 1
      BY <1>2
    <2>2. \A i \in 1..n : ~Mangled(sent[i])
      BY DEF Uncut
    <2>3. n + 1 <= MaxUnread
      BY <1>1, <1>2, SizesAssumption
    <2> HIDE DEF n
    <2>4. QED BY <1>2, <2>1, <2>2, <2>3
  <1>8. SlotsInOrder'
    <2> SUFFICES ASSUME NEW s \in Slots \ {buffer_index}
                 PROVE  /\ Turn(s) < 1  => buffer[s][0] = 0
                        /\ Turn(s) >= 1 => Holds(s, sent'[Turn(s)])
      BY <1>1, <1>6 DEF SlotsInOrder
    <2>1. /\ Turn(s) < 1  => buffer[s][0] = 0
          /\ Turn(s) >= 1 => Holds(s, sent[Turn(s)])
      BY DEF Uncut, SlotsInOrder
    <2>2. Turn(s) >= 1 => Turn(s) \in 1..n
      BY TurnIs
    <2>3. QED BY <1>2, <2>1, <2>2
  <1>9. FilledInPart'
    <2>1. sent' # <<>> /\ Newest' = Frame(p)
      <3>1. Len(sent') # 0
        <4> HIDE DEF n
        <4>1. QED BY <1>2
      <3>2. sent' # <<>>
        BY <3>1
      <3>3. QED BY <1>2, <3>2 DEF Newest
    <2>2. buffer'[buffer_index'][0] = 0
      BY <1>1, <1>3 DEF Uncut, FilledInPart
    <2>3. 0 + Len(wire') = Len(Newest') /\ \A i \in 1..Len(wire') : wire'[i] = Newest'[0 + i]
      BY <1>1, <1>4, <2>1
    <2>4. \A i \in 1..0 : FALSE
      OBVIOUS
    <2>5. QED BY <1>1, <1>3, <2>1, <2>2, <2>3, <2>4 DEF FilledInPart
  <1>10. Spent => Spent'
    <2>1. BytesPerScan <= Len(Frame(p))
      BY DEF RoomEnough
    <2>2. arrived \in Nat /\ BytesPerScan \in Nat
      BY SizesAssumption DEF TInv, TypeOK
    <2>3. QED BY <1>1, <1>4, <2>1, <2>2 DEF Spent
  <1>11. Turn(index) = 1 => sent'[1] = sent[1]
    <2>1. Turn(index) = 1 => 1 \in 1..n
      BY <1>3, TurnIs
    <2>2. QED BY <1>2, <2>1
  <1>12. LooksForOldest'
    BY <1>1, <1>6, <1>10, <1>11 DEF Uncut, LooksForOldest
  <1>13. QED BY <1>1, <1>7, <1>8, <1>9, <1>12 DEF Uncut

(* A byte arrives: it is the next of the packet sent last, and goes into   *)
(* the slot being filled and no other.                                     *)
LEMMA ByteIsNext ==
  ASSUME TInv, Uncut, RoomEnough, ReceiveByte
  PROVE  /\ Newest = Frame(sent[Len(sent)]) /\ sent[Len(sent)] \in Payloads
         /\ Len(Newest) \in Nat
         /\ Len(wire) \in Nat \ {0} /\ buffer_packet_index + Len(wire) = Len(Newest)
         /\ Head(wire) = Newest[buffer_packet_index + 1]
         /\ Head(wire) = END <=> Len(wire) = 1
         /\ Len(wire') = Len(wire) - 1
         /\ \A i \in 1..Len(wire') : wire'[i] = Newest[buffer_packet_index + 1 + i]
         /\ \A s \in Slots \ {buffer_index} : buffer'[s] = buffer[s]
         /\ \A i \in 1..(buffer_packet_index + 1) : buffer'[buffer_index][i - 1] = Newest[i]
  <1> DEFINE k == buffer_packet_index  m == Len(wire)
  <1>1. /\ wire # <<>> /\ wire' = Tail(wire) /\ wire \in Seq(Byte)
        /\ buffer' = [buffer EXCEPT ![buffer_index][k] = Head(wire)]
        /\ buffer \in [Slots -> [Cells -> Byte]] /\ buffer_index \in Slots
        /\ k \in Cells /\ k \in Nat
    BY RingFacts, Receives DEF ReceiveByte, ByteArrives, TInv, IInv, Uncut
  <1>2. /\ Len(sent) \in 1..Len(sent) /\ sent[Len(sent)] \in Payloads
    BY <1>1, RingFacts
  <1>3. Len(Newest) \in Nat
    BY <1>2, FrameIs DEF Newest
  <1>4. /\ m \in Nat \ {0} /\ Len(wire') = m - 1 /\ Head(wire) = wire[1]
        /\ \A i \in 1..(m - 1) : wire'[i] = wire[i + 1]
    BY <1>1, HeadTailProperties, EmptySeq
  <1>5. /\ k + m = Len(Newest)
        /\ \A i \in 1..m : wire[i] = Newest[k + i]
        /\ \A i \in 1..k : buffer[buffer_index][i - 1] = Newest[i]
    BY <1>1 DEF Uncut, FilledInPart
  <1>6. Head(wire) = Newest[k + 1]
    <2>1. 1 \in 1..m
      <3> HIDE DEF m
      <3>1. QED BY <1>4
    <2>2. QED BY <1>4, <1>5, <2>1
  <1>7. Head(wire) = END <=> m = 1
    <2>1. \A i \in 1..(Len(Newest) - 1) : Newest[i] # END
      BY <1>2 DEF Uncut, Mangled, Newest
    <2>2. Newest[Len(Newest)] = END
      BY <1>2, FrameType DEF Newest
    <2> DEFINE l == Len(Newest)
    <2>3. k \in Nat /\ m \in Nat \ {0} /\ l \in Nat /\ k + m = l
      BY <1>1, <1>3, <1>4, <1>5
    <2> HIDE DEF k, m, l
    <2>4. /\ m = 1 => k + 1 = l
          /\ m # 1 => k + 1 \in 1..(l - 1)
      BY <2>3
    <2>5. QED BY <1>6, <2>1, <2>2, <2>4 DEF k, l
  <1>8. \A i \in 1..Len(wire') : wire'[i] = Newest[k + 1 + i]
    <2> SUFFICES ASSUME NEW i \in 1..(m - 1) PROVE wire'[i] = Newest[k + 1 + i]
      BY <1>4
    <2>1. i + 1 \in 1..m /\ k + (i + 1) = k + 1 + i
      <3>1. m \in Nat /\ k \in Nat
        BY <1>1, <1>4
      <3> HIDE DEF m, k
      <3>2. QED BY <3>1
    <2>2. QED BY <1>4, <1>5, <2>1
  <1>9. \A s \in Slots \ {buffer_index} : buffer'[s] = buffer[s]
    BY <1>1
  <1>10. \A i \in 1..(k + 1) : buffer'[buffer_index][i - 1] = Newest[i]
    <2> SUFFICES ASSUME NEW i \in 1..(k + 1) PROVE buffer'[buffer_index][i - 1] = Newest[i]
      OBVIOUS
    <2>1. buffer'[buffer_index] = [buffer[buffer_index] EXCEPT ![k] = Head(wire)]
      BY <1>1
    <2>2. buffer[buffer_index] \in [Cells -> Byte]
      BY <1>1
    <2>3. i - 1 \in Cells
      BY <1>1, SizesAssumption DEF Cells
    <2>4. CASE i = k + 1
      BY <1>1, <1>6, <2>1, <2>2, <2>4
    <2>5. CASE i # k + 1
      <3>1. i \in 1..k /\ i - 1 # k
        BY <1>1, <2>5
      <3>2. QED BY <1>5, <2>1, <2>2, <2>3, <3>1
    <2>6. QED BY <2>4, <2>5
  <1>11. QED BY <1>2, <1>3, <1>4, <1>5, <1>6, <1>7, <1>8, <1>9, <1>10 DEF Newest

(* A byte within a packet: the slots behind the one being filled stay.     *)
LEMMA ReceiveUncut ==
  ASSUME TInv, Uncut, RoomEnough, ReceiveByte, Len(wire) # 1
  PROVE  Uncut'
  <1> DEFINE k == buffer_packet_index  m == Len(wire)
  <1>1. /\ buffer_index' = buffer_index /\ k' = k + 1 /\ wire # <<>>
        /\ UNCHANGED <<index, len, pc, sent, faults>>
    BY ByteIsNext, Receives DEF ReceiveByte, ByteArrives, mainVars, history, TInv, Uncut
  <1>2. /\ m \in Nat \ {0, 1} /\ Len(wire') = m - 1 /\ k \in Nat
        /\ BUFFER_SIZE \in Nat \ {0} /\ buffer_index \in Slots
    BY ByteIsNext, RingFacts
  <1>3. wire' # <<>>
    <2>1. Len(wire') # 0
      <3> HIDE DEF m
      <3>1. QED BY <1>2
    <2>2. QED BY <2>1
  <1>4. Done' = Done
    BY <1>1, <1>3 DEF Done
  <1>5. \A s : Off(s)' = Off(s) /\ Turn(s)' = Turn(s)
    BY <1>1, <1>4 DEF Off, Turn
  <1>6. SlotsInOrder'
    <2> SUFFICES ASSUME NEW s \in Slots \ {buffer_index}
                 PROVE  /\ Turn(s) < 1  => buffer'[s][0] = 0
                        /\ Turn(s) >= 1 => Holds(s, sent[Turn(s)])'
      BY <1>1, <1>5 DEF SlotsInOrder, Holds
    <2>1. /\ Turn(s) < 1  => buffer[s][0] = 0
          /\ Turn(s) >= 1 => Holds(s, sent[Turn(s)])
      BY DEF Uncut, SlotsInOrder
    <2>2. buffer'[s] = buffer[s]
      BY ByteIsNext
    <2>3. QED BY <1>1, <1>5, <2>1, <2>2 DEF Holds
  <1>7. FilledInPart'
    <2>1. Newest' = Newest /\ sent' # <<>>
      BY <1>1 DEF Newest, Uncut, FilledInPart
    <2>2. (k + 1) + (m - 1) = Len(Newest) /\ k' # 0
      <3>1. k + m = Len(Newest) /\ k' = k + 1
        BY <1>1, ByteIsNext
      <3> DEFINE l == Len(Newest)
      <3>2. l = k + m /\ k' = k + 1
        BY <3>1
      <3> HIDE DEF k, m, l
      <3>3. (k + 1) + (m - 1) = l /\ k' # 0
        BY <1>2, <3>2
      <3>4. QED BY <3>3 DEF l
    <2>3. \A i \in 1..Len(wire') : wire'[i] = Newest[k' + i]
      BY <1>1, ByteIsNext
    <2>4. \A i \in 1..k' : buffer'[buffer_index'][i - 1] = Newest[i]
      BY <1>1, ByteIsNext
    <2>5. k' + Len(wire') = Len(Newest')
      BY <1>1, <1>2, <2>1, <2>2
    <2>6. QED BY <2>1, <2>2, <2>3, <2>4, <2>5 DEF FilledInPart
  <1>8. pc = "scan" /\ Spent => Spent'
    <2>1. pc = "scan" => arrived' = arrived + 1
      BY DEF ReceiveByte, ByteArrives
    <2>2. arrived \in Nat /\ BytesPerScan \in Nat
      BY SizesAssumption DEF TInv, TypeOK
    <2>3. arrived + m > BytesPerScan => (arrived + 1) + (m - 1) > BytesPerScan
      <3> HIDE DEF m
      <3>1. QED BY <1>2, <2>2
    <2>4. QED BY <1>1, <1>2, <1>3, <2>1, <2>3 DEF Spent
  <1>9. LooksForOldest'
    BY <1>1, <1>5, <1>8 DEF Uncut, LooksForOldest
  <1>10. QED BY <1>1, <1>6, <1>7, <1>9 DEF Uncut

(* The last byte of a packet: its slot is the newest that is whole, and    *)
(* the next slot, which is free, is filled from now on.                    *)
LEMMA CloseUncut ==
  ASSUME TInv, Uncut, RoomEnough, ReceiveByte, Len(wire) = 1
  PROVE  Uncut'
  <1> DEFINE n == Len(sent)
  <1>1. /\ buffer_index' = (buffer_index + 1) % BUFFER_SIZE /\ buffer_packet_index' = 0
        /\ wire # <<>> /\ UNCHANGED <<index, len, pc, sent, faults>>
    BY ByteIsNext, Receives DEF ReceiveByte, ByteArrives, mainVars, history, TInv, Uncut
  <1>2. wire' = <<>>
    <2>1. wire \in Seq(Byte) /\ Len(wire') = 0 /\ wire' = Tail(wire)
      BY ByteIsNext DEF ReceiveByte, TInv, TypeOK
    <2>2. Tail(wire) \in Seq(Byte)
      BY <1>1, <2>1, HeadTailProperties
    <2>3. QED BY <2>1, <2>2, EmptySeq
  <1>3. /\ BUFFER_SIZE \in Nat \ {0} /\ buffer_index \in Slots /\ index \in Slots
        /\ Done + 1 = n /\ Done + 1 < BUFFER_SIZE /\ Done \in Nat
        /\ sent[n] \in Payloads
    BY <1>1, RingFacts
  <1>4. Done' = Done + 1
    <2>1. Done' = n - 0
      BY <1>1, <1>2 DEF Done
    <2> HIDE DEF n
    <2>2. QED BY <1>3, <2>1
  <1>5. \A s \in Slots \ {buffer_index} :
          Off(s) \in 1..(BUFFER_SIZE - 1) /\ Off(s)' = Off(s) - 1 /\ Turn(s)' = Turn(s)
    <2> SUFFICES ASSUME NEW s \in Slots \ {buffer_index}
                 PROVE  /\ Off(s) \in 1..(BUFFER_SIZE - 1) /\ Off(s)' = Off(s) - 1
                        /\ Turn(s)' = Turn(s)
      OBVIOUS
    <2>1. Off(s) \in 0..(BUFFER_SIZE - 1) /\ Off(s) # 0
      BY <1>3, OffIs
    <2>2. Off(s)' = Off(s) - 1
      BY <1>1, <1>3, <2>1, OffMoves
    <2>3. Turn(s)' = Off(s)' + Done' + 1 - BUFFER_SIZE
      BY DEF Turn
    <2>4. QED BY <1>3, <1>4, <2>1, <2>2, <2>3 DEF Turn
  <1>6. PICK b \in Slots : b = buffer_index
    BY <1>3
  <1>7. Off(b) = 0 /\ Off(b)' = BUFFER_SIZE - 1 /\ Turn(b)' = n
    <2>1. Off(b) = 0 /\ Off(b)' = BUFFER_SIZE - 1
      BY <1>1, <1>3, <1>6, OffIs, OffMoves
    <2>2. Turn(b)' = Off(b)' + Done' + 1 - BUFFER_SIZE
      BY DEF Turn
    <2> HIDE DEF n
    <2>3. QED BY <1>3, <1>4, <2>1, <2>2
  <1>8. /\ \A s \in Slots \ {b} : buffer'[s] = buffer[s]
        /\ Holds(b, sent[n])'
    <2>1. Len(Newest) = buffer_packet_index + 1 /\ Newest = Frame(sent[n])
      BY ByteIsNext
    <2>2. QED BY <1>1, <1>6, <2>1, ByteIsNext DEF Holds
  <1>9. SlotsInOrder'
    <2> SUFFICES ASSUME NEW s \in Slots \ {buffer_index'}
                 PROVE  /\ Turn(s)' < 1  => buffer'[s][0] = 0
                        /\ Turn(s)' >= 1 => Holds(s, sent[Turn(s)])'
      BY DEF SlotsInOrder
    <2>1. CASE s = b
      <3>1. n >= 1
        <4> HIDE DEF n
        <4>1. QED BY <1>3
      <3>2. Turn(s)' = n /\ Turn(s)' >= 1 /\ ~(Turn(s)' < 1)
        <4>1. Turn(s)' = n
          BY <1>7, <2>1
        <4> HIDE DEF n
        <4>2. QED BY <1>3, <3>1, <4>1
      <3>3. QED BY <1>1, <1>8, <2>1, <3>2 DEF Holds
    <2>2. CASE s # b
      <3>1. /\ Turn(s) < 1  => buffer[s][0] = 0
            /\ Turn(s) >= 1 => Holds(s, sent[Turn(s)])
        BY <1>6, <2>2 DEF Uncut, SlotsInOrder
      <3>2. buffer'[s] = buffer[s] /\ Turn(s)' = Turn(s)
        BY <1>5, <1>6, <1>8, <2>2
      <3>3. QED BY <1>1, <3>1, <3>2 DEF Holds
    <2>3. QED BY <2>1, <2>2
  <1>10. FilledInPart'
    <2>1. PICK s \in Slots : s = buffer_index'
      BY <1>1, <1>3, NextSlot
    <2>2. Off(s) = 1
      <3>1. Off(s) = IF Off(b) = BUFFER_SIZE - 1 THEN 0 ELSE Off(b) + 1
        BY <1>1, <1>3, <1>6, <2>1, OffIs
      <3>2. Off(b) # BUFFER_SIZE - 1
        BY <1>3, <1>7
      <3>3. QED BY <1>7, <3>1, <3>2
    <2>3. s # b /\ Turn(s) < 1
      <3>1. s # b
        BY <1>7, <2>2
      <3>2. Turn(s) = 1 + Done + 1 - BUFFER_SIZE
        BY <2>2 DEF Turn
      <3>3. QED BY <1>3, <3>1, <3>2
    <2>4. buffer'[s][0] = 0
      BY <1>6, <1>8, <2>3 DEF Uncut, SlotsInOrder
    <2>5. QED BY <1>2, <2>1, <2>4 DEF FilledInPart
  <1>11. LooksForOldest'
    <2>1. ASSUME pc = "scan" PROVE Turn(index)' < 1 \/ (Off(index)' = BUFFER_SIZE - 1 /\ Spent')
      <3>1. arrived' = arrived + 1 /\ arrived < BytesPerScan /\ arrived \in Nat
            /\ BytesPerScan \in Nat
        BY <2>1, SizesAssumption DEF ReceiveByte, ByteArrives, TInv, TypeOK
      <3>2. ~Spent
        BY <1>1, <3>1 DEF Spent
      <3>3. Turn(index) < 1
        BY <2>1, <3>2 DEF Uncut, LooksForOldest
      <3>4. PICK x \in Slots : x = index /\ x = index'
        BY <1>1, <1>3
      <3>5. CASE x = b
        <4>1. Spent'
          BY <1>2, <3>1 DEF Spent
        <4>2. Off(x)' = BUFFER_SIZE - 1
          BY <1>7, <3>5
        <4>3. Off(index)' = Off(x)'
          BY <3>4 DEF Off
        <4>4. QED BY <4>1, <4>2, <4>3
      <3>6. CASE x # b
        <4>1. Turn(x)' = Turn(x) /\ Turn(x) < 1
          BY <1>5, <1>6, <3>3, <3>4, <3>6
        <4>2. Turn(index)' = Turn(x)'
          BY <3>4 DEF Turn, Off
        <4>3. QED BY <4>1, <4>2
      <3>7. QED BY <3>5, <3>6
    <2>2. ASSUME pc = "take" PROVE Turn(index)' = 1
      <3>1. Turn(index) = 1
        BY <2>2 DEF Uncut, LooksForOldest
      <3>2. PICK x \in Slots : x = index /\ x = index'
        BY <1>1, <1>3
      <3>3. Turn(x) = 1 /\ Off(x) # 0
        BY <3>1, <3>2, TurnIs
      <3>4. Turn(x)' = Turn(x)
        BY <1>5, <1>6, <1>7, <3>2, <3>3
      <3>5. Turn(index)' = Turn(x)'
        BY <3>2 DEF Turn, Off
      <3>6. QED BY <3>3, <3>4, <3>5
    <2>3. pc = "take" => len' = Len(sent'[1])
      BY <1>1 DEF Uncut, LooksForOldest
    <2>4. QED BY <1>1, <2>1, <2>2, <2>3 DEF LooksForOldest
  <1>12. QED BY <1>1, <1>9, <1>10, <1>11 DEF Uncut

-----------------------------------------------------------------------------
(* main(): a call begins at the slot being filled,                         *)
LEMMA CallUncut ==
  ASSUME TInv, Uncut, RoomEnough, Call
  PROVE  Uncut'
  <1>1. /\ pc' = "scan" /\ index' = buffer_index
        /\ UNCHANGED <<buffer, buffer_index, buffer_packet_index, wire, sent, faults>>
    BY DEF Call, isrVars, history
  <1>2. Done' = Done
    BY <1>1 DEF Done
  <1>3. /\ \A s : Off(s)' = Off(s) /\ Turn(s)' = Turn(s)
        /\ \A s, q : Holds(s, q)' = Holds(s, q)
    BY <1>1, <1>2 DEF Off, Turn, Holds
  <1>4. SlotsInOrder' /\ FilledInPart'
    BY <1>1, <1>2, <1>3 DEF Uncut, SlotsInOrder, FilledInPart, Newest
  <1>5. Turn(index)' < 1
    <2>1. Turn(index)' = Off(buffer_index) + Done + 1 - BUFFER_SIZE
      BY <1>1, <1>2 DEF Turn, Off
    <2>2. Off(buffer_index) = 0 /\ Done \in Nat /\ Done < BUFFER_SIZE /\ BUFFER_SIZE \in Nat
      BY RingFacts, OffIs
    <2>3. QED BY <2>1, <2>2
  <1>6. LooksForOldest'
    BY <1>1, <1>5 DEF LooksForOldest
  <1>7. QED BY <1>1, <1>4, <1>6 DEF Uncut

(* looks at one slot after the other,                                      *)
LEMMA LookUncut ==
  ASSUME TInv, Uncut, RoomEnough, Look
  PROVE  Uncut'
  <1>1. /\ pc = "scan" /\ index' = (index + 1) % BUFFER_SIZE
        /\ pc' = (IF index' = buffer_index THEN "idle"
                  ELSE IF Whole(index') THEN "take" ELSE "scan")
        /\ pc' = "take" => len' = buffer[index'][1]
        /\ UNCHANGED <<buffer, buffer_index, buffer_packet_index, wire, sent, arrived, faults>>
    BY DEF Look, isrVars, history
  <1>2. Done' = Done
    BY <1>1 DEF Done
  <1>3. SlotsInOrder' /\ FilledInPart'
    <2>1. SlotsInOrder /\ FilledInPart
      BY DEF Uncut
    <2>2. /\ \A s : Off(s)' = Off(s) /\ Turn(s)' = Turn(s)
          /\ \A s, q : Holds(s, q)' = Holds(s, q)
      BY <1>1, <1>2 DEF Off, Turn, Holds
    <2>3. SlotsInOrder'
      BY <1>1, <2>1, <2>2 DEF SlotsInOrder
    <2>4. FilledInPart'
      BY <1>1, <2>1 DEF FilledInPart, Newest
    <2>5. QED BY <2>3, <2>4
  <1>4. LooksForOldest'
    <2>1. /\ BUFFER_SIZE \in Nat \ {0} /\ buffer_index \in Slots /\ index \in Slots
          /\ Done \in Nat /\ Done < BUFFER_SIZE
      BY RingFacts
    <2>2. PICK x \in Slots : x = index'
      BY <1>1, <2>1, NextSlot
    <2>3. Off(x) = IF Off(index) = BUFFER_SIZE - 1 THEN 0 ELSE Off(index) + 1
      BY <1>1, <2>1, <2>2, OffIs
    <2>4. CASE x = buffer_index
      BY <1>1, <2>2, <2>4 DEF LooksForOldest
    <2>5. CASE x # buffer_index
      <3>1. Off(index) # BUFFER_SIZE - 1 /\ Off(x) = Off(index) + 1
        BY <2>1, <2>2, <2>3, <2>5, OffIs
      <3>2. Turn(index) < 1
        BY <1>1, <3>1 DEF Uncut, LooksForOldest
      <3>3. Turn(x) = Turn(index) + 1 /\ Turn(index) \in Int
        BY <2>1, <3>1, TurnIs DEF Turn
      <3>4. CASE Turn(x) < 1
        <4>1. buffer[x][0] = 0
          BY <2>5, <3>4 DEF Uncut, SlotsInOrder
        <4>2. pc' = "scan"
          BY <1>1, <2>2, <2>5, <4>1 DEF Whole
        <4>3. Turn(index)' = Turn(x)
          BY <1>1, <1>2, <2>2 DEF Turn, Off
        <4>4. QED BY <3>4, <4>2, <4>3 DEF LooksForOldest
      <3>5. CASE Turn(x) = 1
        <4>1. Holds(x, sent[1]) /\ sent[1] \in Payloads /\ Fits(sent[1])
          BY <2>5, <3>5, TurnIs DEF Uncut, SlotsInOrder
        <4>2. pc' = "take" /\ len' = Len(sent'[1])
          BY <1>1, <2>2, <2>5, <4>1, HeldIsWhole
        <4>3. Turn(index)' = Turn(x)
          BY <1>1, <1>2, <2>2 DEF Turn, Off
        <4>4. QED BY <3>5, <4>2, <4>3 DEF LooksForOldest
      <3>6. QED BY <3>2, <3>3, <3>4, <3>5
    <2>6. QED BY <2>4, <2>5
  <1>5. QED BY <1>1, <1>3, <1>4 DEF Uncut

(* and takes the oldest packet: the others move up by one.                 *)
LEMMA TakesOldest ==
  ASSUME TInv, Uncut, RoomEnough, TakePacket
  PROVE  /\ index \in Slots \ {buffer_index} /\ Turn(index) = 1
         /\ sent # <<>> /\ sent \in Seq(Payloads) /\ Done >= 1
         /\ got' = Head(sent) /\ sent' = Tail(sent)
  <1>1. Turn(index) = 1 /\ index \in Slots /\ len = Len(sent[1])
    BY RingFacts DEF TakePacket, Uncut, LooksForOldest
  <1>2. /\ Off(index) # 0 /\ 1 \in 1..Len(sent) /\ 1 <= Done
        /\ sent[1] \in Payloads /\ Fits(sent[1])
    BY <1>1, TurnIs
  <1>3. index # buffer_index
    BY <1>1, <1>2, OffIs, RingFacts
  <1>4. Payload(index, len) = sent[1]
    <2>1. Holds(index, sent[1])
      BY <1>1, <1>3 DEF Uncut, SlotsInOrder
    <2>2. QED BY <1>1, <1>2, <2>1, HeldIsWhole
  <1>5. sent \in Seq(Payloads) /\ sent # <<>>
    BY <1>2, EmptySeq DEF TInv, TypeOK
  <1>6. Head(sent) = sent[1] /\ Done \in Nat
    BY <1>5, HeadTailProperties, RingFacts
  <1>7. QED BY <1>1, <1>2, <1>3, <1>4, <1>5, <1>6 DEF TakePacket

LEMMA TakeUncut ==
  ASSUME TInv, Uncut, RoomEnough, TakePacket
  PROVE  Uncut'
  <1> DEFINE n == Len(sent)
  <1>1. /\ pc' = "idle" /\ buffer' = [buffer EXCEPT ![index][0] = 0]
        /\ UNCHANGED <<buffer_index, buffer_packet_index, wire, arrived, index, faults>>
    BY DEF TakePacket, isrVars
  <1>2. /\ n \in Nat /\ n >= 1 /\ Len(sent') = n - 1
        /\ \A i \in 1..(n - 1) : sent'[i] = sent[i + 1]
    BY TakesOldest, HeadTailProperties, EmptySeq
  <1>3. Done' = Done - 1 /\ Done \in Nat /\ Done >= 1 /\ BUFFER_SIZE \in Nat
        /\ (wire = <<>> => Done = n) /\ (wire # <<>> => Done + 1 = n)
    <2>1. Done \in Nat /\ Done >= 1 /\ BUFFER_SIZE \in Nat
          /\ (wire = <<>> => Done = n) /\ (wire # <<>> => Done + 1 = n)
      BY TakesOldest, RingFacts
    <2>2. Done' = (n - 1) - (IF wire = <<>> THEN 0 ELSE 1)
      BY <1>1, <1>2 DEF Done
    <2> HIDE DEF n
    <2>3. QED BY <1>2, <2>1, <2>2
  <1>4. \A s \in Slots : Off(s)' = Off(s) /\ Turn(s)' = Turn(s) - 1 /\ Turn(s) \in Int
    BY <1>1, <1>3, TurnIs DEF Off, Turn
  <1>5. /\ \A s \in Slots \ {index} : buffer'[s] = buffer[s]
        /\ buffer'[index][0] = 0
    <2>1. buffer \in [Slots -> [Cells -> Byte]] /\ 0 \in Cells /\ index \in Slots
      <3>1. index \in Slots
        BY TakesOldest
      <3>2. 0 \in Cells
        BY SizesAssumption DEF Cells
      <3>3. QED BY <3>1, <3>2 DEF TInv, IInv
    <2>2. PICK row \in [Cells -> Byte] : row = buffer[index]
      BY <2>1
    <2>3. buffer' = [buffer EXCEPT ![index] = [row EXCEPT ![0] = 0]]
      BY <1>1, <2>2
    <2>4. [row EXCEPT ![0] = 0][0] = 0
      BY <2>1, <2>2
    <2>5. QED BY <2>1, <2>3, <2>4
  <1>6. Len(sent') <= MaxUnread /\ \A i \in 1..Len(sent') : ~Mangled(sent'[i])
    <2>1. \A i \in 1..(n - 1) : i + 1 \in 1..n
      <3> HIDE DEF n
      <3>1. QED BY <1>2
    <2>2. n <= MaxUnread /\ \A i \in 1..n : ~Mangled(sent[i])
      BY DEF Uncut
    <2>3. n - 1 <= MaxUnread
      <3> HIDE DEF n
      <3>1. QED BY <1>2, <2>2, SizesAssumption
    <2>4. QED BY <1>2, <2>1, <2>2, <2>3
  <1>7. SlotsInOrder'
    <2> SUFFICES ASSUME NEW s \in Slots \ {buffer_index}
                 PROVE  /\ Turn(s) - 1 < 1  => buffer'[s][0] = 0
                        /\ Turn(s) - 1 >= 1 =>
                             \A i \in 1..Len(Frame(sent'[Turn(s) - 1])) :
                               buffer'[s][i - 1] = Frame(sent'[Turn(s) - 1])[i]
      BY <1>1, <1>4 DEF SlotsInOrder, Holds
    <2>1. /\ Turn(s) < 1  => buffer[s][0] = 0
          /\ Turn(s) >= 1 => Holds(s, sent[Turn(s)])
          /\ Turn(s) \in Int /\ Turn(s) <= Done
      BY TurnIs DEF Uncut, SlotsInOrder
    <2>2. CASE s = index
      BY <1>5, <2>2, TakesOldest
    <2>3. CASE s # index
      <3>1. Turn(s) # 1
        <4>1. index \in Slots /\ Turn(index) = 1 /\ buffer_index \in Slots
          BY TakesOldest, RingFacts
        <4>2. /\ Off(s) \in Int /\ Turn(s) = Off(s) + Done + 1 - BUFFER_SIZE
              /\ Off(index) \in Int /\ 1 = Off(index) + Done + 1 - BUFFER_SIZE
          BY <4>1, TurnIs
        <4>3. Turn(s) = 1 => Off(s) = Off(index)
          BY <1>3, <4>2
        <4>4. QED BY <2>3, <4>1, <4>3, OffIs
      <3>2. Turn(s) - 1 >= 1 => sent'[Turn(s) - 1] = sent[Turn(s)]
        <4>1. Done <= n
          <5> HIDE DEF n
          <5>1. QED BY <1>2, <1>3
        <4>2. ASSUME Turn(s) - 1 >= 1
              PROVE  Turn(s) - 1 \in 1..(n - 1) /\ (Turn(s) - 1) + 1 = Turn(s)
          <5> HIDE DEF n
          <5>1. QED BY <1>2, <1>3, <2>1, <4>1, <4>2
        <4>3. QED BY <1>2, <4>2
      <3>3. buffer'[s] = buffer[s]
        BY <1>5, <2>3
      <3>4. QED BY <2>1, <3>1, <3>2, <3>3 DEF Holds
    <2>4. QED BY <2>2, <2>3
  <1>8. FilledInPart'
    <2>1. buffer'[buffer_index] = buffer[buffer_index]
      BY <1>5, TakesOldest, RingFacts
    <2>2. ASSUME wire # <<>> PROVE sent' # <<>> /\ Newest' = Newest
      <3>1. n - 1 >= 1 /\ (n - 1) + 1 = n /\ n - 1 \in 1..(n - 1)
        <4> HIDE DEF n
        <4>1. QED BY <1>2, <1>3, <2>2
      <3>2. sent'[n - 1] = sent[n] /\ Len(sent') = n - 1
        BY <1>2, <3>1
      <3>3. sent' # <<>>
        BY <3>1, <3>2
      <3>4. QED BY <3>2, <3>3 DEF Newest
    <2>3. QED BY <1>1, <2>1, <2>2 DEF Uncut, FilledInPart
  <1>9. LooksForOldest'
    BY <1>1 DEF LooksForOldest
  <1>10. QED BY <1>1, <1>6, <1>7, <1>8, <1>9 DEF Uncut

-----------------------------------------------------------------------------
LEMMA ChannelStep ==
  ASSUME TInv, ChannelInv, RoomEnough, [Next]_vars
  PROVE  ChannelInv' /\ (cut \/ [Channel!Next]_<<sent, got>>)
  <1>1. CASE cut
    <2>1. cut'
      BY <1>1 DEF Next, SendPacket, LoseByte, Uart, RefuseByte, ReceiveByte, Main, Call, Look,
                  TakePacket, vars, history
    <2>2. QED BY <1>1, <2>1 DEF ChannelInv
  <1>2. CASE ~cut
    <2>1. Uncut
      BY <1>2 DEF ChannelInv
    <2>2. CASE UNCHANGED vars
      BY <2>1, <2>2
         DEF vars, isrVars, mainVars, history, ChannelInv, Uncut, SlotsInOrder, FilledInPart,
             LooksForOldest, Turn, Off, Done, Holds, Newest, Spent
    <2>3. ASSUME NEW p \in Payloads, SendPacket(p)
          PROVE  ChannelInv' /\ (cut \/ [Channel!Next]_<<sent, got>>)
      <3>1. ChannelInv'
        <4>1. CASE Mangled(p)
          BY <2>3, <4>1 DEF SendPacket, ChannelInv
        <4>2. CASE ~Mangled(p)
          BY <2>1, <2>3, <4>2, SendUncut DEF ChannelInv
        <4>3. QED BY <4>1, <4>2
      <3>2. Channel!Put(p)
        BY <2>3 DEF SendPacket, Channel!Put, mainVars
      <3>3. QED BY <3>1, <3>2 DEF Channel!Next
    <2>4. CASE RefuseByte
      BY <2>1, <2>4, UncutRefusesNothing DEF RefuseByte, ByteArrives, NothingRefused,
           ChannelInv, Uncut, FilledInPart, InUse
    <2>5. CASE ReceiveByte
      <3>1. Uncut'
        BY <2>1, <2>5, ReceiveUncut, CloseUncut
      <3>2. UNCHANGED <<sent, got>>
        BY <2>5 DEF ReceiveByte, mainVars, history
      <3>3. QED BY <3>1, <3>2 DEF ChannelInv
    <2>6. CASE Call
      BY <2>1, <2>6, CallUncut DEF ChannelInv, Call, history
    <2>7. CASE Look
      BY <2>1, <2>7, LookUncut DEF ChannelInv, Look, history
    <2>8. CASE TakePacket
      <3>1. Uncut'
        BY <2>1, <2>8, TakeUncut
      <3>2. Channel!Take
        BY <2>1, <2>8, TakesOldest DEF Channel!Take
      <3>3. QED BY <3>1, <3>2 DEF ChannelInv, Channel!Next
    <2>9. CASE LoseByte
      BY <2>9 DEF LoseByte, mainVars, ChannelInv
    <2>10. QED
      BY <2>2, <2>3, <2>4, <2>5, <2>6, <2>7, <2>8, <2>9 DEF Next, Uart, Main
  <1>3. QED BY <1>1, <1>2

LEMMA ChannelInit == Init => ChannelInv
  <1> SUFFICES ASSUME Init PROVE Uncut
    BY DEF ChannelInv
  <1>1. /\ sent = <<>> /\ Len(sent) = 0 /\ wire = <<>> /\ pc = "idle" /\ buffer_index = 0
        /\ buffer_packet_index = 0 /\ \A s \in Slots : buffer[s][0] = 0
    BY SizesAssumption DEF Init, Cells
  <1>2. Done = 0
    BY <1>1 DEF Done
  <1>3. \A s \in Slots : ~(Turn(s) >= 1)
    BY <1>1, <1>2, SizesAssumption DEF Turn, Off, Slots
  <1>4. SlotsInOrder
    BY <1>1, <1>3 DEF SlotsInOrder
  <1>5. FilledInPart
    BY <1>1, SizesAssumption DEF FilledInPart, Slots
  <1>6. LooksForOldest
    BY <1>1 DEF LooksForOldest
  <1>7. faults = 0
    BY DEF Init
  <1>8. QED BY <1>1, <1>4, <1>5, <1>6, <1>7, SizesAssumption DEF Uncut

LEMMA ChannelInductive ==
  ASSUME RoomEnough
  PROVE  Spec => []ChannelInv /\ [][cut \/ Channel!Next]_<<sent, got>>
  <1>1. TInv /\ ChannelInv /\ [Next]_vars => ChannelInv' /\ [cut \/ Channel!Next]_<<sent, got>>
    BY ChannelStep
  <1>2. Spec => []TInv
    BY RingInductive, RingTypeCorrect, PTL DEF TInv
  <1>3. QED BY <1>1, <1>2, ChannelInit, PTL DEF Spec

(* Theorem: until a byte is lost, or a packet is sent that is too long or  *)
(* has a byte 0x45 before its end, the handler refuses no byte: with a     *)
(* slot more than packets may be unread, the slot it comes to has always   *)
(* been taken.                                                             *)
THEOREM RingRefusesNothing ==
  ASSUME RoomEnough
  PROVE  Spec => []NothingRefused
  <1>1. ChannelInv => NothingRefused
    BY UncutRefusesNothing DEF ChannelInv, NothingRefused
  <1>2. QED BY <1>1, ChannelInductive, PTL

(* Theorem: until then, the line and the ring are a first-in first-out     *)
(* channel: every packet sent is taken once, whole and in its turn,        *)
(* wherever the interrupt strikes between main()'s looks.                  *)
THEOREM RingImplementsChannel ==
  ASSUME RoomEnough
  PROVE  Spec => ImplementsChannel
  <1>1. Init => Channel!Init
    BY DEF Init, Channel!Init
  <1>2. QED BY <1>1, ChannelInductive, PTL DEF Spec, ImplementsChannel
=============================================================================

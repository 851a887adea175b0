-------------------------- MODULE WifiTrafficProofs --------------------------
(***************************************************************************)
(* Proofs about the queue of received datagrams and about main()'s loop on *)
(* the WiFi module that uses it, for every size of the queue, every set of *)
(* datagrams, every number of repetitions and of unhandled requests.       *)
(***************************************************************************)
EXTENDS WifiTraffic, SequenceTheorems, TLAPS

(* The circular queue by itself (RecvQueue).                               *)

QueueInv == QueueTypeOK /\ EndsAgree /\ Written

(* A sum of two indices wraps at most once.                                *)
LEMMA Wrap == ASSUME NEW k \in 0..(2 * size - 1)
              PROVE  /\ k < size  => k % size = k
                     /\ k >= size => k % size = k - size
                     /\ k % size \in Index
  <1>1. CASE k < size
    <2>1. k % size = k
      BY <1>1, SizeAssumption
    <2>2. QED BY <1>1, <2>1, SizeAssumption DEF Index
  <1>2. CASE k >= size
    <2>1. k % size = k - size
      BY <1>2, SizeAssumption
    <2>2. QED BY <1>2, <2>1, SizeAssumption DEF Index
  <1>3. QED BY <1>1, <1>2, SizeAssumption

(* The places of the elements are places of the array, and different ones. *)
LEMMA PlaceType ==
  ASSUME QueueTypeOK, NEW i \in 1..size
  PROVE  Place(i) \in Index
  <1>1. st + i - 1 \in 0..(2 * size - 1)
    BY SizeAssumption DEF QueueTypeOK, Index
  <1>2. QED BY <1>1, Wrap DEF Place

LEMMA PlacesDiffer ==
  ASSUME QueueTypeOK, NEW i \in 1..size, NEW j \in 1..size, i # j
  PROVE  Place(i) # Place(j)
  <1>1. st + i - 1 \in 0..(2 * size - 1) /\ st + j - 1 \in 0..(2 * size - 1)
    BY SizeAssumption DEF QueueTypeOK, Index
  <1>2. st \in Nat /\ st < size
    BY SizeAssumption DEF QueueTypeOK, Index
  <1>3. QED BY <1>1, <1>2, Wrap, SizeAssumption DEF Place

LEMMA PlaceFirst == QueueTypeOK => Place(1) = st
  <1>1. QueueTypeOK => st + 1 - 1 = st /\ st \in 0..(2 * size - 1) /\ st < size
    BY SizeAssumption DEF QueueTypeOK, Index
  <1>2. QED BY <1>1, Wrap DEF Place

(* The place after that of the i-th element is that of the next one.       *)
LEMMA PlaceNext ==
  ASSUME QueueTypeOK, NEW i \in 1..size
  PROVE  (Place(i) + 1) % size = Place(i + 1)
  <1>1. st \in Nat /\ st < size /\ size \in Nat
    BY SizeAssumption DEF QueueTypeOK, Index
  <1>2. st + i - 1 \in 0..(2 * size - 1) /\ st + (i + 1) - 1 = st + i
    BY <1>1
  <1>3. CASE st + i < size
    <2>1. Place(i) = st + i - 1
      BY <1>1, <1>2, <1>3, Wrap DEF Place
    <2>2. QED BY <1>1, <1>2, <2>1 DEF Place
  <1>4. CASE st + i = size
    <2>1. Place(i) = size - 1
      BY <1>1, <1>2, <1>4, Wrap DEF Place
    <2>2. Place(i) + 1 = st + i
      BY <1>1, <1>4, <2>1
    <2>3. QED BY <1>2, <2>2 DEF Place
  <1>5. CASE st + i > size
    <2>1. Place(i) = st + i - 1 - size
      BY <1>1, <1>2, <1>5, Wrap DEF Place
    <2>2. Place(i) + 1 \in 0..(2 * size - 1) /\ Place(i) + 1 < size
      BY <1>1, <1>5, <2>1
    <2>3. (Place(i) + 1) % size = st + i - size
      BY <1>1, <2>1, <2>2, Wrap
    <2>4. st + i \in 0..(2 * size - 1) /\ st + i >= size
      BY <1>1, <1>5
    <2>5. (st + i) % size = st + i - size
      BY <1>1, <2>4, Wrap
    <2>6. QED BY <1>2, <2>3, <2>5 DEF Place
  <1>6. QED BY <1>1, <1>3, <1>4, <1>5

(* The queue's contents, as the refinement maps them.                      *)
Contents == [i \in 1..cnt |-> arr[Place(i)]]

LEMMA InitQueueInv == QueueInit => QueueInv
  BY SizeAssumption DEF QueueInit, QueueInv, QueueTypeOK, EndsAgree, Written, Index

(* A push keeps the invariant, and appends to the contents.                *)
LEMMA PushStep ==
  ASSUME QueueInv, NEW datagram \in Datagrams, queue_push(datagram)
  PROVE  QueueInv' /\ Contents' = Append(Contents, datagram)
  <1>1. /\ cnt \in Nat /\ cnt < size /\ cnt' = cnt + 1 /\ cnt + 1 \in 1..size
        /\ size \in Nat /\ st \in Nat /\ st < size
    BY SizeAssumption DEF QueueInv, QueueTypeOK, queue_push, queue_full, Index
  <1>2. st' = st /\ recv_from' = recv_from /\ \A i : Place(i)' = Place(i)
    BY DEF queue_push, Place
  <1>3. en' = Place(cnt + 1)
    <2>1. CASE cnt = 0
      BY <2>1, PlaceFirst DEF QueueInv, queue_push, queue_empty, EndsAgree
    <2>2. CASE cnt # 0
      <3>1. cnt \in 1..size /\ en = Place(cnt)
        BY <1>1, <2>2 DEF QueueInv, EndsAgree
      <3>2. QED BY <2>2, <3>1, PlaceNext DEF QueueInv, queue_push, queue_empty
    <2>3. QED BY <2>1, <2>2
  <1>4. en' \in Index
    BY <1>1, <1>3, PlaceType DEF QueueInv
  <1>5. arr' = [arr EXCEPT ![Place(cnt + 1)] = datagram]
    BY <1>3 DEF queue_push
  <1>6. arr'[Place(cnt + 1)] = datagram
    BY <1>1, <1>5, PlaceType DEF QueueInv, QueueTypeOK
  <1>7. ASSUME NEW i \in 1..cnt
        PROVE  arr'[Place(i)] = arr[Place(i)]
    <2>1. i \in 1..size /\ i # cnt + 1
      BY <1>1
    <2>2. Place(i) # Place(cnt + 1) /\ Place(i) \in Index
      BY <1>1, <2>1, PlacesDiffer, PlaceType DEF QueueInv
    <2>3. QED BY <1>5, <2>2 DEF QueueInv, QueueTypeOK
  <1>8. QueueTypeOK'
    <2>1. arr' \in [Index -> Datagrams \cup {NULL}]
      BY <1>5 DEF QueueInv, QueueTypeOK
    <2>2. st' \in Index /\ recv_from' \in Datagrams \cup {NULL} /\ cnt' \in 0..size
      BY <1>1, <1>2 DEF QueueInv, QueueTypeOK
    <2>3. QED BY <1>4, <2>1, <2>2 DEF QueueTypeOK
  <1>9. EndsAgree'
    BY <1>1, <1>2, <1>3 DEF EndsAgree
  <1>10. Written'
    BY <1>1, <1>2, <1>6, <1>7 DEF QueueInv, Written
  <1>11. Contents' = Append(Contents, datagram)
    <2>1. Contents' = [i \in 1..(cnt + 1) |-> arr'[Place(i)]]
      BY <1>1, <1>2 DEF Contents
    <2>2. Contents \in Seq(Datagrams) /\ Len(Contents) = cnt
      BY <1>1 DEF QueueInv, Written, Contents
    <2>3. Contents' \in Seq(Datagrams) /\ Len(Contents') = cnt + 1
      BY <1>1, <1>6, <1>7, <2>1 DEF QueueInv, Written
    <2>4. /\ Append(Contents, datagram) \in Seq(Datagrams)
          /\ Len(Append(Contents, datagram)) = cnt + 1
          /\ \A i \in 1..cnt : Append(Contents, datagram)[i] = Contents[i]
          /\ Append(Contents, datagram)[cnt + 1] = datagram
      BY <2>2, AppendProperties
    <2>5. \A i \in 1..(cnt + 1) : Contents'[i] = Append(Contents, datagram)[i]
      BY <1>1, <1>6, <1>7, <2>1, <2>4 DEF Contents
    <2>6. QED BY <2>3, <2>4, <2>5, SeqEqual
  <1>12. QED BY <1>8, <1>9, <1>10, <1>11 DEF QueueInv

(* A pop keeps the invariant, and takes the head of the contents.          *)
LEMMA PopStep ==
  ASSUME QueueInv, queue_pop
  PROVE  /\ QueueInv'
         /\ Contents \in Seq(Datagrams) /\ Contents # << >>
         /\ recv_from' = Head(Contents) /\ Contents' = Tail(Contents)
  <1>1. /\ cnt \in 1..size /\ cnt' = cnt - 1 /\ size \in Nat
        /\ st \in Nat /\ st < size
        /\ arr' = arr /\ en' = en
    BY SizeAssumption DEF QueueInv, QueueTypeOK, queue_pop, queue_empty, Index
  <1>2. Place(1) = st
    BY PlaceFirst DEF QueueInv
  <1>3. cnt # 1 => st' = Place(2)
    <2>1. 1 \in 1..size /\ Place(1) + 1 = st + 1 /\ 1 + 1 = 2
      BY <1>1, <1>2
    <2>2. (st + 1) % size = Place(2)
      BY <2>1, PlaceNext DEF QueueInv
    <2>3. QED BY <2>2 DEF queue_pop
  <1>4. st' \in Index
    <2>1. CASE cnt = 1
      BY <2>1 DEF QueueInv, QueueTypeOK, queue_pop
    <2>2. CASE cnt # 1
      BY <1>1, <1>3, <2>2, PlaceType DEF QueueInv
    <2>3. QED BY <2>1, <2>2
  <1>5. recv_from' = arr[Place(1)] /\ arr[Place(1)] \in Datagrams
    BY <1>1, <1>2 DEF QueueInv, Written, queue_pop
  <1>6. QueueTypeOK'
    BY <1>1, <1>4, <1>5 DEF QueueInv, QueueTypeOK
  <1>7. ASSUME NEW i \in 1..cnt'
        PROVE  Place(i)' = Place(i + 1)
    <2>1. cnt # 1 /\ st' = Place(2) /\ i \in 1..(cnt - 1)
      BY <1>1, <1>3
    <2>2. CASE st + 1 < size
      <3>1. st' = st + 1
        <4>1. st + 1 \in 0..(2 * size - 1)
          BY <1>1
        <4>2. (st + 1) % size = st + 1
          BY <2>2, <4>1, Wrap
        <4>3. QED BY <2>1, <4>2 DEF queue_pop
      <3>2. QED BY <1>1, <2>1, <3>1 DEF Place
    <2>3. CASE st + 1 = size
      <3>1. st' = 0
        <4>1. st + 1 \in 0..(2 * size - 1) /\ size - size = 0
          BY <1>1
        <4>2. (st + 1) % size = 0
          BY <2>3, <4>1, Wrap
        <4>3. QED BY <2>1, <4>2 DEF queue_pop
      <3>2. Place(i)' = (i - 1) % size /\ Place(i + 1) = (size + i - 1) % size
        <4>1. 0 + i - 1 = i - 1 /\ st + (i + 1) - 1 = size + i - 1
          BY <1>1, <2>1, <2>3
        <4>2. QED BY <3>1, <4>1 DEF Place
      <3>3. i - 1 \in 0..(2 * size - 1) /\ size + i - 1 \in 0..(2 * size - 1)
        BY <1>1, <2>1
      <3>4. (i - 1) % size = i - 1
        BY <1>1, <2>1, <3>3, Wrap
      <3>5. (size + i - 1) % size = i - 1
        BY <1>1, <2>1, <3>3, Wrap
      <3>6. QED BY <3>2, <3>4, <3>5
    <2>4. QED BY <1>1, <2>2, <2>3
  <1>8. EndsAgree'
    <2>1. CASE cnt = 1
      BY <1>1, <1>2, <2>1 DEF QueueInv, EndsAgree, queue_pop
    <2>2. CASE cnt # 1
      <3>1. PICK n \in Nat : n = cnt - 1
        BY <1>1
      <3>2. n \in 1..cnt' /\ cnt' = n /\ n # 0 /\ n + 1 = cnt
        BY <1>1, <2>2, <3>1
      <3>3. Place(n)' = Place(cnt)
        BY <1>7, <3>2
      <3>4. en' = Place(cnt)
        BY <1>1 DEF QueueInv, EndsAgree
      <3>5. EndsAgree' = (en' = IF cnt' = 0 THEN st' ELSE (st' + cnt' - 1) % size)
        BY DEF EndsAgree, Place
      <3>6. Place(n)' = (st' + n - 1) % size
        BY DEF Place
      <3>7. QED BY <3>2, <3>3, <3>4, <3>5, <3>6
    <2>3. QED BY <2>1, <2>2
  <1>9. Written'
    <2>1. ASSUME NEW i \in 1..cnt'
          PROVE  arr'[Place(i)'] \in Datagrams
      <3>1. i + 1 \in 1..cnt
        BY <1>1
      <3>2. QED BY <1>1, <1>7, <3>1 DEF QueueInv, Written
    <2>2. QED BY <2>1 DEF Written
  <1>10. Contents \in Seq(Datagrams) /\ Len(Contents) = cnt /\ Contents # << >>
    BY <1>1 DEF QueueInv, Written, Contents
  <1>11. recv_from' = Head(Contents)
    BY <1>1, <1>5, <1>10 DEF Contents
  <1>12. Contents' = Tail(Contents)
    <2>1. Contents' = [i \in 1..cnt' |-> arr'[Place(i)']]
      BY DEF Contents
    <2>2. /\ Tail(Contents) \in Seq(Datagrams) /\ Len(Tail(Contents)) = cnt - 1
          /\ \A i \in 1..(cnt - 1) : Tail(Contents)[i] = Contents[i + 1]
      BY <1>1, <1>10, HeadTailProperties
    <2>3. \A i \in 1..(cnt - 1) : arr'[Place(i)'] = Contents[i + 1]
      BY <1>1, <1>7 DEF Contents
    <2>4. Contents' \in Seq(Datagrams) /\ Len(Contents') = cnt - 1
      BY <1>1, <1>9, <2>1 DEF Written
    <2>5. \A i \in 1..(cnt - 1) : Contents'[i] = Tail(Contents)[i]
      BY <1>1, <2>1, <2>2, <2>3
    <2>6. QED BY <2>2, <2>4, <2>5, SeqEqual
  <1>13. QED BY <1>6, <1>8, <1>9, <1>10, <1>11, <1>12 DEF QueueInv

(* The three fields always agree, and only written places are read.        *)
THEOREM QueueInductive == QueueSpec => []QueueInv
  <1>1. QueueInv /\ [QueueNext]_queueVars => QueueInv'
    <2> SUFFICES ASSUME QueueInv, [QueueNext]_queueVars
                 PROVE  QueueInv'
      OBVIOUS
    <2>1. CASE UNCHANGED queueVars
      BY <2>1 DEF queueVars, QueueInv, QueueTypeOK, EndsAgree, Written, Place
    <2>2. CASE QueueNext
      BY <2>2, PushStep, PopStep DEF QueueNext
    <2>3. QED BY <2>1, <2>2
  <1>2. QED BY InitQueueInv, <1>1, PTL DEF QueueSpec

(* "en" is the place of the newest element whatever the pushes and pops.   *)
THEOREM QueueEndsAgree == QueueSpec => []EndsAgree
  BY QueueInductive, PTL DEF QueueInv

(* The indices and the counter stay within the array.                      *)
THEOREM QueueTypeCorrect == QueueSpec => []QueueTypeOK
  BY QueueInductive, PTL DEF QueueInv

(* No datagram that is handed over is what malloc() left in the array.     *)
THEOREM QueueWritten == QueueSpec => []Written
  BY QueueInductive, PTL DEF QueueInv

(* The circular queue implements the bounded first-in first-out channel:   *)
(* datagrams are handled in the order and as often as they were accepted.  *)
THEOREM QueueImplementsFifo == QueueSpec => ImplementsFifo
  <1>1. QueueInit => Fifo!Init
    BY SizeAssumption DEF QueueInit, Fifo!Init
  <1>2. QueueInv /\ QueueInv' /\ [QueueNext]_queueVars => [Fifo!Next]_<<Contents, recv_from>>
    <2> SUFFICES ASSUME QueueInv, [QueueNext]_queueVars
                 PROVE  [Fifo!Next]_<<Contents, recv_from>>
      OBVIOUS
    <2>1. CASE UNCHANGED queueVars
      BY <2>1 DEF queueVars, Contents, Place
    <2>2. ASSUME NEW datagram \in Datagrams, queue_push(datagram)
          PROVE  Fifo!Next
      <3>1. Contents' = Append(Contents, datagram)
        BY <2>2, PushStep
      <3>2. Len(Contents) = cnt /\ cnt < size /\ recv_from' = recv_from
        BY <2>2, SizeAssumption DEF QueueInv, QueueTypeOK, queue_push, queue_full, Contents
      <3>3. Fifo!Put(datagram)
        BY <3>1, <3>2 DEF Fifo!Put, Contents
      <3>4. QED BY <3>3 DEF Fifo!Next
    <2>3. ASSUME queue_pop
          PROVE  Fifo!Next
      <3>1. Contents # << >> /\ recv_from' = Head(Contents) /\ Contents' = Tail(Contents)
        BY <2>3, PopStep
      <3>2. Fifo!Take
        BY <3>1 DEF Fifo!Take, Contents
      <3>3. QED BY <3>2 DEF Fifo!Next
    <2>4. QED BY <2>1, <2>2, <2>3 DEF QueueNext
  <1>3. [][Fifo!Next]_<<Contents, recv_from>>
          => [][Fifo!Next]_<<[i \in 1..cnt |-> arr[Place(i)]], recv_from>>
    BY DEF Contents
  <1>4. QED
    BY <1>1, <1>2, <1>3, QueueInductive, PTL DEF QueueSpec, ImplementsFifo, Fifo!Spec

-----------------------------------------------------------------------------
(* The loop on the WiFi module (WifiTraffic).                              *)

USE DEF Requests, Answers, Packets

(* No step of the loop touches the queue but by a push or a pop.           *)
LEMMA QueueStep == [Next]_vars => [QueueNext]_queueVars
  <1> SUFFICES ASSUME [Next]_vars PROVE [QueueNext]_queueVars
    OBVIOUS
  <1>1. CASE UNCHANGED vars
    BY <1>1 DEF vars
  <1>2. CASE Exchange
    <2>1. CASE Wake \/ PacketsDone \/ GoOn \/ Send \/ Resend
      BY <2>1 DEF Wake, PacketsDone, GoOn, Send, Resend
    <2>2. CASE ProcessPacket
      <3>1. CASE Head(unread) = "datagram"
        BY <2>2, <3>1 DEF ProcessPacket, Store, QueueNext
      <3>2. CASE Head(unread) # "datagram"
        BY <2>2, <3>2 DEF ProcessPacket
      <3>3. QED BY <3>1, <3>2
    <2>3. QED BY <1>2, <2>1, <2>2 DEF Exchange
  <1>3. CASE Branches
    <2>1. CASE Serve
      BY <2>1 DEF Serve, QueueNext
    <2>2. CASE TakeEvents \/ EnterServe \/ Served \/ StartSend \/ NothingToSend \/ Poll \/ NoPoll
      BY <2>2 DEF TakeEvents, EnterServe, Served, StartSend, NothingToSend, Poll, NoPoll
    <2>3. QED BY <1>3, <2>1, <2>2 DEF Branches
  <1>4. CASE Module \/ Datagram \/ Press
    BY <1>4 DEF Module, ModuleSendTo, ModuleRecvFrom, Datagram, Press
  <1>5. QED BY <1>1, <1>2, <1>3, <1>4 DEF Next

(* So the composed program implements the queue by itself,                 *)
THEOREM TrafficImplementsQueue == Spec => QueueSpec
  <1>1. Init => QueueInit
    BY DEF Init
  <1>2. QED BY <1>1, QueueStep, PTL DEF Spec, QueueSpec

(* and what is proved of that holds here: the three redundant fields of    *)
(* the queue agree,                                                        *)
THEOREM TrafficEndsAgree == Spec => []EndsAgree
  BY TrafficImplementsQueue, QueueEndsAgree

(* only datagrams are handed over,                                         *)
THEOREM TrafficWritten == Spec => []Written
  BY TrafficImplementsQueue, QueueWritten

(* and they are handled in the order in which they were accepted.          *)
THEOREM TrafficImplementsFifo == Spec => ImplementsFifo
  BY TrafficImplementsQueue, QueueImplementsFifo

-----------------------------------------------------------------------------
(* Types.                                                                  *)
LinkType == LinkTypeOK(Requests, Packets, {"loop", "recv", "serve", "timer0", "timer1"})

LoopType ==
  /\ recv_from_clear \in BOOLEAN /\ asked \in BOOLEAN
  /\ recv_event \in BOOLEAN /\ serving \in BOOLEAN /\ gtg \in BOOLEAN
  /\ tx_cnt \in 0..TX_REPEAT_CNT

(* What is put on the line and what the module answers are sequences of    *)
(* their kind.                                                             *)
LEMMA PutType ==
  ASSUME to_module \in Seq(Requests), NEW r \in Requests, PutOnLine(r),
         MaxOutstanding \in Nat
  PROVE  to_module' \in Seq(Requests) /\ Len(to_module') <= MaxOutstanding
  BY DEF PutOnLine

LEMMA AnswerType ==
  ASSUME unread \in Seq(Packets), NEW p \in Packets, Answer(<<p>>) \/ Answer(<<>>)
  PROVE  unread' \in Seq(Packets) /\ (wifi_event \in BOOLEAN => wifi_event' \in BOOLEAN)
  <1>1. <<p>> \in Seq(Packets) /\ <<>> \in Seq(Packets)
    OBVIOUS
  <1>2. unread \o <<p>> \in Seq(Packets) /\ unread \o <<>> \in Seq(Packets)
    BY <1>1
  <1>3. QED BY <1>2 DEF Answer

LEMMA TailType ==
  ASSUME NEW S, NEW s \in Seq(S), s # <<>>
  PROVE  Tail(s) \in Seq(S) /\ Len(Tail(s)) = Len(s) - 1 /\ Head(s) \in S
  OBVIOUS

(* The counter of repetitions goes round after the last one.               *)
LEMMA NextRepetition ==
  ASSUME NEW k \in 0..TX_REPEAT_CNT
  PROVE  (k + 1) % (TX_REPEAT_CNT + 1) \in 0..TX_REPEAT_CNT
  BY TrafficAssumption

LEMMA TypeStep ==
  ASSUME LinkType, LoopType, [Next]_vars
  PROVE  LinkType' /\ LoopType'
  <1> USE DEF LinkType, LinkTypeOK, LoopType
  <1>0. MaxOutstanding \in Nat /\ 1 \in 0..TX_REPEAT_CNT
    BY OutstandingAssumption, TrafficAssumption
  <1>1. CASE UNCHANGED vars
    BY <1>1 DEF vars, linkVars, loopVars, askVars
  <1>2. CASE Wake
    BY <1>2 DEF Wake, SeeEvent, loopVars, askVars
  <1>3. CASE ProcessPacket
    <2>1. unread' \in Seq(Packets) /\ found' \in BOOLEAN
      BY <1>3, TailType DEF ProcessPacket, NextPacket
    <2>2. recv_event' \in BOOLEAN /\ recv_from_clear' \in BOOLEAN
      BY <1>3 DEF ProcessPacket, Store
    <2>3. QED BY <1>3, <2>1, <2>2 DEF ProcessPacket, NextPacket
  <1>4. CASE PacketsDone
    BY <1>4 DEF PacketsDone, NoMorePackets, loopVars, askVars
  <1>5. CASE GoOn
    <2>1. tx_cnt' \in 0..TX_REPEAT_CNT
      BY <1>5, NextRepetition DEF GoOn
    <2>2. pc' \in {"put", "recv", "wait", "serve", "timer1"}
      BY <1>5 DEF GoOn, ClearEvent, Caller
    <2>3. QED BY <1>5, <2>1, <2>2 DEF GoOn, ClearEvent, loopVars, askVars
  <1>6. CASE Send
    BY <1>0, <1>6, PutType DEF Send, PutPacket, loopVars, askVars
  <1>7. CASE Resend
    BY <1>7 DEF Resend, Timeout, loopVars, askVars
  <1>8. CASE TakeEvents
    BY <1>8 DEF TakeEvents, askVars
  <1>9. CASE EnterServe
    BY <1>9 DEF EnterServe, askVars
  <1>10. CASE Serve
    BY <1>0, <1>10 DEF Serve, loopVars, askVars
  <1>11. ASSUME Ask
         PROVE  /\ to_module' \in Seq(Requests) /\ Len(to_module') <= MaxOutstanding
                /\ recv_from_clear' \in BOOLEAN
    BY <1>0, <1>11, PutType DEF Ask
  <1>12. CASE Served
    BY <1>11, <1>12 DEF Served
  <1>13. CASE StartSend
    BY <1>0, <1>13 DEF StartSend, loopVars, askVars
  <1>14. CASE NothingToSend
    BY <1>14 DEF NothingToSend, loopVars, askVars
  <1>15. CASE Poll
    BY <1>11, <1>15 DEF Poll, loopVars
  <1>16. CASE NoPoll
    BY <1>16 DEF NoPoll, loopVars, askVars
  <1>17. ASSUME to_module # <<>>, to_module' = Tail(to_module)
         PROVE  to_module' \in Seq(Requests) /\ Len(to_module') <= MaxOutstanding
    BY <1>0, <1>17, TailType
  <1>18. CASE ModuleSendTo
    BY <1>17, <1>18, AnswerType DEF ModuleSendTo, Handle, Answer, loopVars, askVars
  <1>19. CASE ModuleRecvFrom
    BY <1>17, <1>19, AnswerType DEF ModuleRecvFrom, Handle, Answer, loopVars
  <1>20. CASE Datagram
    BY <1>20, AnswerType DEF Datagram, Answer, loopVars
  <1>21. CASE Press
    BY <1>21 DEF Press, linkVars, askVars
  <1>22. QED
    BY <1>1, <1>2, <1>3, <1>4, <1>5, <1>6, <1>7, <1>8, <1>9, <1>10, <1>12, <1>13, <1>14, <1>15,
       <1>16, <1>18, <1>19, <1>20, <1>21 DEF Next, Exchange, Branches, Module

THEOREM TrafficTypeInductive == Spec => [](LinkType /\ LoopType)
  <1>1. Init => LinkType /\ LoopType
    <2>1. 0 \in 0..TX_REPEAT_CNT /\ Len(<< >>) <= MaxOutstanding
      BY OutstandingAssumption, TrafficAssumption
    <2>2. << >> \in Seq(Requests) /\ << >> \in Seq(Packets)
      OBVIOUS
    <2>3. QED BY <2>1, <2>2 DEF Init, LinkInit, LinkType, LinkTypeOK, LoopType
  <1>2. QED BY <1>1, TypeStep, PTL DEF Spec

(* The loop's variables keep their types: tx_cnt never passes its end.     *)
THEOREM TrafficTypeCorrect == Spec => []TypeOK
  <1>1. LinkType /\ LoopType /\ QueueTypeOK => TypeOK
    BY DEF LinkType, LoopType, TypeOK
  <1>2. Spec => []QueueTypeOK
    BY TrafficImplementsQueue, QueueTypeCorrect
  <1>3. QED BY <1>1, <1>2, TrafficTypeInductive, PTL

-----------------------------------------------------------------------------
(* One RECV_FROM request at a time.                                        *)

(* Where the requests and the answers of RECV_FROM are: there is one, in   *)
(* one of three places, and none when main() is free to ask again.         *)
OnLine == Places(to_module, {"RECV_FROM"})
InRing == Places(unread, Answers)

AtMostOne(S) == \A i, j \in S : i = j

OneInv ==
  /\ AtMostOne(OnLine) /\ AtMostOne(InRing)
  /\ OnLine # {} => ~asked /\ InRing = {}
  /\ asked => InRing = {}
  /\ recv_from_clear => OnLine = {} /\ ~asked /\ InRing = {}

(* What appending to a sequence and taking its head do to the places.      *)
LEMMA LineAppend ==
  ASSUME to_module \in Seq(Requests), NEW x, to_module' = Append(to_module, x)
  PROVE  /\ x = "RECV_FROM" => OnLine' = OnLine \cup {Len(to_module) + 1}
         /\ x # "RECV_FROM" => OnLine' = OnLine
  <1>1. /\ Len(to_module') = Len(to_module) + 1 /\ Len(to_module) \in Nat
        /\ to_module'[Len(to_module) + 1] = x
        /\ \A i \in 1..Len(to_module) : to_module'[i] = to_module[i]
    OBVIOUS
  <1>2. QED BY <1>1 DEF OnLine, Places

LEMMA RingAppend ==
  ASSUME unread \in Seq(Packets), NEW x, unread' = Append(unread, x)
  PROVE  /\ x \in Answers => InRing' = InRing \cup {Len(unread) + 1}
         /\ x \notin Answers => InRing' = InRing
  <1>1. /\ Len(unread') = Len(unread) + 1 /\ Len(unread) \in Nat
        /\ unread'[Len(unread) + 1] = x
        /\ \A i \in 1..Len(unread) : unread'[i] = unread[i]
    OBVIOUS
  <1>2. QED BY <1>1 DEF InRing, Places

LEMMA PlacesTail ==
  ASSUME NEW S, NEW s \in Seq(S), s # << >>, NEW W
  PROVE  /\ \A i \in Places(Tail(s), W) : i + 1 \in Places(s, W) /\ i \in Nat
         /\ Head(s) \in W => 1 \in Places(s, W)
  BY DEF Places

(* So taking the head leaves at most one; and none, if the head was it.    *)
LEMMA TailAtMostOne ==
  ASSUME NEW S, NEW s \in Seq(S), s # << >>, NEW W, AtMostOne(Places(s, W))
  PROVE  /\ AtMostOne(Places(Tail(s), W))
         /\ Places(s, W) = {} => Places(Tail(s), W) = {}
         /\ Head(s) \in W => Places(Tail(s), W) = {}
  <1>1. AtMostOne(Places(Tail(s), W))
    <2> SUFFICES ASSUME NEW i \in Places(Tail(s), W), NEW j \in Places(Tail(s), W)
                 PROVE  i = j
      BY DEF AtMostOne
    <2>1. i + 1 = j + 1 /\ i \in Nat /\ j \in Nat
      BY PlacesTail DEF AtMostOne
    <2>2. QED BY <2>1
  <1>2. Places(s, W) = {} => Places(Tail(s), W) = {}
    BY PlacesTail
  <1>3. ASSUME Head(s) \in W, NEW i \in Places(Tail(s), W)
        PROVE  FALSE
    <2>1. i + 1 = 1 /\ i \in Nat /\ i # 0
      <3>1. i + 1 = 1 /\ i \in Nat
        BY <1>3, PlacesTail DEF AtMostOne
      <3>2. i # 0
        BY <1>3 DEF Places
      <3>3. QED BY <3>1, <3>2
    <2>2. QED BY <2>1
  <1>4. QED BY <1>1, <1>2, <1>3

(* What the steps of the link do to the two sets.                          *)
LEMMA AskEffect ==
  ASSUME LinkType, LoopType, OneInv, Ask, unread' = unread, asked' = asked
  PROVE  OneInv'
  <1>1. CASE recv_from_clear
    <2>1. OnLine' = OnLine \cup {Len(to_module) + 1}
      <3>1. to_module' = Append(to_module, "RECV_FROM") /\ to_module \in Seq(Requests)
        BY <1>1 DEF Ask, PutOnLine, LinkType, LinkTypeOK
      <3>2. QED BY <3>1, LineAppend
    <2>2. InRing' = InRing
      BY DEF InRing
    <2>3. ~recv_from_clear'
      BY <1>1 DEF Ask
    <2>4. QED BY <1>1, <2>1, <2>2, <2>3 DEF OneInv, AtMostOne
  <1>2. CASE ~recv_from_clear
    BY <1>2 DEF Ask, OneInv, AtMostOne, OnLine, InRing
  <1>3. QED BY <1>1, <1>2

LEMMA SendEffect ==
  ASSUME LinkType, OneInv, Send
  PROVE  OneInv'
  <1>1. OnLine' = OnLine
    <2>1. to_module' = Append(to_module, "SEND_TO") /\ to_module \in Seq(Requests)
      BY DEF Send, PutPacket, PutOnLine, LinkType, LinkTypeOK
    <2>2. QED BY <2>1, LineAppend
  <1>2. InRing' = InRing /\ asked' = asked /\ recv_from_clear' = recv_from_clear
    BY DEF Send, PutPacket, InRing, askVars
  <1>3. QED BY <1>1, <1>2 DEF OneInv

LEMMA ProcessEffect ==
  ASSUME LinkType, OneInv, ProcessPacket
  PROVE  OneInv'
  <1>1. /\ unread # << >> /\ unread' = Tail(unread) /\ to_module' = to_module /\ asked' = asked
    BY DEF ProcessPacket, NextPacket
  <1>2. /\ AtMostOne(InRing')
        /\ InRing = {} => InRing' = {}
        /\ Head(unread) \in Answers => InRing' = {} /\ InRing # {}
    <2>1. unread \in Seq(Packets) /\ AtMostOne(Places(unread, Answers))
      BY DEF LinkType, LinkTypeOK, OneInv, InRing
    <2>2. /\ AtMostOne(Places(Tail(unread), Answers))
          /\ Places(unread, Answers) = {} => Places(Tail(unread), Answers) = {}
          /\ Head(unread) \in Answers => Places(Tail(unread), Answers) = {}
      BY <1>1, <2>1, TailAtMostOne
    <2>3. Head(unread) \in Answers => Places(unread, Answers) # {}
      BY <1>1, <2>1, PlacesTail
    <2>4. QED BY <1>1, <2>2, <2>3 DEF InRing
  <1>3. OnLine' = OnLine
    BY <1>1 DEF OnLine
  <1>4. recv_from_clear' => recv_from_clear \/ Head(unread) \in Answers
    BY DEF ProcessPacket, Store
  <1> HIDE DEF Answers
  <1>5. CASE Head(unread) \in Answers
    BY <1>1, <1>2, <1>3, <1>5 DEF OneInv, AtMostOne
  <1>6. CASE Head(unread) \notin Answers
    <2>1. recv_from_clear' => recv_from_clear
      BY <1>4, <1>6
    <2>2. InRing = {} => InRing' = {}
      BY <1>2
    <2>3. AtMostOne(OnLine') /\ AtMostOne(InRing')
      BY <1>2, <1>3 DEF OneInv
    <2>4. asked' <=> asked
      BY <1>1
    <2>5. QED BY <1>3, <2>1, <2>2, <2>3, <2>4, Zenon DEF OneInv
  <1>7. QED BY <1>5, <1>6

LEMMA ModuleEffect ==
  ASSUME LinkType, OneInv, Module
  PROVE  OneInv'
  <1>1. /\ to_module # << >> /\ to_module' = Tail(to_module)
        /\ to_module \in Seq(Requests) /\ unread \in Seq(Packets)
        /\ recv_from_clear' = recv_from_clear
    BY DEF Module, ModuleSendTo, ModuleRecvFrom, Handle, LinkType, LinkTypeOK, askVars
  <1>2. /\ AtMostOne(OnLine')
        /\ OnLine = {} => OnLine' = {}
        /\ Head(to_module) = "RECV_FROM" => OnLine' = {} /\ OnLine # {}
    <2>1. AtMostOne(Places(to_module, {"RECV_FROM"}))
      BY DEF OneInv, OnLine
    <2>2. /\ AtMostOne(Places(Tail(to_module), {"RECV_FROM"}))
          /\ OnLine = {} => Places(Tail(to_module), {"RECV_FROM"}) = {}
          /\ Head(to_module) = "RECV_FROM" =>
               /\ Places(Tail(to_module), {"RECV_FROM"}) = {}
      BY <1>1, <2>1, TailAtMostOne DEF OnLine
    <2>3. Head(to_module) = "RECV_FROM" => OnLine # {}
      BY <1>1, PlacesTail DEF OnLine
    <2>4. QED BY <1>1, <2>2, <2>3 DEF OnLine
  <1>3. CASE ModuleSendTo
    <2>1. asked' = asked /\ unread' = unread \o <<"SEND_TO">>
      BY <1>3 DEF ModuleSendTo, Handle, Answer, askVars
    <2>2. unread' = Append(unread, "SEND_TO")
      BY <1>1, <2>1
    <2>3. InRing' = InRing
      BY <1>1, <2>2, RingAppend
    <2>4. AtMostOne(OnLine') /\ AtMostOne(InRing')
      BY <1>2, <2>3 DEF OneInv
    <2>5. /\ asked' <=> asked
          /\ recv_from_clear' <=> recv_from_clear
      BY <1>1, <2>1
    <2>6. QED BY <1>2, <2>3, <2>4, <2>5, Zenon DEF OneInv
  <1>4. CASE ModuleRecvFrom
    <2>1. asked' /\ unread' = unread \o << >> /\ Head(to_module) = "RECV_FROM"
      BY <1>4 DEF ModuleRecvFrom, Handle, Answer
    <2>2. unread' = unread
      BY <1>1, <2>1
    <2>3. InRing' = InRing
      BY <2>2 DEF InRing
    <2>4. QED BY <1>1, <1>2, <2>1, <2>3 DEF OneInv, AtMostOne
  <1>5. QED BY <1>3, <1>4 DEF Module

LEMMA DatagramEffect ==
  ASSUME LinkType, OneInv, Datagram
  PROVE  OneInv'
  <1>1. PICK answer \in Answers : unread' = unread \o <<answer>>
    BY DEF Datagram, Answer
  <1>2. unread \in Seq(Packets) /\ unread' = Append(unread, answer)
    BY <1>1 DEF LinkType, LinkTypeOK
  <1>3. InRing' = InRing \cup {Len(unread) + 1}
    BY <1>2, RingAppend
  <1>4. asked /\ ~asked' /\ OnLine' = OnLine /\ recv_from_clear' = recv_from_clear
    BY DEF Datagram, OnLine
  <1>5. QED BY <1>3, <1>4 DEF OneInv, AtMostOne

LEMMA OneStep ==
  ASSUME LinkType, LoopType, OneInv, [Next]_vars
  PROVE  OneInv'
  <1>1. ASSUME to_module' = to_module, unread' = unread, UNCHANGED askVars
        PROVE  OneInv'
    BY <1>1 DEF OneInv, OnLine, InRing, askVars
  <1>2. CASE UNCHANGED vars
    BY <1>1, <1>2 DEF vars, linkVars
  <1>3. CASE Exchange
    <2>1. CASE Wake \/ PacketsDone \/ GoOn \/ Resend
      BY <1>1, <2>1 DEF Wake, SeeEvent, PacketsDone, NoMorePackets, GoOn, ClearEvent,
                        Resend, Timeout
    <2>2. QED BY <1>3, <2>1, SendEffect, ProcessEffect DEF Exchange
  <1>4. CASE Branches
    <2>1. CASE Served \/ Poll
      BY <2>1, AskEffect DEF Served, Poll
    <2>2. CASE TakeEvents \/ EnterServe \/ Serve \/ StartSend \/ NothingToSend \/ NoPoll
      BY <1>1, <2>2 DEF TakeEvents, EnterServe, Serve, StartSend, NothingToSend, NoPoll
    <2>3. QED BY <1>4, <2>1, <2>2 DEF Branches
  <1>5. CASE Press
    BY <1>1, <1>5 DEF Press, linkVars
  <1>6. QED BY <1>2, <1>3, <1>4, <1>5, ModuleEffect, DatagramEffect DEF Next

(* Wherever a RECV_FROM request or its answer is, there is only one, and   *)
(* none when main() is free to ask again.                                  *)
THEOREM OneRecvFromCorrect == Spec => []OneRecvFrom
  <1>1. Init => OneInv
    BY DEF Init, LinkInit, OneInv, AtMostOne, OnLine, InRing, Places
  <1>2. LoopType /\ OneInv => OneRecvFrom
    <2> SUFFICES ASSUME LoopType, OneInv PROVE OneRecvFrom
      OBVIOUS
    <2>1. /\ UnderWay = {<<"request", i>> : i \in OnLine}
                        \cup (IF asked THEN {<<"asked", 0>>} ELSE {})
                        \cup {<<"answer", i>> : i \in InRing}
      BY DEF UnderWay, OnLine, InRing
    <2> HIDE DEF UnderWay
    <2>2. QED BY <2>1 DEF OneInv, AtMostOne, OneRecvFrom
  <1>3. QED BY <1>1, <1>2, OneStep, TrafficTypeInductive, PTL DEF Spec

-----------------------------------------------------------------------------
(* The queue stays roomy.                                                  *)

(* main() polls only on a round that had nothing to serve.                 *)
PollsUnserved == serving => pc \notin {"timer0", "timer1"}

(* A datagram that may still come before main() asks again.                *)
Expected == IF recv_from_clear THEN 0 ELSE 1

(* From a moment at which the queue is empty, with the switch pressed, it  *)
(* holds at most one datagram, the one expected included, until the next   *)
(* poll, which asks for a second; the round after that poll serves them    *)
(* both before it polls again.                                             *)
Roomy ==
  /\ gtg
  /\ cnt + Expected <= 2
  /\ ~recv_event => cnt = 0
  /\ ~serving /\ pc # "loop" => cnt + Expected <= 1

LEMMA PollsUnservedStep ==
  ASSUME LoopType, PollsUnserved, [Next]_vars
  PROVE  PollsUnserved'
  <1> USE DEF PollsUnserved
  <1>1. CASE UNCHANGED vars
    BY <1>1 DEF vars, linkVars, loopVars
  <1>2. CASE Exchange
    <2>1. CASE GoOn
      BY <2>1 DEF GoOn, ClearEvent, Caller, loopVars
    <2>2. CASE Wake \/ ProcessPacket \/ PacketsDone \/ Send \/ Resend
      BY <2>2 DEF Wake, SeeEvent, ProcessPacket, NextPacket, PacketsDone, NoMorePackets,
                  Send, PutPacket, Resend, Timeout, loopVars
    <2>3. QED BY <1>2, <2>1, <2>2 DEF Exchange
  <1>3. CASE Branches
    BY <1>3 DEF Branches, TakeEvents, EnterServe, Serve, Served, StartSend, NothingToSend,
                Poll, NoPoll, loopVars
  <1>4. CASE Module \/ Datagram \/ Press
    BY <1>4 DEF Module, ModuleSendTo, ModuleRecvFrom, Handle, Answer, Datagram, Press,
                linkVars, loopVars
  <1>5. QED BY <1>1, <1>2, <1>3, <1>4 DEF Next

(* The steps that neither ask, nor store, nor take a datagram.             *)
LEMMA RoomyKept ==
  ASSUME Roomy, gtg', cnt' = cnt, recv_event' = recv_event,
         recv_from_clear' = recv_from_clear,
         (serving' = serving /\ (pc' # "loop" => pc # "loop")) \/ serving'
  PROVE  Roomy'
  BY DEF Roomy, Expected

(* main() counts with a datagram until it is stored or dropped.            *)
LEMMA RoomyProcess ==
  ASSUME LinkType, LoopType, QueueTypeOK, OneInv, Roomy, ProcessPacket
  PROVE  Roomy'
  <1>1. gtg' /\ serving' = serving /\ pc' = pc /\ pc = "packets"
    BY DEF Roomy, ProcessPacket, NextPacket
  <1>2. CASE Head(unread) = "datagram"
    <2>1. InRing # {}
      <3>1. unread \in Seq(Packets) /\ unread # << >> /\ Head(unread) \in Answers
        BY <1>2 DEF ProcessPacket, LinkType, LinkTypeOK, Answers
      <3>2. 1 \in Places(unread, Answers)
        BY <3>1, PlacesTail
      <3>3. QED BY <3>2 DEF InRing
    <2>2. ~recv_from_clear
      BY <2>1 DEF OneInv
    <2>3. recv_from_clear' /\ recv_event'
      BY <1>2 DEF ProcessPacket, Store
    <2>4. cnt' = cnt \/ cnt' = cnt + 1
      BY <1>2 DEF ProcessPacket, Store, queue_push, queueVars
    <2>5. cnt \in Nat
      BY SizeAssumption DEF QueueTypeOK
    <2>6. Expected = 1 /\ Expected' = 0
      BY <2>2, <2>3 DEF Expected
    <2>7. cnt' + Expected' <= 2
      <3>1. cnt + Expected <= 2
        BY DEF Roomy
      <3>2. QED BY <2>4, <2>5, <2>6, <3>1
    <2>8. ASSUME ~serving'
          PROVE  cnt' + Expected' <= 1
      <3>1. cnt + Expected <= 1
        BY <1>1, <2>8 DEF Roomy
      <3>2. QED BY <2>4, <2>5, <2>6, <3>1
    <2>9. QED BY <1>1, <2>3, <2>7, <2>8 DEF Roomy
  <1>3. CASE Head(unread) # "datagram"
    BY <1>1, <1>3, RoomyKept DEF ProcessPacket, queueVars
  <1>4. QED BY <1>2, <1>3

(* It is the poll that makes them two, and the end of a round of serving   *)
(* makes it one again.                                                     *)
LEMMA RoomyBranches ==
  ASSUME LoopType, QueueTypeOK, PollsUnserved, Roomy, Branches
  PROVE  Roomy'
  <1>0. cnt \in Nat /\ gtg /\ gtg' = gtg
    <2>1. cnt \in Nat
      BY SizeAssumption DEF QueueTypeOK
    <2>2. gtg' = gtg
      BY DEF Branches, TakeEvents, EnterServe, Serve, Served, StartSend, NothingToSend,
             Poll, NoPoll, loopVars
    <2>3. QED BY <2>1, <2>2 DEF Roomy
  <1>1. CASE TakeEvents
    BY <1>0, <1>1 DEF TakeEvents, Roomy, Expected, queueVars, askVars
  <1>2. CASE EnterServe
    <2>1. serving' = serving
      BY <1>0, <1>2, Zenon DEF EnterServe, LoopType
    <2>2. QED BY <1>0, <1>2, <2>1, RoomyKept DEF EnterServe, queueVars, askVars
  <1>3. CASE Serve
    BY <1>0, <1>3 DEF Serve, queue_pop, queue_empty, Roomy, Expected, loopVars, askVars
  <1>4. CASE Served
    <2>1. cnt = 0 /\ cnt' = 0
      BY <1>4 DEF Served, queue_empty, queueVars
    <2>2. QED BY <1>0, <2>1 DEF Roomy, Expected
  <1>5. CASE Poll
    <2>1. ~serving /\ pc = "timer1" /\ pc' = "loop" /\ Ask
      BY <1>5 DEF Poll, PollsUnserved
    <2>2. cnt' = cnt /\ recv_event' = recv_event
      BY <1>5 DEF Poll, queueVars, loopVars
    <2>3. recv_from_clear' = FALSE \/ recv_from_clear' = recv_from_clear
      BY <2>1 DEF Ask
    <2>4. QED BY <1>0, <2>1, <2>2, <2>3 DEF Roomy, Expected
  <1>6. CASE StartSend \/ NothingToSend \/ NoPoll
    BY <1>0, <1>6, RoomyKept DEF StartSend, NothingToSend, NoPoll, queueVars, loopVars, askVars
  <1>7. QED BY <1>1, <1>2, <1>3, <1>4, <1>5, <1>6 DEF Branches

LEMMA RoomyStep ==
  ASSUME LinkType, LoopType, QueueTypeOK, OneInv, PollsUnserved, Roomy, [Next]_vars
  PROVE  Roomy'
  <1>1. CASE UNCHANGED vars
    BY <1>1, RoomyKept DEF Roomy, vars, linkVars, queueVars, loopVars, askVars
  <1>2. CASE Wake \/ PacketsDone \/ GoOn \/ Send \/ Resend
    BY <1>2, RoomyKept DEF Roomy, Wake, SeeEvent, PacketsDone, NoMorePackets, GoOn, ClearEvent,
                           Send, PutPacket, Resend, Timeout, queueVars, loopVars, askVars
  <1>3. CASE Module \/ Datagram
    BY <1>3, RoomyKept DEF Roomy, Module, ModuleSendTo, ModuleRecvFrom, Handle, Answer,
                           Datagram, queueVars, loopVars, askVars
  <1>4. CASE Press
    BY <1>4 DEF Press, Roomy
  <1>5. QED
    BY <1>1, <1>2, <1>3, <1>4, RoomyProcess, RoomyBranches DEF Next, Exchange

(* Once the queue has been emptied with the switch pressed it never fills  *)
(* up again, whatever arrives: a queue of three places is enough, and      *)
(* dsrc.c allocates 40.                                                    *)
THEOREM TrafficStaysRoomy ==
  ASSUME size >= 3
  PROVE  Spec => StaysRoomy
  <1>1. Spec => []PollsUnserved
    <2>1. Init => PollsUnserved
      BY DEF Init, PollsUnserved
    <2>2. QED BY <2>1, PollsUnservedStep, TrafficTypeInductive, PTL DEF Spec
  <1>2. Spec => []OneInv
    <2>1. Init => OneInv
      BY DEF Init, LinkInit, OneInv, AtMostOne, OnLine, InRing, Places
    <2>2. QED BY <2>1, OneStep, TrafficTypeInductive, PTL DEF Spec
  <1>3. Spec => []QueueTypeOK
    BY TrafficImplementsQueue, QueueTypeCorrect, PTL
  <1>4. gtg /\ queue_empty => Roomy
    BY DEF queue_empty, Roomy, Expected
  <1>5. QueueTypeOK /\ Roomy => ~queue_full
    BY SizeAssumption DEF QueueTypeOK, Roomy, Expected, queue_full
  <1>6. QED
    BY <1>1, <1>2, <1>3, <1>4, <1>5, RoomyStep, TrafficTypeInductive, PTL
    DEF Spec, StaysRoomy
=============================================================================

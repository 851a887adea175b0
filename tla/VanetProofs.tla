----------------------------- MODULE VanetProofs -----------------------------
(***************************************************************************)
(* Proofs about the device table, and about it in the network of devices,  *)
(* for any number of devices up to the places of used_neighbors, any packet *)
(* ids, any table size and whatever malloc() leaves in a record, as long   *)
(* as that is no device's address (HeapAssumption).  Of the network they   *)
(* ask that a datagram is on the way for no more than the periods in which *)
(* the ids last (IdsAssumption).                                           *)
(***************************************************************************)
EXTENDS Vanet, FiniteSetTheorems, WellFoundedInduction, TLAPS

(* The table by itself (DeviceTable).                                      *)

USE DEF SELF_WEIGHTED_TRUST, OTHERS_WEIGHTED_TRUST, OTHERS_MIN_TRUST, MINIMUM_ACC_TRUST

(* What is true of every record of a device.                               *)
RecordOK(d) ==
  /\ d \in Device
  /\ d.used_neighbors_cnt = Cardinality(d.used)
  /\ d.computed_trust >= d.self_trust + d.used_neighbors_cnt * OTHERS_MIN_TRUST
  /\ d.computed_trust <= d.self_trust + d.used_neighbors_cnt * OTHERS_WEIGHTED_TRUST
  /\ d.timeout \in 1..DEVICE_TIMEOUT

TableInv ==
  /\ device_table \in [Slots -> Device \cup Memory \cup {NULL}]
  /\ \A i \in Known : RecordOK(device_table[i])
  /\ OneRecordEach

(* Every set of addresses fits into used_neighbors.                        *)
LEMMA UsedFits ==
  ASSUME NEW S \in SUBSET Nodes
  PROVE  IsFiniteSet(S) /\ Cardinality(S) \in 0..MAX_NEIGHBORS
  <1>1. IsFiniteSet(S) /\ Cardinality(S) <= Cardinality(Nodes)
    BY NodesAssumption, FS_Subset
  <1>2. Cardinality(S) \in Nat /\ Cardinality(Nodes) \in Nat
    BY <1>1, NodesAssumption, FS_CardinalityType
  <1>3. QED BY <1>1, <1>2, NodesAssumption, SizesAssumption

(* The record that a heartbeat leaves behind.                              *)
LEMMA RefreshedOK ==
  ASSUME NEW ip \in Nodes, NEW packet_id \in PacketIds, NEW near \in BOOLEAN
  PROVE  RecordOK(Refreshed(ip, packet_id, near)) /\ Refreshed(ip, packet_id, near).ip = ip
  <1>1. Cardinality({}) = 0
    BY FS_EmptySet
  <1>2. QED BY <1>1, SizesAssumption DEF Refreshed, RecordOK, Device

(* An opinion weighs between one and ten.                                  *)
LEMMA WeightedOpinionType ==
  ASSUME NEW d, RecordOK(d)
  PROVE  WeightedOpinion(d) \in 1..10
  <1>1. d.computed_trust \in 0..255
    BY DEF RecordOK, Device
  <1>2. (d.computed_trust * 10) \div 30 \in Nat
    BY <1>1
  <1>3. QED BY <1>2 DEF WeightedOpinion

(* A record with other books is still a record.                            *)
LEMMA UpdatedType ==
  ASSUME NEW d \in Device, NEW x \in 0..255, NEW u \in SUBSET Nodes,
         NEW k \in 0..MAX_NEIGHBORS
  PROVE  [d EXCEPT !.computed_trust = x, !.used = u, !.used_neighbors_cnt = k] \in Device
  BY DEF Device

(* Counting an opinion not counted yet keeps the record's books.           *)
LEMMA CountedOK ==
  ASSUME NEW d, RecordOK(d), NEW r, r.ip \in Nodes \ d.used, NEW w \in 1..10
  PROVE  RecordOK(Counted(d, r, w)) /\ Counted(d, r, w).ip = d.ip
  <1> DEFINE c == Counted(d, r, w)
  <1>1. /\ d \in Device /\ d.used \in SUBSET Nodes /\ d.computed_trust \in 0..255
        /\ d.self_trust \in {0, 14} /\ d.used_neighbors_cnt \in Nat
        /\ MAX_NEIGHBORS \in 0..24
    BY SizesAssumption DEF RecordOK, Device
  <1>2. /\ c = [d EXCEPT !.computed_trust = (d.computed_trust + w) % 256,
                         !.used = d.used \cup {r.ip},
                         !.used_neighbors_cnt = d.used_neighbors_cnt + 1]
    BY DEF Counted
  <1>3. /\ c.ip = d.ip /\ c.last_hb_id = d.last_hb_id /\ c.self_trust = d.self_trust
        /\ c.timeout = d.timeout
        /\ c.computed_trust = (d.computed_trust + w) % 256
        /\ c.used = d.used \cup {r.ip}
        /\ c.used_neighbors_cnt = d.used_neighbors_cnt + 1
    BY <1>1, <1>2 DEF Device
  <1>4. c.used \in SUBSET Nodes
    BY <1>1, <1>3
  <1>5. Cardinality(c.used) = d.used_neighbors_cnt + 1
    <2>1. IsFiniteSet(d.used)
      BY <1>1, UsedFits
    <2>2. Cardinality(d.used \cup {r.ip}) = Cardinality(d.used) + 1
      BY <2>1, FS_AddElement
    <2>3. QED BY <1>3, <2>2 DEF RecordOK
  <1>6. c.used_neighbors_cnt \in 0..MAX_NEIGHBORS /\ c.used_neighbors_cnt <= 24
    BY <1>1, <1>3, <1>4, <1>5, UsedFits
  <1>7. /\ d.computed_trust >= d.self_trust + d.used_neighbors_cnt
        /\ d.computed_trust <= d.self_trust + d.used_neighbors_cnt * 10
    BY <1>1 DEF RecordOK
  <1>8. d.computed_trust + w \in 0..255 /\ c.computed_trust = d.computed_trust + w
    <2>1. d.computed_trust + w \in 0..255
      <3> DEFINE n == d.used_neighbors_cnt
                 t == d.computed_trust
                 s == d.self_trust
      <3>1. t \in 0..255 /\ n \in Nat /\ s \in {0, 14} /\ t <= s + n * 10
        BY <1>1, <1>7
      <3>2. n + 1 <= 24
        BY <1>3, <1>6
      <3> HIDE DEF n, t, s
      <3>3. t + w \in 0..255
        BY <3>1, <3>2
      <3>4. QED BY <3>3 DEF t
    <2>2. QED BY <1>3, <2>1
  <1>9. c \in Device
    <2>1. /\ (d.computed_trust + w) % 256 \in 0..255
          /\ d.used \cup {r.ip} \in SUBSET Nodes
          /\ d.used_neighbors_cnt + 1 \in 0..MAX_NEIGHBORS
      <3>1. (d.computed_trust + w) % 256 \in 0..255
        BY <1>3, <1>8
      <3>2. d.used \cup {r.ip} \in SUBSET Nodes
        BY <1>3, <1>4
      <3>3. d.used_neighbors_cnt + 1 \in 0..MAX_NEIGHBORS
        BY <1>3, <1>6
      <3>4. QED BY <3>1, <3>2, <3>3
    <2> HIDE DEF c
    <2>2. [d EXCEPT !.computed_trust = (d.computed_trust + w) % 256,
                    !.used = d.used \cup {r.ip},
                    !.used_neighbors_cnt = d.used_neighbors_cnt + 1] \in Device
      BY <1>1, <2>1, UpdatedType
    <2>3. QED BY <1>2, <2>2, Zenon
  <1>10. /\ c.computed_trust >= c.self_trust + c.used_neighbors_cnt
         /\ c.computed_trust <= c.self_trust + c.used_neighbors_cnt * 10
    <2>1. PICK n \in Nat, t \in 0..255 : n = d.used_neighbors_cnt /\ t = d.computed_trust
      BY <1>1
    <2>2. c.used_neighbors_cnt = n + 1 /\ c.computed_trust = t + w /\ (n + 1) * 10 = n * 10 + 10
      BY <1>3, <1>8, <2>1
    <2>3. t >= d.self_trust + n /\ t <= d.self_trust + n * 10
      BY <1>7, <2>1
    <2>4. t + w >= d.self_trust + (n + 1) /\ t + w <= d.self_trust + (n * 10 + 10)
      BY <1>1, <2>3
    <2>5. QED BY <1>3, <2>2, <2>4
  <1>11. QED
    BY <1>1, <1>3, <1>5, <1>9, <1>10 DEF RecordOK

(* A period that passes keeps them, unless it is the device's last.        *)
LEMMA AgedOK ==
  ASSUME NEW d, RecordOK(d), d.timeout # 1
  PROVE  LET e == [d EXCEPT !.timeout = (@ - 1) % 256] IN RecordOK(e) /\ e.ip = d.ip
  <1> DEFINE e == [d EXCEPT !.timeout = (d.timeout - 1) % 256]
  <1>1. d \in Device /\ d.timeout \in 2..DEVICE_TIMEOUT /\ DEVICE_TIMEOUT \in 1..255
    BY SizesAssumption DEF RecordOK
  <1>2. (d.timeout - 1) % 256 = d.timeout - 1
    BY <1>1
  <1>3. /\ e.ip = d.ip /\ e.last_hb_id = d.last_hb_id /\ e.self_trust = d.self_trust
        /\ e.timeout = d.timeout - 1 /\ e.computed_trust = d.computed_trust
        /\ e.used = d.used /\ e.used_neighbors_cnt = d.used_neighbors_cnt
    BY <1>1, <1>2 DEF Device
  <1>4. d.timeout - 1 \in 1..DEVICE_TIMEOUT /\ d.timeout - 1 \in 0..255
    BY <1>1
  <1>5. e \in Device
    BY <1>1, <1>2, <1>4 DEF Device
  <1>6. RecordOK(e)
    BY <1>3, <1>4, <1>5 DEF RecordOK
  <1>7. QED BY <1>3, <1>6

(* A record that is a period older is still one.                           *)
LEMMA AgedType ==
  ASSUME NEW t \in 0..255
  PROVE  \A d \in Device \cup Memory : [d EXCEPT !.timeout = t] \in Device \cup Memory
  <1>1. ASSUME NEW d \in Device
        PROVE  [d EXCEPT !.timeout = t] \in Device
    BY DEF Device
  <1>2. ASSUME NEW d \in Memory
        PROVE  [d EXCEPT !.timeout = t] \in Memory
    BY DEF Memory
  <1>3. QED BY <1>1, <1>2

(* A nonempty set of slots has a least one, so the lookups return a slot   *)
(* that is what was looked for.                                            *)
LEMMA LeastSlot ==
  ASSUME NEW T \in SUBSET Slots, T # {}
  PROVE  \E i \in T : \A j \in T : i <= j
  <1> DEFINE Less == {ss \in Nat \X Nat : ss[1] < ss[2]}
  <1>1. IsWellFoundedOn(Less, Nat)
    BY NatLessThanWellFounded DEF OpToRel
  <1>2. T \subseteq Nat
    BY SizesAssumption DEF Slots
  <1>3. PICK i \in T : \A j \in T : ~ (<<j, i>> \in Less)
    BY <1>1, <1>2, WFMin
  <1>4. ASSUME NEW j \in T
        PROVE  i <= j
    <2>1. i \in Nat /\ j \in Nat
      BY <1>2
    <2>2. ~ (j < i)
      BY <1>3, <2>1
    <2>3. QED BY <2>1, <2>2
  <1>5. QED BY <1>4

LEMMA GetFinds ==
  ASSUME NEW ip, Tracked(ip) # {}
  PROVE  device_table_get(ip) \in Tracked(ip)
  <1>1. Tracked(ip) \in SUBSET Slots
    BY DEF Tracked
  <1>2. QED BY <1>1, LeastSlot DEF device_table_get

(* Replacing the record of a device by another one about it keeps the      *)
(* invariant.                                                              *)
LEMMA ReplaceOK ==
  ASSUME TableInv, NEW i \in Known, NEW d,
         RecordOK(d), d.ip = device_table[i].ip,
         device_table' = [device_table EXCEPT ![i] = d]
  PROVE  TableInv'
  <1>1. d \in Device /\ i \in Slots
    BY DEF RecordOK, Known
  <1>2. device_table' \in [Slots -> Device \cup Memory \cup {NULL}]
    BY <1>1 DEF TableInv
  <1>3. \A j \in Slots : device_table'[j] = IF j = i THEN d ELSE device_table[j]
    BY DEF TableInv
  <1>4. \A j \in Known' : j \in Known /\ device_table'[j].ip = device_table[j].ip
    BY <1>3 DEF Known
  <1>5. \A j \in Known' : RecordOK(device_table'[j])
    BY <1>3, <1>4 DEF TableInv, Known
  <1>6. OneRecordEach'
    BY <1>4 DEF TableInv, OneRecordEach
  <1>7. QED BY <1>2, <1>5, <1>6 DEF TableInv

(* What device_table_put() changes.                                        *)
LEMMA PutEffect ==
  ASSUME TableInv, NEW d, device_table' = device_table_put(d)
  PROVE  \/ device_table' = device_table
         \/ \E i \in Free : /\ i \in Slots
                            /\ device_table' = [device_table EXCEPT ![i] = d]
                            /\ \A j \in Slots : device_table'[j] =
                                                  IF j = i THEN d ELSE device_table[j]
  <1>1. CASE Free = {}
    BY <1>1 DEF device_table_put
  <1>2. CASE Free # {}
    <2>1. Free \in SUBSET Slots
      BY DEF Free
    <2>2. PICK i \in Free : device_table' = [device_table EXCEPT ![i] = d]
      BY <1>2, <2>1, LeastSlot DEF device_table_put
    <2>3. i \in Slots
      BY <2>1
    <2>4. \A j \in Slots : device_table'[j] = IF j = i THEN d ELSE device_table[j]
      BY <2>2, <2>3 DEF TableInv
    <2>5. QED BY <2>2, <2>3, <2>4
  <1>3. QED BY <1>1, <1>2

(* So does putting the record of a device that is not in the table.        *)
LEMMA PutOK ==
  ASSUME TableInv, NEW d, RecordOK(d), Tracked(d.ip) = {},
         device_table' = device_table_put(d)
  PROVE  TableInv'
  <1>1. CASE device_table' = device_table
    BY <1>1 DEF TableInv, OneRecordEach, Known
  <1>2. ASSUME NEW i \in Slots, device_table' = [device_table EXCEPT ![i] = d],
               \A j \in Slots : device_table'[j] = IF j = i THEN d ELSE device_table[j]
        PROVE  TableInv'
    <2>1. d \in Device
      BY DEF RecordOK
    <2>2. device_table' \in [Slots -> Device \cup Memory \cup {NULL}]
      BY <1>2, <2>1 DEF TableInv
    <2>3. \A j \in Known' : j = i \/ (j \in Known /\ device_table'[j] = device_table[j])
      BY <1>2 DEF Known
    <2>4. \A j \in Known' : RecordOK(device_table'[j])
      BY <1>2, <2>3 DEF TableInv
    <2>5. \A j \in Known : device_table[j].ip # d.ip
      BY DEF Known, Tracked
    <2>6. OneRecordEach'
      BY <1>2, <2>3, <2>5 DEF TableInv, OneRecordEach
    <2>7. QED BY <2>2, <2>4, <2>6 DEF TableInv
  <1>3. QED BY <1>1, <1>2, PutEffect

(* And so does putting a record that is of nobody, which no other record   *)
(* notices.                                                                *)
LEMMA PutNobodyOK ==
  ASSUME TableInv, NEW r \in HeapRecords, device_table' = device_table_put(r)
  PROVE  /\ TableInv'
         /\ \A i \in Known' : i \in Known /\ device_table'[i] = device_table[i]
  <1>1. r \in Memory /\ r.ip \notin Nodes
    BY HeapAssumption DEF Memory
  <1>2. CASE device_table' = device_table
    BY <1>2 DEF TableInv, OneRecordEach, Known
  <1>3. ASSUME NEW i \in Slots, device_table' = [device_table EXCEPT ![i] = r],
               \A j \in Slots : device_table'[j] = IF j = i THEN r ELSE device_table[j]
        PROVE  /\ TableInv'
               /\ \A j \in Known' : j \in Known /\ device_table'[j] = device_table[j]
    <2>1. device_table' \in [Slots -> Device \cup Memory \cup {NULL}]
      BY <1>1, <1>3 DEF TableInv
    <2>2. \A j \in Known' : j \in Known /\ device_table'[j] = device_table[j]
      BY <1>1, <1>3 DEF Known
    <2>3. QED BY <2>1, <2>2 DEF TableInv, OneRecordEach
  <1>4. QED BY <1>2, <1>3, PutEffect

(* The steps.                                                              *)
LEMMA HeartbeatOK ==
  ASSUME TableInv, NEW ip \in Nodes, NEW packet_id \in PacketIds, NEW near \in BOOLEAN,
         Heartbeat(ip, packet_id, near)
  PROVE  TableInv'
  <1> DEFINE i == device_table_get(ip)
  <1>1. i \in Known /\ device_table[i].ip = ip
    BY GetFinds DEF Heartbeat, Tracked, Known
  <1>2. CASE UNCHANGED device_table
    BY <1>2 DEF TableInv, OneRecordEach, Known
  <1>3. CASE device_table' = [device_table EXCEPT ![i] = Refreshed(ip, packet_id, near)]
    BY <1>1, <1>3, RefreshedOK, ReplaceOK
  <1>4. QED BY <1>2, <1>3 DEF Heartbeat

LEMMA FirstHeartbeatOK ==
  ASSUME TableInv,
         NEW ip \in Nodes, NEW packet_id \in PacketIds, NEW near \in BOOLEAN,
         FirstHeartbeat(ip, packet_id, near)
  PROVE  TableInv'
  <1>1. CASE device_table' = device_table_put(Refreshed(ip, packet_id, near))
    BY <1>1, RefreshedOK, PutOK DEF FirstHeartbeat
  <1>2. CASE \E r \in HeapRecords : device_table' = device_table_put(r)
    BY <1>2, PutNobodyOK
  <1>3. QED BY <1>1, <1>2 DEF FirstHeartbeat

LEMMA OpinionOK ==
  ASSUME TableInv, NEW from \in Nodes, NEW ip \in Nodes, NEW hb_packet_id \in PacketIds,
         Opinion(from, ip, hb_packet_id)
  PROVE  TableInv'
  <1> DEFINE i == device_table_get(ip)
             r == device_table[device_table_get(from)]
             d == device_table[i]
             w == WeightedOpinion(r)
  <1>1. i \in Known /\ device_table_get(from) \in Known /\ r.ip = from
    BY GetFinds DEF Opinion, Tracked, Known
  <1>2. RecordOK(d) /\ RecordOK(r)
    BY <1>1 DEF TableInv
  <1>3. /\ r.ip \notin d.used
        /\ device_table' = [device_table EXCEPT ![i] = Counted(d, r, w)]
    BY DEF Opinion
  <1>4. w \in 1..10
    BY <1>2, WeightedOpinionType
  <1>5. r.ip \in Nodes \ d.used
    BY <1>1, <1>3
  <1> HIDE DEF i, r, d, w
  <1>6. RecordOK(Counted(d, r, w)) /\ Counted(d, r, w).ip = d.ip
    BY <1>2, <1>4, <1>5, CountedOK
  <1>7. d = device_table[i]
    BY DEF d
  <1>8. QED BY <1>1, <1>3, <1>6, <1>7, ReplaceOK

LEMMA UpdateOK ==
  ASSUME TableInv, device_table_update
  PROVE  /\ TableInv'
         /\ \A i \in Known' : /\ i \in Known
                              /\ device_table'[i] =
                                   [device_table[i] EXCEPT !.timeout = (@ - 1) % 256]
  <1>1. ASSUME NEW i \in Slots
        PROVE  device_table'[i] \in Device \cup Memory \cup {NULL}
    <2>1. CASE device_table[i] = NULL \/ device_table[i].timeout = 1
      BY <2>1 DEF device_table_update
    <2>2. CASE device_table[i] # NULL /\ device_table[i].timeout # 1
      <3>1. device_table'[i] = [device_table[i] EXCEPT !.timeout = (@ - 1) % 256]
        BY <2>2 DEF device_table_update
      <3>2. device_table[i] \in Device \cup Memory
        BY <2>2 DEF TableInv
      <3>3. device_table[i].timeout \in 0..255
        BY <3>2 DEF Device, Memory
      <3>4. (device_table[i].timeout - 1) % 256 \in 0..255
        BY <3>3
      <3>5. device_table'[i] \in Device \cup Memory
        BY <3>1, <3>2, <3>4, AgedType
      <3>6. QED BY <3>5
    <2>3. QED BY <2>1, <2>2
  <1>2. device_table' \in [Slots -> Device \cup Memory \cup {NULL}]
    <2>1. device_table' = [i \in Slots |-> device_table'[i]]
      BY DEF device_table_update
    <2>2. QED BY <1>1, <2>1
  <1>3. ASSUME NEW i \in Known'
        PROVE  /\ i \in Known /\ device_table[i].timeout # 1
               /\ device_table'[i] = [device_table[i] EXCEPT !.timeout = (@ - 1) % 256]
               /\ device_table'[i].ip = device_table[i].ip
    <2>1. /\ i \in Slots /\ device_table[i] # NULL /\ device_table[i].timeout # 1
          /\ device_table'[i] = [device_table[i] EXCEPT !.timeout = (@ - 1) % 256]
          /\ device_table'[i].ip \in Nodes
      BY <1>3 DEF device_table_update, Known
    <2>2. device_table[i] \in Device \cup Memory
      BY <2>1 DEF TableInv
    <2>3. device_table'[i].ip = device_table[i].ip
      BY <2>1, <2>2 DEF Device, Memory
    <2>4. QED BY <2>1, <2>3 DEF Known
  <1>4. ASSUME NEW i \in Known'
        PROVE  RecordOK(device_table'[i])
    <2>1. RecordOK(device_table[i])
      BY <1>3 DEF TableInv
    <2>2. /\ device_table[i].timeout # 1
          /\ device_table'[i] = [device_table[i] EXCEPT !.timeout = (@ - 1) % 256]
      BY <1>3
    <2>3. QED BY <2>1, <2>2, AgedOK
  <1>5. \A i \in Known' : i \in Known /\ device_table'[i].ip = device_table[i].ip
    BY <1>3
  <1>6. OneRecordEach'
    BY <1>5 DEF TableInv, OneRecordEach
  <1>7. QED BY <1>2, <1>3, <1>4, <1>6 DEF TableInv

(* What a heartbeat does to the records of devices: nothing, when it goes  *)
(* unanswered; otherwise a record of its sender, if there is one then, is  *)
(* the one that it left behind, and the others are what they were.         *)
LEMMA HearEffect ==
  ASSUME TableInv,
         NEW ip \in Nodes, NEW packet_id \in PacketIds, NEW near \in BOOLEAN,
         Heartbeat(ip, packet_id, near) \/ FirstHeartbeat(ip, packet_id, near)
  PROVE  \/ /\ sent' = NULL
            /\ \A i \in Known' : i \in Known /\ device_table'[i] = device_table[i]
         \/ /\ sent' \in Trust /\ sent' # NULL
            /\ \A i \in Known' :
                 device_table'[i] = IF device_table'[i].ip = ip
                                    THEN Refreshed(ip, packet_id, near) ELSE device_table[i]
  <1> DEFINE d == Refreshed(ip, packet_id, near)
  <1>1. d.ip = ip
    BY DEF Refreshed
  <1>2. send_device_trust(ip, packet_id, near) => sent' \in Trust /\ sent' # NULL
    BY NullAssumption DEF send_device_trust, Trust
  <1> HIDE DEF d
  <1>3. CASE Heartbeat(ip, packet_id, near)
    <2> DEFINE i == device_table_get(ip)
    <2>1. i \in Known /\ device_table[i].ip = ip
      BY <1>3, GetFinds DEF Heartbeat, Tracked, Known
    <2>2. CASE device_table[i].last_hb_id = packet_id
      BY <1>3, <2>2 DEF Heartbeat, Known
    <2>3. CASE device_table[i].last_hb_id # packet_id
      <3>1. /\ device_table' = [device_table EXCEPT ![i] = d]
            /\ send_device_trust(ip, packet_id, near)
        BY <1>3, <2>3 DEF Heartbeat, d
      <3>2. \A j \in Slots : device_table'[j] = IF j = i THEN d ELSE device_table[j]
        BY <3>1 DEF TableInv
      <3>3. \A j \in Known : j # i => device_table[j].ip # ip
        BY <2>1 DEF TableInv, OneRecordEach
      <3>4. \A j \in Known' :
              device_table'[j] = IF device_table'[j].ip = ip THEN d ELSE device_table[j]
        BY <1>1, <3>2, <3>3 DEF Known
      <3>5. QED BY <1>2, <3>1, <3>4 DEF d
    <2>4. QED BY <2>2, <2>3
  <1>4. CASE FirstHeartbeat(ip, packet_id, near)
    <2>1. CASE sent' = NULL /\ \E r \in HeapRecords : device_table' = device_table_put(r)
      BY <2>1, PutNobodyOK
    <2>2. CASE /\ device_table' = device_table_put(d)
               /\ send_device_trust(ip, packet_id, near)
      <3>1. \A i \in Slots : device_table[i] # NULL => device_table[i].ip # ip
        BY <1>4 DEF FirstHeartbeat, Tracked
      <3>2. \A j \in Slots : device_table'[j] = device_table[j] \/ device_table'[j] = d
        BY <2>2, PutEffect
      <3>3. \A j \in Known' :
              device_table'[j] = IF device_table'[j].ip = ip THEN d ELSE device_table[j]
        BY <1>1, <3>1, <3>2 DEF Known
      <3>4. QED BY <1>2, <2>2, <3>3 DEF d
    <2>3. QED BY <1>4, <2>1, <2>2 DEF FirstHeartbeat, d
  <1>5. QED BY <1>3, <1>4

(* And what an opinion does: one more neighbour is counted in one record.  *)
LEMMA OpinionEffect ==
  ASSUME TableInv, NEW from \in Nodes, NEW ip \in Nodes, NEW hb_packet_id,
         Opinion(from, ip, hb_packet_id)
  PROVE  \E i \in Known :
           /\ device_table[i].ip = ip
           /\ device_table[i].last_hb_id = hb_packet_id
           /\ from \notin device_table[i].used
           /\ \E w \in 1..10 : \E r :
                /\ r.ip = from
                /\ device_table' = [device_table EXCEPT ![i] = Counted(device_table[i], r, w)]
  <1> DEFINE i == device_table_get(ip)
             r == device_table[device_table_get(from)]
  <1>1. /\ i \in Known /\ device_table[i].ip = ip
        /\ device_table_get(from) \in Known /\ r.ip = from
    BY GetFinds DEF Opinion, Tracked, Known
  <1>2. WeightedOpinion(r) \in 1..10
    BY <1>1, WeightedOpinionType DEF TableInv
  <1>3. /\ device_table[i].last_hb_id = hb_packet_id
        /\ from \notin device_table[i].used
        /\ device_table' = [device_table EXCEPT ![i] =
             Counted(device_table[i], r, WeightedOpinion(r))]
    BY <1>1 DEF Opinion
  <1> HIDE DEF i, r
  <1>4. QED BY <1>1, <1>2, <1>3

THEOREM TableInductive == Spec => []TableInv
  <1>1. Init => TableInv
    BY DEF Init, TableInv, OneRecordEach, Known
  <1>2. TableInv /\ [Next]_vars => TableInv'
    <2> SUFFICES ASSUME TableInv, [Next]_vars PROVE TableInv'
      OBVIOUS
    <2>1. CASE UNCHANGED vars
      BY <2>1 DEF vars, TableInv, OneRecordEach, Known
    <2>2. CASE Next
      BY <2>2, HeartbeatOK, FirstHeartbeatOK, OpinionOK, UpdateOK DEF Next
    <2>3. QED BY <2>1, <2>2
  <1>3. QED BY <1>1, <1>2, PTL DEF Spec

(* No device ever has two records, so its trust is never split.            *)
THEOREM OneRecordEachCorrect == Spec => []OneRecordEach
  <1>1. TableInv => OneRecordEach
    BY DEF TableInv
  <1>2. QED BY TableInductive, <1>1, PTL

(* used_neighbors holds each neighbour once and never overflows.           *)
THEOREM OpinionsCountOnceCorrect == Spec => []OpinionsCountOnce
  <1>1. TableInv => OpinionsCountOnce
    BY DEF TableInv, OpinionsCountOnce, Known, RecordOK
  <1>2. QED BY TableInductive, <1>1, PTL

(* The byte that holds a device's trust never wraps.                       *)
THEOREM TrustNeverWrapsCorrect == Spec => []TrustNeverWraps
  <1>1. TableInv => TrustNeverWraps
    BY DEF TableInv, TrustNeverWraps, Known, RecordOK
  <1>2. QED BY TableInductive, <1>1, PTL

(* Nor does the byte that holds its timeout.                               *)
THEOREM TimeoutNeverWrapsCorrect == Spec => []TimeoutNeverWraps
  <1>1. TableInv => TimeoutNeverWraps
    BY DEF TableInv, TimeoutNeverWraps, Known, RecordOK
  <1>2. QED BY TableInductive, <1>1, PTL

(* The variables keep their types.                                         *)
THEOREM TableTypeCorrect == Spec => []TypeOK
  <1> DEFINE SentOK == sent \in Trust \cup {NULL}
  <1>1. Init => SentOK
    BY DEF Init
  <1>2. TableInv /\ SentOK /\ [Next]_vars => SentOK'
    <2> SUFFICES ASSUME TableInv, SentOK, [Next]_vars PROVE SentOK'
      OBVIOUS
    <2>1. CASE UNCHANGED vars
      BY <2>1 DEF vars
    <2>2. ASSUME NEW ip \in Nodes, NEW packet_id \in PacketIds, NEW near \in BOOLEAN,
                 Heartbeat(ip, packet_id, near) \/ FirstHeartbeat(ip, packet_id, near)
          PROVE  SentOK'
      BY <2>2, HearEffect
    <2>3. CASE \E from, ip \in Nodes, hb_packet_id \in PacketIds :
                 Opinion(from, ip, hb_packet_id)
      BY <2>3 DEF Opinion
    <2>4. CASE device_table_update
      BY <2>4 DEF device_table_update
    <2>5. QED BY <2>1, <2>2, <2>3, <2>4 DEF Next
  <1>3. TableInv /\ SentOK => TypeOK
    BY DEF TableInv, TypeOK
  <1>4. QED BY <1>1, <1>2, <1>3, TableInductive, PTL DEF Spec

(* What was counted about a heartbeat stays counted.                       *)
LEMMA CountedStaysStep ==
  ASSUME TableInv, Next, NEW i \in Known \cap Known',
         device_table[i].ip = device_table'[i].ip,
         device_table[i].last_hb_id = device_table'[i].last_hb_id
  PROVE  /\ device_table[i].used \subseteq device_table'[i].used
         /\ device_table[i].computed_trust <= device_table'[i].computed_trust
  <1> DEFINE d == device_table[i]
             e == device_table'[i]
  <1>1. i \in Slots /\ d # NULL /\ e # NULL /\ RecordOK(d)
    BY DEF Known, TableInv
  <1>2. d.computed_trust \in 0..255
    BY <1>1 DEF RecordOK, Device
  <1>3. CASE d = e
    BY <1>2, <1>3
  <1>4. ASSUME NEW ip \in Nodes, NEW packet_id \in PacketIds, NEW near \in BOOLEAN,
               Heartbeat(ip, packet_id, near), d # e
        PROVE  FALSE
    <2>1. /\ device_table_get(ip) = i
          /\ d.last_hb_id # packet_id /\ e = Refreshed(ip, packet_id, near)
      BY <1>1, <1>4, GetFinds DEF Heartbeat, Tracked, TableInv
    <2>2. e.last_hb_id = packet_id
      BY <2>1 DEF Refreshed
    <2>3. QED BY <2>1, <2>2
  <1>5. ASSUME NEW ip \in Nodes, NEW packet_id \in PacketIds, NEW near \in BOOLEAN,
               FirstHeartbeat(ip, packet_id, near)
        PROVE  d = e
    <2>1. PICK c : device_table' = device_table_put(c)
      BY <1>5 DEF FirstHeartbeat
    <2>2. i \notin Free
      BY <1>1 DEF Free
    <2>3. QED BY <1>1, <2>1, <2>2, PutEffect
  <1>6. ASSUME NEW from \in Nodes, NEW ip \in Nodes, NEW hb_packet_id \in PacketIds,
               Opinion(from, ip, hb_packet_id), d # e
        PROVE  d.used \subseteq e.used /\ d.computed_trust <= e.computed_trust
    <2>0. PICK w \in 1..10 : \E r :
            r.ip = from /\ from \notin d.used /\ e = Counted(d, r, w)
      <3>1. PICK j \in Known, v \in 1..10 : \E r :
              /\ r.ip = from /\ from \notin device_table[j].used
              /\ device_table' = [device_table EXCEPT ![j] = Counted(device_table[j], r, v)]
        BY <1>6, OpinionEffect
      <3>2. j = i
        BY <1>1, <1>6, <3>1 DEF TableInv, Known
      <3>3. QED BY <1>1, <3>1, <3>2 DEF TableInv
    <2>1. PICK r : r.ip = from /\ from \notin d.used /\ e = Counted(d, r, w)
      BY <2>0
    <2> HIDE DEF d, e
    <2>2. e.computed_trust = (d.computed_trust + w) % 256 /\ e.used = d.used \cup {r.ip}
      BY <1>1, <2>1 DEF Counted, RecordOK, Device
    <2>3. RecordOK(e)
      BY <1>1, <1>6, <2>1, CountedOK
    <2>4. /\ d.computed_trust + w <= 255
          /\ (d.computed_trust + w) % 256 = d.computed_trust + w
      <3>1. /\ d.used_neighbors_cnt + 1 = e.used_neighbors_cnt
            /\ d.used_neighbors_cnt \in Nat /\ d.self_trust \in {0, 14}
        BY <1>1, <2>1 DEF Counted, RecordOK, Device
      <3>2. e.used_neighbors_cnt <= 24
        BY <2>3, SizesAssumption DEF RecordOK, Device
      <3>3. d.computed_trust <= d.self_trust + d.used_neighbors_cnt * 10
        BY <1>1 DEF RecordOK
      <3>4. d.computed_trust + w <= 255
        BY <1>2, <3>1, <3>2, <3>3
      <3>5. QED BY <1>2, <3>4
    <2>5. QED BY <1>2, <2>2, <2>4
  <1>7. CASE device_table_update
    <2>1. e = [d EXCEPT !.timeout = (@ - 1) % 256]
      BY <1>1, <1>7 DEF device_table_update
    <2>2. e.used = d.used /\ e.computed_trust = d.computed_trust
      BY <1>1, <2>1 DEF RecordOK, Device
    <2>3. QED BY <1>2, <2>2
  <1>8. QED BY <1>3, <1>4, <1>5, <1>6, <1>7 DEF Next

THEOREM CountedStaysCorrect == Spec => CountedStays
  <1> DEFINE Stays == \A i \in Known \cap Known' :
                        LET d == device_table[i]  e == device_table'[i] IN
                        d.ip = e.ip /\ d.last_hb_id = e.last_hb_id
                          => d.used \subseteq e.used /\ d.computed_trust <= e.computed_trust
  <1>1. TableInv /\ [Next]_vars => [Stays]_vars
    BY CountedStaysStep
  <1> HIDE DEF Stays
  <1>2. Spec => [][Stays]_vars
    BY <1>1, TableInductive, PTL DEF Spec
  <1>3. QED BY <1>2 DEF CountedStays, Stays

-----------------------------------------------------------------------------
(* The table in the network of devices (Vanet).                            *)

(* The packet id that a device now at p sent, if anything, a periods ago.  *)
Back(p, a) == IF p >= a THEN p - a ELSE p - a + IDS

(* The record of a device that was heard and not restarted since is about  *)
(* the heartbeat it sent "missed" periods ago, and the neighbours counted  *)
(* in it have vouched for that one.                                        *)
AboutHeard(d) ==
  /\ missed[d.ip] < IDS => d.last_hb_id = Back(pck_count[d.ip], missed[d.ip])
  /\ missed[d.ip] \in Ages => d.used \subseteq vouched[d.ip][missed[d.ip]]

AirTypeOK ==
  /\ pck_count \in [Nodes -> PacketIds]
  /\ aired   \in [Nodes -> [Ages -> PacketIds \cup {NotSent}]]
  /\ vouched \in [Nodes -> [Ages -> SUBSET Nodes]]
  /\ missed  \in [Nodes -> 0..IDS]

(* What is on the way is numbered in the order of the periods.             *)
AiredInOrder ==
  \A n \in Nodes, a \in Ages : aired[n][a] \in {NotSent, Back(pck_count[n], a)}

NetInv ==
  /\ TableInv
  /\ sent \in Trust \cup {NULL}
  /\ AirTypeOK
  /\ AiredInOrder
  /\ \A i \in Known : AboutHeard(device_table[i])

(* The ages of what is on the way; packet ids count modulo IDS.            *)
LEMMA AgesType == Ages \subseteq 0..(IDS - 1) /\ 0 \in Ages /\ IDS \in Nat \ {0}
  BY IdsAssumption DEF Ages

LEMMA AgesBefore ==
  /\ \A a \in Ages : a # 0 => a - 1 \in Ages /\ (a - 1) + 1 = a /\ a - 1 \in 0..(IDS - 2)
  /\ \A a \in Nat : a + 1 \in Ages => a \in Ages
  BY IdsAssumption DEF Ages

LEMMA NextId ==
  ASSUME NEW p \in PacketIds
  PROVE  /\ (p + 1) % IDS \in PacketIds
         /\ Back((p + 1) % IDS, 0) = (p + 1) % IDS
         /\ \A a \in 0..(IDS - 2) : Back((p + 1) % IDS, a + 1) = Back(p, a)
  <1>1. p \in Nat /\ p < IDS /\ IDS \in Nat \ {0}
    BY IdsAssumption
  <1>2. CASE p = IDS - 1
    <2>1. (p + 1) % IDS = 0
      BY <1>1, <1>2
    <2>2. QED BY <1>1, <1>2, <2>1, IdsAssumption DEF Back
  <1>3. CASE p < IDS - 1
    <2>1. (p + 1) % IDS = p + 1
      BY <1>1, <1>3
    <2>2. QED BY <1>1, <1>3, <2>1, IdsAssumption DEF Back
  <1>4. QED BY <1>1, <1>2, <1>3

(* Within the ids, two ages have two ids.                                  *)
LEMMA BackDiffers ==
  ASSUME NEW p \in PacketIds, NEW a \in 0..(IDS - 1), NEW b \in 0..(IDS - 1),
         Back(p, a) = Back(p, b)
  PROVE  a = b
  BY IdsAssumption DEF Back

LEMMA BackType ==
  ASSUME NEW p \in PacketIds, NEW a \in 0..(IDS - 1)
  PROVE  Back(p, a) \in PacketIds /\ Back(p, a) # NotSent
  BY IdsAssumption DEF Back, NotSent

(* The types of a device's record.                                         *)
LEMMA RecordType ==
  ASSUME TableInv, NEW i \in Known
  PROVE  /\ device_table[i].ip \in Nodes /\ device_table[i].last_hb_id \in PacketIds
         /\ device_table[i].used \in SUBSET Nodes
  BY DEF TableInv, RecordOK, Device

LEMMA InitNetInv == NetInit => NetInv
  <1> SUFFICES ASSUME NetInit PROVE NetInv
    OBVIOUS
  <1>1. TableInv /\ sent \in Trust \cup {NULL}
    BY DEF NetInit, Init, TableInv, OneRecordEach, Known
  <1>2. AirTypeOK
    BY AgesType, IdsAssumption DEF NetInit, AirTypeOK
  <1>3. AiredInOrder
    BY DEF NetInit, AiredInOrder
  <1>4. \A i \in Slots : device_table[i] = NULL
    BY DEF NetInit, Init
  <1>5. QED BY <1>1, <1>2, <1>3, <1>4 DEF NetInv, Known

-----------------------------------------------------------------------------
(* The neighbours.                                                         *)
LEMMA PeriodPreserves ==
  ASSUME NetInv, NEW n \in Nodes, NEW sends \in BOOLEAN, Period(n, sends)
  PROVE  NetInv'
  <1> DEFINE id     == (pck_count[n] + 1) % IDS
             newest == IF sends THEN id ELSE NotSent
  <1>1. id \in PacketIds /\ newest \in PacketIds \cup {NotSent}
    BY NextId DEF NetInv, AirTypeOK
  <1>2. /\ pck_count' = [pck_count EXCEPT ![n] = id]
        /\ aired'     = [aired     EXCEPT ![n] = Aged(aired[n], newest)]
        /\ vouched'   = [vouched   EXCEPT ![n] = Aged(vouched[n], {})]
        /\ missed'    = [missed    EXCEPT ![n] = IF missed[n] = IDS THEN IDS
                                                 ELSE missed[n] + 1]
        /\ sent' = NULL /\ device_table' = device_table
    BY DEF Period
  <1> HIDE DEF newest
  <1>3. /\ Aged(aired[n], newest) \in [Ages -> PacketIds \cup {NotSent}]
        /\ Aged(aired[n], newest)[0] = newest
        /\ \A a \in Ages : a # 0 => Aged(aired[n], newest)[a] = aired[n][a - 1]
    <2>1. aired[n] \in [Ages -> PacketIds \cup {NotSent}]
      BY DEF NetInv, AirTypeOK
    <2>2. \A a \in Ages : (IF a = 0 THEN newest ELSE aired[n][a - 1])
                            \in PacketIds \cup {NotSent}
      BY <1>1, <2>1, AgesBefore
    <2>3. QED BY <2>2, AgesType DEF Aged
  <1>4. /\ Aged(vouched[n], {}) \in [Ages -> SUBSET Nodes]
        /\ \A a \in Ages : a # 0 => Aged(vouched[n], {})[a] = vouched[n][a - 1]
    <2>1. vouched[n] \in [Ages -> SUBSET Nodes]
      BY DEF NetInv, AirTypeOK
    <2>2. \A a \in Ages : (IF a = 0 THEN {} ELSE vouched[n][a - 1]) \in SUBSET Nodes
      BY <2>1, AgesBefore
    <2>3. QED BY <2>2 DEF Aged
  <1>5. TableInv' /\ (sent \in Trust \cup {NULL})'
    BY <1>2 DEF NetInv, TableInv, OneRecordEach, Known
  <1>6. AirTypeOK'
    <2>1. (IF missed[n] = IDS THEN IDS ELSE missed[n] + 1) \in 0..IDS
      <3>1. missed[n] \in 0..IDS
        BY DEF NetInv, AirTypeOK
      <3>2. QED BY <3>1, AgesType
    <2>2. QED BY <1>1, <1>2, <1>3, <1>4, <2>1 DEF NetInv, AirTypeOK
  <1>7. AiredInOrder'
    <2> SUFFICES ASSUME NEW m \in Nodes, NEW a \in Ages
                 PROVE  aired'[m][a] \in {NotSent, Back(pck_count'[m], a)}
      BY DEF AiredInOrder
    <2>1. CASE m # n
      BY <1>2, <2>1 DEF NetInv, AirTypeOK, AiredInOrder
    <2>2. CASE m = n /\ a = 0
      <3>1. newest \in {NotSent, Back(id, 0)}
        BY NextId DEF newest, NetInv, AirTypeOK
      <3>2. QED BY <1>2, <1>3, <2>2, <3>1 DEF NetInv, AirTypeOK
    <2>3. CASE m = n /\ a # 0
      <3>1. a - 1 \in Ages /\ (a - 1) + 1 = a /\ a - 1 \in 0..(IDS - 2)
        BY <2>3, AgesBefore
      <3>2. aired[n][a - 1] \in {NotSent, Back(pck_count[n], a - 1)}
        BY <3>1 DEF NetInv, AiredInOrder
      <3>3. Back(id, a) = Back(pck_count[n], a - 1)
        BY <3>1, NextId DEF NetInv, AirTypeOK
      <3>4. Aged(aired[n], newest)[a] = aired[n][a - 1]
        BY <1>3, <3>1
      <3>5. QED BY <1>2, <2>3, <3>2, <3>3, <3>4 DEF NetInv, AirTypeOK
    <2>4. QED BY <2>1, <2>2, <2>3
  <1>8. ASSUME NEW i \in Known'
        PROVE  AboutHeard(device_table[i])'
    <2> DEFINE d == device_table[i]
    <2>1. d.ip \in Nodes /\ AboutHeard(d) /\ device_table'[i] = d
      BY <1>2, <1>8, RecordType DEF NetInv, Known
    <2> HIDE DEF d
    <2>2. CASE d.ip # n
      <3>1. /\ missed'[d.ip] = missed[d.ip] /\ pck_count'[d.ip] = pck_count[d.ip]
            /\ vouched'[d.ip] = vouched[d.ip]
        BY <1>2, <2>1, <2>2 DEF NetInv, AirTypeOK
      <3>2. QED BY <2>1, <3>1 DEF AboutHeard, d
    <2>3. CASE d.ip = n /\ missed[n] = IDS
      <3>1. missed'[n] = IDS /\ IDS \notin Ages /\ ~(IDS < IDS)
        BY <1>2, <2>3, AgesType DEF NetInv, AirTypeOK
      <3>2. QED BY <2>1, <2>3, <3>1 DEF AboutHeard, d
    <2>4. CASE d.ip = n /\ missed[n] # IDS
      <3>1. /\ missed[n] \in 0..(IDS - 1) /\ missed'[n] = missed[n] + 1
            /\ pck_count'[n] = id /\ vouched'[n] = Aged(vouched[n], {})
        BY <1>2, <2>4, AgesType DEF NetInv, AirTypeOK
      <3>2. d.last_hb_id = Back(pck_count[n], missed[n])
        BY <2>1, <2>4, <3>1, AgesType DEF AboutHeard
      <3>3. missed'[n] < IDS => d.last_hb_id = Back(pck_count'[n], missed'[n])
        BY <3>1, <3>2, AgesType, NextId DEF NetInv, AirTypeOK
      <3>4. missed'[n] \in Ages => d.used \subseteq vouched'[n][missed'[n]]
        <4>1. missed'[n] \in Ages => missed[n] \in Ages
          BY <3>1, AgesBefore
        <4>2. ASSUME missed'[n] \in Ages
              PROVE  vouched'[n][missed'[n]] = vouched[n][missed[n]]
          <5>1. missed'[n] # 0 /\ missed'[n] - 1 = missed[n]
            BY <3>1, AgesType
          <5>2. QED BY <1>4, <3>1, <4>2, <5>1
        <4>3. QED BY <2>1, <2>4, <4>1, <4>2 DEF AboutHeard
      <3>5. QED BY <2>1, <2>4, <3>3, <3>4 DEF AboutHeard, d
    <2>5. QED BY <2>2, <2>3, <2>4
  <1>9. QED BY <1>5, <1>6, <1>7, <1>8 DEF NetInv

LEMMA RestartPreserves ==
  ASSUME NetInv, NEW n \in Nodes, Restart(n)
  PROVE  NetInv'
  <1>1. /\ pck_count' = [pck_count EXCEPT ![n] = 0]
        /\ aired'     = [aired     EXCEPT ![n] = [a \in Ages |-> NotSent]]
        /\ vouched'   = [vouched   EXCEPT ![n] = [a \in Ages |-> {}]]
        /\ missed'    = [missed    EXCEPT ![n] = IDS]
        /\ sent' = NULL /\ device_table' = device_table
    BY DEF Restart
  <1>2. TableInv' /\ (sent \in Trust \cup {NULL})'
    BY <1>1 DEF NetInv, TableInv, OneRecordEach, Known
  <1>3. AirTypeOK'
    <2>1. 0 \in PacketIds /\ IDS \in 0..IDS
      BY IdsAssumption
    <2>2. /\ [a \in Ages |-> NotSent] \in [Ages -> PacketIds \cup {NotSent}]
          /\ [a \in Ages |-> {}] \in [Ages -> SUBSET Nodes]
      OBVIOUS
    <2>3. QED BY <1>1, <2>1, <2>2 DEF NetInv, AirTypeOK
  <1>4. AiredInOrder'
    BY <1>1 DEF NetInv, AirTypeOK, AiredInOrder
  <1>5. ASSUME NEW i \in Known'
        PROVE  AboutHeard(device_table[i])'
    <2> DEFINE d == device_table[i]
    <2>1. d.ip \in Nodes /\ AboutHeard(d) /\ device_table'[i] = d
      BY <1>1, <1>5, RecordType DEF NetInv, Known
    <2> HIDE DEF d
    <2>2. CASE d.ip # n
      <3>1. /\ missed'[d.ip] = missed[d.ip] /\ pck_count'[d.ip] = pck_count[d.ip]
            /\ vouched'[d.ip] = vouched[d.ip]
        BY <1>1, <2>1, <2>2 DEF NetInv, AirTypeOK
      <3>2. QED BY <2>1, <3>1 DEF AboutHeard, d
    <2>3. CASE d.ip = n
      <3>1. missed'[n] = IDS /\ IDS \notin Ages /\ ~(IDS < IDS)
        BY <1>1, AgesType DEF NetInv, AirTypeOK
      <3>2. QED BY <2>1, <2>3, <3>1 DEF AboutHeard, d
    <2>4. QED BY <2>2, <2>3
  <1>6. QED BY <1>2, <1>3, <1>4, <1>5 DEF NetInv

LEMMA VouchPreserves ==
  ASSUME NetInv, NEW r \in Nodes, NEW n \in Nodes, NEW a \in Ages, Vouch(r, n, a)
  PROVE  NetInv'
  <1>1. /\ vouched' = [vouched EXCEPT ![n][a] = vouched[n][a] \cup {r}]
        /\ sent' = NULL /\ device_table' = device_table
        /\ pck_count' = pck_count /\ aired' = aired /\ missed' = missed
    BY DEF Vouch
  <1>2. TableInv' /\ (sent \in Trust \cup {NULL})' /\ AiredInOrder'
    BY <1>1 DEF NetInv, TableInv, OneRecordEach, Known, AiredInOrder
  <1>3. AirTypeOK'
    BY <1>1 DEF NetInv, AirTypeOK
  <1>4. \A m \in Nodes, b \in Ages : vouched[m][b] \subseteq vouched'[m][b]
    BY <1>1 DEF NetInv, AirTypeOK
  <1>5. ASSUME NEW i \in Known'
        PROVE  AboutHeard(device_table[i])'
    <2> DEFINE d == device_table[i]
    <2>1. d.ip \in Nodes /\ AboutHeard(d) /\ device_table'[i] = d
      BY <1>1, <1>5, RecordType DEF NetInv, Known
    <2> HIDE DEF d
    <2>2. QED BY <1>1, <1>4, <2>1 DEF AboutHeard, d
  <1>6. QED BY <1>2, <1>3, <1>5 DEF NetInv

-----------------------------------------------------------------------------
(* This device.                                                            *)
LEMMA HearHeartbeatPreserves ==
  ASSUME NetInv, NEW n \in Nodes, NEW a \in Ages, HearHeartbeat(n, a)
  PROVE  NetInv'
  <1> DEFINE id   == aired[n][a]
             near == n \in Near
  <1>1. id = Back(pck_count[n], a) /\ id \in PacketIds /\ near \in BOOLEAN
    BY AgesType, BackType DEF HearHeartbeat, NetInv, AiredInOrder, AirTypeOK
  <1>2. Heartbeat(n, id, near) \/ FirstHeartbeat(n, id, near)
    BY DEF HearHeartbeat
  <1>3. pck_count' = pck_count /\ aired' = aired /\ vouched' = vouched
    BY DEF HearHeartbeat, airVars
  <1> HIDE DEF id, near
  <1>4. TableInv'
    BY <1>1, <1>2, HeartbeatOK, FirstHeartbeatOK DEF NetInv
  <1>5. CASE /\ sent' = NULL
             /\ \A i \in Known' : i \in Known /\ device_table'[i] = device_table[i]
    <2>1. missed' = missed
      BY <1>5 DEF HearHeartbeat
    <2>2. QED BY <1>3, <1>4, <1>5, <2>1 DEF NetInv, AirTypeOK, AiredInOrder, AboutHeard
  <1>6. CASE /\ sent' \in Trust /\ sent' # NULL
             /\ \A i \in Known' :
                  device_table'[i] = IF device_table'[i].ip = n
                                     THEN Refreshed(n, id, near) ELSE device_table[i]
    <2>1. missed' = [missed EXCEPT ![n] = a] /\ a \in 0..IDS
      BY <1>6, AgesType DEF HearHeartbeat
    <2>2. AirTypeOK' /\ AiredInOrder'
      BY <1>3, <2>1 DEF NetInv, AirTypeOK, AiredInOrder
    <2>3. ASSUME NEW i \in Known'
          PROVE  AboutHeard(device_table[i])'
      <3>1. CASE device_table'[i].ip = n
        <4>1. device_table'[i] = Refreshed(n, id, near) /\ missed'[n] = a
          BY <1>6, <2>1, <2>3, <3>1 DEF NetInv, AirTypeOK
        <4>2. Refreshed(n, id, near).last_hb_id = id /\ Refreshed(n, id, near).used = {}
          BY DEF Refreshed
        <4>3. QED BY <1>1, <1>3, <3>1, <4>1, <4>2 DEF AboutHeard
      <3>2. CASE device_table'[i].ip # n
        <4>1. device_table'[i] = device_table[i] /\ AboutHeard(device_table[i])
          BY <1>6, <2>3, <3>2 DEF NetInv, Known
        <4>2. missed'[device_table[i].ip] = missed[device_table[i].ip]
          BY <2>1, <2>3, <3>2, <4>1, RecordType DEF NetInv, AirTypeOK
        <4>3. QED BY <1>3, <4>1, <4>2 DEF AboutHeard
      <3>3. QED BY <3>1, <3>2
    <2>4. QED BY <1>4, <1>6, <2>2, <2>3 DEF NetInv
  <1>7. TableInv
    BY DEF NetInv
  <1>8. QED BY <1>1, <1>2, <1>5, <1>6, <1>7, HearEffect

LEMMA HearOpinionPreserves ==
  ASSUME NetInv, NEW r \in Nodes, NEW n \in Nodes, NEW a \in Ages, HearOpinion(r, n, a)
  PROVE  NetInv'
  <1> DEFINE id == aired[n][a]
  <1>1. /\ Opinion(r, n, id) /\ r \in vouched[n][a]
        /\ pck_count' = pck_count /\ aired' = aired /\ vouched' = vouched /\ missed' = missed
        /\ id \in {NotSent, Back(pck_count[n], a)}
    BY DEF HearOpinion, airVars, NetInv, AiredInOrder
  <1>2. sent' = NULL
    BY <1>1 DEF Opinion
  <1> HIDE DEF id
  <1>3. PICK i \in Known :
          /\ device_table[i].ip = n
          /\ device_table[i].last_hb_id = id
          /\ r \notin device_table[i].used
          /\ \E w \in 1..10 : \E s :
               /\ s.ip = r
               /\ device_table' = [device_table EXCEPT ![i] = Counted(device_table[i], s, w)]
    BY <1>1, OpinionEffect DEF NetInv
  <1> DEFINE d == device_table[i]
             e == device_table'[i]
  <1>4. d.ip = n /\ d.last_hb_id = id /\ d \in Device /\ id \in PacketIds
    BY <1>3 DEF NetInv, TableInv, RecordOK, Device
  <1>5. /\ e.ip = d.ip /\ e.last_hb_id = d.last_hb_id /\ e.used = d.used \cup {r}
        /\ \A j \in Slots \ {i} : device_table'[j] = device_table[j]
    <2>0. PICK w \in 1..10 : \E s :
            s.ip = r /\ device_table' = [device_table EXCEPT ![i] = Counted(d, s, w)]
      BY <1>3
    <2>1. PICK s : s.ip = r /\ device_table' = [device_table EXCEPT ![i] = Counted(d, s, w)]
      BY <2>0
    <2>2. e = Counted(d, s, w) /\ \A j \in Slots \ {i} : device_table'[j] = device_table[j]
      BY <2>1 DEF NetInv, TableInv, Known
    <2> HIDE DEF d, e
    <2>3. QED BY <1>4, <2>1, <2>2 DEF Counted, Device
  <1>6. TableInv'
    <2>1. Opinion(r, n, id) /\ id \in PacketIds /\ TableInv
      BY <1>1, <1>4 DEF NetInv
    <2>2. QED BY <2>1, OpinionOK
  <1>7. AboutHeard(d)
    BY <1>3 DEF NetInv
  <1>8. missed[n] \in Ages => r \in vouched[n][missed[n]]
    <2>1. ASSUME missed[n] \in Ages
          PROVE  a = missed[n]
      <3>1. missed[n] < IDS /\ missed[n] \in 0..(IDS - 1) /\ a \in 0..(IDS - 1)
        <4>1. missed[n] \in 0..(IDS - 1) /\ a \in 0..(IDS - 1)
          BY <2>1, AgesType
        <4>2. QED BY <4>1, AgesType
      <3>2. id = Back(pck_count[n], missed[n])
        BY <1>4, <1>7, <3>1 DEF AboutHeard
      <3>3. id = Back(pck_count[n], a)
        BY <1>1, <1>4, IdsAssumption DEF NotSent
      <3>4. QED BY <3>1, <3>2, <3>3, BackDiffers DEF NetInv, AirTypeOK
    <2>2. QED BY <1>1, <2>1
  <1> HIDE DEF d, e
  <1>9. AboutHeard(device_table[i])'
    BY <1>1, <1>4, <1>5, <1>7, <1>8 DEF AboutHeard, e
  <1>10. ASSUME NEW j \in Known', j # i
         PROVE  AboutHeard(device_table[j])'
    <2>1. j \in Known /\ device_table'[j] = device_table[j]
      BY <1>5, <1>10 DEF Known
    <2>2. AboutHeard(device_table[j])
      BY <2>1 DEF NetInv
    <2>3. QED BY <1>1, <2>1, <2>2 DEF AboutHeard
  <1>11. AirTypeOK' /\ AiredInOrder'
    BY <1>1 DEF NetInv, AirTypeOK, AiredInOrder
  <1>12. QED BY <1>2, <1>6, <1>9, <1>10, <1>11 DEF NetInv

LEMMA UpdatePreserves ==
  ASSUME NetInv, Update
  PROVE  NetInv'
  <1>1. /\ device_table_update
        /\ pck_count' = pck_count /\ aired' = aired /\ vouched' = vouched /\ missed' = missed
    BY DEF Update, airVars
  <1>2. TableInv' /\ sent' = NULL
    BY <1>1, UpdateOK DEF NetInv, device_table_update
  <1>3. ASSUME NEW i \in Known'
        PROVE  AboutHeard(device_table[i])'
    <2>1. /\ i \in Known
          /\ device_table'[i] = [device_table[i] EXCEPT !.timeout = (@ - 1) % 256]
      BY <1>1, <1>3, UpdateOK DEF NetInv
    <2>2. /\ device_table'[i].ip = device_table[i].ip
          /\ device_table'[i].last_hb_id = device_table[i].last_hb_id
          /\ device_table'[i].used = device_table[i].used
      BY <2>1 DEF NetInv, TableInv, RecordOK, Device
    <2>3. AboutHeard(device_table[i])
      BY <2>1 DEF NetInv
    <2>4. QED BY <1>1, <2>2, <2>3 DEF AboutHeard
  <1>4. QED BY <1>1, <1>2, <1>3 DEF NetInv, AirTypeOK, AiredInOrder

-----------------------------------------------------------------------------
THEOREM NetInductive == NetSpec => []NetInv
  <1>1. NetInv /\ [NetNext]_netVars => NetInv'
    <2> SUFFICES ASSUME NetInv, [NetNext]_netVars PROVE NetInv'
      OBVIOUS
    <2>1. CASE UNCHANGED netVars
      BY <2>1 DEF netVars, vars, airVars, NetInv, TableInv, OneRecordEach, Known, AirTypeOK,
                  AiredInOrder, AboutHeard
    <2>2. CASE NetNext
      BY <2>2, PeriodPreserves, RestartPreserves, VouchPreserves, HearHeartbeatPreserves,
         HearOpinionPreserves, UpdatePreserves DEF NetNext
    <2>3. QED BY <2>1, <2>2
  <1>2. QED BY <1>1, InitNetInv, PTL DEF NetSpec

(* The variables of the network keep their types.                          *)
THEOREM NetTypeCorrect == NetSpec => []NetTypeOK
  <1>1. NetInv => NetTypeOK
    BY DEF NetInv, TableInv, AirTypeOK, NetTypeOK, TypeOK
  <1>2. QED BY <1>1, NetInductive, PTL

(* A packet id means one heartbeat, for any number of ids that a datagram  *)
(* does not outlive.                                                       *)
THEOREM SameIdCorrect == NetSpec => []SameIdSameHeartbeat
  <1>1. ASSUME NetInv, NEW n \in Nodes, NEW a \in Ages, NEW i \in Tracked(n),
               missed[n] < IDS, aired[n][a] # NotSent
        PROVE  aired[n][a] = device_table[i].last_hb_id <=> a = missed[n]
    <2>1. i \in Slots /\ device_table[i].ip = n /\ AboutHeard(device_table[i])
      BY <1>1 DEF Tracked, NetInv, Known
    <2>2. /\ device_table[i].last_hb_id = Back(pck_count[n], missed[n])
          /\ aired[n][a] = Back(pck_count[n], a)
      BY <1>1, <2>1 DEF AboutHeard, NetInv, AiredInOrder
    <2>3. /\ pck_count[n] \in PacketIds /\ a \in 0..(IDS - 1)
          /\ missed[n] \in 0..IDS
      BY <1>1, AgesType DEF NetInv, AirTypeOK
    <2>4. missed[n] \in 0..(IDS - 1)
      BY <1>1, <2>3, AgesType
    <2>5. QED BY <2>2, <2>3, <2>4, BackDiffers
  <1>2. NetInv => SameIdSameHeartbeat
    BY <1>1 DEF SameIdSameHeartbeat
  <1>3. QED BY <1>2, NetInductive, PTL

(* The neighbours counted have vouched for the heartbeat of the record.    *)
THEOREM TrustEarnedCorrect == NetSpec => []TrustEarned
  <1>1. NetInv => TrustEarned
    BY DEF NetInv, TrustEarned, Tracked, AboutHeard, Known
  <1>2. QED BY <1>1, NetInductive, PTL
=============================================================================

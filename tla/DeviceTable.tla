----------------------------- MODULE DeviceTable -----------------------------
(***************************************************************************)
(* The table of neighbouring devices (device_table.c over list.c) and the  *)
(* two packet handlers of dsrc.c that compute trust with it, on the device *)
(* that aggregates opinions (BLUE_DEVICE).                                 *)
(*                                                                         *)
(* All of it runs in main()'s loop; what varies is which packets arrive.   *)
(* Datagrams are broadcast three times each, lost, delayed and reordered,  *)
(* so any heartbeat and any opinion may arrive at any time, and again.     *)
(* A device's name and position are left out; whether the angle it was     *)
(* heard from fits its position is "near".                                 *)
(*                                                                         *)
(* The record of a new device is put into the table as malloc() left it,   *)
(* and is filled in only if the packet_id is not the last_hb_id that       *)
(* happens to be there.  Otherwise a record of nobody stays in the table   *)
(* and the heartbeat goes unanswered.                                      *)
(***************************************************************************)
EXTENDS Integers, FiniteSets

CONSTANTS Nodes,                 \* the addresses of the devices
          Elsewhere,             \* other bytes found where an address should be
          PacketIds,             \* the packet_ids of heartbeats
          MAX_TRACKED_DEVICES,   \* places in the table
          MAX_NEIGHBORS,         \* places in used_neighbors
          DEVICE_TIMEOUT,        \* periods until a silent device is dropped
          HeapRecords,           \* what malloc() may leave in a new DSRC_DEVICE
          NULL                   \* the null pointer

SELF_WEIGHTED_TRUST   == 14
OTHERS_WEIGHTED_TRUST == 10
OTHERS_MIN_TRUST      == 1
MINIMUM_ACC_TRUST     == 30

Slots == 0..(MAX_TRACKED_DEVICES - 1)

(* DSRC_DEVICE.  "used" are the addresses in the first used_neighbors_cnt  *)
(* places of used_neighbors.                                               *)
Device == [ip : Nodes, last_hb_id : PacketIds, self_trust : {0, SELF_WEIGHTED_TRUST},
           computed_trust : 0..255, used_neighbors_cnt : 0..MAX_NEIGHBORS,
           used : SUBSET Nodes, timeout : 0..255]

ASSUME SizesAssumption == /\ MAX_TRACKED_DEVICES \in Nat
                          /\ MAX_NEIGHBORS \in 0..24
                          /\ DEVICE_TIMEOUT \in 1..255

(* Four devices exist (common.h: BLUE, GREEN, RED, WHITE), far fewer than  *)
(* the twenty places of used_neighbors.                                    *)
ASSUME NodesAssumption == IsFiniteSet(Nodes) /\ Cardinality(Nodes) <= MAX_NEIGHBORS

(* A DSRC_DEVICE that nothing was written to.                              *)
Memory == [ip : Elsewhere, last_hb_id : Nat, self_trust : -128..127,
           computed_trust : 0..255, used_neighbors_cnt : 0..255,
           used : SUBSET (Nodes \cup Elsewhere), timeout : 0..255]

(* What malloc() returns is any such record, but has no device's address   *)
(* where its address goes: free() writes its links over the first bytes of *)
(* a record, which hold the address, and memory never used before has what *)
(* it had at power up.                                                     *)
ASSUME HeapAssumption == HeapRecords \subseteq Memory /\ Elsewhere \cap Nodes = {}

(* DSRC_DEVICE_TRUST.                                                      *)
Trust == [ip : Nodes, hb_packet_id : PacketIds, trust : {0, SELF_WEIGHTED_TRUST}]

ASSUME NullAssumption == NULL \notin Device \cup Memory \cup Trust

VARIABLES
  device_table,   \* the table: in each slot a device or NULL
  sent            \* the trust packet that the last step sent, or NULL

vars == <<device_table, sent>>

Init ==
  /\ device_table = [i \in Slots |-> NULL]
  /\ sent = NULL

-----------------------------------------------------------------------------
Tracked(ip) == {i \in Slots : device_table[i] # NULL /\ device_table[i].ip = ip}

(* device_table_get(): the first slot with the address.  (The NULL slots   *)
(* it compares too read the vector table, which is no device's address.)   *)
device_table_get(ip) == CHOOSE i \in Tracked(ip) : \A j \in Tracked(ip) : i <= j

Free == {i \in Slots : device_table[i] = NULL}

(* device_table_put(), that is list_add(): into the first free slot, and   *)
(* nowhere when there is none.                                             *)
device_table_put(dev) ==
  IF Free = {} THEN device_table
  ELSE [device_table EXCEPT ![CHOOSE i \in Free : \A j \in Free : i <= j] = dev]

(* What a new heartbeat makes of its sender's record.                      *)
Refreshed(ip, packet_id, near) ==
  LET self == IF near THEN SELF_WEIGHTED_TRUST ELSE 0
  IN  [ip |-> ip, last_hb_id |-> packet_id, self_trust |-> self, computed_trust |-> self,
       used_neighbors_cnt |-> 0, used |-> {}, timeout |-> DEVICE_TIMEOUT]

(* send_device_trust(): the opinion of this device, broadcast.             *)
send_device_trust(ip, packet_id, near) ==
  sent' = [ip |-> ip, hb_packet_id |-> packet_id,
              trust |-> IF near THEN SELF_WEIGHTED_TRUST ELSE 0]

-----------------------------------------------------------------------------
(* A heartbeat from a device in the table.  A repetition of the last one   *)
(* changes nothing.                                                        *)
HeartbeatUnchecked(ip, packet_id, near) ==
  /\ Tracked(ip) # {}
  /\ device_table' = [device_table EXCEPT ![device_table_get(ip)] = Refreshed(ip, packet_id, near)]
  /\ send_device_trust(ip, packet_id, near)

Heartbeat(ip, packet_id, near) ==
  /\ Tracked(ip) # {}
  /\ LET i == device_table_get(ip) IN
     IF device_table[i].last_hb_id = packet_id
     THEN UNCHANGED device_table /\ sent' = NULL
     ELSE /\ device_table' = [device_table EXCEPT ![i] = Refreshed(ip, packet_id, near)]
          /\ send_device_trust(ip, packet_id, near)

(* A heartbeat from a device that is not: its record is allocated and put  *)
(* into the table as malloc() left it; the packet is then compared with    *)
(* the last_hb_id found there.                                             *)
FirstHeartbeatUnread(ip, packet_id, near) ==
  /\ device_table' = device_table_put(Refreshed(ip, packet_id, near))
  /\ send_device_trust(ip, packet_id, near)

FirstHeartbeat(ip, packet_id, near) ==
  /\ Tracked(ip) = {}
  /\ \E r \in HeapRecords :
       IF r.last_hb_id = packet_id
       THEN device_table' = device_table_put(r) /\ sent' = NULL
       ELSE /\ device_table' = device_table_put(Refreshed(ip, packet_id, near))
            /\ send_device_trust(ip, packet_id, near)

WeightedOpinionUnfloored(recommender) ==
  LET w == (recommender.computed_trust * OTHERS_WEIGHTED_TRUST) \div MINIMUM_ACC_TRUST
  IN  IF w < OTHERS_WEIGHTED_TRUST THEN w ELSE OTHERS_WEIGHTED_TRUST

(* What the opinion of a neighbour weighs: more the more it is trusted.    *)
WeightedOpinion(recommender) ==
  LET w == (recommender.computed_trust * OTHERS_WEIGHTED_TRUST) \div MINIMUM_ACC_TRUST
      capped == IF w < OTHERS_WEIGHTED_TRUST THEN w ELSE OTHERS_WEIGHTED_TRUST
  IN  IF capped < OTHERS_MIN_TRUST THEN OTHERS_MIN_TRUST ELSE capped

Counted(dev, recommender, weighted_opinion) ==
  [dev EXCEPT !.computed_trust = (@ + weighted_opinion) % 256,
              !.used = @ \cup {recommender.ip},
              !.used_neighbors_cnt = @ + 1]

(* The opinion, not 0, of a neighbour about the heartbeat that was heard   *)
(* last from a device: it counts once.  (Opinions of 0 are ignored.)       *)
OpinionAgain(from, ip, hb_packet_id) ==
  /\ Tracked(from) # {} /\ Tracked(ip) # {}
  /\ LET recommender == device_table[device_table_get(from)]
         i   == device_table_get(ip)
         dev == device_table[i]
     IN  /\ dev.last_hb_id = hb_packet_id
         /\ device_table' =
              [device_table EXCEPT ![i] = Counted(dev, recommender, WeightedOpinion(recommender))]
  /\ sent' = NULL

OpinionAnyId(from, ip, hb_packet_id) ==
  /\ Tracked(from) # {} /\ Tracked(ip) # {}
  /\ LET recommender == device_table[device_table_get(from)]
         i   == device_table_get(ip)
         dev == device_table[i]
     IN  /\ recommender.ip \notin dev.used
         /\ device_table' =
              [device_table EXCEPT ![i] = Counted(dev, recommender, WeightedOpinion(recommender))]
  /\ sent' = NULL

Opinion(from, ip, hb_packet_id) ==
  /\ Tracked(from) # {} /\ Tracked(ip) # {}
  /\ LET recommender == device_table[device_table_get(from)]
         i   == device_table_get(ip)
         dev == device_table[i]
     IN  /\ dev.last_hb_id = hb_packet_id
         /\ recommender.ip \notin dev.used
         /\ device_table' =
              [device_table EXCEPT ![i] = Counted(dev, recommender, WeightedOpinion(recommender))]
  /\ sent' = NULL

(* device_table_update(), once per heartbeat period: a byte is decremented *)
(* and the devices whose byte has become 0 are removed.                    *)
device_table_updateLate ==
  /\ device_table' =
       [i \in Slots |->
          IF device_table[i] = NULL \/ device_table[i].timeout = 0 THEN NULL
          ELSE [device_table[i] EXCEPT !.timeout = (@ - 1) % 256]]
  /\ sent' = NULL

device_table_updateKeeping ==
  /\ device_table' =
       [i \in Slots |->
          IF device_table[i] = NULL \/ device_table[i].timeout = 1 THEN device_table[i]
          ELSE [device_table[i] EXCEPT !.timeout = (@ - 1) % 256]]
  /\ sent' = NULL

device_table_update ==
  /\ device_table' =
       [i \in Slots |->
          IF device_table[i] = NULL \/ device_table[i].timeout = 1 THEN NULL
          ELSE [device_table[i] EXCEPT !.timeout = (@ - 1) % 256]]
  /\ sent' = NULL

Next ==
  \/ \E ip \in Nodes, packet_id \in PacketIds, near \in BOOLEAN :
       Heartbeat(ip, packet_id, near) \/ FirstHeartbeat(ip, packet_id, near)
  \/ \E from, ip \in Nodes, hb_packet_id \in PacketIds : Opinion(from, ip, hb_packet_id)
  \/ device_table_update

Spec == Init /\ [][Next]_vars

-----------------------------------------------------------------------------
TypeOK ==
  /\ device_table \in [Slots -> Device \cup Memory \cup {NULL}]
  /\ sent \in Trust \cup {NULL}

(* The records of devices; the others are of nobody.                       *)
Known == {i \in Slots : device_table[i] # NULL /\ device_table[i].ip \in Nodes}

(* No device has two records, whatever the order in which devices appear,  *)
(* time out and come back: the trust of one is never split.                *)
OneRecordEach ==
  \A i, j \in Known : device_table[i].ip = device_table[j].ip => i = j

(* The opinion of a neighbour counts once for a heartbeat: the counter     *)
(* that says where the next address goes agrees with the addresses stored, *)
(* and so stays inside used_neighbors.                                     *)
OpinionsCountOnce ==
  \A i \in Known :
    device_table[i].used_neighbors_cnt = Cardinality(device_table[i].used)

(* The trust of a device is its own share plus one to ten for each         *)
(* neighbour that recommends it: the byte never wraps, which would turn a  *)
(* device trusted by all into one trusted by none.                         *)
TrustNeverWraps ==
  \A i \in Known :
    LET d == device_table[i] IN
    /\ d.computed_trust >= d.self_trust + d.used_neighbors_cnt * OTHERS_MIN_TRUST
    /\ d.computed_trust <= d.self_trust + d.used_neighbors_cnt * OTHERS_WEIGHTED_TRUST

(* A device in the table always has between 1 and DEVICE_TIMEOUT periods   *)
(* to live: the byte never passes 0, after which it would have 255.        *)
TimeoutNeverWraps ==
  \A i \in Known : device_table[i].timeout \in 1..DEVICE_TIMEOUT

(* Repetitions of a heartbeat and of opinions about it never undo what was *)
(* counted: as long as a slot is about the same heartbeat, its trust and   *)
(* the neighbours counted only grow.                                       *)
CountedStays ==
  [][\A i \in Known \cap Known' :
       LET d == device_table[i]  e == device_table'[i] IN
       d.ip = e.ip /\ d.last_hb_id = e.last_hb_id
         => d.used \subseteq e.used /\ d.computed_trust <= e.computed_trust]_vars
=============================================================================

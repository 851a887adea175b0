-------------------------------- MODULE Vanet --------------------------------
(***************************************************************************)
(* The table of the aggregating device in the network of devices.  Every   *)
(* neighbour broadcasts a heartbeat each period, and an opinion about each *)
(* new heartbeat it hears; a datagram may arrive at any time while it is   *)
(* on the way, any number of times, or never.  DeviceTable takes packet    *)
(* ids from anywhere; here they are those that the neighbours number their *)
(* heartbeats with, so that it can be said which heartbeat is meant.       *)
(*                                                                         *)
(* The neighbours run the same program.  Of it the model keeps how they    *)
(* number heartbeats, and lets them vouch for any heartbeat they may hear. *)
(***************************************************************************)
EXTENDS DeviceTable

CONSTANTS IDS,   \* packet ids come round after IDS periods (60)
          AIR,   \* periods in which a datagram may be on the way
          Near   \* the neighbours whose claims fit the angle they are heard from

ASSUME IdsAssumption == /\ IDS \in Nat \ {0}
                        /\ AIR \in 1..IDS
                        /\ PacketIds = 0..(IDS - 1)
                        /\ Near \subseteq Nodes

VARIABLES
  pck_count,   \* of each neighbour
  aired,       \* the packet_id it sent 0, 1, ... periods ago, NotSent: none
  vouched,     \* and who has sent an opinion, not 0, about that heartbeat
  missed       \* periods between the heartbeat last answered and now, at most IDS

airVars == <<pck_count, aired, vouched>>
netVars == <<vars, airVars, missed>>

Ages    == 0..(AIR - 1)
NotSent == -1

NetInit ==
  /\ Init
  /\ pck_count = [n \in Nodes |-> 0]
  /\ aired     = [n \in Nodes |-> [a \in Ages |-> NotSent]]
  /\ vouched   = [n \in Nodes |-> [a \in Ages |-> {}]]
  /\ missed    = [n \in Nodes |-> IDS]

-----------------------------------------------------------------------------
Aged(history, newest) == [a \in Ages |-> IF a = 0 THEN newest ELSE history[a - 1]]

(* The period of a neighbour: it counts, and sends a heartbeat if it knows *)
(* where it is.                                                            *)
PeriodShort(n, sends) ==
  LET id == (pck_count[n] + 1) % (IDS - 1) IN
  /\ pck_count' = [pck_count EXCEPT ![n] = id]
  /\ aired'     = [aired     EXCEPT ![n] = Aged(@, IF sends THEN id ELSE NotSent)]
  /\ vouched'   = [vouched   EXCEPT ![n] = Aged(@, {})]
  /\ missed'    = [missed    EXCEPT ![n] = IF @ = IDS THEN IDS ELSE @ + 1]
  /\ sent' = NULL /\ UNCHANGED device_table

Period(n, sends) ==
  LET id == (pck_count[n] + 1) % IDS IN
  /\ pck_count' = [pck_count EXCEPT ![n] = id]
  /\ aired'     = [aired     EXCEPT ![n] = Aged(@, IF sends THEN id ELSE NotSent)]
  /\ vouched'   = [vouched   EXCEPT ![n] = Aged(@, {})]
  /\ missed'    = [missed    EXCEPT ![n] = IF @ = IDS THEN IDS ELSE @ + 1]
  /\ sent' = NULL /\ UNCHANGED device_table

(* A neighbour loses its power and counts from 0 again.  It boots for      *)
(* seconds, in which what it sent before arrives or is lost.               *)
Restart(n) ==
  /\ pck_count' = [pck_count EXCEPT ![n] = 0]
  /\ aired'     = [aired     EXCEPT ![n] = [a \in Ages |-> NotSent]]
  /\ vouched'   = [vouched   EXCEPT ![n] = [a \in Ages |-> {}]]
  /\ missed'    = [missed    EXCEPT ![n] = IDS]
  /\ sent' = NULL /\ UNCHANGED device_table

(* A neighbour answers a heartbeat of another with an opinion that is not  *)
(* 0.  (send_device_trust() sends those of 0 too, which count nothing.)    *)
Vouch(r, n, a) ==
  /\ r # n
  /\ aired[n][a] # NotSent
  /\ vouched' = [vouched EXCEPT ![n][a] = @ \cup {r}]
  /\ sent' = NULL /\ UNCHANGED <<device_table, pck_count, aired, missed>>

-----------------------------------------------------------------------------
(* This device: the branches of RECV_FROM and of TIMER0.                   *)
HearHeartbeat(n, a) ==
  /\ aired[n][a] # NotSent
  /\ LET near == n \in Near IN
     Heartbeat(n, aired[n][a], near) \/ FirstHeartbeat(n, aired[n][a], near)
  /\ missed' = (IF sent' = NULL THEN missed ELSE [missed EXCEPT ![n] = a])
  /\ UNCHANGED airVars

HearOpinion(r, n, a) ==
  /\ r \in vouched[n][a]
  /\ Opinion(r, n, aired[n][a])
  /\ UNCHANGED <<airVars, missed>>

Update == device_table_update /\ UNCHANGED <<airVars, missed>>

NetNext ==
  \/ \E n \in Nodes, sends \in BOOLEAN : Period(n, sends)
  \/ \E n \in Nodes : Restart(n)
  \/ \E r, n \in Nodes, a \in Ages : Vouch(r, n, a) \/ HearOpinion(r, n, a)
  \/ \E n \in Nodes, a \in Ages : HearHeartbeat(n, a)
  \/ Update

NetSpec == NetInit /\ [][NetNext]_netVars

(* This device's periods pass.                                             *)
FairNetSpec == NetSpec /\ WF_netVars(Update)

-----------------------------------------------------------------------------
NetTypeOK ==
  /\ TypeOK
  /\ pck_count \in [Nodes -> PacketIds]
  /\ aired   \in [Nodes -> [Ages -> PacketIds \cup {NotSent}]]
  /\ vouched \in [Nodes -> [Ages -> SUBSET Nodes]]
  /\ missed  \in [Nodes -> 0..IDS]

(* A packet id means one heartbeat: of those that may still arrive, only   *)
(* the one that this device has answered last has the id in its record, so *)
(* only repetitions of it are taken for repetitions.  Promised as long as  *)
(* the neighbour was heard within the last IDS periods and has not been    *)
(* restarted since: ids come round long before the record is dropped.      *)
SameIdSameHeartbeat ==
  \A n \in Nodes, a \in Ages : \A i \in Tracked(n) :
    missed[n] < IDS /\ aired[n][a] # NotSent
      => (aired[n][a] = device_table[i].last_hb_id <=> a = missed[n])

(* Trust is earned with this heartbeat: the neighbours counted in a record *)
(* have all vouched for the very heartbeat that the record is about, not   *)
(* for one before or after it, in whatever order all of it arrived.        *)
TrustEarned ==
  \A n \in Nodes : \A i \in Tracked(n) :
    missed[n] \in Ages => device_table[i].used \subseteq vouched[n][missed[n]]

(* A neighbour of which no new heartbeat comes is dropped, and stays so,   *)
(* whatever others go on saying about it.                                  *)
Hears(n) == \E a \in Ages : HearHeartbeat(n, a) /\ sent' # NULL
SilentDropped ==
  \A n \in Nodes : []<><<Hears(n)>>_netVars \/ <>[](Tracked(n) = {})

(* A record of nobody, which a first heartbeat left unfilled, does not     *)
(* keep its slot: no datagram is about it, so no datagram renews it.       *)
NobodyDropped ==
  \A i \in Slots : []<>(device_table[i] = NULL \/ device_table[i].ip \in Nodes)
=============================================================================

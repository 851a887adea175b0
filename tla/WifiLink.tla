------------------------------ MODULE WifiLink ------------------------------
(***************************************************************************)
(* Requests and responses between main() and the WiFi module, as           *)
(* wifi_send_basic_packet() and wifi_wait_for_response() of                *)
(* wifi_mcw1001a_mikro.c exchange them: a request is put on the line       *)
(* again every 100 ms until a packet of the awaited type is read.          *)
(*                                                                         *)
(* The steps are parameterised by what the caller awaits and goes on with; *)
(* WifiBoot and WifiTraffic compose them into programs.  The ring of       *)
(* packet buffers is the first-in first-out channel of WifiRing, and       *)
(* task_clear_event(), split into its loads and stores in TaskManager, is  *)
(* one step here.                                                          *)
(***************************************************************************)
EXTENDS Naturals, Sequences

CONSTANT MaxOutstanding   \* requests that the module may not have handled yet

ASSUME OutstandingAssumption == MaxOutstanding \in Nat \ {0}

VARIABLES
  to_module,    \* requests on the line, oldest first
  unread,       \* packets in the ring, oldest first
  wifi_event,   \* the bit TASK_EVENT_WIFI
  found,        \* correct_response_found
  pc            \* main(): "put", "wait", "packets", "clear", or the caller's

linkVars == <<to_module, unread, wifi_event, found, pc>>

LinkInit ==
  /\ to_module = <<>> /\ unread = <<>>
  /\ wifi_event = FALSE /\ found = FALSE

-----------------------------------------------------------------------------
(* wifi_put_packet(), then the wait for a response.                        *)
PutOnLine(request) ==
  /\ Len(to_module) < MaxOutstanding
  /\ to_module' = Append(to_module, request)

PutPacket(request) ==
  /\ pc = "put"
  /\ PutOnLine(request)
  /\ pc' = "wait"
  /\ UNCHANGED <<unread, wifi_event, found>>

(* task_wait_for_event_wto(TASK_EVENT_WIFI, 100) returns false.            *)
Timeout(next) ==
  /\ pc = "wait"
  /\ ~wifi_event
  /\ pc' = next
  /\ UNCHANGED <<to_module, unread, wifi_event, found>>

(* It returns true.                                                        *)
SeeEvent(from) ==
  /\ pc = from
  /\ wifi_event
  /\ found' = FALSE
  /\ pc' = "packets"
  /\ UNCHANGED <<to_module, unread, wifi_event>>

(* wifi_get_packet() returns a packet, which is compared with the response *)
(* awaited; what wifi_process_packet() keeps of it is the caller's.        *)
NextPacket(correct) ==
  /\ pc = "packets"
  /\ unread # <<>>
  /\ found' = (found \/ correct)
  /\ unread' = Tail(unread)
  /\ UNCHANGED <<to_module, wifi_event, pc>>

(* It returns NULL; an interrupt may still come before the event is        *)
(* cleared.                                                                *)
NoMorePackets ==
  /\ pc = "packets"
  /\ unread = <<>>
  /\ pc' = "clear"
  /\ UNCHANGED <<to_module, unread, wifi_event, found>>

(* task_clear_event(TASK_EVENT_WIFI), then back to "then" with the         *)
(* response or to "otherwise" without.                                     *)
ClearEvent(then, otherwise) ==
  /\ pc = "clear"
  /\ wifi_event' = FALSE
  /\ pc' = (IF found THEN then ELSE otherwise)
  /\ found' = FALSE
  /\ UNCHANGED <<to_module, unread>>

-----------------------------------------------------------------------------
(* The module: it handles requests in the order in which they come, each   *)
(* some time after; the interrupt handler puts its answers into the ring   *)
(* and sets the event.                                                     *)
Answer(packets) ==
  /\ unread' = unread \o packets
  /\ wifi_event' = (wifi_event \/ packets # <<>>)
  /\ UNCHANGED <<found, pc>>

Handle(packets) ==
  /\ to_module # <<>>
  /\ to_module' = Tail(to_module)
  /\ Answer(packets)

LinkTypeOK(Requests, Packets, Locations) ==
  /\ to_module \in Seq(Requests) /\ Len(to_module) <= MaxOutstanding
  /\ unread \in Seq(Packets)
  /\ wifi_event \in BOOLEAN /\ found \in BOOLEAN
  /\ pc \in Locations \cup {"put", "wait", "packets", "clear"}
=============================================================================

----------------------------- MODULE TaskManager -----------------------------
(***************************************************************************)
(* The pending-event byte of task_manager.c, written by the interrupt      *)
(* handlers and by main()'s loop in dsrc.c, which also reads it.           *)
(*                                                                         *)
(* All interrupt handlers run at one priority, so a handler is atomic: it  *)
(* interrupts main() between two machine instructions and nothing          *)
(* interrupts it.  In main(), every |= and &= on the byte is a load        *)
(* followed by a store: two steps, with the loaded byte in "reg".          *)
(* main() is the code from dsrc.c:145 on.                                  *)
(***************************************************************************)
EXTENDS Naturals

CONSTANTS WIFI_PRESENT,   \* common.h: the WiFi module is compiled in
          GPS_PRESENT     \* common.h: the GPS module is compiled in

ASSUME PresenceAssumption == WIFI_PRESENT \in BOOLEAN /\ GPS_PRESENT \in BOOLEAN

VARIABLES
  task_events,   \* the set of bits set in the byte task_events
  reg,           \* the byte main() has loaded and not yet stored back
  arg,           \* the event of the task_clear_event() call in progress
  events,        \* main()'s snapshot: the events this iteration has yet to serve
  cur,           \* the event whose branch of the loop is running (ANY: none)
  answered,      \* correct_response_found of the wait in progress
  dirty,         \* events with work left behind them: unparsed sentences,
                 \* unread packets, queued datagrams, unserved timer ticks
  gtg,           \* the good-to-go flag, set by the switch
  pc             \* where main() is

vars == <<task_events, reg, arg, events, cur, answered, dirty, gtg, pc>>

-----------------------------------------------------------------------------
(* The enumeration TASK_EVENT: bit numbers, in the order the loop serves   *)
(* them.                                                                   *)
ANY       == 0
GPS       == 1
WIFI      == 2
RECV_FROM == 3
TIMER0    == 4
TIMER1    == 5
TASK_EVENT_END == 6
Events    == GPS..TIMER1

(* The events that interrupt handlers raise.                               *)
IsrEvents == {TIMER0, TIMER1}
             \cup (IF GPS_PRESENT THEN {GPS} ELSE {})
             \cup (IF WIFI_PRESENT THEN {WIFI} ELSE {})

InSetCall   == {"set_load", "set_store", "any_load", "any_store"}
InClearCall == {"clear_load", "clear_store", "clear_test", "clear_zero"}
Locations   == {"wait", "dispatch", "gps", "packets", "recv", "send",
                "timer0", "timer0_gps"} \cup InSetCall \cup InClearCall

Init ==
  /\ task_events = {} /\ reg = {} /\ events = {} /\ dirty = {}
  /\ cur = ANY /\ arg = ANY /\ answered = FALSE
  /\ gtg = FALSE
  /\ pc = "wait"

-----------------------------------------------------------------------------
(* Interrupts.                                                             *)

(* task_set_event(e) called by a handler, after the handler has left work  *)
(* for main(): both statements, as one step.                               *)
(* A handler that takes work left for main() as a sign that its event is   *)
(* still set, as one that looks at its buffer first would.                 *)
InterruptIfIdle(e) ==
  /\ task_events' = task_events \cup (IF e \in dirty THEN {} ELSE {e, ANY})
  /\ dirty' = dirty \cup {e}
  /\ UNCHANGED <<reg, arg, events, cur, answered, gtg, pc>>

Interrupt(e) ==
  /\ task_events' = task_events \cup {e, ANY}
  /\ dirty' = dirty \cup {e}
  /\ UNCHANGED <<reg, arg, events, cur, answered, gtg, pc>>

(* port_f_handler: the switch lets the exchange of packets start.          *)
SwitchInterrupt ==
  /\ ~gtg
  /\ gtg' = TRUE
  /\ UNCHANGED <<task_events, reg, arg, events, cur, answered, dirty, pc>>

-----------------------------------------------------------------------------
(* task_set_event(RECV_FROM) called by main(), in wifi_process_packet().   *)

SetLoad ==
  /\ pc = "set_load"
  /\ reg' = task_events
  /\ pc' = "set_store"
  /\ UNCHANGED <<task_events, arg, events, cur, answered, dirty, gtg>>

SetStore ==
  /\ pc = "set_store"
  /\ task_events' = reg \cup {RECV_FROM}
  /\ pc' = "any_load"
  /\ UNCHANGED <<reg, arg, events, cur, answered, dirty, gtg>>

SetAnyLoad ==
  /\ pc = "any_load"
  /\ reg' = task_events
  /\ pc' = "any_store"
  /\ UNCHANGED <<task_events, arg, events, cur, answered, dirty, gtg>>

SetAnyStore ==
  /\ pc = "any_store"
  /\ task_events' = reg \cup {ANY}
  /\ reg' = {}
  /\ pc' = "packets"
  /\ UNCHANGED <<arg, events, cur, answered, dirty, gtg>>

-----------------------------------------------------------------------------
(* task_clear_event(arg) called by main().                                 *)

CallClear(e) == pc' = "clear_load" /\ arg' = e

ClearLoad ==
  /\ pc = "clear_load"
  /\ reg' = task_events
  /\ pc' = "clear_store"
  /\ UNCHANGED <<task_events, arg, events, cur, answered, dirty, gtg>>

ClearStore ==
  /\ pc = "clear_store"
  /\ task_events' = reg \ {arg}
  /\ reg' = {}
  /\ pc' = "clear_test"
  /\ UNCHANGED <<arg, events, cur, answered, dirty, gtg>>

(* Where main() goes on after task_clear_event().  In the wait of          *)
(* wifi_wait_for_response() it waits again unless the response was found;  *)
(* then wifi_socket_send_to() sends its next repetition or returns to the  *)
(* branch that called it.                                                  *)
Waiting == arg # cur

AfterClear ==
  IF Waiting
  THEN /\ \/ pc' = "send"
          \/ /\ answered
             /\ pc' = (IF cur = TIMER0 THEN "timer0_gps" ELSE "recv")
       /\ UNCHANGED cur
  ELSE pc' = "dispatch" /\ cur' = ANY

(* if(task_events <= 1) task_events = 0;  the test and the store are apart. *)
ClearTestFault ==
  /\ pc = "clear_test"
  /\ AfterClear /\ arg' = ANY /\ answered' = FALSE
  /\ UNCHANGED <<task_events, reg, events, dirty, gtg>>

ClearTest ==
  /\ pc = "clear_test"
  /\ IF task_events \subseteq {ANY}
     THEN pc' = "clear_zero" /\ UNCHANGED <<arg, cur, answered>>
     ELSE AfterClear /\ arg' = ANY /\ answered' = FALSE
  /\ UNCHANGED <<task_events, reg, events, dirty, gtg>>

ClearZero ==
  /\ pc = "clear_zero"
  /\ task_events' = {}
  /\ AfterClear /\ arg' = ANY /\ answered' = FALSE
  /\ UNCHANGED <<reg, events, dirty, gtg>>

-----------------------------------------------------------------------------
(* The main loop.                                                          *)

(* task_wait_for_event_wto() returns, with an event or after its 100 ms,   *)
(* and the loop takes its snapshot of the byte.                            *)
TakeSnapshot ==
  /\ pc = "wait"
  /\ events' = task_events \ {ANY}
  /\ pc' = "dispatch"
  /\ UNCHANGED <<task_events, reg, arg, cur, answered, dirty, gtg>>

(* The branches are tried in the order of the enumeration.                 *)
NextEvent == CHOOSE e \in events : \A f \in events : e <= f

(* isbitset(events, e): the branch of the next event starts.  RECV_FROM is *)
(* skipped, its bit left set, until the switch has been pressed.  TIMER1's *)
(* branch only sends a request that it does not wait for.                  *)
Dispatch ==
  /\ pc = "dispatch"
  /\ events # {}
  /\ events' = events \ {NextEvent}
  /\ \/ /\ NextEvent = RECV_FROM /\ ~gtg
        /\ UNCHANGED <<pc, arg, cur, dirty>>
     \/ /\ \/ NextEvent = GPS              /\ pc' = "gps"     /\ UNCHANGED arg
           \/ NextEvent = WIFI             /\ pc' = "packets" /\ UNCHANGED arg
           \/ NextEvent = RECV_FROM /\ gtg /\ pc' = "recv"    /\ UNCHANGED arg
           \/ NextEvent = TIMER0           /\ pc' = "timer0"  /\ UNCHANGED arg
           \/ NextEvent = TIMER1           /\ CallClear(TIMER1)
        /\ cur' = NextEvent
        /\ dirty' = dirty \ ({NextEvent} \cap {TIMER0, TIMER1})
  /\ UNCHANGED <<task_events, reg, answered, gtg>>

EndIteration ==
  /\ pc = "dispatch"
  /\ events = {}
  /\ pc' = "wait"
  /\ UNCHANGED <<task_events, reg, arg, events, cur, answered, dirty, gtg>>

(* gps_parse_buffer(), then the event is cleared.                          *)
ParseGps ==
  /\ pc = "gps"
  /\ dirty' = dirty \ {GPS}
  /\ CallClear(GPS)
  /\ UNCHANGED <<task_events, reg, events, cur, answered, gtg>>

(* wifi_get_packet() hands over a packet, the last unread one or not, and  *)
(* wifi_process_packet() works on it.  A datagram is queued, with the      *)
(* position from gps_l80_get_*(), and its event is set; another packet may *)
(* be the response main() waits for.                                       *)
ProcessPacket ==
  /\ pc = "packets"
  /\ WIFI \in dirty
  /\ \E last, datagram, response \in BOOLEAN :
       /\ datagram => ~response
       /\ response => cur # WIFI
       /\ dirty' = (dirty \ ((IF last THEN {WIFI} ELSE {})
                              \cup (IF datagram THEN {GPS} ELSE {})))
                   \cup (IF datagram THEN {RECV_FROM} ELSE {})
       /\ pc' = (IF datagram THEN "set_load" ELSE "packets")
       /\ answered' = (answered \/ response)
  /\ UNCHANGED <<task_events, reg, arg, events, cur, gtg>>

(* wifi_get_packet() returned NULL: the WIFI event is cleared.             *)
PacketsDone ==
  /\ pc = "packets"
  /\ WIFI \notin dirty
  /\ CallClear(WIFI)
  /\ UNCHANGED <<task_events, reg, events, cur, answered, dirty, gtg>>

(* wifi_get_recv_from_packet() hands over a datagram, the last one or not. *)
(* A heartbeat not seen before is answered by send_device_trust(), whose   *)
(* wifi_socket_send_to() first brings the GPS record up to date.           *)
RecvPacket ==
  /\ pc = "recv"
  /\ RECV_FROM \in dirty
  /\ \E last, heartbeat \in BOOLEAN :
       /\ dirty' = dirty \ ((IF last THEN {RECV_FROM} ELSE {})
                             \cup (IF heartbeat THEN {GPS} ELSE {}))
       /\ pc' = (IF heartbeat THEN "send" ELSE "recv")
  /\ UNCHANGED <<task_events, reg, arg, events, cur, answered, gtg>>

(* The queue is empty: the next request is sent and the event is cleared.  *)
RecvDoneFault ==
  /\ pc = "recv"
  /\ CallClear(RECV_FROM)
  /\ UNCHANGED <<task_events, reg, events, cur, answered, dirty, gtg>>

RecvDone ==
  /\ pc = "recv"
  /\ RECV_FROM \notin dirty
  /\ CallClear(RECV_FROM)
  /\ UNCHANGED <<task_events, reg, events, cur, answered, dirty, gtg>>

(* wifi_wait_for_response() sees the WIFI event.  (Its timeout sends the   *)
(* request again and changes nothing here.)                                *)
ResponseWait ==
  /\ pc = "send"
  /\ WIFI \in task_events
  /\ pc' = "packets"
  /\ UNCHANGED <<task_events, reg, arg, events, cur, answered, dirty, gtg>>

(* TIMER0's branch: in nineteen ticks of twenty it only counts and toggles *)
(* the LED; in the twentieth it may send a heartbeat, which only a node    *)
(* that is good to go does, and then reads the position.                   *)
Timer0 ==
  /\ pc = "timer0"
  /\ \/ CallClear(TIMER0) /\ UNCHANGED dirty
     \/ WIFI_PRESENT /\ gtg /\ pc' = "send" /\ dirty' = dirty \ {GPS} /\ UNCHANGED arg
     \/ pc' = "timer0_gps" /\ UNCHANGED <<arg, dirty>>
  /\ UNCHANGED <<task_events, reg, events, cur, answered, gtg>>

Timer0Gps ==
  /\ pc = "timer0_gps"
  /\ dirty' = dirty \ {GPS}
  /\ CallClear(TIMER0)
  /\ UNCHANGED <<task_events, reg, events, cur, answered, gtg>>

-----------------------------------------------------------------------------
SetCall   == SetLoad \/ SetStore \/ SetAnyLoad \/ SetAnyStore
ClearCall == ClearLoad \/ ClearStore \/ ClearTest \/ ClearZero
Loop      == \/ TakeSnapshot \/ Dispatch \/ EndIteration
             \/ ParseGps \/ ProcessPacket \/ PacketsDone
             \/ RecvPacket \/ RecvDone \/ ResponseWait
             \/ Timer0 \/ Timer0Gps
Main      == SetCall \/ ClearCall \/ Loop

Next ==
  \/ \E e \in IsrEvents : Interrupt(e)
  \/ SwitchInterrupt
  \/ Main

Spec == Init /\ [][Next]_vars

(* What main() and its surroundings go on doing.  main() runs on.  TIMER1  *)
(* ticks as long as the node has power, and not in step with main(), which *)
(* sleeps nearly all the time: again and again it strikes a sleeping main. *)
(* While main() waits for a response it repeats its request every 100 ms,  *)
(* so the module talks again; it answers in the end, and comes to the end  *)
(* of its packets, as the other nodes come to the end of their datagrams.  *)
(* A datagram is sent TX_REPEAT_CNT times, no more.                        *)
Fairness ==
  /\ WF_vars(Main)
  /\ SF_vars(pc = "wait" /\ Interrupt(TIMER1))
  /\ WF_vars(pc = "send" /\ WIFI_PRESENT /\ Interrupt(WIFI))
  /\ SF_vars(ProcessPacket /\ WIFI \notin dirty' /\ pc' = "packets"
                            /\ (cur # WIFI => answered'))
  /\ SF_vars(PacketsDone)
  /\ SF_vars(RecvPacket /\ RECV_FROM \notin dirty' /\ pc' = "recv")
  /\ SF_vars(ClearCall /\ pc' \in {"recv", "timer0_gps"})

FairSpec == Spec /\ Fairness

-----------------------------------------------------------------------------
TypeOK ==
  /\ task_events \subseteq Events \cup {ANY}
  /\ reg \subseteq Events \cup {ANY}
  /\ arg \in Events \cup {ANY}
  /\ cur \in Events \cup {ANY}
  /\ events \subseteq Events
  /\ dirty \subseteq Events
  /\ answered \in BOOLEAN
  /\ gtg \in BOOLEAN
  /\ pc \in Locations

(* A byte that the rest of the program may see: empty, or ANY together     *)
(* with at least one event.                                                *)
Summarised(s) == s = {} \/ (ANY \in s /\ s # {ANY})

(* Whenever main() is outside the two calls that write the byte, the ANY   *)
(* bit is set exactly when some event is, whatever interrupts struck       *)
(* inside the calls.  main() sleeps on ANY alone (dsrc.c:152), so a byte   *)
(* with an event but without ANY would put it to sleep over work.          *)
AnySummarises == pc \notin InSetCall \cup InClearCall => Summarised(task_events)

(* A queued datagram is never left without its event: as long as the       *)
(* RECV_FROM queue holds something, the bit is set, or main() is in the    *)
(* very call that sets it.  Clears of other events, nested waits for       *)
(* responses and the zeroing of the byte (task_manager.c:61) all come in   *)
(* between.                                                                *)
DatagramFlagged ==
  RECV_FROM \in dirty => RECV_FROM \in task_events \/ pc \in {"set_load", "set_store"}

(* "//indicates the dirty tasks to be triggered" (task_manager.c:11): when *)
(* main() is back at its wait, every event with work left is set.  The     *)
(* code does not keep this: an interrupt between the last look at the work *)
(* and the clear, or inside a load/store pair, is forgotten.               *)
DirtyIsFlagged == pc = "wait" => dirty \subseteq task_events

(* No tick of TIMER1, whose branch is the last of the loop, waits for      *)
(* ever.  A tick may be forgotten, see above, but a later one makes up for *)
(* it; and one that is seen is served in the iteration that saw it,        *)
(* however often the events ahead of it are raised again and however long  *)
(* their branches wait for responses of their own (dsrc.c:155-388).        *)
LastServed == TIMER1 \in dirty ~> TIMER1 \notin dirty
=============================================================================

----------------------------- MODULE WifiTraffic -----------------------------
(***************************************************************************)
(* main()'s loop on the WiFi module.  It asks for datagrams with one       *)
(* RECV_FROM request at a time, which it does not wait for, and sends      *)
(* heartbeats and opinions with SEND_TO requests, each put on the line     *)
(* TX_REPEAT_CNT times and each answered before the next.  The answer to   *)
(* the RECV_FROM request may come in the middle of that; the datagram it   *)
(* carries waits in the queue of RecvQueue until the branch for RECV_FROM  *)
(* empties it, which may send an opinion about each.                       *)
(***************************************************************************)
EXTENDS WifiLink, RecvQueue

CONSTANT TX_REPEAT_CNT

ASSUME TrafficAssumption == TX_REPEAT_CNT \in Nat \ {0}

VARIABLES
  recv_from_clear,   \* no RECV_FROM request waits for its response
  recv_event,        \* the bit TASK_EVENT_WIFI_RECV_FROM
  serving,           \* it was set when main() took the events, and is not served yet
  gtg,               \* the switch has been pressed
  tx_cnt,            \* repetitions of the datagram being sent, 0: none
  asked              \* the module: a RECV_FROM request waits for a datagram

loopVars == <<recv_event, serving, gtg>>
askVars  == <<recv_from_clear, asked>>
vars     == <<linkVars, queueVars, loopVars, askVars, tx_cnt>>

Requests == {"RECV_FROM", "SEND_TO"}

(* "failed": a RECV_FROM response that is too short for its fields, or the *)
(* error event WIFI_ERROR_SOCKET_RECVFROM_FAILED.                          *)
Answers == {"datagram", "failed"}
Packets == Answers \cup {"SEND_TO"}

Init ==
  /\ LinkInit /\ pc = "loop"
  /\ QueueInit
  /\ recv_from_clear = TRUE /\ asked = FALSE
  /\ recv_event = FALSE /\ serving = FALSE /\ gtg = FALSE
  /\ tx_cnt = 0

Press ==
  /\ ~gtg
  /\ gtg' = TRUE
  /\ UNCHANGED <<linkVars, queueVars, recv_event, serving, askVars, tx_cnt>>

-----------------------------------------------------------------------------
(* task_get_events(), and the test for WIFI.                               *)
TakeEvents ==
  /\ pc = "loop"
  /\ serving' = recv_event
  /\ pc' = (IF wifi_event THEN "packets" ELSE "recv")
  /\ UNCHANGED <<to_module, unread, wifi_event, found>>
  /\ UNCHANGED <<queueVars, recv_event, gtg, askVars, tx_cnt>>

(* The wait for the response to SEND_TO.                                   *)
Wake == SeeEvent("wait") /\ UNCHANGED <<queueVars, loopVars, askVars, tx_cnt>>

(* wifi_process_packet(): a whole RECV_FROM response is queued, or dropped *)
(* when the queue is full, and lets main() ask again.                      *)
StoreIdle ==
  /\ \E datagram \in Datagrams : \/ queue_push(datagram)
                                 \/ queue_full /\ UNCHANGED queueVars
  /\ recv_event' = TRUE
  /\ recv_from_clear' = (recv_from_clear \/ tx_cnt = 0)

Store ==
  /\ \E datagram \in Datagrams : \/ queue_push(datagram)
                                 \/ queue_full /\ UNCHANGED queueVars
  /\ recv_event' = TRUE
  /\ recv_from_clear' = TRUE

ProcessPacket ==
  /\ unread # <<>>
  /\ NextPacket(tx_cnt > 0 /\ Head(unread) = "SEND_TO")
  /\ IF Head(unread) = "datagram"
       THEN Store
       ELSE UNCHANGED <<queueVars, recv_event, recv_from_clear>>
  /\ UNCHANGED <<serving, gtg, asked, tx_cnt>>

PacketsDone == NoMorePackets /\ UNCHANGED <<queueVars, loopVars, askVars, tx_cnt>>

(* Where main() goes on when a datagram has been sent.                     *)
Caller == IF serving THEN "serve" ELSE "timer1"

(* To the next branch, to the wait again, to the next repetition, or back. *)
GoOn ==
  /\ ClearEvent(IF tx_cnt < TX_REPEAT_CNT THEN "put" ELSE Caller,
                IF tx_cnt = 0 THEN "recv" ELSE "wait")
  /\ tx_cnt' = (IF ~found THEN tx_cnt ELSE (tx_cnt + 1) % (TX_REPEAT_CNT + 1))
  /\ UNCHANGED <<queueVars, loopVars, askVars>>

(* The test for RECV_FROM.                                                 *)
EnterServe ==
  /\ pc = "recv"
  /\ serving' = (serving /\ gtg)
  /\ pc' = (IF serving' THEN "serve" ELSE "timer0")
  /\ UNCHANGED <<to_module, unread, wifi_event, found>>
  /\ UNCHANGED <<queueVars, recv_event, gtg, askVars, tx_cnt>>

(* A datagram is taken from the queue; the first copy of a heartbeat is    *)
(* answered with an opinion, wifi_socket_send_to().                        *)
Serve ==
  /\ pc = "serve"
  /\ queue_pop
  /\ \/ UNCHANGED <<pc, tx_cnt>>
     \/ pc' = "put" /\ tx_cnt' = 1
  /\ UNCHANGED <<to_module, unread, wifi_event, found, loopVars, askVars>>

(* wifi_socket_recv_from()                                                 *)
AskAlways ==
  /\ PutOnLine("RECV_FROM")
  /\ recv_from_clear' = FALSE

Ask ==
  IF recv_from_clear
    THEN PutOnLine("RECV_FROM") /\ recv_from_clear' = FALSE
    ELSE UNCHANGED <<to_module, recv_from_clear>>

(* The queue is empty: main() asks for the next datagram.                  *)
ServedOne ==
  /\ pc = "serve"
  /\ Ask
  /\ recv_event' = FALSE /\ serving' = FALSE
  /\ pc' = "timer0"
  /\ UNCHANGED <<unread, wifi_event, found, queueVars, gtg, asked, tx_cnt>>

Served ==
  /\ pc = "serve"
  /\ queue_empty
  /\ Ask
  /\ recv_event' = FALSE /\ serving' = FALSE
  /\ pc' = "timer0"
  /\ UNCHANGED <<unread, wifi_event, found, queueVars, gtg, asked, tx_cnt>>

(* TIMER0, when a heartbeat is due and when not.                           *)
StartSend ==
  /\ pc = "timer0" /\ gtg
  /\ pc' = "put" /\ tx_cnt' = 1
  /\ UNCHANGED <<to_module, unread, wifi_event, found, queueVars, loopVars, askVars>>

NothingToSend ==
  /\ pc = "timer0"
  /\ pc' = "timer1"
  /\ UNCHANGED <<to_module, unread, wifi_event, found>>
  /\ UNCHANGED <<queueVars, loopVars, askVars, tx_cnt>>

(* TIMER1, every millisecond.                                              *)
Poll ==
  /\ pc = "timer1"
  /\ Ask
  /\ pc' = "loop"
  /\ UNCHANGED <<unread, wifi_event, found, queueVars, loopVars, asked, tx_cnt>>

NoPoll ==
  /\ pc = "timer1"
  /\ pc' = "loop"
  /\ UNCHANGED <<to_module, unread, wifi_event, found>>
  /\ UNCHANGED <<queueVars, loopVars, askVars, tx_cnt>>

Send == PutPacket("SEND_TO") /\ UNCHANGED <<queueVars, loopVars, askVars, tx_cnt>>

Resend == Timeout("put") /\ UNCHANGED <<queueVars, loopVars, askVars, tx_cnt>>

-----------------------------------------------------------------------------
ModuleSendTo ==
  /\ to_module # <<>> /\ Head(to_module) = "SEND_TO"
  /\ Handle(<<"SEND_TO">>)
  /\ UNCHANGED <<queueVars, loopVars, askVars, tx_cnt>>

ModuleRecvFrom ==
  /\ to_module # <<>> /\ Head(to_module) = "RECV_FROM"
  /\ Handle(<<>>)
  /\ asked' = TRUE
  /\ UNCHANGED <<queueVars, loopVars, recv_from_clear, tx_cnt>>

(* A datagram comes, or the module fails to receive one.                   *)
Datagram ==
  /\ asked
  /\ asked' = FALSE
  /\ \E answer \in Answers : Answer(<<answer>>)
  /\ UNCHANGED <<to_module, queueVars, loopVars, recv_from_clear, tx_cnt>>

-----------------------------------------------------------------------------
Exchange == Wake \/ ProcessPacket \/ PacketsDone \/ GoOn \/ Send \/ Resend
Branches == TakeEvents \/ EnterServe \/ Serve \/ Served
            \/ StartSend \/ NothingToSend \/ Poll \/ NoPoll
Module   == ModuleSendTo \/ ModuleRecvFrom
Next     == Exchange \/ Branches \/ Module \/ Datagram \/ Press

Spec == Init /\ [][Next]_vars

(* main() goes on: its waits time out.  The timers make it poll and send   *)
(* again and again; the module goes on, and neighbours send datagrams.     *)
Fairness ==
  /\ WF_vars(Exchange \/ Branches) /\ SF_vars(Poll) /\ SF_vars(StartSend)
  /\ WF_vars(Module) /\ WF_vars(Datagram)

FairSpec == Spec /\ Fairness

-----------------------------------------------------------------------------
TypeOK ==
  /\ LinkTypeOK(Requests, Packets, {"loop", "recv", "serve", "timer0", "timer1"})
  /\ QueueTypeOK
  /\ recv_from_clear \in BOOLEAN /\ asked \in BOOLEAN
  /\ recv_event \in BOOLEAN /\ serving \in BOOLEAN /\ gtg \in BOOLEAN
  /\ tx_cnt \in 0..TX_REPEAT_CNT

(* The RECV_FROM requests and answers that are under way.                  *)
Places(s, what) == {i \in 1..Len(s) : s[i] \in what}
UnderWay == {<<"request", i>> : i \in Places(to_module, {"RECV_FROM"})}
            \cup (IF asked THEN {<<"asked", 0>>} ELSE {})
            \cup {<<"answer", i>> : i \in Places(unread, Answers)}

(* "//ensure that only one recv_from request is sent at a time until a     *)
(* response is given": wherever a request or its answer is - on the line,  *)
(* in the module, in the ring - there is only one, and none when main() is *)
(* free to ask again.                                                      *)
OneRecvFrom == /\ \A a, b \in UnderWay : a = b
               /\ recv_from_clear => UnderWay = {}

(* main() asks again and again, also when the event of the answer is wiped *)
(* out by the clear of an earlier one: as long as the device sends         *)
(* heartbeats, their answers make it look into the ring.  "... until a     *)
(* response is given" (wifi_mcw1001a_mikro.c:28) holds for whole answers   *)
(* only: after a short one, or an error event, the flag stays false.       *)
Failed    == Places(unread, {"failed"}) # {}
AsksAgain == ([]~Failed /\ <>gtg) => []<>recv_from_clear

(* Every datagram accepted is handled: the queue is emptied again and      *)
(* again once the switch has been pressed, although RECV_FROM is cleared   *)
(* after opinions were sent, in whose waits further datagrams came in.     *)
Drained == <>gtg => []<>queue_empty

(* Once it has been emptied the queue never fills up again, whatever       *)
(* arrives: main() asks for one datagram at a time and serves RECV_FROM    *)
(* between two polls.  So the drop of datagrams is over with the first     *)
(* round after the switch is pressed.                                      *)
StaysRoomy == [](gtg /\ queue_empty => []~queue_full)
=============================================================================

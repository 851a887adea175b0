-------------------------- MODULE TaskManagerProofs --------------------------
(***************************************************************************)
(* Proofs about the pending-event byte, for every choice of the modules    *)
(* compiled in.                                                            *)
(***************************************************************************)
EXTENDS TaskManager, TLAPS

USE DEF ANY, GPS, WIFI, RECV_FROM, TIMER0, TIMER1, Events

(* What is true of the byte and of its loaded copy at every point of the   *)
(* two calls that write it.                                                *)
ByteInv ==
  /\ pc = "any_load"    => RECV_FROM \in task_events
  /\ pc = "any_store"   => RECV_FROM \in task_events /\ RECV_FROM \in reg
  /\ pc \in {"set_store", "clear_store"} => Summarised(reg)
  /\ pc = "clear_test"  => task_events = {} \/ ANY \in task_events
  /\ pc \in InClearCall => arg \in Events
  /\ pc \notin {"any_load", "any_store", "clear_test", "clear_zero"}
       => Summarised(task_events)

(* What is true of RECV_FROM: no call clears it while datagrams are        *)
(* queued, and no stale copy of the byte lacks it.                         *)
DatagramInv ==
  /\ DatagramFlagged
  /\ pc = "clear_store" => (RECV_FROM \in dirty => RECV_FROM \in reg)
  /\ pc \in {"clear_load", "clear_store"} => (arg = RECV_FROM => RECV_FROM \notin dirty)
  /\ pc = "clear_zero"  => RECV_FROM \notin dirty

IInv == TypeOK /\ ByteInv /\ DatagramInv

(* No interrupt handler raises ANY or RECV_FROM: the first is no event and *)
(* the second is raised by wifi_process_packet() only.                     *)
LEMMA IsrEventsType == IsrEvents \subseteq Events \ {RECV_FROM}
  BY PresenceAssumption DEF IsrEvents

(* While there are events in the snapshot, the next one is one of them.    *)
LEMMA NextEventType == ASSUME events \subseteq Events, events # {}
                       PROVE  NextEvent \in events
  <1>1. \E e \in events : \A f \in events : e <= f
    <2>1. CASE 1 \in events BY <2>1
    <2>2. CASE 1 \notin events /\ 2 \in events BY <2>2
    <2>3. CASE 1 \notin events /\ 2 \notin events /\ 3 \in events BY <2>3
    <2>4. CASE 1 \notin events /\ 2 \notin events /\ 3 \notin events /\ 4 \in events BY <2>4
    <2>5. CASE 1 \notin events /\ 2 \notin events /\ 3 \notin events /\ 4 \notin events
      <3>1. \A e \in events : e = 5
        BY <2>5
      <3>2. 5 \in events
        BY <3>1
      <3>3. QED BY <3>1, <3>2
    <2>6. QED BY <2>1, <2>2, <2>3, <2>4, <2>5
  <1>2. QED BY <1>1 DEF NextEvent

(* The strengthened invariant holds initially.                             *)
LEMMA InitIInv == Init => IInv
  BY DEF Init, IInv, TypeOK, ByteInv, DatagramInv, DatagramFlagged, Summarised,
         Locations, InSetCall, InClearCall

(* Interrupts preserve it: they only add bits, and never RECV_FROM work.   *)
LEMMA InterruptPreserves ==
  ASSUME IInv, NEW e \in IsrEvents, Interrupt(e)
  PROVE  IInv'
  <1>1. e \in Events /\ e # RECV_FROM
    BY IsrEventsType
  <1>2. TypeOK'
    BY <1>1 DEF IInv, TypeOK, Interrupt
  <1>3. ByteInv'
    BY <1>1 DEF IInv, ByteInv, Summarised, Interrupt, InClearCall
  <1>4. DatagramInv'
    BY <1>1 DEF IInv, DatagramInv, DatagramFlagged, Interrupt
  <1>5. QED BY <1>2, <1>3, <1>4 DEF IInv

(* The two calls that write the byte preserve it.                          *)
LEMMA CallPreserves ==
  ASSUME IInv, SetCall \/ ClearCall
  PROVE  IInv'
  <1> USE DEF IInv, TypeOK, ByteInv, DatagramInv, DatagramFlagged, Summarised,
              Locations, InSetCall, InClearCall
  <1>1. CASE SetLoad     BY <1>1 DEF SetLoad
  <1>2. CASE SetStore    BY <1>2 DEF SetStore
  <1>3. CASE SetAnyLoad  BY <1>3 DEF SetAnyLoad
  <1>4. CASE SetAnyStore BY <1>4 DEF SetAnyStore
  <1>5. CASE ClearLoad   BY <1>5 DEF ClearLoad
  <1>6. CASE ClearStore  BY <1>6 DEF ClearStore
  <1>7. CASE ClearTest
    <2>1. pc' \in {"clear_zero", "send", "timer0_gps", "recv", "dispatch"}
      BY <1>7 DEF ClearTest, AfterClear
    <2>2. /\ pc = "clear_test"
          /\ UNCHANGED <<task_events, reg, events, dirty, gtg>>
      BY <1>7 DEF ClearTest
    <2>3. pc' # "clear_zero" => Summarised(task_events)
      BY <1>7, <2>2 DEF ClearTest, AfterClear
    <2>4. pc' = "clear_zero" => task_events \subseteq {ANY} /\ arg' = arg
      BY <1>7 DEF ClearTest, AfterClear
    <2>5. arg' \in Events \cup {ANY} /\ cur' \in Events \cup {ANY} /\ answered' \in BOOLEAN
      BY <1>7 DEF ClearTest, AfterClear
    <2>6. TypeOK'
      BY <2>1, <2>2, <2>5
    <2>7. ByteInv'
      BY <2>1, <2>2, <2>3, <2>4
    <2>8. DatagramInv'
      BY <2>1, <2>2, <2>4
    <2>9. QED BY <2>6, <2>7, <2>8
  <1>8. CASE ClearZero   BY <1>8 DEF ClearZero, AfterClear
  <1>9. QED
    BY <1>1, <1>2, <1>3, <1>4, <1>5, <1>6, <1>7, <1>8 DEF SetCall, ClearCall

(* So do the steps of the main loop, none of which writes the byte.        *)
LEMMA LoopPreserves ==
  ASSUME IInv, Loop
  PROVE  IInv'
  <1> USE DEF IInv, TypeOK, ByteInv, DatagramInv, DatagramFlagged, Summarised,
              Locations, InSetCall, InClearCall, CallClear
  <1>1. CASE TakeSnapshot  BY <1>1 DEF TakeSnapshot
  <1>2. CASE Dispatch
    <2>1. NextEvent \in events /\ NextEvent \in Events
      BY <1>2, NextEventType DEF Dispatch
    <2>2. CASE NextEvent = RECV_FROM /\ ~gtg
      <3>1. /\ pc = "dispatch"
            /\ events' = events \ {NextEvent}
            /\ UNCHANGED <<task_events, reg, answered, gtg>>
        BY <1>2 DEF Dispatch
      <3>2. UNCHANGED <<pc, arg, cur, dirty>>
        BY <1>2, <2>2 DEF Dispatch
      <3>3. QED BY <3>1, <3>2
    <2>3. CASE ~(NextEvent = RECV_FROM /\ ~gtg)
      <3>1. cur' = NextEvent /\ task_events' = task_events /\ reg' = reg
            /\ events' = events \ {NextEvent} /\ answered' = answered /\ gtg' = gtg
            /\ dirty' = dirty \ ({NextEvent} \cap {TIMER0, TIMER1})
        BY <1>2, <2>3 DEF Dispatch
      <3>2. \/ pc' \in {"gps", "packets", "recv", "timer0"} /\ arg' = arg
            \/ pc' = "clear_load" /\ arg' = TIMER1
        BY <1>2, <2>1, <2>3 DEF Dispatch
      <3>3. RECV_FROM \in dirty' => RECV_FROM \in dirty
        BY <3>1
      <3>4. pc = "dispatch"
        BY <1>2 DEF Dispatch
      <3>5. QED BY <2>1, <3>1, <3>2, <3>3, <3>4
    <2>4. QED BY <2>2, <2>3
  <1>3. CASE EndIteration  BY <1>3 DEF EndIteration
  <1>4. CASE ParseGps      BY <1>4 DEF ParseGps
  <1>5. CASE ProcessPacket
    <2>1. PICK last, datagram, response \in BOOLEAN :
            /\ dirty' = (dirty \ ((IF last THEN {WIFI} ELSE {})
                                   \cup (IF datagram THEN {GPS} ELSE {})))
                        \cup (IF datagram THEN {RECV_FROM} ELSE {})
            /\ pc' = (IF datagram THEN "set_load" ELSE "packets")
            /\ answered' = (answered \/ response)
      BY <1>5 DEF ProcessPacket
    <2>2. /\ pc = "packets"
          /\ UNCHANGED <<task_events, reg, arg, events, cur, gtg>>
      BY <1>5 DEF ProcessPacket
    <2>3. CASE datagram
      BY <2>1, <2>2, <2>3
    <2>4. CASE ~datagram
      BY <2>1, <2>2, <2>4
    <2>5. QED BY <2>3, <2>4
  <1>6. CASE PacketsDone   BY <1>6 DEF PacketsDone
  <1>7. CASE RecvPacket
    <2>1. /\ dirty' \subseteq dirty
          /\ pc' \in {"send", "recv"} /\ pc = "recv"
          /\ UNCHANGED <<task_events, reg, arg, events, cur, answered, gtg>>
      BY <1>7 DEF RecvPacket
    <2>2. QED BY <2>1
  <1>8. CASE RecvDone      BY <1>8 DEF RecvDone
  <1>9. CASE ResponseWait  BY <1>9 DEF ResponseWait
  <1>10. CASE Timer0
    <2>1. /\ pc = "timer0"
          /\ UNCHANGED <<task_events, reg, events, cur, answered, gtg>>
      BY <1>10 DEF Timer0
    <2>2. \/ pc' = "clear_load" /\ arg' = TIMER0
          \/ pc' \in {"send", "timer0_gps"} /\ arg' = arg
      BY <1>10 DEF Timer0
    <2>3. dirty' = dirty \/ dirty' = dirty \ {GPS}
      BY <1>10 DEF Timer0
    <2>4. TypeOK'
      <3>1. dirty' \subseteq Events
        BY <2>3
      <3>2. pc' \in Locations /\ arg' \in Events \cup {ANY}
        BY <2>2
      <3>3. QED BY <2>1, <3>1, <3>2
    <2>5. ByteInv'
      BY <2>1, <2>2
    <2>6. DatagramInv'
      <3>1. RECV_FROM \in dirty' => RECV_FROM \in dirty
        BY <2>3
      <3>2. QED BY <2>1, <2>2, <3>1
    <2>7. QED BY <2>4, <2>5, <2>6
  <1>11. CASE Timer0Gps    BY <1>11 DEF Timer0Gps
  <1>12. QED
    BY <1>1, <1>2, <1>3, <1>4, <1>5, <1>6, <1>7, <1>8, <1>9, <1>10, <1>11 DEF Loop

(* The strengthened invariant is an invariant of the specification.        *)
THEOREM Inductive == Spec => []IInv
  <1>1. IInv /\ [Next]_vars => IInv'
    <2> SUFFICES ASSUME IInv, [Next]_vars
                 PROVE  IInv'
      OBVIOUS
    <2>1. CASE \E e \in IsrEvents : Interrupt(e)
      BY <2>1, InterruptPreserves
    <2>2. CASE SwitchInterrupt
      BY <2>2 DEF SwitchInterrupt, IInv, TypeOK, ByteInv, DatagramInv, DatagramFlagged,
                  Summarised
    <2>3. CASE Main
      BY <2>3, CallPreserves, LoopPreserves DEF Main
    <2>4. CASE UNCHANGED vars
      BY <2>4 DEF vars, IInv, TypeOK, ByteInv, DatagramInv, DatagramFlagged, Summarised
    <2>5. QED BY <2>1, <2>2, <2>3, <2>4 DEF Next
  <1>2. QED BY InitIInv, <1>1, PTL DEF Spec

(* Type correctness of the event byte and of main()'s control.             *)
THEOREM TypeCorrect == Spec => []TypeOK
  BY Inductive, PTL DEF IInv

(* Outside the two calls that write the byte, ANY is set exactly when an   *)
(* event is: main() never sleeps on ANY while an event is set.             *)
THEOREM AnyCorrect == Spec => []AnySummarises
  <1>1. IInv => AnySummarises
    BY DEF IInv, ByteInv, AnySummarises, InSetCall, InClearCall
  <1>2. QED BY Inductive, <1>1, PTL

(* A datagram in the queue never loses its event.                          *)
THEOREM DatagramCorrect == Spec => []DatagramFlagged
  <1>1. IInv => DatagramFlagged
    BY DEF IInv, DatagramInv
  <1>2. QED BY Inductive, <1>1, PTL
=============================================================================

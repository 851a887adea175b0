---------------------------- MODULE WifiBootProofs ----------------------------
(***************************************************************************)
(* Proofs about the start of the WiFi module, for every number of          *)
(* settings, of sockets, of unhandled requests and of connections that     *)
(* fail.                                                                   *)
(***************************************************************************)
EXTENDS WifiBoot, SequenceTheorems, TLAPS

N == Len(Settings)

(* Where main() may be in a step of the script.                            *)
PlaceOK ==
  /\ pc = "put"  => at <= Len(Script) /\ Step \notin Waits
  /\ pc = "done" <=> at > Len(Script)
  /\ found => pc \in {"packets", "clear"}
  /\ rx_socket_handle # NoSocket <=> at > N + 6
  /\ tx_socket_handle # NoSocket <=> at > N + 7

BootInv == TypeOK /\ PlaceOK

-----------------------------------------------------------------------------
(* The script: its length, its steps, and which of them are which.         *)
LEMMA ScriptLength == N \in Nat /\ Len(Script) = N + 9
  BY BootAssumption DEF Script, N

LEMMA ScriptSteps ==
  /\ Script[1] = "get_network_status" /\ Script[2] = "disconnect" /\ Script[3] = "any_event"
  /\ \A i \in 4..(N + 3) : Script[i] = Settings[i - 3]
  /\ Script[N + 4] = "connect" /\ Script[N + 5] = "status_changed"
  /\ Script[N + 6] = "create_rx" /\ Script[N + 7] = "create_tx"
  /\ Script[N + 8] = "bind_rx" /\ Script[N + 9] = "bind_tx"
  BY BootAssumption DEF Script, N

LEMMA StepAt ==
  ASSUME NEW i \in 1..(N + 9)
  PROVE  /\ Script[i] = "get_network_status" <=> i = 1
         /\ Script[i] = "disconnect"         <=> i = 2
         /\ Script[i] = "any_event"          <=> i = 3
         /\ Script[i] = "connect"            <=> i = N + 4
         /\ Script[i] = "status_changed"     <=> i = N + 5
         /\ Script[i] = "create_rx"          <=> i = N + 6
         /\ Script[i] = "create_tx"          <=> i = N + 7
         /\ Script[i] = "bind_rx"            <=> i = N + 8
         /\ Script[i] = "bind_tx"            <=> i = N + 9
         /\ Script[i] # "done" \/ i \in 4..(N + 3)
  <1>1. N \in Nat
    BY ScriptLength
  <1>2. CASE i \in 4..(N + 3)
    <2>1. i - 3 \in 1..Len(Settings) /\ Script[i] = Settings[i - 3]
      BY <1>1, <1>2, ScriptSteps DEF N
    <2>2. Script[i] \notin {"get_network_status", "disconnect", "any_event", "connect",
                     "status_changed", "create_rx", "create_tx", "bind_rx", "bind_tx"}
      BY <2>1, BootAssumption
    <2>3. QED BY <1>1, <1>2, <2>2
  <1>3. CASE i \in {1, 2, 3, N + 4, N + 5, N + 6, N + 7, N + 8, N + 9}
    BY <1>1, <1>3, ScriptSteps
  <1>4. QED BY <1>1, <1>2, <1>3

LEMMA StepIs ==
  ASSUME at \in 1..(Len(Script) + 1)
  PROVE  /\ Step = "get_network_status" <=> at = 1
         /\ Step = "any_event"          <=> at = 3
         /\ Step = "status_changed"     <=> at = N + 5
         /\ Step = "create_rx"          <=> at = N + 6
         /\ Step = "create_tx"          <=> at = N + 7
         /\ at <= Len(Script) /\ Step \notin Waits => Step \in Names
  <1>1. CASE at = Len(Script) + 1
    BY <1>1, ScriptLength DEF Step
  <1>2. CASE at # Len(Script) + 1
    <2>1. at \in 1..(N + 9) /\ at \in 1..Len(Script) /\ Step = Script[at]
      BY <1>2, ScriptLength DEF Step
    <2>2. QED BY <2>1, StepAt, ScriptLength DEF Names
  <1>3. QED BY <1>1, <1>2

LEMMA LocationIs ==
  ASSUME NEW i \in 1..(Len(Script) + 1)
  PROVE  /\ Location(i) \in {"put", "wait", "done"}
         /\ Location(i) = "done" <=> i > Len(Script)
         /\ Location(i) = "put" => i <= Len(Script) /\ Script[i] \notin Waits
  BY ScriptLength DEF Location

(* Types, and where main() may be.                                         *)
LEMMA HandlesFit ==
  /\ NoSocket \notin Handles /\ 0 \in Handles /\ WIFI_SOCKET_HANDLE_INVALID \in Handles
  /\ \A k \in 0..MaxSockets : k < MaxSockets => k \in Handles
  /\ \A h \in Handles : h \in Nat /\ h <= WIFI_SOCKET_HANDLE_INVALID
  /\ \A h \in Handles \cup {NoSocket}, k \in 0..MaxSockets : h < k => h \in Handles
  BY BootAssumption DEF Handles, NoSocket, WIFI_SOCKET_HANDLE_INVALID

LEMMA FollowingIs ==
  ASSUME at \in 1..Len(Script)
  PROVE  /\ Following \in 1..(Len(Script) + 1) /\ Following > at
         /\ at >= 3 => Following = at + 1
         /\ at < 3 => Following < N + 5
  BY StepIs, ScriptLength DEF Following

-----------------------------------------------------------------------------
(* A handle is given out once, or none is.                                 *)
Later(h, g) == h # g \/ h = WIFI_SOCKET_HANDLE_INVALID

Given(h, n) == h < n \/ h = WIFI_SOCKET_HANDLE_INVALID

Creates(i) == unread[i].type = "SOCKET_CREATE"

(* The handles on their way to main() differ from each other, from that of *)
(* the socket for receiving, and from that read for it and not yet kept.   *)
HandlesInOrder ==
  /\ \A i \in 1..Len(unread) : Creates(i) => Given(unread[i].handle, created)
  /\ \A i \in 1..Len(unread), j \in 1..Len(unread) :
       i < j /\ Creates(i) /\ Creates(j) => Later(unread[j].handle, unread[i].handle)
  /\ rx_socket_handle # NoSocket =>
       /\ Given(rx_socket_handle, created)
       /\ \A i \in 1..Len(unread) : Creates(i) => Later(unread[i].handle, rx_socket_handle)
  /\ at = N + 6 /\ found =>
       /\ Given(wifi_socket_handle, created)
       /\ \A i \in 1..Len(unread) : Creates(i) => Later(unread[i].handle, wifi_socket_handle)
  /\ at = N + 7 /\ found => Later(wifi_socket_handle, rx_socket_handle)

SocketInv == BootInv /\ HandlesInOrder /\ SocketsDiffer

-----------------------------------------------------------------------------
(* What shows main(), or will, that an attempt to connect has ended.       *)
Changed(i) == unread[i].type = "EVENT" /\ unread[i].event = "STATUS_CHANGED"

SaidUp ==
  \/ \E i \in 1..Len(unread) : Changed(i)
  \/ at = N + 5 /\ found
  \/ at > N + 5
  \/ \E i \in 1..Len(to_module) : to_module[i].name \in {"create_rx", "create_tx"}
  \/ created > 0

SaidWhenUp ==
  "disconnect" \notin handled =>
    network # "disconnecting" /\ (SaidUp => network = "up" \/ failures > 0)

-----------------------------------------------------------------------------
LEMMA BootInit == Init => BootInv
  <1> SUFFICES ASSUME Init PROVE BootInv
    OBVIOUS
  <1>1. TypeOK
    <2>1. LinkTypeOK([name : Names, handle : Handles \cup {NoSocket}], Packets, {"done"})
      <3> DEFINE Req == [name : Names, handle : Handles \cup {NoSocket}]
      <3>1. to_module = <<>> /\ unread = <<>> /\ ~wifi_event /\ ~found /\ pc = "put"
            /\ wifi_event \in BOOLEAN /\ found \in BOOLEAN
        BY DEF Init, LinkInit
      <3> HIDE DEF Req
      <3>2. to_module \in Seq(Req) /\ unread \in Seq(Packets) /\ Len(to_module) <= MaxOutstanding
        BY <3>1, OutstandingAssumption, EmptySeq
      <3>3. LinkTypeOK(Req, Packets, {"done"})
        BY <3>1, <3>2 DEF LinkTypeOK
      <3>4. QED BY <3>3 DEF Req
    <2>2. at \in 1..(Len(Script) + 1) /\ network \in {"down", "connecting", "up"}
      BY ScriptLength, BootAssumption DEF Init
    <2>3. created \in 0..MaxSockets
      BY BootAssumption DEF Init, WIFI_SOCKET_HANDLE_INVALID
    <2>4. failures \in 0..MaxFailures
      <3>1. failures = 0
        BY DEF Init
      <3>2. QED BY <3>1, BootAssumption
    <2>5. QED BY <2>1, <2>2, <2>3, <2>4, HandlesFit DEF Init, TypeOK
  <1>2. Step = Script[1]
    BY ScriptLength DEF Init, Step
  <1>3. PlaceOK
    BY <1>2, ScriptLength, ScriptSteps DEF Init, LinkInit, PlaceOK, Waits
  <1>4. QED BY <1>1, <1>3 DEF BootInv

(* What the module answers a request, and what it changes by the way.      *)
LEMMA AnswersAre ==
  /\ ACK \in Packets /\ Event("ERROR") \in Packets /\ [type |-> "SOCKET_BIND"] \in Packets
  /\ \A c \in BOOLEAN : [type |-> "NETWORK_STATUS", connected |-> c] \in Packets
  /\ \A h \in Handles : [type |-> "SOCKET_CREATE", handle |-> h] \in Packets
  BY DEF ACK, Event, Packets, EventTypes

LEMMA OneOrTwo ==
  /\ \A p \in Packets : <<p>> \in Seq(Packets) /\ Len(<<p>>) = 1 /\ <<p>>[1] = p
  /\ \A p \in Packets, q \in Packets :
       /\ <<p, q>> \in Seq(Packets) /\ Len(<<p, q>>) = 2
       /\ <<p, q>>[1] = p /\ <<p, q>>[2] = q
  OBVIOUS

LEMMA ModuleAnswers ==
  ASSUME BootInv, Module
  PROVE  /\ \E a \in Seq(Packets) : Handle(a)
         /\ UNCHANGED <<bootVars, early, failures>>
         /\ handled' = handled \cup {Request.name} /\ Request.name \in Names
         /\ network' \in {"down", "connecting", "up", "disconnecting"}
         /\ created' \in 0..MaxSockets
         /\ bound' \subseteq {"bind_rx", "bind_tx"} \X Handles
  <1>1. TypeOK /\ to_module # <<>>
    BY DEF BootInv, Module, ModuleStatus, ModuleSetting, ModuleDisconnect, ModuleConnect,
           ModuleCreate, ModuleBind
  <1>2. Request \in [name : Names, handle : Handles \cup {NoSocket}]
    BY <1>1, HeadTailProperties DEF Request, TypeOK, LinkTypeOK
  <1>3. CASE ModuleStatus
    BY <1>1, <1>2, <1>3, AnswersAre, OneOrTwo DEF ModuleStatus, Marked, TypeOK
  <1>4. CASE ModuleSetting
    BY <1>1, <1>2, <1>4, AnswersAre, OneOrTwo DEF ModuleSetting, Marked, TypeOK
  <1>5. CASE ModuleDisconnect
    BY <1>1, <1>2, <1>5, AnswersAre, OneOrTwo DEF ModuleDisconnect, Marked, TypeOK
  <1>6. CASE ModuleConnect
    BY <1>1, <1>2, <1>6, AnswersAre, OneOrTwo DEF ModuleConnect, Marked, TypeOK
  <1>7. CASE ModuleCreate
    <2>1. created < MaxSockets => created \in Handles /\ created + 1 \in 0..MaxSockets
      <3>1. created \in 0..MaxSockets
        BY <1>1 DEF TypeOK
      <3>2. MaxSockets \in Nat
        BY BootAssumption DEF WIFI_SOCKET_HANDLE_INVALID
      <3>3. created < MaxSockets => created + 1 \in 0..MaxSockets
        BY <3>1, <3>2
      <3>4. QED BY <3>1, <3>3, HandlesFit
    <2>2. \E a \in Seq(Packets) : Handle(a)
      <3>1. created < MaxSockets =>
              <<[type |-> "SOCKET_CREATE", handle |-> created]>> \in Seq(Packets)
        BY <2>1, AnswersAre, OneOrTwo
      <3>2. <<[type |-> "SOCKET_CREATE", handle |-> WIFI_SOCKET_HANDLE_INVALID]>>
              \in Seq(Packets)
        BY AnswersAre, OneOrTwo, HandlesFit
      <3>3. QED BY <1>7, <3>1, <3>2 DEF ModuleCreate
    <2>3. created' \in 0..MaxSockets
      BY <1>1, <1>7, <2>1 DEF ModuleCreate, TypeOK
    <2>4. /\ UNCHANGED <<bootVars, early, failures, network, bound>>
          /\ handled' = handled \cup {Request.name}
      BY <1>7 DEF ModuleCreate, Marked
    <2>5. QED BY <1>1, <1>2, <2>2, <2>3, <2>4 DEF TypeOK
  <1>8. CASE ModuleBind
    <2>1. Request.handle < created => Request.handle \in Handles
      BY <1>1, <1>2, HandlesFit DEF TypeOK
    <2>2. <<Request.name, Request.handle>> \in {"bind_rx", "bind_tx"} \X Handles
            \/ ~(Request.handle < created)
      BY <1>8, <2>1 DEF ModuleBind
    <2>3. bound' \subseteq {"bind_rx", "bind_tx"} \X Handles
      BY <1>1, <1>8, <2>2 DEF ModuleBind, TypeOK
    <2>4. \E a \in Seq(Packets) : Handle(a)
      BY <1>8, AnswersAre, OneOrTwo DEF ModuleBind
    <2>5. /\ UNCHANGED <<bootVars, early, failures, network, created>>
          /\ handled' = handled \cup {Request.name}
      BY <1>8 DEF ModuleBind, Marked
    <2>6. QED BY <1>1, <1>2, <2>3, <2>4, <2>5 DEF TypeOK
  <1>9. QED BY <1>3, <1>4, <1>5, <1>6, <1>7, <1>8 DEF Module

LEMMA BootStep == BootInv /\ [Next]_vars => BootInv'
  <1> SUFFICES ASSUME BootInv, [Next]_vars PROVE BootInv'
    OBVIOUS
  <1> USE DEF BootInv
  <1>0. /\ at \in 1..(Len(Script) + 1) /\ N \in Nat /\ Len(Script) = N + 9
        /\ Script' = Script /\ Names' = Names
    BY ScriptLength DEF TypeOK, Script, Names
  <1>1. CASE UNCHANGED vars
    BY <1>1 DEF vars, linkVars, bootVars, moduleVars, TypeOK, LinkTypeOK, PlaceOK, Step
  <1>2. CASE Put
    <2>1. Step \in Names /\ at <= Len(Script)
      BY <1>0, <1>2, StepIs DEF Put, PutPacket, PlaceOK
    <2>2. PICK r \in [name : Names, handle : Handles \cup {NoSocket}] :
            PutPacket(r)
      BY <1>2, <2>1 DEF Put, TypeOK
    <2>3. to_module' \in Seq([name : Names, handle : Handles \cup {NoSocket}])
          /\ Len(to_module') <= MaxOutstanding
      BY <2>2, OutstandingAssumption, AppendProperties
         DEF PutPacket, PutOnLine, TypeOK, LinkTypeOK
    <2>4. TypeOK'
      BY <1>0, <1>2, <2>2, <2>3
         DEF Put, PutPacket, bootVars, moduleVars, TypeOK, LinkTypeOK
    <2>5. PlaceOK'
      BY <1>0, <1>2, <2>1, <2>2
         DEF Put, PutPacket, bootVars, moduleVars, PlaceOK, Step
    <2>6. QED BY <2>4, <2>5
  <1>3. CASE TimeOut
    <2> DEFINE go == IF Step = "any_event" THEN Location(at + 1) ELSE "put"
    <2>1. /\ pc = "wait" /\ ~found /\ at <= Len(Script) /\ pc' = go
          /\ UNCHANGED <<to_module, unread, wifi_event, found>>
      BY <1>0, <1>3 DEF TimeOut, Timeout, PlaceOK
    <2>2. CASE Step = "any_event"
      <3>1. at = 3 /\ at' = 4 /\ pc' = Location(4)
        BY <1>0, <1>3, <2>1, <2>2, StepIs DEF TimeOut
      <3>2. /\ pc' \in {"put", "wait"}
            /\ pc' = "put" => Script[4] \notin Waits
        BY <1>0, <3>1, LocationIs
      <3>3. Step' = Script[4]
        BY <1>0, <3>1 DEF Step
      <3>4. QED BY <1>0, <1>3, <2>1, <3>1, <3>2, <3>3
            DEF TimeOut, moduleVars, TypeOK, LinkTypeOK, PlaceOK
    <2>3. CASE Step # "any_event"
      <3>1. Step \notin Waits /\ pc' = "put" /\ at' = at /\ Step' = Step
        BY <1>0, <1>3, <2>1, <2>3 DEF TimeOut, Waits, Step
      <3>2. QED BY <1>0, <1>3, <2>1, <3>1
            DEF TimeOut, moduleVars, TypeOK, LinkTypeOK, PlaceOK
    <2>4. QED BY <2>2, <2>3
  <1>4. CASE Wake
    <2>1. pc = "wait" /\ pc' = "packets" /\ found' = FALSE /\ at <= Len(Script) /\ Step' = Step
      BY <1>0, <1>4 DEF Wake, SeeEvent, bootVars, PlaceOK, Step
    <2>2. QED BY <1>0, <1>4, <2>1
          DEF Wake, SeeEvent, bootVars, moduleVars, TypeOK, LinkTypeOK, PlaceOK
  <1>5. CASE ProcessPacket
    <2> DEFINE p == Head(unread)
    <2>1. /\ unread # <<>> /\ pc = "packets" /\ pc' = pc /\ unread' = Tail(unread)
          /\ found' = (found \/ Correct(p)) /\ at' = at /\ UNCHANGED <<to_module, wifi_event>>
      BY <1>5 DEF ProcessPacket, NextPacket
    <2>2. p \in Packets /\ Tail(unread) \in Seq(Packets)
      BY <2>1, HeadTailProperties DEF TypeOK, LinkTypeOK
    <2>3. Correct(p) \in BOOLEAN
      BY DEF Correct
    <2>4. connected' \in BOOLEAN
      BY <1>5, <2>2 DEF ProcessPacket, TypeOK, Packets
    <2>5. wifi_socket_handle' \in Handles
      BY <1>5, <2>2 DEF ProcessPacket, TypeOK, Packets
    <2>6. TypeOK'
      BY <1>0, <1>5, <2>1, <2>2, <2>3, <2>4, <2>5
         DEF ProcessPacket, moduleVars, TypeOK, LinkTypeOK
    <2>7. PlaceOK'
      BY <1>0, <1>5, <2>1 DEF ProcessPacket, PlaceOK, Step
    <2>8. QED BY <2>6, <2>7
  <1>6. CASE PacketsDone
    BY <1>0, <1>6
       DEF PacketsDone, NoMorePackets, bootVars, moduleVars, TypeOK, LinkTypeOK, PlaceOK, Step
  <1>7. CASE GoOn
    <2>1. /\ pc = "clear" /\ at \in 1..Len(Script) /\ found' = FALSE /\ wifi_event' = FALSE
          /\ pc' = (IF found THEN Location(Following) ELSE "wait")
          /\ UNCHANGED <<to_module, unread, connected, wifi_socket_handle>>
      BY <1>0, <1>7 DEF GoOn, ClearEvent, PlaceOK
    <2>2. CASE found
      <3>1. /\ at' = Following /\ pc' = Location(Following)
            /\ Following \in 1..(Len(Script) + 1)
        BY <1>7, <2>1, <2>2, FollowingIs DEF GoOn
      <3>2. pc' = "put" => at' <= Len(Script) /\ Step' \notin Waits
        BY <1>0, <3>1, LocationIs DEF Step
      <3>3. pc' \in {"put", "wait", "done"} /\ (pc' = "done" <=> at' > Len(Script))
        BY <3>1, LocationIs
      <3>4. /\ Step = "create_rx" <=> at = N + 6
            /\ Step = "create_tx" <=> at = N + 7
        BY <1>0, StepIs
      <3>5. /\ rx_socket_handle' =
                 (IF at = N + 6 THEN wifi_socket_handle ELSE rx_socket_handle)
            /\ tx_socket_handle' =
                 (IF at = N + 7 THEN wifi_socket_handle ELSE tx_socket_handle)
        BY <1>7, <2>2, <3>4 DEF GoOn
      <3>6. /\ rx_socket_handle' # NoSocket <=> at' > N + 6
            /\ tx_socket_handle' # NoSocket <=> at' > N + 7
        BY <1>0, <2>1, <3>1, <3>5, FollowingIs, HandlesFit DEF TypeOK, PlaceOK
      <3>7. TypeOK'
        BY <1>0, <1>7, <2>1, <3>1, <3>3, <3>5 DEF GoOn, moduleVars, TypeOK, LinkTypeOK
      <3>8. PlaceOK'
        BY <1>0, <2>1, <3>2, <3>3, <3>6 DEF PlaceOK
      <3>9. QED BY <3>7, <3>8
    <2>3. CASE ~found
      BY <1>0, <1>7, <2>1, <2>3 DEF GoOn, moduleVars, TypeOK, LinkTypeOK, PlaceOK, Step
    <2>4. QED BY <2>2, <2>3
  <1>8. CASE Module
    <2>1. PICK a \in Seq(Packets) : Handle(a)
      BY <1>8, ModuleAnswers
    <2>2. /\ to_module' \in Seq([name : Names, handle : Handles \cup {NoSocket}])
          /\ Len(to_module') <= MaxOutstanding
      BY <2>1, HeadTailProperties, OutstandingAssumption DEF Handle, TypeOK, LinkTypeOK
    <2>3. unread' \in Seq(Packets)
      BY <2>1, ConcatProperties DEF Handle, Answer, TypeOK, LinkTypeOK
    <2>4. TypeOK'
      BY <1>0, <1>8, <2>1, <2>2, <2>3, ModuleAnswers
         DEF Handle, Answer, bootVars, TypeOK, LinkTypeOK
    <2>5. PlaceOK'
      BY <1>0, <1>8, <2>1, ModuleAnswers DEF Handle, Answer, bootVars, PlaceOK, Step
    <2>6. QED BY <2>4, <2>5
  <1>9. CASE StatusChanges
    <2>1. Event("STATUS_CHANGED") \in Packets
      BY DEF Event, Packets, EventTypes
    <2>2. unread' \in Seq(Packets) /\ wifi_event' \in BOOLEAN
      BY <1>9, <2>1, ConcatProperties DEF StatusChanges, Answer, TypeOK, LinkTypeOK
    <2>3. early' \in BOOLEAN
      BY <1>9 DEF StatusChanges, TypeOK
    <2>4. TypeOK'
      BY <1>0, <1>9, <2>2, <2>3 DEF StatusChanges, Answer, bootVars, TypeOK, LinkTypeOK
    <2>5. PlaceOK'
      BY <1>0, <1>9 DEF StatusChanges, Answer, bootVars, PlaceOK, Step
    <2>6. QED BY <2>4, <2>5
  <1>10. CASE ConnectionFails
    <2>1. Event("STATUS_CHANGED") \in Packets
      BY DEF Event, Packets, EventTypes
    <2>2. unread' \in Seq(Packets) /\ wifi_event' \in BOOLEAN
      BY <1>10, <2>1, ConcatProperties DEF ConnectionFails, Answer, TypeOK, LinkTypeOK
    <2>3. early' \in BOOLEAN /\ failures' \in 0..MaxFailures
      BY <1>10, BootAssumption DEF ConnectionFails, TypeOK
    <2>4. TypeOK'
      BY <1>0, <1>10, <2>2, <2>3 DEF ConnectionFails, Answer, bootVars, TypeOK, LinkTypeOK
    <2>5. PlaceOK'
      BY <1>0, <1>10 DEF ConnectionFails, Answer, bootVars, PlaceOK, Step
    <2>6. QED BY <2>4, <2>5
  <1>11. QED
    BY <1>1, <1>2, <1>3, <1>4, <1>5, <1>6, <1>7, <1>8, <1>9, <1>10 DEF Next, Main

(* Theorem: variables stay within their types: handles are those of the    *)
(* module or the marks for none, and main() stays within its script.       *)
THEOREM BootTypeCorrect == Spec => []TypeOK
  <1>1. BootInv => TypeOK
    BY DEF BootInv
  <1>2. QED BY <1>1, BootInit, BootStep, PTL DEF Spec

-----------------------------------------------------------------------------
(* The module appends its answers, of which one may give out a handle.     *)
LEMMA AnswersAppended ==
  ASSUME BootInv, NEW a, Answer(a), a \in Seq(Packets)
  PROVE  /\ Len(unread') = Len(unread) + Len(a) /\ Len(unread) \in Nat /\ Len(a) \in Nat
         /\ \A i \in 1..Len(unread') :
              \/ i \in 1..Len(unread) /\ unread'[i] = unread[i]
              \/ i - Len(unread) \in 1..Len(a) /\ unread'[i] = a[i - Len(unread)]
  <1>1. unread \in Seq(Packets) /\ unread' = unread \o a
    BY DEF BootInv, TypeOK, LinkTypeOK, Answer
  <1>2. /\ Len(unread') = Len(unread) + Len(a) /\ Len(unread) \in Nat /\ Len(a) \in Nat
        /\ \A i \in 1..(Len(unread) + Len(a)) :
             unread'[i] = IF i <= Len(unread) THEN unread[i] ELSE a[i - Len(unread)]
    BY <1>1, ConcatProperties, LenProperties
  <1>3. QED BY <1>2

(* A handle given out is none of those given out before, unless there is   *)
(* none left.                                                              *)
Fresh(h) == /\ \A g \in Handles : Given(g, created) => Later(h, g)
            /\ Given(h, created')

LEMMA SocketAnswers ==
  ASSUME BootInv, Module \/ StatusChanges \/ ConnectionFails
  PROVE  /\ UNCHANGED <<bootVars, found, pc>>
         /\ \A g \in Handles : Given(g, created) => Given(g, created')
         /\ \A i \in 1..Len(unread') : Creates(i)' =>
              \/ i \in 1..Len(unread) /\ unread'[i] = unread[i]
              \/ i = Len(unread) + 1 /\ i = Len(unread') /\ Fresh(unread'[i].handle)
  <1>0. TypeOK /\ created \in Nat /\ MaxSockets \in Nat /\ created <= MaxSockets
    BY BootAssumption DEF BootInv, TypeOK, WIFI_SOCKET_HANDLE_INVALID
  <1> DEFINE Silent == \E a \in Seq(Packets) :
                         Answer(a) /\ \A i \in 1..Len(a) : a[i].type # "SOCKET_CREATE"
  <1>1. ASSUME Silent, UNCHANGED <<bootVars, created>>
        PROVE  /\ UNCHANGED <<bootVars, found, pc>>
               /\ \A g \in Handles : Given(g, created) => Given(g, created')
               /\ \A i \in 1..Len(unread') : Creates(i)' =>
                    i \in 1..Len(unread) /\ unread'[i] = unread[i]
    <2>1. PICK a \in Seq(Packets) :
            Answer(a) /\ \A i \in 1..Len(a) : a[i].type # "SOCKET_CREATE"
      BY <1>1
    <2>2. QED BY <1>1, <2>1, AnswersAppended DEF Answer, Given, Creates
  <1>3. \A p \in Packets, q \in Packets :
          p.type # "SOCKET_CREATE" /\ q.type # "SOCKET_CREATE" =>
            (Answer(<<p>>) => Silent) /\ (Answer(<<p, q>>) => Silent)
    <2> TAKE p \in Packets, q \in Packets
    <2> HAVE p.type # "SOCKET_CREATE" /\ q.type # "SOCKET_CREATE"
    <2>1. \A i \in 1..Len(<<p>>) : <<p>>[i].type # "SOCKET_CREATE"
      <3>1. \A i \in 1..Len(<<p>>) : <<p>>[i] = p
        BY OneOrTwo
      <3>2. QED BY <3>1
    <2>2. \A i \in 1..Len(<<p, q>>) : <<p, q>>[i].type # "SOCKET_CREATE"
      <3>1. \A i \in 1..Len(<<p, q>>) : <<p, q>>[i] = p \/ <<p, q>>[i] = q
        BY OneOrTwo
      <3>2. QED BY <3>1
    <2>3. <<p>> \in Seq(Packets) /\ <<p, q>> \in Seq(Packets)
      BY OneOrTwo
    <2>4. QED BY <2>1, <2>2, <2>3
  <1>4. CASE ModuleStatus
    <2>1. Silent
      <3>1. Answer(<<[type |-> "NETWORK_STATUS", connected |-> network = "up"]>>)
        BY <1>4 DEF ModuleStatus, Handle
      <3>2. QED BY <3>1, <1>3, AnswersAre
    <2>2. QED BY <1>1, <1>4, <2>1 DEF ModuleStatus
  <1>5. ACK.type # "SOCKET_CREATE" /\ \A e : Event(e).type # "SOCKET_CREATE"
    BY DEF ACK, Event
  <1>6. CASE ModuleSetting
    <2>1. Silent
      BY <1>6, <1>3, <1>5, AnswersAre DEF ModuleSetting, Handle
    <2>2. QED BY <1>1, <1>6, <2>1 DEF ModuleSetting
  <1>7. CASE ModuleDisconnect
    <2>1. Silent
      BY <1>7, <1>3, <1>5, AnswersAre DEF ModuleDisconnect, Handle
    <2>2. QED BY <1>1, <1>7, <2>1 DEF ModuleDisconnect
  <1>8. CASE ModuleConnect
    <2>1. Silent
      BY <1>8, <1>3, <1>5, AnswersAre DEF ModuleConnect, Handle
    <2>2. QED BY <1>1, <1>8, <2>1 DEF ModuleConnect
  <1>9. CASE ModuleBind
    <2>1. Silent
      <3>1. Answer(<<[type |-> "SOCKET_BIND"]>>)
        BY <1>9 DEF ModuleBind, Handle
      <3>2. QED BY <3>1, <1>3, AnswersAre
    <2>2. QED BY <1>1, <1>9, <2>1 DEF ModuleBind
  <1>10. CASE StatusChanges \/ ConnectionFails
    <2>1. Event("STATUS_CHANGED") \in Packets
      BY DEF Event, Packets, EventTypes
    <2>2. Silent
      BY <1>10, <1>3, <1>5, <2>1 DEF StatusChanges, ConnectionFails
    <2>3. QED BY <1>1, <1>10, <2>2 DEF StatusChanges, ConnectionFails
  <1>11. CASE ModuleCreate
    <2>1. PICK h \in Handles :
            /\ Answer(<<[type |-> "SOCKET_CREATE", handle |-> h]>>)
            /\ \/ h = created /\ created < MaxSockets /\ created' = created + 1
               \/ h = WIFI_SOCKET_HANDLE_INVALID /\ created' = created
      <3>1. created < MaxSockets => created \in Handles
        BY <1>0, HandlesFit
      <3>2. CASE /\ created < MaxSockets /\ created' = created + 1
                 /\ Handle(<<[type |-> "SOCKET_CREATE", handle |-> created]>>)
        BY <3>1, <3>2 DEF Handle
      <3>3. CASE /\ created' = created
                 /\ Handle(<<[type |-> "SOCKET_CREATE", handle |-> WIFI_SOCKET_HANDLE_INVALID]>>)
        BY <3>3, HandlesFit DEF Handle
      <3>4. QED BY <1>11, <3>2, <3>3 DEF ModuleCreate
    <2>2. Fresh(h)
      <3>1. \A g \in Handles : Given(g, created) => Later(h, g)
        BY <1>0, <2>1, HandlesFit DEF Given, Later
      <3>2. Given(h, created')
        BY <1>0, <2>1 DEF Given
      <3>3. QED BY <3>1, <3>2 DEF Fresh
    <2>3. \A g \in Handles : Given(g, created) => Given(g, created')
      BY <1>0, <2>1, HandlesFit DEF Given
    <2> DEFINE p == [type |-> "SOCKET_CREATE", handle |-> h]
    <2>4. p \in Packets /\ p.handle = h
      BY AnswersAre
    <2> HIDE DEF p
    <2>5. <<p>> \in Seq(Packets) /\ Len(<<p>>) = 1 /\ <<p>>[1] = p
      BY <2>4, OneOrTwo
    <2>6. \A i \in 1..Len(unread') :
            \/ i \in 1..Len(unread) /\ unread'[i] = unread[i]
            \/ i = Len(unread) + 1 /\ i = Len(unread') /\ unread'[i] = p
      <3>1. Answer(<<p>>)
        BY <2>1 DEF p
      <3>2. /\ Len(unread') = Len(unread) + 1 /\ Len(unread) \in Nat
            /\ \A i \in 1..Len(unread') :
                 \/ i \in 1..Len(unread) /\ unread'[i] = unread[i]
                 \/ i - Len(unread) \in 1..1 /\ unread'[i] = <<p>>[i - Len(unread)]
        BY <2>5, <3>1, AnswersAppended
      <3>3. QED BY <2>5, <3>2
    <2>7. UNCHANGED <<bootVars, found, pc>>
      BY <1>11, <2>1 DEF ModuleCreate, Answer
    <2>8. QED BY <2>2, <2>3, <2>4, <2>6, <2>7
  <1>12. QED
    BY <1>4, <1>6, <1>7, <1>8, <1>9, <1>10, <1>11 DEF Module

-----------------------------------------------------------------------------
LEMMA HandleType ==
  ASSUME BootInv, NEW i \in 1..Len(unread), Creates(i)
  PROVE  unread[i].handle \in Handles
  <1>1. unread[i] \in Packets
    BY DEF BootInv, TypeOK, LinkTypeOK
  <1>2. QED BY <1>1 DEF Creates, Packets

LEMMA LaterIs ==
  \A h \in Handles, g \in Handles : Later(h, g) => h # g \/ h = WIFI_SOCKET_HANDLE_INVALID
  BY HandlesFit DEF Later

LEMMA SocketInit == Init => HandlesInOrder /\ SocketsDiffer
  BY ScriptLength DEF Init, LinkInit, HandlesInOrder, SocketsDiffer, Creates

LEMMA SocketStep == SocketInv /\ [Next]_vars => SocketInv'
  <1> SUFFICES ASSUME SocketInv, [Next]_vars PROVE HandlesInOrder' /\ SocketsDiffer'
    BY BootStep DEF SocketInv
  <1> USE DEF SocketInv
  <1>0. /\ BootInv /\ TypeOK /\ PlaceOK
        /\ at \in 1..(Len(Script) + 1) /\ N \in Nat /\ Len(Script) = N + 9
    BY ScriptLength DEF BootInv, TypeOK
  <1>1. CASE UNCHANGED <<bootVars, unread, found, created>>
    BY <1>1 DEF bootVars, HandlesInOrder, SocketsDiffer, Given, Creates
  <1>2. CASE Put
    BY <1>1, <1>2 DEF Put, PutPacket, moduleVars
  <1>3. CASE PacketsDone
    BY <1>1, <1>3 DEF PacketsDone, NoMorePackets, moduleVars
  <1>4. CASE TimeOut
    <2>1. /\ ~found /\ UNCHANGED <<unread, found, created, wifi_socket_handle>>
          /\ UNCHANGED <<rx_socket_handle, tx_socket_handle>>
      BY <1>0, <1>4 DEF TimeOut, Timeout, moduleVars, PlaceOK
    <2>2. QED BY <2>1 DEF HandlesInOrder, SocketsDiffer, Given, Creates
  <1>5. CASE Wake
    <2>1. ~found' /\ UNCHANGED <<bootVars, unread, created>>
      BY <1>5 DEF Wake, SeeEvent, moduleVars
    <2>2. QED BY <2>1 DEF bootVars, HandlesInOrder, SocketsDiffer, Given, Creates
  <1>6. CASE ProcessPacket
    <2> DEFINE p == Head(unread)
    <2>1. /\ unread # <<>> /\ unread' = Tail(unread) /\ found' = (found \/ Correct(p))
          /\ wifi_socket_handle' =
               (IF p.type = "SOCKET_CREATE" THEN p.handle ELSE wifi_socket_handle)
          /\ UNCHANGED <<at, created, rx_socket_handle, tx_socket_handle>>
      BY <1>6 DEF ProcessPacket, NextPacket, moduleVars
    <2>2. /\ Len(unread') = Len(unread) - 1 /\ Len(unread) \in Nat \ {0} /\ p = unread[1]
          /\ \A i \in 1..Len(unread') : i + 1 \in 1..Len(unread) /\ unread'[i] = unread[i + 1]
      <3>1. unread \in Seq(Packets)
        BY <1>0 DEF TypeOK, LinkTypeOK
      <3>2. QED BY <2>1, <3>1, HeadTailProperties, EmptySeq
    <2>3. \A i \in 1..Len(unread') : Creates(i)' <=> Creates(i + 1)
      BY <2>2 DEF Creates
    <2>4. /\ \A i \in 1..Len(unread') : Creates(i)' => Given(unread'[i].handle, created')
          /\ \A i \in 1..Len(unread'), j \in 1..Len(unread') :
               i < j /\ Creates(i)' /\ Creates(j)' => Later(unread'[j].handle, unread'[i].handle)
      BY <2>1, <2>2, <2>3 DEF HandlesInOrder, Given
    <2>5. rx_socket_handle' # NoSocket =>
            /\ Given(rx_socket_handle', created')
            /\ \A i \in 1..Len(unread') :
                 Creates(i)' => Later(unread'[i].handle, rx_socket_handle')
      BY <2>1, <2>2, <2>3 DEF HandlesInOrder, Given
    <2>6. CASE p.type = "SOCKET_CREATE"
      <3>1. /\ Creates(1) /\ 1 \in 1..Len(unread) /\ wifi_socket_handle' = unread[1].handle
        BY <2>1, <2>2, <2>6 DEF Creates
      <3>2. Given(wifi_socket_handle', created')
        BY <2>1, <3>1 DEF HandlesInOrder, Given
      <3>3. \A i \in 1..Len(unread') :
              Creates(i)' => Later(unread'[i].handle, wifi_socket_handle')
        <4>1. \A i \in 1..Len(unread') : 1 < i + 1
          BY <2>2
        <4>2. QED BY <2>2, <2>3, <3>1, <4>1 DEF HandlesInOrder
      <3>4. at = N + 7 => Later(wifi_socket_handle', rx_socket_handle')
        BY <1>0, <2>1, <3>1 DEF HandlesInOrder, PlaceOK
      <3>5. QED BY <2>1, <2>4, <2>5, <3>2, <3>3, <3>4 DEF HandlesInOrder, SocketsDiffer
    <2>7. CASE p.type # "SOCKET_CREATE"
      <3>1. at \in {N + 6, N + 7} => ~Correct(p)
        <4>1. at \in {N + 6, N + 7} => Step \in {"create_rx", "create_tx"}
          BY <1>0, StepIs
        <4>2. QED BY <2>7, <4>1 DEF Correct, Response
      <3>2. wifi_socket_handle' = wifi_socket_handle
        BY <2>1, <2>7
      <3>3. (at = N + 6 \/ at = N + 7) /\ found' => found
        BY <2>1, <3>1
      <3>4. at' = N + 6 /\ found' =>
              /\ Given(wifi_socket_handle', created')
              /\ \A i \in 1..Len(unread') :
                   Creates(i)' => Later(unread'[i].handle, wifi_socket_handle')
        BY <2>1, <2>2, <2>3, <3>2, <3>3 DEF HandlesInOrder, Given
      <3>5. at' = N + 7 /\ found' => Later(wifi_socket_handle', rx_socket_handle')
        BY <2>1, <3>2, <3>3 DEF HandlesInOrder
      <3>6. QED BY <2>1, <2>4, <2>5, <3>4, <3>5 DEF HandlesInOrder, SocketsDiffer
    <2>8. QED BY <2>6, <2>7
  <1>7. CASE GoOn
    <2>1. /\ at \in 1..Len(Script) /\ found' = FALSE
          /\ UNCHANGED <<unread, created, wifi_socket_handle>>
      BY <1>0, <1>7 DEF GoOn, ClearEvent, moduleVars, PlaceOK
    <2>2. \A i : Creates(i)' = Creates(i)
      BY <2>1 DEF Creates
    <2>3. CASE found /\ at = N + 6
      <3>1. rx_socket_handle' = wifi_socket_handle /\ tx_socket_handle' = tx_socket_handle
        BY <1>0, <1>7, <2>3, StepIs DEF GoOn
      <3>2. tx_socket_handle = NoSocket /\ wifi_socket_handle \in Handles
        BY <1>0, <2>3 DEF PlaceOK, TypeOK
      <3>3. QED BY <2>1, <2>2, <2>3, <3>1, <3>2, HandlesFit DEF HandlesInOrder, SocketsDiffer
    <2>4. CASE found /\ at = N + 7
      <3>1. rx_socket_handle' = rx_socket_handle /\ tx_socket_handle' = wifi_socket_handle
        BY <1>0, <1>7, <2>4, StepIs DEF GoOn
      <3>2. rx_socket_handle \in Handles /\ wifi_socket_handle \in Handles
        BY <1>0, <2>4 DEF PlaceOK, TypeOK
      <3>3. rx_socket_handle # wifi_socket_handle \/ wifi_socket_handle = WIFI_SOCKET_HANDLE_INVALID
        BY <2>4, <3>2, LaterIs DEF HandlesInOrder
      <3>4. QED BY <2>1, <2>2, <3>1, <3>2, <3>3, HandlesFit DEF HandlesInOrder, SocketsDiffer
    <2>5. CASE ~found \/ at \notin {N + 6, N + 7}
      <3>1. rx_socket_handle' = rx_socket_handle /\ tx_socket_handle' = tx_socket_handle
        BY <1>0, <1>7, <2>5, StepIs DEF GoOn
      <3>2. QED BY <2>1, <2>2, <3>1 DEF HandlesInOrder, SocketsDiffer
    <2>6. QED BY <2>3, <2>4, <2>5
  <1>8. CASE Module \/ StatusChanges \/ ConnectionFails
    <2>1. UNCHANGED <<at, wifi_socket_handle, rx_socket_handle, tx_socket_handle, found>>
      BY <1>0, <1>8, SocketAnswers DEF bootVars
    <2>2. \A i \in 1..Len(unread') : Creates(i)' =>
            \/ i \in 1..Len(unread) /\ unread'[i] = unread[i] /\ Creates(i)
               /\ unread[i].handle \in Handles
            \/ i = Len(unread) + 1 /\ i = Len(unread') /\ Fresh(unread'[i].handle)
      BY <1>0, <1>8, SocketAnswers, HandleType DEF Creates
    <2>3. \A g \in Handles : Given(g, created) => Given(g, created')
      BY <1>0, <1>8, SocketAnswers
    <2>4. \A i \in 1..Len(unread') : Creates(i)' => Given(unread'[i].handle, created')
      BY <2>2, <2>3 DEF HandlesInOrder, Fresh
    <2>5. \A g \in Handles :
            /\ Given(g, created)
            /\ \A i \in 1..Len(unread) : Creates(i) => Later(unread[i].handle, g)
            => \A i \in 1..Len(unread') : Creates(i)' => Later(unread'[i].handle, g)
      BY <2>2 DEF Fresh
    <2>6. ASSUME NEW i \in 1..Len(unread'), NEW j \in 1..Len(unread'),
                 i < j, Creates(i)', Creates(j)'
          PROVE  Later(unread'[j].handle, unread'[i].handle)
      <3>1. CASE i = Len(unread')
        BY <2>6, <3>1
      <3>2. CASE i # Len(unread')
        <4>1. /\ i \in 1..Len(unread) /\ unread'[i] = unread[i] /\ Creates(i)
              /\ unread[i].handle \in Handles /\ Given(unread[i].handle, created)
          BY <2>2, <2>6, <3>2 DEF HandlesInOrder
        <4>2. CASE j \in 1..Len(unread) /\ unread'[j] = unread[j] /\ Creates(j)
          BY <2>6, <4>1, <4>2 DEF HandlesInOrder
        <4>3. CASE Fresh(unread'[j].handle)
          BY <4>1, <4>3 DEF Fresh
        <4>4. QED BY <2>2, <2>6, <4>2, <4>3
      <3>3. QED BY <3>1, <3>2
    <2>7. rx_socket_handle # NoSocket => rx_socket_handle \in Handles
      BY <1>0 DEF TypeOK
    <2>8. wifi_socket_handle \in Handles
      BY <1>0 DEF TypeOK
    <2>9. rx_socket_handle' # NoSocket =>
            /\ Given(rx_socket_handle', created')
            /\ \A i \in 1..Len(unread') :
                 Creates(i)' => Later(unread'[i].handle, rx_socket_handle')
      BY <2>1, <2>3, <2>5, <2>7 DEF HandlesInOrder
    <2>10. at' = N + 6 /\ found' =>
            /\ Given(wifi_socket_handle', created')
            /\ \A i \in 1..Len(unread') :
                 Creates(i)' => Later(unread'[i].handle, wifi_socket_handle')
      BY <2>1, <2>3, <2>5, <2>8 DEF HandlesInOrder
    <2>11. QED BY <2>1, <2>4, <2>6, <2>9, <2>10 DEF HandlesInOrder, SocketsDiffer
  <1>9. QED
    BY <1>1, <1>2, <1>3, <1>4, <1>5, <1>6, <1>7, <1>8 DEF Next, Main, vars, linkVars, moduleVars

(* Theorem: main() never uses one socket for both directions, however many *)
(* requests to create one are repeated and however late their answers are. *)
THEOREM SocketsDifferCorrect == Spec => []SocketsDiffer
  <1>1. Init => SocketInv
    BY BootInit, SocketInit DEF SocketInv
  <1>2. SocketInv => SocketsDiffer
    BY DEF SocketInv
  <1>3. QED BY <1>1, <1>2, SocketStep, PTL DEF Spec

-----------------------------------------------------------------------------
(* No answer to a request says that the status of the network changed.     *)
LEMMA ModuleEvents ==
  ASSUME BootInv, Module
  PROVE  /\ \A i \in 1..Len(unread') : Changed(i)' => i \in 1..Len(unread) /\ Changed(i)
         /\ to_module # <<>> /\ to_module' = Tail(to_module)
  <1> DEFINE Quiet(p) == ~(p.type = "EVENT" /\ p.event = "STATUS_CHANGED")
             Silent == \E a \in Seq(Packets) : Handle(a) /\ \A i \in 1..Len(a) : Quiet(a[i])
  <1> HIDE DEF Quiet
  <1>2. \A p \in Packets, q \in Packets :
          Quiet(p) /\ Quiet(q) => (Handle(<<p>>) => Silent) /\ (Handle(<<p, q>>) => Silent)
    <2> TAKE p \in Packets, q \in Packets
    <2> HAVE Quiet(p) /\ Quiet(q)
    <2>1. \A i \in 1..Len(<<p>>) : Quiet(<<p>>[i])
      <3>1. \A i \in 1..Len(<<p>>) : <<p>>[i] = p
        BY OneOrTwo
      <3>2. QED BY <3>1
    <2>2. \A i \in 1..Len(<<p, q>>) : Quiet(<<p, q>>[i])
      <3>1. \A i \in 1..Len(<<p, q>>) : <<p, q>>[i] = p \/ <<p, q>>[i] = q
        BY OneOrTwo
      <3>2. QED BY <3>1
    <2>3. QED BY OneOrTwo, <2>1, <2>2
  <1>3. Quiet(ACK) /\ Quiet(Event("ERROR"))
    BY DEF ACK, Event, Quiet
  <1>4. ASSUME ModuleStatus PROVE Silent
    <2> DEFINE p == [type |-> "NETWORK_STATUS", connected |-> network = "up"]
    <2>1. p \in Packets /\ Quiet(p)
      BY AnswersAre DEF Quiet
    <2>2. Handle(<<p>>)
      BY <1>4 DEF ModuleStatus
    <2>3. QED BY <1>2, <2>1, <2>2
  <1>5. ASSUME ModuleSetting PROVE Silent
    BY <1>2, <1>3, <1>5, AnswersAre DEF ModuleSetting
  <1>6. ASSUME ModuleDisconnect PROVE Silent
    BY <1>2, <1>3, <1>6, AnswersAre DEF ModuleDisconnect
  <1>7. ASSUME ModuleConnect PROVE Silent
    BY <1>2, <1>3, <1>7, AnswersAre DEF ModuleConnect
  <1>8. ASSUME ModuleBind PROVE Silent
    <2> DEFINE p == [type |-> "SOCKET_BIND"]
    <2>1. p \in Packets /\ Quiet(p)
      BY AnswersAre DEF Quiet
    <2>2. Handle(<<p>>)
      BY <1>8 DEF ModuleBind
    <2>3. QED BY <1>2, <2>1, <2>2
  <1>9. ASSUME ModuleCreate PROVE Silent
    <2>1. PICK h \in Handles : Handle(<<[type |-> "SOCKET_CREATE", handle |-> h]>>)
      BY <1>9, HandlesFit DEF ModuleCreate, BootInv, TypeOK
    <2> DEFINE p == [type |-> "SOCKET_CREATE", handle |-> h]
    <2>2. p \in Packets /\ Quiet(p)
      BY AnswersAre DEF Quiet
    <2>3. Handle(<<p>>)
      BY <2>1
    <2>4. QED BY <1>2, <2>2, <2>3
  <1>10. Silent
    BY <1>4, <1>5, <1>6, <1>7, <1>8, <1>9 DEF Module
  <1>11. PICK a \in Seq(Packets) : Handle(a) /\ \A i \in 1..Len(a) : Quiet(a[i])
    BY <1>10
  <1>12. QED BY <1>11, AnswersAppended DEF Handle, Changed, Quiet

LEMMA SaidInit == Init => SaidWhenUp
  <1> SUFFICES ASSUME Init PROVE SaidWhenUp
    OBVIOUS
  <1>1. network # "disconnecting"
    BY BootAssumption DEF Init
  <1>2. ~SaidUp
    BY ScriptLength DEF Init, LinkInit, SaidUp
  <1>3. QED BY <1>1, <1>2 DEF SaidWhenUp

LEMMA SaidStep == BootInv /\ SaidWhenUp /\ [Next]_vars => SaidWhenUp'
  <1> SUFFICES ASSUME BootInv, SaidWhenUp, [Next]_vars, "disconnect" \notin handled'
               PROVE  network' # "disconnecting" /\ (SaidUp' => network' = "up" \/ failures' > 0)
    BY DEF SaidWhenUp
  <1>0. /\ TypeOK /\ PlaceOK /\ "disconnect" \notin handled
        /\ at \in 1..(Len(Script) + 1) /\ N \in Nat /\ Len(Script) = N + 9
    <2>1. handled \subseteq handled'
      BY ModuleAnswers 
         DEF Next, Main, Put, TimeOut, Wake, ProcessPacket, PacketsDone, GoOn,
             StatusChanges, ConnectionFails, vars, moduleVars
    <2>2. QED BY <2>1, ScriptLength DEF BootInv, TypeOK
  <1>1. ASSUME SaidUp' => SaidUp, network' = network, failures' = failures
        PROVE  network' # "disconnecting" /\ (SaidUp' => network' = "up" \/ failures' > 0)
    BY <1>0, <1>1 DEF SaidWhenUp
  <1>2. CASE UNCHANGED <<at, found, unread, to_module, created, network, failures>>
    BY <1>1, <1>2 DEF SaidUp, Changed
  <1>3. CASE PacketsDone
    BY <1>2, <1>3 DEF PacketsDone, NoMorePackets, bootVars, moduleVars
  <1>4. CASE Put
    <2>1. PICK r \in [name : Names, handle : Handles \cup {NoSocket}] :
            to_module' = Append(to_module, r) /\ r.name = Step
      <3>1. Step \in Names
        BY <1>0, <1>4, StepIs DEF Put, PutPacket, PlaceOK
      <3>2. QED BY <1>0, <1>4, <3>1 DEF Put, PutPacket, PutOnLine, TypeOK
    <2>2. r.name \in {"create_rx", "create_tx"} => at > N + 5
      BY <1>0, <2>1, StepIs
    <2>3. \A i \in 1..Len(to_module') :
            \/ i \in 1..Len(to_module) /\ to_module'[i] = to_module[i]
            \/ to_module'[i] = r
      BY <1>0, <2>1, AppendProperties DEF TypeOK, LinkTypeOK
    <2>4. UNCHANGED <<at, found, unread, created, network, failures>>
      BY <1>4 DEF Put, PutPacket, bootVars, moduleVars
    <2>5. (\E i \in 1..Len(to_module') : to_module'[i].name \in {"create_rx", "create_tx"}) =>
            SaidUp
      BY <2>2, <2>3 DEF SaidUp
    <2>6. SaidUp' => SaidUp
      BY <2>4, <2>5 DEF SaidUp, Changed
    <2>7. QED BY <1>1, <2>4, <2>6
  <1>5. CASE TimeOut
    <2>1. UNCHANGED <<found, unread, to_module, created, network, failures>> /\ ~found
      BY <1>0, <1>5 DEF TimeOut, Timeout, moduleVars, PlaceOK
    <2>2. at' = at \/ at' = 4
      BY <1>0, <1>5, StepIs DEF TimeOut
    <2>3. SaidUp' => SaidUp
      <3>1. at' > N + 5 => at > N + 5
        BY <1>0, <2>2
      <3>2. QED BY <2>1, <3>1 DEF SaidUp, Changed
    <2>4. QED BY <1>1, <2>1, <2>3
  <1>6. CASE Wake
    <2>1. UNCHANGED <<at, unread, to_module, created, network, failures>> /\ ~found'
      BY <1>6 DEF Wake, SeeEvent, bootVars, moduleVars
    <2>2. QED BY <1>1, <2>1 DEF SaidUp, Changed
  <1>7. CASE ProcessPacket
    <2>1. /\ unread # <<>> /\ unread' = Tail(unread) /\ found' = (found \/ Correct(Head(unread)))
          /\ UNCHANGED <<at, to_module, created, network, failures>>
      BY <1>7 DEF ProcessPacket, NextPacket, moduleVars
    <2>2. /\ Len(unread) \in Nat \ {0} /\ Head(unread) = unread[1]
          /\ \A i \in 1..Len(unread') : i + 1 \in 1..Len(unread) /\ unread'[i] = unread[i + 1]
      <3>1. unread \in Seq(Packets)
        BY <1>0 DEF TypeOK, LinkTypeOK
      <3>2. QED BY <2>1, <3>1, HeadTailProperties, EmptySeq
    <2>3. \A i \in 1..Len(unread') : Changed(i)' => i + 1 \in 1..Len(unread) /\ Changed(i + 1)
      BY <2>2 DEF Changed
    <2>4. at = N + 5 /\ Correct(Head(unread)) => 1 \in 1..Len(unread) /\ Changed(1)
      <3>1. at = N + 5 => Step = "status_changed"
        BY <1>0, StepIs
      <3>2. QED BY <2>2, <3>1 DEF Correct, Changed
    <2>5. QED BY <1>1, <2>1, <2>3, <2>4 DEF SaidUp
  <1>8. CASE GoOn
    <2>1. /\ at \in 1..Len(Script) /\ ~found' /\ at' = (IF found THEN Following ELSE at)
          /\ UNCHANGED <<unread, to_module, created, network, failures>>
      BY <1>0, <1>8 DEF GoOn, ClearEvent, moduleVars, PlaceOK
    <2>2. at' > N + 5 => at > N + 5 \/ (at = N + 5 /\ found)
      BY <1>0, <2>1, FollowingIs
    <2>3. QED BY <1>1, <2>1, <2>2 DEF SaidUp, Changed
  <1>9. CASE Module
    <2>1. /\ to_module # <<>> /\ to_module' = Tail(to_module)
          /\ \A i \in 1..Len(unread') : Changed(i)' => i \in 1..Len(unread) /\ Changed(i)
          /\ UNCHANGED <<at, found, failures>> /\ Request.name # "disconnect"
      <3>1. handled' = handled \cup {Request.name} /\ UNCHANGED <<bootVars, failures>>
        BY <1>9, ModuleAnswers
      <3>2. UNCHANGED found
        BY <1>9, SocketAnswers
      <3>3. QED BY <1>9, <3>1, <3>2, ModuleEvents DEF bootVars
    <2>2. /\ 1 \in 1..Len(to_module) /\ Request = to_module[1]
          /\ \A i \in 1..Len(to_module') :
               i + 1 \in 1..Len(to_module) /\ to_module'[i] = to_module[i + 1]
      <3>1. to_module \in Seq([name : Names, handle : Handles \cup {NoSocket}])
        BY <1>0 DEF TypeOK, LinkTypeOK
      <3>2. QED BY <2>1, <3>1, HeadTailProperties, EmptySeq DEF Request
    <2>3. created' = created \/ Request.name \in {"create_rx", "create_tx"}
      BY <1>9 DEF Module, ModuleStatus, ModuleSetting, ModuleDisconnect, ModuleConnect,
                  ModuleCreate, ModuleBind
    <2>4. SaidUp' => SaidUp
      BY <2>1, <2>2, <2>3 DEF SaidUp
    <2>5. network' = network \/ (network = "down" /\ network' = "connecting")
      BY <1>9, <2>1 DEF Module, ModuleStatus, ModuleSetting, ModuleDisconnect, ModuleConnect,
                        ModuleCreate, ModuleBind
    <2>6. SaidUp => network = "up" \/ failures > 0
      BY <1>0 DEF SaidWhenUp
    <2>7. network # "disconnecting"
      BY <1>0 DEF SaidWhenUp
    <2>8. QED BY <2>1, <2>4, <2>5, <2>6, <2>7
  <1>10. CASE StatusChanges
    BY <1>0, <1>10 DEF StatusChanges, SaidWhenUp
  <1>11. CASE ConnectionFails
    BY <1>0, <1>11, BootAssumption DEF ConnectionFails, TypeOK
  <1>12. CASE UNCHANGED vars
    BY <1>2, <1>12 DEF vars, linkVars, bootVars, moduleVars
  <1>13. QED
    BY <1>3, <1>4, <1>5, <1>6, <1>7, <1>8, <1>9, <1>10, <1>11, <1>12 DEF Next, Main

(* Theorem: main() creates sockets only when its own attempt to connect    *)
(* has ended, unless the module had to disconnect first.                   *)
THEOREM ConnectedBeforeSocketsCorrect == Spec => []ConnectedBeforeSockets
  <1>1. Init => BootInv /\ SaidWhenUp
    BY BootInit, SaidInit
  <1>2. BootInv /\ SaidWhenUp /\ [Next]_vars => (BootInv /\ SaidWhenUp)'
    BY BootStep, SaidStep
  <1>3. BootInv /\ SaidWhenUp => ConnectedBeforeSockets
    <2> SUFFICES ASSUME BootInv, SaidWhenUp, "disconnect" \notin handled,
                        rx_socket_handle # NoSocket \/ created > 0
                 PROVE  network = "up" \/ failures > 0
      BY DEF ConnectedBeforeSockets
    <2>1. rx_socket_handle # NoSocket => at > N + 5
      BY ScriptLength DEF BootInv, PlaceOK, TypeOK
    <2>2. QED BY <2>1 DEF SaidWhenUp, SaidUp
  <1>4. QED BY <1>1, <1>2, <1>3, PTL DEF Spec
=============================================================================

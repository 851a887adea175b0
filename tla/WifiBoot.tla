------------------------------ MODULE WifiBoot ------------------------------
(***************************************************************************)
(* How main() brings the WiFi module up (dsrc.c:125-137): disconnect, set  *)
(* the configuration, connect, create and bind the sockets.  The module    *)
(* answers each request late or early; main() repeats what is not answered *)
(* within 100 ms, so that answers come more than once.  An attempt to      *)
(* connect may fail, and a network that is up may drop: the module reports *)
(* both with the same STATUS_CHANGED event as a success, and main() does   *)
(* not read the status in it.                                              *)
(***************************************************************************)
EXTENDS WifiLink, FiniteSets

CONSTANTS Settings,      \* the requests of wifi_configure(), in order
          MaxSockets,    \* sockets the module can create
          InitialNet,    \* what the network may be at power up
          MaxFailures    \* how often an attempt to connect may fail or a network drop

WIFI_SOCKET_HANDLE_INVALID == 254
NoSocket == 255   \* the handles' initial value, 0xFF

Handles == 0..(MaxSockets - 1) \cup {WIFI_SOCKET_HANDLE_INVALID}

(* A setting is none of the other steps, a handle is not one of the two    *)
(* values that stand for no socket, and no disconnection is under way at   *)
(* power up.                                                               *)
ASSUME BootAssumption ==
  /\ Settings \in Seq(STRING)
  /\ \A i \in 1..Len(Settings) :
       Settings[i] \notin {"get_network_status", "disconnect", "any_event", "connect",
                          "status_changed", "create_rx", "create_tx", "bind_rx", "bind_tx"}
  /\ MaxSockets \in 1..WIFI_SOCKET_HANDLE_INVALID
  /\ InitialNet \subseteq {"down", "connecting", "up"}
  /\ MaxFailures \in Nat

VARIABLES
  at,                   \* where main() is in the script
  connected,            \* wifi_network_status.status is one of the CONNECTED
  wifi_socket_handle,   \* the handle in the last SOCKET_CREATE response
  rx_socket_handle, tx_socket_handle,
  network,              \* the module: its network,
  created,              \* how many sockets it has created,
  bound,                \* the ports bound, with their sockets,
  handled,              \* and history: the requests it has handled,
  early,                \* whether an attempt ended before main() looked out for it,
  failures              \* and how often one failed, or the network dropped

bootVars   == <<at, connected, wifi_socket_handle, rx_socket_handle, tx_socket_handle>>
moduleVars == <<network, created, bound, handled, early, failures>>
vars       == <<linkVars, bootVars, moduleVars>>

-----------------------------------------------------------------------------
(* The script: requests, each repeated until it is answered, and two waits *)
(* for events.                                                             *)
Script == <<"get_network_status", "disconnect", "any_event">> \o Settings
          \o <<"connect", "status_changed", "create_rx", "create_tx", "bind_rx", "bind_tx">>

Step  == IF at <= Len(Script) THEN Script[at] ELSE "done"
Waits == {"any_event", "status_changed"}

Response(request) ==
  CASE request = "get_network_status"        -> "NETWORK_STATUS"
    [] request \in {"create_rx", "create_tx"} -> "SOCKET_CREATE"
    [] request \in {"bind_rx", "bind_tx"}     -> "SOCKET_BIND"
    [] OTHER                                 -> "ACK"

EventTypes == {"STATUS_CHANGED", "ERROR"}
Packets == [type : {"ACK", "SOCKET_BIND"}] \cup [type : {"EVENT"}, event : EventTypes]
           \cup [type : {"NETWORK_STATUS"}, connected : BOOLEAN]
           \cup [type : {"SOCKET_CREATE"}, handle : Handles]

CorrectAnyEvent(p) ==
  CASE Step \in Waits -> p.type = "EVENT"
    [] OTHER          -> p.type = Response(Step)

(* The packet that lets main() go on.                                      *)
Correct(p) ==
  CASE Step = "any_event"      -> p.type = "EVENT"
    [] Step = "status_changed" -> p.type = "EVENT" /\ p.event = "STATUS_CHANGED"
    [] OTHER                   -> p.type = Response(Step)

Init ==
  /\ LinkInit /\ pc = "put" /\ at = 1
  /\ connected = FALSE
  /\ wifi_socket_handle = 0
  /\ rx_socket_handle = NoSocket /\ tx_socket_handle = NoSocket
  /\ network \in InitialNet /\ created = 0 /\ bound = {} /\ handled = {}
  /\ early = FALSE /\ failures = 0

-----------------------------------------------------------------------------
(* What follows a step: only a connected network is disconnected.          *)
FollowingUnasked == IF ~connected THEN at + 3 ELSE at + 1

Following == IF Step = "get_network_status" /\ ~connected THEN at + 3 ELSE at + 1

Location(i) == IF i > Len(Script) THEN "done" ELSE IF Script[i] \in Waits THEN "wait" ELSE "put"

PutOneHandle ==
  /\ at <= Len(Script)
  /\ PutPacket([name |-> Step,
                handle |-> IF Step \in {"bind_rx", "bind_tx"} THEN rx_socket_handle ELSE NoSocket])
  /\ UNCHANGED <<bootVars, moduleVars>>

Put ==
  /\ at <= Len(Script)
  /\ PutPacket([name |-> Step,
                handle |-> CASE Step = "bind_rx" -> rx_socket_handle
                             [] Step = "bind_tx" -> tx_socket_handle
                             [] OTHER            -> NoSocket])
  /\ UNCHANGED <<bootVars, moduleVars>>

(* No event within 100 ms: a request is repeated, wifi_disconnect() waits  *)
(* no longer, and wifi_connect() waits again.                              *)
TimeOut ==
  /\ Step # "status_changed"
  /\ Timeout(IF Step = "any_event" THEN Location(at + 1) ELSE "put")
  /\ at' = (IF Step = "any_event" THEN at + 1 ELSE at)
  /\ UNCHANGED <<connected, wifi_socket_handle, rx_socket_handle, tx_socket_handle, moduleVars>>

Wake ==
  /\ SeeEvent("wait")
  /\ UNCHANGED <<bootVars, moduleVars>>

ProcessPacketUnstored ==
  /\ unread # <<>>
  /\ LET p == Head(unread) IN
     /\ NextPacket(Correct(p))
     /\ connected' = (IF p.type = "NETWORK_STATUS" THEN p.connected ELSE connected)
  /\ UNCHANGED <<at, wifi_socket_handle, rx_socket_handle, tx_socket_handle, moduleVars>>

(* wifi_process_packet() keeps the status and the handle.                  *)
ProcessPacket ==
  /\ unread # <<>>
  /\ LET p == Head(unread) IN
     /\ NextPacket(Correct(p))
     /\ connected' = (IF p.type = "NETWORK_STATUS" THEN p.connected ELSE connected)
     /\ wifi_socket_handle' =
          (IF p.type = "SOCKET_CREATE" THEN p.handle ELSE wifi_socket_handle)
  /\ UNCHANGED <<at, rx_socket_handle, tx_socket_handle, moduleVars>>

PacketsDone ==
  /\ NoMorePackets
  /\ UNCHANGED <<bootVars, moduleVars>>

GoOn ==
  /\ ClearEvent(Location(Following), "wait")
  /\ at' = (IF found THEN Following ELSE at)
  /\ rx_socket_handle' =
       (IF found /\ Step = "create_rx" THEN wifi_socket_handle ELSE rx_socket_handle)
  /\ tx_socket_handle' =
       (IF found /\ Step = "create_tx" THEN wifi_socket_handle ELSE tx_socket_handle)
  /\ UNCHANGED <<connected, wifi_socket_handle, moduleVars>>

-----------------------------------------------------------------------------
(* The module.                                                             *)
ACK         == [type |-> "ACK"]
Event(e)    == [type |-> "EVENT", event |-> e]
Request     == Head(to_module)
Marked      == handled' = handled \cup {Request.name} /\ UNCHANGED <<early, failures>>

ModuleStatus ==
  /\ to_module # <<>> /\ Request.name = "get_network_status"
  /\ Handle(<<[type |-> "NETWORK_STATUS", connected |-> network = "up"]>>)
  /\ Marked /\ UNCHANGED <<bootVars, network, created, bound>>

ModuleSetting ==
  /\ to_module # <<>> /\ \E i \in 1..Len(Settings) : Request.name = Settings[i]
  /\ Handle(<<ACK>>)
  /\ Marked /\ UNCHANGED <<bootVars, network, created, bound>>

(* Disconnecting and connecting take their time; an error event answers a  *)
(* request to be what the module already is.                               *)
ModuleDisconnect ==
  /\ to_module # <<>> /\ Request.name = "disconnect"
  /\ IF network = "up"
     THEN Handle(<<ACK>>) /\ network' = "disconnecting"
     ELSE Handle(<<ACK, Event("ERROR")>>) /\ UNCHANGED network
  /\ Marked /\ UNCHANGED <<bootVars, created, bound>>

ModuleConnect ==
  /\ to_module # <<>> /\ Request.name = "connect"
  /\ network # "disconnecting"
  /\ IF network = "down"
     THEN Handle(<<ACK>>) /\ network' = "connecting"
     ELSE Handle(<<ACK, Event("ERROR")>>) /\ UNCHANGED network
  /\ Marked /\ UNCHANGED <<bootVars, created, bound>>

(* main() has read and cleared the answer to its request to connect.       *)
LooksOut == /\ Step # "connect"
            /\ Step = "status_changed" => pc = "wait" /\ ~wifi_event

(* What the module was told to do is done.                                 *)
StatusChanges ==
  /\ \/ network = "disconnecting" /\ network' = "down"
     \/ network = "connecting" /\ network' = "up"
  /\ Answer(<<Event("STATUS_CHANGED")>>)
  /\ early' = (early \/ (network = "connecting" /\ ~LooksOut))
  /\ UNCHANGED <<to_module, bootVars, created, bound, handled, failures>>

(* The attempt to connect fails, or the network that was up drops.         *)
ConnectionFails ==
  /\ network \in {"connecting", "up"} /\ network' = "down"
  /\ failures < MaxFailures /\ failures' = failures + 1
  /\ Answer(<<Event("STATUS_CHANGED")>>)
  /\ early' = (early \/ (network = "connecting" /\ ~LooksOut))
  /\ UNCHANGED <<to_module, bootVars, created, bound, handled>>

(* Without a network the module may refuse to create a socket.             *)
ModuleCreate ==
  /\ to_module # <<>> /\ Request.name \in {"create_rx", "create_tx"}
  /\ \/ /\ created < MaxSockets
        /\ Handle(<<[type |-> "SOCKET_CREATE", handle |-> created]>>)
        /\ created' = created + 1
     \/ /\ created = MaxSockets \/ network # "up"
        /\ Handle(<<[type |-> "SOCKET_CREATE", handle |-> WIFI_SOCKET_HANDLE_INVALID]>>)
        /\ UNCHANGED created
  /\ Marked /\ UNCHANGED <<bootVars, network, bound>>

ModuleBind ==
  /\ to_module # <<>> /\ Request.name \in {"bind_rx", "bind_tx"}
  /\ Handle(<<[type |-> "SOCKET_BIND"]>>)
  /\ bound' = (IF Request.handle < created
               THEN bound \cup {<<Request.name, Request.handle>>} ELSE bound)
  /\ Marked /\ UNCHANGED <<bootVars, network, created>>

-----------------------------------------------------------------------------
Main   == Put \/ TimeOut \/ Wake \/ ProcessPacket \/ PacketsDone \/ GoOn
Module == \/ ModuleStatus \/ ModuleSetting \/ ModuleDisconnect
          \/ ModuleConnect \/ ModuleCreate \/ ModuleBind
Next   == Main \/ Module \/ StatusChanges \/ ConnectionFails

Spec == Init /\ [][Next]_vars

(* main() and the module go on, and what the module was told to do is done *)
(* unless it fails; nothing has to fail.                                   *)
FairSpec == Spec /\ WF_vars(Main) /\ WF_vars(Module) /\ WF_vars(StatusChanges)

-----------------------------------------------------------------------------
Names == {Script[i] : i \in 1..Len(Script)} \ Waits

TypeOK ==
  /\ LinkTypeOK([name : Names, handle : Handles \cup {NoSocket}], Packets, {"done"})
  /\ at \in 1..(Len(Script) + 1)
  /\ connected \in BOOLEAN
  /\ wifi_socket_handle \in Handles
  /\ {rx_socket_handle, tx_socket_handle} \subseteq Handles \cup {NoSocket}
  /\ network \in {"down", "connecting", "up", "disconnecting"}
  /\ created \in 0..MaxSockets
  /\ bound \subseteq {"bind_rx", "bind_tx"} \X Handles
  /\ handled \subseteq Names /\ early \in BOOLEAN
  /\ failures \in 0..MaxFailures

(* main() never uses one socket for both directions, although requests to  *)
(* create one are repeated, the sockets of the repetitions are leaked, and *)
(* the handle of a late answer may be taken for the second socket's.       *)
SocketsDiffer ==
  /\ tx_socket_handle # NoSocket => rx_socket_handle # NoSocket
  /\ rx_socket_handle = tx_socket_handle
       => rx_socket_handle \in {NoSocket, WIFI_SOCKET_HANDLE_INVALID}

(* main() creates sockets only when its own attempt to connect has ended:  *)
(* the network is up, unless an attempt failed or the network dropped,     *)
(* which main() does not notice.  So wifi_connect() takes neither an error *)
(* nor an event from before for the answer.  This needs a network that     *)
(* main() need not disconnect: otherwise the event may be the late one of  *)
(* wifi_disconnect(), which waits 100 ms for it.                           *)
ConnectedBeforeSockets ==
  "disconnect" \notin handled /\ (rx_socket_handle # NoSocket \/ created > 0)
    => network = "up" \/ failures > 0

(* main() gets through, and in the end each socket that could be created   *)
(* is bound to its own port and no other, whatever was repeated on the way *)
(* and wherever interrupts struck.  (Repetitions may use up the sockets.)  *)
(* This needs attempts that take longer, to succeed or to fail, than       *)
(* main() takes to read the answer: a STATUS_CHANGED event read in the     *)
(* same wait as that is consumed, and wifi_connect() waits for another one *)
(* for ever.                                                               *)
EndsBooted ==
  []~early =>
    <>[](/\ pc = "done"
         /\ bound = {<<"bind_rx", rx_socket_handle>>, <<"bind_tx", tx_socket_handle>>}
                      \ ({"bind_rx", "bind_tx"} \X {WIFI_SOCKET_HANDLE_INVALID}))
=============================================================================

------------------------------ MODULE Heartbeat ------------------------------
(***************************************************************************)
(* When a device sends heartbeats and which packet_id each carries: the    *)
(* TIMER0 branch of main()'s loop and the interrupt handler of the         *)
(* switches (dsrc.c), which both write hz_count and pck_count.             *)
(*                                                                         *)
(* The timer ticks once a second, whatever main() does; a tick that comes  *)
(* while the last one is unserved is lost in the event bit.  Sending takes *)
(* main() seconds.  An update of a counter is a load and a store.  The     *)
(* committed main() stops in the while(true); of line 102, before all this.*)
(***************************************************************************)
EXTENDS Integers

CONSTANTS PERIOD,       \* seconds between heartbeats, 20 in the code
          IDS,          \* packet_ids, 60 in the code
          MaxPresses    \* how often switches are pressed

ASSUME HeartbeatAssumption ==
  /\ PERIOD \in Nat \ {0, 1} /\ IDS \in Nat \ {0, 1}
  /\ MaxPresses \in Nat

None == -1

VARIABLES
  hz_count, pck_count, gtg,
  located,     \* latitude and longitude are known
  timer0,      \* the bit TASK_EVENT_TIMER0
  led_on,
  reg,         \* the counter that main() has loaded
  pc,
  presses,     \* how often a switch has been pressed
  last_sent,   \* history: the packet_id sent last,
  spaced       \* and the seconds since pck_count was incremented, at most PERIOD

counters == <<hz_count, pck_count>>
history  == <<last_sent, spaced>>
vars     == <<counters, gtg, located, timer0, led_on, reg, pc, presses, history>>

Init ==
  /\ hz_count = 0 /\ pck_count = 0 /\ gtg = FALSE /\ located = FALSE
  /\ timer0 = FALSE /\ led_on = FALSE /\ reg = 0
  /\ pc = "loop" /\ presses = 0
  /\ last_sent = None /\ spaced = PERIOD

-----------------------------------------------------------------------------
(* timer0_handler().                      *)
Tick ==
  /\ timer0' = TRUE
  /\ spaced' = (IF spaced < PERIOD THEN spaced + 1 ELSE spaced)
  /\ UNCHANGED <<counters, gtg, located, led_on, reg, pc, presses, last_sent>>

(* port_f_handler(): a switch is pressed, which pulls its pin down.  The   *)
(* handler asks whether the pin of SW2 is up.                              *)
Press(switch) ==
  /\ presses < MaxPresses
  /\ presses' = presses + 1
  /\ IF switch # "SW2"
     THEN gtg' = TRUE /\ hz_count' = 0 /\ pck_count' = 0
     ELSE UNCHANGED <<gtg, counters>>
  /\ UNCHANGED <<located, timer0, led_on, reg, pc, last_sent, spaced>>

-----------------------------------------------------------------------------
(* The TIMER0 branch.                                                      *)
ServeEarly ==
  /\ pc = "loop" /\ timer0
  /\ pc' = (IF hz_count >= PERIOD - 2 THEN "pck_load" ELSE "hz_load")
  /\ UNCHANGED <<counters, gtg, located, timer0, led_on, reg, presses, history>>

ServeNever ==
  /\ pc = "loop" /\ timer0
  /\ pc' = (IF hz_count = PERIOD THEN "pck_load" ELSE "hz_load")
  /\ UNCHANGED <<counters, gtg, located, timer0, led_on, reg, presses, history>>

Serve ==
  /\ pc = "loop" /\ timer0
  /\ pc' = (IF hz_count = PERIOD - 1 THEN "pck_load" ELSE "hz_load")
  /\ UNCHANGED <<counters, gtg, located, timer0, led_on, reg, presses, history>>

PckLoad ==
  /\ pc = "pck_load"
  /\ reg' = pck_count
  /\ pc' = "pck_store"
  /\ UNCHANGED <<counters, gtg, located, timer0, led_on, presses, history>>

PckStoreStuck ==
  /\ pc = "pck_store"
  /\ pck_count' = reg % IDS
  /\ pc' = "send" /\ spaced' = 0
  /\ UNCHANGED <<hz_count, gtg, located, timer0, led_on, reg, presses, last_sent>>

PckStore ==
  /\ pc = "pck_store"
  /\ pck_count' = (reg + 1) % IDS
  /\ pc' = "send" /\ spaced' = 0
  /\ UNCHANGED <<hz_count, gtg, located, timer0, led_on, reg, presses, last_sent>>

(* send_heartbeat(), and then the position is read.  (Both sockets exist.) *)
SendHeartbeat ==
  /\ pc = "send"
  /\ last_sent' = (IF located /\ gtg THEN pck_count ELSE last_sent)
  /\ located' \in {located, TRUE}
  /\ pc' = "hz_load"
  /\ UNCHANGED <<counters, gtg, timer0, led_on, reg, presses, spaced>>

HzLoad ==
  /\ pc = "hz_load"
  /\ reg' = hz_count
  /\ pc' = "hz_store"
  /\ UNCHANGED <<counters, gtg, located, timer0, led_on, presses, history>>

(* hz_count is stored and the LED toggled.                                 *)
HzStore ==
  /\ pc = "hz_store"
  /\ hz_count' = (reg + 1) % PERIOD
  /\ led_on' = ~led_on
  /\ pc' = "clear"
  /\ UNCHANGED <<pck_count, gtg, located, timer0, reg, presses, history>>

Clear ==
  /\ pc = "clear"
  /\ timer0' = FALSE
  /\ pc' = "loop"
  /\ UNCHANGED <<counters, gtg, located, led_on, reg, presses, history>>

-----------------------------------------------------------------------------
Main == Serve \/ PckLoad \/ PckStore \/ SendHeartbeat \/ HzLoad \/ HzStore \/ Clear
Next == Tick \/ (\E switch \in {"SW1", "SW2"} : Press(switch)) \/ Main

Spec == Init /\ [][Next]_vars

(* The timer ticks and main() runs.                                        *)
FairSpec == Spec /\ WF_vars(Tick) /\ WF_vars(Main)

-----------------------------------------------------------------------------
TypeOK ==
  /\ hz_count \in 0..(PERIOD - 1)
  /\ pck_count \in 0..(IDS - 1)
  /\ gtg \in BOOLEAN /\ located \in BOOLEAN /\ timer0 \in BOOLEAN /\ led_on \in BOOLEAN
  /\ reg \in Nat
  /\ pc \in {"loop", "pck_load", "pck_store", "send", "hz_load", "hz_store", "clear"}
  /\ presses \in 0..MaxPresses
  /\ last_sent \in {None} \cup 0..(IDS - 1)
  /\ spaced \in 0..PERIOD

Due   == pc = "send"
Sends == Due /\ located /\ gtg

(* A heartbeat never carries the packet_id of the one before, by which     *)
(* receivers know repetitions (dsrc.c:187) and would drop it, wherever the *)
(* first press of a switch resets the counters.  (A second one may reset   *)
(* pck_count after the first heartbeat.)                                   *)
SuccessiveIdsDiffer == Sends /\ presses <= 1 => pck_count # last_sent

(* Heartbeats are never less than PERIOD - 1 seconds apart, wherever the   *)
(* press strikes: hz_count is never set forward.                           *)
HeartbeatsSpaced == pc = "pck_load" => spaced >= PERIOD - 1

(* Heartbeats fall due for ever, however many ticks are lost: a device     *)
(* whose switch has been pressed and that knows its position sends one     *)
(* again and again, and one that does not asks for it again and again.     *)
HeartbeatsGoOn == []<>Due
=============================================================================

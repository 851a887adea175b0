--------------------------- MODULE HeartbeatProofs ---------------------------
(***************************************************************************)
(* Proofs about the timing of heartbeats, for every period, number of      *)
(* packet ids and number of presses.                                       *)
(***************************************************************************)
EXTENDS Heartbeat, TLAPS

(* The loaded counter is a value of the counter it was loaded from.        *)
RegOK ==
  /\ pc = "pck_store" => reg \in 0..(IDS - 1)
  /\ pc = "hz_store"  => reg \in 0..(PERIOD - 1)

(* hz_count never runs ahead of the seconds since the last increment of    *)
(* pck_count by more than the one tick that a press during that very       *)
(* iteration may add: each increment needs a tick of its own, because a    *)
(* tick that comes before the bit is cleared is lost.                      *)
SpacedInv ==
  /\ pc \in {"loop", "clear"} => hz_count <= spaced + 1
  /\ pc = "loop" /\ timer0 => hz_count <= spaced
  /\ pc = "pck_load" => spaced >= PERIOD - 1
  /\ pc \in {"pck_load", "pck_store", "send"} => hz_count \in {0, PERIOD - 1}
  /\ pc = "hz_load"  => hz_count <= spaced \/ hz_count = PERIOD - 1
  /\ pc = "hz_store" => reg <= spaced \/ reg = PERIOD - 1

(* Until the first press nothing is sent; up to the second one, what was   *)
(* sent last carried pck_count, until that is incremented.                 *)
IdsInv ==
  /\ presses = 0 => ~gtg
  /\ last_sent # None => gtg /\ located
  /\ presses <= 1 =>
       /\ pc = "send"      => pck_count # last_sent
       /\ pc # "send"      => last_sent \in {None, pck_count}
       /\ pc = "pck_store" => last_sent \in {None, reg}

HeartbeatInv == TypeOK /\ RegOK /\ SpacedInv /\ IdsInv

(* Both counters count modulo their constants.                             *)
LEMMA NextCount ==
  ASSUME NEW n \in Nat \ {0, 1}, NEW k \in 0..(n - 1)
  PROVE  (k + 1) % n = IF k = n - 1 THEN 0 ELSE k + 1
  <1>1. CASE k = n - 1
    BY <1>1
  <1>2. CASE k < n - 1
    BY <1>2
  <1>3. QED BY <1>1, <1>2

LEMMA InitHeartbeatInv == Init => HeartbeatInv
  <1> SUFFICES ASSUME Init PROVE HeartbeatInv
    OBVIOUS
  <1> USE HeartbeatAssumption DEF Init
  <1>1. 0 \in 0..(PERIOD - 1) /\ 0 \in 0..(IDS - 1) /\ 0 \in 0..MaxPresses /\ PERIOD \in 0..PERIOD
    OBVIOUS
  <1>2. TypeOK
    BY <1>1 DEF TypeOK
  <1>3. RegOK /\ IdsInv
    BY DEF RegOK, IdsInv
  <1>4. SpacedInv
    BY DEF SpacedInv
  <1>5. QED BY <1>2, <1>3, <1>4 DEF HeartbeatInv

(* The interrupt handlers.                                                 *)
LEMMA TickPreserves ==
  ASSUME HeartbeatInv, Tick
  PROVE  HeartbeatInv'
  <1> USE HeartbeatAssumption DEF HeartbeatInv, Tick, counters
  <1>1. TypeOK'
    BY DEF TypeOK
  <1>2. RegOK'
    BY DEF RegOK
  <1>3. SpacedInv'
    <2>1. spaced \in 0..PERIOD /\ hz_count \in 0..(PERIOD - 1)
      BY DEF TypeOK
    <2>2. spaced' = (IF spaced < PERIOD THEN spaced + 1 ELSE PERIOD) /\ spaced' >= spaced
      BY <2>1
    <2>3. reg \in Nat
      BY DEF TypeOK
    <2>4. QED BY <2>1, <2>2, <2>3 DEF SpacedInv, RegOK
  <1>4. IdsInv'
    BY DEF IdsInv
  <1>5. QED BY <1>1, <1>2, <1>3, <1>4

LEMMA PressPreserves ==
  ASSUME HeartbeatInv, NEW switch \in {"SW1", "SW2"}, Press(switch)
  PROVE  HeartbeatInv'
  <1> USE HeartbeatAssumption DEF HeartbeatInv, Press, counters
  <1>1. TypeOK'
    <2>1. 0 \in 0..(PERIOD - 1) /\ 0 \in 0..(IDS - 1)
      OBVIOUS
    <2>2. presses' \in 0..MaxPresses
      BY DEF TypeOK
    <2>3. QED BY <2>1, <2>2 DEF TypeOK
  <1>2. RegOK'
    BY DEF RegOK
  <1>3. SpacedInv'
    <2>1. spaced \in 0..PERIOD /\ spaced' = spaced /\ (hz_count' = 0 \/ hz_count' = hz_count)
      BY DEF TypeOK
    <2>2. pc' = pc /\ timer0' = timer0 /\ reg' = reg
      OBVIOUS
    <2>3. QED BY <2>1, <2>2 DEF SpacedInv
  <1>4. IdsInv'
    <2>1. presses \in Nat /\ presses' = presses + 1 /\ pck_count \in 0..(IDS - 1)
      BY DEF TypeOK
    <2>2. presses' <= 1 => last_sent = None
      BY <2>1 DEF IdsInv
    <2>3. (pck_count' = 0 \/ pck_count' = pck_count) /\ (gtg => gtg') /\ presses' # 0
      BY <2>1
    <2>4. None # 0 /\ None # pck_count
      BY <2>1 DEF None
    <2>5. QED BY <2>2, <2>3, <2>4 DEF IdsInv
  <1>5. QED BY <1>1, <1>2, <1>3, <1>4

(* The TIMER0 branch.                                                      *)
LEMMA PckStorePreserves ==
  ASSUME HeartbeatInv, PckStore
  PROVE  HeartbeatInv'
  <1> USE HeartbeatAssumption DEF HeartbeatInv, PckStore
  <1>1. reg \in 0..(IDS - 1) /\ IDS \in Nat \ {0, 1}
    BY DEF RegOK
  <1>2. pck_count' = IF reg = IDS - 1 THEN 0 ELSE reg + 1
    BY <1>1, NextCount
  <1>3. pck_count' \in 0..(IDS - 1) /\ pck_count' # reg /\ pck_count' # None
    BY <1>1, <1>2 DEF None
  <1>4. TypeOK' /\ RegOK'
    BY <1>3 DEF TypeOK, RegOK
  <1>5. SpacedInv'
    BY DEF SpacedInv
  <1>6. IdsInv'
    BY <1>3 DEF IdsInv
  <1>7. QED BY <1>4, <1>5, <1>6

LEMMA HzStorePreserves ==
  ASSUME HeartbeatInv, HzStore
  PROVE  HeartbeatInv'
  <1> USE HeartbeatAssumption DEF HeartbeatInv, HzStore, history
  <1>1. reg \in 0..(PERIOD - 1) /\ PERIOD \in Nat \ {0, 1} /\ spaced \in 0..PERIOD
    BY DEF RegOK, TypeOK
  <1>2. hz_count' = IF reg = PERIOD - 1 THEN 0 ELSE reg + 1
    BY <1>1, NextCount
  <1>3. hz_count' \in 0..(PERIOD - 1) /\ hz_count' <= spaced + 1
    BY <1>1, <1>2 DEF SpacedInv
  <1>4. led_on' \in BOOLEAN
    OBVIOUS
  <1>5. TypeOK' /\ RegOK'
    BY <1>3, <1>4 DEF TypeOK, RegOK
  <1>6. SpacedInv'
    BY <1>3 DEF SpacedInv
  <1>7. IdsInv'
    BY DEF IdsInv
  <1>8. QED BY <1>5, <1>6, <1>7

LEMMA MainPreserves ==
  ASSUME HeartbeatInv, Main
  PROVE  HeartbeatInv'
  <1> USE HeartbeatAssumption DEF HeartbeatInv, counters, history
  <1>1. CASE Serve
    <2> USE <1>1 DEF Serve
    <2>1. TypeOK' /\ RegOK'
      BY DEF TypeOK, RegOK
    <2>2. SpacedInv'
      BY DEF SpacedInv, TypeOK
    <2>3. IdsInv'
      BY DEF IdsInv
    <2>4. QED BY <2>1, <2>2, <2>3
  <1>2. CASE PckLoad
    <2> USE <1>2 DEF PckLoad
    <2>1. TypeOK' /\ RegOK'
      BY DEF TypeOK, RegOK
    <2>2. SpacedInv'
      BY DEF SpacedInv, TypeOK
    <2>3. IdsInv'
      BY DEF IdsInv
    <2>4. QED BY <2>1, <2>2, <2>3
  <1>3. CASE SendHeartbeat
    <2> USE <1>3 DEF SendHeartbeat
    <2>1. TypeOK' /\ RegOK'
      BY DEF TypeOK, RegOK
    <2>2. SpacedInv'
      BY DEF SpacedInv, TypeOK
    <2>3. IdsInv'
      <3>1. last_sent' # None => gtg' /\ located'
        BY DEF IdsInv, TypeOK
      <3>2. last_sent' \in {last_sent, pck_count}
        OBVIOUS
      <3>3. presses <= 1 => last_sent' \in {None, pck_count}
        BY DEF IdsInv
      <3>4. QED BY <3>1, <3>3 DEF IdsInv
    <2>4. QED BY <2>1, <2>2, <2>3
  <1>4. CASE HzLoad
    <2> USE <1>4 DEF HzLoad
    <2>1. TypeOK' /\ RegOK'
      BY DEF TypeOK, RegOK
    <2>2. SpacedInv'
      BY DEF SpacedInv, TypeOK
    <2>3. IdsInv'
      BY DEF IdsInv
    <2>4. QED BY <2>1, <2>2, <2>3
  <1>5. CASE Clear
    <2> USE <1>5 DEF Clear
    <2>1. TypeOK' /\ RegOK'
      BY DEF TypeOK, RegOK
    <2>2. SpacedInv'
      BY DEF SpacedInv, TypeOK
    <2>3. IdsInv'
      BY DEF IdsInv
    <2>4. QED BY <2>1, <2>2, <2>3
  <1>6. QED BY <1>1, <1>2, <1>3, <1>4, <1>5, PckStorePreserves, HzStorePreserves DEF Main

THEOREM HeartbeatInductive == Spec => []HeartbeatInv
  <1>1. HeartbeatInv /\ [Next]_vars => HeartbeatInv'
    <2> SUFFICES ASSUME HeartbeatInv, [Next]_vars PROVE HeartbeatInv'
      OBVIOUS
    <2>1. CASE UNCHANGED vars
      BY <2>1 DEF vars, counters, history, HeartbeatInv, TypeOK, RegOK, SpacedInv, IdsInv
    <2>2. CASE Next
      BY <2>2, TickPreserves, PressPreserves, MainPreserves DEF Next
    <2>3. QED BY <2>1, <2>2
  <1>2. QED BY <1>1, InitHeartbeatInv, PTL DEF Spec

(* The counters stay below their constants wherever the press strikes.     *)
THEOREM HeartbeatTypeCorrect == Spec => []TypeOK
  <1>1. HeartbeatInv => TypeOK
    BY DEF HeartbeatInv
  <1>2. QED BY <1>1, HeartbeatInductive, PTL

(* Heartbeats keep their distance, for every period.                       *)
THEOREM HeartbeatsSpacedCorrect == Spec => []HeartbeatsSpaced
  <1>1. HeartbeatInv => HeartbeatsSpaced
    BY DEF HeartbeatInv, SpacedInv, HeartbeatsSpaced
  <1>2. QED BY <1>1, HeartbeatInductive, PTL

(* Up to the second press no two heartbeats in succession share an id.     *)
THEOREM SuccessiveIdsDifferCorrect == Spec => []SuccessiveIdsDiffer
  <1>1. HeartbeatInv => SuccessiveIdsDiffer
    BY DEF HeartbeatInv, IdsInv, SuccessiveIdsDiffer, Sends, Due
  <1>2. QED BY <1>1, HeartbeatInductive, PTL
=============================================================================

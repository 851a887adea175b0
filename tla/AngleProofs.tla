----------------------------- MODULE AngleProofs -----------------------------
(***************************************************************************)
(* Proofs about the two angles and the judgement, for every set of places  *)
(* and every tolerance.                                                    *)
(***************************************************************************)
EXTENDS Angle, FiniteSetTheorems, TLAPS

-----------------------------------------------------------------------------
(* Angles.                                                                 *)

LEMMA TanType == \A d \in 0..45 : Tan(d) \in Nat
  <1>1. \A d \in 1..45 : Tangent[d] \in Nat
    <2>1. TAKE d \in 1..45
    <2>2. QED BY SMTT(60) DEF Tangent
  <1>2. QED BY <1>1 DEF Tan

(* There are at most 90 degrees up to a slope.                             *)
LEMMA Degrees ==
  ASSUME NEW y, NEW x
  PROVE  Cardinality({d \in 1..90 : NotAbove(d, y, x)}) \in 0..90
  <1> DEFINE D == {d \in 1..90 : NotAbove(d, y, x)}
  <1>1. IsFiniteSet(1..90) /\ Cardinality(1..90) = 90
    <2>1. 1 \in Int /\ 90 \in Int
      OBVIOUS
    <2>2. IsFiniteSet(1..90) /\ Cardinality(1..90) = IF 1 > 90 THEN 0 ELSE 90 - 1 + 1
      BY <2>1, FS_Interval, Zenon
    <2>3. QED BY <2>2
  <1>2. D \in SUBSET (1..90)
    OBVIOUS
  <1> HIDE DEF D
  <1>3. IsFiniteSet(D) /\ Cardinality(D) <= Cardinality(1..90)
    BY <1>1, <1>2, FS_Subset, Zenon
  <1>4. Cardinality(D) \in Nat
    BY <1>3, FS_CardinalityType
  <1>5. QED BY <1>1, <1>3, <1>4 DEF D

(* The sign of the slope y/x.                                              *)
Signed(angle, y, x) ==
  /\ angle \in -90..90
  /\ y = 0 => angle = 0
  /\ (y > 0 /\ x >= 0) \/ (y < 0 /\ x < 0) => angle >= 0
  /\ (y > 0 /\ x < 0) \/ (y < 0 /\ x >= 0) => angle <= 0

LEMMA AtanSign ==
  ASSUME NEW y \in Int, NEW x \in Int
  PROVE  Signed(Atan(y, x), y, x)
  <1> DEFINE c == Cardinality({d \in 1..90 : NotAbove(d, Abs(y), Abs(x))})
  <1>1. c \in 0..90
    BY Degrees
  <1>2. Atan(y, x) = IF y = 0 THEN 0 ELSE Sign(y) * (IF x < 0 THEN -1 ELSE 1) * c
    BY DEF Atan
  <1> DEFINE angle == Atan(y, x)
  <1> HIDE DEF c, angle
  <1>3. angle = IF y = 0 THEN 0 ELSE Sign(y) * (IF x < 0 THEN -1 ELSE 1) * c
    BY <1>2 DEF angle
  <1>4. Signed(angle, y, x)
    BY <1>1, <1>3 DEF Sign, Signed
  <1>5. QED BY <1>4 DEF angle

(* So has the quotient, unless it is zero.                                 *)
LEMMA QuotientSign ==
  ASSUME NEW y \in Int, NEW x \in Int
  PROVE  /\ Quotient(y, x) \in Int
         /\ y = 0 \/ x = 0 => Quotient(y, x) = 0
         /\ (y > 0 /\ x > 0) \/ (y < 0 /\ x < 0) => Quotient(y, x) >= 0
         /\ (y > 0 /\ x < 0) \/ (y < 0 /\ x > 0) => Quotient(y, x) <= 0
  <1>1. CASE x = 0
    BY <1>1 DEF Quotient
  <1>2. CASE x # 0
    <2> DEFINE k == Abs(y) \div Abs(x)
    <2>1. k \in Nat /\ (y = 0 => k = 0)
      <3>1. Abs(y) \in Nat /\ Abs(x) \in Nat \ {0} /\ (y = 0 => Abs(y) = 0)
        BY <1>2 DEF Abs
      <3> HIDE DEF k
      <3>2. \A m \in Nat, n \in Nat \ {0} : m \div n \in Nat /\ 0 \div n = 0
        OBVIOUS
      <3>3. QED BY <3>1, <3>2 DEF k
    <2>2. Quotient(y, x) = Sign(y) * Sign(x) * k
      BY <1>2 DEF Quotient
    <2> HIDE DEF k
    <2>3. QED BY <1>2, <2>1, <2>2 DEF Sign
  <1>3. QED BY <1>1, <1>2

(* What a position is to the two angles; both lie in the quadrant of the   *)
(* true direction, its borders included.                                   *)
Positions == [lat : Nat, lon : Nat]

North(p, q) == Fraction(p).lat - Fraction(q).lat
East(p, q)  == Fraction(p).lon - Fraction(q).lon

Sector(y, x) ==
  IF x < 0
    THEN IF y > 0 THEN 90..180 ELSE IF y < 0 THEN 180..270 ELSE {180}
    ELSE IF y > 0 THEN 0..90 ELSE IF y < 0 THEN 270..360 ELSE {0}

LEMMA FractionType ==
  ASSUME NEW p \in Positions
  PROVE  Fraction(p).lat \in Nat /\ Fraction(p).lon \in Nat
  BY DEF Positions, Fraction

(* An angle with the sign of the slope is turned into the sector.          *)
LEMMA Turned ==
  ASSUME NEW p \in Positions, NEW q \in Positions, NEW angle,
         Signed(angle, North(p, q), East(p, q))
  PROVE  Quadrant(angle, Fraction(p), Fraction(q)) \in Sector(North(p, q), East(p, q))
  <1> DEFINE their == Fraction(p)
             my    == Fraction(q)
  <1>1. their.lat \in Nat /\ their.lon \in Nat /\ my.lat \in Nat /\ my.lon \in Nat
    BY FractionType
  <1>2. Signed(angle, their.lat - my.lat, their.lon - my.lon)
    BY DEF North, East
  <1> HIDE DEF their, my
  <1>3. Quadrant(angle, their, my) \in Sector(their.lat - my.lat, their.lon - my.lon)
    BY <1>1, <1>2 DEF Signed, Quadrant, Sector
  <1>4. QED BY <1>3 DEF North, East, their, my

LEMMA ArrivalInSector ==
  ASSUME NEW p \in Positions, NEW q \in Positions
  PROVE  AngleOfArrival(p, q) \in Sector(North(p, q), East(p, q))
  <1> DEFINE y == North(p, q)
             x == East(p, q)
  <1>1. y \in Int /\ x \in Int
    BY FractionType DEF North, East
  <1>2. AngleOfArrival(p, q) = Quadrant(Atan(y, x), Fraction(p), Fraction(q))
    BY DEF AngleOfArrival, North, East
  <1>3. Signed(Atan(y, x), y, x)
    BY <1>1, AtanSign
  <1>4. QED BY <1>2, <1>3, Turned

LEMMA ClaimedInSector ==
  ASSUME NEW p \in Positions, NEW q \in Positions
  PROVE  ClaimedAngle(p, q) \in Sector(North(p, q), East(p, q))
  <1> DEFINE y == North(p, q)
             x == East(p, q)
             slope == Quotient(y, x)
  <1>1. y \in Int /\ x \in Int
    BY FractionType DEF North, East
  <1>2. ClaimedAngle(p, q) = Quadrant(Atan(slope, 1), Fraction(p), Fraction(q))
    BY DEF ClaimedAngle, North, East
  <1>3. Signed(Atan(slope, 1), y, x)
    <2> HIDE DEF y, x
    <2>1. /\ slope \in Int
          /\ y = 0 \/ x = 0 => slope = 0
          /\ (y > 0 /\ x > 0) \/ (y < 0 /\ x < 0) => slope >= 0
          /\ (y > 0 /\ x < 0) \/ (y < 0 /\ x > 0) => slope <= 0
      BY <1>1, QuotientSign
    <2> HIDE DEF slope
    <2> DEFINE angle == Atan(slope, 1)
    <2>2. Signed(angle, slope, 1)
      <3>1. 1 \in Int
        OBVIOUS
      <3>2. QED BY <2>1, <3>1, AtanSign, Zenon
    <2> HIDE DEF angle
    <2>3. Signed(angle, y, x)
      BY <1>1, <2>1, <2>2 DEF Signed
    <2>4. QED BY <2>3 DEF angle
  <1>4. QED BY <1>2, <1>3, Turned

(* Two angles of one sector are at most a right angle apart.               *)
LEMMA SectorWidth ==
  ASSUME NEW y \in Int, NEW x \in Int, NEW a \in Sector(y, x), NEW b \in Sector(y, x)
  PROVE  a \in 0..360 /\ b \in 0..360 /\ Abs(a - b) <= 90
  BY DEF Sector, Abs

-----------------------------------------------------------------------------
(* The heartbeat to judge.                                                 *)

LEMMA ArePositions ==
  Places \subseteq Positions /\ Nowhere \in Positions
  BY AngleAssumption DEF Places, Positions, Nowhere

(* The angle it comes from is the true sender's, and fits in its 16 bits.  *)
Measured ==
  recv_from # NoPacket => recv_from.dir = AngleOfArrival(recv_from.sender, recv_from.from)

AngleInv == TypeOK /\ Measured

LEMMA Arrives ==
  ASSUME NEW sender \in Places, NEW my_loc \in Places
  PROVE  /\ AngleOfArrival(sender, my_loc) \in 0..360
         /\ AngleOfArrival(sender, my_loc) % 65536 = AngleOfArrival(sender, my_loc)
  <1> DEFINE angle == AngleOfArrival(sender, my_loc)
             y == North(sender, my_loc)
             x == East(sender, my_loc)
  <1>1. sender \in Positions /\ my_loc \in Positions
    BY ArePositions
  <1>2. y \in Int /\ x \in Int
    BY <1>1, FractionType DEF North, East
  <1>3. angle \in Sector(y, x)
    BY <1>1, ArrivalInSector
  <1> HIDE DEF angle, y, x
  <1>4. angle \in 0..360
    BY <1>2, <1>3, SectorWidth
  <1>5. angle % 65536 = angle
    BY <1>4
  <1>6. QED BY <1>4, <1>5 DEF angle

LEMMA AngleInvInit == Init => AngleInv
  BY DEF Init, AngleInv, TypeOK, Measured

LEMMA AngleInvStep ==
  ASSUME AngleInv, [Next]_vars
  PROVE  AngleInv'
  <1> USE DEF AngleInv, TypeOK, Measured
  <1>1. CASE UNCHANGED vars
    BY <1>1 DEF vars
  <1>2. CASE Move
    BY <1>2 DEF Move
  <1>3. CASE Locate
    BY <1>3 DEF Locate
  <1>4. CASE ReceiveHeartbeat
    <2>1. PICK sender \in Places, claim \in Places, my_loc \in Places :
            recv_from' = [dir |-> AngleOfArrival(sender, my_loc) % 65536, claim |-> claim,
                          sender |-> sender, from |-> my_loc]
      BY <1>4 DEF ReceiveHeartbeat
    <2> DEFINE angle == AngleOfArrival(sender, my_loc)
    <2>2. angle \in 0..360 /\ angle % 65536 = angle
      BY Arrives
    <2>3. recv_from' = [dir |-> angle, claim |-> claim, sender |-> sender, from |-> my_loc]
      BY <2>1, <2>2
    <2>4. Measured'
      BY <2>3
    <2> HIDE DEF angle
    <2>5. recv_from' \in Packets
      BY <2>2, <2>3 DEF Packets
    <2>6. QED BY <1>4, <2>4, <2>5 DEF ReceiveHeartbeat
  <1>5. CASE Ignore
    BY <1>5 DEF Ignore
  <1>6. CASE Judge
    BY <1>6 DEF Judge
  <1>7. QED BY <1>1, <1>2, <1>3, <1>4, <1>5, <1>6 DEF Next

THEOREM AngleInductive == Spec => []AngleInv
  BY AngleInvInit, AngleInvStep, PTL DEF Spec

(* Every variable keeps its type: the angle of arrival is one of the 361   *)
(* that wifi_process_packet() may store.                                   *)
THEOREM AngleTypeCorrect == Spec => []TypeOK
  BY AngleInductive, PTL DEF AngleInv

LEMMA PacketType ==
  ASSUME AngleInv, recv_from # NoPacket
  PROVE  /\ recv_from.sender \in Positions /\ recv_from.from \in Positions
         /\ recv_from.claim \in Positions /\ recv_from.dir \in 0..360
  BY ArePositions DEF AngleInv, TypeOK, Packets

(* Within a hundredth of a degree the last four digits tell which of two   *)
(* coordinates is the larger.                                              *)
LEMMA LastDigits ==
  ASSUME NEW m \in Nat, NEW n \in Nat, m \div 10000 = n \div 10000
  PROVE  m - n = (m % 10000) - (n % 10000)
  OBVIOUS

(* The angle of arrival points to the sender, for every two positions      *)
(* within the same hundredth of a degree.                                  *)
THEOREM DirPointsThereCorrect == Spec => []DirPointsThere
  <1>1. AngleInv => DirPointsThere
    <2> SUFFICES ASSUME AngleInv, recv_from # NoPacket,
                        SameHundredth(recv_from.sender, recv_from.from)
                 PROVE  DirPointsThere
      BY DEF DirPointsThere
    <2> DEFINE p == recv_from.sender
               q == recv_from.from
               dir == recv_from.dir
    <2>1. p \in Positions /\ q \in Positions
      BY PacketType
    <2>2. /\ p.lat \in Nat /\ p.lon \in Nat /\ q.lat \in Nat /\ q.lon \in Nat
      BY <2>1 DEF Positions
    <2>3. dir \in Sector(North(p, q), East(p, q))
      BY <2>1, ArrivalInSector DEF AngleInv, Measured
    <2>4. SameHundredth(p, q)
      OBVIOUS
    <2>5. DirPointsThere <=>
            /\ p.lat > q.lat => dir \in 0..180
            /\ p.lat < q.lat => dir \in 180..360
            /\ p.lon > q.lon => dir \in 0..90 \cup 270..360
            /\ p.lon < q.lon => dir \in 90..270
      BY DEF DirPointsThere
    <2> HIDE DEF p, q, dir
    <2>6. North(p, q) = p.lat - q.lat /\ East(p, q) = p.lon - q.lon
      BY <2>2, <2>4, LastDigits DEF SameHundredth, North, East, Fraction
    <2>7. /\ p.lat > q.lat => dir \in 0..180
          /\ p.lat < q.lat => dir \in 180..360
          /\ p.lon > q.lon => dir \in 0..90 \cup 270..360
          /\ p.lon < q.lon => dir \in 90..270
      BY <2>2, <2>3, <2>6 DEF Sector
    <2>8. QED BY <2>5, <2>7
  <1>2. QED BY <1>1, AngleInductive, PTL

-----------------------------------------------------------------------------
(* The judgement.                                                          *)

(* A heartbeat is only judged by Judge.                                    *)
LEMMA JudgeStep ==
  ASSUME AngleInv, [Next]_vars, Judges
  PROVE  Judge /\ location \in Positions
  <1>1. Judge
    BY DEF Judges, Next, vars, Move, Locate, ReceiveHeartbeat, Ignore
  <1>2. QED BY <1>1, ArePositions DEF AngleInv, TypeOK

(* However the quotient of the integer division is cut, the two angles of  *)
(* the claim are in one sector; so the trusted angle of arrival is within  *)
(* a right angle and the tolerance of the true angle of the claim.         *)
THEOREM BehindDistrustedCorrect == Spec => BehindDistrusted
  <1>1. ASSUME AngleInv, [Next]_vars, Trusts
        PROVE  Apart(AngleOfArrival(recv_from.claim, location), recv_from.dir)
                 < 90 + GPS_TOLERANCE_360
    <2> DEFINE p == recv_from.claim
               a == AngleOfArrival(p, location)
               b == ClaimedAngle(p, location)
               dir == recv_from.dir
               y == North(p, location)
               x == East(p, location)
    <2>1. Judge /\ location \in Positions /\ recv_from # NoPacket
      BY <1>1, JudgeStep DEF Trusts, Judges
    <2>2. p \in Positions /\ dir \in 0..360
      BY <1>1, <2>1, PacketType
    <2>3. y \in Int /\ x \in Int
      BY <2>1, <2>2, FractionType DEF North, East
    <2>4. a \in Sector(y, x) /\ b \in Sector(y, x)
      BY <2>1, <2>2, ArrivalInSector, ClaimedInSector
    <2>5. Abs(b - dir) < GPS_TOLERANCE_360
      BY <1>1, <2>1 DEF Trusts, Judge
    <2> HIDE DEF p, a, b, dir, y, x
    <2>6. a \in 0..360 /\ b \in 0..360 /\ Abs(a - b) <= 90
      BY <2>3, <2>4, SectorWidth
    <2>7. Apart(a, dir) < 90 + GPS_TOLERANCE_360
      BY <2>2, <2>5, <2>6, AngleAssumption DEF Apart, Abs
    <2>8. QED BY <2>7 DEF p, a, dir
  <1>2. AngleInv /\ [Next]_vars
          => [Trusts => Apart(AngleOfArrival(recv_from.claim, location), recv_from.dir)
                          < 90 + GPS_TOLERANCE_360]_vars
    BY <1>1
  <1>3. QED BY <1>2, AngleInductive, PTL DEF Spec, BehindDistrusted

(* A slope that is a whole number is the quotient of the integer division, *)
(* and has the same arctangent.                                            *)
LEMMA Cancel ==
  ASSUME NEW a \in Nat, NEW b \in Nat, NEW n \in Nat \ {0}
  PROVE  a * n <= b * n <=> a <= b
  OBVIOUS

LEMMA ExactDivision ==
  ASSUME NEW m \in Nat, NEW n \in Nat \ {0}, m % n = 0
  PROVE  m \div n \in Nat /\ m = (m \div n) * n
  OBVIOUS

LEMMA ExactNotAbove ==
  ASSUME NEW d \in 1..90, NEW k \in Nat, NEW n \in Nat \ {0}
  PROVE  NotAbove(d, k * n, n) <=> NotAbove(d, k, 1)
  <1>1. CASE d <= 45
    <2>1. PICK t \in Nat : t = Tan(d)
      BY <1>1, TanType
    <2>2. t * n <= (100000 * k) * n <=> t <= 100000 * k
      BY Cancel
    <2>3. QED BY <1>1, <2>1, <2>2 DEF NotAbove
  <1>2. CASE d > 45
    <2>1. PICK t \in Nat : t = Tan(90 - d)
      BY <1>2, TanType
    <2>2. 100000 * n <= (t * k) * n <=> 100000 <= t * k
      BY Cancel
    <2>3. QED BY <1>2, <2>1, <2>2 DEF NotAbove
  <1>3. QED BY <1>1, <1>2

LEMMA ExactAtan ==
  ASSUME NEW y \in Int, NEW x \in Int, x # 0, Abs(y) % Abs(x) = 0
  PROVE  Atan(Quotient(y, x), 1) = Atan(y, x)
  <1> DEFINE n == Abs(x)
             k == Abs(y) \div n
             q == Quotient(y, x)
  <1>1. n \in Nat \ {0} /\ Abs(y) \in Nat
    BY DEF Abs
  <1>2. k \in Nat /\ Abs(y) = k * n
    BY <1>1, ExactDivision
  <1>3. q = Sign(y) * Sign(x) * k
    BY DEF Quotient
  <1>4. CASE y = 0
    <2>1. q = 0
      BY <1>2, <1>3, <1>4 DEF Sign
    <2>2. QED BY <1>4, <2>1 DEF Atan
  <1>5. CASE y # 0
    <2> DEFINE c == Cardinality({d \in 1..90 : NotAbove(d, k, 1)})
    <2>1. c = Cardinality({d \in 1..90 : NotAbove(d, Abs(y), n)})
      <3>1. \A d \in 1..90 : NotAbove(d, k, 1) <=> NotAbove(d, Abs(y), n)
        <4> HIDE DEF k, n
        <4>1. \A d \in 1..90 : NotAbove(d, k * n, n) <=> NotAbove(d, k, 1)
          BY <1>1, <1>2, ExactNotAbove
        <4>2. QED BY <1>2, <4>1
      <3>2. {d \in 1..90 : NotAbove(d, k, 1)} = {d \in 1..90 : NotAbove(d, Abs(y), n)}
        BY <3>1
      <3>3. QED BY <3>2
    <2>2. Atan(y, x) = Sign(y) * (IF x < 0 THEN -1 ELSE 1) * c
      BY <1>5, <2>1 DEF Atan
    <2>3. c \in 0..90
      BY Degrees
    <2>4. q # 0 /\ Abs(q) = k /\ Sign(q) = Sign(y) * Sign(x)
      <3>1. Abs(y) # 0
        BY <1>5 DEF Abs
      <3> HIDE DEF k, n, q
      <3>2. k # 0
        BY <1>1, <1>2, <3>1
      <3>3. QED BY <1>2, <1>3, <1>5, <3>2 DEF Abs, Sign
    <2>5. Atan(q, 1) = Sign(q) * 1 * Cardinality({d \in 1..90 : NotAbove(d, Abs(q), Abs(1))})
      BY <2>4 DEF Atan
    <2>6. Abs(1) = 1
      BY DEF Abs
    <2>7. Atan(q, 1) = Sign(q) * 1 * c
      BY <2>4, <2>5, <2>6
    <2> HIDE DEF c, q
    <2>8. QED BY <1>5, <2>2, <2>3, <2>4, <2>7 DEF Sign, q
  <1>6. QED BY <1>4, <1>5

(* So an honest sender in such a direction is trusted, in every quadrant   *)
(* and whatever the GPS has said since; the tolerance must allow for an    *)
(* equality, as that of common.h does.                                     *)
THEOREM ExactHonestTrustedCorrect ==
  ASSUME GPS_TOLERANCE_360 > 0
  PROVE  Spec => ExactHonestTrusted
  <1>1. ASSUME AngleInv, [Next]_vars, Distrusts, Honest, Exact(recv_from.claim, location)
        PROVE  FALSE
    <2> DEFINE p == recv_from.claim
               y == North(p, location)
               x == East(p, location)
    <2>1. Judge /\ location \in Positions /\ recv_from # NoPacket
      BY <1>1, JudgeStep DEF Distrusts, Judges
    <2>2. p \in Positions
      BY <1>1, <2>1, PacketType
    <2>3. y \in Int /\ x \in Int /\ x # 0 /\ Abs(y) % Abs(x) = 0
      BY <1>1, <2>1, <2>2, FractionType DEF Exact, North, East
    <2>4. ClaimedAngle(p, location) = AngleOfArrival(p, location)
      <3>1. Atan(Quotient(y, x), 1) = Atan(y, x)
        BY <2>3, ExactAtan
      <3>2. QED BY <3>1 DEF ClaimedAngle, AngleOfArrival, North, East
    <2>5. recv_from.dir = AngleOfArrival(p, location) /\ recv_from.dir \in 0..360
      BY <1>1, <2>1, PacketType DEF Honest, AngleInv, Measured
    <2> DEFINE gap == ClaimedAngle(p, location) - recv_from.dir
    <2>6. gap = 0
      BY <2>4, <2>5
    <2>7. Abs(gap) < GPS_TOLERANCE_360
      BY <2>6, AngleAssumption DEF Abs
    <2>8. self_trust' = SELF_WEIGHTED_TRUST
      BY <2>1, <2>7 DEF Judge
    <2>9. QED BY <1>1, <2>8, AngleAssumption DEF Distrusts
  <1>2. AngleInv /\ [Next]_vars
          => [Distrusts => ~(Honest /\ Exact(recv_from.claim, location))]_vars
    BY <1>1
  <1>3. QED BY <1>2, AngleInductive, PTL DEF Spec, ExactHonestTrusted
=============================================================================

-------------------------------- MODULE Angle --------------------------------
(***************************************************************************)
(* How a heartbeat is judged.  The phased array antenna is simulated: a    *)
(* sender puts its true position before every datagram, and                *)
(* wifi_process_packet() computes the angle of arrival from it and from    *)
(* what the GPS reports.  main() computes the angle of the position that   *)
(* the heartbeat claims, seen from the position it asked the GPS for at    *)
(* its last 20-second tick, and trusts the sender when the two angles are  *)
(* near each other.  A position is a latitude and a longitude, in          *)
(* millionths of a degree, of which only the last four digits are used.    *)
(***************************************************************************)
EXTENDS Integers, FiniteSets

CONSTANTS Latitudes, Longitudes,   \* the coordinates of places
          GPS_TOLERANCE_360, SELF_WEIGHTED_TRUST

ASSUME AngleAssumption ==
  /\ Latitudes \subseteq Nat /\ Longitudes \subseteq Nat
  /\ GPS_TOLERANCE_360 \in Nat /\ SELF_WEIGHTED_TRUST \in Nat \ {0}

Places == [lat : Latitudes, lon : Longitudes]

VARIABLES
  gps,          \* where the GPS says that this device is, or NoFix
  location,     \* latitude and longitude of dsrc.c, zero before the first fix
  recv_from,    \* the heartbeat to judge: the angle of arrival, the claimed
                \* position and, to state properties, the true one and my_loc
  self_trust

vars == <<gps, location, recv_from, self_trust>>

NoPacket == [dir |-> 361]
NoFix    == [lat |-> -1, lon |-> -1]
Nowhere  == [lat |-> 0, lon |-> 0]

Init ==
  /\ gps = NoFix /\ location = Nowhere
  /\ recv_from = NoPacket /\ self_trust = 0

-----------------------------------------------------------------------------
(* Angles are integers: the tangents of 0 to 45 degrees, times 100000.     *)
Tangent ==
  <<1745, 3492, 5240, 6992, 8748, 10510, 12278, 14054, 15838, 17632, 19438, 21255,
    23086, 24932, 26794, 28674, 30573, 32491, 34432, 36397, 38386, 40402, 42447,
    44522, 46630, 48773, 50952, 53170, 55430, 57735, 60086, 62486, 64940, 67450,
    70020, 72654, 75355, 78128, 80978, 83909, 86928, 90040, 93251, 96568, 100000>>
Tan(d) == IF d = 0 THEN 0 ELSE Tangent[d]

Abs(n)  == IF n < 0 THEN -n ELSE n
Sign(n) == IF n < 0 THEN -1 ELSE IF n > 0 THEN 1 ELSE 0

(* The integer part of atan(y/x)*180/M_PI.  0/0 is not a number, which the *)
(* processor converts to 0; y/0 is infinite.                               *)
NotAbove(d, y, x) ==
  IF d <= 45 THEN Tan(d) * x <= 100000 * y ELSE 100000 * x <= Tan(90 - d) * y

Atan(y, x) ==
  IF y = 0 THEN 0
  ELSE Sign(y) * (IF x < 0 THEN -1 ELSE 1)
               * Cardinality({d \in 1..90 : NotAbove(d, Abs(y), Abs(x))})

(* Integer division in C; by zero, the processor's SDIV gives 0.           *)
Quotient(y, x) == IF x = 0 THEN 0 ELSE Sign(y) * Sign(x) * (Abs(y) \div Abs(x))

Fraction(p) == [lat |-> p.lat % 10000, lon |-> p.lon % 10000]

QuadrantUnturned(angle, their, my) ==
  IF their.lon < my.lon THEN angle + 180 ELSE angle

QuadrantSouthFirst(angle, their, my) ==
  IF their.lat < my.lat THEN angle + 360
  ELSE IF their.lon < my.lon THEN angle + 180 ELSE angle

Quadrant(angle, their, my) ==
  IF their.lon < my.lon THEN angle + 180
  ELSE IF their.lat < my.lat THEN angle + 360 ELSE angle

(* The angle of arrival is computed with floating-point numbers,           *)
AngleOfArrival(p, q) ==
  LET their == Fraction(p)
      my    == Fraction(q)
  IN  Quadrant(Atan(their.lat - my.lat, their.lon - my.lon), their, my)

ClaimedAngleUnturned(p, q) ==
  LET their == Fraction(p)
      my    == Fraction(q)
  IN  Atan(Quotient(their.lat - my.lat, their.lon - my.lon), 1)

(* and that of the claim with an integer division.                         *)
ClaimedAngle(p, q) ==
  LET their == Fraction(p)
      my    == Fraction(q)
  IN  Quadrant(Atan(Quotient(their.lat - my.lat, their.lon - my.lon), 1), their, my)

-----------------------------------------------------------------------------
(* The car drives on; in a tunnel the GPS module loses its fix.            *)
Move ==
  /\ gps' \in Places \cup {NoFix}
  /\ UNCHANGED <<location, recv_from, self_trust>>

(* The 20-second tick, also between the arrival of a heartbeat and its     *)
(* judgement.  Without a fix gps_l80_get_*() write nothing.                *)
Locate ==
  /\ gps # NoFix
  /\ location' = gps
  /\ UNCHANGED <<gps, recv_from, self_trust>>

(* wifi_process_packet() takes a heartbeat out of the ring.  Without a fix *)
(* my_loc, which has no initial value, is whatever the stack held.         *)
ReceiveHeartbeat ==
  /\ recv_from = NoPacket
  /\ \E sender, claim, my_loc \in Places :
       /\ gps # NoFix => my_loc = gps
       /\ recv_from' = [dir |-> AngleOfArrival(sender, my_loc) % 65536, claim |-> claim,
                        sender |-> sender, from |-> my_loc]
  /\ UNCHANGED <<gps, location, self_trust>>

Knows == location.lat # 0 /\ location.lon # 0

(* A device that does not know its position takes no notice.               *)
Ignore ==
  /\ recv_from # NoPacket
  /\ ~Knows
  /\ recv_from' = NoPacket
  /\ UNCHANGED <<gps, location, self_trust>>

JudgeSigned ==
  /\ recv_from # NoPacket
  /\ Knows
  /\ self_trust' = (IF ClaimedAngle(recv_from.claim, location) - recv_from.dir
                         < GPS_TOLERANCE_360
                    THEN SELF_WEIGHTED_TRUST ELSE 0)
  /\ recv_from' = NoPacket
  /\ UNCHANGED <<gps, location>>

(* main() serves it.                                                       *)
Judge ==
  /\ recv_from # NoPacket
  /\ Knows
  /\ self_trust' = (IF Abs(ClaimedAngle(recv_from.claim, location) - recv_from.dir)
                         < GPS_TOLERANCE_360
                    THEN SELF_WEIGHTED_TRUST ELSE 0)
  /\ recv_from' = NoPacket
  /\ UNCHANGED <<gps, location>>

Next == Move \/ Locate \/ ReceiveHeartbeat \/ Ignore \/ Judge

Spec == Init /\ [][Next]_vars

-----------------------------------------------------------------------------
Packets == [dir : 0..360, claim : Places, sender : Places, from : Places]

TypeOK ==
  /\ gps \in Places \cup {NoFix} /\ location \in Places \cup {Nowhere}
  /\ recv_from \in Packets \cup {NoPacket}
  /\ self_trust \in {0, SELF_WEIGHTED_TRUST}

(* "determine the angle of arrival" (wifi_mcw1001a_mikro.c:607): a sender  *)
(* with the larger latitude is seen in the upper half of the circle, one   *)
(* with the larger longitude in the right half, and so on; truncation may  *)
(* only take the angle to the border.  (The code ignores the hemispheres.) *)
(* This needs two positions within the same hundredth of a degree: across  *)
(* its border the last four digits start again, and right becomes left.    *)
SameHundredth(p, q) ==
  p.lat \div 10000 = q.lat \div 10000 /\ p.lon \div 10000 = q.lon \div 10000

DirPointsThere ==
  recv_from # NoPacket /\ SameHundredth(recv_from.sender, recv_from.from) =>
    LET p   == recv_from.sender
        q   == recv_from.from
        dir == recv_from.dir
    IN  /\ p.lat > q.lat => dir \in 0..180
        /\ p.lat < q.lat => dir \in 180..360
        /\ p.lon > q.lon => dir \in 0..90 \cup 270..360
        /\ p.lon < q.lon => dir \in 90..270

Judges    == recv_from # NoPacket /\ recv_from' = NoPacket /\ Knows
Distrusts == Judges /\ self_trust' = 0
Trusts    == Judges /\ self_trust' # 0

(* The sender is where it says, and this device judges it from where it    *)
(* was when the heartbeat came (or from what the stack held then).         *)
Honest == recv_from.claim = recv_from.sender /\ recv_from.from = location

(* The division loses nothing.                                             *)
Exact(p, q) ==
  LET y == Fraction(p).lat - Fraction(q).lat
      x == Fraction(p).lon - Fraction(q).lon
  IN  x # 0 /\ Abs(y) % Abs(x) = 0

(* An honest sender in a direction whose slope is a whole number is        *)
(* trusted, in all four quadrants, also after this device has moved on.    *)
ExactHonestTrusted ==
  [][Distrusts => ~(Honest /\ Exact(recv_from.claim, location))]_vars

(* A claim more than a right angle and the tolerance off the angle of      *)
(* arrival, going round either way, is never trusted, whatever the integer *)
(* division makes of it.                                                   *)
Apart(a, b) == IF Abs(a - b) > 180 THEN 360 - Abs(a - b) ELSE Abs(a - b)

BehindDistrusted ==
  [][Trusts => Apart(AngleOfArrival(recv_from.claim, location), recv_from.dir)
                 < 90 + GPS_TOLERANCE_360]_vars

(* "the tolerance allowed for the stated angle and the calculated angle    *)
(* out of 360 degrees" (common.h:63): with a position that is both the     *)
(* true and the claimed one, the two angles are one and the sender is      *)
(* trusted.  The code does not keep this: the integer division turns a     *)
(* slope of 1/2 into 0, and one of 1/0 as well.                            *)
HonestTrusted == [][Distrusts => ~Honest]_vars
=============================================================================

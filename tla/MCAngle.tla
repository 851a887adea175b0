------------------------------- MODULE MCAngle -------------------------------
(* Positions on both sides of a meridian where a hundredth of a degree     *)
(* begins.  Their differences give slopes that are zero, whole,            *)
(* fractional, steep and infinite, in every quadrant; for each of them the *)
(* table of tangents gives the degrees that atan() does.                   *)
EXTENDS Angle

SomeLatitudes  == {32469600, 32469601, 32469603}
SomeLongitudes == {94059999, 94060000, 94060001, 94060003}
=============================================================================

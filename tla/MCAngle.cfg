SPECIFICATION Spec
CONSTANTS
  Latitudes <- SomeLatitudes
  Longitudes <- SomeLongitudes
  GPS_TOLERANCE_360 = 14
  SELF_WEIGHTED_TRUST = 14
INVARIANTS TypeOK DirPointsThere
PROPERTIES ExactHonestTrusted BehindDistrusted

CONSTANTS
  WIFI_PRESENT = TRUE
  GPS_PRESENT = TRUE
SPECIFICATION Spec
INVARIANTS
  DirtyIsFlagged

CONSTANTS
  WIFI_PRESENT = TRUE
  GPS_PRESENT = TRUE
SPECIFICATION FairSpec
INVARIANTS
  AnySummarises
  DatagramFlagged
PROPERTIES
  LastServed

CONSTANTS
  Nodes = {n1, n2, n3}
  Elsewhere = {elsewhere}
  PacketIds = {0, 1}
  MAX_TRACKED_DEVICES = 2
  MAX_NEIGHBORS = 3
  DEVICE_TIMEOUT = 2
  HeapRecords <- Unwritten
  NULL = NULL
SYMMETRY Symmetry
SPECIFICATION Spec
INVARIANTS
  OneRecordEach
  OpinionsCountOnce
  TrustNeverWraps
  TimeoutNeverWraps
PROPERTIES
  CountedStays

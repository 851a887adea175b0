CONSTANTS
  Nodes = {n1, n2}
  Elsewhere = {elsewhere}
  PacketIds = {0, 1}
  IDS = 2
  AIR = 2
  Near = {n1}
  MAX_TRACKED_DEVICES = 2
  MAX_NEIGHBORS = 2
  DEVICE_TIMEOUT = 2
  HeapRecords <- Unwritten
  NULL = NULL
SPECIFICATION FairNetSpec
INVARIANTS
  SameIdSameHeartbeat
  TrustEarned
PROPERTIES
  SilentDropped
  NobodyDropped

CONSTANTS
  BUFFER_SIZE = 3
  BUFFER_MAX_PACKET_SIZE = 5
  MaxUnread = 2
  BytesPerScan = 3
  MaxFaults = 1
  Payloads <- SomePayloads
  NULL = NULL
SPECIFICATION Spec
INVARIANTS
  NothingRefused
  WritesInSlot
PROPERTIES
  ImplementsChannel

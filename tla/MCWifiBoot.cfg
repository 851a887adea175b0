CONSTANTS
  MaxOutstanding = 2
  Settings <- TwoSettings
  MaxSockets = 3
  InitialNet <- AnyNet
  MaxFailures = 1
SPECIFICATION FairSpec
INVARIANTS
  TypeOK
  SocketsDiffer
  ConnectedBeforeSockets
PROPERTIES
  EndsBooted
CHECK_DEADLOCK FALSE

CONSTANTS
  MaxOutstanding = 3
  TX_REPEAT_CNT = 2
  Datagrams = {a, b}
  size = 3
  NULL = NULL
SPECIFICATION MCSpec
INVARIANTS
  OneRecvFrom
  EndsAgree
PROPERTIES
  AsksAgain
  ImplementsFifo
  Drained
  StaysRoomy

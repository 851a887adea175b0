CONSTANTS
  NMEA_RECORD_LENGTH = 13
  Sentences <- TheSentences
  NmeaTypes <- TheTypes
  MaxLost = 3
SPECIFICATION FairLineSpec
INVARIANTS
  LineTypeOK
  SentenceStored
PROPERTIES
  RecoversFromLoss

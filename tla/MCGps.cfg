CONSTANTS
  MaxSentences = 3
  MaxDamaged = 1
  Losses = {8}
  Stacks <- TheStacks
SPECIFICATION Spec
INVARIANTS
  TypeOK
  TornAligned
  LongitudeNotOlder
PROPERTIES
  ParseExact
  LocationNeverOlder

SPECIFICATION Spec
CONSTANTS
  Byte <- MCByte
  Signatures <- MCSignatures
  MaxEdges = 5
INVARIANTS
  TypeOK
  LatchExact
  NoOccurrenceMissed
  SteadyMeansNoFalseAlarm

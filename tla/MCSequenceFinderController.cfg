SPECIFICATION Spec
CONSTANTS
  Byte <- MCByte
  Width = 4
  MaxData = 6
  Firsts <- MCFirsts
  Seconds <- MCSeconds
  Items <- MCItems
  MaxLoads = 3
INVARIANTS
  TypeOK
  TargetTaken
  ShortTargetFound
  LongTargetNeedsEveryClock
  OwnByteIsData

SPECIFICATION Spec
CONSTANTS
  Byte <- MCByte
  Width = 4
  Targets <- MCTargets
  MaxData = 7
INVARIANTS
  TypeOK
  FoundIsSound
  FoundIsComplete
  ProgressIsReal

SPECIFICATION Spec
CONSTANTS
  Byte <- MCByte
  Width = 4
  Targets <- MCTargets
  MaxData = 7
INVARIANT FoundMeansDetected

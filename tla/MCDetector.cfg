SPECIFICATION Spec
CONSTANTS
  Byte <- MCByte
  Signatures <- MCSignatures
  MaxEdges = 8
INVARIANTS
  TypeOK
  ChainTracksPrefixes
  OutputExact
PROPERTY ImplementsMatcher

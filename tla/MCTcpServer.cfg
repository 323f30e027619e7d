CONSTANTS
  Servers = {"seq", "data"}
  N = 7
  PeerMss = 3
  TCP_WND = 6
  Mss = 4
  SeqSpace = 64
  ISN = 63
  U16 = 32
  U8 = 3
SPECIFICATION Spec
INVARIANTS
  TypeOK
  StreamDelivered
  OfferHonoured
  WindowAccounted
  ResetOnlyAfterChain
  OoseqSorted
  SkippedByCount
PROPERTIES
  RightEdgeKept
  AllAcked

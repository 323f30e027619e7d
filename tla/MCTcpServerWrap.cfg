CONSTANTS
  Servers = {"seq"}
  N = 7
  PeerMss = 3
  TCP_WND = 6
  Mss = 4
  SeqSpace = 64
  ISN = 57
  U16 = 32
  U8 = 3
INIT Init
NEXT Next
INVARIANT StreamDelivered

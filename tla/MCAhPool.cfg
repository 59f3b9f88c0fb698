SPECIFICATION FairSpec
CONSTANTS
  c1 = c1
  c2 = c2
  c3 = c3
  c4 = c4
  c5 = c5
  p1 = p1
  None = None
  Conns = {c1, c2, c3, c4, c5}
  Peers = {p1}
  PeerOf <- MCPeerOf
  PoolSize = 2
  Limits = {0, 1}
  LimitWsi = 2
  MaxPipe = 1
  MaxLeaks = 1
  Smp = FALSE
INVARIANTS PoolIsSound WaitersAreListed
PROPERTY WaitersAreServed

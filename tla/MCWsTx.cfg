SPECIFICATION FairSpec
CONSTANTS
  SocketRoom = 3
  MaxChunks = 2
  MaxBlind = 1
INVARIANTS PeerUnderstands OutputIsSound
PROPERTY OutputDrains

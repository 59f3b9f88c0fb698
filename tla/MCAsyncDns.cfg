SPECIFICATION DnsFairSpec
CONSTANTS
  Wsis = {w1, w2}
  Queries = {q1, q2}
  Builds <- BothBuilds
  Rand = {0, 2}
  Retries = 3
  Recursions = 3
  MaxCached = 2
  MaxEntries = 2
  Rare = {"bad", "deep", "requery"}
INVARIANTS CacheIsSound WaitersAreDriven
PROPERTY WaitsEnd

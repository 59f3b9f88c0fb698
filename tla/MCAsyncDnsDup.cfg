SPECIFICATION DnsSpec
CONSTANTS
  Wsis = {w1, w2}
  Queries = {q1}
  Builds <- Ipv6Build
  Rand = {0, 2}
  Retries = 4
  Recursions = 3
  MaxCached = 2
  MaxEntries = 2
  Rare = {}
INVARIANT NobodyIsLost

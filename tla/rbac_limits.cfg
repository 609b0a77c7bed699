CONSTANTS
  Identity = {u1, u2}
  Namespace = {}
  NamespaceAll = nsAll
  All = all
  Caller = {k1, k2}
  TTL = 1
  MaxCache = 1
SPECIFICATION FairSpec
INVARIANTS
  CacheBounded
  ExpiredEntriesEvicted
PROPERTY EveryCallReturns

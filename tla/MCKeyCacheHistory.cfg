SPECIFICATION HSpec
CONSTANTS
  Orgs = {o1}
  SubKeys = {s1}
  NumShards = 2
  CacheIds = {c1, c2, c3}
  Touchers = {t1, t2}
  NoCache = NoCache
  NoKey = NoKey
  NoOrg = NoOrg
  MaxPass = 4
SYMMETRY Symmetry
INVARIANT SeenIsFresh
PROPERTY RemovalDropsOnlyNewMarks

SPECIFICATION RFairSpec
CONSTANTS
  Orgs = {o1, o2}
  SubKeys = {s1}
  NumShards = 2
  CacheIds = {c1, c2, c3}
  Touchers = {t1}
  NoCache = NoCache
  NoKey = NoKey
  NoOrg = NoOrg
  NoAnswer = NoAnswer
PROPERTIES ImplementsSeenFilter SilentOrgsLeave

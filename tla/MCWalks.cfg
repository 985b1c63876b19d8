SPECIFICATION WalksSpec
CONSTANTS
  \* TernaryTree
  v1 = v1
  v2 = v2
  Key <- MCKeys
  Value = {v1, v2}
  Entry <- MCEntries
  Null = Null
  \* Links
  Rows = {1, 2}
  Clusters = {0, 1, 2}
  NotLinked <- NoCluster
  MaxEdits = 2
  \* Search
  Addresses = {1, 2, 3}
  MaxTerms = 3
  Fields = {"bitrate"}
  Has <- MCHas
  Wanted <- MCWanted
  Reachable = {1, 2, 3}
  Own = {1}
  SearchLimits = {0, 2}
  CharSize = 3
  \* SearchQueue
  Searchers = {"x", "y"}
  Peers = {"p", "q"}
  ForwardSearches = TRUE
  NoPeer = "-"
INVARIANTS
  TreeSound
  LinksSound
  SearchSound
  QueueSound
PROPERTIES
  TreeIsASet
  WalksEnd

\* One user repeats pushes of changing stacks; runs are killed, pull requests end.
CONSTANTS
  a1 = a1
  a2 = a2
  b1 = b1
  b2 = b2
  NoRef = NoRef
  NoPr = NoPr
  NoGid = NoGid
  Main = Main
  Rebased = {}
  Procs <- OneUser
  Clones <- OneClone
  CloneOf <- CloneOfOne
  Unreadable = {}
  Gids <- MCGids
  Commits <- MCCommits
  GidOf <- MCGidOf
  Stacks <- MovingStack
  PushBatchLen = 1
  QueryBatchLen = 1
  MaxVersion = 3
  MaxCrashes = 2
  MaxEvents = 2
SPECIFICATION FairSpec
CHECK_DEADLOCK FALSE
INVARIANTS
  SyncInv
  OneOpenPr
  PublishedBeforeGitHub
PROPERTIES
  NoPushToClosed
  SyncedWhenDone
  Converges
  ImplementsPatchHistory

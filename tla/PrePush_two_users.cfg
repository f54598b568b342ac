\* Two users amend one commit while its pull requests are merged and closed.
CONSTANTS
  a1 = a1
  a2 = a2
  b1 = b1
  b2 = b2
  NoRef = NoRef
  NoPr = NoPr
  NoGid = NoGid
  Main = Main
  Rebased = {}
  Procs <- TwoUsers
  Clones <- TwoClones
  CloneOf <- CloneOfTwo
  Unreadable = {}
  Gids <- MCGids
  Commits <- MCCommits
  GidOf <- MCGidOf
  Stacks <- AmendedCommit
  PushBatchLen = 1
  QueryBatchLen = 1
  MaxVersion = 2
  MaxCrashes = 0
  MaxEvents = 2
SPECIFICATION Spec
CHECK_DEADLOCK FALSE
INVARIANTS
  BodyVersionPublished

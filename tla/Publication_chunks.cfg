\* Two users publish stacks of one and of two commits, one commit a push.
CONSTANTS
  a1 = a1
  a2 = a2
  b1 = b1
  p1 = p1
  p2 = p2
  x = x
  y = y
  NoRef = NoRef
  Unreadable <- MCClones
  Procs <- MCProcs
  Clones <- MCClones
  CloneOf <- TwoClones
  Gids <- MCGids
  Commits <- MCCommits
  GidOf <- MCGidOf
  Rebased = {}
  Stacks <- TwoChunks
  PushBatchLen = 1
  QueryBatchLen = 1
  MaxVersion = 2
SYMMETRY UserSymmetry
SPECIFICATION UsersSpec
CHECK_DEADLOCK FALSE
INVARIANTS
  IInv
  VersionsContiguous
  RunVersionsPublished
  BranchIsPublishedVersion
  LocalTagsPublished
PROPERTIES
  TagsNeverMove

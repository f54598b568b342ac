\* A push may undo a version its clone has never seen.
CONSTANTS
  a1 = a1
  a2 = a2
  b1 = b1
  p1 = p1
  p2 = p2
  x = x
  y = y
  NoRef = NoRef
  Unreadable = {}
  Procs <- MCProcs
  Clones <- MCClones
  CloneOf <- TwoClones
  Gids <- MCGids
  Commits <- MCCommits
  GidOf <- MCGidOf
  Rebased = {}
  Stacks <- SingleCommits
  PushBatchLen = 1
  QueryBatchLen = 1
  MaxVersion = 2
SPECIFICATION PubSpec
CHECK_DEADLOCK FALSE
PROPERTIES
  NoBlindOverwrite

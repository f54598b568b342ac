\* Two users push one commit on different bases.
CONSTANTS
  a1 = a1
  a2 = a2
  b1 = b1
  b2 = b2
  NoRef = NoRef
  NoPr = NoPr
  NoGid = NoGid
  Main = Main
  Rebased = {}
  Procs <- TwoUsers
  Clones <- TwoClones
  CloneOf <- CloneOfTwo
  Unreadable = {}
  Gids <- MCGids
  Commits <- MCCommits
  GidOf <- MCGidOf
  Stacks <- MovingStack
  PushBatchLen = 2
  QueryBatchLen = 1
  MaxVersion = 2
  MaxCrashes = 0
  MaxEvents = 0
SPECIFICATION Spec
CHECK_DEADLOCK FALSE
INVARIANTS
  OneOpenPr

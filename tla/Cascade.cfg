\* A growing stack is pushed and merged; runs are killed and jobs fail.
CONSTANTS
  a1 = a1
  b1 = b1
  b2 = b2
  ra = ra
  rb1 = rb1
  rb2 = rb2
  NoRef = NoRef
  NoPr = NoPr
  NoGid = NoGid
  Main = Main
  Procs <- OneUser
  Clones <- OneClone
  CloneOf <- CloneOfOne
  Unreadable = {}
  Gids <- MCGids
  Commits <- MCCommits
  GidOf <- MCGidOf
  Rebased <- MCRebased
  RebaseOf <- MCRebaseOf
  Stacks <- GrowingStack
  PushBatchLen = 1
  QueryBatchLen = 2
  MaxVersion = 2
  MaxCrashes = 1
  MaxEvents = 2
SPECIFICATION CascadeFairSpec
CHECK_DEADLOCK FALSE
INVARIANTS
  CascadeInv
  TipIsCurrent
PROPERTIES
  MergedIsFinal
  ChildFollows

\* Tests of one or two commands over three commits.
CONSTANTS
  a = a
  b = b
  c = c
  main = main
  Main = main
  Branches <- MCBranches
  None = None
  Stack <- MCStack
  MaxBatchLen = 4
  MaxQueryBytes = 8
  Costs <- MCCosts
  Lengths <- MCLengths
  Seeds <- MCSeeds
  Scripts <- MCScripts
  Limits = {1, 2, 9}
  MaxCandidates = 2
  MaxCommands = 2
  MaxRivals = 1
SPECIFICATION TestedSpec
CHECK_DEADLOCK FALSE
INVARIANTS
  BatchInv
  ExecutedAtMostOnce
  InDoubtIsOneBatch
  LookupFindsTheOne
  SyncedWhenPushed
  FailedWithCause
  FaultFailsCommand
  PushesRecorded
PROPERTIES
  CallsAreBatched
  CommandEnds

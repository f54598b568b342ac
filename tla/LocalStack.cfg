\* Commits are made and rewritten, the remote moves.
CONSTANTS
  MaxCommits = 5
  Messages <- PlainOrSquash
  Merging = TRUE
SPECIFICATION Spec
CHECK_DEADLOCK FALSE
INVARIANTS
  LocalInv
  CollectsMissing
  RefusedWithCause
  LandedNotPushed
  StableKey

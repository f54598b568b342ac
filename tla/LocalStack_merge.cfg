\* A user merges the default branch of the remote into a stack of two commits.
CONSTANTS
  MaxCommits = 5
  Messages <- OnlyPlain
  Merging = TRUE
SPECIFICATION Spec
CHECK_DEADLOCK FALSE
INVARIANTS
  PreservesTopology

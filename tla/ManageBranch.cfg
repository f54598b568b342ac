\* Two commands at once, stops half way, edits by users and git.
CONSTANTS
  p1 = p1
  p2 = p2
  Many = Many
  Unset = Unset
  OwnRef = OwnRef
  MainRef = MainRef
  NoPlan = NoPlan
  DefaultRemote = "origin"
  Procs <- TwoProcs
  UserValues <- ManyValues
  HandStates <- WrittenByHand
  MaxEdits = 2
  MaxStops = 1
SPECIFICATION Spec
SYMMETRY Symmetry
CHECK_DEADLOCK FALSE
INVARIANTS
  ManageInv
PROPERTIES
  UserValuesKept
  RecordedIsApplied
  RefusedOnlyMany

\* A branch made from origin/main, with its hook.
CONSTANTS
  p1 = p1
  p2 = p2
  Many = Many
  Unset = Unset
  OwnRef = OwnRef
  MainRef = MainRef
  NoPlan = NoPlan
  DefaultRemote = "origin"
  Procs <- OneProc
  UserValues <- NoOne
  HandStates <- NoOne
  MaxEdits = 0
  MaxStops = 0
SPECIFICATION FairSpec
CHECK_DEADLOCK FALSE
PROPERTIES
  LocalBranchManaged

\* Three commands one after another, each with or without --force, and two edits.
CONSTANTS
  HooksInside = TRUE
  MaxInstalls = 3
  MaxHookEdits = 2
SPECIFICATION InstallSpec
CHECK_DEADLOCK FALSE
INVARIANTS
  InstallInv
PROPERTIES
  ForeignKept
  InstallComplete

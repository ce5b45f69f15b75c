SPECIFICATION Spec
CONSTANTS
  Modules <- MCModules
INVARIANTS
  NoPanic
  OnlyNeededRemain
PROPERTIES
  Ends
CHECK_DEADLOCK TRUE

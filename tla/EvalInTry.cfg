SPECIFICATION CompileSpec
CONSTANTS
  Sources = {}
  Programs <- EvalsInTry
  MaxChoices = 3
  MaxEvents = 6
  MaxBlocks = 60
INVARIANTS
  SourcePreserved
CHECK_DEADLOCK TRUE

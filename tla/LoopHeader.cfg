SPECIFICATION CompileSpec
CONSTANTS
  Sources = {}
  Programs <- LoopHeaders
  MaxChoices = 3
  MaxEvents = 6
  MaxBlocks = 60
INVARIANTS
  OutputPreserved
CHECK_DEADLOCK TRUE

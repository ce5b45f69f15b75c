SPECIFICATION CompileSpec
CONSTANTS
  Sources = {}
  Programs <- MCPrograms
  MaxChoices = 3
  MaxEvents = 6
  MaxBlocks = 60
INVARIANTS
  SourcePreserved
  OutputPreserved
  NothingRejected
  DominanceExact
  NoPanic
  InOrderForPasses
CHECK_DEADLOCK TRUE

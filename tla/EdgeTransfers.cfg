SPECIFICATION Spec
CONSTANTS
  Local <- Locals
  Outside <- Fixed
  Scratch = "scratch"
  Missing = "none"
  Edges <- AllEdges
INVARIANTS
  TypeOK
  TransferIsSimultaneous
PROPERTIES
  PlanningEnds

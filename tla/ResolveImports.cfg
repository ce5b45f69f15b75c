SPECIFICATION Spec
CONSTANTS
  Module <- Modules
  Binding <- Bindings
  Name <- Names
  Source <- Sources
  Key <- Keys
  Programs <- LinkedPrograms
INVARIANTS
  ResolvedAsListed
  AgreesWithECMAScript
  ExportOrderIrrelevant

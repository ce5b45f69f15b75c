SPECIFICATION CompileSpec
CONSTANTS
  Module <- Modules
  Binding <- Bindings
  Name <- Names
  Source <- Sources
  Key <- Keys
  ModuleKey <- InputKeySet
  Programs = {}
  Inputs <- UncountedInputs
INVARIANTS
  NoPanic

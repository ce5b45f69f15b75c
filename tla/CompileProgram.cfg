SPECIFICATION CompileSpec
CONSTANTS
  Module <- Modules
  Binding <- Bindings
  Name <- Names
  Source <- Sources
  Key <- Keys
  ModuleKey <- InputKeySet
  Programs = {}
  Inputs <- AllInputs
INVARIANTS
  PanicsOnUncountedImports
  ProgramStaysWellFormed
  LinksPreserved
  EntryViewsPreserved
  PruningIsFinal
  OutcomeFollowsInput
PROPERTIES
  RequestsPreserved

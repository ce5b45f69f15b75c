SPECIFICATION Spec
CONSTANTS
  Module <- Modules
  Binding <- Bindings
  Name <- Names
  Source <- Sources
  Key <- Keys
  Programs <- AllPrograms
INVARIANTS
  TypeOK
  AnswerIsClosed
  ObservableExportsLive
  UsedBindingsLinked
  CutsNothingUsed
PROPERTIES
  Terminates
  ImplementsPromise

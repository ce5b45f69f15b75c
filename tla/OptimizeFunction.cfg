SPECIFICATION CheckedSpec
CONSTANTS
  Sources <- MCSources
  Conditions = {"call", "true", "false", "not", "undefined"}
  Inputs = {"call", "one", "true", "nan"}
  Users = {"not", "not not", "plus", "equal", "less"}
  MaxChoices = 3
  MaxEvents = 5
  MaxBlocks = 60
INVARIANTS
  TypeOK
  UsesExact
  DefinitionsExact
  PlacesExact
  EdgesFit
  NoPanic
  FactsExact
  DefinitionsDominateUses
  MeaningPreserved
PROPERTIES
  RemovalGoesThrough
  PassesEnd

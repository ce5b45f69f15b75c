SPECIFICATION CheckedSpec
CONSTANTS
  Sources <- DeadTrySources
  Conditions = {}
  Inputs = {}
  Users = {}
  MaxChoices = 3
  MaxEvents = 5
  MaxBlocks = 60
INVARIANT NoPanic

SPECIFICATION Spec
CONSTANTS
  Endpoint = {dev, prod}
  dev = dev
  prod = prod
  Commands <- MCCommands
  Stores <- MCStores
  Referentials <- MCReferentials
  Selections <- MCSelections
  MaxExpiries = 1
  email = 3
  name = 6
  nickname = 7
  unknown = 9
  None = None
  MaxLost = 2
INVARIANTS
  TypeOK
  BreachNeverPasses
  NoFalseAlarm
  GreenMeansSound
  SkipsOnlyUnsold
  FirstLoginIsTaken
PROPERTY
  UnexercisedNeverPasses
CHECK_DEADLOCK FALSE

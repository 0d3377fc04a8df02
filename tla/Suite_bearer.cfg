SPECIFICATION Spec
CONSTANTS
  Endpoint = {dev, prod}
  dev = dev
  prod = prod
  Commands <- MCCommands
  Stores <- MCStores
  Referentials <- MCReferentials
  Selections <- MCSelections
  MaxExpiries = 0
  email = 3
  name = 6
  nickname = 7
  unknown = 9
  None = None
  MaxLost = 0
INVARIANT
  StoredTokenIsTaken
CHECK_DEADLOCK FALSE

SPECIFICATION StateSpec
CONSTANTS
  InitialSize = 1
  MaxEntities = 2
  MaxMade = 2
  MaxRequests = 2
  position = position
  sprite = sprite
  Components <- MCComponents
  Attributes <- MCAttributes
  HandlerMay = {}
INVARIANTS
  NoRequestLost
  SystemRunsOnAll
PROPERTIES
  ImplementsWorld

SPECIFICATION StateSpec
CONSTANTS
  InitialSize = 1
  MaxEntities = 2
  MaxMade = 2
  MaxRequests = 2
  position = position
  sprite = sprite
  Components <- MCComponents
  Attributes <- MCOneAttribute
  HandlerMay = {"remove"}
INVARIANT
  NoRequestLost

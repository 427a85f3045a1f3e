SPECIFICATION FairStateSpec
CONSTANTS
  InitialSize = 1
  MaxEntities = 2
  MaxMade = 2
  MaxRequests = 2
  position = position
  sprite = sprite
  Components <- MCComponents
  Attributes <- MCOneAttribute
  HandlerMay = {"remove", "destroy"}
INVARIANTS
  ArraysConsistent
  NoOrphans
  IdsPartition
PROPERTIES
  AnnouncedFirst
  ImplementsIdPool
  FlushEnds

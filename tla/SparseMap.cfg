SPECIFICATION Spec
CONSTANTS
  InitialSize = 2
  MaxKey = 3
  Values = {v1, v2}
INVARIANT
  VectorsAligned
PROPERTY
  ImplementsPartialMap

SPECIFICATION Spec
CONSTANTS
  Messages = {m1, m2}
  Nothing = Nothing
  InitialCapacity = 2
  MaxCapacity = 8
  MaxOverflow = 3
INVARIANTS
  IndicesAgree
PROPERTY
  ImplementsFifo


SPECIFICATION Spec
CONSTANTS
  Ids = {u1, u2}
  NoId = NoId
  Uris = {x, y}
  Spaces = {1, 2}
  Names = {p, q}
  MaxEdits = 2
  MaxStarts = 2
  MaxPipe = 1
INVARIANTS
  ServedAsStored
  FreshMapIsRight
SYMMETRY Symmetry
CHECK_DEADLOCK FALSE

SPECIFICATION Spec
CONSTANTS
  Capacity = 3
  Lengths = {2, 4}
  MaxLines = 3
  ReloadLength = 2
  Certs = {c1}
  NoCert = NoCert
INVARIANTS
  ListedUnlessCut
PROPERTIES
  VerdictIsTimely
  KeepsPromise
  NothingLost
  LinesArrive

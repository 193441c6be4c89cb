SPECIFICATION Spec
CONSTANTS
  Browsers = {b1}
  Sessions = {s1, s2}
  Statuses = {x, y}
INVARIANTS
  StateIsShown
PROPERTIES
  StaysInStep
  ChangesArrive

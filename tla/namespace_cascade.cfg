SPECIFICATION Spec
CONSTANTS
  Spaces = {s, t}
  Words = {a, b}
  MaxDepth = 2
  MaxObjects = 3
  MaxVariables = 0
INVARIANTS
  NamespacesDeletable
SYMMETRY Symmetry

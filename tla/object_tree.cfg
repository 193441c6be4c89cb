SPECIFICATION Spec
CONSTANTS
  Spaces = {s, t}
  Words = {a, b}
  MaxDepth = 2
  MaxObjects = 3
  MaxVariables = 2
INVARIANTS
  TypeOK
  TreeComplete
  ExportImports
  ServedUnlessNamesake
PROPERTIES
  DeletesMoveUp
SYMMETRY Symmetry

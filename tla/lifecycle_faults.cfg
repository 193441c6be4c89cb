SPECIFICATION Spec
CONSTANTS
  Requests = {q1, q2, q3, q4}
  Runs = {r1, r2}
  NoRun = NoRun
  Modes = {"None", "Sign"}
  Contents = {"v1", "v2"}
  Paths = {"default"}
  ConfigPath = "default"
  DefaultPath = "default"
  Faults = {"crash", "spawn", "write"}
INVARIANTS
  RuntimeIsTracked
  StoppingIsAwaited
SYMMETRY Symmetry
CHECK_DEADLOCK FALSE

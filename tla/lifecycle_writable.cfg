SPECIFICATION Spec
CONSTANTS
  Requests = {q1, q2, q3}
  Runs = {r1, r2}
  NoRun = NoRun
  Modes = {"None", "Sign"}
  Contents = {"v1", "v2"}
  Paths = {"default"}
  ConfigPath = "default"
  DefaultPath = "default"
  Faults = {"crash", "spawn"}
INVARIANTS
  ConnectorsFollowRuntime
  ModeInForce
PROPERTIES
  EditsReachRuntime
  Answered
CHECK_DEADLOCK FALSE

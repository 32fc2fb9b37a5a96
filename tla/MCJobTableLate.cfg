CONSTANTS
  Pids = {1, 2, 3}
  W = 2
  MaxCount = 4
  Scripts <- LateScripts
SPECIFICATION Spec
CHECK_DEADLOCK FALSE
INVARIANT WaitsForOne

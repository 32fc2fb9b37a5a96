CONSTANTS
  Shells = {"a", "b"}
  HistSize = 2
  Ring = 4
  Low = 256
  Big = 3
  Garbage = {0, 7}
  MaxFiles = 3
  Setups <- NumberSetups
SPECIFICATION Spec
CHECK_DEADLOCK FALSE
INVARIANT Numbered

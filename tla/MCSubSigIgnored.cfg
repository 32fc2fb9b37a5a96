CONSTANTS
  Sigs = {1, 2, 3}
  Benign = {3}
  MaxDepth = 2
  MaxQueue = 4
  Scripts <- IgnoredScripts
SPECIFICATION Spec
CHECK_DEADLOCK FALSE
INVARIANT BodyRuns

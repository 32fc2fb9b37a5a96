CONSTANTS
  Sigs = {1, 2, 3}
  Benign = {3}
  MaxDepth = 2
  MaxQueue = 4
  Scripts <- PassScripts
SPECIFICATION Spec
CHECK_DEADLOCK FALSE
INVARIANTS TypeOK SignalsOn 
PROPERTY OneTrapRuns

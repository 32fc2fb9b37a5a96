CONSTANTS
  Pids = {1, 2, 3}
  W = 2
  MaxCount = 4
  Scripts <- PassScripts
SPECIFICATION Spec
CHECK_DEADLOCK FALSE
INVARIANTS TypeOK UniqueNumbers
PROPERTIES LimitEnds WaitedForAll EveryJobAnnounced

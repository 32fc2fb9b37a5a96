CONSTANTS
  SigMax = 4
  CHLD = 2
  EntryIgnored = {4}
  MaxSends = 5
  MaxKids = 2
  Scripts <- PassScripts
SPECIFICATION Spec
CHECK_DEADLOCK FALSE
INVARIANTS TypeOK Accounted Announced AsAsked
PROPERTIES EveryTrapRuns UntrappedEnds

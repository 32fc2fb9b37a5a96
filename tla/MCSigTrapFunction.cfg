CONSTANTS
  SigMax = 4
  CHLD = 2
  EntryIgnored = {4}
  MaxSends = 1
  MaxKids = 2
  Scripts <- FunctionScripts
SPECIFICATION Spec
CHECK_DEADLOCK FALSE
INVARIANT PassedOn

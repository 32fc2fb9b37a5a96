\* Command substitutions that share the state of the shell.
CONSTANTS
  Pids = {p1, p2}
  Inherited = {p1}
  Vals = {0, 1}
  NoEnt = 127
  ChildMax = 2
  NJob = 1
  EnvMod = 8
  Shares = {TRUE, FALSE}
  MaxEnv = 2
  MaxDepth = 1
  MaxForks = 0
SPECIFICATION FairSpec
INVARIANT TopWaits
CHECK_DEADLOCK FALSE

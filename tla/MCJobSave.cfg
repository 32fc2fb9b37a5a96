\* Two levels of subshells, one fork.
CONSTANTS
  Pids = {p1,p2}
  Inherited = {p1}
  Vals = {0, 1}
  NoEnt = 127
  ChildMax = 1
  NJob = 1
  EnvMod = 8
  Shares = {FALSE}
  MaxEnv = 2
  MaxDepth = 2
  MaxForks = 1
SPECIFICATION FairSpec
INVARIANTS TypeOK UniquePids CountCovers
PROPERTIES  PromiseKept
CHECK_DEADLOCK FALSE

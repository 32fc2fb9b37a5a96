\* Two background jobs; every script that keeps the region, and more.
CONSTANTS
  Children = {c1, c2}
  UMax = 7
  WMod = 5
  Scripts <- SoundScripts
SPECIFICATION FairSpec
INVARIANTS TypeOK RegionCount Exclusion NeverUnder PostedFirst WaitGetsStatus
PROPERTY EveryZombieReaped

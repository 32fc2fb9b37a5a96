\* TMOUT and read -t, TMOUT and the history file: time passes when the shell is
\* idle, or anywhere.
CONSTANTS
  Users = {"tmout", "read", "hist"}
  Repeats = {"hist"}
  Jumpers = {"read"}
  Nodes = {n1, n2, n3}
  NoNode = NoNode
  Delays = {1, 2}
  Casts <- AllCasts
SPECIFICATION FairSpec
INVARIANTS TypeOK NodesApart OneWalk Handled 
PROPERTY QuickServed

CONSTANTS
  n1 = n1
  n2 = n2
  Nodes = {n1, n2}
  Launches = 1
  Workers = 5
SPECIFICATION FairSpec
INVARIANTS TypeOK NoGridlock
PROPERTY HeartbeatServed

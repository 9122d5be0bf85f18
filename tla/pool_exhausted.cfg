CONSTANTS
  n1 = n1
  n2 = n2
  Nodes = {n1, n2}
  Launches = 1
  Workers = 4
SPECIFICATION EndingSpec
PROPERTY HeartbeatServed

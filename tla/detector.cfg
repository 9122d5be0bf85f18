CONSTANTS
  n1 = n1
  n2 = n2
  Nodes = {n1, n2}
  HeartbeatInterval = 2
  MarkAfter = 9
  OfflineTimeout = 7
  CheckInterval = 1
  MaxDelay = 1
  MaxPass = 1
  MaxLost = 1
  MayDie = {n1}
SPECIFICATION Spec
INVARIANTS TypeOK LiveNodeKept SeenBeforeMarked DetectedInTime
PROPERTY LapsesOnlyDead

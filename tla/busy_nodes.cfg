CONSTANTS
  n1 = n1
  n2 = n2
  j1 = j1
  j2 = j2
  Nodes = {n1}
  Jobs = {j1}
  MaxRetries <- RetryOnce
  Required <- OneNodeEach
  Score <- EqualScores
  MaxDispatch = 2
  MayCrash = {}
  MayCut = {}
  MayLapse = {}
  ManagerMayCrash = FALSE
  DbMayFail = FALSE
SPECIFICATION FairSpec
PROPERTY BusyNodesRunJobs

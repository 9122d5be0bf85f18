CONSTANTS
  n1 = n1
  n2 = n2
  j1 = j1
  j2 = j2
  Nodes = {n1}
  Jobs = {j1, j2}
  MaxRetries <- RetryOnce
  Required <- OneNodeEach
  Score <- EqualScores
  MaxDispatch = 1
  MayCrash = {}
  MayCut = {n1}
  MayLapse = {n1}
  ManagerMayCrash = TRUE
  DbMayFail = TRUE
SYMMETRY JobSymmetry
SPECIFICATION Spec
INVARIANTS TypeOK NoLostPendingJob CallersKnown

CONSTANTS
  n1 = n1
  n2 = n2
  j1 = j1
  j2 = j2
  Nodes = {n1, n2}
  Jobs = {j1}
  MaxRetries <- RetryOnce
  Required <- TwoNodesEach
  Score <- EqualScores
  MaxDispatch = 3
  MayCrash = {}
  MayCut = {}
  MayLapse = {}
  ManagerMayCrash = FALSE
  DbMayFail = FALSE
SPECIFICATION Spec
INVARIANT DispatchBudget

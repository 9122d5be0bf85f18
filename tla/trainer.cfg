CONSTANTS
  h1 = h1
  h2 = h2
  h3 = h3
  shared = shared
  Hosts = {h1, h2, h3}
  WorldSize = 2
  Epochs = 2
  Resumes = {0, 1, 2}
  Dir <- TwoShare
  MaxAttempts = 2
  MayDie = {h1}
SPECIFICATION FairSpec
INVARIANTS TypeOK CheckpointsFaithful AlikeOnOneStorage NoSilentDivergence
PROPERTY CompletesUnlessHit
CHECK_DEADLOCK FALSE

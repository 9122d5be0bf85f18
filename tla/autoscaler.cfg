CONSTANTS
  t1 = t1
  t2 = t2
  t3 = t3
  Threads = {t1, t2}
  Interval = 3
  JoinTimeout = 1
  Cooldown = 5
  QueueHigh = 1
  QueueLow = 0
  MaxCall = 2
  MaxWaiting = 3
  MaxUncounted = 1
SPECIFICATION FairSpec
INVARIANTS TypeOK AtMostOneLoop StopTakesEffect
PROPERTIES ScaleInSpaced DeepQueueScalesOut

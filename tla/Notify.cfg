\* Two instances, each with a batch of one of two tasks.
SPECIFICATION FairSpec
CONSTANTS
  t1 = t1
  t2 = t2
  w1 = w1
  w2 = w2
  Tasks = {t1, t2}
  Workers = {w1, w2}
  BatchSize = 1
  Backoffs = 1
  MaxReplays = 1
  MaxFaults = 1
INVARIANTS
  TypeOK
  SuccessWasHeard
  DeadAfterAllTries
  RepeatsNeedFaults
PROPERTIES
  SettledIsFinal KeepsPromise EveryTaskSettles
CHECK_DEADLOCK FALSE

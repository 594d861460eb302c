\* One job, two workers that may crash, all three attempts, under fairness.
CONSTANTS
  j1 = j1  w1 = w1  w2 = w2  k1 = k1  k2 = k2  p1 = p1
  Job = {j1}
  Worker = {w1, w2}
  NoWorker = NoWorker
  Key = {k1, k2}
  Payload = {p1}
  MaxAttempts = 3
  LeaseSeconds = 2
SPECIFICATION FairSpec
CHECK_DEADLOCK FALSE
INVARIANTS
  LockHolds OneLiveAttempt EffectOfLastAttempt AnswersHold
PROPERTIES
  SettledForever LapsedIsLost ImplementsWorkQueue EventuallySettled

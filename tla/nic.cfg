CONSTANTS
  sdo = sdo
  pdo = pdo
  Null = Null
  Blocking = {sdo}
  Cyclic = {pdo}
  MaxBuf = 3
  Burst = 2
  MaxTries = 2
  Rounds <- MCRounds
  MaxLoss = 1
  MaxFail = 1
  N = 3
  MaxRetry = 2
SPECIFICATION MCSpec
INVARIANTS AnswerIsOwn CutIsTransparent
CHECK_DEADLOCK FALSE

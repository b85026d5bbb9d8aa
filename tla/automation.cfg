SPECIFICATION AutomationFairSpec
CONSTANTS
  Workers = {w1, w2, w3}
  Null = Null
INVARIANTS
  PdoOnlyInOp
  CrashOnlyInShutdown
PROPERTIES
  
  ShutdownReturns
CHECK_DEADLOCK FALSE

SPECIFICATION FairSpec
CONSTANTS
  Jobs <- MCJobs
  MaxFaults = 3
  Null = Null
CHECK_DEADLOCK FALSE
INVARIANTS ReadIsWhole WriteIsWhole WithinBuffer
PROPERTY TransfersEnd

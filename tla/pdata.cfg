\* Networks of one to three slaves, two cycles, one frame lost.
SPECIFICATION Spec
CONSTANTS
  MaxLRW = 5
  FirstDC = 1
  MaxFmmu = 4
  SM1Stat = 99
  Chains <- MCChains
  Remaps = 1
  Cycles = 2
  MaxBuf = 16
  MaxLost = 1
INVARIANTS AreasApart WkcTellsAll ExchangeIsWhole
CHECK_DEADLOCK FALSE

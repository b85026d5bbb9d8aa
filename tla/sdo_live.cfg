CONSTANTS
  ui = ui
  auto = auto
  rt = rt
  Null = Null
  Clients <- PairClients
  Stopper = ui
  Calls <- PairCalls
  Keys = {k1}
  Unheld = {}
  Values = {v1}
  Lens = {1, 2}
  Capacity = 2
  MayCrash = TRUE
SPECIFICATION FairSpec
PROPERTIES CallsReturn DisposeReturns
CHECK_DEADLOCK FALSE

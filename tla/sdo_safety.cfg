CONSTANTS
  ui = ui
  auto = auto
  rt = rt
  Null = Null
  Clients <- MCClients
  Stopper = ui
  Calls <- MCCalls
  Keys = {k1}
  Unheld = {k1}
  Values = {v1, v2}
  Lens = {1}
  Capacity = 2
  MayCrash = TRUE
SPECIFICATION Spec
INVARIANTS TypeOK OneJobPerPendingRead StoreIsDevice
PROPERTY ServiceSpec
SYMMETRY Payloads
CHECK_DEADLOCK FALSE

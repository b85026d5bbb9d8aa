SPECIFICATION HistorySpec
CONSTANTS
  velocity = velocity
  acceleration = acceleration
  method = method
  mode6060 = mode6060
  target607A = target607A
  ProfileObjects <- MCProfileObjects
  HomeObjects <- MCHomeObjects
  ModeObject = mode6060
  TargetObject = target607A
  Mappings <- MCMappings
  Capacity = 2
INVARIANTS
  NoProfileWriteWhileMoving
  MoveNotHalted
PROPERTIES
  WaitsEnd
CHECK_DEADLOCK FALSE

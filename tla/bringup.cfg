SPECIFICATION Spec
CONSTANTS
  Half <- MCHalf
  SyncDelay = 5
  MaxSM = 5
  MaxPDO = 4
  Devices <- MCDevice
  Scenes <- MCScenes
  MaxSlave = 5
  Garbage <- MCGarbage
  Nows <- MCNows
  Junk <- MCJunk
  MaxLoss = 2
CHECK_DEADLOCK FALSE
INVARIANTS ScanIsRight MappingIsRight DelayIsRight PulsesInPhase

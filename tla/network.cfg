SPECIFICATION FairSpec
CONSTANTS
  Slaves <- MCSlaves
  Spares <- MCSpares
  Identity <- MCIdentity
  Data <- MCData
  Plans <- MCPlans
  MaxEvents = 3
  MaxLoss = 1
  MaxSlow = 1
  MaxTrouble = 3
CHECK_DEADLOCK FALSE
INVARIANTS AddressIsRight OpIsMapped
PROPERTY ReportIsTrue Recovery

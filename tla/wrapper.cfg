\* A ring of three slots, two transfers, any number of failed exchanges, the
\* adapter opened again once.
SPECIFICATION WrapperSpec
CONSTANTS
  MaxElist = 2
  NoError = NoError
  sdo = sdo
  pdo = pdo
  Threads = {sdo, pdo}
  MaxTransfers = 2
  MaxRaised = 2
  MaxCycles = 2
  MaxOpens = 2
INVARIANTS RingIsQueue LastErrIsOwn
CHECK_DEADLOCK FALSE

SPECIFICATION Spec
CONSTANTS
  Slaves = {"s1", "s2"}
  Callers = {"c1", "c2"}
  Target <- MCTarget
  Lookup <- MCLookup
  EC_MBXPOOLSIZE = 3
  Scenes <- MCScenes
  Null = Null
CHECK_DEADLOCK FALSE
INVARIANTS OneOwner TicketIsOwn SentIsThere
PROPERTY InOrderOnce

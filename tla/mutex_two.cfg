CONSTANTS
  t1 = t1
  t2 = t2
  t3 = t3
  t4 = t4
  NoThread = NoThread
  m1 = m1
  m2 = m2
  NoMutex = NoMutex
  Threads <- Three
  Mutexes <- Two
  Rank <- AnyOrder
  InitPrio <- MCPrio
  RT_MUTEX_HOLD_MAX = 1
  Ceilings = {}
  Timeouts = {"timed"}
  Ops = {"exit", "delete"}
  Mortal = {t2}
SPECIFICATION Spec
CHECK_DEADLOCK FALSE
INVARIANTS
  OwnershipHonoured
  HandedOver
  NoSleeperAtFreeMutex
  PropagationEnds
PROPERTY
  OrderKept

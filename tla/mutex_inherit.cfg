CONSTANTS
  t1 = t1
  t2 = t2
  t3 = t3
  t4 = t4
  NoThread = NoThread
  m1 = m1
  m2 = m2
  NoMutex = NoMutex
  Threads <- Four
  Mutexes <- One
  Rank <- AnyOrder
  InitPrio <- MCPrio
  RT_MUTEX_HOLD_MAX = 2
  Ceilings = {0, 2, 255}
  Timeouts = {"forever"}
  Ops = {"resume", "detach", "exit"}
  Mortal = {t2}
SPECIFICATION Spec
INVARIANTS
  PriorityInherited

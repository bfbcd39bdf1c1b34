CONSTANTS
  t1 = t1
  t2 = t2
  t3 = t3
  t4 = t4
  NoThread = NoThread
  Threads <- MCThreads
  Prio <- MCPrio
  Lists <- MCLists
  Flag = "FIFO"
  Blocks = 2
  Timed <- MCTimed
  MaxWasted = 2
  Ops = {"detach", "resume"}
SYMMETRY PoolSymmetry
SPECIFICATION Spec
CHECK_DEADLOCK FALSE
INVARIANTS
  SleepersQueued
  BlocksOwned
  BlocksClaimed

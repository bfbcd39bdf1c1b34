CONSTANTS
  t1 = t1
  t2 = t2
  t3 = t3
  NoThread = NoThread
  Threads <- MCThreads
  Prio <- MCPrio
  Lists <- MCLists
  Flag = "PRIO"
  Bits = {1, 2}
  Requests <- MCRequests
  Timed <- MCTimed
  MaxWasted = 1
  EventOps = {"reset", "detach", "resume"}
SPECIFICATION EventSpec
CHECK_DEADLOCK FALSE
INVARIANTS
  NoSatisfiedSleeper
  ReceivedAsAsked
PROPERTIES
  NoBitLost

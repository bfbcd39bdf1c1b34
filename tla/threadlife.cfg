CONSTANTS
  t1 = t1
  t2 = t2
  NoThread = NoThread
  RT_SEM_VALUE_MAX = 1
  Threads <- MCThreads
SPECIFICATION LifeSpec
CHECK_DEADLOCK FALSE
INVARIANTS
  TimerFitsStatus
  FreedOnce
PROPERTIES
  ClosedStays
  SleepEnds
  Reaped

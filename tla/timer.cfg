CONSTANTS
  h1 = h1
  h2 = h2
  s1 = s1
  s2 = s2
  NoTimer = NoTimer
  Hard <- MCHard
  Soft <- MCSoft
  MaxTimers = 2
  RT_TICK_MAX = 9
  MaxLate = 3
  Times = {1, 3}
SYMMETRY TimerSymmetry
SPECIFICATION Spec
CHECK_DEADLOCK FALSE
INVARIANTS
  ListedOnce
  SortedByTimeLeft
  ServedOnTime
  StoppedStays
  SoftSignalled

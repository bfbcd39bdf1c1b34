CONSTANTS
  t1 = t1
  t2 = t2
  t3 = t3
  NoThread = NoThread
  Threads <- MCThreads
  Prio <- MCPrio
  Flag = "PRIO"
  InitValue = 1
  RT_SEM_VALUE_MAX = 2
  Timeouts = {"timed"}
  Ops = {"vlimit", "resume"}
  MaxCredit = 2
SPECIFICATION FairSpec
CHECK_DEADLOCK FALSE
INVARIANTS
  NoTokenInvented
  SuspendedIffQueued
  NoSleeperBesideToken
PROPERTY TimedWaitReturns

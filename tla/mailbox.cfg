CONSTANTS
  t1 = t1
  t2 = t2
  t3 = t3
  m1 = m1
  m2 = m2
  NoThread = NoThread
  NoMail = NoMail
  Threads <- MCThreads
  Prio <- MCPrio
  Lists <- MCLists
  Flag = "PRIO"
  Mails = {m1, m2}
  Size = 2
  Timed <- MCTimed
  MaxWasted = 2
  Senders <- MCSenders
  Receivers <- MCReceivers
  Closers <- MCClosers
  Ops = {"reset", "detach"}
SYMMETRY MailSymmetry
SPECIFICATION Spec
CHECK_DEADLOCK FALSE
INVARIANTS
  MailsClaimed
  RoomClaimed
PROPERTIES
  ImplementsQueue
  CloseWakesAll

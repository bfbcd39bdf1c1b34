CONSTANTS
  t1 = t1
  t2 = t2
  t3 = t3
  m1 = m1
  m2 = m2
  NoThread = NoThread
  NoMessage = NoMessage
  Threads <- MCThreads
  Prio <- MCPrio
  Lists <- MCLists
  Flag = "FIFO"
  Messages = {m1, m2}
  MsgPrio <- MCMsgPrio
  MaxMsgs = 2
  Timed <- MCTimed
  MaxWasted = 2
  Senders <- MCSenders
  Receivers <- MCReceivers
  Closers <- MCClosers
  Ops = {"reset", "detach"}
SPECIFICATION Spec
CHECK_DEADLOCK FALSE
INVARIANTS
  SlotsOwned
  MessagesClaimed
  SlotsClaimed
PROPERTIES
  ImplementsQueue

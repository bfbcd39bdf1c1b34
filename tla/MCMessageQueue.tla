---------------------------- MODULE MCMessageQueue ----------------------------
(* Instances of MessageQueue for TLC: two senders, two receivers, one of   *)
(* the threads being both, and messages of two priorities.                 *)
EXTENDS MessageQueue, TLC

CONSTANTS t1, t2, t3, m1, m2

MCThreads == {t1, t2, t3}
MCPrio == t1 :> 1 @@ t2 :> 2 @@ t3 :> 2
MCMsgPrio == m1 :> 0 @@ m2 :> 1
MCSenders == {t1, t2}
MCReceivers == {t2, t3}
MCClosers == {t3}
MCLists == {"recv", "send"}
MCTimed == [t \in MCThreads |-> {t = t2}]
===============================================================================

------------------------------- MODULE MCMailbox -------------------------------
(* Instances of Mailbox for TLC: two senders, two receivers, one of the    *)
(* threads being both.                                                     *)
EXTENDS Mailbox, TLC

CONSTANTS t1, t2, t3, m1, m2

MCThreads == {t1, t2, t3}
MCPrio == t1 :> 1 @@ t2 :> 2 @@ t3 :> 2
MCSenders == {t1, t2}
MCReceivers == {t2, t3}
MCClosers == {t1}
MailSymmetry == Permutations({m1, m2})
MCLists == {"recv", "send"}
MCTimed == [t \in MCThreads |-> {TRUE}]
===============================================================================

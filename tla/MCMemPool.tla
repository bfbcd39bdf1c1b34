------------------------------- MODULE MCMemPool -------------------------------
(* Instances of MemPool for TLC.                                           *)
EXTENDS MemPool, TLC

CONSTANTS t1, t2, t3, t4

MCThreads == {t1, t2, t3, t4}
MCPrio == [t \in MCThreads |-> 1]
MCLists == {"suspend_thread"}
MCTimed == [t \in MCThreads |-> BOOLEAN]

(* The list is a FIFO and all priorities are the same.                     *)
PoolSymmetry == Permutations(MCThreads)
===============================================================================

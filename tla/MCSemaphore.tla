------------------------------ MODULE MCSemaphore ------------------------------
(* Instances of Semaphore for TLC: three threads, two of equal priority.   *)
EXTENDS Semaphore, TLC

CONSTANTS t1, t2, t3

MCThreads == {t1, t2, t3}
MCPrio == t1 :> 1 @@ t2 :> 2 @@ t3 :> 2
===============================================================================

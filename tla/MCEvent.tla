-------------------------------- MODULE MCEvent --------------------------------
(* Instances of Event for TLC: three threads, any of which sends and       *)
(* receives.                                                               *)
EXTENDS Event, TLC

CONSTANTS t1, t2, t3

MCThreads == {t1, t2, t3}
MCPrio == t1 :> 1 @@ t2 :> 2 @@ t3 :> 2
MCRequests == {<<{1, 2}, [and |-> TRUE, clear |-> TRUE]>>,
               <<{1, 2}, [and |-> FALSE, clear |-> FALSE]>>,
               <<{1}, [and |-> FALSE, clear |-> TRUE]>>}
MCLists == {"suspend_thread"}
MCTimed == [t \in MCThreads |-> {TRUE}]
===============================================================================

-------------------------------- MODULE MCMutex --------------------------------
(* Small instances of Mutex: threads of different priorities, and mutexes  *)
(* that callers take in any order.                                         *)
EXTENDS Mutex, TLC

CONSTANTS t1, t2, t3, t4, m1, m2

Three == {t1, t2, t3}
Four == {t1, t2, t3, t4}
MCPrio == [t \in Threads |-> CASE t = t1 -> 1 [] t = t2 -> 2
                               [] t = t3 -> 3 [] t = t4 -> 4]
One == {m1}
Two == {m1, m2}
AnyOrder == [m \in Mutexes |-> 0]
===============================================================================

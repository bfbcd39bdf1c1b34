-------------------------------- MODULE RtList --------------------------------
(***************************************************************************)
(* The doubly linked list of rt-thread/include/rtservice.h, as the suspend *)
(* lists of rt-thread/src/ipc.c and the timer lists of timer.c use it: the *)
(* sequence of the objects that are linked, the first one first.           *)
(***************************************************************************)
EXTENDS Integers, Sequences

(* What is on a list, and that nothing is linked twice.                    *)
Queued(s) == {s[i] : i \in 1..Len(s)}
Unique(s) == \A i, j \in 1..Len(s) : s[i] = s[j] => i = j

(* rt_list_remove of the list node of t, which is alone or linked in s.    *)
ListRemove(s, t) ==
  LET at == {i \in 1..Len(s) : s[i] = t}
      n == CHOOSE i \in at : TRUE
  IN  IF at = {} THEN s
      ELSE [i \in 1..(Len(s) - 1) |-> IF i < n THEN s[i] ELSE s[i + 1]]

(* Fault: the comparison of priorities is the wrong way round.             *)
EnqueueReversed(s, t, flag, prio) ==
  LET ahead(u) == flag = "FIFO" \/ prio[u] >= prio[t]
      n == CHOOSE k \in 0..Len(s) :
             /\ \A i \in 1..k : ahead(s[i])
             /\ k = Len(s) \/ ~ahead(s[k + 1])
  IN  [i \in 1..(Len(s) + 1) |-> IF i <= n THEN s[i]
                                 ELSE IF i = n + 1 THEN t ELSE s[i - 1]]

(* rt_susp_list_enqueue: behind all with RT_IPC_FLAG_FIFO, before the      *)
(* first thread of strictly lower priority with RT_IPC_FLAG_PRIO (0 is the *)
(* highest priority).                                                      *)
SuspListEnqueue(s, t, flag, prio) ==
  LET ahead(u) == flag = "FIFO" \/ prio[u] <= prio[t]
      n == CHOOSE k \in 0..Len(s) :
             /\ \A i \in 1..k : ahead(s[i])
             /\ k = Len(s) \/ ~ahead(s[k + 1])
  IN  [i \in 1..(Len(s) + 1) |-> IF i <= n THEN s[i]
                                 ELSE IF i = n + 1 THEN t ELSE s[i - 1]]
===============================================================================

-------------------------------- MODULE MemPool --------------------------------
(***************************************************************************)
(* The fixed-size block allocator of rt-thread/src/mempool.c.  A free      *)
(* block's header points to the next free block, an allocated block's to   *)
(* the pool, which is how rt_mp_free finds the pool.  rt_mp_alloc sleeps   *)
(* while there is no block; rt_mp_free wakes one sleeper, who tests again  *)
(* and may find the block taken by somebody who came in between.           *)
(*                                                                         *)
(* Unlike the calls of ipc.c, rt_mp_alloc sets thread->error to RT_EOK     *)
(* before it sleeps, so a thread that is resumed from outside tests again. *)
(***************************************************************************)
EXTENDS IpcWait

CONSTANTS
  Blocks,   \* number of blocks, block_total_count
  Ops       \* calls besides alloc and free

ASSUME PoolListsAssumption == Lists = {"suspend_thread"}
ASSUME BlocksAssumption == Blocks \in Nat \ {0}
ASSUME OpsAssumption == Ops \subseteq {"detach", "resume"}

(* The count of wasted wake-ups stops no lower than what it is added to.   *)
ASSUME WastedAssumption == Blocks <= MaxWasted

NULL == 0
Pool == Blocks + 1    \* in a header: the address of the pool

VARIABLES
  block_list,         \* the first free block, or NULL
  block_free_count,
  header,             \* the word in front of every block
  held                \* the blocks that callers hold

poolVars == <<block_list, block_free_count, header, held>>
vars == <<ipcVars, poolVars>>

(* rt_mp_init and rt_mp_create: the blocks are chained in address order.   *)
Init ==
  /\ WaitInit
  /\ block_list = 1
  /\ block_free_count = Blocks
  /\ header = [b \in 1..Blocks |-> IF b = Blocks THEN NULL ELSE b + 1]
  /\ held = {}

-------------------------------------------------------------------------------
(* rt_mp_alloc.                                                            *)

(* t, who just came or was woken, is in front of the loop's test.          *)
AtTest(t) == Enter(t) \/ Reenter(t, "suspend_thread")

(* Fault: the block stays the first of the list.                           *)
AllocKeepsList(t) ==
  /\ AtTest(t)
  /\ block_free_count > 0
  /\ block_free_count' = block_free_count - 1
  /\ header' = [header EXCEPT ![block_list] = Pool]
  /\ held' = held \cup {block_list}
  /\ Leave(t)
  /\ UNCHANGED block_list

Alloc(t) ==
  /\ AtTest(t)
  /\ block_free_count > 0
  /\ block_free_count' = block_free_count - 1
  /\ block_list' = header[block_list]
  /\ header' = [header EXCEPT ![block_list] = Pool]
  /\ held' = held \cup {block_list}
  /\ Leave(t)

(* A caller chooses whether to wait and how long; a woken thread goes on   *)
(* with what is left of its timeout.                                       *)
AllocSleep(t, finite) ==
  /\ AtTest(t)
  /\ pc[t] = "waiting" => finite = timed[t]
  /\ block_free_count = 0
  /\ Sleep(t, "suspend_thread", finite, "EOK")
  /\ UNCHANGED poolVars

(* RT_NULL is returned: time is 0, or nothing is left of it.               *)
AllocGiveUp(t) ==
  /\ AtTest(t)
  /\ pc[t] = "waiting" => timed[t]
  /\ block_free_count = 0
  /\ Leave(t)
  /\ UNCHANGED poolVars

-------------------------------------------------------------------------------
(* rt_mp_free.                                                             *)

(* Fault: the waiters are woken only if there was no free block.           *)
FreeWakesIfEmpty(t, b) ==
  /\ Enter(t)
  /\ b \in held
  /\ block_free_count' = block_free_count + 1
  /\ header' = [header EXCEPT ![b] = block_list]
  /\ block_list' = b
  /\ held' = held \ {b}
  /\ IF block_free_count = 0 THEN LeaveAndWake(t, "suspend_thread") ELSE Leave(t)

Free(t, b) ==
  /\ Enter(t)
  /\ b \in held
  /\ block_free_count' = block_free_count + 1
  /\ header' = [header EXCEPT ![b] = block_list]
  /\ block_list' = b
  /\ held' = held \ {b}
  /\ LeaveAndWake(t, "suspend_thread")

-------------------------------------------------------------------------------
(* rt_mp_detach and rt_mp_delete.                                          *)

Detach(t) == ResumeAll(t, "detach", "suspend_thread") /\ UNCHANGED poolVars

DetachStep(t) == ResumeAllStep(t, "suspend_thread") /\ UNCHANGED poolVars

DetachDone(t) == ResumeAllDone(t, "suspend_thread") /\ UNCHANGED poolVars

-------------------------------------------------------------------------------
Next ==
  \/ \E t \in Threads :
       \/ Alloc(t)
       \/ \E finite \in Timed[t] : AllocSleep(t, finite)
       \/ AllocGiveUp(t)
       \/ \E b \in 1..Blocks : Free(t, b)
       \/ "detach" \in Ops /\ Detach(t)
       \/ DetachStep(t)
       \/ DetachDone(t)
       \/ "resume" \in Ops /\ ThreadResume(t) /\ UNCHANGED poolVars
  \/ WaitStep /\ UNCHANGED poolVars

Spec == Init /\ [][Next]_vars

-------------------------------------------------------------------------------
(* The types of the pool, and no assertion of rt_mp_alloc fails: the list  *)
(* is not empty when the count says so.                                    *)
TypeOK ==
  /\ WaitTypeOK({})
  /\ block_free_count \in 0..Blocks
  /\ block_list \in 0..Blocks
  /\ block_free_count > 0 => block_list # NULL
  /\ header \in [1..Blocks -> 0..(Blocks + 1)]
  /\ held \subseteq 1..Blocks

(* The n-th block of the free list; past its end, NULL.                    *)
FreeAt == LET at[n \in 1..(Blocks + 1)] ==
                IF n = 1 THEN block_list
                ELSE IF at[n - 1] \in 1..Blocks THEN header[at[n - 1]]
                ELSE NULL
          IN  at

(* Every block is either on the free list, once, or held by a caller, in   *)
(* whatever order blocks are allocated and freed; block_free_count is the  *)
(* length of the list; the header of a held block leads to the pool.       *)
BlocksOwned ==
  /\ {FreeAt[n] : n \in 1..block_free_count} = (1..Blocks) \ held
  /\ Cardinality(held) = Blocks - block_free_count
  /\ FreeAt[block_free_count + 1] = NULL
  /\ \A b \in held : header[b] = Pool

(* If somebody sleeps while there are free blocks, as many threads as      *)
(* there are blocks have been woken for them, whoever took blocks, gave    *)
(* them back or was resumed in between; except for wake-ups that met a     *)
(* first waiter in its timeout.                                            *)
BlocksClaimed == ItemsClaimed("suspend_thread", block_free_count)
===============================================================================

----------------------------- MODULE MemPoolProofs -----------------------------
(***************************************************************************)
(* Proofs about MemPool, for every number of threads and blocks; about     *)
(* Event, for every number of threads, all bits and all requests; and      *)
(* about SmallMem, for every size of the heap, of a header and of a word.  *)
(* The lemmas of the first two rest on IpcWaitProofs, those of the heap on *)
(* nothing but sets of numbers.                                            *)
(***************************************************************************)
EXTENDS MemPool, Event, SmallMem, IpcWaitProofs

(* c leads through the k blocks of the free list, from first on.           *)
IsChain(c, first, next, k) ==
  /\ c \in [1..k -> 1..Blocks]
  /\ \A i, j \in 1..k : c[i] = c[j] => i = j
  /\ first = IF k = 0 THEN NULL ELSE c[1]
  /\ \A i \in 1..k : next[c[i]] = IF i = k THEN NULL ELSE c[i + 1]

Members(c, k) == {c[i] : i \in 1..k}

(* The free list is a chain through the blocks that nobody holds.          *)
ChainInv ==
  \E c : /\ IsChain(c, block_list, header, block_free_count)
         /\ Members(c, block_free_count) = (1..Blocks) \ held

PoolInv ==
  /\ block_free_count \in 0..Blocks
  /\ header \in [1..Blocks -> 0..(Blocks + 1)]
  /\ held \subseteq 1..Blocks
  /\ Cardinality(held) = Blocks - block_free_count
  /\ \A b \in held : header[b] = Pool
  /\ ChainInv

Inv == WaitInv({}) /\ PoolInv /\ Claim("suspend_thread", block_free_count)

(* The constants of the pool.                                              *)
LEMMA Constants ==
  /\ "suspend_thread" \in Lists /\ Lists = {"suspend_thread"}
  /\ Blocks \in Nat /\ Blocks > 0 /\ MaxWasted \in Nat /\ Blocks <= MaxWasted
  /\ NoThread \notin Threads
BY PoolListsAssumption, BlocksAssumption, WastedAssumption, IpcBoundAssumption,
   NoThreadAssumption

(* Sets of blocks can be counted.                                          *)
LEMMA BlocksCounted ==
  ASSUME NEW A, A \subseteq 1..Blocks
  PROVE  IsFiniteSet(A) /\ Cardinality(A) \in Nat
<1>1. IsFiniteSet(1..Blocks)
  BY Constants, FS_Interval
<1> QED
  BY <1>1, FS_Subset, FS_CardinalityType

(* rt_mp_init: the chain goes through the blocks in address order.         *)
LEMMA InitHolds == Init => Inv
<1> SUFFICES ASSUME Init PROVE Inv
  OBVIOUS
<1>1. WaitInv({}) /\ susp["suspend_thread"] = <<>>
  BY WaitInitKeeps, Constants DEF Init, WaitInit
<1>2. ChainInv
  <2> DEFINE c == [i \in 1..Blocks |-> i]
  <2>1. IsChain(c, block_list, header, block_free_count)
    BY Constants DEF Init, IsChain, NULL
  <2>2. Members(c, block_free_count) = (1..Blocks) \ held
    BY Constants DEF Init, Members
  <2> QED
    BY <2>1, <2>2 DEF ChainInv
<1>3. Cardinality(held) = 0
  BY FS_EmptySet DEF Init
<1>4. PoolInv
  BY <1>2, <1>3, Constants DEF Init, PoolInv, NULL
<1> QED
  BY <1>1, <1>4 DEF Inv, Claim

(* rt_mp_alloc takes the first block off the chain.                        *)
LEMMA AllocKeepsPool ==
  ASSUME PoolInv, NEW t, Alloc(t)
  PROVE  PoolInv'
<1> DEFINE k == block_free_count
           b == block_list
<1>1. /\ k \in Nat /\ k > 0 /\ k <= Blocks /\ k' = k - 1
      /\ block_list' = header[b] /\ header' = [header EXCEPT ![b] = Pool]
      /\ held' = held \cup {b}
  BY Constants DEF PoolInv, Alloc
<1>2. PICK c : IsChain(c, b, header, k) /\ Members(c, k) = (1..Blocks) \ held
  BY DEF PoolInv, ChainInv
<1>3. c[1] = b /\ b \in 1..Blocks /\ b \notin held
  BY <1>1, <1>2 DEF IsChain, Members
<1> DEFINE d == [i \in 1..(k - 1) |-> c[i + 1]]
<1>4. IsChain(d, block_list', header', k - 1)
  <2>1. d \in [1..(k - 1) -> 1..Blocks]
    BY <1>1, <1>2 DEF IsChain
  <2>2. \A i, j \in 1..(k - 1) : d[i] = d[j] => i = j
    BY <1>1, <1>2 DEF IsChain
  <2>3. block_list' = IF k - 1 = 0 THEN NULL ELSE d[1]
    BY <1>1, <1>2, <1>3 DEF IsChain
  <2>4. ASSUME NEW i \in 1..(k - 1)
        PROVE  header'[d[i]] = IF i = k - 1 THEN NULL ELSE d[i + 1]
    <3>1. i + 1 \in 1..k /\ 1 \in 1..k /\ d[i] = c[i + 1] /\ i + 1 # 1
      BY <1>1
    <3>2. d[i] # b /\ d[i] \in 1..Blocks
      BY <1>2, <1>3, <3>1 DEF IsChain
    <3>3. header'[d[i]] = header[c[i + 1]]
      BY <1>1, <3>1, <3>2 DEF PoolInv
    <3>4. header[c[i + 1]] = IF i + 1 = k THEN NULL ELSE c[i + 2]
      BY <1>2, <3>1 DEF IsChain
    <3> QED
      BY <1>1, <3>3, <3>4
  <2> QED
    BY <2>1, <2>2, <2>3, <2>4 DEF IsChain
<1>5. Members(d, k - 1) = (1..Blocks) \ held'
  <2>1. Members(d, k - 1) = Members(c, k) \ {b}
    <3>1. ASSUME NEW x \in Members(d, k - 1) PROVE x \in Members(c, k) \ {b}
      <4>1. PICK i \in 1..(k - 1) : x = c[i + 1]
        BY DEF Members
      <4>2. i + 1 \in 1..k /\ 1 \in 1..k /\ i + 1 # 1
        BY <1>1
      <4> QED
        BY <1>2, <1>3, <4>1, <4>2 DEF Members, IsChain
    <3>2. ASSUME NEW x \in Members(c, k) \ {b} PROVE x \in Members(d, k - 1)
      <4>1. PICK i \in 1..k : x = c[i]
        BY DEF Members
      <4>2. i # 1
        BY <1>3, <4>1
      <4>3. i - 1 \in 1..(k - 1) /\ d[i - 1] = x
        BY <1>1, <4>1, <4>2
      <4> QED
        BY <4>3 DEF Members
    <3> QED
      BY <3>1, <3>2
  <2> QED
    BY <2>1, <1>1, <1>2
<1>6. ChainInv'
  BY <1>1, <1>4, <1>5 DEF ChainInv
<1>7. Cardinality(held') = Cardinality(held) + 1
  BY <1>1, <1>3, BlocksCounted, FS_AddElement DEF PoolInv
<1> QED
  BY <1>1, <1>3, <1>6, <1>7, Constants DEF PoolInv, Pool

(* rt_mp_free puts a block in front of the chain.                          *)
LEMMA FreeKeepsPool ==
  ASSUME PoolInv, NEW t, NEW b \in 1..Blocks, Free(t, b)
  PROVE  PoolInv' /\ block_free_count < Blocks
<1> DEFINE k == block_free_count
<1>1. /\ k \in Nat /\ k <= Blocks /\ k' = k + 1 /\ b \in held
      /\ block_list' = b /\ header' = [header EXCEPT ![b] = block_list]
      /\ held' = held \ {b}
  BY Constants DEF PoolInv, Free
<1>2. PICK c : IsChain(c, block_list, header, k) /\ Members(c, k) = (1..Blocks) \ held
  BY DEF PoolInv, ChainInv
<1>3. \A i \in 1..k : c[i] # b
  BY <1>1, <1>2 DEF Members
<1> DEFINE d == [i \in 1..(k + 1) |-> IF i = 1 THEN b ELSE c[i - 1]]
<1>4. IsChain(d, block_list', header', k + 1)
  <2>1. d \in [1..(k + 1) -> 1..Blocks]
    BY <1>1, <1>2 DEF IsChain
  <2>2. \A i, j \in 1..(k + 1) : d[i] = d[j] => i = j
    <3> SUFFICES ASSUME NEW i \in 1..(k + 1), NEW j \in 1..(k + 1), d[i] = d[j] PROVE i = j
      OBVIOUS
    <3>1. CASE i = 1 \/ j = 1
      <4>1. i = 1 \/ (i - 1 \in 1..k /\ d[i] = c[i - 1])
        BY <1>1
      <4>2. j = 1 \/ (j - 1 \in 1..k /\ d[j] = c[j - 1])
        BY <1>1
      <4> QED
        BY <1>1, <1>3, <3>1, <4>1, <4>2
    <3>2. CASE i # 1 /\ j # 1
      <4>1. i - 1 \in 1..k /\ j - 1 \in 1..k /\ c[i - 1] = c[j - 1]
        BY <1>1, <3>2
      <4>2. i - 1 = j - 1
        BY <1>2, <4>1 DEF IsChain
      <4> QED
        BY <4>2
    <3> QED
      BY <3>1, <3>2
  <2>3. block_list' = IF k + 1 = 0 THEN NULL ELSE d[1]
    BY <1>1
  <2>4. ASSUME NEW i \in 1..(k + 1)
        PROVE  header'[d[i]] = IF i = k + 1 THEN NULL ELSE d[i + 1]
    <3>1. CASE i = 1
      <4>1. header'[d[1]] = block_list
        BY <1>1 DEF PoolInv
      <4>2. k # 0 => d[2] = c[1]
        BY <1>1
      <4> QED
        BY <1>1, <1>2, <3>1, <4>1, <4>2 DEF IsChain
    <3>2. CASE i # 1
      <4>1. i - 1 \in 1..k /\ d[i] = c[i - 1] /\ c[i - 1] # b
        BY <1>1, <1>3, <3>2
      <4>2. header[c[i - 1]] = IF i - 1 = k THEN NULL ELSE c[i]
        BY <1>2, <4>1 DEF IsChain
      <4>3. header'[d[i]] = header[c[i - 1]]
        BY <1>1, <1>2, <4>1 DEF PoolInv, IsChain
      <4>4. i # k + 1 => d[i + 1] = c[i]
        BY <1>1, <3>2
      <4> QED
        BY <1>1, <4>2, <4>3, <4>4
    <3> QED
      BY <3>1, <3>2
  <2> QED
    BY <2>1, <2>2, <2>3, <2>4 DEF IsChain
<1>5. Members(d, k + 1) = (1..Blocks) \ held'
  <2>1. Members(d, k + 1) = Members(c, k) \cup {b}
    <3>1. ASSUME NEW x \in Members(d, k + 1) PROVE x \in Members(c, k) \cup {b}
      <4>1. PICK i \in 1..(k + 1) : x = d[i]
        BY DEF Members
      <4>2. i = 1 \/ (i - 1 \in 1..k /\ x = c[i - 1])
        BY <1>1, <4>1
      <4> QED
        BY <4>1, <4>2, <1>1 DEF Members
    <3>2. ASSUME NEW x \in Members(c, k) \cup {b} PROVE x \in Members(d, k + 1)
      <4>1. CASE x = b
        <5>1. 1 \in 1..(k + 1) /\ d[1] = x
          BY <1>1, <4>1
        <5> QED
          BY <5>1 DEF Members
      <4>2. CASE x \in Members(c, k)
        <5>1. PICK i \in 1..k : x = c[i]
          BY <4>2 DEF Members
        <5>2. i + 1 \in 1..(k + 1) /\ d[i + 1] = x
          BY <1>1, <5>1
        <5> QED
          BY <5>2 DEF Members
      <4> QED
        BY <4>1, <4>2
    <3> QED
      BY <3>1, <3>2
  <2> QED
    BY <2>1, <1>1, <1>2
<1>6. ChainInv'
  BY <1>1, <1>4, <1>5 DEF ChainInv
<1>7. Cardinality(held') = Cardinality(held) - 1 /\ Cardinality(held') \in Nat
  BY <1>1, BlocksCounted, FS_RemoveElement DEF PoolInv
<1>8. block_list \in 0..Blocks
  BY <1>1, <1>2 DEF IsChain, NULL
<1> QED
  BY <1>1, <1>6, <1>7, <1>8, Constants DEF PoolInv, Pool

-------------------------------------------------------------------------------
(* A step that leaves the pool alone and takes no wake-up from a thread    *)
(* but t, who has none.                                                    *)
LEMMA QuietStep ==
  ASSUME Inv, WaitInv({})', NEW t, GrowsBut(t, "suspend_thread"), t \notin Woken("suspend_thread"),
         UNCHANGED poolVars
  PROVE  Inv'
<1>1. PoolInv' /\ block_free_count' = block_free_count
  BY DEF Inv, PoolInv, ChainInv, poolVars
<1>2. /\ WaitTypeOK({}) /\ WaitTypeOK({})' /\ block_free_count \in Int
      /\ block_free_count <= block_free_count /\ Claim("suspend_thread", block_free_count)
  BY Constants DEF Inv, WaitInv, PoolInv
<1>3. susp'["suspend_thread"] # <<>> =>
        block_free_count <= Cardinality(Woken("suspend_thread")') + wasted'["suspend_thread"]
  BY <1>2, Constants, ClaimKept
<1> QED
  BY <1>1, <1>3 DEF Inv, Claim

(* With no block there is nothing to claim.                                *)
LEMMA NothingToClaim ==
  ASSUME WaitInv({})', block_free_count' = 0
  PROVE  Claim("suspend_thread", block_free_count)'
<1>1. wasted'["suspend_thread"] \in Nat
  BY Constants DEF WaitInv, WaitTypeOK
<1>2. Woken("suspend_thread")' \subseteq Threads
  BY DEF Woken
<1>3. Cardinality(Woken("suspend_thread")') \in Nat
  BY <1>2, ThreadsCounted
<1> QED
  BY <1>1, <1>3 DEF Claim

(* rt_mp_alloc with a block: the block was one that the thread, if it was  *)
(* woken, had been woken for.                                              *)
LEMMA AllocKeeps ==
  ASSUME Inv, NEW t \in Threads, Alloc(t)
  PROVE  Inv'
<1>1. WaitInv({}) /\ stat[t] = "READY" /\ Leave(t)
  BY CallerRuns DEF Inv, Alloc, AtTest
<1>2. WaitInv({})'
  BY <1>1, LeaveKeeps
<1>3. PoolInv'
  BY AllocKeepsPool DEF Inv
<1>4. GrowsBut(t, "suspend_thread")
  BY <1>1, Constants, LeaveGrows
<1>5. /\ WaitTypeOK({}) /\ WaitTypeOK({})' /\ block_free_count \in Int
      /\ block_free_count' \in Int /\ block_free_count' < block_free_count
      /\ Claim("suspend_thread", block_free_count)
  BY <1>2, Constants DEF Inv, WaitInv, PoolInv, Alloc
<1>6. susp'["suspend_thread"] # <<>> =>
        block_free_count' <= Cardinality(Woken("suspend_thread")') + wasted'["suspend_thread"]
  BY <1>4, <1>5, Constants, ClaimKept
<1> QED
  BY <1>2, <1>3, <1>6 DEF Inv, Claim

(* rt_mp_free wakes a sleeper for the block, or there is none.             *)
LEMMA FreeKeeps ==
  ASSUME Inv, NEW t \in Threads, NEW b \in 1..Blocks, Free(t, b)
  PROVE  Inv'
<1>1. WaitInv({}) /\ stat[t] = "READY" /\ lock = NoThread /\ LeaveAndWake(t, "suspend_thread")
  BY CallerRuns DEF Inv, Free
<1>2. WaitInv({})'
  BY <1>1, Constants, LeaveAndWakeKeeps
<1>3. PoolInv' /\ block_free_count < Blocks
  BY FreeKeepsPool DEF Inv
<1>4. t \notin Woken("suspend_thread")
  BY DEF Free, Enter, Woken
<1>5. /\ block_free_count \in Nat /\ block_free_count < MaxWasted
      /\ Claim("suspend_thread", block_free_count) /\ block_free_count' = block_free_count + 1
  BY <1>3, Constants DEF Inv, PoolInv, Free
<1>6. susp'["suspend_thread"] # <<>> =>
        block_free_count + 1 <= Cardinality(Woken("suspend_thread")') + wasted'["suspend_thread"]
  BY <1>1, <1>2, <1>4, <1>5, Constants, ClaimWoken
<1> QED
  BY <1>2, <1>3, <1>5, <1>6 DEF Inv, Claim

(* rt_mp_alloc without a block.                                            *)
LEMMA WaitKeeps ==
  ASSUME Inv, NEW t \in Threads, NEW finite \in BOOLEAN,
         AllocSleep(t, finite) \/ AllocGiveUp(t)
  PROVE  Inv'
<1>1. WaitInv({}) /\ stat[t] = "READY" /\ lock = NoThread /\ "EOK" \in Errors
  BY CallerRuns DEF Inv, AllocSleep, AllocGiveUp, AtTest, Errors
<1>2. WaitInv({})'
  BY <1>1, Constants, SleepKeeps, LeaveKeeps DEF AllocSleep, AllocGiveUp
<1>3. PoolInv' /\ block_free_count' = 0
  BY DEF Inv, PoolInv, ChainInv, poolVars, AllocSleep, AllocGiveUp
<1> QED
  BY <1>2, <1>3, NothingToClaim DEF Inv

(* rt_mp_detach and rt_mp_delete.                                          *)
LEMMA DetachKeeps ==
  ASSUME Inv, NEW t \in Threads, Detach(t) \/ DetachStep(t) \/ DetachDone(t)
  PROVE  Inv'
<1>1. WaitInv({}) /\ MaxWasted \in Nat /\ UNCHANGED poolVars
  BY Constants DEF Inv, Detach, DetachStep, DetachDone
<1>2. t \notin Woken("suspend_thread")
  BY DEF Detach, DetachStep, DetachDone, ResumeAll, Enter, ResumeAllStep, ResumeAllDone, Woken
<1>3. CASE Detach(t)
  <2>1. ResumeAll(t, "detach", "suspend_thread")
    BY <1>3 DEF Detach
  <2>2. WaitInv({})'
    BY <1>1, <2>1, Constants, ResumeAllKeeps
  <2>3. /\ \A u \in Threads \ {t} : pc'[u] = pc[u]
        /\ UNCHANGED <<stat, error, susp, on, wasted>>
    BY <1>1, <2>1 DEF ResumeAll, Goto, WaitInv, WaitTypeOK, threadVars
  <2>4. GrowsBut(t, "suspend_thread")
    BY <1>1, <2>3, Constants DEF GrowsBut, Woken, WaitInv, WaitTypeOK
  <2> QED
    BY <1>1, <1>2, <2>2, <2>4, QuietStep
<1>4. CASE DetachStep(t) \/ DetachDone(t)
  <2>1. WaitInv({})'
    BY <1>1, <1>4, Constants, ResumeAllStepKeeps DEF DetachStep, DetachDone
  <2>2. /\ Dequeue("suspend_thread", "ERROR", MaxWasted) /\ UNCHANGED on
        /\ \A u \in Threads \ {t} : pc'[u] = pc[u]
    BY <1>1, <1>4 DEF DetachStep, DetachDone, ResumeAllStep, ResumeAllDone, Goto,
       WaitInv, WaitTypeOK
  <2>3. GrowsBut(t, "suspend_thread")
    BY <1>1, <2>2, Constants, DequeueGrows
  <2> QED
    BY <1>1, <1>2, <2>1, <2>3, QuietStep
<1> QED
  BY <1>3, <1>4

(* Every step.                                                             *)
LEMMA StepKeeps == Inv /\ [Next]_vars => Inv'
<1> SUFFICES ASSUME Inv, [Next]_vars PROVE Inv'
  OBVIOUS
<1>1. WaitInv({})
  BY DEF Inv
<1>2. NoThread \notin Woken("suspend_thread")
  BY Constants DEF Woken
<1>3. ASSUME NEW t \in Threads, NEW finite \in Timed[t], AllocSleep(t, finite) PROVE Inv'
  BY <1>3, WaitKeeps, IpcTimedAssumption
<1>4. ASSUME NEW t \in Threads, AllocGiveUp(t) PROVE Inv'
  BY <1>4, WaitKeeps
<1>5. ASSUME NEW t \in Threads, ThreadResume(t), UNCHANGED poolVars PROVE Inv'
  <2>1. WaitInv({})' /\ GrowsBut(NoThread, "suspend_thread")
    BY <1>1, <1>5, Constants, ThreadResumeKeeps, ThreadResumeGrows
  <2> QED
    BY <1>2, <1>5, <2>1, QuietStep
<1>6. ASSUME WaitStep, UNCHANGED poolVars PROVE Inv'
  <2>1. WaitInv({})' /\ GrowsBut(NoThread, "suspend_thread")
    BY <1>1, <1>6, Constants, WaitStepKeeps, WaitStepGrows
  <2> QED
    BY <1>2, <1>6, <2>1, QuietStep
<1>7. ASSUME UNCHANGED vars PROVE Inv'
  <2>1. UNCHANGED <<ipcVars, poolVars>>
    BY <1>7 DEF vars
  <2> QED
    BY <2>1 DEF Inv, WaitInv, WaitTypeOK, ThreadTypeOK, SleepInv, HolderInv, SleepersQueued,
       PoolInv, ChainInv, Claim, Woken, ipcVars, threadVars, waitVars, poolVars
<1> QED
  BY <1>3, <1>4, <1>5, <1>6, <1>7, AllocKeeps, FreeKeeps, DetachKeeps DEF Next

(* The invariant holds in every reachable state.                           *)
THEOREM Invariance == Spec => []Inv
BY InitHolds, StepKeeps, PTL DEF Spec

(* As many threads are woken as there are free blocks beside a sleeper, or *)
(* a wake-up met a waiter in its timeout (rt_mp_alloc, rt_mp_free), for    *)
(* every number of threads and blocks.                                     *)
THEOREM BlocksAreClaimed == Spec => []BlocksClaimed
<1>1. Inv => BlocksClaimed
  BY DEF Inv, Claim, BlocksClaimed, ItemsClaimed
<1> QED
  BY <1>1, Invariance, PTL

(* The suspend list of a pool holds exactly the threads that sleep on it,  *)
(* each once (rt_mp_alloc, rt_mp_free, rt_mp_detach, _thread_timeout,      *)
(* rt_thread_resume).                                                      *)
THEOREM SleepersAreQueued == Spec => []SleepersQueued
<1>1. Inv => SleepersQueued
  BY DEF Inv, WaitInv
<1> QED
  BY <1>1, Invariance, PTL

(* The pool keeps its types, and rt_mp_alloc never meets an empty list     *)
(* when the count says that there is a block: its RT_ASSERT holds.         *)
THEOREM TypeCorrect == Spec => []TypeOK
<1>1. Inv => TypeOK
  <2> SUFFICES ASSUME Inv PROVE TypeOK
    OBVIOUS
  <2>1. block_free_count \in 0..Blocks
    BY DEF Inv, PoolInv
  <2>2. block_list \in 0..Blocks /\ (block_free_count > 0 => block_list # NULL)
    <3>1. PICK c : IsChain(c, block_list, header, block_free_count)
      BY DEF Inv, PoolInv, ChainInv
    <3> QED
      BY <2>1, <3>1, Constants DEF IsChain, NULL
  <2> QED
    BY <2>2 DEF Inv, WaitInv, PoolInv, TypeOK
<1> QED
  BY <1>1, Invariance, PTL
-------------------------------------------------------------------------------
(* The walk along the free list.                                           *)

(* What FreeAt is defined to be.                                           *)
IsWalk(f, first, next) ==
  f = [n \in 1..(Blocks + 1) |-> IF n = 1 THEN first
                                 ELSE IF f[n - 1] \in 1..Blocks THEN next[f[n - 1]]
                                 ELSE NULL]

(* There is such a walk.                                                   *)
LEMMA WalkExists ==
  ASSUME NEW first \in 0..Blocks, NEW next \in [1..Blocks -> 0..(Blocks + 1)]
  PROVE  \E f : IsWalk(f, first, next)
<1> DEFINE G == 0..(Blocks + 1)
           F == [x \in G |-> IF x \in 1..Blocks THEN next[x] ELSE NULL]
<1>1. F \in [G -> G] /\ first \in G /\ Blocks \in Nat
  BY Constants DEF NULL
<1>2. PICK r : IsRun(r, F, G, first, Blocks)
  <2> HIDE DEF F, G
  <2> QED
    BY <1>1, Iterates
<1> DEFINE f == [n \in 1..(Blocks + 1) |-> r[n - 1]]
           g == [n \in 1..(Blocks + 1) |-> IF n = 1 THEN first
                                           ELSE IF f[n - 1] \in 1..Blocks THEN next[f[n - 1]]
                                           ELSE NULL]
<1>3. ASSUME NEW n \in 1..(Blocks + 1) PROVE f[n] = g[n]
  <2>1. CASE n = 1
    BY <1>1, <1>2, <2>1 DEF IsRun
  <2>2. CASE n # 1
    <3>1. n - 1 \in 1..Blocks /\ n - 1 \in 1..(Blocks + 1) /\ (n - 1) - 1 \in 0..Blocks
      BY <1>1, <2>2
    <3>2. r[n - 1] = F[r[(n - 1) - 1]] /\ r[(n - 1) - 1] \in G
      BY <1>2, <3>1 DEF IsRun
    <3>3. f[n - 1] = r[(n - 1) - 1] /\ f[n] = r[n - 1]
      BY <3>1
    <3> QED
      BY <2>2, <3>2, <3>3
  <2> QED
    BY <2>1, <2>2
<1>4. f = g
  BY <1>3
<1> QED
  BY <1>4 DEF IsWalk

(* So FreeAt is one.                                                       *)
LEMMA FreeAtWalks ==
  ASSUME block_list \in 0..Blocks, header \in [1..Blocks -> 0..(Blocks + 1)]
  PROVE  IsWalk(FreeAt, block_list, header)
<1>1. FreeAt = CHOOSE f : IsWalk(f, block_list, header)
  BY DEF FreeAt, IsWalk
<1> QED
  BY <1>1, WalkExists

(* And it passes the blocks of the chain, in their order, and ends there.  *)
LEMMA WalkFollowsChain ==
  ASSUME NEW f, NEW first \in 0..Blocks, NEW next \in [1..Blocks -> 0..(Blocks + 1)],
         IsWalk(f, first, next), NEW k \in 0..Blocks, NEW c, IsChain(c, first, next, k)
  PROVE  (\A n \in 1..k : f[n] = c[n]) /\ f[k + 1] = NULL
<1>1. Blocks \in Nat /\ k \in Nat
  BY Constants
<1>2. \A n \in 1..(Blocks + 1) : f[n] = IF n = 1 THEN first
                                        ELSE IF f[n - 1] \in 1..Blocks THEN next[f[n - 1]]
                                        ELSE NULL
  BY DEF IsWalk
<1> DEFINE S == {n \in 0..k : n # 0 => f[n] = c[n]}
<1>3. 0 \in S
  BY <1>1
<1>4. ASSUME NEW n \in 0..(k - 1), n \in S PROVE n + 1 \in S
  <2>1. CASE n = 0
    BY <1>1, <1>2, <2>1 DEF IsChain
  <2>2. CASE n # 0
    <3>1. n \in 1..k /\ n # k /\ f[n] = c[n]
      BY <1>1, <1>4, <2>2
    <3>2. c[n] \in 1..Blocks /\ next[c[n]] = c[n + 1]
      BY <3>1 DEF IsChain
    <3>3. n + 1 \in 1..(Blocks + 1) /\ n + 1 # 1 /\ (n + 1) - 1 = n
      BY <1>1, <3>1
    <3>4. f[n + 1] = next[f[n]]
      BY <1>2, <3>1, <3>2, <3>3
    <3> QED
      BY <1>1, <3>1, <3>2, <3>4
  <2> QED
    BY <2>1, <2>2
<1>5. 0..k \subseteq S
  <2> HIDE DEF S
  <2> QED
    BY <1>1, <1>3, <1>4, SetInduction
<1>6. \A n \in 1..k : f[n] = c[n]
  BY <1>1, <1>5
<1>7. f[k + 1] = NULL
  <2>1. CASE k = 0
    BY <1>1, <1>2, <2>1 DEF IsChain
  <2>2. CASE k # 0
    <3>1. k \in 1..k /\ k + 1 \in 1..(Blocks + 1) /\ k + 1 # 1 /\ (k + 1) - 1 = k
      BY <1>1, <2>2
    <3>2. c[k] \in 1..Blocks /\ next[c[k]] = NULL
      BY <3>1 DEF IsChain
    <3> QED
      BY <1>2, <1>6, <3>1, <3>2
  <2> QED
    BY <2>1, <2>2
<1> QED
  BY <1>6, <1>7

(* Every block is on the free list, once, or held, and block_free_count    *)
(* is the length of the list, in whatever order blocks are allocated and   *)
(* freed (rt_mp_alloc, rt_mp_free), for every number of blocks.            *)
THEOREM BlocksAreOwned == Spec => []BlocksOwned
<1>1. Inv => BlocksOwned
  <2> SUFFICES ASSUME Inv PROVE BlocksOwned
    OBVIOUS
  <2> DEFINE k == block_free_count
  <2>1. PoolInv /\ k \in 0..Blocks
    BY DEF Inv, PoolInv
  <2>2. PICK c : /\ IsChain(c, block_list, header, k)
                 /\ Members(c, k) = (1..Blocks) \ held
    BY <2>1 DEF PoolInv, ChainInv
  <2>3. block_list \in 0..Blocks /\ header \in [1..Blocks -> 0..(Blocks + 1)]
    BY <2>1, <2>2, Constants DEF PoolInv, IsChain, NULL
  <2>4. IsWalk(FreeAt, block_list, header)
    BY <2>3, FreeAtWalks
  <2>5. (\A n \in 1..k : FreeAt[n] = c[n]) /\ FreeAt[k + 1] = NULL
    BY <2>1, <2>2, <2>3, <2>4, WalkFollowsChain
  <2>6. {FreeAt[n] : n \in 1..k} = (1..Blocks) \ held
    BY <2>2, <2>5 DEF Members
  <2> QED
    BY <2>1, <2>5, <2>6 DEF BlocksOwned, PoolInv
<1> QED
  BY <1>1, Invariance, PTL

-------------------------------------------------------------------------------
(* The walk of a send takes off what it makes ready, and nothing else.     *)
IsSendWalk(f, s, R) ==
  f = [n \in 0..Len(s) |-> IF n = 0 THEN s
                           ELSE IF s[n] \in R THEN ListRemove(f[n - 1], s[n])
                           ELSE f[n - 1]]

LEMMA SendWalkExists ==
  ASSUME NEW s, Len(s) \in Nat, NEW R
  PROVE  \E f : IsSendWalk(f, s, R)
<1> DEFINE H == {k \in 0..Len(s) :
                   \E f : f = [n \in 0..k |-> IF n = 0 THEN s
                                              ELSE IF s[n] \in R THEN ListRemove(f[n - 1], s[n])
                                              ELSE f[n - 1]]}
<1>1. 0 \in H
  <2> DEFINE f == [n \in 0..0 |-> s]
  <2>1. f = [n \in 0..0 |-> IF n = 0 THEN s
                            ELSE IF s[n] \in R THEN ListRemove(f[n - 1], s[n])
                            ELSE f[n - 1]]
    OBVIOUS
  <2>2. 0 \in 0..Len(s)
    OBVIOUS
  <2> HIDE DEF f
  <2> QED
    BY <2>1, <2>2
<1>2. ASSUME NEW k \in 0..(Len(s) - 1), k \in H PROVE k + 1 \in H
  <2>1. PICK f : f = [n \in 0..k |-> IF n = 0 THEN s
                                     ELSE IF s[n] \in R THEN ListRemove(f[n - 1], s[n])
                                     ELSE f[n - 1]]
    BY <1>2
  <2> DEFINE v == IF s[k + 1] \in R THEN ListRemove(f[k], s[k + 1]) ELSE f[k]
             g == [n \in 0..(k + 1) |-> IF n = k + 1 THEN v ELSE f[n]]
             h == [n \in 0..(k + 1) |-> IF n = 0 THEN s
                                        ELSE IF s[n] \in R THEN ListRemove(g[n - 1], s[n])
                                        ELSE g[n - 1]]
  <2>2. k \in Nat
    OBVIOUS
  <2>3. ASSUME NEW n \in 0..(k + 1) PROVE g[n] = h[n]
    <3>1. CASE n = k + 1
      <4>1. n - 1 = k /\ k \in 0..(k + 1) /\ k # k + 1 /\ n # 0
        BY <2>2, <3>1
      <4>2. g[n] = v /\ g[n - 1] = f[k]
        BY <3>1, <4>1
      <4> QED
        BY <3>1, <4>1, <4>2
    <3>2. CASE n = 0
      <4>1. 0 # k + 1 /\ 0 \in 0..k
        BY <2>2
      <4> QED
        BY <2>1, <3>2, <4>1
    <3>3. CASE n \in 1..k
      <4>1. n # k + 1 /\ n - 1 # k + 1 /\ n - 1 \in 0..(k + 1) /\ n # 0 /\ n \in 0..k
        BY <2>2, <3>3
      <4>2. g[n] = f[n] /\ g[n - 1] = f[n - 1]
        BY <4>1
      <4>3. f[n] = IF s[n] \in R THEN ListRemove(f[n - 1], s[n]) ELSE f[n - 1]
        BY <2>1, <4>1
      <4> QED
        BY <4>1, <4>2, <4>3
    <3> QED
      BY <2>2, <3>1, <3>2, <3>3
  <2>4. g = h
    <3>1. g = [n \in 0..(k + 1) |-> g[n]] /\ h = [n \in 0..(k + 1) |-> h[n]]
      OBVIOUS
    <3> HIDE DEF g, h
    <3> QED
      BY <2>3, <3>1
  <2>5. k + 1 \in 0..Len(s)
    BY <2>2
  <2> QED
    BY <2>4, <2>5
<1> HIDE DEF H
<1>3. Len(s) \in H
  <2>1. 0..Len(s) \subseteq H
    BY <1>1, <1>2, SetInduction
  <2>2. Len(s) \in 0..Len(s)
    OBVIOUS
  <2> QED
    BY <2>1, <2>2
<1> QED
  BY <1>3 DEF H, IsSendWalk

LEMMA WalkProperties ==
  ASSUME NEW S, NEW s \in Seq(S), Unique(s), NEW R
  PROVE  /\ Walk(s, R) \in Seq(S)
         /\ Queued(Walk(s, R)) = Queued(s) \ R
         /\ Unique(Walk(s, R))
<1> DEFINE f == CHOOSE f : IsSendWalk(f, s, R)
           gone(n) == {s[i] : i \in 1..n} \cap R
<1>1. Len(s) \in Nat
  BY LenProperties
<1>2. IsSendWalk(f, s, R)
  BY <1>1, SendWalkExists
<1>3. Walk(s, R) = f[Len(s)]
  BY DEF Walk, IsSendWalk
<1> HIDE DEF f
<1>4. \A n \in 0..Len(s) : f[n] = IF n = 0 THEN s
                                  ELSE IF s[n] \in R THEN ListRemove(f[n - 1], s[n])
                                  ELSE f[n - 1]
  BY <1>2 DEF IsSendWalk
<1> DEFINE H == {n \in 0..Len(s) : /\ f[n] \in Seq(S) /\ Unique(f[n])
                                   /\ Queued(f[n]) = Queued(s) \ gone(n)}
<1>5. 0 \in H
  <2>1. f[0] = s /\ gone(0) = {}
    BY <1>1, <1>4
  <2>2. Queued(s) \ {} = Queued(s) /\ 0 \in 0..Len(s)
    BY <1>1
  <2> HIDE DEF gone
  <2>3. Queued(f[0]) = Queued(s) \ gone(0)
    BY <2>1, <2>2
  <2>4. f[0] \in Seq(S) /\ Unique(f[0])
    BY <2>1
  <2> QED
    BY <2>2, <2>3, <2>4
<1>6. ASSUME NEW k \in 0..(Len(s) - 1), k \in H PROVE k + 1 \in H
  <2>1. /\ k \in Nat /\ k + 1 \in 1..Len(s) /\ k + 1 \in 0..Len(s) /\ k + 1 # 0
        /\ (k + 1) - 1 = k
    BY <1>1
  <2>2. /\ f[k] \in Seq(S) /\ Unique(f[k]) /\ Queued(f[k]) = Queued(s) \ gone(k)
    BY <1>6
  <2>3. f[k + 1] = IF s[k + 1] \in R THEN ListRemove(f[k], s[k + 1]) ELSE f[k]
    BY <1>4, <2>1
  <2>4. gone(k + 1) = gone(k) \cup ({s[k + 1]} \cap R)
    <3>1. 1..(k + 1) = (1..k) \cup {k + 1}
      BY <2>1
    <3> QED
      BY <3>1
  <2> HIDE DEF gone
  <2>5. CASE s[k + 1] \in R
    <3>1. /\ ListRemove(f[k], s[k + 1]) \in Seq(S)
          /\ Queued(ListRemove(f[k], s[k + 1])) = Queued(f[k]) \ {s[k + 1]}
          /\ Unique(ListRemove(f[k], s[k + 1]))
      BY <2>2, ListRemoveProperties
    <3> QED
      BY <2>1, <2>2, <2>3, <2>4, <2>5, <3>1
  <2>6. CASE s[k + 1] \notin R
    BY <2>1, <2>2, <2>3, <2>4, <2>6
  <2> QED
    BY <2>5, <2>6
<1>7. Len(s) \in H
  <2> HIDE DEF H
  <2>1. 0..Len(s) \subseteq H
    BY <1>1, <1>5, <1>6, SetInduction
  <2>2. Len(s) \in 0..Len(s)
    BY <1>1
  <2> QED
    BY <2>1, <2>2
<1>8. gone(Len(s)) = Queued(s) \cap R
  BY DEF Queued
<1> QED
  BY <1>3, <1>7, <1>8

-------------------------------------------------------------------------------
(* The event.                                                              *)

BitsOK ==
  /\ set \subseteq Bits
  /\ event_set \in [Threads -> SUBSET Bits]
  /\ event_info \in [Threads -> Options]
  /\ want \in [Threads -> SUBSET Bits]

(* A sleeper whose timer has run down is the one in its timeout.           *)
IsrInv == \A t \in Threads : stat[t] = "SUSPEND" /\ ttmr[t] /\ ~tmr[t] => isr = t

(* Before t is served it asks for what it wants, afterwards it has got it. *)
Asking(t) == event_set[t] \subseteq want[t] /\ (event_info[t].and => event_set[t] = want[t])
Content(t) == event_set[t] \subseteq want[t] /\ Met(want[t], event_info[t], event_set[t])

ReceiverInv ==
  \A t \in Threads : /\ pc[t] \in {"arm", "waiting"} => Asking(t)
                     /\ pc[t] \in {"arm", "waiting"} /\ error[t] = "EOK" => Content(t)
                     /\ pc[t] = "done" => Content(t)

EventInv == /\ WaitInv({"done"})
            /\ BitsOK
            /\ IsrInv
            /\ ReceiverInv
            /\ NoSatisfiedSleeper

(* The constants of the event.                                             *)
LEMMA EventConstants ==
  /\ "suspend_thread" \in Lists /\ Lists = {"suspend_thread"}
  /\ NoThread \notin Threads
  /\ \A r \in Requests : r[1] \subseteq Bits /\ r[2] \in Options
  /\ \A b \in BitSets : b \subseteq Bits
  /\ MaxWasted \in Nat
<1>1. \A r \in Requests : r[1] \in BitSets /\ r[2] \in Options
  BY RequestsAssumption
<1>2. \A b \in BitSets : b \subseteq Bits
  BY DEF BitSets
<1> QED
  BY <1>1, <1>2, EventListsAssumption, NoThreadAssumption, IpcBoundAssumption

(* Fewer bits meet fewer requests.                                         *)
LEMMA MetGrows ==
  ASSUME NEW asked, NEW option, NEW r, NEW s, r \subseteq s, Met(asked, option, r)
  PROVE  Met(asked, option, s)
BY DEF Met

(* The list holds all threads that sleep.                                  *)
LEMMA SleepersListed ==
  ASSUME WaitInv({"done"})
  PROVE  Queued(susp["suspend_thread"]) = {t \in Threads : stat[t] = "SUSPEND"}
<1>1. Queued(susp["suspend_thread"]) = {t \in Threads : stat[t] = "SUSPEND" /\ on[t] = "suspend_thread"}
  BY EventConstants DEF WaitInv, SleepersQueued
<1>2. \A t \in Threads : stat[t] = "SUSPEND" => on[t] = "suspend_thread"
  BY EventConstants DEF WaitInv, SleepInv
<1> QED
  BY <1>1, <1>2

(* rt_event_init.                                                          *)
LEMMA EventInitHolds == EventInit => EventInv
<1> SUFFICES ASSUME EventInit PROVE EventInv
  OBVIOUS
<1>1. WaitInv({"done"})
  BY WaitInitKeeps DEF EventInit
<1>2. BitsOK
  BY DEF EventInit, BitsOK, NoOption, Options
<1>3. IsrInv /\ ReceiverInv
  BY DEF EventInit, WaitInit, ThreadInit, IsrInv, ReceiverInv
<1>4. NoSatisfiedSleeper
  <2>1. Queued(susp["suspend_thread"]) = {}
    BY <1>1, SleepersListed DEF EventInit, WaitInit, ThreadInit
  <2> QED
    BY <2>1 DEF NoSatisfiedSleeper
<1> QED
  BY <1>1, <1>2, <1>3, <1>4 DEF EventInv

(* A step that serves nobody: nobody goes to sleep, no bit comes into the  *)
(* set, and at most t, whose call is over, changes what it asks for.       *)
LEMMA QuietEvent ==
  ASSUME EventInv, WaitInv({"done"})', BitsOK', IsrInv', set' \subseteq set, NEW t,
         t \in Threads => pc'[t] \notin {"arm", "waiting", "done"},
         \A u \in Threads \ {t} : /\ event_set'[u] = event_set[u]
                                  /\ event_info'[u] = event_info[u]
                                  /\ want'[u] = want[u],
         \A u \in Threads : stat'[u] = "SUSPEND" => stat[u] = "SUSPEND" /\ (u = isr => u = isr'),
         \A u \in Threads : pc'[u] \in {"arm", "waiting"} =>
           pc[u] \in {"arm", "waiting"} /\ (error'[u] = "EOK" => error[u] = "EOK"),
         \A u \in Threads : pc'[u] = "done" => pc[u] = "done"
  PROVE  EventInv'
<1>1. ReceiverInv'
  <2> SUFFICES ASSUME NEW u \in Threads
               PROVE  /\ pc'[u] \in {"arm", "waiting"} => Asking(u)'
                      /\ pc'[u] \in {"arm", "waiting"} /\ error'[u] = "EOK" => Content(u)'
                      /\ pc'[u] = "done" => Content(u)'
    BY DEF ReceiverInv
  <2>1. CASE u = t
    BY <2>1
  <2>2. CASE u # t
    <3>1. Asking(u)' = Asking(u) /\ Content(u)' = Content(u)
      BY <2>2 DEF Asking, Content, Met
    <3> QED
      BY <3>1 DEF EventInv, ReceiverInv
  <2> QED
    BY <2>1, <2>2
<1>2. NoSatisfiedSleeper'
  <2> SUFFICES ASSUME NEW u \in Queued(susp'["suspend_thread"]), u # isr'
               PROVE  ~Met(event_set'[u], event_info'[u], set')
    BY DEF NoSatisfiedSleeper
  <2>1. u \in Threads /\ stat'[u] = "SUSPEND"
    BY EventConstants DEF WaitInv, SleepersQueued
  <2>2. u # t
    BY <2>1 DEF WaitInv, SleepInv
  <2>3. u \in Queued(susp["suspend_thread"]) /\ u # isr
    BY <2>1, SleepersListed DEF EventInv
  <2>4. ~Met(event_set[u], event_info[u], set)
    BY <2>3 DEF EventInv, NoSatisfiedSleeper
  <2>5. event_set'[u] = event_set[u] /\ event_info'[u] = event_info[u]
    BY <2>1, <2>2
  <2> QED
    BY <2>4, <2>5, MetGrows
<1> QED
  BY <1>1, <1>2 DEF EventInv

(* The same for a step that leaves the event alone.                        *)
LEMMA AloneEvent ==
  ASSUME EventInv, WaitInv({"done"})', IsrInv', UNCHANGED bitVars,
         \A u \in Threads : stat'[u] = "SUSPEND" => stat[u] = "SUSPEND" /\ (u = isr => u = isr'),
         \A u \in Threads : pc'[u] \in {"arm", "waiting"} =>
           pc[u] \in {"arm", "waiting"} /\ (error'[u] = "EOK" => error[u] = "EOK"),
         \A u \in Threads : pc'[u] = "done" => pc[u] = "done"
  PROVE  EventInv'
<1>1. BitsOK' /\ set' \subseteq set
  BY DEF EventInv, BitsOK, bitVars
<1>2. NoThread \notin Threads
  BY EventConstants
<1>3. \A u \in Threads \ {NoThread} : /\ event_set'[u] = event_set[u]
                                      /\ event_info'[u] = event_info[u]
                                      /\ want'[u] = want[u]
  BY DEF bitVars
<1> QED
  BY <1>1, <1>2, <1>3, QuietEvent

(* Shared steps.                                                           *)
LEMMA EventWaitStepKeeps ==
  ASSUME EventInv, WaitStep, UNCHANGED bitVars
  PROVE  EventInv'
<1>1. WaitInv({"done"})'
  BY WaitStepKeeps DEF EventInv
<1>2. WaitTypeOK({"done"}) /\ IsrInv
  BY DEF EventInv, WaitInv
<1>3. /\ IsrInv'
      /\ \A u \in Threads : stat'[u] = "SUSPEND" => stat[u] = "SUSPEND" /\ (u = isr => u = isr')
      /\ \A u \in Threads : pc'[u] \in {"arm", "waiting"} =>
           pc[u] \in {"arm", "waiting"} /\ (error'[u] = "EOK" => error[u] = "EOK")
      /\ \A u \in Threads : pc'[u] = "done" => pc[u] = "done"
  <2>1. CASE \E t \in Threads : Arm(t)
    BY <1>2, <2>1 DEF WaitTypeOK, ThreadTypeOK, IsrInv, Arm, TimerStart, Goto
  <2>2. CASE \E t \in Threads : ReturnError(t)
    BY <1>2, <2>2 DEF WaitTypeOK, ThreadTypeOK, IsrInv, ReturnError, Return, Goto
  <2>3. CASE \E t \in Threads : Expire(t)
    BY <1>2, <2>3, EventConstants DEF WaitTypeOK, ThreadTypeOK, IsrInv, Expire, TimerExpire, waitVars
  <2>4. CASE Timeout
    BY <1>2, <2>4 DEF WaitTypeOK, ThreadTypeOK, IsrInv, Timeout, ThreadTimeout
  <2>5. CASE TimeoutAssertFails
    BY <1>2, <2>5 DEF IsrInv, TimeoutAssertFails, ThreadTimeoutAssertFails, waitVars
  <2> QED
    BY <2>1, <2>2, <2>3, <2>4, <2>5 DEF WaitStep
<1> QED
  BY <1>1, <1>3, AloneEvent

LEMMA EventResumeKeeps ==
  ASSUME EventInv, NEW t \in Threads, ThreadResume(t), UNCHANGED bitVars
  PROVE  EventInv'
<1>1. WaitInv({"done"})'
  BY ThreadResumeKeeps DEF EventInv
<1>2. WaitTypeOK({"done"}) /\ IsrInv
  BY DEF EventInv, WaitInv
<1>3. /\ IsrInv'
      /\ \A u \in Threads : stat'[u] = "SUSPEND" => stat[u] = "SUSPEND" /\ (u = isr => u = isr')
      /\ \A u \in Threads : pc'[u] \in {"arm", "waiting"} =>
           pc[u] \in {"arm", "waiting"} /\ (error'[u] = "EOK" => error[u] = "EOK")
      /\ \A u \in Threads : pc'[u] = "done" => pc[u] = "done"
  BY <1>2 DEF WaitTypeOK, ThreadTypeOK, IsrInv, ThreadResume, ThreadReady, ReadyOK
<1> QED
  BY <1>1, <1>3, AloneEvent

(* One dequeue of a reset, detach or delete.                               *)
LEMMA EventDequeue ==
  ASSUME EventInv, Dequeue("suspend_thread", "ERROR", MaxWasted)
  PROVE  /\ IsrInv' /\ isr' = isr
         /\ \A u \in Threads : stat'[u] = "SUSPEND" => stat[u] = "SUSPEND"
         /\ \A u \in Threads : error'[u] = "EOK" => error[u] = "EOK"
<1>1. WaitInv({"done"}) /\ WaitTypeOK({"done"}) /\ IsrInv
  BY DEF EventInv, WaitInv
<1> DEFINE h == Head(susp["suspend_thread"])
<1>2. CASE susp["suspend_thread"] = <<>>
  BY <1>1, <1>2 DEF Dequeue, IsrInv
<1>3. CASE susp["suspend_thread"] # <<>>
  <2>1. /\ ThreadReady(h) /\ UNCHANGED <<isr, halted>>
        /\ error' = [error EXCEPT ![h] = IF DequeueOK("suspend_thread") THEN "ERROR" ELSE @]
    BY <1>3 DEF Dequeue
  <2> HIDE DEF h
  <2> QED
    BY <1>1, <2>1 DEF WaitTypeOK, ThreadTypeOK, IsrInv, ThreadReady, ReadyOK
<1> QED
  BY <1>2, <1>3

(* rt_event_control, rt_event_detach and rt_event_delete.                  *)
LEMMA CloseKeeps ==
  ASSUME EventInv, NEW t \in Threads,
         (\E why \in {"reset", "detach"} : Close(t, why)) \/ CloseStep(t) \/ CloseDone(t)
  PROVE  EventInv'
<1>1. WaitInv({"done"}) /\ WaitTypeOK({"done"}) /\ IsrInv
  BY DEF EventInv, WaitInv
<1>2. "suspend_thread" \notin {"arm", "waiting", "done"}
  OBVIOUS
<1>3. CASE \E why \in {"reset", "detach"} : Close(t, why)
  <2>1. PICK why \in {"reset", "detach"} : ResumeAll(t, why, "suspend_thread")
    BY <1>3 DEF Close
  <2>2. WaitInv({"done"})'
    BY <1>1, <2>1, EventConstants, ResumeAllKeeps
  <2>3. /\ UNCHANGED <<stat, ttmr, tmr, error, isr>>
        /\ pc' = [pc EXCEPT ![t] = "suspend_thread"]
    BY <2>1 DEF ResumeAll, Goto, threadVars
  <2>4. IsrInv'
    BY <1>1, <2>3 DEF IsrInv
  <2>5. /\ \A u \in Threads : pc'[u] \in {"arm", "waiting"} =>
             pc[u] \in {"arm", "waiting"} /\ (error'[u] = "EOK" => error[u] = "EOK")
        /\ \A u \in Threads : pc'[u] = "done" => pc[u] = "done"
    BY <1>1, <2>3 DEF WaitTypeOK
  <2>6. \A u \in Threads : stat'[u] = "SUSPEND" => stat[u] = "SUSPEND" /\ (u = isr => u = isr')
    BY <2>3
  <2>7. UNCHANGED bitVars
    BY <1>3 DEF Close
  <2> QED
    BY <2>2, <2>4, <2>5, <2>6, <2>7, AloneEvent
<1>4. CASE CloseStep(t)
  <2>1. /\ ResumeAllStep(t, "suspend_thread") /\ UNCHANGED bitVars
        /\ Dequeue("suspend_thread", "ERROR", MaxWasted) /\ UNCHANGED pc
    BY <1>4 DEF CloseStep, ResumeAllStep
  <2>2. WaitInv({"done"})'
    BY <1>1, <2>1, EventConstants, ResumeAllStepKeeps
  <2>3. /\ IsrInv' /\ isr' = isr
        /\ \A u \in Threads : stat'[u] = "SUSPEND" => stat[u] = "SUSPEND"
        /\ \A u \in Threads : error'[u] = "EOK" => error[u] = "EOK"
    BY <2>1, EventDequeue
  <2> QED
    BY <2>1, <2>2, <2>3, AloneEvent
<1>5. CASE CloseDone(t)
  <2>1. /\ ResumeAllDone(t, "suspend_thread") /\ UNCHANGED <<event_set, event_info, want>>
        /\ Dequeue("suspend_thread", "ERROR", MaxWasted)
        /\ pc' = [pc EXCEPT ![t] = "idle"] /\ set' \subseteq set
    BY <1>5 DEF CloseDone, ResumeAllDone, Goto
  <2>2. WaitInv({"done"})'
    BY <1>1, <2>1, EventConstants, ResumeAllStepKeeps
  <2>3. /\ IsrInv' /\ isr' = isr
        /\ \A u \in Threads : stat'[u] = "SUSPEND" => stat[u] = "SUSPEND"
        /\ \A u \in Threads : error'[u] = "EOK" => error[u] = "EOK"
    BY <2>1, EventDequeue
  <2>4. BitsOK'
    BY <2>1 DEF EventInv, BitsOK
  <2>5. \A u \in Threads : pc'[u] # "idle" => pc'[u] = pc[u]
    BY <1>1, <2>1 DEF WaitTypeOK
  <2>6. NoThread \notin Threads
    BY EventConstants
  <2> QED
    BY <2>1, <2>2, <2>3, <2>4, <2>5, <2>6, QuietEvent
<1> QED
  BY <1>3, <1>4, <1>5

(* _rt_event_recv when the bits are there.                                 *)
LEMMA RecvKeeps ==
  ASSUME EventInv, NEW t \in Threads, NEW r \in Requests, Recv(t, r[1], r[2])
  PROVE  EventInv'
<1> DEFINE asked == r[1]
           option == r[2]
<1>1. WaitInv({"done"}) /\ WaitTypeOK({"done"}) /\ BitsOK /\ IsrInv /\ ReceiverInv
  BY DEF EventInv, WaitInv
<1>2. asked \subseteq Bits /\ option \in Options
  BY EventConstants
<1>3. stat[t] = "READY"
  BY <1>1, CallerRuns DEF Recv, Ask
<1>4. /\ event_info' = [event_info EXCEPT ![t] = option]
      /\ want' = [want EXCEPT ![t] = asked]
      /\ event_set' = [event_set EXCEPT ![t] = set \cap asked]
      /\ pc' = [pc EXCEPT ![t] = "done"]
      /\ set' \subseteq set /\ Met(asked, option, set)
      /\ UNCHANGED <<stat, ttmr, tmr, error, isr, halted, susp, lock, alive, on, timed, job, wasted>>
  BY DEF Recv, Ask, Goto, threadVars
<1> HIDE DEF asked, option
<1>5. WaitInv({"done"})'
  <2>1. WaitTypeOK({"done"})'
    BY <1>1, <1>4 DEF WaitTypeOK, ThreadTypeOK
  <2>2. HolderInv'
    BY <1>1, <1>4, EventConstants DEF WaitInv, WaitTypeOK, HolderInv
  <2>3. \A u \in Threads \ {t} : on'[u] = on[u] /\ pc'[u] = pc[u]
    BY <1>1, <1>4 DEF WaitTypeOK
  <2> QED
    BY <1>1, <1>3, <1>4, <2>1, <2>2, <2>3, QuietKeeps
<1>6. BitsOK'
  BY <1>1, <1>2, <1>4 DEF BitsOK
<1>7. IsrInv'
  BY <1>1, <1>4 DEF IsrInv
<1>8. Content(t)'
  <2>1. event_info'[t] = option /\ want'[t] = asked /\ event_set'[t] = set \cap asked
    BY <1>1, <1>4 DEF BitsOK
  <2> QED
    BY <1>4, <2>1 DEF Content, Met
<1>9. ASSUME NEW u \in Threads, u # t
      PROVE  /\ event_set'[u] = event_set[u] /\ event_info'[u] = event_info[u]
             /\ want'[u] = want[u] /\ pc'[u] = pc[u] /\ error'[u] = error[u]
             /\ Asking(u)' = Asking(u) /\ Content(u)' = Content(u)
  BY <1>1, <1>4, <1>9 DEF BitsOK, WaitTypeOK, Asking, Content, Met
<1>10. ReceiverInv'
  <2>1. pc'[t] = "done"
    BY <1>1, <1>4 DEF WaitTypeOK
  <2> QED
    BY <1>1, <1>8, <1>9, <2>1 DEF ReceiverInv
<1>11. NoSatisfiedSleeper'
  <2> SUFFICES ASSUME NEW u \in Queued(susp'["suspend_thread"]), u # isr'
               PROVE  ~Met(event_set'[u], event_info'[u], set')
    BY DEF NoSatisfiedSleeper
  <2>1. u \in Queued(susp["suspend_thread"]) /\ u # isr
    BY <1>4
  <2>2. u \in Threads /\ u # t
    BY <1>1, <1>3, <2>1, SleepersListed
  <2>3. ~Met(event_set[u], event_info[u], set)
    BY <2>1 DEF EventInv, NoSatisfiedSleeper
  <2> QED
    BY <1>4, <1>9, <2>2, <2>3, MetGrows
<1> QED
  BY <1>5, <1>6, <1>7, <1>10, <1>11 DEF EventInv

(* And when they are not.                                                  *)
LEMMA RecvSleepKeeps ==
  ASSUME EventInv, NEW t \in Threads, NEW r \in Requests, NEW finite \in BOOLEAN,
         RecvSleep(t, r[1], r[2], finite)
  PROVE  EventInv'
<1> DEFINE asked == r[1]
           option == r[2]
<1>1. WaitInv({"done"}) /\ WaitTypeOK({"done"}) /\ BitsOK /\ IsrInv /\ ReceiverInv
  BY DEF EventInv, WaitInv
<1>2. asked \subseteq Bits /\ option \in Options
  BY EventConstants
<1>3. stat[t] = "READY" /\ lock = NoThread /\ "EINTR" \in Errors
  BY <1>1, CallerRuns DEF RecvSleep, Ask, Errors
<1>4. /\ event_info' = [event_info EXCEPT ![t] = option]
      /\ want' = [want EXCEPT ![t] = asked]
      /\ event_set' = [event_set EXCEPT ![t] = asked]
      /\ error' = [error EXCEPT ![t] = "EINTR"]
      /\ ~Met(asked, option, set) /\ UNCHANGED <<set, isr>>
      /\ stat' = [stat EXCEPT ![t] = "SUSPEND"]
      /\ tmr' = [tmr EXCEPT ![t] = tmr[t] /\ ~ttmr[t]]
      /\ ttmr' = [ttmr EXCEPT ![t] = FALSE]
  BY DEF RecvSleep, Ask, Sleep, SuspendSelf
<1>5. pc' = [pc EXCEPT ![t] = pc'[t]] /\ pc'[t] \in {"arm", "waiting"}
  BY <1>1 DEF WaitTypeOK, RecvSleep, Sleep, Goto
<1>6. WaitInv({"done"})'
  <2>1. Sleep(t, "suspend_thread", finite, "EINTR")
    BY DEF RecvSleep
  <2> QED
    BY <1>1, <1>3, <2>1, EventConstants, SleepKeeps
<1> HIDE DEF asked, option
<1>7. BitsOK'
  BY <1>1, <1>2, <1>4 DEF BitsOK
<1>8. IsrInv'
  BY <1>1, <1>4 DEF IsrInv, WaitTypeOK, ThreadTypeOK
<1>9. Asking(t)' /\ error'[t] # "EOK" /\ event_set'[t] = asked /\ event_info'[t] = option
  BY <1>1, <1>4 DEF BitsOK, WaitTypeOK, ThreadTypeOK, Asking
<1>10. ASSUME NEW u \in Threads, u # t
       PROVE  /\ event_set'[u] = event_set[u] /\ event_info'[u] = event_info[u]
              /\ pc'[u] = pc[u] /\ error'[u] = error[u] /\ stat'[u] = stat[u]
              /\ Asking(u)' = Asking(u) /\ Content(u)' = Content(u)
  BY <1>1, <1>4, <1>5, <1>10 DEF BitsOK, WaitTypeOK, ThreadTypeOK, Asking, Content, Met
<1>11. ReceiverInv'
  BY <1>1, <1>5, <1>9, <1>10 DEF ReceiverInv
<1>12. NoSatisfiedSleeper'
  <2> SUFFICES ASSUME NEW u \in Queued(susp'["suspend_thread"]), u # isr'
               PROVE  ~Met(event_set'[u], event_info'[u], set')
    BY DEF NoSatisfiedSleeper
  <2>1. u \in Threads /\ stat'[u] = "SUSPEND"
    BY <1>6, EventConstants DEF WaitInv, SleepersQueued
  <2>2. CASE u = t
    BY <1>4, <1>9, <2>2
  <2>3. CASE u # t
    <3>1. u \in Queued(susp["suspend_thread"])
      BY <1>1, <1>10, <2>1, <2>3, SleepersListed
    <3>2. ~Met(event_set[u], event_info[u], set)
      BY <1>4, <3>1 DEF EventInv, NoSatisfiedSleeper
    <3> QED
      BY <1>4, <1>10, <2>1, <2>3, <3>2
  <2> QED
    BY <2>2, <2>3
<1> QED
  BY <1>6, <1>7, <1>8, <1>11, <1>12 DEF EventInv

(* The call returns, with bits or with an error.                           *)
LEMMA RecvEndKeeps ==
  ASSUME EventInv, NEW t \in Threads, RecvReturn(t) \/ RecvError(t)
  PROVE  EventInv'
<1>1. WaitInv({"done"}) /\ WaitTypeOK({"done"}) /\ BitsOK /\ IsrInv
  BY DEF EventInv, WaitInv
<1>2. stat[t] = "READY"
  BY <1>1, CallerRuns DEF RecvReturn, RecvError, ReturnError, WaitInv, WaitTypeOK, ThreadTypeOK, SleepInv
<1>3. WaitInv({"done"})'
  BY <1>1, <1>2, LeaveKeeps, ReturnErrorKeeps DEF RecvReturn, RecvError
<1>4. /\ pc' = [pc EXCEPT ![t] = "idle"] /\ UNCHANGED <<stat, ttmr, tmr, isr>>
      /\ \A u \in Threads \ {t} : error'[u] = error[u]
  BY <1>1 DEF RecvReturn, RecvError, ReturnError, Leave, Return, Goto, threadVars, WaitTypeOK,
     ThreadTypeOK
<1>5. /\ event_set' = [event_set EXCEPT ![t] = {}]
      /\ event_info' = [event_info EXCEPT ![t] = NoOption]
      /\ want' = [want EXCEPT ![t] = {}]
      /\ set' = set
  BY DEF RecvReturn, RecvError, Forget
<1>6. BitsOK'
  <2>1. NoOption \in Options
    BY DEF NoOption, Options
  <2> QED
    BY <1>1, <1>5, <2>1 DEF BitsOK
<1>7. IsrInv'
  BY <1>1, <1>4 DEF IsrInv
<1>8. pc'[t] = "idle" /\ \A u \in Threads \ {t} : pc'[u] = pc[u]
  BY <1>1, <1>4 DEF WaitTypeOK
<1>9. \A u \in Threads \ {t} : /\ event_set'[u] = event_set[u]
                               /\ event_info'[u] = event_info[u]
                               /\ want'[u] = want[u]
  BY <1>1, <1>5 DEF BitsOK
<1> QED
  BY <1>3, <1>4, <1>5, <1>6, <1>7, <1>8, <1>9, QuietEvent

(* rt_event_send when hit are the receivers met by the bits in all.        *)
SendEffect(all, hit) ==
  /\ hit = {u \in Threads : stat[u] = "SUSPEND" /\ Met(event_set[u], event_info[u], all)}
  /\ event_set' = [u \in Threads |-> IF u \in hit THEN Served(u, all) ELSE event_set[u]]
  /\ set' = all \ Cleared(hit, all)
  /\ stat' = [u \in Threads |-> IF u \in hit /\ ReadyOK(u) THEN "READY" ELSE stat[u]]
  /\ tmr' = [u \in Threads |-> tmr[u] /\ ~(u \in hit /\ ttmr[u])]
  /\ ttmr' = [u \in Threads |-> ttmr[u] /\ u \notin hit]
  /\ error' = [u \in Threads |-> IF u \in hit THEN "EOK" ELSE error[u]]
  /\ susp' = [susp EXCEPT !["suspend_thread"] =
                Walk(susp["suspend_thread"], {u \in hit : ReadyOK(u)})]
  /\ UNCHANGED <<isr, halted, lock, alive, pc, on, timed, job, wasted, event_info, want>>
  /\ lock = NoThread

LEMMA SendFacts ==
  ASSUME EventInv, NEW t \in Threads, NEW bits \in BitSets, Send(t, bits)
  PROVE  \E all, hit : SendEffect(all, hit) /\ all = set \cup bits /\ all \subseteq Bits
<1> DEFINE all == set \cup bits
           hit == Hit(all)
<1>1. all \subseteq Bits
  BY EventConstants DEF EventInv, BitsOK
<1>2. hit = {u \in Threads : stat[u] = "SUSPEND" /\ Met(event_set[u], event_info[u], all)}
  BY SleepersListed DEF EventInv, Hit
<1>3. lock = NoThread
  BY DEF Send, Enter
<1>4. SendEffect(all, hit)
  BY <1>2, <1>3 DEF Send, SendEffect
<1> QED
  BY <1>1, <1>4

(* Whoever is served sleeps and asks, and then has what he asked for.      *)
LEMMA ServedContent ==
  ASSUME EventInv, NEW u \in Threads, NEW all, stat[u] = "SUSPEND",
         Met(event_set[u], event_info[u], all)
  PROVE  /\ Served(u, all) \subseteq want[u] /\ Served(u, all) \subseteq Bits
         /\ event_info[u].and => Served(u, all) = want[u]
         /\ Met(want[u], event_info[u], Served(u, all))
<1>1. pc[u] \in {"arm", "waiting"}
  BY DEF EventInv, WaitInv, SleepInv
<1>2. Asking(u)
  BY <1>1 DEF EventInv, ReceiverInv
<1>3. event_set[u] \subseteq Bits
  BY DEF EventInv, BitsOK
<1>4. CASE event_info[u].and
  BY <1>2, <1>3, <1>4 DEF Asking, Served, Met
<1>5. CASE ~event_info[u].and
  BY <1>2, <1>3, <1>5 DEF Asking, Served, Met
<1> QED
  BY <1>4, <1>5

(* A sleeper that is hit runs again and reports, or is in its timeout.     *)
LEMMA HitReports ==
  ASSUME EventInv, NEW u \in Threads, stat[u] = "SUSPEND", lock = NoThread
  PROVE  /\ pc[u] = "waiting" /\ on[u] = "suspend_thread"
         /\ ReadyOK(u) \/ u = isr
<1>1. pc[u] \in {"arm", "waiting"} /\ on[u] = "suspend_thread"
  BY EventConstants DEF EventInv, WaitInv, SleepInv
<1>2. pc[u] # "arm"
  BY EventConstants DEF EventInv, WaitInv, HolderInv
<1>3. ReadyOK(u) \/ u = isr
  BY DEF EventInv, WaitInv, WaitTypeOK, ThreadTypeOK, IsrInv, ReadyOK
<1> QED
  BY <1>1, <1>2, <1>3

LEMMA SendKeeps ==
  ASSUME EventInv, NEW t \in Threads, NEW bits \in BitSets, Send(t, bits)
  PROVE  EventInv'
<1>1. PICK all, hit : SendEffect(all, hit) /\ all \subseteq Bits
  BY SendFacts
<1> DEFINE q == susp["suspend_thread"]
           R == {u \in hit : ReadyOK(u)}
<1>2. /\ all \subseteq Bits
      /\ hit = {u \in Threads : stat[u] = "SUSPEND" /\ Met(event_set[u], event_info[u], all)}
      /\ event_set' = [u \in Threads |-> IF u \in hit THEN Served(u, all) ELSE event_set[u]]
      /\ set' = all \ Cleared(hit, all)
      /\ stat' = [u \in Threads |-> IF u \in hit /\ ReadyOK(u) THEN "READY" ELSE stat[u]]
      /\ tmr' = [u \in Threads |-> tmr[u] /\ ~(u \in hit /\ ttmr[u])]
      /\ ttmr' = [u \in Threads |-> ttmr[u] /\ u \notin hit]
      /\ error' = [u \in Threads |-> IF u \in hit THEN "EOK" ELSE error[u]]
      /\ susp' = [susp EXCEPT !["suspend_thread"] = Walk(q, R)]
      /\ UNCHANGED <<isr, halted, lock, alive, pc, on, timed, job, wasted, event_info, want>>
      /\ lock = NoThread
  BY <1>1 DEF SendEffect
<1>3. WaitInv({"done"}) /\ WaitTypeOK({"done"}) /\ BitsOK /\ IsrInv /\ ReceiverInv
  BY DEF EventInv, WaitInv
<1>4. q \in Seq(Threads) /\ Unique(q)
  BY <1>3, EventConstants DEF WaitTypeOK, WaitInv, SleepersQueued
<1>5. /\ Walk(q, R) \in Seq(Threads) /\ Unique(Walk(q, R))
      /\ Queued(Walk(q, R)) = Queued(q) \ R
  BY <1>4, WalkProperties
<1>6. susp'["suspend_thread"] = Walk(q, R)
  BY <1>2, <1>3, EventConstants DEF WaitTypeOK
<1>7. Queued(q) = {u \in Threads : stat[u] = "SUSPEND"}
  BY <1>3, SleepersListed
<1> HIDE DEF q, R
<1>8. WaitInv({"done"})'
  <2>1. susp' \in [Lists -> Seq(Threads)]
    BY <1>2, <1>3, <1>5 DEF WaitTypeOK
  <2>2. ThreadTypeOK'
    <3>1. tmr' \in [Threads -> BOOLEAN]
      BY <1>2
    <3>2. ttmr' \in [Threads -> BOOLEAN]
      BY <1>2
    <3>3. stat' \in [Threads -> {"READY", "SUSPEND"}]
      BY <1>2, <1>3 DEF WaitTypeOK, ThreadTypeOK
    <3>4. error' \in [Threads -> Errors]
      BY <1>2, <1>3 DEF WaitTypeOK, ThreadTypeOK, Errors
    <3> QED
      BY <1>2, <1>3, <3>1, <3>2, <3>3, <3>4 DEF WaitTypeOK, ThreadTypeOK
  <2>3. WaitTypeOK({"done"})'
    BY <1>2, <1>3, <2>1, <2>2 DEF WaitTypeOK
  <2>4. SleepInv' /\ HolderInv'
    BY <1>2, <1>3 DEF WaitInv, SleepInv, HolderInv
  <2>5. SleepersQueued'
    <3>1. Queued(susp'["suspend_thread"]) = {u \in Threads : stat'[u] = "SUSPEND"}
      BY <1>2, <1>5, <1>6, <1>7 DEF R
    <3>2. \A u \in Threads : stat'[u] = "SUSPEND" => on'[u] = "suspend_thread"
      BY <2>4, EventConstants DEF SleepInv
    <3> QED
      BY <1>5, <1>6, <3>1, <3>2, EventConstants DEF SleepersQueued
  <2> QED
    BY <2>3, <2>4, <2>5 DEF WaitInv
<1>9. ASSUME NEW u \in hit
      PROVE  /\ u \in Threads /\ stat[u] = "SUSPEND"
             /\ event_set'[u] = Served(u, all) /\ event_set'[u] \subseteq Bits
             /\ event_set'[u] \subseteq want'[u]
             /\ event_info'[u].and => event_set'[u] = want'[u]
             /\ Met(want'[u], event_info'[u], event_set'[u])
  <2>1. u \in Threads /\ stat[u] = "SUSPEND" /\ Met(event_set[u], event_info[u], all)
    BY <1>2
  <2>2. event_set'[u] = Served(u, all) /\ want'[u] = want[u] /\ event_info'[u] = event_info[u]
    BY <1>2, <2>1
  <2>3. /\ Served(u, all) \subseteq want[u] /\ Served(u, all) \subseteq Bits
        /\ event_info[u].and => Served(u, all) = want[u]
        /\ Met(want[u], event_info[u], Served(u, all))
    BY <2>1, ServedContent
  <2> QED
    BY <2>1, <2>2, <2>3
<1>10. \A u \in Threads : u \notin hit => event_set'[u] = event_set[u] /\ error'[u] = error[u]
  BY <1>2
<1>11. BitsOK'
  <2>1. set' \subseteq Bits
    BY <1>2
  <2>2. event_set' \in [Threads -> SUBSET Bits]
    <3>1. ASSUME NEW u \in Threads PROVE event_set'[u] \in SUBSET Bits
      <4>1. CASE u \in hit
        BY <1>9, <4>1
      <4>2. CASE u \notin hit
        BY <1>3, <1>10, <4>2 DEF BitsOK
      <4> QED
        BY <4>1, <4>2
    <3>2. event_set' = [u \in Threads |-> event_set'[u]]
      BY <1>2
    <3> QED
      BY <3>1, <3>2
  <2> QED
    BY <1>2, <1>3, <2>1, <2>2 DEF BitsOK
<1>12. IsrInv'
  BY <1>2, <1>3 DEF IsrInv
<1>13. ReceiverInv'
  <2> SUFFICES ASSUME NEW u \in Threads
               PROVE  /\ pc'[u] \in {"arm", "waiting"} => Asking(u)'
                      /\ pc'[u] \in {"arm", "waiting"} /\ error'[u] = "EOK" => Content(u)'
                      /\ pc'[u] = "done" => Content(u)'
    BY DEF ReceiverInv
  <2>1. CASE u \in hit
    <3>1. Asking(u)'
      BY <1>9, <2>1 DEF Asking
    <3>2. Content(u)'
      BY <1>9, <2>1 DEF Content, Met
    <3> QED
      BY <3>1, <3>2
  <2>2. CASE u \notin hit
    <3>1. Asking(u)' = Asking(u) /\ Content(u)' = Content(u)
      BY <1>2, <1>10, <2>2 DEF Asking, Content, Met
    <3> QED
      BY <1>2, <1>3, <1>10, <2>2, <3>1 DEF ReceiverInv
  <2> QED
    BY <2>1, <2>2
<1>14. NoSatisfiedSleeper'
  <2> SUFFICES ASSUME NEW u \in Queued(susp'["suspend_thread"]), u # isr'
               PROVE  ~Met(event_set'[u], event_info'[u], set')
    BY DEF NoSatisfiedSleeper
  <2>1. u \in Threads /\ stat[u] = "SUSPEND" /\ u \notin R /\ u # isr
    BY <1>2, <1>5, <1>6, <1>7
  <2>2. u \notin hit
    BY <1>2, <2>1, HitReports DEF R
  <2>3. ~Met(event_set[u], event_info[u], all)
    BY <1>2, <2>1, <2>2
  <2>4. set' \subseteq all
    BY <1>2
  <2> QED
    BY <1>2, <1>10, <2>1, <2>2, <2>3, <2>4, MetGrows
<1> QED
  BY <1>8, <1>11, <1>12, <1>13, <1>14 DEF EventInv

(* Every step.                                                             *)
LEMMA EventStepKeeps == EventInv /\ [EventNext]_eventVars => EventInv'
<1> SUFFICES ASSUME EventInv, [EventNext]_eventVars PROVE EventInv'
  OBVIOUS
<1>1. ASSUME NEW t \in Threads, Call(t) PROVE EventInv'
  <2>1. ASSUME NEW bits \in BitSets, Send(t, bits) PROVE EventInv'
    BY <2>1, SendKeeps
  <2>2. ASSUME NEW r \in Requests, Recv(t, r[1], r[2]) PROVE EventInv'
    BY <2>2, RecvKeeps
  <2>3. ASSUME NEW r \in Requests, NEW finite \in Timed[t], RecvSleep(t, r[1], r[2], finite)
        PROVE  EventInv'
    <3>1. finite \in BOOLEAN
      BY IpcTimedAssumption
    <3> QED
      BY <2>3, <3>1, RecvSleepKeeps
  <2>4. ASSUME NEW why \in {"reset", "detach"}, Close(t, why) PROVE EventInv'
    BY <2>4, CloseKeeps
  <2> QED
    BY <1>1, <2>1, <2>2, <2>3, <2>4 DEF Call
<1>2. ASSUME NEW t \in Threads, Continue(t) PROVE EventInv'
  <2>1. CASE Arm(t) /\ UNCHANGED bitVars
    BY <2>1, EventWaitStepKeeps DEF WaitStep
  <2>2. CASE RecvReturn(t) \/ RecvError(t)
    BY <2>2, RecvEndKeeps
  <2>3. CASE CloseStep(t) \/ CloseDone(t)
    BY <2>3, CloseKeeps
  <2> QED
    BY <1>2, <2>1, <2>2, <2>3 DEF Continue
<1>3. ASSUME NEW t \in Threads, Expire(t), UNCHANGED bitVars PROVE EventInv'
  BY <1>3, EventWaitStepKeeps DEF WaitStep
<1>4. ASSUME Timeout \/ TimeoutAssertFails, UNCHANGED bitVars PROVE EventInv'
  BY <1>4, EventWaitStepKeeps DEF WaitStep
<1>5. ASSUME NEW t \in Threads, ThreadResume(t), UNCHANGED bitVars PROVE EventInv'
  BY <1>5, EventResumeKeeps
<1>6. ASSUME UNCHANGED eventVars PROVE EventInv'
  <2>1. UNCHANGED <<threadVars, waitVars, bitVars>>
    BY <1>6 DEF eventVars, ipcVars
  <2> QED
    BY <2>1 DEF EventInv, WaitInv, WaitTypeOK, ThreadTypeOK, SleepInv, HolderInv, SleepersQueued,
       BitsOK, IsrInv, ReceiverInv, Asking, Content, Met, NoSatisfiedSleeper, threadVars, waitVars,
       bitVars
<1> QED
  BY <1>1, <1>2, <1>3, <1>4, <1>5, <1>6 DEF EventNext

(* The invariant holds in every reachable state.                           *)
THEOREM EventInvariance == EventSpec => []EventInv
BY EventInitHolds, EventStepKeeps, PTL DEF EventSpec

(* Nobody sleeps on an event although the set meets his condition          *)
(* (rt_event_send, _rt_event_recv), for every number of threads, all       *)
(* bits and all requests.                                                  *)
THEOREM NobodySleepsSatisfied == EventSpec => []NoSatisfiedSleeper
<1>1. EventInv => NoSatisfiedSleeper
  BY DEF EventInv
<1> QED
  BY <1>1, EventInvariance, PTL

(* A receiver reports bits it asked for, all of them with AND              *)
(* (rt_event_send, _rt_event_recv).                                        *)
THEOREM ReportsAreAsked == EventSpec => []ReceivedAsAsked
<1>1. EventInv => ReceivedAsAsked
  BY DEF EventInv, ReceiverInv, Content, ReceivedAsAsked, Reporting, Woken
<1> QED
  BY <1>1, EventInvariance, PTL

(* A bit that leaves the set, or does not enter it, is given away.         *)
LEMMA SendKeepsBits ==
  ASSUME EventInv, NEW t \in Threads, NEW bits \in BitSets, Send(t, bits)
  PROVE  \A b \in set \cup bits : b \in set' \/ Given(b)'
<1> SUFFICES ASSUME NEW b \in set \cup bits, b \notin set' PROVE Given(b)'
  OBVIOUS
<1>1. PICK all, hit : SendEffect(all, hit) /\ all = set \cup bits
  BY SendFacts
<1>2. /\ hit = {u \in Threads : stat[u] = "SUSPEND" /\ Met(event_set[u], event_info[u], all)}
      /\ event_set' = [u \in Threads |-> IF u \in hit THEN Served(u, all) ELSE event_set[u]]
      /\ set' = all \ Cleared(hit, all)
      /\ stat' = [u \in Threads |-> IF u \in hit /\ ReadyOK(u) THEN "READY" ELSE stat[u]]
      /\ error' = [u \in Threads |-> IF u \in hit THEN "EOK" ELSE error[u]]
      /\ UNCHANGED <<isr, pc, on>>
      /\ lock = NoThread
  BY <1>1 DEF SendEffect
<1>3. PICK u \in hit : b \in Served(u, all)
  BY <1>1, <1>2 DEF Cleared
<1>4. u \in Threads /\ stat[u] = "SUSPEND" /\ b \in event_set'[u] /\ error'[u] = "EOK"
  BY <1>2, <1>3
<1>5. pc'[u] = "waiting" /\ on'[u] = "suspend_thread" /\ (ReadyOK(u) \/ u = isr')
  BY <1>2, <1>4, HitReports
<1>6. ReadyOK(u) => u \in Woken("suspend_thread")'
  BY <1>2, <1>3, <1>4, <1>5 DEF Woken
<1> QED
  BY <1>4, <1>5, <1>6, EventConstants DEF Given, Reporting

LEMMA RecvKeepsBits ==
  ASSUME EventInv, NEW t \in Threads, NEW r \in Requests, Recv(t, r[1], r[2]),
         NEW b \in set, b \notin set'
  PROVE  Given(b)'
<1>1. /\ event_set' = [event_set EXCEPT ![t] = set \cap r[1]]
      /\ pc' = [pc EXCEPT ![t] = "done"]
      /\ b \in r[1]
  BY DEF Recv, Goto
<1>2. event_set'[t] = set \cap r[1] /\ pc'[t] = "done"
  BY <1>1 DEF EventInv, BitsOK, WaitInv, WaitTypeOK
<1> QED
  BY <1>1, <1>2, EventConstants DEF Given, Reporting

(* A bit that was sent stays in the set until a receiver is given it, or a *)
(* reset drops it (rt_event_send, _rt_event_recv, rt_event_control).       *)
THEOREM BitsAreKept == EventSpec => NoBitLost
<1>1. EventInv /\ [EventNext]_eventVars => KeepsBits
  <2> SUFFICES ASSUME EventInv, [EventNext]_eventVars PROVE KeepsBits
    OBVIOUS
  <2>1. ASSUME NEW t \in Threads, NEW bits \in BitSets, Send(t, bits)
        PROVE  \A b \in set \cup bits : b \in set' \/ Given(b)'
    BY <2>1, SendKeepsBits
  <2>2. ASSUME NEW b \in set, b \notin set'
        PROVE  job # "none" \/ Given(b)'
    <3>1. ASSUME NEW t \in Threads, NEW bits \in BitSets, Send(t, bits)
          PROVE  Given(b)'
      BY <2>1, <2>2, <3>1
    <3>2. ASSUME NEW t \in Threads, NEW r \in Requests, Recv(t, r[1], r[2])
          PROVE  Given(b)'
      BY <2>2, <3>2, RecvKeepsBits
    <3>3. ASSUME NEW t \in Threads, CloseDone(t) PROVE job # "none"
      BY <2>2, <3>3 DEF CloseDone
    <3>4. ASSUME UNCHANGED set PROVE FALSE
      BY <2>2, <3>4
    <3>5. ASSUME NEW t \in Threads, Call(t) PROVE Given(b)'
      BY <3>1, <3>2, <3>4, <3>5 DEF Call, RecvSleep, Close, bitVars
    <3>6. ASSUME NEW t \in Threads, Continue(t) PROVE job # "none"
      BY <3>3, <3>4, <3>6 DEF Continue, RecvReturn, RecvError, Forget, CloseStep, bitVars
    <3> QED
      BY <3>4, <3>5, <3>6 DEF EventNext, eventVars, bitVars
  <2> QED
    BY <2>1, <2>2 DEF KeepsBits
<1> QED
  BY <1>1, EventInvariance, PTL DEF EventSpec, NoBitLost

-------------------------------------------------------------------------------
(* The items S with their links, marks and the lower bound of the holes:   *)
(* an item ends where the next one begins, and the way back is the way.    *)
Linked(S, next, prev, inuse, lfree) ==
  /\ S \subseteq 0..HeapEnd /\ 0 \in S /\ HeapEnd \in S
  /\ next \in [S -> S] /\ prev \in [S -> 0..HeapEnd] /\ inuse \in [S -> BOOLEAN]
  /\ inuse[HeapEnd] /\ next[HeapEnd] = HeapEnd /\ prev[0] = 0
  /\ \A i \in S : i # HeapEnd => i + SIZEOF_STRUCT_MEM <= next[i]
  /\ \A i, j \in S : i # HeapEnd => j <= i \/ next[i] <= j
  /\ \A i \in S : i # HeapEnd /\ next[i] # HeapEnd => prev[next[i]] = i
  /\ \A j \in S : j # 0 /\ j # HeapEnd => prev[j] \in S /\ prev[j] # HeapEnd /\ next[prev[j]] = j
  /\ lfree \in S /\ \A i \in S : ~inuse[i] => lfree <= i

LEMMA HeapConstants ==
  /\ HeapEnd \in Nat /\ MemSize \in Nat
  /\ SIZEOF_STRUCT_MEM \in Nat /\ SIZEOF_STRUCT_MEM > 0
  /\ HeapEnd = MemSize + SIZEOF_STRUCT_MEM
  /\ MIN_SIZE \in Nat
BY AlignAssumption, MemSizeAssumption DEF HeapEnd

(* Plugging a hole: b, the item behind a, becomes part of a.               *)
LEMMA JoinLinked ==
  ASSUME NEW S, NEW next, NEW prev, NEW inuse, NEW lfree, Linked(S, next, prev, inuse, lfree),
         NEW a \in S, NEW b, b = next[a], ~inuse[a], ~inuse[b]
  PROVE  /\ Linked(S \ {b}, Drop([next EXCEPT ![a] = next[b]], b),
                   Drop([prev EXCEPT ![next[b]] = a], b), Drop(inuse, b),
                   IF lfree = b THEN a ELSE lfree)
         /\ a # b /\ a # HeapEnd /\ b # HeapEnd /\ b \in S
<1> DEFINE c == next[b]
           S2 == S \ {b}
           next2 == Drop([next EXCEPT ![a] = c], b)
           prev2 == Drop([prev EXCEPT ![c] = a], b)
           inuse2 == Drop(inuse, b)
           lfree2 == IF lfree = b THEN a ELSE lfree
<1>1. /\ S \subseteq 0..HeapEnd /\ 0 \in S /\ HeapEnd \in S
      /\ next \in [S -> S] /\ prev \in [S -> 0..HeapEnd] /\ inuse \in [S -> BOOLEAN]
      /\ inuse[HeapEnd] /\ next[HeapEnd] = HeapEnd /\ prev[0] = 0
  BY DEF Linked
<1>2. /\ \A i \in S : i # HeapEnd => i + SIZEOF_STRUCT_MEM <= next[i]
      /\ \A i, j \in S : i # HeapEnd => j <= i \/ next[i] <= j
  BY DEF Linked
<1>3. /\ \A i \in S : i # HeapEnd /\ next[i] # HeapEnd => prev[next[i]] = i
      /\ \A j \in S : j # 0 /\ j # HeapEnd => prev[j] \in S /\ prev[j] # HeapEnd /\ next[prev[j]] = j
  BY DEF Linked
<1>4. lfree \in S /\ \A i \in S : ~inuse[i] => lfree <= i
  BY DEF Linked
<1>5. S \subseteq Nat /\ SIZEOF_STRUCT_MEM \in Nat /\ SIZEOF_STRUCT_MEM > 0
  BY <1>1, HeapConstants
<1>6. b \in S /\ c \in S /\ a # HeapEnd /\ b # HeapEnd
  BY <1>1
<1>7. a < b /\ b < c /\ a + SIZEOF_STRUCT_MEM <= c
  <2>1. a \in Nat /\ b \in Nat /\ c \in Nat
    BY <1>5, <1>6
  <2>2. a + SIZEOF_STRUCT_MEM <= b
    BY <1>2, <1>6
  <2>3. b + SIZEOF_STRUCT_MEM <= c
    BY <1>2, <1>6
  <2> HIDE DEF c
  <2> QED
    BY <1>5, <2>1, <2>2, <2>3
<1>8. \A i \in S2 : next2[i] = IF i = a THEN c ELSE next[i]
  BY <1>1 DEF Drop
<1>9. \A i \in S2 : prev2[i] = IF i = c THEN a ELSE prev[i]
  BY <1>1 DEF Drop
<1>10. \A i \in S2 : inuse2[i] = inuse[i]
  BY <1>1 DEF Drop
<1>11. \A i \in S2 : i # a => next[i] # b
  BY <1>1, <1>3, <1>6
<1>12. a \in S2 /\ c \in S2 /\ 0 \in S2 /\ HeapEnd \in S2
  BY <1>1, <1>5, <1>6, <1>7
<1>13. next2 \in [S2 -> S2]
  <2>1. \A i \in S2 : next2[i] \in S2
    BY <1>1, <1>8, <1>11, <1>12
  <2>2. DOMAIN next2 = S2 /\ next2 = [i \in S2 |-> next2[i]]
    BY <1>1 DEF Drop
  <2> HIDE DEF next2, S2
  <2> QED
    BY <2>1, <2>2
<1>14. prev2 \in [S2 -> 0..HeapEnd]
  <2>1. \A i \in S2 : prev2[i] \in 0..HeapEnd
    BY <1>1, <1>9
  <2>2. DOMAIN prev2 = S2 /\ prev2 = [i \in S2 |-> prev2[i]]
    BY <1>1 DEF Drop
  <2> HIDE DEF prev2, S2
  <2> QED
    BY <2>1, <2>2
<1>15. inuse2 \in [S2 -> BOOLEAN]
  <2>1. \A i \in S2 : inuse2[i] \in BOOLEAN
    BY <1>1, <1>10
  <2>2. DOMAIN inuse2 = S2 /\ inuse2 = [i \in S2 |-> inuse2[i]]
    BY <1>1 DEF Drop
  <2> HIDE DEF inuse2, S2
  <2> QED
    BY <2>1, <2>2
<1> HIDE DEF next2, prev2, inuse2
<1>16. inuse2[HeapEnd] /\ next2[HeapEnd] = HeapEnd /\ prev2[0] = 0
  <2>1. c # 0
    BY <1>5, <1>6, <1>7
  <2> QED
    BY <1>1, <1>6, <1>8, <1>9, <1>10, <1>12, <2>1
<1>17. \A i \in S2 : i # HeapEnd => i + SIZEOF_STRUCT_MEM <= next2[i]
  BY <1>2, <1>7, <1>8
<1>18. \A i, j \in S2 : i # HeapEnd => j <= i \/ next2[i] <= j
  <2>1. ASSUME NEW j \in S2 PROVE j <= a \/ c <= j
    <3>1. j <= a \/ b <= j
      BY <1>2, <1>6
    <3>2. j <= b \/ c <= j
      BY <1>2, <1>6
    <3> QED
      BY <1>5, <1>6, <3>1, <3>2
  <2> QED
    BY <1>2, <1>8, <2>1
<1>19. \A i \in S2 : i # HeapEnd /\ next2[i] # HeapEnd => prev2[next2[i]] = i
  <2> SUFFICES ASSUME NEW i \in S2, i # HeapEnd, next2[i] # HeapEnd PROVE prev2[next2[i]] = i
    OBVIOUS
  <2>1. CASE i = a
    BY <1>8, <1>9, <1>12, <2>1
  <2>2. CASE i # a
    <3>1. next2[i] = next[i] /\ next[i] \in S2 /\ prev[next[i]] = i
      BY <1>3, <1>8, <1>13, <2>2
    <3>2. next[i] # c
      BY <1>3, <1>6, <3>1
    <3> QED
      BY <1>9, <3>1, <3>2
  <2> QED
    BY <2>1, <2>2
<1>20. \A j \in S2 : j # 0 /\ j # HeapEnd =>
         prev2[j] \in S2 /\ prev2[j] # HeapEnd /\ next2[prev2[j]] = j
  <2> SUFFICES ASSUME NEW j \in S2, j # 0, j # HeapEnd
               PROVE  prev2[j] \in S2 /\ prev2[j] # HeapEnd /\ next2[prev2[j]] = j
    OBVIOUS
  <2>1. CASE j = c
    BY <1>6, <1>8, <1>9, <1>12, <2>1
  <2>2. CASE j # c
    <3>1. prev2[j] = prev[j] /\ prev[j] \in S /\ prev[j] # HeapEnd /\ next[prev[j]] = j
      BY <1>3, <1>9, <2>2
    <3>2. prev[j] # b /\ prev[j] # a
      BY <2>2, <3>1
    <3> QED
      BY <1>8, <3>1, <3>2
  <2> QED
    BY <2>1, <2>2
<1>21. lfree2 \in S2 /\ \A i \in S2 : ~inuse2[i] => lfree2 <= i
  <2>1. CASE lfree = b
    <3>1. a < lfree
      BY <1>7, <2>1
    <3>2. FALSE
      BY <1>4, <1>5, <1>6, <3>1
    <3> QED
      BY <3>2
  <2>2. CASE lfree # b
    BY <1>4, <1>10, <2>2
  <2> QED
    BY <2>1, <2>2
<1>22. S2 \subseteq 0..HeapEnd
  BY <1>1
<1>23. Linked(S2, next2, prev2, inuse2, lfree2)
  <2> HIDE DEF S2, lfree2
  <2> QED
    BY <1>12, <1>13, <1>14, <1>15, <1>16, <1>17, <1>18, <1>19, <1>20, <1>21, <1>22 DEF Linked
<1> QED
  BY <1>5, <1>6, <1>7, <1>23 DEF next2, prev2, inuse2

(* A new header q inside item p.                                           *)
Back(prev, n, q) == IF n = HeapEnd THEN prev ELSE [prev EXCEPT ![n] = q]

BelowHoles(S, inuse, low) == \A i \in S : ~inuse[i] => low <= i

LEMMA SplitLinked ==
  ASSUME NEW S, NEW next, NEW prev, NEW inuse, NEW lfree, Linked(S, next, prev, inuse, lfree),
         NEW p \in S, p # HeapEnd, NEW q \in Int, NEW n, n = next[p],
         p + SIZEOF_STRUCT_MEM <= q, q + SIZEOF_STRUCT_MEM <= n,
         NEW low \in S \cup {q}, low <= q, BelowHoles(S, inuse, low)
  PROVE  /\ Linked(S \cup {q}, Put([next EXCEPT ![p] = q], q, n), Put(Back(prev, n, q), q, p),
                   Put(inuse, q, FALSE), low)
         /\ q \notin S /\ p < q
<1> DEFINE S2 == S \cup {q}
           next2 == Put([next EXCEPT ![p] = q], q, n)
           prev2 == Put(Back(prev, n, q), q, p)
           inuse2 == Put(inuse, q, FALSE)
<1>1. /\ S \subseteq 0..HeapEnd /\ 0 \in S /\ HeapEnd \in S
      /\ next \in [S -> S] /\ prev \in [S -> 0..HeapEnd] /\ inuse \in [S -> BOOLEAN]
      /\ inuse[HeapEnd] /\ next[HeapEnd] = HeapEnd /\ prev[0] = 0
  BY DEF Linked
<1>2. /\ \A i \in S : i # HeapEnd => i + SIZEOF_STRUCT_MEM <= next[i]
      /\ \A i, j \in S : i # HeapEnd => j <= i \/ next[i] <= j
  BY DEF Linked
<1>3. /\ \A i \in S : i # HeapEnd /\ next[i] # HeapEnd => prev[next[i]] = i
      /\ \A j \in S : j # 0 /\ j # HeapEnd => prev[j] \in S /\ prev[j] # HeapEnd /\ next[prev[j]] = j
  BY DEF Linked
<1>4. S \subseteq Nat /\ SIZEOF_STRUCT_MEM \in Nat /\ SIZEOF_STRUCT_MEM > 0 /\ HeapEnd \in Nat
  BY <1>1, HeapConstants
<1>5. p \in Nat /\ n \in Nat /\ n \in S
  BY <1>1, <1>4
<1>6. p < q /\ q < n /\ q \in 0..HeapEnd
  <2>1. n <= HeapEnd
    BY <1>1, <1>4, <1>5
  <2> QED
    BY <1>4, <1>5, <2>1
<1>7. q \notin S /\ q # HeapEnd /\ q # 0
  <2>1. \A j \in S : j <= p \/ n <= j
    BY <1>2
  <2> QED
    BY <1>1, <1>4, <1>5, <1>6, <2>1
<1>8. \A i \in S : next2[i] = IF i = p THEN q ELSE next[i]
  BY <1>1, <1>7 DEF Put
<1>9. \A i \in S : prev2[i] = IF i = n /\ n # HeapEnd THEN q ELSE prev[i]
  BY <1>1, <1>7 DEF Put, Back
<1>10. \A i \in S : inuse2[i] = inuse[i]
  BY <1>1, <1>7 DEF Put
<1>11. next2[q] = n /\ prev2[q] = p /\ inuse2[q] = FALSE
  BY DEF Put
<1>12. next2 \in [S2 -> S2]
  <2>1. \A i \in S2 : next2[i] \in S2
    BY <1>1, <1>5, <1>8, <1>11
  <2>2. DOMAIN next2 = S2 /\ next2 = [i \in S2 |-> next2[i]]
    BY <1>1 DEF Put
  <2> HIDE DEF next2, S2
  <2> QED
    BY <2>1, <2>2
<1>13. prev2 \in [S2 -> 0..HeapEnd]
  <2>1. p \in 0..HeapEnd
    BY <1>1
  <2>2. \A i \in S2 : prev2[i] \in 0..HeapEnd
    BY <1>1, <1>6, <1>9, <1>11, <2>1
  <2>3. DOMAIN prev2 = S2 /\ prev2 = [i \in S2 |-> prev2[i]]
    BY <1>1 DEF Put, Back
  <2> HIDE DEF prev2, S2
  <2> QED
    BY <2>2, <2>3
<1>14. inuse2 \in [S2 -> BOOLEAN]
  <2>1. \A i \in S2 : inuse2[i] \in BOOLEAN
    BY <1>1, <1>10, <1>11
  <2>2. DOMAIN inuse2 = S2 /\ inuse2 = [i \in S2 |-> inuse2[i]]
    BY <1>1 DEF Put
  <2> HIDE DEF inuse2, S2
  <2> QED
    BY <2>1, <2>2
<1> HIDE DEF next2, prev2, inuse2
<1>15. inuse2[HeapEnd] /\ next2[HeapEnd] = HeapEnd /\ prev2[0] = 0
  <2>1. n # 0
    BY <1>4, <1>5, <1>6
  <2> QED
    BY <1>1, <1>8, <1>9, <1>10, <2>1
<1>16. \A i \in S2 : i # HeapEnd => i + SIZEOF_STRUCT_MEM <= next2[i]
  BY <1>2, <1>8, <1>11
<1>17. \A i, j \in S2 : i # HeapEnd => j <= i \/ next2[i] <= j
  <2> SUFFICES ASSUME NEW i \in S2, NEW j \in S2, i # HeapEnd PROVE j <= i \/ next2[i] <= j
    OBVIOUS
  <2>1. i \in Int /\ j \in Int
    BY <1>4
  <2>2. CASE i = q
    <3>1. j = q \/ j <= p \/ n <= j
      BY <1>2
    <3> QED
      BY <1>4, <1>5, <1>6, <1>11, <2>1, <2>2, <3>1
  <2>3. CASE i = p
    <3>1. j = q \/ j <= p \/ n <= j
      BY <1>2
    <3> QED
      BY <1>4, <1>5, <1>6, <1>8, <2>1, <2>3, <3>1
  <2>4. CASE i # q /\ i # p
    <3>1. i \in S /\ next2[i] = next[i] /\ next[i] \in S
      BY <1>1, <1>8, <2>4
    <3>2. CASE j # q
      BY <1>2, <3>1, <3>2
    <3>3. CASE j = q
      <4>1. p <= i \/ next[i] <= p
        BY <1>2, <3>1
      <4>2. i <= p \/ n <= i
        BY <1>2, <3>1
      <4>3. next[i] \in Nat
        BY <1>4, <3>1
      <4> QED
        BY <1>4, <1>5, <1>6, <2>1, <2>4, <3>1, <3>3, <4>1, <4>2, <4>3
    <3> QED
      BY <3>2, <3>3
  <2> QED
    BY <2>2, <2>3, <2>4
<1>18. \A i \in S2 : i # HeapEnd /\ next2[i] # HeapEnd => prev2[next2[i]] = i
  <2> SUFFICES ASSUME NEW i \in S2, i # HeapEnd, next2[i] # HeapEnd PROVE prev2[next2[i]] = i
    OBVIOUS
  <2>1. CASE i = q
    BY <1>5, <1>9, <1>11, <2>1
  <2>2. CASE i = p
    BY <1>8, <1>11, <2>2
  <2>3. CASE i # q /\ i # p
    <3>1. i \in S /\ next2[i] = next[i] /\ next[i] \in S /\ prev[next[i]] = i
      BY <1>1, <1>3, <1>8, <2>3
    <3>2. next[i] # n
      BY <1>3, <2>3, <3>1
    <3> QED
      BY <1>9, <3>1, <3>2
  <2> QED
    BY <2>1, <2>2, <2>3
<1>19. \A j \in S2 : j # 0 /\ j # HeapEnd =>
         prev2[j] \in S2 /\ prev2[j] # HeapEnd /\ next2[prev2[j]] = j
  <2> SUFFICES ASSUME NEW j \in S2, j # 0, j # HeapEnd
               PROVE  prev2[j] \in S2 /\ prev2[j] # HeapEnd /\ next2[prev2[j]] = j
    OBVIOUS
  <2>1. CASE j = q
    BY <1>8, <1>11, <2>1
  <2>2. CASE j = n
    BY <1>5, <1>7, <1>9, <1>11, <2>2
  <2>3. CASE j # q /\ j # n
    <3>1. j \in S /\ prev2[j] = prev[j] /\ prev[j] \in S /\ prev[j] # HeapEnd /\ next[prev[j]] = j
      BY <1>3, <1>9, <2>3
    <3>2. prev[j] # p
      BY <2>3, <3>1
    <3> QED
      BY <1>8, <3>1, <3>2
  <2> QED
    BY <2>1, <2>2, <2>3
<1>20. low \in S2 /\ \A i \in S2 : ~inuse2[i] => low <= i
  BY <1>10, <1>11 DEF BelowHoles
<1>21. S2 \subseteq 0..HeapEnd /\ 0 \in S2 /\ HeapEnd \in S2
  BY <1>1, <1>6
<1>22. Linked(S2, next2, prev2, inuse2, low)
  <2> HIDE DEF S2
  <2> QED
    BY <1>12, <1>13, <1>14, <1>15, <1>16, <1>17, <1>18, <1>19, <1>20, <1>21 DEF Linked
<1> QED
  BY <1>6, <1>7, <1>22 DEF next2, prev2, inuse2

(* Marks change, the links stay.                                           *)
LEMMA MarkLinked ==
  ASSUME NEW S, NEW next, NEW prev, NEW inuse, NEW lfree, Linked(S, next, prev, inuse, lfree),
         NEW marks \in [S -> BOOLEAN], marks[HeapEnd], NEW low \in S,
         \A i \in S : ~marks[i] => low <= i
  PROVE  Linked(S, next, prev, marks, low)
BY DEF Linked

-------------------------------------------------------------------------------
(* The operations on a heap.                                               *)

IsHeap(h) == h = [next |-> h.next, prev |-> h.prev, inuse |-> h.inuse,
                  lfree |-> h.lfree, used |-> h.used, max |-> h.max]

HeapOK(h) == /\ IsHeap(h)
             /\ h.used \in Int /\ h.max \in Int
             /\ Linked(Items(h), h.next, h.prev, h.inuse, h.lfree)

(* No hole ends where another begins.                                      *)
NoHolesMeet(h) == \A i \in Holes(h) : h.inuse[h.next[i]]

(* g is h but for its holes.                                               *)
SameBlocks(g, h) == /\ InUse(g) = InUse(h)
                    /\ \A i \in InUse(h) : g.next[i] = h.next[i]
                    /\ g.used = h.used /\ g.max = h.max

(* What Linked says of the items.                                          *)
LEMMA HeapFacts ==
  ASSUME NEW h, HeapOK(h)
  PROVE  /\ Items(h) \subseteq 0..HeapEnd /\ 0 \in Items(h) /\ HeapEnd \in Items(h)
         /\ h.next \in [Items(h) -> Items(h)]
         /\ h.inuse \in [Items(h) -> BOOLEAN] /\ h.prev \in [Items(h) -> 0..HeapEnd]
         /\ h.inuse[HeapEnd]
         /\ \A i \in Items(h) : i \in Nat
         /\ \A i \in Holes(h) : i \in Items(h) /\ i # HeapEnd /\ ~h.inuse[i]
         /\ \A i \in InUse(h) : i \in Items(h) /\ i # HeapEnd /\ h.inuse[i]
         /\ \A i \in Items(h) \ {HeapEnd} : i + SIZEOF_STRUCT_MEM <= h.next[i]
BY HeapConstants DEF HeapOK, Linked, Holes, InUse

LEMMA JoinHeap ==
  ASSUME NEW h, HeapOK(h), NEW a \in Holes(h), NEW b \in Holes(h), b = h.next[a],
         NEW g, g = Join(h, a, b)
  PROVE  /\ HeapOK(g) /\ Items(g) = Items(h) \ {b} /\ Holes(g) = Holes(h) \ {b}
         /\ \A i \in Items(g) : g.next[i] = IF i = a THEN h.next[b] ELSE h.next[i]
         /\ \A i \in Items(g) : g.inuse[i] = h.inuse[i]
         /\ SameBlocks(g, h)
         /\ a # b /\ h.next[b] # b /\ a \in Items(g)
<1>1. /\ g.next = Drop([h.next EXCEPT ![a] = h.next[b]], b)
      /\ g.prev = Drop([h.prev EXCEPT ![h.next[b]] = a], b)
      /\ g.inuse = Drop(h.inuse, b)
      /\ g.lfree = IF h.lfree = b THEN a ELSE h.lfree
      /\ g.used = h.used /\ g.max = h.max
      /\ IsHeap(g)
  BY DEF HeapOK, IsHeap, Join
<1>2. /\ h.next \in [Items(h) -> Items(h)] /\ h.inuse \in [Items(h) -> BOOLEAN]
      /\ a \in Items(h) /\ b \in Items(h) /\ ~h.inuse[a] /\ ~h.inuse[b]
      /\ b # HeapEnd
  BY HeapFacts
<1>3. Items(g) = Items(h) \ {b}
  BY <1>1, <1>2 DEF Items, Drop
<1>4. /\ Linked(Items(g), g.next, g.prev, g.inuse, g.lfree)
      /\ a # b
  <2>1. /\ Linked(Items(h) \ {b}, Drop([h.next EXCEPT ![a] = h.next[b]], b),
                  Drop([h.prev EXCEPT ![h.next[b]] = a], b), Drop(h.inuse, b),
                  IF h.lfree = b THEN a ELSE h.lfree)
        /\ a # b
    BY <1>2, JoinLinked DEF HeapOK
  <2> QED
    BY <1>1, <1>3, <2>1
<1>5. \A i \in Items(g) : g.next[i] = IF i = a THEN h.next[b] ELSE h.next[i]
  BY <1>1, <1>2, <1>3 DEF Drop
<1>6. \A i \in Items(g) : g.inuse[i] = h.inuse[i]
  BY <1>1, <1>2, <1>3 DEF Drop
<1>7. Holes(g) = Holes(h) \ {b}
  BY <1>3, <1>6 DEF Holes
<1>8. SameBlocks(g, h)
  <2>1. InUse(g) = InUse(h)
    BY <1>2, <1>3, <1>6 DEF InUse
  <2>2. \A i \in InUse(h) : i \in Items(g) /\ i # a
    BY <1>2, <1>3 DEF InUse
  <2> QED
    BY <1>1, <1>5, <2>1, <2>2 DEF SameBlocks
<1>9. h.next[b] # b
  <2>1. b + SIZEOF_STRUCT_MEM <= h.next[b] /\ b \in Nat
    BY <1>2, HeapFacts
  <2> QED
    BY <2>1, HeapConstants
<1> QED
  BY <1>1, <1>2, <1>3, <1>4, <1>5, <1>6, <1>7, <1>8, <1>9 DEF HeapOK

(* plug_holes: m is the only hole that may meet others.                    *)
LEMMA PlugForwardHeap ==
  ASSUME NEW h, HeapOK(h), NEW m \in Holes(h),
         \A i \in Holes(h) : i # m /\ h.next[i] # m => h.inuse[h.next[i]],
         NEW g, g = PlugForward(h, m)
  PROVE  /\ HeapOK(g) /\ SameBlocks(g, h) /\ m \in Holes(g)
         /\ \A i \in Holes(g) : g.next[i] # m => g.inuse[g.next[i]]
<1> DEFINE n == h.next[m]
<1>1. n \in Items(h) /\ m \in Items(h) /\ m # HeapEnd /\ m # n
  <2>1. m \in Items(h) /\ m # HeapEnd /\ h.next \in [Items(h) -> Items(h)]
    BY HeapFacts
  <2>2. m + SIZEOF_STRUCT_MEM <= n /\ m \in Nat
    BY <2>1, HeapFacts
  <2> QED
    BY <2>1, <2>2, HeapConstants
<1>2. CASE h.inuse[n]
  <2>1. g = h
    BY <1>2 DEF PlugForward
  <2> QED
    BY <1>2, <2>1 DEF SameBlocks
<1>3. CASE ~h.inuse[n]
  <2>1. n \in Holes(h) /\ n # HeapEnd
    BY <1>1, <1>3, HeapFacts DEF Holes
  <2>2. g = Join(h, m, n)
    BY <1>1, <1>3, <2>1 DEF PlugForward
  <2>3. /\ HeapOK(g) /\ Items(g) = Items(h) \ {n} /\ Holes(g) = Holes(h) \ {n}
        /\ \A i \in Items(g) : g.next[i] = IF i = m THEN h.next[n] ELSE h.next[i]
        /\ \A i \in Items(g) : g.inuse[i] = h.inuse[i]
        /\ SameBlocks(g, h)
        /\ h.next[n] # n
    BY <2>1, <2>2, JoinHeap
  <2>4. h.next[n] # m
    <3>1. m + SIZEOF_STRUCT_MEM <= n /\ n + SIZEOF_STRUCT_MEM <= h.next[n] /\ m \in Nat /\ n \in Nat
      BY <1>1, <2>1, HeapFacts
    <3> QED
      BY <3>1, HeapConstants
  <2>5. h.inuse[h.next[n]]
    BY <1>1, <2>1, <2>4
  <2>6. ASSUME NEW i \in Holes(g), g.next[i] # m PROVE g.inuse[g.next[i]]
    <3>1. i \in Items(g) /\ i \in Holes(h) /\ g.next[i] \in Items(g)
      BY <2>3, HeapFacts
    <3>2. CASE i = m
      BY <2>3, <2>5, <3>1, <3>2
    <3>3. CASE i # m
      BY <2>3, <2>6, <3>1, <3>3
    <3> QED
      BY <3>2, <3>3
  <2> QED
    BY <1>1, <2>3, <2>6
<1> QED
  BY <1>2, <1>3

LEMMA PlugBackwardHeap ==
  ASSUME NEW h, HeapOK(h), NEW m \in Holes(h),
         \A i \in Holes(h) : h.next[i] # m => h.inuse[h.next[i]],
         NEW g, g = PlugBackward(h, m)
  PROVE  HeapOK(g) /\ SameBlocks(g, h) /\ NoHolesMeet(g)
<1> DEFINE p == h.prev[m]
<1>1. m \in Items(h) /\ m # HeapEnd /\ h.inuse[HeapEnd]
  BY HeapFacts
<1>2. \A i \in Holes(h) : h.next[i] = m => p = i /\ p # m
  <2> SUFFICES ASSUME NEW i \in Holes(h), h.next[i] = m PROVE p = i /\ p # m
    OBVIOUS
  <2>1. i \in Items(h) /\ i # HeapEnd
    BY HeapFacts
  <2>2. p = i
    BY <1>1, <2>1 DEF HeapOK, Linked
  <2>3. i + SIZEOF_STRUCT_MEM <= m /\ i \in Nat
    BY <2>1, HeapFacts
  <2> QED
    BY <2>2, <2>3, HeapConstants
<1>3. CASE p # m /\ ~h.inuse[p]
  <2>1. m # 0
    BY <1>3 DEF HeapOK, Linked
  <2>2. p \in Items(h) /\ h.next[p] = m
    BY <1>1, <2>1 DEF HeapOK, Linked
  <2>3. p \in Holes(h)
    BY <1>3, <2>2 DEF Holes
  <2>4. g = Join(h, p, m)
    BY <1>3 DEF PlugBackward
  <2>5. /\ HeapOK(g) /\ Items(g) = Items(h) \ {m} /\ Holes(g) = Holes(h) \ {m}
        /\ \A i \in Items(g) : g.next[i] = IF i = p THEN h.next[m] ELSE h.next[i]
        /\ \A i \in Items(g) : g.inuse[i] = h.inuse[i]
        /\ SameBlocks(g, h)
        /\ h.next[m] # m
    <3> HIDE DEF p
    <3> QED
      BY <2>2, <2>3, <2>4, JoinHeap
  <2>6. ASSUME NEW i \in Holes(g) PROVE g.inuse[g.next[i]]
    <3>1. i \in Items(g) /\ i \in Holes(h) /\ g.next[i] \in Items(g)
      BY <2>5, HeapFacts
    <3>2. CASE i = p
      BY <2>5, <3>1, <3>2
    <3>3. CASE i # p
      BY <1>2, <2>5, <3>1, <3>3
    <3> QED
      BY <3>2, <3>3
  <2> QED
    BY <2>5, <2>6 DEF NoHolesMeet
<1>4. CASE ~(p # m /\ ~h.inuse[p])
  <2>1. g = h
    BY <1>4 DEF PlugBackward
  <2>2. \A i \in Holes(h) : h.next[i] # m
    BY <1>2, <1>4, HeapFacts
  <2> QED
    BY <2>1, <2>2 DEF NoHolesMeet, SameBlocks
<1> QED
  BY <1>3, <1>4

LEMMA PlugHeap ==
  ASSUME NEW h, HeapOK(h), NEW m \in Holes(h),
         \A i \in Holes(h) : i # m /\ h.next[i] # m => h.inuse[h.next[i]],
         NEW g, g = plug_holes(h, m)
  PROVE  HeapOK(g) /\ SameBlocks(g, h) /\ NoHolesMeet(g)
<1>1. PICK f : f = PlugForward(h, m)
  OBVIOUS
<1>2. /\ HeapOK(f) /\ SameBlocks(f, h) /\ m \in Holes(f)
      /\ \A i \in Holes(f) : f.next[i] # m => f.inuse[f.next[i]]
  BY <1>1, PlugForwardHeap
<1>3. g = PlugBackward(f, m)
  BY <1>1 DEF plug_holes
<1>4. HeapOK(g) /\ SameBlocks(g, f) /\ NoHolesMeet(g)
  BY <1>2, <1>3, PlugBackwardHeap
<1>5. SameBlocks(g, h)
  BY <1>2, <1>4 DEF SameBlocks
<1> QED
  BY <1>4, <1>5

(* rt_smem_free.                                                           *)
LEMMA FreeHeap ==
  ASSUME NEW h, HeapOK(h), NoHolesMeet(h), NEW p \in InUse(h), NEW g, g = rt_smem_free(h, p)
  PROVE  /\ HeapOK(g) /\ NoHolesMeet(g)
         /\ InUse(g) = InUse(h) \ {p}
         /\ \A i \in InUse(g) : g.next[i] = h.next[i]
         /\ g.used = h.used - (h.next[p] - p) /\ g.max = h.max
<1> DEFINE f_ == [h EXCEPT !.inuse = [@ EXCEPT ![p] = FALSE],
                           !.lfree = IF p < @ THEN p ELSE @,
                           !.used  = @ - (h.next[p] - p)]
<1>1. PICK f : f = f_
  OBVIOUS
<1>2. /\ f.next = h.next /\ f.prev = h.prev /\ f.inuse = [h.inuse EXCEPT ![p] = FALSE]
      /\ f.lfree = (IF p < h.lfree THEN p ELSE h.lfree)
      /\ f.used = h.used - (h.next[p] - p) /\ f.max = h.max
      /\ IsHeap(f)
  BY <1>1 DEF HeapOK, IsHeap
<1>3. g = plug_holes(f, p)
  BY <1>1 DEF rt_smem_free
<1> HIDE DEF f_
<1>4. /\ p \in Items(h) /\ p # HeapEnd /\ h.inuse[p] /\ h.next[p] \in Items(h)
      /\ p \in Nat /\ h.next[p] \in Nat /\ h.inuse \in [Items(h) -> BOOLEAN]
      /\ h.inuse[HeapEnd] /\ HeapEnd \in Items(h)
  BY HeapFacts
<1>5. Items(f) = Items(h)
  BY <1>2 DEF Items
<1>6. \A i \in Items(h) : f.inuse[i] = (i # p /\ h.inuse[i])
  BY <1>2, <1>4
<1>7. Holes(f) = Holes(h) \cup {p}
  BY <1>4, <1>5, <1>6 DEF Holes
<1>8. HeapOK(f)
  <2>1. f.inuse \in [Items(h) -> BOOLEAN] /\ f.inuse[HeapEnd]
    BY <1>2, <1>4, <1>6
  <2>2. h.lfree \in Items(h) /\ h.lfree \in Nat
    BY HeapFacts DEF HeapOK, Linked
  <2>3. f.lfree \in Items(h)
    BY <1>2, <1>4, <2>2
  <2>4. ASSUME NEW i \in Items(h), ~f.inuse[i] PROVE f.lfree <= i
    <3>1. i = p \/ h.lfree <= i
      BY <1>6, <2>4 DEF HeapOK, Linked
    <3>2. i \in Nat
      BY HeapFacts
    <3> QED
      BY <1>2, <1>4, <2>2, <3>1, <3>2
  <2>5. Linked(Items(h), h.next, h.prev, f.inuse, f.lfree)
    <3>1. Linked(Items(h), h.next, h.prev, h.inuse, h.lfree)
      BY DEF HeapOK
    <3> QED
      BY <2>1, <2>3, <2>4, <3>1, MarkLinked
  <2>6. f.used \in Int /\ f.max \in Int
    BY <1>2, <1>4 DEF HeapOK
  <2> QED
    BY <1>2, <1>5, <2>5, <2>6 DEF HeapOK
<1>9. \A i \in Holes(f) : i # p /\ f.next[i] # p => f.inuse[f.next[i]]
  <2>1. \A i \in Holes(h) : h.inuse[h.next[i]] /\ h.next[i] \in Items(h)
    BY HeapFacts DEF NoHolesMeet
  <2> QED
    BY <1>2, <1>6, <1>7, <2>1
<1>10. HeapOK(g) /\ SameBlocks(g, f) /\ NoHolesMeet(g)
  BY <1>3, <1>7, <1>8, <1>9, PlugHeap
<1>11. InUse(f) = InUse(h) \ {p}
  BY <1>5, <1>6 DEF InUse
<1> QED
  BY <1>2, <1>10, <1>11 DEF SameBlocks

(* Where the search of rt_smem_alloc stops: the lowest of a set.           *)
LEMMA LowestIs ==
  ASSUME NEW S, S \subseteq Nat, S # {}
  PROVE  Lowest(S) \in S /\ \A i \in S : Lowest(S) <= i
BY LeastNat DEF Lowest

(* Item p is split.                                                        *)
LEMMA SplitHeap ==
  ASSUME NEW h, HeapOK(h), NEW p \in Items(h), p # HeapEnd, NEW size \in Nat,
         MEM_SIZE(h, p) >= size + SIZEOF_STRUCT_MEM,
         NEW q, q = p + SIZEOF_STRUCT_MEM + size, NEW g, g = Split(h, p, size)
  PROVE  /\ IsHeap(g) /\ g.used = h.used /\ g.max = h.max /\ g.lfree = h.lfree
         /\ q \notin Items(h) /\ p < q /\ q \in Nat /\ q # HeapEnd
         /\ Items(g) = Items(h) \cup {q}
         /\ \A i \in Items(h) : /\ g.next[i] = IF i = p THEN q ELSE h.next[i]
                                /\ g.inuse[i] = h.inuse[i]
         /\ g.next[q] = h.next[p] /\ ~g.inuse[q]
         /\ \A low \in Items(g) : low <= q /\ BelowHoles(Items(h), h.inuse, low)
              => Linked(Items(g), g.next, g.prev, g.inuse, low)
<1> DEFINE n == h.next[p]
<1>1. /\ g.next = Put([h.next EXCEPT ![p] = q], q, n)
      /\ g.prev = Put(Back(h.prev, n, q), q, p)
      /\ g.inuse = Put(h.inuse, q, FALSE)
      /\ g.used = h.used /\ g.max = h.max /\ g.lfree = h.lfree
      /\ IsHeap(g)
  BY DEF HeapOK, IsHeap, Split, Back
<1>2. /\ p \in Nat /\ n \in Nat /\ n \in Items(h) /\ HeapEnd \in Items(h)
      /\ h.next \in [Items(h) -> Items(h)] /\ h.inuse \in [Items(h) -> BOOLEAN]
  BY HeapFacts
<1>3. q \in Nat /\ p + SIZEOF_STRUCT_MEM <= q /\ q + SIZEOF_STRUCT_MEM <= n
  BY <1>2, HeapConstants DEF MEM_SIZE
<1>4. Linked(Items(h), h.next, h.prev, h.inuse, h.lfree)
  BY DEF HeapOK
<1>5. q \notin Items(h) /\ p < q
  <2>1. ASSUME NEW i \in Items(h) PROVE i <= p \/ n <= i
    BY <1>4 DEF Linked
  <2>2. p < q /\ q < n
    BY <1>2, <1>3, HeapConstants
  <2> QED
    BY <1>2, <1>3, <2>1, <2>2
<1>6. Items(g) = Items(h) \cup {q}
  BY <1>1, <1>2 DEF Items, Put
<1>7. \A i \in Items(h) : g.next[i] = IF i = p THEN q ELSE h.next[i]
  BY <1>1, <1>2, <1>5 DEF Put
<1>8. \A i \in Items(h) : g.inuse[i] = h.inuse[i]
  BY <1>1, <1>2, <1>5 DEF Put
<1>9. g.next[q] = n /\ ~g.inuse[q]
  BY <1>1 DEF Put
<1>10. ASSUME NEW low \in Items(g), low <= q, BelowHoles(Items(h), h.inuse, low)
       PROVE  Linked(Items(g), g.next, g.prev, g.inuse, low)
  <2>1. low \in Items(h) \cup {q} /\ q \in Int
    BY <1>3, <1>6
  <2>2. Linked(Items(h) \cup {q}, Put([h.next EXCEPT ![p] = q], q, n),
               Put(Back(h.prev, n, q), q, p), Put(h.inuse, q, FALSE), low)
    BY <1>3, <1>4, <1>10, <2>1, SplitLinked
  <2> QED
    BY <1>1, <1>6, <2>2
<1> QED
  BY <1>1, <1>2, <1>3, <1>5, <1>6, <1>7, <1>8, <1>9, <1>10

(* RT_ALIGN gives a number; it is not below n unless n wraps.              *)
LEMMA AlignFacts ==
  ASSUME NEW n \in Nat
  PROVE  /\ RT_ALIGN(n) \in Nat
         /\ n + RT_ALIGN_SIZE - 1 < SizeMod => RT_ALIGN(n) >= n
<1> DEFINE m == (n + RT_ALIGN_SIZE - 1) % SizeMod
<1>1. /\ RT_ALIGN_SIZE \in Nat /\ RT_ALIGN_SIZE > 0 /\ SizeMod \in Nat /\ SizeMod > 0
  BY AlignAssumption, MemSizeAssumption
<1>2. m \in Nat
  BY <1>1
<1>3. n + RT_ALIGN_SIZE - 1 < SizeMod => m = n + RT_ALIGN_SIZE - 1
  BY <1>1
<1> HIDE DEF m
<1>4. m % RT_ALIGN_SIZE \in 0..(RT_ALIGN_SIZE - 1)
  BY <1>1, <1>2
<1>5. m - (m % RT_ALIGN_SIZE) >= 0
  <2>1. m % RT_ALIGN_SIZE <= m
    BY <1>1, <1>2
  <2> QED
    BY <1>2, <1>4, <2>1
<1>6. RT_ALIGN(n) = m - (m % RT_ALIGN_SIZE)
  BY DEF RT_ALIGN, m
<1> QED
  BY <1>1, <1>2, <1>3, <1>4, <1>5, <1>6

(* A hole that is long enough is cut to size where that pays.              *)
LEMMA CarveHeap ==
  ASSUME NEW h, HeapOK(h), NoHolesMeet(h), NEW p \in Holes(h), NEW size \in Nat,
         MEM_SIZE(h, p) >= size, NEW g, g = Carve(h, p, size)
  PROVE  /\ HeapOK(g) /\ p \in Holes(g) /\ SameBlocks(g, h)
         /\ MEM_SIZE(g, p) >= size
         /\ \A i \in Holes(g) : i # p => g.inuse[g.next[i]]
<1>1. /\ p \in Items(h) /\ p # HeapEnd /\ ~h.inuse[p] /\ MIN_SIZE_ALIGNED \in Nat
      /\ p \in Nat /\ h.next[p] \in Items(h)
  BY HeapFacts, HeapConstants, AlignFacts DEF MIN_SIZE_ALIGNED
<1>2. CASE ~(MEM_SIZE(h, p) >= size + SIZEOF_STRUCT_MEM + MIN_SIZE_ALIGNED)
  <2>1. g = h
    BY <1>2 DEF Carve
  <2> QED
    BY <2>1 DEF SameBlocks, NoHolesMeet
<1>3. CASE MEM_SIZE(h, p) >= size + SIZEOF_STRUCT_MEM + MIN_SIZE_ALIGNED
  <2>1. PICK q : q = p + SIZEOF_STRUCT_MEM + size
    OBVIOUS
  <2>2. g = Split(h, p, size)
    BY <1>3 DEF Carve
  <2>3. MEM_SIZE(h, p) >= size + SIZEOF_STRUCT_MEM
    <3>1. h.next[p] \in Nat
      BY <1>1, HeapFacts
    <3> QED
      BY <1>1, <1>3, <3>1, HeapConstants DEF MEM_SIZE
  <2>4. /\ IsHeap(g) /\ g.used = h.used /\ g.max = h.max /\ g.lfree = h.lfree
        /\ q \notin Items(h) /\ p < q /\ q \in Nat /\ q # HeapEnd
        /\ Items(g) = Items(h) \cup {q}
        /\ \A i \in Items(h) : /\ g.next[i] = IF i = p THEN q ELSE h.next[i]
                               /\ g.inuse[i] = h.inuse[i]
        /\ g.next[q] = h.next[p] /\ ~g.inuse[q]
        /\ \A low \in Items(g) : low <= q /\ BelowHoles(Items(h), h.inuse, low)
             => Linked(Items(g), g.next, g.prev, g.inuse, low)
    BY <1>1, <2>1, <2>2, <2>3, SplitHeap
  <2>5. h.lfree \in Items(h) /\ h.lfree \in Nat /\ h.lfree <= p /\ BelowHoles(Items(h), h.inuse, h.lfree)
    BY <1>1, HeapFacts DEF HeapOK, Linked, BelowHoles
  <2>6. HeapOK(g)
    <3>1. g.lfree \in Items(g) /\ g.lfree <= q
      BY <1>1, <2>4, <2>5
    <3> QED
      BY <2>4, <2>5, <3>1 DEF HeapOK
  <2>7. Holes(g) = Holes(h) \cup {q}
    BY <2>4 DEF Holes
  <2>8. InUse(g) = InUse(h)
    BY <2>4 DEF InUse
  <2>9. \A i \in InUse(h) : i \in Items(h) /\ i # p
    BY <1>1 DEF InUse
  <2>10. g.next[p] = q
    BY <1>1, <2>4
  <2>11. ASSUME NEW i \in Holes(g), i # p PROVE g.inuse[g.next[i]]
    <3>1. CASE i = q
      BY <1>1, <2>4, <3>1 DEF NoHolesMeet
    <3>2. CASE i # q
      <4>1. i \in Holes(h) /\ i \in Items(h) /\ h.next[i] \in Items(h)
        BY <2>7, <3>2, HeapFacts
      <4> QED
        BY <2>4, <2>11, <4>1 DEF NoHolesMeet
    <3> QED
      BY <3>1, <3>2
  <2>12. MEM_SIZE(g, p) >= size
    BY <1>1, <2>1, <2>10, HeapConstants DEF MEM_SIZE
  <2> QED
    BY <2>4, <2>6, <2>7, <2>8, <2>9, <2>11, <2>12 DEF SameBlocks
<1> QED
  BY <1>2, <1>3

(* Item p is taken into use.                                               *)
LEMMA OccupyHeap ==
  ASSUME NEW h, HeapOK(h), NEW p \in Holes(h), \A i \in Holes(h) : i # p => h.inuse[h.next[i]],
         NEW g, g = Occupy(h, p)
  PROVE  /\ HeapOK(g) /\ NoHolesMeet(g) /\ g.next = h.next
         /\ InUse(g) = InUse(h) \cup {p}
         /\ g.used = h.used + g.next[p] - p
         /\ g.max = h.max \/ g.max = g.used
<1> DEFINE marks == [h.inuse EXCEPT ![p] = TRUE]
           rest == {i \in Items(h) : i >= h.lfree /\ (i = HeapEnd \/ ~marks[i])}
           used == h.used + h.next[p] - p
<1>1. /\ g.next = h.next /\ g.prev = h.prev /\ g.inuse = marks
      /\ g.lfree = (IF h.lfree # p THEN h.lfree ELSE Lowest(rest))
      /\ g.used = used /\ g.max = (IF h.max < used THEN used ELSE h.max)
      /\ IsHeap(g)
  BY DEF HeapOK, IsHeap, Occupy
<1>2. /\ p \in Items(h) /\ p # HeapEnd /\ ~h.inuse[p] /\ h.next[p] \in Nat /\ p \in Nat
      /\ h.inuse \in [Items(h) -> BOOLEAN] /\ h.inuse[HeapEnd] /\ HeapEnd \in Items(h)
      /\ Items(h) \subseteq Nat
      /\ h.next \in [Items(h) -> Items(h)]
  BY HeapFacts
<1>3. marks \in [Items(h) -> BOOLEAN] /\ marks[HeapEnd]
      /\ \A i \in Items(h) : marks[i] = (i = p \/ h.inuse[i])
  BY <1>2
<1>4. h.lfree \in Items(h) /\ h.lfree <= HeapEnd /\ \A i \in Items(h) : ~h.inuse[i] => h.lfree <= i
  BY HeapConstants DEF HeapOK, Linked
<1> HIDE DEF marks
<1>5. rest \subseteq Nat /\ rest # {}
  BY <1>2, <1>4
<1>6. Lowest(rest) \in rest /\ \A i \in rest : Lowest(rest) <= i
  <2> HIDE DEF rest
  <2> QED
    BY <1>5, LowestIs
<1>7. g.lfree \in Items(h)
  BY <1>1, <1>4, <1>6
<1>8. ASSUME NEW i \in Items(h), ~marks[i] PROVE g.lfree <= i
  <2>1. h.lfree <= i
    BY <1>3, <1>4, <1>8
  <2>2. h.lfree = p => Lowest(rest) <= i
    BY <1>2, <1>4, <1>6, <1>8, <2>1
  <2> QED
    BY <1>1, <2>1, <2>2
<1>9. Linked(Items(h), h.next, h.prev, marks, g.lfree)
  <2>1. Linked(Items(h), h.next, h.prev, h.inuse, h.lfree)
    BY DEF HeapOK
  <2> QED
    BY <1>3, <1>7, <1>8, <2>1, MarkLinked
<1>10. Items(g) = Items(h)
  BY <1>1 DEF Items
<1>11. g.used \in Int /\ g.max \in Int
  BY <1>1, <1>2 DEF HeapOK
<1>12. HeapOK(g)
  BY <1>1, <1>9, <1>10, <1>11 DEF HeapOK
<1>13. InUse(g) = InUse(h) \cup {p}
  BY <1>1, <1>2, <1>3, <1>10 DEF InUse
<1>14. ASSUME NEW i \in Holes(g) PROVE g.inuse[g.next[i]]
  <2>1. i \in Items(h) /\ i # p /\ ~h.inuse[i] /\ h.next[i] \in Items(h)
    BY <1>1, <1>2, <1>3, <1>10 DEF Holes
  <2>2. i \in Holes(h)
    BY <2>1 DEF Holes
  <2> QED
    BY <1>1, <1>3, <2>1, <2>2
<1> QED
  BY <1>1, <1>12, <1>13, <1>14 DEF NoHolesMeet

LEMMA AllocSizeIs ==
  ASSUME NEW n \in Nat
  PROVE  AllocSize(n) \in Nat /\ AllocSize(n) >= RT_ALIGN(n)
<1>1. RT_ALIGN(n) \in Nat /\ MIN_SIZE_ALIGNED \in Nat
  BY HeapConstants, AlignFacts DEF MIN_SIZE_ALIGNED
<1> QED
  BY <1>1 DEF AllocSize

(* rt_smem_alloc.                                                          *)
LEMMA AllocHeap ==
  ASSUME NEW h, HeapOK(h), NoHolesMeet(h), NEW n \in Nat, CanAlloc(h, n),
         NEW p, p = AllocItem(h, n), NEW g, g = rt_smem_alloc(h, n)
  PROVE  /\ HeapOK(g) /\ NoHolesMeet(g)
         /\ p \in Holes(h) /\ InUse(g) = InUse(h) \cup {p}
         /\ \A i \in InUse(h) : g.next[i] = h.next[i]
         /\ MEM_SIZE(g, p) >= AllocSize(n)
         /\ g.used = h.used + g.next[p] - p
         /\ g.max = h.max \/ g.max = g.used
<1>1. PICK size : size = AllocSize(n)
  OBVIOUS
<1>2. size \in Nat
  BY <1>1, AllocSizeIs
<1>3. p = Lowest(Candidates(h, size)) /\ Candidates(h, size) # {}
  BY <1>1 DEF CanAlloc, AllocItem
<1>4. Candidates(h, size) \subseteq Holes(h) /\ \A i \in Candidates(h, size) : MEM_SIZE(h, i) >= size
  BY DEF Candidates
<1>5. Candidates(h, size) \subseteq Nat
  BY <1>4, HeapFacts
<1>6. p \in Candidates(h, size)
  BY <1>3, <1>5, LowestIs
<1>7. p \in Holes(h) /\ MEM_SIZE(h, p) >= size
  BY <1>4, <1>6
<1>8. PICK f : f = Carve(h, p, size)
  OBVIOUS
<1>9. /\ HeapOK(f) /\ p \in Holes(f) /\ SameBlocks(f, h)
      /\ MEM_SIZE(f, p) >= size
      /\ \A i \in Holes(f) : i # p => f.inuse[f.next[i]]
  BY <1>2, <1>7, <1>8, CarveHeap
<1>10. g = Occupy(f, p)
  BY <1>1, <1>8 DEF rt_smem_alloc
<1>11. /\ HeapOK(g) /\ NoHolesMeet(g) /\ g.next = f.next
       /\ InUse(g) = InUse(f) \cup {p}
       /\ g.used = f.used + g.next[p] - p
       /\ g.max = f.max \/ g.max = g.used
  BY <1>9, <1>10, OccupyHeap
<1>12. MEM_SIZE(g, p) >= size
  BY <1>9, <1>11 DEF MEM_SIZE
<1> QED
  BY <1>1, <1>7, <1>9, <1>11, <1>12 DEF SameBlocks

(* rt_smem_realloc, where it cuts the block down.                          *)
LEMMA CutHeap ==
  ASSUME NEW h, HeapOK(h), NoHolesMeet(h), NEW p \in InUse(h), NEW size \in Nat,
         Shrinks(h, p, size), NEW g, g = Cut(h, p, size)
  PROVE  /\ HeapOK(g) /\ NoHolesMeet(g) /\ InUse(g) = InUse(h)
         /\ MEM_SIZE(g, p) = size /\ MEM_SIZE(h, p) > size
         /\ \A i \in InUse(h) : i # p => g.next[i] = h.next[i]
         /\ g.used = h.used - (h.next[p] - g.next[p]) /\ g.max = h.max
<1>1. PICK q : q = p + SIZEOF_STRUCT_MEM + size
  OBVIOUS
<1>2. PICK s : s = Split(h, p, size)
  OBVIOUS
<1> DEFINE f_ == [s EXCEPT !.used  = @ - (MEM_SIZE(h, p) - size),
                           !.lfree = IF q < @ THEN q ELSE @]
<1>3. PICK f : f = f_
  OBVIOUS
<1>4. g = plug_holes(f, q)
  BY <1>1, <1>2, <1>3 DEF Cut
<1>5. /\ p \in Items(h) /\ p # HeapEnd /\ p \in Nat /\ h.next[p] \in Nat /\ h.next[p] \in Items(h)
      /\ h.inuse[p] /\ Items(h) \subseteq Nat
  BY HeapFacts
<1>6. MEM_SIZE(h, p) \in Int /\ MEM_SIZE(h, p) >= size + SIZEOF_STRUCT_MEM /\ MEM_SIZE(h, p) > size
  BY <1>5, HeapConstants DEF MEM_SIZE, Shrinks
<1>7. /\ IsHeap(s) /\ s.used = h.used /\ s.max = h.max /\ s.lfree = h.lfree
      /\ q \notin Items(h) /\ p < q /\ q \in Nat /\ q # HeapEnd
      /\ Items(s) = Items(h) \cup {q}
      /\ \A i \in Items(h) : /\ s.next[i] = IF i = p THEN q ELSE h.next[i]
                             /\ s.inuse[i] = h.inuse[i]
      /\ s.next[q] = h.next[p] /\ ~s.inuse[q]
      /\ \A low \in Items(s) : low <= q /\ BelowHoles(Items(h), h.inuse, low)
           => Linked(Items(s), s.next, s.prev, s.inuse, low)
  BY <1>1, <1>2, <1>5, <1>6, SplitHeap
<1>8. /\ f.next = s.next /\ f.prev = s.prev /\ f.inuse = s.inuse /\ f.max = s.max
      /\ f.used = s.used - (MEM_SIZE(h, p) - size)
      /\ f.lfree = (IF q < s.lfree THEN q ELSE s.lfree)
      /\ IsHeap(f)
  BY <1>3, <1>7 DEF IsHeap
<1> HIDE DEF f_
<1>9. h.lfree \in Items(h) /\ BelowHoles(Items(h), h.inuse, h.lfree)
  BY DEF HeapOK, Linked, BelowHoles
<1>10. f.lfree \in Items(s) /\ f.lfree <= q /\ BelowHoles(Items(h), h.inuse, f.lfree)
  <2>1. CASE q < h.lfree
    <3>1. f.lfree = q
      BY <1>7, <1>8, <2>1
    <3>2. ASSUME NEW i \in Items(h), ~h.inuse[i] PROVE q <= i
      <4>1. h.lfree <= i
        BY <1>9, <3>2 DEF BelowHoles
      <4> QED
        BY <1>5, <1>7, <1>9, <2>1, <4>1
    <3> QED
      BY <1>7, <3>1, <3>2 DEF BelowHoles
  <2>2. CASE ~(q < h.lfree)
    <3>1. f.lfree = h.lfree /\ h.lfree \in Nat
      BY <1>5, <1>7, <1>8, <1>9, <2>2
    <3> QED
      BY <1>7, <1>9, <2>2, <3>1
  <2> QED
    BY <2>1, <2>2
<1>11. Items(f) = Items(s)
  BY <1>8 DEF Items
<1>12. HeapOK(f)
  <2>1. Linked(Items(f), f.next, f.prev, f.inuse, f.lfree)
    BY <1>7, <1>8, <1>10, <1>11
  <2>2. f.used \in Int /\ f.max \in Int
    BY <1>6, <1>7, <1>8 DEF HeapOK
  <2> QED
    BY <1>8, <2>1, <2>2 DEF HeapOK
<1>13. Holes(f) = Holes(h) \cup {q} /\ InUse(f) = InUse(h)
  BY <1>7, <1>8, <1>11 DEF Holes, InUse
<1>14. ASSUME NEW i \in Holes(f), i # q PROVE f.inuse[f.next[i]]
  <2>1. i \in Holes(h) /\ i \in Items(h) /\ i # p /\ h.next[i] \in Items(h)
    BY <1>5, <1>13, <1>14, HeapFacts
  <2>2. h.inuse[h.next[i]]
    BY <2>1 DEF NoHolesMeet
  <2> QED
    BY <1>7, <1>8, <2>1, <2>2
<1>15. HeapOK(g) /\ SameBlocks(g, f) /\ NoHolesMeet(g)
  <2>1. q \in Holes(f)
    BY <1>13
  <2> QED
    BY <1>4, <1>12, <1>14, <2>1, PlugHeap
<1>16. ASSUME NEW i \in InUse(h) PROVE g.next[i] = IF i = p THEN q ELSE h.next[i]
  <2>1. i \in Items(h)
    BY HeapFacts
  <2> QED
    BY <1>7, <1>8, <1>13, <1>15, <2>1 DEF SameBlocks
<1>17. MEM_SIZE(g, p) = size
  BY <1>1, <1>5, <1>16, HeapConstants DEF MEM_SIZE
<1>18. g.used = h.used - (h.next[p] - g.next[p]) /\ g.max = h.max
  <2>1. g.used = h.used - (MEM_SIZE(h, p) - size) /\ g.max = h.max
    BY <1>7, <1>8, <1>15 DEF SameBlocks
  <2>2. g.next[p] = q
    BY <1>16
  <2>3. h.next[p] - g.next[p] = MEM_SIZE(h, p) - size
    BY <1>1, <1>5, <2>2, HeapConstants DEF MEM_SIZE
  <2> QED
    BY <2>1, <2>3
<1> QED
  BY <1>6, <1>13, <1>15, <1>16, <1>17, <1>18 DEF SameBlocks

-------------------------------------------------------------------------------
(* The statistics: used is the number of bytes in blocks, headers included.*)
Bytes(S, next) == UNION {i..(next[i] - 1) : i \in S}

Counted(h) == /\ h.used = Cardinality(Bytes(InUse(h), h.next))
              /\ h.max \in 0..HeapEnd

LEMMA BytesFit ==
  ASSUME NEW h, HeapOK(h), NEW S, S \subseteq InUse(h)
  PROVE  /\ IsFiniteSet(Bytes(S, h.next))
         /\ Cardinality(Bytes(S, h.next)) \in 0..HeapEnd
<1>1. HeapEnd \in Nat
  BY HeapConstants
<1>2. \A i \in S : i \in Nat /\ h.next[i] \in 0..HeapEnd
  BY HeapFacts
<1>3. Bytes(S, h.next) \subseteq 0..(HeapEnd - 1)
  BY <1>1, <1>2 DEF Bytes
<1>4. IsFiniteSet(0..(HeapEnd - 1)) /\ Cardinality(0..(HeapEnd - 1)) = HeapEnd
  <2>1. 0 \in Int /\ HeapEnd - 1 \in Int
    BY <1>1
  <2>2. /\ IsFiniteSet(0..(HeapEnd - 1))
        /\ Cardinality(0..(HeapEnd - 1)) = IF 0 > HeapEnd - 1 THEN 0 ELSE (HeapEnd - 1) - 0 + 1
    BY <2>1, FS_Interval
  <2> QED
    BY <1>1, <2>2
<1>5. /\ IsFiniteSet(Bytes(S, h.next))
      /\ Cardinality(Bytes(S, h.next)) <= Cardinality(0..(HeapEnd - 1))
  BY <1>3, <1>4, FS_Subset
<1>6. Cardinality(Bytes(S, h.next)) \in Nat
  BY <1>5, FS_CardinalityType
<1> QED
  BY <1>1, <1>4, <1>5, <1>6

(* The bytes of a block are nobody else's.                                 *)
LEMMA BytesOfBlock ==
  ASSUME NEW h, HeapOK(h), NEW p \in InUse(h)
  PROVE  Cardinality(Bytes(InUse(h), h.next))
           = Cardinality(Bytes(InUse(h) \ {p}, h.next)) + h.next[p] - p
<1> DEFINE rest == Bytes(InUse(h) \ {p}, h.next)
           own == p..(h.next[p] - 1)
<1>1. p \in Nat /\ h.next[p] \in Nat /\ p < h.next[p]
  <2>1. p \in Nat /\ h.next[p] \in Nat /\ p + SIZEOF_STRUCT_MEM <= h.next[p]
    BY HeapFacts
  <2> QED
    BY <2>1, HeapConstants
<1>2. Bytes(InUse(h), h.next) = rest \cup own
  BY DEF Bytes
<1>3. rest \cap own = {}
  <2> SUFFICES ASSUME NEW x \in own, NEW i \in InUse(h) \ {p}, x \in i..(h.next[i] - 1)
               PROVE  FALSE
    BY DEF Bytes
  <2>1. /\ i \in Items(h) /\ p \in Items(h) /\ i # HeapEnd /\ p # HeapEnd
        /\ i \in Nat /\ h.next[i] \in Nat
    BY HeapFacts
  <2>2. (p <= i \/ h.next[i] <= p) /\ (i <= p \/ h.next[p] <= i)
    BY <2>1 DEF HeapOK, Linked
  <2>3. x \in Int /\ p <= x /\ x < h.next[p] /\ i <= x /\ x < h.next[i] /\ i # p
    BY <1>1, <2>1
  <2> QED
    BY <1>1, <2>1, <2>2, <2>3
<1>4. IsFiniteSet(own) /\ Cardinality(own) = h.next[p] - p
  <2>1. p \in Int /\ h.next[p] - 1 \in Int
    BY <1>1
  <2>2. /\ IsFiniteSet(own)
        /\ Cardinality(own) = IF p > h.next[p] - 1 THEN 0 ELSE (h.next[p] - 1) - p + 1
    BY <2>1, FS_Interval
  <2> QED
    BY <1>1, <2>2
<1>5. IsFiniteSet(rest) /\ Cardinality(rest) \in 0..HeapEnd
  BY BytesFit
<1> HIDE DEF rest, own
<1>6. Cardinality(rest \cup own) = Cardinality(rest) + Cardinality(own) - Cardinality(rest \cap own)
  BY <1>4, <1>5, FS_Union
<1>7. Cardinality(rest \cap own) = 0
  BY <1>3, FS_EmptySet
<1>8. Cardinality(rest \cup own) = Cardinality(rest) + h.next[p] - p
  BY <1>1, <1>4, <1>5, <1>6, <1>7, HeapConstants
<1> QED
  BY <1>2, <1>8 DEF rest

LEMMA SameBytes ==
  ASSUME NEW S, NEW f, NEW g, \A i \in S : f[i] = g[i]
  PROVE  Bytes(S, f) = Bytes(S, g)
BY DEF Bytes

LEMMA FreeCounts ==
  ASSUME NEW h, HeapOK(h), NoHolesMeet(h), Counted(h), NEW p \in InUse(h),
         NEW g, g = rt_smem_free(h, p)
  PROVE  Counted(g)
<1>1. /\ HeapOK(g) /\ InUse(g) = InUse(h) \ {p}
      /\ \A i \in InUse(g) : g.next[i] = h.next[i]
      /\ g.used = h.used - (h.next[p] - p) /\ g.max = h.max
  BY FreeHeap
<1>2. p \in Nat /\ h.next[p] \in Nat
  BY HeapFacts
<1>3. Cardinality(Bytes(InUse(h), h.next)) = Cardinality(Bytes(InUse(g), h.next)) + h.next[p] - p
  BY <1>1, BytesOfBlock
<1>4. Bytes(InUse(g), g.next) = Bytes(InUse(g), h.next)
  BY <1>1, SameBytes
<1>5. Cardinality(Bytes(InUse(g), g.next)) \in 0..HeapEnd
  BY <1>1, BytesFit
<1> QED
  BY <1>1, <1>2, <1>3, <1>4, <1>5, HeapConstants DEF Counted

LEMMA AllocCounts ==
  ASSUME NEW h, HeapOK(h), NoHolesMeet(h), Counted(h), NEW n \in Nat, CanAlloc(h, n),
         NEW g, g = rt_smem_alloc(h, n)
  PROVE  Counted(g)
<1>1. PICK p : p = AllocItem(h, n)
  OBVIOUS
<1>2. /\ HeapOK(g) /\ p \in Holes(h) /\ InUse(g) = InUse(h) \cup {p}
      /\ \A i \in InUse(h) : g.next[i] = h.next[i]
      /\ g.used = h.used + g.next[p] - p
      /\ g.max = h.max \/ g.max = g.used
  BY <1>1, AllocHeap
<1>3. p \in InUse(g) /\ InUse(h) = InUse(g) \ {p}
  BY <1>2, HeapFacts
<1>4. p \in Nat /\ g.next[p] \in Nat
  BY <1>2, <1>3, HeapFacts
<1>5. Cardinality(Bytes(InUse(g), g.next)) = Cardinality(Bytes(InUse(h), g.next)) + g.next[p] - p
  BY <1>2, <1>3, BytesOfBlock
<1>6. Bytes(InUse(h), g.next) = Bytes(InUse(h), h.next)
  BY <1>2, SameBytes
<1>7. Cardinality(Bytes(InUse(g), g.next)) \in 0..HeapEnd
  BY <1>2, BytesFit
<1> QED
  BY <1>2, <1>4, <1>5, <1>6, <1>7 DEF Counted

LEMMA CutCounts ==
  ASSUME NEW h, HeapOK(h), NoHolesMeet(h), Counted(h), NEW p \in InUse(h), NEW size \in Nat,
         Shrinks(h, p, size), NEW g, g = Cut(h, p, size)
  PROVE  Counted(g)
<1>1. /\ HeapOK(g) /\ InUse(g) = InUse(h)
      /\ \A i \in InUse(h) : i # p => g.next[i] = h.next[i]
      /\ g.used = h.used - (h.next[p] - g.next[p]) /\ g.max = h.max
  BY CutHeap
<1>2. p \in Nat /\ h.next[p] \in Nat /\ g.next[p] \in Nat
  BY <1>1, HeapFacts
<1>3. PICK S : S = InUse(h) \ {p}
  OBVIOUS
<1>4. Cardinality(Bytes(InUse(h), h.next)) = Cardinality(Bytes(S, h.next)) + h.next[p] - p
  BY <1>3, BytesOfBlock
<1>5. Cardinality(Bytes(InUse(g), g.next)) = Cardinality(Bytes(S, g.next)) + g.next[p] - p
  BY <1>1, <1>3, BytesOfBlock
<1>6. Bytes(S, g.next) = Bytes(S, h.next)
  BY <1>1, <1>3, SameBytes
<1>7. Cardinality(Bytes(S, h.next)) \in Nat
  <2>1. Cardinality(Bytes(S, h.next)) \in 0..HeapEnd
    BY <1>3, BytesFit
  <2> QED
    BY <2>1, HeapConstants
<1> QED
  BY <1>1, <1>2, <1>4, <1>5, <1>6, <1>7 DEF Counted

-------------------------------------------------------------------------------
(* The inductive invariant.                                                *)
HeapInv == /\ HeapOK(heap)
           /\ NoHolesMeet(heap)
           /\ Counted(heap)
           /\ DOMAIN requested = InUse(heap)

LEMMA HeapInitHolds == HeapInit => HeapInv
<1> SUFFICES ASSUME HeapInit PROVE HeapInv
  OBVIOUS
<1>1. /\ heap.next = [i \in {0, HeapEnd} |-> HeapEnd]
      /\ heap.prev = [i \in {0, HeapEnd} |-> i]
      /\ heap.inuse = [i \in {0, HeapEnd} |-> i = HeapEnd]
      /\ heap.lfree = 0 /\ heap.used = 0 /\ heap.max = 0
      /\ IsHeap(heap)
  BY DEF HeapInit, IsHeap
<1>2. HeapEnd \in Nat /\ SIZEOF_STRUCT_MEM <= HeapEnd /\ HeapEnd > 0
  BY HeapConstants
<1>3. Items(heap) = {0, HeapEnd}
  BY <1>1 DEF Items
<1>4. Linked({0, HeapEnd}, heap.next, heap.prev, heap.inuse, 0)
  <2> DEFINE S == {0, HeapEnd}
  <2>1. S \subseteq 0..HeapEnd /\ 0 \in S /\ HeapEnd \in S
    BY <1>2
  <2>2. /\ heap.next \in [S -> S] /\ heap.prev \in [S -> 0..HeapEnd]
        /\ heap.inuse \in [S -> BOOLEAN]
    BY <1>1, <2>1
  <2>3. /\ \A i \in S : heap.next[i] = HeapEnd /\ heap.prev[i] = i
        /\ heap.inuse[HeapEnd]
    BY <1>1
  <2>4. \A i \in S : i # HeapEnd => i = 0
    OBVIOUS
  <2> HIDE DEF S
  <2>5. \A i, j \in S : i # HeapEnd => j <= i \/ heap.next[i] <= j
    <3>1. \A j \in S : j <= 0 \/ HeapEnd <= j
      BY <1>2, <2>4
    <3> QED
      BY <2>3, <2>4, <3>1
  <2>6. \A i \in S : i # HeapEnd => i + SIZEOF_STRUCT_MEM <= heap.next[i]
    BY <1>2, <2>3, <2>4, HeapConstants
  <2>7. \A i \in S : 0 <= i
    BY <1>2, <2>4
  <2>8. Linked(S, heap.next, heap.prev, heap.inuse, 0)
    BY <2>1, <2>2, <2>3, <2>4, <2>5, <2>6, <2>7 DEF Linked
  <2> QED
    BY <2>8 DEF S
<1>5. HeapOK(heap)
  BY <1>1, <1>3, <1>4 DEF HeapOK
<1>6. NoHolesMeet(heap)
  BY <1>1, <1>3 DEF NoHolesMeet, Holes
<1>7. InUse(heap) = {}
  BY <1>1, <1>3 DEF InUse
<1>8. DOMAIN requested = {}
  BY DEF HeapInit
<1>9. Counted(heap)
  <2>1. Bytes(InUse(heap), heap.next) = {}
    BY <1>7 DEF Bytes
  <2> QED
    BY <1>1, <1>2, <2>1, FS_EmptySet DEF Counted
<1> QED
  BY <1>5, <1>6, <1>7, <1>8, <1>9 DEF HeapInv

(* What the steps do to the items in use.                                  *)
LEMMA MallocStep ==
  ASSUME HeapInv, NEW n \in Sizes, Malloc(n), NEW p, p = AllocItem(heap, n)
  PROVE  /\ HeapInv'
         /\ p \in Holes(heap) /\ InUse(heap') = InUse(heap) \cup {p}
         /\ \A i \in InUse(heap) : heap'.next[i] = heap.next[i]
         /\ MEM_SIZE(heap', p) >= AllocSize(n)
         /\ requested' = Put(requested, p, n)
<1>1. n \in Nat
  BY SizesAssumption
<1>2. /\ CanAlloc(heap, n) /\ heap' = rt_smem_alloc(heap, n)
      /\ requested' = Put(requested, p, n)
  BY DEF Malloc
<1>3. /\ HeapOK(heap') /\ NoHolesMeet(heap')
      /\ p \in Holes(heap) /\ InUse(heap') = InUse(heap) \cup {p}
      /\ \A i \in InUse(heap) : heap'.next[i] = heap.next[i]
      /\ MEM_SIZE(heap', p) >= AllocSize(n)
  BY <1>1, <1>2, AllocHeap DEF HeapInv
<1>4. DOMAIN requested' = InUse(heap')
  BY <1>2, <1>3 DEF HeapInv, Put
<1>5. Counted(heap')
  BY <1>1, <1>2, AllocCounts DEF HeapInv
<1> QED
  BY <1>2, <1>3, <1>4, <1>5 DEF HeapInv

LEMMA DeallocStep ==
  ASSUME HeapInv, NEW p \in InUse(heap), Dealloc(p)
  PROVE  /\ HeapInv'
         /\ InUse(heap') = InUse(heap) \ {p}
         /\ \A i \in InUse(heap') : heap'.next[i] = heap.next[i]
         /\ requested' = Drop(requested, p)
<1>1. heap' = rt_smem_free(heap, p) /\ requested' = Drop(requested, p)
  BY DEF Dealloc
<1>2. /\ HeapOK(heap') /\ NoHolesMeet(heap')
      /\ InUse(heap') = InUse(heap) \ {p}
      /\ \A i \in InUse(heap') : heap'.next[i] = heap.next[i]
  BY <1>1, FreeHeap DEF HeapInv
<1>3. DOMAIN requested' = InUse(heap')
  BY <1>1, <1>2 DEF HeapInv, Drop
<1>4. Counted(heap')
  BY <1>1, FreeCounts DEF HeapInv
<1> QED
  BY <1>1, <1>2, <1>3, <1>4 DEF HeapInv

LEMMA CutStep ==
  ASSUME HeapInv, NEW n \in Sizes, NEW p \in InUse(heap), ReallocCut(p, n)
  PROVE  /\ HeapInv'
         /\ InUse(heap') = InUse(heap)
         /\ \A i \in InUse(heap) : i # p => heap'.next[i] = heap.next[i]
         /\ MEM_SIZE(heap', p) = RT_ALIGN(n) /\ RT_ALIGN(n) < MEM_SIZE(heap, p)
         /\ requested' = [requested EXCEPT ![p] = n]
<1>1. PICK m : m = RT_ALIGN(n)
  OBVIOUS
<1>2. m \in Nat
  BY <1>1, SizesAssumption, AlignFacts
<1>3. /\ Shrinks(heap, p, m) /\ heap' = Cut(heap, p, m)
      /\ requested' = [requested EXCEPT ![p] = n]
  BY <1>1 DEF ReallocCut
<1>4. /\ HeapOK(heap') /\ NoHolesMeet(heap') /\ InUse(heap') = InUse(heap)
      /\ MEM_SIZE(heap', p) = m /\ MEM_SIZE(heap, p) > m
      /\ \A i \in InUse(heap) : i # p => heap'.next[i] = heap.next[i]
  <2>1. PICK g : g = Cut(heap, p, m)
    OBVIOUS
  <2>2. HeapOK(heap) /\ NoHolesMeet(heap) /\ Shrinks(heap, p, m)
    BY <1>3 DEF HeapInv
  <2>3. /\ HeapOK(g) /\ NoHolesMeet(g) /\ InUse(g) = InUse(heap)
        /\ MEM_SIZE(g, p) = m /\ MEM_SIZE(heap, p) > m
        /\ \A i \in InUse(heap) : i # p => g.next[i] = heap.next[i]
    BY <1>2, <2>1, <2>2, CutHeap
  <2>4. g = heap'
    BY <1>3, <2>1
  <2> QED
    BY <2>3, <2>4
<1>5. DOMAIN requested' = InUse(heap')
  BY <1>3, <1>4 DEF HeapInv
<1>6. m < MEM_SIZE(heap, p)
  <2>1. MEM_SIZE(heap, p) \in Int
    BY HeapFacts, HeapConstants DEF HeapInv, MEM_SIZE
  <2> QED
    BY <1>2, <1>4, <2>1
<1>7. Counted(heap')
  <2>1. HeapOK(heap) /\ NoHolesMeet(heap) /\ Counted(heap) /\ Shrinks(heap, p, m)
    BY <1>3 DEF HeapInv
  <2>2. PICK g : g = Cut(heap, p, m)
    OBVIOUS
  <2>3. Counted(g)
    BY <1>2, <2>1, <2>2, CutCounts
  <2> QED
    BY <1>3, <2>2, <2>3
<1> QED
  BY <1>1, <1>3, <1>4, <1>5, <1>6, <1>7 DEF HeapInv

LEMMA MoveStep ==
  ASSUME HeapInv, NEW n \in Sizes, NEW p \in InUse(heap), ReallocMove(p, n),
         NEW b, b = AllocItem(heap, RT_ALIGN(n))
  PROVE  /\ HeapInv'
         /\ b \in Holes(heap) /\ InUse(heap') = (InUse(heap) \cup {b}) \ {p}
         /\ \A i \in InUse(heap) : i # p => heap'.next[i] = heap.next[i]
         /\ \A i \in InUse(heap) : heap.next[i] <= b \/ heap'.next[b] <= i
         /\ MEM_SIZE(heap', b) >= AllocSize(RT_ALIGN(n))
         /\ requested' = Drop(Put(requested, b, n), p)
<1>1. PICK m : m = RT_ALIGN(n)
  OBVIOUS
<1>2. m \in Nat
  BY <1>1, SizesAssumption, AlignFacts
<1>3. PICK f : f = rt_smem_alloc(heap, m)
  OBVIOUS
<1>4. /\ CanAlloc(heap, m) /\ heap' = rt_smem_free(f, p)
      /\ requested' = Drop(Put(requested, b, n), p)
  BY <1>1, <1>3 DEF ReallocMove
<1>5. /\ HeapOK(f) /\ NoHolesMeet(f)
      /\ b \in Holes(heap) /\ InUse(f) = InUse(heap) \cup {b}
      /\ \A i \in InUse(heap) : f.next[i] = heap.next[i]
      /\ MEM_SIZE(f, b) >= AllocSize(m)
  BY <1>1, <1>2, <1>3, <1>4, AllocHeap DEF HeapInv
<1>6. /\ HeapOK(heap') /\ NoHolesMeet(heap')
      /\ InUse(heap') = InUse(f) \ {p}
      /\ \A i \in InUse(heap') : heap'.next[i] = f.next[i]
  BY <1>4, <1>5, FreeHeap
<1>7. b # p
  BY <1>5, HeapFacts DEF HeapInv
<1>8. DOMAIN requested' = InUse(heap')
  BY <1>4, <1>5, <1>6, <1>7 DEF HeapInv, Put, Drop
<1>9. heap'.next[b] = f.next[b]
  BY <1>5, <1>6, <1>7
<1>10. MEM_SIZE(heap', b) = MEM_SIZE(f, b)
  BY <1>9 DEF MEM_SIZE
<1>11. ASSUME NEW i \in InUse(heap) PROVE heap.next[i] <= b \/ heap'.next[b] <= i
  <2>1. i \in Items(f) /\ b \in Items(f) /\ i # HeapEnd /\ b # HeapEnd
    BY <1>5, HeapFacts
  <2>2. i # b /\ heap.next[i] = f.next[i]
    BY <1>5, HeapFacts DEF HeapInv
  <2>3. b <= i \/ f.next[i] <= b
    BY <1>5, <2>1 DEF HeapOK, Linked
  <2>4. i <= b \/ f.next[b] <= i
    BY <1>5, <2>1 DEF HeapOK, Linked
  <2>5. i \in Nat /\ b \in Nat
    BY <1>5, <2>1, HeapFacts
  <2> QED
    BY <1>9, <2>2, <2>3, <2>4, <2>5
<1>12. Counted(heap')
  <2>1. Counted(f)
    BY <1>2, <1>3, <1>4, AllocCounts DEF HeapInv
  <2> QED
    BY <1>4, <1>5, <2>1, FreeCounts
<1> QED
  BY <1>1, <1>4, <1>5, <1>6, <1>7, <1>8, <1>10, <1>11, <1>12 DEF HeapInv

LEMMA HeapStepKeeps == HeapInv /\ [HeapNext]_heapVars => HeapInv'
<1> SUFFICES ASSUME HeapInv, [HeapNext]_heapVars PROVE HeapInv'
  OBVIOUS
<1>1. ASSUME NEW n \in Sizes, Malloc(n) PROVE HeapInv'
  BY <1>1, MallocStep
<1>2. ASSUME NEW p \in InUse(heap), Dealloc(p) PROVE HeapInv'
  BY <1>2, DeallocStep
<1>3. ASSUME NEW p \in InUse(heap), NEW n \in Sizes, ReallocFree(p, n) PROVE HeapInv'
  BY <1>2, <1>3 DEF ReallocFree
<1>4. ASSUME NEW p \in InUse(heap), NEW n \in Sizes, ReallocSame(p, n) PROVE HeapInv'
  BY <1>4 DEF ReallocSame, HeapInv
<1>5. ASSUME NEW p \in InUse(heap), NEW n \in Sizes, ReallocCut(p, n) PROVE HeapInv'
  BY <1>5, CutStep
<1>6. ASSUME NEW p \in InUse(heap), NEW n \in Sizes, ReallocMove(p, n) PROVE HeapInv'
  BY <1>6, MoveStep
<1>7. CASE UNCHANGED heapVars
  BY <1>7 DEF heapVars, HeapInv
<1> QED
  BY <1>1, <1>2, <1>3, <1>4, <1>5, <1>6, <1>7 DEF HeapNext

LEMMA HeapInvariance == HeapSpec => []HeapInv
BY HeapInitHolds, HeapStepKeeps, PTL DEF HeapSpec

(* Every link leads to an item of the heap, lfree is one, and used and max *)
(* are no more than the heap holds: HeapTypeOK.                            *)
THEOREM HeapTypeCorrect == HeapSpec => []HeapTypeOK
<1>1. HeapInv => HeapTypeOK
  <2> SUFFICES ASSUME HeapInv PROVE HeapTypeOK
    OBVIOUS
  <2>1. HeapOK(heap) /\ Counted(heap) /\ DOMAIN requested = InUse(heap)
    BY DEF HeapInv
  <2>2. /\ Items(heap) \subseteq 0..HeapEnd /\ {0, HeapEnd} \subseteq Items(heap)
        /\ heap.next \in [Items(heap) -> Items(heap)]
        /\ heap.inuse \in [Items(heap) -> BOOLEAN] /\ heap.prev \in [Items(heap) -> 0..HeapEnd]
    BY <2>1, HeapFacts
  <2>3. heap.lfree \in Items(heap)
    BY <2>1 DEF HeapOK, Linked
  <2>4. heap.used \in 0..HeapEnd /\ heap.max \in 0..HeapEnd
    BY <2>1, BytesFit DEF Counted
  <2>5. IsHeap(heap)
    BY <2>1 DEF HeapOK
  <2> QED
    BY <2>1, <2>2, <2>3, <2>4, <2>5 DEF HeapTypeOK, IsHeap
<1> QED
  BY <1>1, HeapInvariance, PTL

(* What the accounting of alloc, free and realloc adds up to: used is the  *)
(* number of bytes of the blocks in use with their headers.                *)
THEOREM UsedIsExact ==
  HeapSpec => [](heap.used = Cardinality(Bytes(InUse(heap), heap.next)))
<1>1. HeapInv => heap.used = Cardinality(Bytes(InUse(heap), heap.next))
  BY DEF HeapInv, Counted
<1> QED
  BY <1>1, HeapInvariance, PTL

(* No gap, no overlap, and the way back, whatever the order of the calls:  *)
(* ChainIntact.                                                            *)
THEOREM ChainStaysIntact == HeapSpec => []ChainIntact
<1>1. HeapInv => ChainIntact
  <2> SUFFICES ASSUME HeapInv, NEW i \in Items(heap) \ {HeapEnd}
               PROVE  /\ i + SIZEOF_STRUCT_MEM <= heap.next[i]
                      /\ \A j \in Items(heap) : ~(i < j /\ j < heap.next[i])
                      /\ heap.next[i] # HeapEnd => heap.prev[heap.next[i]] = i
    BY DEF ChainIntact
  <2>1. Linked(Items(heap), heap.next, heap.prev, heap.inuse, heap.lfree)
    BY DEF HeapInv, HeapOK
  <2>2. i + SIZEOF_STRUCT_MEM <= heap.next[i] /\ (heap.next[i] # HeapEnd => heap.prev[heap.next[i]] = i)
    BY <2>1 DEF Linked
  <2>3. ASSUME NEW j \in Items(heap) PROVE ~(i < j /\ j < heap.next[i])
    <3>1. j <= i \/ heap.next[i] <= j
      BY <2>1 DEF Linked
    <3>2. i \in Nat /\ j \in Nat /\ heap.next[i] \in Nat
      BY HeapFacts DEF HeapInv
    <3> QED
      BY <3>1, <3>2
  <2> QED
    BY <2>2, <2>3
<1> QED
  BY <1>1, HeapInvariance, PTL

(* Free space is never in pieces: NoTwoFreeInARow.                         *)
THEOREM FreeSpaceIsJoined == HeapSpec => []NoTwoFreeInARow
<1>1. HeapInv => NoTwoFreeInARow
  BY DEF HeapInv, NoHolesMeet, NoTwoFreeInARow
<1> QED
  BY <1>1, HeapInvariance, PTL

(* The search misses no hole that is long enough.                          *)
THEOREM SearchIsComplete == HeapSpec => []AllocFailsOnlyWhenFull
<1>1. HeapInv => AllocFailsOnlyWhenFull
  <2> SUFFICES ASSUME HeapInv, NEW n \in Sizes \ {0}, ~CanAlloc(heap, n), NEW i \in Holes(heap)
               PROVE  MEM_SIZE(heap, i) < AllocSize(n)
    BY DEF AllocFailsOnlyWhenFull
  <2>1. PICK size : size = AllocSize(n)
    OBVIOUS
  <2>2. size \in Nat
    BY <2>1, SizesAssumption, AllocSizeIs
  <2>3. Candidates(heap, size) = {}
    BY <2>1 DEF CanAlloc
  <2>4. i \in Items(heap) /\ i \in Nat /\ heap.next[i] \in 0..HeapEnd
    BY HeapFacts DEF HeapInv
  <2>5. heap.lfree <= i
    BY <2>4 DEF HeapInv, HeapOK, Linked, Holes
  <2>6. MEM_SIZE(heap, i) \in Int
    BY <2>4, HeapConstants DEF MEM_SIZE
  <2>7. ASSUME MEM_SIZE(heap, i) >= size PROVE FALSE
    <3>1. i <= MemSize - size
      BY <2>2, <2>4, <2>7, HeapConstants DEF MEM_SIZE
    <3>2. ~(size > MemSize)
      BY <2>2, <2>4, <3>1, HeapConstants
    <3>3. i \in Candidates(heap, size)
      BY <2>5, <2>7, <3>1, <3>2 DEF Candidates
    <3> QED
      BY <2>3, <3>3
  <2> QED
    BY <2>1, <2>2, <2>6, <2>7
<1> QED
  BY <1>1, HeapInvariance, PTL

-------------------------------------------------------------------------------
(* The abstract allocator.  At(S, f) is f, a function on the items S, by   *)
(* the address of their data.                                              *)
Data(S) == {p + SIZEOF_STRUCT_MEM : p \in S}
At(S, f) == [a \in Data(S) |-> f[a - SIZEOF_STRUCT_MEM]]
Lengths(h) == [p \in InUse(h) |-> MEM_SIZE(h, p)]

LEMMA Views ==
  /\ OwnedBlocks = At(InUse(heap), Lengths(heap))
  /\ OwnedBlocks' = At(InUse(heap'), Lengths(heap'))
  /\ AskedSizes = At(InUse(heap), requested)
  /\ AskedSizes' = At(InUse(heap'), requested')
BY DEF OwnedBlocks, AskedSizes, ByAddress, At, Data, Lengths

LEMMA AtFacts ==
  ASSUME NEW S, S \subseteq Nat, NEW f
  PROVE  /\ DOMAIN At(S, f) = Data(S)
         /\ \A i \in S : At(S, f)[i + SIZEOF_STRUCT_MEM] = f[i]
<1>1. SIZEOF_STRUCT_MEM \in Nat
  BY HeapConstants
<1>2. ASSUME NEW i \in S PROVE At(S, f)[i + SIZEOF_STRUCT_MEM] = f[i]
  <2>1. (i + SIZEOF_STRUCT_MEM) - SIZEOF_STRUCT_MEM = i
    BY <1>1
  <2>2. i + SIZEOF_STRUCT_MEM \in Data(S)
    BY DEF Data
  <2> QED
    BY <2>1, <2>2 DEF At
<1> QED
  BY <1>2 DEF At

Addr(p) == p + SIZEOF_STRUCT_MEM
Offsets(S) == S \subseteq Nat
AgreeOn(S, f, g) == \A i \in S : f[i] = g[i]

(* One more item, or another value for one.                                *)
LEMMA PutAt ==
  ASSUME NEW S, Offsets(S), NEW f, NEW g, NEW p \in Nat,
         AgreeOn(S \ {p}, g, f)
  PROVE  At(S \cup {p}, g) = Abstract!Put(At(S, f), Addr(p), g[p])
<1> DEFINE a == p + SIZEOF_STRUCT_MEM
           r == Abstract!Put(At(S, f), a, g[p])
<1>1. S \subseteq Nat
  BY DEF Offsets
<1>2. PICK T : T = S \cup {p}
  OBVIOUS
<1>3. T \subseteq Nat
  BY <1>1, <1>2
<1>4. PICK l : l = At(T, g)
  OBVIOUS
<1>5. DOMAIN l = Data(T) /\ \A i \in T : l[i + SIZEOF_STRUCT_MEM] = g[i]
  BY <1>3, <1>4, AtFacts
<1>6. DOMAIN At(S, f) = Data(S) /\ \A i \in S : At(S, f)[i + SIZEOF_STRUCT_MEM] = f[i]
  BY <1>1, AtFacts
<1>7. DOMAIN l = DOMAIN At(S, f) \cup {a}
  BY <1>2, <1>5, <1>6 DEF Data
<1>8. ASSUME NEW x \in DOMAIN l PROVE l[x] = IF x = a THEN g[p] ELSE At(S, f)[x]
  <2>1. PICK i \in T : x = i + SIZEOF_STRUCT_MEM
    BY <1>5, <1>8 DEF Data
  <2>2. l[x] = g[i]
    BY <1>5, <2>1
  <2>3. x = a <=> i = p
    BY <1>3, <2>1, HeapConstants
  <2>4. i # p => At(S, f)[x] = f[i]
    BY <1>2, <1>6, <2>1
  <2>5. i # p => g[i] = f[i]
    BY <1>2 DEF AgreeOn
  <2> HIDE DEF a
  <2> QED
    BY <2>2, <2>3, <2>4, <2>5
<1>9. DOMAIN r = DOMAIN l /\ \A x \in DOMAIN r : r[x] = IF x = a THEN g[p] ELSE At(S, f)[x]
  BY <1>7 DEF Abstract!Put
<1>10. l = [x \in DOMAIN l |-> l[x]]
  BY <1>4 DEF At
<1>11. r = [x \in DOMAIN r |-> r[x]]
  BY DEF Abstract!Put
<1> HIDE DEF r
<1>12. l = r
  BY <1>8, <1>9, <1>10, <1>11
<1> QED
  BY <1>2, <1>4, <1>12 DEF r, Addr

(* One item less.                                                          *)
LEMMA DropAt ==
  ASSUME NEW S, Offsets(S), NEW f, NEW g, NEW p \in Nat,
         AgreeOn(S \ {p}, g, f)
  PROVE  At(S \ {p}, g) = Abstract!Drop(At(S, f), Addr(p))
<1> DEFINE a == p + SIZEOF_STRUCT_MEM
           r == Abstract!Drop(At(S, f), a)
<1>1. S \subseteq Nat
  BY DEF Offsets
<1>2. PICK T : T = S \ {p}
  OBVIOUS
<1>3. T \subseteq Nat
  BY <1>1, <1>2
<1>4. PICK l : l = At(T, g)
  OBVIOUS
<1>5. DOMAIN l = Data(T) /\ \A i \in T : l[i + SIZEOF_STRUCT_MEM] = g[i]
  BY <1>3, <1>4, AtFacts
<1>6. DOMAIN At(S, f) = Data(S) /\ \A i \in S : At(S, f)[i + SIZEOF_STRUCT_MEM] = f[i]
  BY <1>1, AtFacts
<1>7. DOMAIN l = DOMAIN At(S, f) \ {a}
  <2>1. \A i \in S : i # p => i + SIZEOF_STRUCT_MEM # a
    BY <1>1, HeapConstants
  <2> QED
    BY <1>2, <1>5, <1>6, <2>1 DEF Data
<1>8. ASSUME NEW x \in DOMAIN l PROVE l[x] = At(S, f)[x]
  <2>1. PICK i \in T : x = i + SIZEOF_STRUCT_MEM
    BY <1>5, <1>8 DEF Data
  <2>2. l[x] = g[i]
    BY <1>5, <2>1
  <2>3. At(S, f)[x] = f[i]
    BY <1>2, <1>6, <2>1
  <2>4. g[i] = f[i]
    BY <1>2 DEF AgreeOn
  <2> QED
    BY <2>2, <2>3, <2>4
<1>9. DOMAIN r = DOMAIN l /\ \A x \in DOMAIN r : r[x] = At(S, f)[x]
  BY <1>7 DEF Abstract!Drop
<1>10. l = [x \in DOMAIN l |-> l[x]]
  BY <1>4 DEF At
<1>11. r = [x \in DOMAIN r |-> r[x]]
  BY DEF Abstract!Drop
<1> HIDE DEF r
<1>12. l = r
  BY <1>8, <1>9, <1>10, <1>11
<1> QED
  BY <1>2, <1>4, <1>12 DEF r, Addr

LEMMA InUseFacts ==
  ASSUME NEW h, HeapOK(h)
  PROVE  /\ InUse(h) \subseteq Nat
         /\ \A i \in InUse(h) : Lengths(h)[i] = MEM_SIZE(h, i)
         /\ \A i \in InUse(h) : MEM_SIZE(h, i) \in Nat /\ h.next[i] \in 0..HeapEnd
<1>1. /\ \A i \in InUse(h) : i \in Items(h) /\ i # HeapEnd /\ i \in Nat /\ h.next[i] \in 0..HeapEnd
      /\ \A i \in InUse(h) : i + SIZEOF_STRUCT_MEM <= h.next[i]
  BY HeapFacts
<1>2. ASSUME NEW i \in InUse(h) PROVE MEM_SIZE(h, i) \in Nat
  BY <1>1, HeapConstants DEF MEM_SIZE
<1> QED
  BY <1>1, <1>2 DEF Lengths

(* A new block that lies beside the items in use lies beside their data.   *)
LEMMA BlockIsApart ==
  ASSUME NEW h, HeapOK(h), NEW g, HeapOK(g), NEW b \in InUse(g), NEW n \in Nat,
         MEM_SIZE(g, b) >= n,
         \A i \in InUse(h) : h.next[i] <= b \/ g.next[b] <= i
  PROVE  /\ MEM_SIZE(g, b) \in n..HeapEnd
         /\ Abstract!Apart(At(InUse(h), Lengths(h)), b + SIZEOF_STRUCT_MEM, MEM_SIZE(g, b))
<1> DEFINE a == b + SIZEOF_STRUCT_MEM
           s == MEM_SIZE(g, b)
           o == At(InUse(h), Lengths(h))
<1>1. b \in Nat /\ s \in Nat /\ g.next[b] \in 0..HeapEnd
  BY InUseFacts
<1>2. a + s = g.next[b] /\ a \in 0..HeapEnd /\ s \in n..HeapEnd
  BY <1>1, HeapConstants DEF MEM_SIZE
<1>3. InUse(h) \subseteq Nat
  BY InUseFacts
<1>4. DOMAIN o = Data(InUse(h)) /\ \A i \in InUse(h) : o[i + SIZEOF_STRUCT_MEM] = Lengths(h)[i]
  BY <1>3, AtFacts
<1>5. ASSUME NEW c \in DOMAIN o PROVE a + s <= c \/ c + o[c] <= a
  <2>1. PICK i \in InUse(h) : c = i + SIZEOF_STRUCT_MEM
    BY <1>4, <1>5 DEF Data
  <2>2. i \in Nat /\ h.next[i] \in Nat
    BY InUseFacts
  <2>3. o[c] = MEM_SIZE(h, i)
    BY <1>4, <2>1, InUseFacts
  <2>4. c + o[c] = h.next[i]
    BY <2>1, <2>2, <2>3, HeapConstants DEF MEM_SIZE
  <2>5. h.next[i] <= b \/ g.next[b] <= i
    OBVIOUS
  <2> HIDE DEF o, s
  <2> QED
    BY <1>1, <1>2, <2>1, <2>2, <2>4, <2>5, HeapConstants
<1> QED
  BY <1>1, <1>2, <1>5 DEF Abstract!Apart

LEMMA MallocRefines ==
  ASSUME HeapInv, NEW n \in Sizes, n + RT_ALIGN_SIZE - 1 < SizeMod, Malloc(n)
  PROVE  n # 0 /\ Abstract!Alloc(n)
<1>1. PICK p : p = AllocItem(heap, n)
  OBVIOUS
<1>2. /\ HeapInv'
      /\ p \in Holes(heap) /\ InUse(heap') = InUse(heap) \cup {p}
      /\ \A i \in InUse(heap) : heap'.next[i] = heap.next[i]
      /\ MEM_SIZE(heap', p) >= AllocSize(n)
      /\ requested' = Put(requested, p, n)
  BY <1>1, MallocStep
<1>3. HeapOK(heap) /\ HeapOK(heap')
  BY <1>2 DEF HeapInv
<1>4. InUse(heap) \subseteq Nat /\ p \in InUse(heap') /\ p \notin InUse(heap)
  BY <1>2, <1>3, HeapFacts, InUseFacts
<1>5. Offsets(InUse(heap))
  BY <1>4 DEF Offsets
<1>6. n \in Nat /\ MEM_SIZE(heap', p) >= n
  <2>1. n \in Nat
    BY SizesAssumption
  <2>2. AllocSize(n) \in Nat /\ RT_ALIGN(n) \in Nat /\ AllocSize(n) >= RT_ALIGN(n) /\ RT_ALIGN(n) >= n
    BY <2>1, AlignFacts, AllocSizeIs
  <2>3. MEM_SIZE(heap', p) \in Nat
    BY <1>3, <1>4, InUseFacts
  <2> QED
    BY <1>2, <2>1, <2>2, <2>3
<1>7. ASSUME NEW i \in InUse(heap) PROVE heap.next[i] <= p \/ heap'.next[p] <= i
  <2>1. i \in InUse(heap') /\ heap'.next[i] = heap.next[i] /\ i # p
    BY <1>2, <1>4
  <2>2. i \in Items(heap') /\ p \in Items(heap') /\ i # HeapEnd /\ p # HeapEnd /\ i \in Nat /\ p \in Nat
    BY <1>3, <1>4, <2>1, HeapFacts
  <2>3. (p <= i \/ heap'.next[i] <= p) /\ (i <= p \/ heap'.next[p] <= i)
    BY <1>3, <2>2 DEF HeapOK, Linked
  <2> QED
    BY <2>1, <2>2, <2>3
<1>8. PICK a : a = p + SIZEOF_STRUCT_MEM
  OBVIOUS
<1>9. /\ MEM_SIZE(heap', p) \in n..HeapEnd
      /\ Abstract!Apart(At(InUse(heap), Lengths(heap)), a, MEM_SIZE(heap', p))
  BY <1>3, <1>4, <1>6, <1>7, <1>8, BlockIsApart
<1>10. p \in Nat
  BY <1>3, <1>4, InUseFacts
<1>11. OwnedBlocks' = Abstract!Put(OwnedBlocks, a, MEM_SIZE(heap', p))
  <2>1. AgreeOn(InUse(heap) \ {p}, Lengths(heap'), Lengths(heap))
    BY <1>2 DEF Lengths, MEM_SIZE, AgreeOn
  <2>2. At(InUse(heap) \cup {p}, Lengths(heap'))
          = Abstract!Put(At(InUse(heap), Lengths(heap)), Addr(p), Lengths(heap')[p])
    BY <1>5, <1>10, <2>1, PutAt
  <2>3. Lengths(heap')[p] = MEM_SIZE(heap', p)
    BY <1>3, <1>4, InUseFacts
  <2> QED
    BY <1>2, <1>8, <2>2, <2>3, Views DEF Addr
<1>12. AskedSizes' = Abstract!Put(AskedSizes, a, n)
  <2>1. AgreeOn(InUse(heap) \ {p}, requested', requested)
    BY <1>2 DEF Put, HeapInv, AgreeOn
  <2>2. requested'[p] = n
    BY <1>2 DEF Put
  <2>3. At(InUse(heap) \cup {p}, requested')
          = Abstract!Put(At(InUse(heap), requested), Addr(p), requested'[p])
    BY <1>5, <1>10, <2>1, PutAt
  <2> QED
    BY <1>2, <1>8, <2>2, <2>3, Views DEF Addr
<1>13. a \in DOMAIN OwnedBlocks' \ DOMAIN OwnedBlocks /\ OwnedBlocks'[a] = MEM_SIZE(heap', p)
  <2>1. DOMAIN OwnedBlocks = Data(InUse(heap))
    BY <1>4, AtFacts, Views DEF Addr
  <2>2. a \notin Data(InUse(heap))
    BY <1>4, <1>8, <1>10, HeapConstants DEF Data
  <2> QED
    BY <1>11, <2>1, <2>2 DEF Abstract!Put
<1>14. Abstract!Apart(OwnedBlocks, a, OwnedBlocks'[a])
  BY <1>9, <1>13, Views DEF Addr
<1>15. n # 0
  BY DEF Malloc, CanAlloc
<1> QED
  BY <1>9, <1>11, <1>12, <1>13, <1>14, <1>15 DEF Abstract!Alloc, Abstract!NewBlock

LEMMA DeallocRefines ==
  ASSUME HeapInv, NEW p \in InUse(heap), Dealloc(p)
  PROVE  Abstract!Free(p + SIZEOF_STRUCT_MEM)
<1>1. /\ HeapInv'
      /\ InUse(heap') = InUse(heap) \ {p}
      /\ \A i \in InUse(heap') : heap'.next[i] = heap.next[i]
      /\ requested' = Drop(requested, p)
  BY DeallocStep
<1>2. Offsets(InUse(heap)) /\ p \in Nat
  BY InUseFacts DEF HeapInv, Offsets
<1>3. AgreeOn(InUse(heap) \ {p}, Lengths(heap'), Lengths(heap))
  BY <1>1 DEF Lengths, MEM_SIZE, AgreeOn
<1>4. AgreeOn(InUse(heap) \ {p}, requested', requested)
  BY <1>1 DEF Drop, HeapInv, AgreeOn
<1>5. At(InUse(heap) \ {p}, Lengths(heap'))
        = Abstract!Drop(At(InUse(heap), Lengths(heap)), Addr(p))
  BY <1>2, <1>3, DropAt
<1>6. At(InUse(heap) \ {p}, requested')
        = Abstract!Drop(At(InUse(heap), requested), Addr(p))
  BY <1>2, <1>4, DropAt
<1> QED
  BY <1>1, <1>5, <1>6, Views DEF Addr, Abstract!Free

(* A block that stays where it is and is not shorter than asked.           *)
LEMMA ShrinkRefines ==
  ASSUME HeapInv, HeapInv', NEW n \in Nat, NEW p \in InUse(heap),
         InUse(heap') = InUse(heap),
         \A i \in InUse(heap) : i # p => heap'.next[i] = heap.next[i],
         MEM_SIZE(heap', p) >= n, MEM_SIZE(heap', p) <= MEM_SIZE(heap, p),
         requested' = [requested EXCEPT ![p] = n]
  PROVE  Abstract!Shrink(p + SIZEOF_STRUCT_MEM, n)
<1>1. /\ InUse(heap) \subseteq Nat /\ p \in Nat
      /\ MEM_SIZE(heap, p) \in Nat /\ MEM_SIZE(heap', p) \in Nat
  BY InUseFacts DEF HeapInv
<1>2. Offsets(InUse(heap))
  BY <1>1 DEF Offsets
<1>3. AgreeOn(InUse(heap) \ {p}, Lengths(heap'), Lengths(heap))
  BY DEF Lengths, MEM_SIZE, AgreeOn
<1>4. Lengths(heap')[p] = MEM_SIZE(heap', p) /\ Lengths(heap)[p] = MEM_SIZE(heap, p)
  BY DEF Lengths
<1>5. PICK r : r = requested'
  OBVIOUS
<1>6. AgreeOn(InUse(heap) \ {p}, r, requested) /\ r[p] = n
  BY <1>5 DEF HeapInv, AgreeOn
<1>7. At(InUse(heap) \cup {p}, Lengths(heap'))
        = Abstract!Put(At(InUse(heap), Lengths(heap)), Addr(p), Lengths(heap')[p])
  BY <1>1, <1>2, <1>3, PutAt
<1>8. At(InUse(heap) \cup {p}, r)
        = Abstract!Put(At(InUse(heap), requested), Addr(p), r[p])
  BY <1>1, <1>2, <1>6, PutAt
<1>9. At(InUse(heap), Lengths(heap))[p + SIZEOF_STRUCT_MEM] = Lengths(heap)[p]
  BY <1>1, AtFacts
<1>10. InUse(heap) \cup {p} = InUse(heap)
  OBVIOUS
<1>11. OwnedBlocks' = Abstract!Put(OwnedBlocks, p + SIZEOF_STRUCT_MEM, MEM_SIZE(heap', p))
  BY <1>4, <1>7, <1>10, Views DEF Addr
<1>12. AskedSizes' = Abstract!Put(AskedSizes, p + SIZEOF_STRUCT_MEM, n)
  BY <1>5, <1>6, <1>8, <1>10, Views DEF Addr
<1>13. MEM_SIZE(heap', p) \in n..OwnedBlocks[p + SIZEOF_STRUCT_MEM]
  BY <1>1, <1>4, <1>9, Views
<1> QED
  BY <1>11, <1>12, <1>13 DEF Abstract!Shrink

(* RT_ALIGN again, on a size that a block can have.                        *)
LEMMA AlignTwice ==
  ASSUME NEW n \in Nat, n + RT_ALIGN_SIZE - 1 < SizeMod
  PROVE  /\ RT_ALIGN(n) # 0 => n # 0
         /\ RT_ALIGN(n) <= MemSize => AllocSize(RT_ALIGN(n)) >= n
<1>1. RT_ALIGN(n) \in Nat /\ RT_ALIGN(n) >= n
  BY AlignFacts
<1>2. RT_ALIGN_SIZE \in Nat /\ RT_ALIGN_SIZE > 0 /\ SizeMod \in Nat
  BY AlignAssumption, MemSizeAssumption
<1>3. n = 0 => RT_ALIGN(n) = 0
  <2> SUFFICES ASSUME n = 0 PROVE RT_ALIGN(n) = 0
    OBVIOUS
  <2>1. PICK m : m = n + RT_ALIGN_SIZE - 1
    OBVIOUS
  <2>2. m \in Nat /\ m < SizeMod /\ m < RT_ALIGN_SIZE
    BY <1>2, <2>1
  <2>3. m % SizeMod = m /\ m % RT_ALIGN_SIZE = m
    BY <1>2, <2>2
  <2> QED
    BY <2>1, <2>2, <2>3 DEF RT_ALIGN
<1>4. ASSUME RT_ALIGN(n) <= MemSize PROVE AllocSize(RT_ALIGN(n)) >= n
  <2>1. PICK m : m = RT_ALIGN(n)
    OBVIOUS
  <2>2. RT_ALIGN_SIZE <= SIZEOF_STRUCT_MEM
    BY AlignAssumption
  <2>3. m \in Nat /\ m <= MemSize /\ m >= n
    BY <1>1, <1>4, <2>1
  <2>4. m + RT_ALIGN_SIZE - 1 < SizeMod
    BY <1>2, <2>2, <2>3, HeapConstants, MemSizeAssumption
  <2>5. RT_ALIGN(m) >= m /\ RT_ALIGN(m) \in Nat
    BY <2>3, <2>4, AlignFacts
  <2>6. AllocSize(m) >= RT_ALIGN(m) /\ AllocSize(m) \in Nat
    BY <2>3, AllocSizeIs
  <2> QED
    BY <2>1, <2>3, <2>5, <2>6
<1> QED
  BY <1>3, <1>4

LEMMA MoveRefines ==
  ASSUME HeapInv, NEW n \in Sizes, n + RT_ALIGN_SIZE - 1 < SizeMod,
         NEW p \in InUse(heap), ReallocMove(p, n)
  PROVE  Abstract!Move(p + SIZEOF_STRUCT_MEM, n)
<1>1. PICK b : b = AllocItem(heap, RT_ALIGN(n))
  OBVIOUS
<1>2. /\ HeapInv'
      /\ b \in Holes(heap) /\ InUse(heap') = (InUse(heap) \cup {b}) \ {p}
      /\ \A i \in InUse(heap) : i # p => heap'.next[i] = heap.next[i]
      /\ \A i \in InUse(heap) : heap.next[i] <= b \/ heap'.next[b] <= i
      /\ MEM_SIZE(heap', b) >= AllocSize(RT_ALIGN(n))
      /\ requested' = Drop(Put(requested, b, n), p)
  BY <1>1, MoveStep
<1>3. HeapOK(heap) /\ HeapOK(heap')
  BY <1>2 DEF HeapInv
<1>4. b \notin InUse(heap) /\ b # p
  BY <1>2, <1>3, HeapFacts
<1>5. /\ InUse(heap) \subseteq Nat /\ b \in InUse(heap') /\ b \in Nat /\ p \in Nat
      /\ MEM_SIZE(heap', b) \in Nat
  BY <1>2, <1>3, <1>4, InUseFacts
<1>6. n \in Nat /\ MEM_SIZE(heap', b) >= n
  <2>1. n \in Nat /\ RT_ALIGN(n) <= MemSize
    BY SizesAssumption DEF ReallocMove
  <2>2. RT_ALIGN(n) \in Nat
    BY <2>1, AlignFacts
  <2>3. AllocSize(RT_ALIGN(n)) \in Nat /\ AllocSize(RT_ALIGN(n)) >= n
    BY <2>1, <2>2, AllocSizeIs, AlignTwice
  <2> QED
    BY <1>2, <1>5, <2>1, <2>3
<1>7. PICK a : a = b + SIZEOF_STRUCT_MEM
  OBVIOUS
<1>8. /\ MEM_SIZE(heap', b) \in n..HeapEnd
      /\ Abstract!Apart(At(InUse(heap), Lengths(heap)), a, MEM_SIZE(heap', b))
  BY <1>2, <1>3, <1>5, <1>6, <1>7, BlockIsApart
<1>9. PICK T : T = InUse(heap) \cup {b}
  OBVIOUS
<1>10. T \subseteq Nat /\ InUse(heap') = T \ {p} /\ p \in T
  BY <1>2, <1>5, <1>9
<1>11. Offsets(InUse(heap)) /\ b \in Nat
  BY <1>5 DEF Offsets
<1>12. Offsets(T) /\ p \in Nat
  BY <1>5, <1>10 DEF Offsets
<1>13. OwnedBlocks'
         = Abstract!Drop(Abstract!Put(OwnedBlocks, a, MEM_SIZE(heap', b)), p + SIZEOF_STRUCT_MEM)
  <2>1. PICK l : l = [i \in T |-> IF i = b THEN MEM_SIZE(heap', b) ELSE Lengths(heap)[i]]
    OBVIOUS
  <2>2. AgreeOn(InUse(heap) \ {b}, l, Lengths(heap))
    BY <1>9, <2>1 DEF AgreeOn
  <2>3. l[b] = MEM_SIZE(heap', b)
    BY <1>9, <2>1
  <2>4. At(InUse(heap) \cup {b}, l)
          = Abstract!Put(At(InUse(heap), Lengths(heap)), Addr(b), l[b])
    BY <1>11, <2>2, PutAt
  <2>5. AgreeOn(T \ {p}, Lengths(heap'), l)
    <3> SUFFICES ASSUME NEW i \in T \ {p} PROVE Lengths(heap')[i] = l[i]
      BY DEF AgreeOn
    <3>1. i \in InUse(heap') /\ Lengths(heap')[i] = MEM_SIZE(heap', i)
      BY <1>10 DEF Lengths
    <3>2. CASE i = b
      BY <2>3, <3>1, <3>2
    <3>3. CASE i # b
      <4>1. i \in InUse(heap) /\ heap'.next[i] = heap.next[i]
        BY <1>2, <1>9, <3>3
      <4>2. MEM_SIZE(heap', i) = MEM_SIZE(heap, i)
        BY <4>1 DEF MEM_SIZE
      <4> QED
        BY <2>2, <3>1, <3>3, <4>1, <4>2 DEF Lengths, AgreeOn
    <3> QED
      BY <3>2, <3>3
  <2>6. At(T \ {p}, Lengths(heap')) = Abstract!Drop(At(T, l), Addr(p))
    BY <1>12, <2>5, DropAt
  <2> QED
    BY <1>7, <1>9, <1>10, <2>3, <2>4, <2>6, Views DEF Addr
<1>14. AskedSizes' = Abstract!Drop(Abstract!Put(AskedSizes, a, n), p + SIZEOF_STRUCT_MEM)
  <2>1. PICK r : r = Put(requested, b, n)
    OBVIOUS
  <2>2. AgreeOn(InUse(heap) \ {b}, r, requested) /\ r[b] = n
    BY <2>1 DEF Put, HeapInv, AgreeOn
  <2>3. At(InUse(heap) \cup {b}, r)
          = Abstract!Put(At(InUse(heap), requested), Addr(b), r[b])
    BY <1>11, <2>2, PutAt
  <2>4. AgreeOn(T \ {p}, requested', r)
    BY <1>2, <1>9, <2>1 DEF Put, Drop, HeapInv, AgreeOn
  <2>5. At(T \ {p}, requested') = Abstract!Drop(At(T, r), Addr(p))
    BY <1>12, <2>4, DropAt
  <2> QED
    BY <1>7, <1>9, <1>10, <2>2, <2>3, <2>5, Views DEF Addr
<1>15. a \in DOMAIN OwnedBlocks' \ DOMAIN OwnedBlocks /\ OwnedBlocks'[a] = MEM_SIZE(heap', b)
  <2>1. DOMAIN OwnedBlocks = Data(InUse(heap))
    BY <1>5, AtFacts, Views DEF Addr
  <2>2. a \notin Data(InUse(heap)) /\ a # p + SIZEOF_STRUCT_MEM
    BY <1>4, <1>5, <1>7, HeapConstants DEF Data
  <2> QED
    BY <1>13, <2>1, <2>2 DEF Abstract!Put, Abstract!Drop
<1>16. Abstract!Apart(OwnedBlocks, a, OwnedBlocks'[a])
  BY <1>8, <1>15, Views DEF Addr
<1> QED
  BY <1>8, <1>13, <1>14, <1>15, <1>16 DEF Abstract!Move, Abstract!NewBlock

LEMMA HeapInitRefines == HeapInit => Abstract!Init
<1> SUFFICES ASSUME HeapInit PROVE OwnedBlocks = <<>> /\ AskedSizes = <<>>
  BY DEF Abstract!Init
<1>1. InUse(heap) = {}
  BY HeapInitHolds DEF HeapInit, HeapInv
<1>2. \A f : At({}, f) = <<>>
  BY DEF At, Data
<1> QED
  BY <1>1, <1>2, Views

LEMMA HeapStepRefines ==
  ASSUME HeapInv, [HeapNext]_heapVars, \A n \in Sizes : n + RT_ALIGN_SIZE - 1 < SizeMod
  PROVE  [Abstract!Next]_<<OwnedBlocks, AskedSizes>>
<1>1. ASSUME NEW n \in Sizes, Malloc(n) PROVE Abstract!Next
  BY <1>1, MallocRefines DEF Abstract!Next
<1>2. ASSUME NEW p \in InUse(heap)
      PROVE  p + SIZEOF_STRUCT_MEM \in DOMAIN OwnedBlocks
  <2>1. InUse(heap) \subseteq Nat
    BY InUseFacts DEF HeapInv
  <2>2. DOMAIN OwnedBlocks = Data(InUse(heap))
    BY <2>1, AtFacts, Views
  <2> QED
    BY <2>2 DEF Data
<1>3. ASSUME NEW p \in InUse(heap), Dealloc(p) PROVE Abstract!Next
  BY <1>2, <1>3, DeallocRefines DEF Abstract!Next
<1>4. ASSUME NEW p \in InUse(heap), NEW n \in Sizes, ReallocFree(p, n) PROVE Abstract!Next
  BY <1>3, <1>4 DEF ReallocFree
<1>5. ASSUME NEW n \in Sizes PROVE n \in Nat /\ RT_ALIGN(n) \in Nat /\ RT_ALIGN(n) >= n
  BY SizesAssumption, AlignFacts
<1>6. ASSUME NEW p \in InUse(heap), NEW n \in Sizes, RT_ALIGN(n) # 0,
             Abstract!Shrink(p + SIZEOF_STRUCT_MEM, n)
      PROVE  Abstract!Next
  <2>1. n # 0
    BY <1>5, <1>6, AlignTwice
  <2> QED
    BY <1>2, <1>6, <2>1 DEF Abstract!Next
<1>7. ASSUME NEW p \in InUse(heap), NEW n \in Sizes, ReallocSame(p, n) PROVE Abstract!Next
  <2>1. /\ heap' = heap /\ requested' = [requested EXCEPT ![p] = n]
        /\ RT_ALIGN(n) # 0 /\ RT_ALIGN(n) = MEM_SIZE(heap, p)
    BY <1>7 DEF ReallocSame
  <2>2. HeapInv'
    BY <2>1 DEF HeapInv
  <2>3. MEM_SIZE(heap', p) >= n /\ MEM_SIZE(heap', p) <= MEM_SIZE(heap, p)
    BY <1>5, <2>1
  <2>4. Abstract!Shrink(p + SIZEOF_STRUCT_MEM, n)
    BY <1>5, <2>1, <2>2, <2>3, ShrinkRefines
  <2> QED
    BY <1>6, <2>1, <2>4
<1>8. ASSUME NEW p \in InUse(heap), NEW n \in Sizes, ReallocCut(p, n) PROVE Abstract!Next
  <2>1. /\ HeapInv'
        /\ InUse(heap') = InUse(heap)
        /\ \A i \in InUse(heap) : i # p => heap'.next[i] = heap.next[i]
        /\ MEM_SIZE(heap', p) = RT_ALIGN(n) /\ RT_ALIGN(n) < MEM_SIZE(heap, p)
        /\ requested' = [requested EXCEPT ![p] = n]
    BY <1>8, CutStep
  <2>2. MEM_SIZE(heap, p) \in Nat
    BY InUseFacts DEF HeapInv
  <2>3. MEM_SIZE(heap', p) >= n /\ MEM_SIZE(heap', p) <= MEM_SIZE(heap, p)
    BY <1>5, <2>1, <2>2
  <2>4. Abstract!Shrink(p + SIZEOF_STRUCT_MEM, n)
    BY <1>5, <2>1, <2>3, ShrinkRefines
  <2>5. RT_ALIGN(n) # 0
    BY <1>8 DEF ReallocCut
  <2> QED
    BY <1>6, <2>4, <2>5
<1>9. ASSUME NEW p \in InUse(heap), NEW n \in Sizes, ReallocMove(p, n) PROVE Abstract!Next
  <2>1. n # 0
    <3>1. RT_ALIGN(n) # 0
      BY <1>9 DEF ReallocMove
    <3> QED
      BY <1>5, <3>1, AlignTwice
  <2>2. Abstract!Move(p + SIZEOF_STRUCT_MEM, n)
    BY <1>9, MoveRefines
  <2> QED
    BY <1>2, <2>1, <2>2 DEF Abstract!Next
<1>10. CASE UNCHANGED heapVars
  BY <1>10 DEF heapVars, OwnedBlocks, AskedSizes, ByAddress
<1> QED
  BY <1>1, <1>3, <1>4, <1>7, <1>8, <1>9, <1>10 DEF HeapNext

(* The heap keeps the allocator's promise to its callers, as long as no    *)
(* size asked for is so near the end of rt_size_t that RT_ALIGN wraps.     *)
THEOREM HeapIsAnAllocator ==
  ASSUME \A n \in Sizes : n + RT_ALIGN_SIZE - 1 < SizeMod
  PROVE  HeapSpec => ImplementsAllocator
<1>1. HeapInv /\ [HeapNext]_heapVars => [Abstract!Next]_<<OwnedBlocks, AskedSizes>>
  BY HeapStepRefines
<1> QED
  BY <1>1, HeapInitRefines, HeapInvariance, PTL DEF HeapSpec, ImplementsAllocator, Abstract!Spec
================================================================================

------------------------------ MODULE MutexProofs ------------------------------
(***************************************************************************)
(* Ownership and hand-off of Mutex for any number of threads and mutexes,  *)
(* any priorities and ceilings, and any mix of timeouts, resumes, detaches *)
(* and ends of threads; for one mutex, the priority that its owner         *)
(* inherits; and, for any number again, that the walk along the owners     *)
(* ends, and that the lists stay in order of priority.                     *)
(***************************************************************************)
EXTENDS Mutex, WaitListProofs, FiniteSetTheorems

(* Where a thread sleeps; in all these places but the last it has the      *)
(* spinlock of the mutex.                                                  *)
Sleeping == {"pend", "boost", "arm", "waiting"}
Dead == {"exit", "drop", "deleted"}

TimerTypes == ttmr \in [Threads -> BOOLEAN] /\ tmr \in [Threads -> BOOLEAN]

(* Only a thread inside a take is suspended, and its error number is       *)
(* RT_EOK; only one that has ended is closed.                              *)
StatInv ==
  \A t \in Threads : /\ stat[t] = "SUSPEND" => pc[t] \in Sleeping /\ error[t] = "EOK"
                     /\ stat[t] = "CLOSE" <=> pc[t] \in Dead

(* A call has a mutex; between two sections it holds the spinlock, and a   *)
(* take that waits for another owner finds one.                            *)
CallInv ==
  \A t \in Threads :
    /\ pc[t] \in Sleeping \cup {"detach"} => at[t] \in Mutexes
    /\ pc[t] \in {"pend", "boost", "arm", "detach"} => lock[at[t]] = t
    /\ pc[t] \in {"pend", "boost", "arm"} => owner[at[t]] \notin {t, NoThread}

(* pending_object is the mutex of the call; a thread that is to be dropped *)
(* from the list of a mutex has one.                                       *)
PendInv ==
  \A t \in Threads :
    /\ pending[t] # NoMutex => /\ pending[t] = at[t]
                               /\ pc[t] \in {"boost", "arm", "waiting", "drop"}
    /\ pc[t] = "drop" => pending[t] # NoMutex

(* A thread that was given the mutex it waited for holds it once.          *)
HeirInv ==
  \A t \in Threads :
    pc[t] = "waiting" /\ owner[at[t]] = t => hold[at[t]] = 1 /\ pending[t] = NoMutex

(* The lists hold threads that sleep for the mutex, each once; nobody is   *)
(* on the list of a mutex that has no owner.                               *)
Sleepers(m) == {t \in Threads : stat[t] = "SUSPEND" /\ at[t] = m}
ListsOK(q) ==
  /\ q \in [Mutexes -> Seq(Threads)]
  /\ \A m \in Mutexes : /\ Unique(q[m])
                        /\ Queued(q[m]) \subseteq Sleepers(m)
                        /\ owner[m] = NoThread => q[m] = <<>>
ListInv == ListsOK(susp)

(* Detaching a mutex voids what was granted.                               *)
GrantInv == \A t \in Threads, m \in Mutexes : granted[t][m] > 0 => m \in alive

(* The inductive invariant.                                                *)
Inv == /\ TypeOK
       /\ TimerTypes
       /\ StatInv
       /\ CallInv
       /\ PendInv
       /\ HeirInv
       /\ ListInv
       /\ GrantInv
       /\ OwnershipHonoured
       /\ HandedOver

-------------------------------------------------------------------------------
(* Priorities.                                                             *)

(* _thread_get_mutex_priority gives a priority.                            *)
LEMMA MutexPriorityType ==
  ASSUME NEW t \in Threads, NEW held \in SUBSET Mutexes,
         NEW mp \in [Mutexes -> 0..NoPrio], NEW cl \in [Mutexes -> 0..NoPrio]
  PROVE  MutexPriority(t, held, mp, cl) \in 0..NoPrio
<1> DEFINE offers == {InitPrio[t]} \cup {Lesser(mp[m], cl[m]) : m \in held}
<1>1. offers \subseteq 0..NoPrio /\ offers # {}
  BY PrioAssumption DEF Lesser
<1>2. offers \subseteq Nat
  BY <1>1
<1>3. PICK p \in offers : \A q \in offers : p <= q
  <2> HIDE DEF offers
  <2> QED BY <1>1, <1>2, LeastNat
<1>4. MutexPriority(t, held, mp, cl) \in offers
  BY <1>3 DEF MutexPriority
<1> QED
  BY <1>1, <1>4

(* So does _mutex_update_priority.                                         *)
LEMMA HeadPriorityType ==
  ASSUME NEW q \in Seq(Threads), NEW prio \in [Threads -> 0..NoPrio]
  PROVE  HeadPriority(q, prio) \in 0..NoPrio
BY DEF HeadPriority, NoPrio

(* The states of the walk along the chain of owners.                       *)
Walks == [t : Threads, go : BOOLEAN, fault : BOOLEAN, susp : [Mutexes -> Seq(Threads)],
          mprio : [Mutexes -> 0..NoPrio], ceil : [Mutexes -> 0..NoPrio],
          curr : [Threads -> 0..NoPrio]]

(* One turn of the loop leaves a thread on the list it waits on, or puts   *)
(* it there again, and nowhere else.                                       *)
LEMMA PropagateKeeps ==
  ASSUME Inv, NEW s \in Walks, ListsOK(s.susp)
  PROVE  PropagateStep(s) \in Walks /\ ListsOK(PropagateStep(s).susp)
<1> DEFINE m == pending[s.t]
           q == SuspListEnqueue(ListRemove(s.susp[m], s.t), s.t, "PRIO", s.curr)
           mp == [s.mprio EXCEPT ![m] = HeadPriority(q, s.curr)]
           o == owner[m]
           p == MutexPriority(o, Taken(o), mp, s.ceil)
           stop == [s EXCEPT !.go = FALSE]
           fail == [s EXCEPT !.go = FALSE, !.fault = TRUE]
           more == [s EXCEPT !.susp = [@ EXCEPT ![m] = q],
                             !.mprio = mp,
                             !.curr = [@ EXCEPT ![o] = p],
                             !.t = o,
                             !.go = (p # s.curr[o])]
<1>0. /\ s.t \in Threads /\ s.go \in BOOLEAN /\ s.fault \in BOOLEAN
      /\ s.susp \in [Mutexes -> Seq(Threads)] /\ s.mprio \in [Mutexes -> 0..NoPrio]
      /\ s.curr \in [Threads -> 0..NoPrio] /\ s.ceil \in [Mutexes -> 0..NoPrio]
  BY DEF Walks
<1>1. CASE ~s.go \/ stat[s.t] # "SUSPEND" \/ m = NoMutex
  <2>1. PropagateStep(s) = stop
    BY <1>1 DEF PropagateStep
  <2>2. stop \in Walks /\ stop.susp = s.susp
    BY DEF Walks
  <2> QED
    BY <2>1, <2>2
<1>2. CASE ~(~s.go \/ stat[s.t] # "SUSPEND" \/ m = NoMutex) /\ o = NoThread
  <2>1. PropagateStep(s) = fail
    BY <1>2 DEF PropagateStep
  <2>2. fail \in Walks /\ fail.susp = s.susp
    BY DEF Walks
  <2> QED
    BY <2>1, <2>2
<1>3. CASE ~(~s.go \/ stat[s.t] # "SUSPEND" \/ m = NoMutex) /\ o # NoThread
  <2>1. PropagateStep(s) = more
    BY <1>3 DEF PropagateStep
  <2>2. m \in Mutexes /\ o \in Threads /\ s.t \in Sleepers(m)
    BY <1>0, <1>3 DEF Inv, TypeOK, PendInv, Sleepers
  <2>3. /\ ListRemove(s.susp[m], s.t) \in Seq(Threads)
        /\ Queued(ListRemove(s.susp[m], s.t)) = Queued(s.susp[m]) \ {s.t}
        /\ Unique(ListRemove(s.susp[m], s.t))
    BY <1>0, <2>2, ListRemoveProperties DEF ListsOK
  <2>4. /\ q \in Seq(Threads)
        /\ Queued(q) = (Queued(s.susp[m]) \ {s.t}) \cup {s.t}
        /\ Unique(q)
    BY <1>0, <2>3, EnqueueProperties
  <2> HIDE DEF q
  <2>5. HeadPriority(q, s.curr) \in 0..NoPrio
    BY <1>0, <2>4, HeadPriorityType
  <2>6. mp \in [Mutexes -> 0..NoPrio]
    BY <1>0, <2>5
  <2>7. Taken(o) \in SUBSET Mutexes /\ s.ceil \in [Mutexes -> 0..NoPrio]
    BY <1>0 DEF Taken, Inv, TypeOK
  <2> HIDE DEF mp
  <2>8. p \in 0..NoPrio
    BY <2>2, <2>6, <2>7, MutexPriorityType
  <2> HIDE DEF p, o, m
  <2>9. more \in Walks /\ more.susp = [s.susp EXCEPT ![m] = q]
    BY <1>0, <2>2, <2>4, <2>6, <2>8 DEF Walks
  <2>10. ListsOK([s.susp EXCEPT ![m] = q])
    BY <1>0, <1>3, <2>2, <2>4 DEF ListsOK, o
  <2> QED
    BY <2>1, <2>9, <2>10
<1> QED
  BY <1>1, <1>2, <1>3

(* The state in which _thread_update_priority begins.                      *)
WalkStart(t, prio, q, mp, cl) ==
  [t |-> t, go |-> TRUE, fault |-> FALSE, susp |-> q, mprio |-> mp,
   ceil |-> cl, curr |-> [curr EXCEPT ![t] = prio]]

(* The walk is what its turns make of its start, one after the other.      *)
LEMMA UpdateRuns ==
  ASSUME NEW t, NEW prio, NEW q, NEW mp, NEW cl, NEW G, WalkStart(t, prio, q, mp, cl) \in G,
         \A s \in G : PropagateStep(s) \in G
  PROVE  \E f \in [0..ChainBound -> G] :
           /\ f[0] = WalkStart(t, prio, q, mp, cl)
           /\ \A i \in 1..ChainBound : f[i] = PropagateStep(f[i - 1])
           /\ ThreadUpdatePriority(t, prio, q, mp, cl) = f[ChainBound]
<1> DEFINE turn == [s \in G |-> PropagateStep(s)]
           start == [t |-> t, go |-> TRUE, fault |-> FALSE, susp |-> q, mprio |-> mp,
                     ceil |-> cl, curr |-> [curr EXCEPT ![t] = prio]]
           IsChain(f) == f = [n \in 0..ChainBound |->
                                IF n = 0 THEN start ELSE PropagateStep(f[n - 1])]
           chain == CHOOSE f : IsChain(f)
<1>1. turn \in [G -> G]
  OBVIOUS
<1>2. start \in G /\ start = WalkStart(t, prio, q, mp, cl)
  BY DEF WalkStart
<1>3. ChainBound \in Nat
  BY PrioAssumption, FS_CardinalityType DEF ChainBound
<1>4. ThreadUpdatePriority(t, prio, q, mp, cl) = chain[ChainBound]
  BY DEF ThreadUpdatePriority
<1> HIDE DEF start
<1>5. IsChain(chain)
  <2>1. PICK f : IsRun(f, turn, G, start, ChainBound)
    <3> HIDE DEF turn, IsChain, chain
    <3> QED BY <1>1, <1>2, <1>3, Iterates
  <2>2. ASSUME NEW i \in 1..ChainBound PROVE f[i] = PropagateStep(f[i - 1])
    <3>1. i - 1 \in 0..ChainBound
      BY <1>3
    <3>2. f[i - 1] \in G /\ f[i] = turn[f[i - 1]]
      <4> HIDE DEF turn
      <4> QED BY <2>1, <3>1 DEF IsRun
    <3>3. turn[f[i - 1]] = PropagateStep(f[i - 1])
      BY <3>2
    <3> QED BY <3>2, <3>3
  <2>3. IsChain(f)
    <3>1. f[0] = start /\ f = [i \in 0..ChainBound |-> f[i]]
      <4> HIDE DEF turn, IsChain
      <4> QED BY <2>1 DEF IsRun
    <3>2. \A i \in 0..ChainBound : f[i] = IF i = 0 THEN start ELSE PropagateStep(f[i - 1])
      <4>1. ASSUME NEW i \in 0..ChainBound
            PROVE  f[i] = IF i = 0 THEN start ELSE PropagateStep(f[i - 1])
        <5>1. i = 0 \/ i \in 1..ChainBound
          BY <1>3
        <5> QED BY <2>2, <3>1, <5>1
      <4> QED BY <4>1
    <3>3. [i \in 0..ChainBound |-> f[i]]
            = [i \in 0..ChainBound |-> IF i = 0 THEN start ELSE PropagateStep(f[i - 1])]
      BY <3>2, Zenon
    <3> QED BY <3>1, <3>3, Zenon
  <2> HIDE DEF IsChain
  <2> QED
    BY <2>3
<1> HIDE DEF chain
<1>6. chain = [n \in 0..ChainBound |-> IF n = 0 THEN start ELSE PropagateStep(chain[n - 1])]
  BY <1>5
<1>7. chain[0] = start
  BY <1>3, <1>6
<1>8. ASSUME NEW i \in 1..ChainBound PROVE chain[i] = PropagateStep(chain[i - 1])
  <2>1. i \in 0..ChainBound /\ i # 0
    BY <1>3
  <2> QED
    BY <1>6, <2>1
<1> DEFINE S == {n \in 0..ChainBound : chain[n] \in G}
<1>9. 0 \in S
  BY <1>2, <1>3, <1>7
<1>10. ASSUME NEW i \in 0..(ChainBound - 1), i \in S
       PROVE  i + 1 \in S
  <2>1. i + 1 \in 1..ChainBound /\ i + 1 \in 0..ChainBound /\ (i + 1) - 1 = i
    BY <1>3
  <2>2. chain[i + 1] = PropagateStep(chain[i])
    BY <1>8, <2>1
  <2> QED
    BY <1>10, <2>1, <2>2
<1>11. 0..ChainBound \subseteq S
  <2> HIDE DEF S
  <2> QED BY <1>3, <1>9, <1>10, SetInduction
<1>12. chain \in [0..ChainBound -> G]
  BY <1>6, <1>11
<1> QED
  BY <1>2, <1>4, <1>7, <1>8, <1>12

(* Its result is in any set that holds the start and that no turn leaves.  *)
LEMMA UpdateWithin ==
  ASSUME NEW t, NEW prio, NEW q, NEW mp, NEW cl, NEW G, WalkStart(t, prio, q, mp, cl) \in G,
         \A s \in G : PropagateStep(s) \in G
  PROVE  ThreadUpdatePriority(t, prio, q, mp, cl) \in G
<1>1. ChainBound \in Nat
  BY PrioAssumption, FS_CardinalityType DEF ChainBound
<1> QED
  BY <1>1, UpdateRuns

(* The whole of _thread_update_priority: the same of the lists, and all    *)
(* priorities stay priorities.                                             *)
LEMMA UpdateKeeps ==
  ASSUME Inv, NEW t \in Threads, NEW prio \in 0..NoPrio, NEW q, ListsOK(q),
         NEW mp \in [Mutexes -> 0..NoPrio], NEW cl \in [Mutexes -> 0..NoPrio]
  PROVE  /\ ThreadUpdatePriority(t, prio, q, mp, cl) \in Walks
         /\ ListsOK(ThreadUpdatePriority(t, prio, q, mp, cl).susp)
<1> DEFINE good == {s \in Walks : ListsOK(s.susp)}
<1>1. \A s \in good : PropagateStep(s) \in good
  BY PropagateKeeps
<1>2. WalkStart(t, prio, q, mp, cl) \in good
  BY DEF Inv, TypeOK, Walks, ListsOK, WalkStart
<1>3. ThreadUpdatePriority(t, prio, q, mp, cl) \in good
  <2> HIDE DEF good
  <2> QED
    BY <1>1, <1>2, UpdateWithin
<1> QED
  BY <1>3

(* A thread that does not wait is the end of the chain: only its own       *)
(* priority changes.                                                       *)
EndsAt(r, t, prio, q, mp) ==
  /\ r.susp = q /\ r.mprio = mp /\ r.fault = FALSE
  /\ r.curr = [curr EXCEPT ![t] = prio]

(* So it is with _thread_update_priority.                                  *)
LEMMA UpdateStops ==
  ASSUME NEW t, NEW prio, NEW q, NEW mp, NEW cl, stat[t] # "SUSPEND"
  PROVE  EndsAt(ThreadUpdatePriority(t, prio, q, mp, cl), t, prio, q, mp)
<1> DEFINE start == WalkStart(t, prio, q, mp, cl)
           stop == [start EXCEPT !.go = FALSE]
           G == {start, stop}
<1>1. start.t = t /\ stop.t = t /\ stop.go = FALSE /\ [stop EXCEPT !.go = FALSE] = stop
  BY DEF WalkStart
<1>2. PropagateStep(start) = stop /\ PropagateStep(stop) = stop
  <2> HIDE DEF start, stop
  <2>1. PropagateStep(stop) = [stop EXCEPT !.go = FALSE]
    BY <1>1 DEF PropagateStep
  <2>2. PropagateStep(start) = [start EXCEPT !.go = FALSE]
    BY <1>1 DEF PropagateStep
  <2> QED
    BY <1>1, <2>1, <2>2 DEF stop
<1>3. ThreadUpdatePriority(t, prio, q, mp, cl) \in G
  <2>1. start \in G /\ \A s \in G : PropagateStep(s) \in G
    <3> HIDE DEF start, stop
    <3> QED BY <1>2
  <2> HIDE DEF G
  <2> QED
    BY <2>1, UpdateWithin
<1>4. \A s \in G : /\ s.susp = q /\ s.mprio = mp /\ s.fault = FALSE
                   /\ s.curr = [curr EXCEPT ![t] = prio]
  <2> DEFINE c == [curr EXCEPT ![t] = prio]
             P(s) == s.susp = q /\ s.mprio = mp /\ s.fault = FALSE /\ s.curr = c
  <2>1. start = [t |-> t, go |-> TRUE, fault |-> FALSE, susp |-> q, mprio |-> mp,
                 ceil |-> cl, curr |-> c]
    BY DEF WalkStart
  <2> HIDE DEF start, c
  <2>2. P(start) /\ P(stop)
    BY <2>1
  <2>3. \A s \in G : P(s)
    <3> HIDE DEF P, stop
    <3> QED BY <2>2
  <2> QED
    BY <2>3 DEF c
<1> HIDE DEF G
<1> QED
  BY <1>3, <1>4 DEF EndsAt

-------------------------------------------------------------------------------
(* The steps that neither queue nor wake anybody.                          *)

(* Nothing is granted, handed over, released or detached.                  *)
LEMMA GrantsKept ==
  ASSUME Inv, UNCHANGED <<owner, hold, granted, alive>>
  PROVE  GrantInv' /\ OwnershipHonoured'
BY DEF Inv, GrantInv, OwnershipHonoured

(* Owners stay as they are while nobody who has been woken moves.          *)
LEMMA OwnersKept ==
  ASSUME Inv, ~halted, UNCHANGED <<owner, granted>>, alive' \subseteq alive,
         \A u \in Threads :
           (pc[u] = "waiting" /\ stat[u] = "READY") \/ pc[u] \in {"drop", "deleted"}
             => pc'[u] = pc[u] /\ at'[u] = at[u] /\ stat'[u] = stat[u] /\ error'[u] = error[u]
  PROVE  HandedOver'
<1>1. SUFFICES ASSUME NEW m \in alive, owner[m] # NoThread
               PROVE  \/ granted[owner[m]][m] > 0
                      \/ /\ pc'[owner[m]] = "waiting" /\ at'[owner[m]] = m
                         /\ stat'[owner[m]] = "READY" /\ error'[owner[m]] = "EOK"
                      \/ pc'[owner[m]] \in {"drop", "deleted"}
  BY DEF HandedOver
<1>2. owner[m] \in Threads
  BY <1>1 DEF Inv, TypeOK
<1> QED
  BY <1>1, <1>2 DEF Inv, HandedOver

(* What a store to one entry of granted changes.                           *)
LEMMA GrantedUpdate ==
  ASSUME TypeOK, NEW t \in Threads, NEW m \in Mutexes, NEW v \in 0..RT_MUTEX_HOLD_MAX,
         granted' = [granted EXCEPT ![t][m] = v]
  PROVE  /\ granted' \in [Threads -> [Mutexes -> 0..RT_MUTEX_HOLD_MAX]]
         /\ \A u \in Threads, x \in Mutexes :
              granted'[u][x] = IF u = t /\ x = m THEN v ELSE granted[u][x]
BY DEF TypeOK

(* The owner takes its mutex once more.                                    *)
LEMMA TakeNestedKeeps ==
  ASSUME Inv, NEW t \in Threads, NEW m \in Mutexes, TakeNested(t, m)
  PROVE  Inv'
<1>10. granted[t][m] > 0 /\ hold[m] = granted[t][m] /\ granted[t][m] \in Nat
  <2>1. granted[t][m] \in Nat
    BY HoldAssumption DEF Inv, TypeOK
  <2>2. m \in alive /\ owner[m] = t /\ t # NoThread /\ ~halted /\ pc[t] = "idle"
    BY NoThreadAssumption DEF TakeNested, Enter
  <2>3. granted[t][m] > 0
    BY <2>2 DEF Inv, HandedOver
  <2>4. hold[m] = granted[t][m]
    BY <2>3 DEF Inv, OwnershipHonoured
  <2> QED
    BY <2>1, <2>3, <2>4 DEF TakeNested
<1>11. /\ granted[t][m] + 1 \in 0..RT_MUTEX_HOLD_MAX
      /\ granted' = [granted EXCEPT ![t][m] = granted[t][m] + 1]
  <2>1. granted[t][m] \in 0..RT_MUTEX_HOLD_MAX
    BY DEF Inv, TypeOK
  <2>2. granted[t][m] + 1 \in 0..RT_MUTEX_HOLD_MAX
    BY <1>10, <2>1, HoldAssumption DEF TakeNested
  <2>3. granted' = [granted EXCEPT ![t][m] = granted[t][m] + 1]
    BY DEF TakeNested
  <2> QED
    BY <2>2, <2>3
<1>12. granted' \in [Threads -> [Mutexes -> 0..RT_MUTEX_HOLD_MAX]]
  BY <1>11, GrantedUpdate DEF Inv
<1>13. \A u \in Threads, x \in Mutexes :
        granted'[u][x] = IF u = t /\ x = m THEN granted[t][m] + 1 ELSE granted[u][x]
  BY <1>11, GrantedUpdate DEF Inv
<1>1. TypeOK' /\ TimerTypes'
  <2>1. hold' \in [Mutexes -> 0..RT_MUTEX_HOLD_MAX]
    BY HoldAssumption DEF Inv, TypeOK, TakeNested
  <2>2. error' \in [Threads -> Errors]
    BY DEF Inv, TypeOK, TakeNested, Errors
  <2> QED
    BY <1>12, <2>1, <2>2 DEF Inv, TypeOK, TimerTypes, TakeNested
<1>2. StatInv' /\ CallInv'
  BY <1>10, NoThreadAssumption, MutexAssumption DEF Inv, TypeOK, StatInv, CallInv, Sleeping,
     Dead, TakeNested, Enter
<1>3. PendInv' /\ HeirInv'
  BY <1>10, MutexAssumption DEF Inv, TypeOK, StatInv, CallInv, PendInv, HeirInv, Sleeping,
     Dead, TakeNested, Enter
<1>4. ListInv'
  BY <1>10, MutexAssumption DEF Inv, TypeOK, StatInv, ListInv, ListsOK, Sleepers, Sleeping,
     TakeNested, Enter
<1>5. GrantInv' /\ OwnershipHonoured'
  <2>1. /\ UNCHANGED <<owner, alive>> /\ m \in alive /\ owner[m] = t
        /\ hold' = [hold EXCEPT ![m] = hold[m] + 1]
    BY DEF TakeNested, Enter
  <2>2. GrantInv'
    BY <1>13, <2>1 DEF Inv, GrantInv
  <2>3. ASSUME NEW u \in Threads, NEW x \in Mutexes, granted'[u][x] > 0
        PROVE  owner[x] = u /\ hold'[x] = granted'[u][x]
    BY <1>10, <1>13, <2>1, <2>3 DEF Inv, TypeOK, OwnershipHonoured
  <2> QED
    BY <2>1, <2>2, <2>3 DEF OwnershipHonoured
<1>6. HandedOver'
  <2>1. \A u \in Threads, x \in Mutexes : granted[u][x] > 0 => granted'[u][x] > 0
    BY <1>10, <1>13
  <2>2. UNCHANGED <<owner, pc, at, stat, alive, halted>>
    BY DEF TakeNested
  <2>3. \A u \in Threads : error'[u] = error[u] \/ error'[u] = "EOK"
    BY DEF Inv, TypeOK, TakeNested
  <2> QED
    BY <2>1, <2>2, <2>3 DEF Inv, TypeOK, HandedOver
<1> QED
  BY <1>1, <1>2, <1>3, <1>4, <1>5, <1>6 DEF Inv

(* A free mutex is taken.                                                  *)
LEMMA TakeFreeKeeps ==
  ASSUME Inv, NEW t \in Threads, NEW m \in Mutexes, TakeFree(t, m)
  PROVE  Inv'
<1>10. Lesser(ceil[m], curr[t]) \in 0..NoPrio
  BY DEF Inv, TypeOK, Lesser, NoPrio
<1>11. /\ 1 \in 0..RT_MUTEX_HOLD_MAX
      /\ granted' = [granted EXCEPT ![t][m] = 1]
  BY HoldAssumption DEF TakeFree
<1>12. granted' \in [Threads -> [Mutexes -> 0..RT_MUTEX_HOLD_MAX]]
  BY <1>11, GrantedUpdate DEF Inv
<1>13. \A u \in Threads, x \in Mutexes :
        granted'[u][x] = IF u = t /\ x = m THEN 1 ELSE granted[u][x]
  BY <1>11, GrantedUpdate DEF Inv
<1>1. TypeOK' /\ TimerTypes'
  <2>1. /\ owner' \in [Mutexes -> Threads \cup {NoThread}]
        /\ hold' \in [Mutexes -> 0..RT_MUTEX_HOLD_MAX]
    BY <1>11 DEF Inv, TypeOK, TakeFree
  <2>2. mprio' \in [Mutexes -> 0..NoPrio] /\ curr' \in [Threads -> 0..NoPrio]
    <3>1. NoPrio \in 0..NoPrio
      BY DEF NoPrio
    <3> QED
      BY <1>10, <3>1 DEF Inv, TypeOK, TakeFree
  <2>3. error' \in [Threads -> Errors]
    BY DEF Inv, TypeOK, TakeFree, Errors
  <2> QED
    BY <1>12, <2>1, <2>2, <2>3 DEF Inv, TypeOK, TimerTypes, TakeFree
<1>2. StatInv' /\ CallInv'
  BY NoThreadAssumption, MutexAssumption DEF Inv, TypeOK, StatInv, CallInv, Sleeping, Dead,
     TakeFree, Enter
<1>3. PendInv' /\ HeirInv'
  BY MutexAssumption DEF Inv, TypeOK, StatInv, CallInv, PendInv, HeirInv, Sleeping, Dead,
     TakeFree, Enter
<1>4. ListInv'
  BY MutexAssumption DEF Inv, TypeOK, StatInv, ListInv, ListsOK, Sleepers, Sleeping,
     TakeFree, Enter
<1>5. GrantInv' /\ OwnershipHonoured'
  BY <1>13, HoldAssumption, NoThreadAssumption DEF Inv, TypeOK, GrantInv, HandedOver,
     OwnershipHonoured, HeirInv, StatInv, CallInv, Dead, TakeFree, Enter
<1>6. HandedOver'
  BY <1>13, HoldAssumption, NoThreadAssumption DEF Inv, TypeOK, HandedOver,
     OwnershipHonoured, HeirInv, StatInv, CallInv, Sleeping, Dead, TakeFree, Enter
<1> QED
  BY <1>1, <1>2, <1>3, <1>4, <1>5, <1>6 DEF Inv

(* The owner releases a mutex it took more than once.                      *)
LEMMA ReleaseNestedKeeps ==
  ASSUME Inv, NEW t \in Threads, NEW m \in Mutexes, ReleaseNested(t, m)
  PROVE  Inv'
<1>10. granted[t][m] > 1 /\ hold[m] = granted[t][m] /\ granted[t][m] \in Nat
  <2>1. granted[t][m] \in Nat
    BY HoldAssumption DEF Inv, TypeOK
  <2>2. m \in alive /\ owner[m] = t /\ t # NoThread /\ ~halted /\ pc[t] = "idle"
    BY NoThreadAssumption DEF ReleaseNested, Enter
  <2>3. granted[t][m] > 0
    BY <2>2 DEF Inv, HandedOver
  <2>4. hold[m] = granted[t][m]
    BY <2>3 DEF Inv, OwnershipHonoured
  <2> QED
    BY <2>1, <2>3, <2>4 DEF ReleaseNested
<1>11. /\ granted[t][m] - 1 \in 0..RT_MUTEX_HOLD_MAX
      /\ granted' = [granted EXCEPT ![t][m] = granted[t][m] - 1]
  <2>1. granted[t][m] \in 0..RT_MUTEX_HOLD_MAX
    BY DEF Inv, TypeOK
  <2>2. granted[t][m] - 1 \in 0..RT_MUTEX_HOLD_MAX
    BY <1>10, <2>1, HoldAssumption DEF ReleaseNested
  <2>3. granted' = [granted EXCEPT ![t][m] = granted[t][m] - 1]
    BY DEF ReleaseNested
  <2> QED
    BY <2>2, <2>3
<1>12. granted' \in [Threads -> [Mutexes -> 0..RT_MUTEX_HOLD_MAX]]
  BY <1>11, GrantedUpdate DEF Inv
<1>13. \A u \in Threads, x \in Mutexes :
        granted'[u][x] = IF u = t /\ x = m THEN granted[t][m] - 1 ELSE granted[u][x]
  BY <1>11, GrantedUpdate DEF Inv
<1>1. TypeOK' /\ TimerTypes'
  BY <1>10, <1>12, HoldAssumption DEF Inv, TypeOK, TimerTypes, ReleaseNested, Enter,
     threadVars
<1>2. StatInv' /\ CallInv'
  BY <1>10, NoThreadAssumption, MutexAssumption DEF Inv, TypeOK, StatInv, CallInv, Sleeping,
     Dead, ReleaseNested, Enter, threadVars
<1>3. PendInv' /\ HeirInv'
  BY <1>10, MutexAssumption DEF Inv, TypeOK, StatInv, CallInv, PendInv, HeirInv, Sleeping,
     Dead, ReleaseNested, Enter, threadVars
<1>4. ListInv'
  BY <1>10, MutexAssumption DEF Inv, TypeOK, StatInv, ListInv, ListsOK, Sleepers, Sleeping,
     ReleaseNested, Enter, threadVars
<1>5. GrantInv' /\ OwnershipHonoured'
  <2>1. /\ UNCHANGED <<owner, alive>> /\ owner[m] = t
        /\ \A x \in Mutexes : hold'[x] = IF x = m THEN hold[m] - 1 ELSE hold[x]
    BY DEF Inv, TypeOK, ReleaseNested
  <2>2. GrantInv'
    BY <1>10, <1>13, <2>1 DEF Inv, GrantInv
  <2>3. ASSUME NEW u \in Threads, NEW x \in Mutexes, granted'[u][x] > 0
        PROVE  owner[x] = u /\ hold'[x] = granted'[u][x]
    BY <1>10, <1>13, <2>1, <2>3 DEF Inv, OwnershipHonoured
  <2> QED
    BY <2>1, <2>2, <2>3 DEF OwnershipHonoured
<1>6. HandedOver'
  <2>1. \A u \in Threads, x \in Mutexes : granted[u][x] > 0 => granted'[u][x] > 0
    BY <1>10, <1>13
  <2>2. UNCHANGED <<owner, pc, at, stat, error, alive, halted>>
    BY DEF ReleaseNested, threadVars
  <2> QED
    BY <2>1, <2>2 DEF Inv, TypeOK, HandedOver
<1> QED
  BY <1>1, <1>2, <1>3, <1>4, <1>5, <1>6 DEF Inv

(* rt_mutex_detach begins.                                                 *)
LEMMA DetachKeeps ==
  ASSUME Inv, NEW t \in Threads, NEW m \in Mutexes, Detach(t, m)
  PROVE  Inv'
<1>1. TypeOK' /\ TimerTypes'
  BY HoldAssumption DEF Inv, TypeOK, TimerTypes, Detach, Enter, Goto, threadVars
<1>2. StatInv' /\ CallInv'
  BY NoThreadAssumption, MutexAssumption DEF Inv, TypeOK, StatInv, CallInv, Sleeping, Dead,
     Detach, Enter, Goto, threadVars
<1>3. PendInv' /\ HeirInv'
  BY MutexAssumption DEF Inv, TypeOK, StatInv, CallInv, PendInv, HeirInv, Sleeping, Dead,
     Detach, Enter, Goto, threadVars
<1>4. ListInv'
  BY MutexAssumption DEF Inv, TypeOK, StatInv, ListInv, ListsOK, Sleepers, Sleeping, Detach,
     Enter, Goto, threadVars
<1>5. GrantInv' /\ OwnershipHonoured'
  <2>1. UNCHANGED <<owner, hold, granted, alive>>
    BY DEF Detach
  <2> QED
    BY <2>1, GrantsKept
<1>6. HandedOver'
  <2>1. \A u \in Threads :
          (pc[u] = "waiting" /\ stat[u] = "READY") \/ pc[u] \in {"drop", "deleted"}
            => pc'[u] = pc[u] /\ at'[u] = at[u] /\ stat'[u] = stat[u] /\ error'[u] = error[u]
    BY DEF Inv, TypeOK, StatInv, Dead, Detach, Enter, Goto, threadVars
  <2>2. ~halted /\ UNCHANGED <<owner, granted, alive>>
    BY DEF Detach, Enter
  <2> QED
    BY <2>1, <2>2, OwnersKept
<1> QED
  BY <1>1, <1>2, <1>3, <1>4, <1>5, <1>6 DEF Inv

(* A take stores pending_object.                                           *)
LEMMA TakePendKeeps ==
  ASSUME Inv, NEW t \in Threads, TakePend(t)
  PROVE  Inv'
<1>1. TypeOK' /\ TimerTypes'
  BY HoldAssumption DEF Inv, TypeOK, TimerTypes, TakePend, At, Goto, threadVars, mutexVars
<1>2. StatInv' /\ CallInv'
  BY NoThreadAssumption, MutexAssumption DEF Inv, TypeOK, StatInv, CallInv, Sleeping, Dead,
     TakePend, At, Goto, threadVars, mutexVars
<1>3. PendInv' /\ HeirInv'
  BY MutexAssumption DEF Inv, TypeOK, StatInv, CallInv, PendInv, HeirInv, Sleeping, Dead,
     TakePend, At, Goto, threadVars, mutexVars
<1>4. ListInv'
  BY MutexAssumption DEF Inv, TypeOK, StatInv, ListInv, ListsOK, Sleepers, Sleeping,
     TakePend, At, Goto, threadVars, mutexVars
<1>5. GrantInv' /\ OwnershipHonoured'
  <2>1. UNCHANGED <<owner, hold, granted, alive>>
    BY DEF TakePend, mutexVars
  <2> QED
    BY <2>1, GrantsKept
<1>6. HandedOver'
  <2>1. \A u \in Threads :
          (pc[u] = "waiting" /\ stat[u] = "READY") \/ pc[u] \in {"drop", "deleted"}
            => pc'[u] = pc[u] /\ at'[u] = at[u] /\ stat'[u] = stat[u] /\ error'[u] = error[u]
    BY DEF Inv, TypeOK, TakePend, At, Goto, threadVars
  <2>2. ~halted /\ UNCHANGED <<owner, granted, alive>>
    BY DEF TakePend, At, mutexVars
  <2> QED
    BY <2>1, <2>2, OwnersKept
<1> QED
  BY <1>1, <1>2, <1>3, <1>4, <1>5, <1>6 DEF Inv

(* A take starts its timer and goes to sleep.                              *)
LEMMA TakeArmKeeps ==
  ASSUME Inv, NEW t \in Threads, TakeArm(t)
  PROVE  Inv'
<1>1. TypeOK' /\ TimerTypes'
  BY HoldAssumption DEF Inv, TypeOK, TimerTypes, TakeArm, At, Goto, TimerStart
<1>2. StatInv' /\ CallInv'
  BY NoThreadAssumption, MutexAssumption DEF Inv, TypeOK, StatInv, CallInv, Sleeping, Dead,
     TakeArm, At, Goto, TimerStart
<1>3. PendInv' /\ HeirInv'
  BY MutexAssumption DEF Inv, TypeOK, StatInv, CallInv, PendInv, HeirInv, Sleeping, Dead,
     TakeArm, At, Goto, TimerStart
<1>4. ListInv'
  BY MutexAssumption DEF Inv, TypeOK, StatInv, ListInv, ListsOK, Sleepers, Sleeping,
     TakeArm, At, Goto, TimerStart
<1>5. GrantInv' /\ OwnershipHonoured'
  <2>1. UNCHANGED <<owner, hold, granted, alive>>
    BY DEF TakeArm
  <2> QED
    BY <2>1, GrantsKept
<1>6. HandedOver'
  <2>1. \A u \in Threads :
          (pc[u] = "waiting" /\ stat[u] = "READY") \/ pc[u] \in {"drop", "deleted"}
            => pc'[u] = pc[u] /\ at'[u] = at[u] /\ stat'[u] = stat[u] /\ error'[u] = error[u]
    BY DEF Inv, TypeOK, TakeArm, At, Goto, TimerStart
  <2>2. ~halted /\ UNCHANGED <<owner, granted, alive>>
    BY DEF TakeArm, At
  <2> QED
    BY <2>1, <2>2, OwnersKept
<1> QED
  BY <1>1, <1>2, <1>3, <1>4, <1>5, <1>6 DEF Inv

(* A woken thread finds that the mutex is its own.                         *)
LEMMA TakeGrantedKeeps ==
  ASSUME Inv, NEW t \in Threads, TakeGranted(t)
  PROVE  Inv'
<1> DEFINE v == IF at[t] \in alive THEN 1 ELSE 0
<1>10. at[t] \in Mutexes
  BY DEF Inv, CallInv, TakeGranted, Resumes, At, Sleeping
<1>11. v \in 0..RT_MUTEX_HOLD_MAX /\ granted' = [granted EXCEPT ![t][at[t]] = v]
  BY HoldAssumption DEF TakeGranted
<1>12. granted' \in [Threads -> [Mutexes -> 0..RT_MUTEX_HOLD_MAX]]
  BY <1>10, <1>11, GrantedUpdate DEF Inv
<1>13. \A u \in Threads, x \in Mutexes :
        granted'[u][x] = IF u = t /\ x = at[t] THEN v ELSE granted[u][x]
  BY <1>10, <1>11, GrantedUpdate DEF Inv
<1>14. v > 0 => at[t] \in alive /\ v = 1 /\ hold[at[t]] = 1 /\ owner[at[t]] = t
  BY DEF Inv, HeirInv, TakeGranted, Resumes, At
<1> HIDE DEF v
<1>1. TypeOK' /\ TimerTypes'
  BY <1>12, HoldAssumption DEF Inv, TypeOK, TimerTypes, TakeGranted, Resumes, At, Leave,
     Goto, mutexVars
<1>2. StatInv' /\ CallInv'
  BY NoThreadAssumption, MutexAssumption DEF Inv, TypeOK, StatInv, CallInv, Sleeping, Dead,
     TakeGranted, Resumes, At, Leave, Goto, mutexVars
<1>3. PendInv' /\ HeirInv'
  BY MutexAssumption DEF Inv, TypeOK, StatInv, CallInv, PendInv, HeirInv, Sleeping, Dead,
     TakeGranted, Resumes, At, Leave, Goto, mutexVars
<1>4. ListInv'
  BY MutexAssumption DEF Inv, TypeOK, StatInv, ListInv, ListsOK, Sleepers, Sleeping,
     TakeGranted, Resumes, At, Leave, Goto, mutexVars
<1>5. GrantInv' /\ OwnershipHonoured'
  <2>1. UNCHANGED <<owner, hold, alive>>
    BY DEF TakeGranted, mutexVars
  <2>2. GrantInv'
    BY <1>13, <1>14, <2>1 DEF Inv, GrantInv
  <2> QED
    BY <1>13, <1>14, <2>1, <2>2 DEF Inv, OwnershipHonoured
<1>6. HandedOver'
  BY <1>12, <1>13, HoldAssumption, NoThreadAssumption DEF Inv, TypeOK, HandedOver,
     OwnershipHonoured, HeirInv, StatInv, CallInv, Sleeping, Dead, TakeGranted, Resumes, At,
     Leave, Goto, mutexVars
<1> QED
  BY <1>1, <1>2, <1>3, <1>4, <1>5, <1>6 DEF Inv

(* The tick takes a timer off its list.                                    *)
LEMMA ExpireKeeps ==
  ASSUME Inv, NEW t \in Threads, Expire(t)
  PROVE  Inv'
<1>1. TypeOK' /\ TimerTypes'
  BY HoldAssumption DEF Inv, TypeOK, TimerTypes, Expire, TimerExpire, mutexVars, callVars
<1>2. StatInv' /\ CallInv'
  BY NoThreadAssumption, MutexAssumption DEF Inv, TypeOK, StatInv, CallInv, Sleeping, Dead,
     Expire, TimerExpire, mutexVars, callVars
<1>3. PendInv' /\ HeirInv'
  BY MutexAssumption DEF Inv, TypeOK, StatInv, CallInv, PendInv, HeirInv, Sleeping, Dead,
     Expire, TimerExpire, mutexVars, callVars
<1>4. ListInv'
  BY MutexAssumption DEF Inv, TypeOK, StatInv, ListInv, ListsOK, Sleepers, Sleeping, Expire,
     TimerExpire, mutexVars, callVars
<1>5. GrantInv' /\ OwnershipHonoured'
  <2>1. UNCHANGED <<owner, hold, granted, alive>>
    BY DEF Expire, mutexVars, callVars
  <2> QED
    BY <2>1, GrantsKept
<1>6. HandedOver'
  BY HoldAssumption, NoThreadAssumption DEF Inv, TypeOK, HandedOver, OwnershipHonoured,
     HeirInv, StatInv, CallInv, Sleeping, Dead, Expire, TimerExpire, mutexVars, callVars
<1> QED
  BY <1>1, <1>2, <1>3, <1>4, <1>5, <1>6 DEF Inv

(* The assertion of _thread_timeout stops the system.                      *)
LEMMA AssertKeeps ==
  ASSUME Inv, TimeoutAssertFails
  PROVE  Inv'
<1>1. TypeOK' /\ TimerTypes'
  BY HoldAssumption DEF Inv, TypeOK, TimerTypes, TimeoutAssertFails,
     ThreadTimeoutAssertFails, mutexVars, callVars
<1>2. StatInv' /\ CallInv'
  BY NoThreadAssumption, MutexAssumption DEF Inv, TypeOK, StatInv, CallInv, Sleeping, Dead,
     TimeoutAssertFails, ThreadTimeoutAssertFails, mutexVars, callVars
<1>3. PendInv' /\ HeirInv'
  BY MutexAssumption DEF Inv, TypeOK, StatInv, CallInv, PendInv, HeirInv, Sleeping, Dead,
     TimeoutAssertFails, ThreadTimeoutAssertFails, mutexVars, callVars
<1>4. ListInv'
  BY MutexAssumption DEF Inv, TypeOK, StatInv, ListInv, ListsOK, Sleepers, Sleeping,
     TimeoutAssertFails, ThreadTimeoutAssertFails, mutexVars, callVars
<1>5. GrantInv' /\ OwnershipHonoured'
  <2>1. UNCHANGED <<owner, hold, granted, alive>>
    BY DEF TimeoutAssertFails, mutexVars, callVars
  <2> QED
    BY <2>1, GrantsKept
<1>6. HandedOver'
  BY HoldAssumption, NoThreadAssumption DEF Inv, TypeOK, HandedOver, OwnershipHonoured,
     HeirInv, StatInv, CallInv, Sleeping, Dead, TimeoutAssertFails,
     ThreadTimeoutAssertFails, mutexVars, callVars
<1> QED
  BY <1>1, <1>2, <1>3, <1>4, <1>5, <1>6 DEF Inv

(* A mutex that was detached is initialized again.                         *)
LEMMA MutexInitKeeps ==
  ASSUME Inv, NEW m \in Mutexes, MutexInit(m)
  PROVE  Inv'
<1>10. susp[m] = <<>>
  <2>1. susp[m] \in Seq(Threads) /\ Queued(susp[m]) = {}
    BY DEF Inv, ListInv, ListsOK, Sleepers, MutexInit
  <2>2. \A i \in 1..Len(susp[m]) : susp[m][i] \in Queued(susp[m])
    BY DEF Queued
  <2>3. Len(susp[m]) \in Nat /\ 1 \notin 1..Len(susp[m])
    BY <2>1, <2>2
  <2> QED
    BY <2>1, <2>3
<1>1. TypeOK' /\ TimerTypes'
  BY HoldAssumption DEF Inv, TypeOK, TimerTypes, MutexInit, threadVars, callVars, NoPrio
<1>2. StatInv' /\ CallInv'
  BY NoThreadAssumption, MutexAssumption DEF Inv, TypeOK, StatInv, CallInv, Sleeping, Dead,
     MutexInit, threadVars, callVars, NoPrio
<1>3. PendInv' /\ HeirInv'
  BY MutexAssumption DEF Inv, TypeOK, StatInv, CallInv, PendInv, HeirInv, Sleeping, Dead,
     MutexInit, threadVars, callVars, NoPrio
<1>4. ListInv'
  BY <1>10, MutexAssumption DEF Inv, TypeOK, StatInv, ListInv, ListsOK, Sleepers, Sleeping,
     MutexInit, threadVars, callVars, NoPrio
<1>5. GrantInv' /\ OwnershipHonoured'
  BY HoldAssumption, NoThreadAssumption DEF Inv, TypeOK, GrantInv, HandedOver,
     OwnershipHonoured, HeirInv, StatInv, CallInv, Dead, MutexInit, threadVars, callVars,
     NoPrio
<1>6. HandedOver'
  BY HoldAssumption, NoThreadAssumption DEF Inv, TypeOK, HandedOver, OwnershipHonoured,
     HeirInv, StatInv, CallInv, Sleeping, Dead, MutexInit, threadVars, callVars, NoPrio
<1> QED
  BY <1>1, <1>2, <1>3, <1>4, <1>5, <1>6 DEF Inv

(* A thread that has ended is created anew.                                *)
LEMMA CreateKeeps ==
  ASSUME Inv, NEW t \in Threads, Create(t)
  PROVE  Inv'
<1>1. TypeOK' /\ TimerTypes'
  BY PrioAssumption, HoldAssumption DEF Inv, TypeOK, TimerTypes, Errors, Create, At, Leave, Goto,
     mutexVars, Taken
<1>2. StatInv' /\ CallInv'
  BY NoThreadAssumption, MutexAssumption DEF Inv, TypeOK, StatInv, CallInv, Sleeping, Dead,
     Create, At, Leave, Goto, mutexVars, Taken
<1>3. PendInv' /\ HeirInv'
  BY MutexAssumption DEF Inv, TypeOK, StatInv, CallInv, PendInv, HeirInv, Sleeping, Dead,
     Create, At, Leave, Goto, mutexVars, Taken
<1>4. ListInv'
  BY MutexAssumption DEF Inv, TypeOK, StatInv, ListInv, ListsOK, Sleepers, Sleeping, Create,
     At, Leave, Goto, mutexVars, Taken
<1>5. GrantInv' /\ OwnershipHonoured'
  BY HoldAssumption, NoThreadAssumption DEF Inv, TypeOK, GrantInv, HandedOver,
     OwnershipHonoured, HeirInv, StatInv, CallInv, Dead, Create, At, Leave, Goto, mutexVars,
     Taken
<1>6. HandedOver'
  BY HoldAssumption, NoThreadAssumption DEF Inv, TypeOK, HandedOver, OwnershipHonoured,
     HeirInv, StatInv, CallInv, Sleeping, Dead, Create, At, Leave, Goto, mutexVars, Taken
<1> QED
  BY <1>1, <1>2, <1>3, <1>4, <1>5, <1>6 DEF Inv

-------------------------------------------------------------------------------
(* The steps that compute priorities again.                                *)

(* What such a step may write.                                             *)
Sound(s) == /\ s.mprio \in [Mutexes -> 0..NoPrio]
            /\ s.curr \in [Threads -> 0..NoPrio]
            /\ ListsOK(s.susp)

(* Nothing is wrong with leaving all but the priorities of the mutexes.    *)
LEMMA SettledSound ==
  ASSUME Inv, NEW mp \in [Mutexes -> 0..NoPrio]
  PROVE  Sound(Settled(susp, mp))
BY DEF Inv, TypeOK, ListInv, Settled, Sound

(* Nor with a walk along the chain of owners.                              *)
LEMMA UpdateSound ==
  ASSUME Inv, NEW t \in Threads, NEW prio \in 0..NoPrio,
         NEW mp \in [Mutexes -> 0..NoPrio], NEW cl \in [Mutexes -> 0..NoPrio]
  PROVE  Sound(ThreadUpdatePriority(t, prio, susp, mp, cl))
<1> DEFINE s == ThreadUpdatePriority(t, prio, susp, mp, cl)
<1>1. s \in Walks /\ ListsOK(s.susp)
  BY UpdateKeeps DEF Inv, ListInv
<1> HIDE DEF s
<1>2. Sound(s)
  BY <1>1 DEF Walks, Sound
<1> QED
  BY <1>2 DEF s

(* The priority of an owner is one.                                        *)
LEMMA OwnerPriority ==
  ASSUME Inv, NEW o \in Threads, NEW mp \in [Mutexes -> 0..NoPrio],
         NEW cl \in [Mutexes -> 0..NoPrio]
  PROVE  MutexPriority(o, Taken(o), mp, cl) \in 0..NoPrio
<1>1. Taken(o) \in SUBSET Mutexes
  BY DEF Taken, Inv, TypeOK
<1> QED
  BY <1>1, MutexPriorityType

(* Withdraw writes such a state.                                           *)
LEMMA WithdrawSound ==
  ASSUME Inv, NEW t \in Threads, NEW m \in Mutexes, Withdraw(t, m)
  PROVE  \E s : Sound(s) /\ Apply(s)
<1> DEFINE o == owner[m]
           mp == [mprio EXCEPT ![m] = HeadPriority(susp[m], curr)]
           p == MutexPriority(o, Taken(o), mp, ceil)
<1>1. mp \in [Mutexes -> 0..NoPrio] /\ ceil \in [Mutexes -> 0..NoPrio]
  BY HeadPriorityType DEF Inv, TypeOK
<1>2. o = NoThread \/ o \in Threads
  BY DEF Inv, TypeOK
<1>3. o \in Threads => p \in 0..NoPrio
  <2> HIDE DEF mp, o
  <2> QED BY <1>1, OwnerPriority
<1>4. Sound(Settled(susp, mp))
  <2> HIDE DEF mp
  <2> QED BY <1>1, SettledSound
<1>5. o \in Threads => Sound(ThreadUpdatePriority(o, p, susp, mp, ceil))
  <2> HIDE DEF mp, o, p
  <2> QED BY <1>1, <1>3, UpdateSound
<1>6. CASE o # NoThread /\ curr[o] = curr[t] /\ p # curr[o]
  BY <1>2, <1>5, <1>6 DEF Withdraw
<1>7. CASE ~(o # NoThread /\ curr[o] = curr[t] /\ p # curr[o])
  <2>1. Apply(Settled(susp, mp))
    <3> HIDE DEF Apply
    <3> QED BY <1>7 DEF Withdraw
  <2> QED BY <1>4, <2>1
<1> QED
  BY <1>6, <1>7

(* The lists and priorities after such a step, if no sleeper moves.        *)
LEMMA ApplyKeeps ==
  ASSUME Inv, NEW s, Sound(s), Apply(s), UNCHANGED <<owner, stat>>,
         \A u \in Threads : stat[u] = "SUSPEND" => at'[u] = at[u]
  PROVE  /\ susp' \in [Mutexes -> Seq(Threads)]
         /\ mprio' \in [Mutexes -> 0..NoPrio]
         /\ curr' \in [Threads -> 0..NoPrio]
         /\ ListInv'
<1>1. /\ susp' \in [Mutexes -> Seq(Threads)]
      /\ mprio' \in [Mutexes -> 0..NoPrio]
      /\ curr' \in [Threads -> 0..NoPrio]
      /\ ListsOK(susp')
  BY DEF Sound, Apply, ListsOK
<1>2. \A m \in Mutexes : Sleepers(m)' = Sleepers(m)
  BY DEF Sleepers
<1>3. ListInv'
  BY <1>1, <1>2 DEF ListInv, ListsOK
<1> QED
  BY <1>1, <1>3

(* A take raises the owner of its mutex.                                   *)
LEMMA TakeBoostKeeps ==
  ASSUME Inv, NEW t \in Threads, TakeBoost(t)
  PROVE  Inv'
<1> DEFINE m == at[t]
           mp == [mprio EXCEPT ![m] = Lesser(curr[t], @)]
<1>10. m \in Mutexes /\ owner[m] \in Threads
  BY DEF Inv, TypeOK, CallInv, Sleeping, TakeBoost, At
<1>12. mp \in [Mutexes -> 0..NoPrio] /\ ceil \in [Mutexes -> 0..NoPrio] /\ curr[t] \in 0..NoPrio
  BY <1>10 DEF Inv, TypeOK, Lesser, NoPrio
<1>13. \E s : Sound(s) /\ Apply(s)
  <2>1. Sound(Settled(susp, mp))
    <3> HIDE DEF mp
    <3> QED BY <1>12, SettledSound
  <2>2. Sound(ThreadUpdatePriority(owner[m], curr[t], susp, mp, ceil))
    <3> HIDE DEF mp, m
    <3> QED BY <1>10, <1>12, UpdateSound
  <2>3. \/ Apply(Settled(susp, mp))
        \/ Apply(ThreadUpdatePriority(owner[m], curr[t], susp, mp, ceil))
    BY DEF TakeBoost
  <2> QED
    BY <2>1, <2>2, <2>3
<1>11. /\ susp' \in [Mutexes -> Seq(Threads)] /\ mprio' \in [Mutexes -> 0..NoPrio]
       /\ curr' \in [Threads -> 0..NoPrio] /\ ListInv'
  <2>1. UNCHANGED <<owner, stat, at>>
    BY DEF TakeBoost
  <2> QED
    BY <1>13, <2>1, ApplyKeeps
<1> HIDE DEF mp, m
<1>1. TypeOK' /\ TimerTypes'
  BY <1>11, <1>10, HoldAssumption DEF Inv, TypeOK, TimerTypes, TakeBoost, At, Goto
<1>2. StatInv' /\ CallInv'
  BY NoThreadAssumption, MutexAssumption DEF Inv, TypeOK, StatInv, CallInv, Sleeping, Dead,
     TakeBoost, At, Goto
<1>3. PendInv' /\ HeirInv'
  BY MutexAssumption DEF Inv, TypeOK, StatInv, CallInv, PendInv, HeirInv, Sleeping, Dead,
     TakeBoost, At, Goto
<1>4. ListInv'
  BY <1>11
<1>5. GrantInv' /\ OwnershipHonoured'
  <2>1. UNCHANGED <<owner, hold, granted, alive>>
    BY DEF TakeBoost
  <2> QED
    BY <2>1, GrantsKept
<1>6. HandedOver'
  <2>1. \A u \in Threads :
          (pc[u] = "waiting" /\ stat[u] = "READY") \/ pc[u] \in {"drop", "deleted"}
            => pc'[u] = pc[u] /\ at'[u] = at[u] /\ stat'[u] = stat[u] /\ error'[u] = error[u]
    BY DEF Inv, TypeOK, TakeBoost, At, Goto
  <2>2. ~halted /\ UNCHANGED <<owner, granted, alive>>
    BY DEF TakeBoost, At
  <2> QED
    BY <2>1, <2>2, OwnersKept
<1> QED
  BY <1>1, <1>2, <1>3, <1>4, <1>5, <1>6 DEF Inv

(* A woken thread finds that it does not own the mutex.                    *)
LEMMA TakeGivenUpKeeps ==
  ASSUME Inv, NEW t \in Threads, TakeGivenUp(t)
  PROVE  Inv'
<1>10. at[t] \in Mutexes /\ stat[t] = "READY"
  BY DEF Inv, CallInv, Sleeping, TakeGivenUp, Resumes, At
<1>12. \E s : Sound(s) /\ Apply(s)
  BY <1>10, WithdrawSound DEF TakeGivenUp
<1>11. /\ susp' \in [Mutexes -> Seq(Threads)] /\ mprio' \in [Mutexes -> 0..NoPrio]
       /\ curr' \in [Threads -> 0..NoPrio] /\ ListInv'
  <2>1. UNCHANGED <<owner, stat>> /\ \A u \in Threads : stat[u] = "SUSPEND" => at'[u] = at[u]
    BY <1>10 DEF Inv, TypeOK, TakeGivenUp, Leave
  <2> QED
    BY <1>12, <2>1, ApplyKeeps
<1>1. TypeOK' /\ TimerTypes'
  BY <1>11, <1>10, HoldAssumption DEF Inv, TypeOK, TimerTypes, TakeGivenUp, Resumes, At,
     Leave, Goto
<1>2. StatInv' /\ CallInv'
  BY NoThreadAssumption, MutexAssumption DEF Inv, TypeOK, StatInv, CallInv, Sleeping, Dead,
     TakeGivenUp, Resumes, At, Leave, Goto
<1>3. PendInv' /\ HeirInv'
  <2>1. /\ pending' = [pending EXCEPT ![t] = NoMutex]
        /\ pc' = [pc EXCEPT ![t] = "idle"] /\ at' = [at EXCEPT ![t] = NoMutex]
        /\ UNCHANGED <<owner, hold>>
    BY DEF TakeGivenUp, Leave, Goto
  <2>2. PendInv'
    BY <2>1 DEF Inv, TypeOK, PendInv
  <2> QED
    BY <2>1, <2>2 DEF Inv, TypeOK, HeirInv
<1>4. ListInv'
  BY <1>11
<1>5. GrantInv' /\ OwnershipHonoured'
  <2>1. UNCHANGED <<owner, hold, granted, alive>>
    BY DEF TakeGivenUp, Leave
  <2> QED
    BY <2>1, GrantsKept
<1>6. HandedOver'
  BY HoldAssumption, NoThreadAssumption DEF Inv, TypeOK, HandedOver, OwnershipHonoured,
     HeirInv, StatInv, CallInv, Sleeping, Dead, TakeGivenUp, Resumes, At, Leave, Goto
<1> QED
  BY <1>1, <1>2, <1>3, <1>4, <1>5, <1>6 DEF Inv

(* A deleted thread is taken out of the priorities.                        *)
LEMMA DropThreadKeeps ==
  ASSUME Inv, NEW t \in Threads, DropThread(t)
  PROVE  Inv'
<1>10. pending[t] \in Mutexes
  BY DEF Inv, TypeOK, PendInv, DropThread, At
<1>12. \E s : Sound(s) /\ Apply(s)
  BY <1>10, WithdrawSound DEF DropThread
<1>11. /\ susp' \in [Mutexes -> Seq(Threads)] /\ mprio' \in [Mutexes -> 0..NoPrio]
       /\ curr' \in [Threads -> 0..NoPrio] /\ ListInv'
  <2>1. UNCHANGED <<owner, stat, at>>
    BY DEF DropThread
  <2> QED
    BY <1>12, <2>1, ApplyKeeps
<1>1. TypeOK' /\ TimerTypes'
  BY <1>11, <1>10, HoldAssumption DEF Inv, TypeOK, TimerTypes, DropThread, At, Goto
<1>2. StatInv' /\ CallInv'
  BY NoThreadAssumption, MutexAssumption DEF Inv, TypeOK, StatInv, CallInv, Sleeping, Dead,
     DropThread, At, Goto
<1>3. PendInv' /\ HeirInv'
  BY MutexAssumption DEF Inv, TypeOK, StatInv, CallInv, PendInv, HeirInv, Sleeping, Dead,
     DropThread, At, Goto
<1>4. ListInv'
  BY <1>11
<1>5. GrantInv' /\ OwnershipHonoured'
  <2>1. UNCHANGED <<owner, hold, granted, alive>>
    BY DEF DropThread
  <2> QED
    BY <2>1, GrantsKept
<1>6. HandedOver'
  BY HoldAssumption, NoThreadAssumption DEF Inv, TypeOK, HandedOver, OwnershipHonoured,
     HeirInv, StatInv, CallInv, Sleeping, Dead, DropThread, At, Goto
<1> QED
  BY <1>1, <1>2, <1>3, <1>4, <1>5, <1>6 DEF Inv

(* rt_mutex_setprioceiling.                                                *)
LEMMA SetPrioCeilingKeeps ==
  ASSUME Inv, NEW t \in Threads, NEW m \in Mutexes, NEW c \in Ceilings,
         SetPrioCeiling(t, m, c)
  PROVE  Inv'
<1> DEFINE o == owner[m]
           cl == [ceil EXCEPT ![m] = c]
           p == MutexPriority(o, Taken(o), mprio, cl)
<1>10. cl \in [Mutexes -> 0..NoPrio] /\ mprio \in [Mutexes -> 0..NoPrio] /\ ceil' = cl
  BY CallsAssumption DEF Inv, TypeOK, SetPrioCeiling
<1>12. \E s : Sound(s) /\ Apply(s)
  <2>1. o = NoThread \/ o \in Threads
    BY DEF Inv, TypeOK
  <2>2. o \in Threads => p \in 0..NoPrio
    <3> HIDE DEF cl, o
    <3> QED BY <1>10, OwnerPriority
  <2>3. Sound(Settled(susp, mprio))
    BY <1>10, SettledSound
  <2>4. o \in Threads => Sound(ThreadUpdatePriority(o, p, susp, mprio, cl))
    <3> HIDE DEF cl, o, p
    <3> QED BY <1>10, <2>2, UpdateSound
  <2>5. \/ Apply(Settled(susp, mprio))
        \/ o # NoThread /\ Apply(ThreadUpdatePriority(o, p, susp, mprio, cl))
    BY DEF SetPrioCeiling
  <2> QED
    BY <2>1, <2>3, <2>4, <2>5
<1>11. /\ susp' \in [Mutexes -> Seq(Threads)] /\ mprio' \in [Mutexes -> 0..NoPrio]
       /\ curr' \in [Threads -> 0..NoPrio] /\ ListInv'
  <2>1. UNCHANGED <<owner, stat, at>>
    BY DEF SetPrioCeiling, callVars
  <2> QED
    BY <1>12, <2>1, ApplyKeeps
<1> HIDE DEF cl
<1>1. TypeOK' /\ TimerTypes'
  BY <1>11, <1>10, HoldAssumption DEF Inv, TypeOK, TimerTypes, SetPrioCeiling, Enter,
     callVars
<1>2. StatInv' /\ CallInv'
  BY NoThreadAssumption, MutexAssumption DEF Inv, TypeOK, StatInv, CallInv, Sleeping, Dead,
     SetPrioCeiling, Enter, callVars
<1>3. PendInv' /\ HeirInv'
  BY MutexAssumption DEF Inv, TypeOK, StatInv, CallInv, PendInv, HeirInv, Sleeping, Dead,
     SetPrioCeiling, Enter, callVars
<1>4. ListInv'
  BY <1>11
<1>5. GrantInv' /\ OwnershipHonoured'
  <2>1. UNCHANGED <<owner, hold, granted, alive>>
    BY DEF SetPrioCeiling, callVars
  <2> QED
    BY <2>1, GrantsKept
<1>6. HandedOver'
  <2>1. \A u \in Threads :
          (pc[u] = "waiting" /\ stat[u] = "READY") \/ pc[u] \in {"drop", "deleted"}
            => pc'[u] = pc[u] /\ at'[u] = at[u] /\ stat'[u] = stat[u] /\ error'[u] = error[u]
    BY DEF Inv, TypeOK, SetPrioCeiling, callVars
  <2>2. ~halted /\ UNCHANGED <<owner, granted, alive>>
    BY DEF SetPrioCeiling, Enter, callVars
  <2> QED
    BY <2>1, <2>2, OwnersKept
<1> QED
  BY <1>1, <1>2, <1>3, <1>4, <1>5, <1>6 DEF Inv

-------------------------------------------------------------------------------
(* The steps that put one thread on a list or take one off.                *)

(* A thread is taken off the lists and does not sleep any more.            *)
LEMMA RemoveKeeps ==
  ASSUME Inv, NEW u, susp' = [m \in Mutexes |-> ListRemove(susp[m], u)],
         UNCHANGED <<owner, at>>, \A v \in Threads \ {u} : stat'[v] = stat[v]
  PROVE  susp' \in [Mutexes -> Seq(Threads)] /\ ListInv'
<1>1. ASSUME NEW m \in Mutexes
      PROVE  /\ susp'[m] \in Seq(Threads) /\ Unique(susp'[m])
             /\ Queued(susp'[m]) = Queued(susp[m]) \ {u}
             /\ owner[m] = NoThread => susp'[m] = <<>>
  <2>1. susp[m] \in Seq(Threads) /\ Unique(susp[m]) /\ susp'[m] = ListRemove(susp[m], u)
    BY DEF Inv, ListInv, ListsOK
  <2>2. susp[m] = <<>> => ListRemove(susp[m], u) = <<>>
    BY DEF ListRemove
  <2> QED
    BY <2>1, <2>2, ListRemoveProperties DEF Inv, ListInv, ListsOK
<1>2. susp' \in [Mutexes -> Seq(Threads)]
  BY <1>1
<1>3. \A m \in Mutexes : Sleepers(m) \ {u} \subseteq Sleepers(m)'
  BY DEF Sleepers
<1>4. \A m \in Mutexes : Queued(susp[m]) \subseteq Sleepers(m)
  BY DEF Inv, ListInv, ListsOK
<1>5. \A m \in Mutexes : Queued(susp'[m]) \subseteq Sleepers(m)'
  BY <1>1, <1>3, <1>4
<1> QED
  BY <1>1, <1>2, <1>5 DEF ListInv, ListsOK

(* The priority that a thread has without m.                               *)
LEMMA RestoredType ==
  ASSUME Inv, NEW t \in Threads, NEW m \in Mutexes
  PROVE  RestoredPrio(t, m) \in [Threads -> 0..NoPrio]
<1>1. Taken(t) \ {m} \in SUBSET Mutexes
  BY DEF Taken, Inv, TypeOK
<1>2. MutexPriority(t, Taken(t) \ {m}, mprio, ceil) \in 0..NoPrio
  BY <1>1, MutexPriorityType DEF Inv, TypeOK
<1> QED
  BY <1>2 DEF RestoredPrio, Inv, TypeOK

(* A take of a mutex that another thread owns.                             *)
LEMMA TakeSuspendKeeps ==
  ASSUME Inv, NEW t \in Threads, NEW m \in Mutexes, NEW timeout,
         TakeSuspend(t, m, timeout)
  PROVE  Inv'
<1> DEFINE q == SuspListEnqueue(susp[m], t, "PRIO", curr)
<1>10. t \notin Queued(susp[m]) /\ "EOK" \in Errors
  BY DEF Inv, ListInv, ListsOK, Sleepers, TakeSuspend, Enter, Errors
<1>12. q \in Seq(Threads) /\ Queued(q) = Queued(susp[m]) \cup {t} /\ Unique(q)
  BY <1>10, EnqueueProperties DEF Inv, ListInv, ListsOK
<1>13. susp' = [susp EXCEPT ![m] = q]
  BY DEF TakeSuspend
<1> HIDE DEF q
<1>11. susp' \in [Mutexes -> Seq(Threads)] /\ ListInv'
  <2>1. susp' \in [Mutexes -> Seq(Threads)]
    BY <1>12, <1>13 DEF Inv, TypeOK
  <2>2. \A x \in Mutexes : Sleepers(x) \subseteq Sleepers(x)'
    BY DEF Inv, TypeOK, Sleepers, TakeSuspend, Enter, SuspendSelf
  <2>3. t \in Sleepers(m)' /\ owner' = owner /\ owner[m] # NoThread
    BY DEF Inv, TypeOK, Sleepers, TakeSuspend, SuspendSelf
  <2> QED
    BY <1>12, <1>13, <2>1, <2>2, <2>3 DEF Inv, TypeOK, ListInv, ListsOK
<1>1. TypeOK' /\ TimerTypes'
  BY <1>11, <1>10, HoldAssumption DEF Inv, TypeOK, TimerTypes, TakeSuspend, SuspendSelf,
     Enter, Goto
<1>2. StatInv' /\ CallInv'
  BY NoThreadAssumption, MutexAssumption DEF Inv, TypeOK, StatInv, CallInv, Sleeping, Dead,
     TakeSuspend, SuspendSelf, Enter, Goto
<1>3. PendInv' /\ HeirInv'
  BY MutexAssumption DEF Inv, TypeOK, StatInv, CallInv, PendInv, HeirInv, Sleeping, Dead,
     TakeSuspend, SuspendSelf, Enter, Goto
<1>4. ListInv'
  BY <1>11
<1>5. GrantInv' /\ OwnershipHonoured'
  <2>1. UNCHANGED <<owner, hold, granted, alive>>
    BY DEF TakeSuspend
  <2> QED
    BY <2>1 DEF Inv, GrantInv, OwnershipHonoured
<1>6. HandedOver'
  <2>1. \A u \in Threads :
          (pc[u] = "waiting" /\ stat[u] = "READY") \/ pc[u] \in {"drop", "deleted"}
            => pc'[u] = pc[u] /\ at'[u] = at[u] /\ stat'[u] = stat[u] /\ error'[u] = error[u]
    BY DEF Inv, TypeOK, StatInv, Dead, TakeSuspend, SuspendSelf, Enter, Goto
  <2>2. ~halted /\ UNCHANGED <<owner, granted, alive>>
    BY DEF TakeSuspend, Enter
  <2> QED
    BY <2>1, <2>2, OwnersKept
<1> QED
  BY <1>1, <1>2, <1>3, <1>4, <1>5, <1>6 DEF Inv

(* rt_mutex_detach wakes one waiter.                                       *)
LEMMA DetachStepKeeps ==
  ASSUME Inv, NEW t \in Threads, DetachStep(t)
  PROVE  Inv'
<1> DEFINE m == at[t]
           u == Head(susp[m])
<1>10. /\ m \in Mutexes /\ lock[m] = t /\ susp[m] # <<>> /\ susp[m] \in Seq(Threads)
       /\ u \in Threads /\ u \in Sleepers(m) /\ ReadyOK(u) /\ "ERROR" \in Errors
  <2>1. m \in Mutexes /\ lock[m] = t
    BY DEF Inv, CallInv, DetachStep, At
  <2>2. susp[m] # <<>> /\ susp[m] \in Seq(Threads) /\ ReadyOK(u)
    BY <2>1 DEF Inv, TypeOK, DetachStep, DequeueOK
  <2>3. u \in Queued(susp[m])
    BY <2>1, <2>2, TailProperties DEF Inv, ListInv, ListsOK
  <2> QED
    BY <2>1, <2>2, <2>3 DEF Inv, ListInv, ListsOK, Sleepers, Errors
<1>12. /\ Tail(susp[m]) \in Seq(Threads) /\ Unique(Tail(susp[m]))
       /\ Queued(Tail(susp[m])) = Queued(susp[m]) \ {u}
  BY <1>10, TailProperties DEF Inv, ListInv, ListsOK
<1>13. /\ susp' = [susp EXCEPT ![m] = Tail(susp[m])]
       /\ stat' = [stat EXCEPT ![u] = "READY"] /\ error' = [error EXCEPT ![u] = "ERROR"]
       /\ tmr' = [tmr EXCEPT ![u] = tmr[u] /\ ~(stat[u] = "SUSPEND" /\ ttmr[u])]
       /\ ttmr' = [ttmr EXCEPT ![u] = ttmr[u] /\ stat[u] # "SUSPEND"]
  BY <1>10 DEF DetachStep, ThreadReady
<1>14. stat[u] = "SUSPEND" /\ at[u] = m
  BY <1>10 DEF Sleepers
<1> HIDE DEF u
<1>11. susp' \in [Mutexes -> Seq(Threads)] /\ ListInv'
  <2>1. susp' \in [Mutexes -> Seq(Threads)]
    BY <1>12, <1>13 DEF Inv, TypeOK
  <2>2. \A x \in Mutexes : Sleepers(x) \ {u} \subseteq Sleepers(x)'
    BY <1>13 DEF Inv, TypeOK, Sleepers, DetachStep, callVars
  <2>3. \A x \in Mutexes \ {m} : u \notin Sleepers(x)
    BY <1>14 DEF Sleepers
  <2>4. \A x \in Mutexes : Queued(susp[x]) \subseteq Sleepers(x)
    BY DEF Inv, ListInv, ListsOK
  <2>5. ASSUME NEW x \in Mutexes PROVE Queued(susp'[x]) \subseteq Sleepers(x)'
    <3>1. CASE x = m
      <4>1. Queued(susp'[x]) = Queued(susp[m]) \ {u}
        BY <1>12, <1>13, <3>1 DEF Inv, TypeOK
      <4> QED BY <2>2, <2>4, <3>1, <4>1
    <3>2. CASE x # m
      <4>1. susp'[x] = susp[x]
        BY <1>13, <3>2 DEF Inv, TypeOK
      <4> QED BY <2>2, <2>3, <2>4, <3>2, <4>1
    <3> QED BY <3>1, <3>2
  <2>6. \A x \in Mutexes : owner'[x] = NoThread => susp'[x] = <<>>
    BY <1>10, <1>13 DEF Inv, TypeOK, ListInv, ListsOK, DetachStep
  <2>7. \A x \in Mutexes : Unique(susp'[x])
    BY <1>12, <1>13 DEF Inv, TypeOK, ListInv, ListsOK
  <2> QED
    BY <2>1, <2>5, <2>6, <2>7 DEF ListInv, ListsOK
<1> HIDE DEF m
<1>1. TypeOK' /\ TimerTypes'
  <2>1. tmr' \in [Threads -> BOOLEAN] /\ ttmr' \in [Threads -> BOOLEAN]
    BY <1>13 DEF Inv, TimerTypes
  <2>2. stat' \in [Threads -> {"READY", "SUSPEND", "CLOSE"}] /\ error' \in [Threads -> Errors]
    BY <1>10, <1>13 DEF Inv, TypeOK
  <2> QED
    BY <1>11, <2>1, <2>2 DEF Inv, TypeOK, TimerTypes, DetachStep, callVars
<1>2. StatInv' /\ CallInv'
  <2>1. UNCHANGED <<pc, at, lock, owner>>
    BY DEF DetachStep, callVars
  <2>2. u \in Threads /\ pc[u] \in Sleeping
    BY <1>10, <1>14 DEF Inv, StatInv
  <2>3. StatInv'
    BY <1>13, <2>1, <2>2 DEF Inv, TypeOK, StatInv, Sleeping, Dead
  <2> QED
    BY <2>1, <2>3 DEF Inv, CallInv
<1>3. PendInv' /\ HeirInv'
  BY MutexAssumption DEF Inv, TypeOK, StatInv, CallInv, PendInv, HeirInv, Sleeping, Dead,
     DetachStep, ThreadReady, At, callVars
<1>4. ListInv'
  BY <1>11
<1>5. GrantInv' /\ OwnershipHonoured'
  <2>1. UNCHANGED <<owner, hold, granted, alive>>
    BY DEF DetachStep, callVars
  <2> QED
    BY <2>1, GrantsKept
<1>6. HandedOver'
  <2>1. \A x \in Threads :
          (pc[x] = "waiting" /\ stat[x] = "READY") \/ pc[x] \in {"drop", "deleted"}
            => pc'[x] = pc[x] /\ at'[x] = at[x] /\ stat'[x] = stat[x] /\ error'[x] = error[x]
    BY <1>10, <1>13, <1>14 DEF Inv, TypeOK, StatInv, Sleeping, DetachStep, callVars
  <2>2. ~halted /\ UNCHANGED <<owner, granted, alive>>
    BY DEF DetachStep, At, callVars
  <2> QED
    BY <2>1, <2>2, OwnersKept
<1> QED
  BY <1>1, <1>2, <1>3, <1>4, <1>5, <1>6 DEF Inv

(* rt_mutex_detach ends.                                                   *)
LEMMA DetachDoneKeeps ==
  ASSUME Inv, NEW t \in Threads, DetachDone(t)
  PROVE  Inv'
<1> DEFINE m == at[t]
<1>10. m \in Mutexes /\ lock[m] = t
  BY DEF Inv, CallInv, DetachDone, At
<1>12. UNCHANGED stat /\ tmr' \in [Threads -> BOOLEAN] /\ ttmr' \in [Threads -> BOOLEAN]
  <2>1. CASE susp[m] = <<>>
    BY <2>1 DEF Inv, TimerTypes, DetachDone
  <2>2. CASE susp[m] # <<>>
    <3>1. ThreadReady(Head(susp[m])) /\ ~ReadyOK(Head(susp[m]))
      BY <2>2 DEF DetachDone, DequeueOK
    <3> QED
      BY <3>1 DEF Inv, TypeOK, TimerTypes, ThreadReady
  <2> QED
    BY <2>1, <2>2
<1>13. curr' \in [Threads -> 0..NoPrio]
  BY <1>10, RestoredType DEF Inv, TypeOK, DetachDone
<1>14. /\ granted' \in [Threads -> [Mutexes -> 0..RT_MUTEX_HOLD_MAX]]
       /\ \A u \in Threads, x \in Mutexes : granted'[u][x] = IF x = m THEN 0 ELSE granted[u][x]
  BY <1>10, HoldAssumption DEF Inv, TypeOK, DetachDone
<1>15. /\ pc' = [pc EXCEPT ![t] = "idle"] /\ at' = [at EXCEPT ![t] = NoMutex]
       /\ timed' = [timed EXCEPT ![t] = FALSE] /\ lock' = [lock EXCEPT ![m] = NoThread]
       /\ alive' = alive \ {m} /\ ~halted /\ pc[t] = "detach"
       /\ UNCHANGED <<error, isr, halted, owner, hold, mprio, ceil, susp, pending>>
  BY DEF DetachDone, At, Leave, Goto
<1> HIDE DEF m
<1>1. TypeOK' /\ TimerTypes'
  <2>1. alive' \subseteq Mutexes /\ lock' \in [Mutexes -> Threads \cup {NoThread}]
    BY <1>15 DEF Inv, TypeOK
  <2> QED
    BY <1>12, <1>13, <1>14, <1>15, <2>1 DEF Inv, TypeOK, TimerTypes
<1>2. StatInv' /\ CallInv'
  <2>1. StatInv'
    BY <1>12, <1>15 DEF Inv, TypeOK, StatInv, Sleeping, Dead
  <2> QED
    BY <1>10, <1>15, <2>1 DEF Inv, TypeOK, CallInv, Sleeping, m
<1>3. PendInv' /\ HeirInv'
  <2> QED BY <1>15 DEF Inv, TypeOK, PendInv, HeirInv
<1>4. ListInv'
  BY <1>12, <1>15 DEF Inv, TypeOK, StatInv, ListInv, ListsOK, Sleepers, Sleeping
<1>5. GrantInv' /\ OwnershipHonoured'
  <2>1. GrantInv'
    BY <1>14, <1>15 DEF Inv, GrantInv
  <2> QED
    BY <1>14, <1>15, <2>1 DEF Inv, OwnershipHonoured
<1>6. HandedOver'
  <2>1. SUFFICES ASSUME NEW x \in alive, x # m, owner[x] # NoThread
                 PROVE  \/ granted'[owner[x]][x] > 0
                        \/ /\ pc'[owner[x]] = "waiting" /\ at'[owner[x]] = x
                           /\ stat'[owner[x]] = "READY" /\ error'[owner[x]] = "EOK"
                        \/ pc'[owner[x]] \in {"drop", "deleted"}
    BY <1>15 DEF HandedOver
  <2>2. owner[x] \in Threads /\ x \in Mutexes
    BY <2>1 DEF Inv, TypeOK
  <2> QED
    BY <1>12, <1>14, <1>15, <2>1, <2>2 DEF Inv, TypeOK, HandedOver
<1> QED
  BY <1>1, <1>2, <1>3, <1>4, <1>5, <1>6 DEF Inv

(* A timeout wakes a sleeper.                                              *)
LEMMA TimeoutKeeps ==
  ASSUME Inv, Timeout
  PROVE  Inv'
<1>10. isr \in Threads /\ stat[isr] = "SUSPEND" /\ "ETIMEOUT" \in Errors
  BY DEF Inv, TypeOK, Timeout, ThreadTimeout, Errors
<1>11. susp' \in [Mutexes -> Seq(Threads)] /\ ListInv'
  <2>1. UNCHANGED <<owner, at>> /\ \A v \in Threads \ {isr} : stat'[v] = stat[v]
    BY DEF Inv, TypeOK, Timeout, ThreadTimeout, callVars
  <2>2. susp' = [m \in Mutexes |-> ListRemove(susp[m], isr)]
    BY DEF Timeout
  <2> QED
    BY <1>10, <2>1, <2>2, RemoveKeeps
<1>1. TypeOK' /\ TimerTypes'
  BY <1>11, <1>10, HoldAssumption DEF Inv, TypeOK, TimerTypes, Timeout, ThreadTimeout,
     callVars
<1>2. StatInv' /\ CallInv'
  BY NoThreadAssumption, MutexAssumption DEF Inv, TypeOK, StatInv, CallInv, Sleeping, Dead,
     Timeout, ThreadTimeout, callVars
<1>3. PendInv' /\ HeirInv'
  BY MutexAssumption DEF Inv, TypeOK, StatInv, CallInv, PendInv, HeirInv, Sleeping, Dead,
     Timeout, ThreadTimeout, callVars
<1>4. ListInv'
  BY <1>11
<1>5. GrantInv' /\ OwnershipHonoured'
  <2>1. UNCHANGED <<owner, hold, granted, alive>>
    BY DEF Timeout, callVars
  <2> QED
    BY <2>1, GrantsKept
<1>6. HandedOver'
  <2>1. \A u \in Threads :
          (pc[u] = "waiting" /\ stat[u] = "READY") \/ pc[u] \in {"drop", "deleted"}
            => pc'[u] = pc[u] /\ at'[u] = at[u] /\ stat'[u] = stat[u] /\ error'[u] = error[u]
    BY <1>10 DEF Inv, TypeOK, StatInv, Sleeping, Timeout, ThreadTimeout, callVars
  <2>2. ~halted /\ UNCHANGED <<owner, granted, alive>>
    BY DEF Timeout, ThreadTimeout, callVars
  <2> QED
    BY <2>1, <2>2, OwnersKept
<1> QED
  BY <1>1, <1>2, <1>3, <1>4, <1>5, <1>6 DEF Inv

(* rt_thread_resume on a thread that waits.                                *)
LEMMA ThreadResumeKeeps ==
  ASSUME Inv, NEW t \in Threads, ThreadResume(t)
  PROVE  Inv'
<1>10. /\ tmr' \in [Threads -> BOOLEAN] /\ ttmr' \in [Threads -> BOOLEAN]
       /\ \A v \in Threads \ {t} : stat'[v] = stat[v]
       /\ stat[t] = "SUSPEND" /\ stat'[t] \in {"READY", "SUSPEND"}
       /\ stat'[t] = "SUSPEND" => susp' = susp
       /\ stat' \in [Threads -> {"READY", "SUSPEND", "CLOSE"}]
  <2>1. stat[t] = "SUSPEND" /\ ThreadReady(t) /\ (~ReadyOK(t) => susp' = susp)
    BY DEF ThreadResume
  <2>2. stat' = [stat EXCEPT ![t] = IF ReadyOK(t) THEN "READY" ELSE "SUSPEND"]
    BY <2>1 DEF Inv, TypeOK, ThreadReady
  <2>3. tmr' \in [Threads -> BOOLEAN] /\ ttmr' \in [Threads -> BOOLEAN]
    BY <2>1 DEF Inv, TimerTypes, ThreadReady
  <2> QED
    BY <2>1, <2>2, <2>3 DEF Inv, TypeOK
<1>11. susp' \in [Mutexes -> Seq(Threads)] /\ ListInv'
  <2>1. UNCHANGED <<owner, at>>
    BY DEF ThreadResume, callVars
  <2>2. CASE ReadyOK(t)
    <3>1. susp' = [m \in Mutexes |-> ListRemove(susp[m], t)]
      BY <2>2 DEF ThreadResume
    <3> QED
      BY <1>10, <2>1, <3>1, RemoveKeeps
  <2>3. CASE ~ReadyOK(t)
    <3>1. susp' = susp /\ stat' = stat
      BY <2>3 DEF Inv, TypeOK, ThreadResume, ThreadReady
    <3> QED
      BY <2>1, <3>1 DEF Inv, TypeOK, ListInv, ListsOK, Sleepers
  <2> QED
    BY <2>2, <2>3
<1>1. TypeOK' /\ TimerTypes'
  BY <1>11, <1>10, HoldAssumption DEF Inv, TypeOK, TimerTypes, ThreadResume, callVars
<1>2. StatInv' /\ CallInv'
  BY <1>10, NoThreadAssumption, MutexAssumption DEF Inv, TypeOK, StatInv, CallInv, Sleeping,
     Dead, ThreadResume, callVars
<1>3. PendInv' /\ HeirInv'
  BY <1>10, MutexAssumption DEF Inv, TypeOK, StatInv, CallInv, PendInv, HeirInv, Sleeping,
     Dead, ThreadResume, callVars
<1>4. ListInv'
  BY <1>11
<1>5. GrantInv' /\ OwnershipHonoured'
  <2>1. UNCHANGED <<owner, hold, granted, alive>>
    BY DEF ThreadResume, callVars
  <2> QED
    BY <2>1, GrantsKept
<1>6. HandedOver'
  <2>1. \A u \in Threads :
          (pc[u] = "waiting" /\ stat[u] = "READY") \/ pc[u] \in {"drop", "deleted"}
            => pc'[u] = pc[u] /\ at'[u] = at[u] /\ stat'[u] = stat[u] /\ error'[u] = error[u]
    BY <1>10 DEF Inv, TypeOK, StatInv, Sleeping, ThreadResume, callVars
  <2>2. ~halted /\ UNCHANGED <<owner, granted, alive>>
    BY DEF ThreadResume, callVars
  <2> QED
    BY <2>1, <2>2, OwnersKept
<1> QED
  BY <1>1, <1>2, <1>3, <1>4, <1>5, <1>6 DEF Inv

(* A thread exits, with the mutexes it has.                                *)
LEMMA ExitKeeps ==
  ASSUME Inv, NEW t \in Threads, Exit(t)
  PROVE  Inv'
<1>10. /\ stat' = [stat EXCEPT ![t] = "CLOSE"] /\ tmr' = [tmr EXCEPT ![t] = FALSE]
       /\ UNCHANGED <<ttmr, error, isr, halted, mprio, lock, ceil, alive, curr>>
       /\ susp' = [x \in Mutexes |-> ListRemove(susp[x], t)]
  BY DEF Exit, Close
<1>11. susp' \in [Mutexes -> Seq(Threads)] /\ ListInv'
  <2>1. UNCHANGED <<owner, at>> /\ \A v \in Threads \ {t} : stat'[v] = stat[v]
    BY <1>10 DEF Inv, TypeOK, Exit
  <2> QED
    BY <1>10, <2>1, RemoveKeeps
<1>1. TypeOK' /\ TimerTypes'
  BY <1>11, <1>10, HoldAssumption DEF Inv, TypeOK, TimerTypes, Exit, At, Goto
<1>2. StatInv' /\ CallInv'
  BY <1>10, NoThreadAssumption, MutexAssumption DEF Inv, TypeOK, StatInv, CallInv, Sleeping,
     Dead, Exit, At, Goto
<1>3. PendInv' /\ HeirInv'
  BY <1>10, MutexAssumption DEF Inv, TypeOK, StatInv, CallInv, PendInv, HeirInv, Sleeping,
     Dead, Exit, At, Goto
<1>4. ListInv'
  BY <1>11
<1>5. GrantInv' /\ OwnershipHonoured'
  <2>1. UNCHANGED <<owner, hold, granted, alive>>
    BY <1>10 DEF Exit
  <2> QED
    BY <2>1 DEF Inv, GrantInv, OwnershipHonoured
<1>6. HandedOver'
  <2>1. \A u \in Threads :
          (pc[u] = "waiting" /\ stat[u] = "READY") \/ pc[u] \in {"drop", "deleted"}
            => pc'[u] = pc[u] /\ at'[u] = at[u] /\ stat'[u] = stat[u] /\ error'[u] = error[u]
    BY <1>10 DEF Inv, TypeOK, Exit, At, Goto
  <2>2. ~halted /\ UNCHANGED <<owner, granted, alive>>
    BY <1>10 DEF Exit, At
  <2> QED
    BY <2>1, <2>2, OwnersKept
<1> QED
  BY <1>1, <1>2, <1>3, <1>4, <1>5, <1>6 DEF Inv

(* A thread is deleted; its mutexes stay with it.                          *)
LEMMA DeleteKeeps ==
  ASSUME Inv, NEW t \in Threads, Delete(t)
  PROVE  Inv'
<1>10. /\ stat' = [stat EXCEPT ![t] = "CLOSE"] /\ tmr' = [tmr EXCEPT ![t] = FALSE]
       /\ UNCHANGED <<ttmr, error, isr, halted, mprio, lock, ceil, alive, curr>>
       /\ susp' = [x \in Mutexes |-> ListRemove(susp[x], t)]
  BY DEF Delete, Close
<1>11. susp' \in [Mutexes -> Seq(Threads)] /\ ListInv'
  <2>1. UNCHANGED <<owner, at>> /\ \A v \in Threads \ {t} : stat'[v] = stat[v]
    BY <1>10 DEF Inv, TypeOK, Delete
  <2> QED
    BY <1>10, <2>1, RemoveKeeps
<1>12. /\ granted' \in [Threads -> [Mutexes -> 0..RT_MUTEX_HOLD_MAX]]
       /\ \A u \in Threads, x \in Mutexes : granted'[u][x] = IF u = t THEN 0 ELSE granted[u][x]
  BY HoldAssumption DEF Inv, TypeOK, Delete
<1>13. /\ hold' \in [Mutexes -> 0..RT_MUTEX_HOLD_MAX]
       /\ \A x \in Mutexes : owner[x] # t => hold'[x] = hold[x]
  BY HoldAssumption DEF Inv, TypeOK, Delete, Taken
<1>14. /\ pc' = [pc EXCEPT ![t] = IF pending[t] = NoMutex THEN "deleted" ELSE "drop"]
       /\ pc[t] \in {"idle", "waiting"} /\ ~halted
       /\ UNCHANGED <<owner, pending, at, timed>>
  BY DEF Delete, At, Goto
<1>1. TypeOK' /\ TimerTypes'
  <2>1. pc' \in [Threads -> {"idle", "pend", "boost", "arm", "waiting",
                            "detach", "exit", "drop", "deleted"}]
    BY <1>14 DEF Inv, TypeOK
  <2>2. stat' \in [Threads -> {"READY", "SUSPEND", "CLOSE"}]
    BY <1>10 DEF Inv, TypeOK
  <2> QED
    BY <1>10, <1>11, <1>12, <1>13, <1>14, <2>1, <2>2 DEF Inv, TypeOK, TimerTypes
<1>2. StatInv' /\ CallInv'
  <2>1. StatInv'
    BY <1>10, <1>14 DEF Inv, TypeOK, StatInv, Sleeping, Dead
  <2> QED
    BY <1>10, <1>14, <2>1 DEF Inv, TypeOK, CallInv, Sleeping
<1>3. PendInv' /\ HeirInv'
  <2>1. PendInv'
    BY <1>14 DEF Inv, TypeOK, PendInv
  <2>2. ASSUME NEW u \in Threads, pc'[u] = "waiting", owner[at[u]] = u
        PROVE  hold'[at[u]] = 1 /\ pending[u] = NoMutex
    <3>1. pc[u] = "waiting" /\ u # t /\ at[u] \in Mutexes
      BY <1>14, <2>2 DEF Inv, TypeOK, CallInv, Sleeping
    <3> QED
      BY <1>13, <2>2, <3>1 DEF Inv, HeirInv
  <2> QED
    BY <1>14, <2>1, <2>2 DEF HeirInv
<1>4. ListInv'
  BY <1>11
<1>5. GrantInv' /\ OwnershipHonoured'
  <2>1. GrantInv'
    BY <1>10, <1>12 DEF Inv, GrantInv
  <2>2. ASSUME NEW u \in Threads, NEW x \in Mutexes, granted'[u][x] > 0
        PROVE  owner[x] = u /\ hold'[x] = granted'[u][x]
    BY <1>12, <1>13, <2>2 DEF Inv, OwnershipHonoured
  <2> QED
    BY <1>14, <2>1, <2>2 DEF OwnershipHonoured
<1>6. HandedOver'
  <2>1. SUFFICES ASSUME NEW x \in alive, owner[x] # NoThread
                 PROVE  \/ granted'[owner[x]][x] > 0
                        \/ /\ pc'[owner[x]] = "waiting" /\ at[owner[x]] = x
                           /\ stat'[owner[x]] = "READY" /\ error[owner[x]] = "EOK"
                        \/ pc'[owner[x]] \in {"drop", "deleted"}
    BY <1>10, <1>14 DEF HandedOver
  <2>2. owner[x] \in Threads /\ x \in Mutexes
    BY <2>1 DEF Inv, TypeOK
  <2>3. CASE owner[x] = t
    BY <1>14, <2>3 DEF Inv, TypeOK
  <2>4. CASE owner[x] # t
    BY <1>10, <1>12, <1>14, <2>1, <2>2, <2>4 DEF Inv, TypeOK, HandedOver
  <2> QED
    BY <2>3, <2>4
<1> QED
  BY <1>1, <1>2, <1>3, <1>4, <1>5, <1>6 DEF Inv

-------------------------------------------------------------------------------
(* The hand-off.                                                           *)

(* The walk of rt_mutex_release over the waiters it cannot wake stops.     *)
LEMMA SkippedProperties ==
  ASSUME NEW q \in Seq(Threads)
  PROVE  /\ Skipped(q) \in 0..Len(q)
         /\ \A i \in 1..Skipped(q) : ~ReadyOK(q[i])
         /\ Skipped(q) = Len(q) \/ ReadyOK(q[Skipped(q) + 1])
<1> DEFINE A == {u \in Threads : ~ReadyOK(u)}
<1>1. PICK k \in 0..Len(q) : /\ \A i \in 1..k : q[i] \in A
                             /\ k = Len(q) \/ q[k + 1] \notin A
  <2> HIDE DEF A
  <2> QED BY PrefixExists
<1>2. /\ \A i \in 1..k : ~ReadyOK(q[i])
      /\ k = Len(q) \/ ReadyOK(q[k + 1])
  <2>1. k = Len(q) \/ q[k + 1] \in Threads
    OBVIOUS
  <2> QED BY <1>1, <2>1
<1> QED
  BY <1>2 DEF Skipped

(* The last hold is given up: nobody waits any more, or next, the one      *)
(* waiter of the first n that can be woken, is the owner.                  *)
LEMMA HandOverKeeps ==
  ASSUME Inv, ~halted, NEW t \in Threads, NEW m \in alive, owner[m] = t,
         lock[m] = NoThread, NEW n \in 0..Len(susp[m]), NEW next \in Threads \cup {NoThread},
         \A i \in 1..n : ReadyOK(susp[m][i]) => susp[m][i] = next,
         IF next = NoThread THEN n = Len(susp[m])
                            ELSE n > 0 /\ next = susp[m][n] /\ ReadyOK(next),
         HandOver(t, m, n, next)
  PROVE  Inv'
<1> DEFINE rest == SubSeq(susp[m], n + 1, Len(susp[m]))
           tried == {susp[m][i] : i \in 1..n}
<1>10. m \in Mutexes /\ susp[m] \in Seq(Threads) /\ Unique(susp[m])
       /\ Queued(susp[m]) \subseteq Sleepers(m) /\ t # NoThread
  BY NoThreadAssumption DEF Inv, TypeOK, ListInv, ListsOK
<1>11. /\ rest \in Seq(Threads) /\ Unique(rest) /\ Queued(rest) \subseteq Queued(susp[m]) \ tried
       /\ n = Len(susp[m]) => rest = <<>>
  BY <1>10, SuffixProperties
<1>12. \A u \in tried : u \in Queued(susp[m]) /\ (ReadyOK(u) => u = next)
  BY DEF Queued
<1>13. next # NoThread => /\ next \in tried /\ next \in Threads /\ ReadyOK(next)
                          /\ stat[next] = "SUSPEND" /\ at[next] = m
                          /\ pc[next] = "waiting" /\ error[next] = "EOK"
  <2>1. SUFFICES ASSUME next # NoThread
                 PROVE  /\ next \in tried /\ next \in Threads /\ ReadyOK(next)
                        /\ stat[next] = "SUSPEND" /\ at[next] = m
                        /\ pc[next] = "waiting" /\ error[next] = "EOK"
    OBVIOUS
  <2>2. next \in tried /\ next \in Threads /\ ReadyOK(next)
    BY <2>1
  <2>3. next \in Sleepers(m)
    BY <1>10, <1>12, <2>2
  <2>4. stat[next] = "SUSPEND" /\ at[next] = m
    BY <2>3 DEF Sleepers
  <2>5. pc[next] \in Sleeping /\ error[next] = "EOK"
    BY <2>2, <2>4 DEF Inv, StatInv
  <2>6. pc[next] \notin {"pend", "boost", "arm"}
    BY <2>2, <2>4, NoThreadAssumption DEF Inv, CallInv
  <2> QED
    BY <2>2, <2>4, <2>5, <2>6 DEF Sleeping
<1>14. /\ stat' \in [Threads -> {"READY", "SUSPEND", "CLOSE"}]
       /\ \A u \in Threads : stat'[u] = IF u = next THEN "READY" ELSE stat[u]
  <2>1. stat' = [u \in Threads |-> IF u \in tried /\ ReadyOK(u) THEN "READY" ELSE stat[u]]
    BY DEF HandOver
  <2>2. \A u \in Threads : (u \in tried /\ ReadyOK(u)) <=> u = next
    BY <1>12, <1>13, NoThreadAssumption
  <2> HIDE DEF tried
  <2> QED
    BY <2>1, <2>2 DEF Inv, TypeOK
<1>15. tmr' \in [Threads -> BOOLEAN] /\ ttmr' \in [Threads -> BOOLEAN]
  <2> HIDE DEF tried
  <2> QED BY DEF Inv, TimerTypes, HandOver, tried
<1>16. /\ susp' = [susp EXCEPT ![m] = rest] /\ owner' = [owner EXCEPT ![m] = next]
       /\ hold' = [hold EXCEPT ![m] = IF next = NoThread THEN 0 ELSE 1]
       /\ pending' = [u \in Threads |-> IF u = next THEN NoMutex ELSE pending[u]]
       /\ UNCHANGED <<error, isr, halted, ceil, alive, lock, pc, at, timed>>
  BY DEF HandOver
<1>17. /\ granted' \in [Threads -> [Mutexes -> 0..RT_MUTEX_HOLD_MAX]]
       /\ \A u \in Threads, x \in Mutexes :
            granted'[u][x] = IF u = t /\ x = m THEN 0 ELSE granted[u][x]
  <2>1. 0 \in 0..RT_MUTEX_HOLD_MAX /\ granted' = [granted EXCEPT ![t][m] = 0]
    BY HoldAssumption DEF HandOver
  <2> HIDE DEF rest, tried
  <2> QED
    BY ONLY <1>10, <2>1, Inv, t \in Threads DEF Inv, TypeOK
<1>18. curr' \in [Threads -> 0..NoPrio] /\ mprio' \in [Mutexes -> 0..NoPrio]
  <2>1. RestoredPrio(t, m) \in [Threads -> 0..NoPrio]
    BY <1>10, RestoredType
  <2>2. HeadPriority(rest, RestoredPrio(t, m)) \in 0..NoPrio
    BY <1>11, <2>1, HeadPriorityType
  <2>3. /\ curr' = RestoredPrio(t, m)
        /\ mprio' = [mprio EXCEPT ![m] = HeadPriority(rest, RestoredPrio(t, m))]
    BY DEF HandOver
  <2> HIDE DEF rest
  <2> QED
    BY <2>1, <2>2, <2>3 DEF Inv, TypeOK
<1> HIDE DEF rest, tried
<1>1. TypeOK' /\ TimerTypes'
  <2>1. susp' \in [Mutexes -> Seq(Threads)] /\ owner' \in [Mutexes -> Threads \cup {NoThread}]
    BY <1>11, <1>16 DEF Inv, TypeOK
  <2>2. hold' \in [Mutexes -> 0..RT_MUTEX_HOLD_MAX]
    BY <1>16, HoldAssumption DEF Inv, TypeOK
  <2>3. pending' \in [Threads -> Mutexes \cup {NoMutex}]
    BY <1>16 DEF Inv, TypeOK
  <2> QED
    BY <1>14, <1>15, <1>16, <1>17, <1>18, <2>1, <2>2, <2>3 DEF Inv, TypeOK, TimerTypes
<1>2. StatInv' /\ CallInv'
  <2>1. StatInv'
    BY <1>13, <1>14, <1>16, NoThreadAssumption DEF Inv, TypeOK, StatInv, Sleeping, Dead
  <2>2. \A u \in Threads : pc[u] \in {"pend", "boost", "arm"} => at[u] # m /\ at[u] \in Mutexes
    BY NoThreadAssumption DEF Inv, CallInv, Sleeping
  <2> QED
    BY <1>16, <2>1, <2>2 DEF Inv, TypeOK, CallInv
<1>3. PendInv' /\ HeirInv'
  <2>1. PendInv'
    BY <1>13, <1>16, NoThreadAssumption DEF Inv, TypeOK, PendInv
  <2>2. \A u \in Threads : pc[u] = "waiting" => at[u] \in Mutexes
    BY DEF Inv, CallInv, Sleeping
  <2> QED
    BY <1>10, <1>16, <2>1, <2>2, NoThreadAssumption DEF Inv, TypeOK, HeirInv
<1>4. ListInv'
  <2>1. susp' \in [Mutexes -> Seq(Threads)]
    BY <1>11, <1>16 DEF Inv, TypeOK
  <2>2. ASSUME NEW x \in Mutexes
        PROVE  /\ Unique(susp'[x])
               /\ Queued(susp'[x]) \subseteq Sleepers(x)'
               /\ owner'[x] = NoThread => susp'[x] = <<>>
    <3>1. Sleepers(x) \ {next} \subseteq Sleepers(x)'
      BY <1>14, <1>16 DEF Sleepers
    <3>2. Unique(susp[x]) /\ Queued(susp[x]) \subseteq Sleepers(x)
          /\ (owner[x] = NoThread => susp[x] = <<>>)
      BY DEF Inv, ListInv, ListsOK
    <3>3. CASE x = m
      <4>1. susp'[x] = rest /\ owner'[x] = next
        BY <1>10, <1>16, <3>3 DEF Inv, TypeOK
      <4>2. Queued(rest) \subseteq Sleepers(x) \ {next}
        BY <1>10, <1>11, <1>13, <3>3, NoThreadAssumption DEF Sleepers
      <4> QED BY <1>11, <3>1, <4>1, <4>2
    <3>4. CASE x # m
      <4>1. susp'[x] = susp[x] /\ owner'[x] = owner[x]
        BY <1>16, <3>4 DEF Inv, TypeOK
      <4>2. next \notin Sleepers(x)
        BY <1>13, <3>4, NoThreadAssumption DEF Sleepers
      <4> QED BY <3>1, <3>2, <4>1, <4>2
    <3> QED BY <3>3, <3>4
  <2> QED
    BY <2>1, <2>2 DEF ListInv, ListsOK
<1>5. GrantInv' /\ OwnershipHonoured'
  <2>1. GrantInv'
    BY <1>16, <1>17 DEF Inv, GrantInv
  <2>2. ASSUME NEW u \in Threads, NEW x \in Mutexes, granted'[u][x] > 0
        PROVE  owner'[x] = u /\ hold'[x] = granted'[u][x]
    <3>1. granted[u][x] > 0 /\ granted'[u][x] = granted[u][x] /\ ~(u = t /\ x = m)
      BY <1>17, <2>2
    <3>2. owner[x] = u /\ hold[x] = granted[u][x] /\ x # m
      BY <3>1 DEF Inv, OwnershipHonoured
    <3> QED
      BY <1>16, <3>1, <3>2 DEF Inv, TypeOK
  <2> QED
    BY <2>1, <2>2 DEF OwnershipHonoured
<1>6. HandedOver'
  <2>1. SUFFICES ASSUME NEW x \in alive, owner'[x] # NoThread
                 PROVE  \/ granted'[owner'[x]][x] > 0
                        \/ /\ pc[owner'[x]] = "waiting" /\ at[owner'[x]] = x
                           /\ stat'[owner'[x]] = "READY" /\ error[owner'[x]] = "EOK"
                        \/ pc[owner'[x]] \in {"drop", "deleted"}
    BY <1>16 DEF HandedOver
  <2>2. CASE x = m
    <3>1. owner'[x] = next /\ next # NoThread
      BY <1>10, <1>16, <2>1, <2>2 DEF Inv, TypeOK
    <3> QED
      BY <1>13, <1>14, <2>2, <3>1
  <2>3. CASE x # m
    <3>1. owner'[x] = owner[x] /\ owner[x] \in Threads /\ x \in Mutexes
      BY <1>16, <2>1, <2>3 DEF Inv, TypeOK
    <3>2. granted'[owner[x]][x] = granted[owner[x]][x]
      BY <1>17, <2>3, <3>1
    <3> QED
      BY <1>14, <2>1, <3>1, <3>2 DEF Inv, HandedOver
  <2> QED
    BY <2>2, <2>3
<1> QED
  BY <1>1, <1>2, <1>3, <1>4, <1>5, <1>6 DEF Inv

(* Whom the walk over the waiters of m finds: the first n are tried, and   *)
(* next is the one of them that can be woken, if there is one.             *)
Heir(m, n, next) ==
  /\ \A i \in 1..n : ReadyOK(susp[m][i]) => susp[m][i] = next
  /\ IF next = NoThread THEN n = Len(susp[m])
                        ELSE n > 0 /\ next = susp[m][n] /\ ReadyOK(next)

(* rt_mutex_release hands the mutex to such a thread.                      *)
LEMMA PassOnHands ==
  ASSUME Inv, NEW t \in Threads, NEW m \in Mutexes, PassOn(t, m)
  PROVE  \E n \in 0..Len(susp[m]), next \in Threads \cup {NoThread} :
           Heir(m, n, next) /\ HandOver(t, m, n, next)
<1> DEFINE k == Skipped(susp[m])
<1>1. susp[m] \in Seq(Threads)
  BY DEF Inv, TypeOK
<1>2. /\ k \in 0..Len(susp[m])
      /\ \A i \in 1..k : ~ReadyOK(susp[m][i])
      /\ k = Len(susp[m]) \/ ReadyOK(susp[m][k + 1])
  BY <1>1, SkippedProperties
<1>3. IF k = Len(susp[m]) THEN HandOver(t, m, k, NoThread)
                          ELSE HandOver(t, m, k + 1, susp[m][k + 1])
  BY DEF PassOn
<1> HIDE DEF k
<1>4. CASE k = Len(susp[m])
  <2>1. HandOver(t, m, k, NoThread)
    BY <1>3, <1>4
  <2>2. Heir(m, k, NoThread)
    BY <1>2, <1>4 DEF Heir
  <2> QED
    BY <1>2, <2>1, <2>2
<1>5. CASE k # Len(susp[m])
  <2>1. HandOver(t, m, k + 1, susp[m][k + 1]) /\ ReadyOK(susp[m][k + 1])
    BY <1>2, <1>3, <1>5
  <2>2. k + 1 \in 0..Len(susp[m]) /\ k + 1 > 0 /\ susp[m][k + 1] \in Threads
    BY <1>1, <1>2, <1>5
  <2>3. \A i \in 1..(k + 1) : ReadyOK(susp[m][i]) => susp[m][i] = susp[m][k + 1]
    BY <1>2
  <2>4. susp[m][k + 1] # NoThread
    BY <2>2, NoThreadAssumption
  <2>5. PICK n, next : n = k + 1 /\ next = susp[m][k + 1]
    OBVIOUS
  <2>6. Heir(m, n, next)
    BY <2>1, <2>2, <2>3, <2>4, <2>5 DEF Heir
  <2> QED
    BY <2>1, <2>2, <2>5, <2>6
<1> QED
  BY <1>4, <1>5

(* The two calls that hand a mutex over: the owner's last release, and the *)
(* release by a thread that exits.                                         *)
LEMMA PassOnKeeps ==
  ASSUME Inv, ~halted, NEW t \in Threads, NEW m \in alive, owner[m] = t,
         lock[m] = NoThread, PassOn(t, m)
  PROVE  Inv'
<1>1. m \in Mutexes
  BY DEF Inv, TypeOK
<1>2. PICK n \in 0..Len(susp[m]), next \in Threads \cup {NoThread} :
        Heir(m, n, next) /\ HandOver(t, m, n, next)
  BY <1>1, PassOnHands
<1> QED
  BY <1>2, HandOverKeeps DEF Heir

(* Init.                                                                   *)
LEMMA InitInv == Init => Inv
<1> SUFFICES ASSUME Init PROVE Inv
  OBVIOUS
<1>1. TypeOK /\ TimerTypes
  BY HoldAssumption, PrioAssumption DEF Init, ThreadInit, TypeOK, TimerTypes, Errors, NoPrio
<1>2. StatInv /\ CallInv /\ PendInv /\ HeirInv
  BY DEF Init, ThreadInit, StatInv, CallInv, PendInv, HeirInv, Sleeping, Dead
<1>3. ListInv
  <2>1. \A m \in Mutexes : susp[m] = <<>>
    BY DEF Init
  <2>2. Unique(<<>>) /\ Queued(<<>>) = {}
    BY DEF Unique, Queued
  <2> QED
    BY <1>1, <2>1, <2>2 DEF TypeOK, ListInv, ListsOK
<1>4. GrantInv /\ OwnershipHonoured /\ HandedOver
  BY DEF Init, GrantInv, OwnershipHonoured, HandedOver
<1> QED
  BY <1>1, <1>2, <1>3, <1>4 DEF Inv

(* Every step of the mutexes keeps the invariant.                          *)
LEMMA NextInv == Inv /\ [Next]_vars => Inv'
<1> SUFFICES ASSUME Inv, [Next]_vars PROVE Inv'
  OBVIOUS
<1>1. ASSUME NEW t \in Threads, Call(t) PROVE Inv'
  <2>1. PICK m \in Mutexes :
          \/ TakeNested(t, m)
          \/ InOrder(t, m) /\ TakeFree(t, m)
          \/ InOrder(t, m) /\ \E timeout \in Timeouts : TakeSuspend(t, m, timeout)
          \/ ReleaseNested(t, m)
          \/ ReleaseLast(t, m)
          \/ \E c \in Ceilings : SetPrioCeiling(t, m, c)
          \/ "detach" \in Ops /\ Detach(t, m)
    BY <1>1 DEF Call
  <2>2. CASE ReleaseLast(t, m)
    BY <2>2, PassOnKeeps DEF ReleaseLast, LastHold, Enter
  <2> QED
    BY <2>1, <2>2, TakeNestedKeeps, TakeFreeKeeps, TakeSuspendKeeps, ReleaseNestedKeeps,
       SetPrioCeilingKeeps, DetachKeeps
<1>2. ASSUME NEW t \in Threads, Continue(t) PROVE Inv'
  BY <1>2, TakePendKeeps, TakeBoostKeeps, TakeArmKeeps, TakeGrantedKeeps, TakeGivenUpKeeps,
     DetachStepKeeps, DetachDoneKeeps DEF Continue
<1>3. ASSUME NEW t \in Threads, End(t) PROVE Inv'
  <2>1. ASSUME NEW m \in Mutexes, ExitRelease(t, m) PROVE Inv'
    BY <2>1, PassOnKeeps DEF ExitRelease, At, Taken
  <2> QED
    BY <1>3, <2>1, ExitKeeps, DeleteKeeps, DropThreadKeeps, CreateKeeps DEF End
<1>4. CASE UNCHANGED vars
  <2>1. UNCHANGED <<stat, ttmr, tmr, error, isr, halted, owner, hold, mprio, ceil, alive, susp,
                    lock, curr, pending, pc, at, timed, granted>>
    BY <1>4 DEF vars, threadVars, mutexVars, callVars
  <2>2. TypeOK' /\ TimerTypes' /\ StatInv' /\ CallInv' /\ PendInv' /\ HeirInv'
    BY <2>1 DEF Inv, TypeOK, TimerTypes, StatInv, CallInv, PendInv, HeirInv
  <2>3. ListInv' /\ GrantInv' /\ OwnershipHonoured' /\ HandedOver'
    BY <2>1 DEF Inv, ListInv, ListsOK, Sleepers, GrantInv, OwnershipHonoured, HandedOver
  <2> QED
    BY <2>2, <2>3 DEF Inv
<1> QED
  BY <1>1, <1>2, <1>3, <1>4, ExpireKeeps, MutexInitKeeps, TimeoutKeeps, AssertKeeps,
     ThreadResumeKeeps DEF Next

(* The invariant holds always.                                             *)
LEMMA SpecInv == Spec => []Inv
BY InitInv, NextInv, PTL DEF Spec

-------------------------------------------------------------------------------
(* rt_mutex: a thread whose take returned RT_EOK owns the mutex, as often  *)
(* as it was told so, until its matching release, whatever timeouts,       *)
(* hand-offs, detaches and ends of threads do meanwhile.                   *)
THEOREM OwnersOwn == Spec => []OwnershipHonoured
<1>1. Inv => OwnershipHonoured
  BY DEF Inv
<1> QED
  BY <1>1, SpecInv, PTL

(* rt_mutex_release: a mutex with an owner has one who knows, or is awake  *)
(* and about to find out; it is lost only with a thread that was deleted.  *)
THEOREM NoMutexLost == Spec => []HandedOver
<1>1. Inv => HandedOver
  BY DEF Inv
<1> QED
  BY <1>1, SpecInv, PTL

(* rt_mutex_release, timeouts and detach: nobody sleeps for a free mutex.  *)
THEOREM FreeMeansUnwanted == Spec => []NoSleeperAtFreeMutex
<1>1. Inv => NoSleeperAtFreeMutex
  <2>1. Queued(<<>>) = {}
    BY DEF Queued
  <2> QED
    BY <2>1 DEF Inv, ListInv, ListsOK, NoSleeperAtFreeMutex
<1> QED
  BY <1>1, SpecInv, PTL

(* mutex->hold, eight bits wide in the code, never passes its limit, and   *)
(* every priority that is computed is one.                                 *)
THEOREM TypeCorrect == Spec => []TypeOK
<1>1. Inv => TypeOK
  BY DEF Inv
<1> QED
  BY <1>1, SpecInv, PTL

-------------------------------------------------------------------------------
(* Priority inheritance on one mutex.                                      *)

(* A thread is never less urgent than a mutex it has.                      *)
LEMMA MutexPriorityBound ==
  ASSUME NEW t \in Threads, NEW held \in SUBSET Mutexes, NEW m \in held,
         NEW mp \in [Mutexes -> 0..NoPrio], NEW cl \in [Mutexes -> 0..NoPrio]
  PROVE  MutexPriority(t, held, mp, cl) <= mp[m]
<1> DEFINE offers == {InitPrio[t]} \cup {Lesser(mp[x], cl[x]) : x \in held}
           p == MutexPriority(t, held, mp, cl)
<1>1. offers \subseteq 0..NoPrio /\ offers # {}
  BY PrioAssumption DEF Lesser
<1>2. offers \subseteq Nat
  BY <1>1
<1>3. \E q \in offers : \A r \in offers : q <= r
  <2> HIDE DEF offers
  <2> QED BY <1>1, <1>2, LeastNat
<1>4. p \in offers /\ \A r \in offers : p <= r
  BY <1>3 DEF MutexPriority
<1>5. Lesser(mp[m], cl[m]) \in offers
  OBVIOUS
<1>6. p <= Lesser(mp[m], cl[m]) /\ p \in Nat
  <2> HIDE DEF offers, p
  <2> QED BY <1>2, <1>4, <1>5
<1>7. mp[m] \in 0..NoPrio /\ cl[m] \in 0..NoPrio
  OBVIOUS
<1> HIDE DEF p
<1>8. mp[m] \in Int /\ cl[m] \in Int
  BY <1>7 DEF NoPrio
<1>9. Lesser(mp[m], cl[m]) \in Int /\ Lesser(mp[m], cl[m]) <= mp[m]
  BY <1>8 DEF Lesser
<1>10. p <= mp[m]
  BY <1>6, <1>8, <1>9
<1> QED
  BY <1>10 DEF p

(* The priority of a mutex is that of its first waiter, and no waiter is   *)
(* more urgent than that.                                                  *)
LEMMA HeadPriorityBound ==
  ASSUME NEW q \in Seq(Threads), NEW prio \in [Threads -> 0..NoPrio], Sorted(q, prio)
  PROVE  \A u \in Queued(q) : HeadPriority(q, prio) <= prio[u]
<1>1. CASE q = <<>>
  BY <1>1 DEF Queued
<1>2. CASE q # <<>>
  <2>1. 0..NoPrio \subseteq Int
    BY DEF NoPrio
  <2>2. prio \in [Threads -> Int]
    BY <2>1
  <2> QED
    BY <1>2, <2>2, SortedTail DEF HeadPriority
<1> QED
  BY <1>1, <1>2

(* Priorities are numbers, and Lesser is the smaller one.                  *)
LEMMA LesserBound ==
  /\ 0..NoPrio \subseteq Nat
  /\ \A a, b \in Nat : /\ Lesser(a, b) \in Nat /\ Lesser(a, b) <= a /\ Lesser(a, b) <= b
                       /\ Lesser(a, b) = IF a < b THEN a ELSE b
BY DEF NoPrio, Lesser

(* The owner of m is awake.                                                *)
AwakeOwner(m) == \A t \in Threads : stat[t] = "SUSPEND" => owner[m] # t

(* A waiter still to boost is one that has not told the owner yet.         *)
Told(t) == pc[t] \notin {"pend", "boost"}

(* The owner is as urgent as the mutex, and the mutex as those who wait.   *)
Inherits(m) ==
  m \in alive /\ owner[m] # NoThread =>
    /\ curr[owner[m]] <= mprio[m]
    /\ \A t \in Queued(susp[m]) : Told(t) => mprio[m] <= curr[t]

(* The invariant of the priorities.                                        *)
PrioInv(m) == AwakeOwner(m) /\ Sorted(susp[m], curr) /\ Inherits(m)

(* The owner is not among those who wait.                                  *)
LEMMA OwnerElsewhere ==
  ASSUME Inv, NEW m \in Mutexes, AwakeOwner(m)
  PROVE  owner[m] \notin Queued(susp[m])
<1>1. Queued(susp[m]) \subseteq Sleepers(m)
  BY DEF Inv, ListInv, ListsOK
<1> QED
  BY <1>1 DEF AwakeOwner, Sleepers

(* The steps that wake threads or move them in their call, but change no   *)
(* priority.                                                               *)
LEMMA PrioKept ==
  ASSUME NEW m \in Mutexes, Inv, PrioInv(m),
         UNCHANGED <<owner, mprio, curr>>, alive' \subseteq alive,
         \A t \in Threads : stat'[t] = "SUSPEND" => stat[t] = "SUSPEND",
         Queued(susp'[m]) \subseteq Queued(susp[m]), Sorted(susp'[m], curr),
         \A t \in Queued(susp'[m]) : Told(t)' => Told(t)
  PROVE  PrioInv(m)'
<1>1. AwakeOwner(m)'
  BY DEF PrioInv, AwakeOwner
<1>2. Inherits(m)'
  BY DEF PrioInv, Inherits
<1> QED
  BY <1>1, <1>2 DEF PrioInv

(* The same if no list changes.                                            *)
LEMMA PrioQuiet ==
  ASSUME NEW m \in Mutexes, Inv, PrioInv(m),
         UNCHANGED <<owner, mprio, curr, susp>>, alive' \subseteq alive,
         \A t \in Threads : stat'[t] = "SUSPEND" => stat[t] = "SUSPEND",
         \A t \in Threads : Told(t)' => Told(t) \/ stat[t] # "SUSPEND"
  PROVE  PrioInv(m)'
<1>1. Queued(susp[m]) \subseteq Sleepers(m)
  BY DEF Inv, ListInv, ListsOK
<1>2. \A t \in Queued(susp'[m]) : Told(t)' => Told(t)
  BY <1>1 DEF Sleepers
<1>3. Sorted(susp'[m], curr) /\ Queued(susp'[m]) \subseteq Queued(susp[m])
  BY DEF PrioInv
<1> QED
  BY <1>2, <1>3, PrioKept

(* The same if one thread is taken off the lists.                          *)
LEMMA PrioRemove ==
  ASSUME NEW m \in Mutexes, Inv, PrioInv(m), NEW u,
         UNCHANGED <<owner, mprio, curr, alive>>,
         susp' = [x \in Mutexes |-> ListRemove(susp[x], u)],
         \A t \in Threads : stat'[t] = "SUSPEND" => stat[t] = "SUSPEND",
         \A t \in Threads \ {u} : pc'[t] = pc[t]
  PROVE  PrioInv(m)'
<1>1. susp[m] \in Seq(Threads) /\ Unique(susp[m]) /\ susp'[m] = ListRemove(susp[m], u)
  BY DEF Inv, ListInv, ListsOK
<1>2. Queued(susp'[m]) = Queued(susp[m]) \ {u}
  BY <1>1, ListRemoveProperties
<1>3. Sorted(susp'[m], curr)
  BY <1>1, SortedRemove DEF PrioInv
<1>4. Queued(susp[m]) \subseteq Threads
  BY DEF Inv, ListInv, ListsOK, Sleepers
<1>5. \A t \in Queued(susp'[m]) : Told(t)' => Told(t)
  BY <1>2, <1>4 DEF Told
<1> QED
  BY <1>2, <1>3, <1>5, PrioKept

(* A walk or a store of priorities from which only the owner of m gets     *)
(* another priority: that of the lists' heads is not affected.             *)
OnlyOwner(m, s, mp) ==
  /\ s.susp = susp /\ s.mprio = mp /\ s.fault = FALSE
  /\ \A u \in Threads : u # owner[m] => s.curr[u] = curr[u]

(* What any step of that kind needs to keep the invariant; the lists stay. *)
LEMMA PrioApply ==
  ASSUME NEW m \in Mutexes, Inv, PrioInv(m), NEW s, NEW mp, OnlyOwner(m, s, mp), Apply(s),
         UNCHANGED <<owner, stat, alive>>,
         m \in alive /\ owner[m] # NoThread =>
           /\ s.curr[owner[m]] <= mp[m]
           /\ \A t \in Queued(susp[m]) : Told(t)' => mp[m] <= curr[t]
  PROVE  PrioInv(m)' /\ susp' = susp
<1>1. susp' = susp /\ mprio' = mp /\ curr' = s.curr
  BY DEF OnlyOwner, Apply
<1>2. AwakeOwner(m)'
  BY DEF PrioInv, AwakeOwner
<1>3. owner[m] \notin Queued(susp[m]) /\ Queued(susp[m]) \subseteq Threads
  BY OwnerElsewhere DEF PrioInv, Inv, ListInv, ListsOK, Sleepers
<1>4. \A u \in Queued(susp[m]) : curr'[u] = curr[u]
  BY <1>1, <1>3 DEF OnlyOwner
<1>5. Sorted(susp[m], curr) /\ susp[m] \in Seq(Threads)
  BY DEF PrioInv, Inv, ListInv, ListsOK
<1>6. Sorted(susp[m], curr')
  <2>1. PICK f : f = curr'
    OBVIOUS
  <2>2. Sorted(susp[m], f)
    BY <1>4, <1>5, <2>1, SortedSame
  <2> QED
    BY <2>1, <2>2
<1>7. Sorted(susp[m], curr)'
  BY <1>1, <1>6 DEF Sorted
<1>8. Inherits(m)'
  BY <1>1, <1>4 DEF Inherits
<1> QED
  BY <1>1, <1>2, <1>7, <1>8 DEF PrioInv

(* Stores to the priorities of the mutexes are of that kind.               *)
LEMMA SettledIsOnly ==
  ASSUME NEW m, NEW mp
  PROVE  OnlyOwner(m, Settled(susp, mp), mp) /\ Settled(susp, mp).curr = curr
BY DEF OnlyOwner, Settled

(* With an owner that is awake the walk is, too: it ends where it begins.  *)
LEMMA UpdateIsOnly ==
  ASSUME Inv, NEW m \in Mutexes, AwakeOwner(m), owner[m] \in Threads, NEW p, NEW mp, NEW cl,
         NEW s, s = ThreadUpdatePriority(owner[m], p, susp, mp, cl)
  PROVE  OnlyOwner(m, s, mp) /\ s.curr[owner[m]] = p
<1>1. PICK o : o = owner[m]
  OBVIOUS
<1>2. stat[o] # "SUSPEND" /\ curr \in [Threads -> 0..NoPrio] /\ o \in Threads
  BY <1>1 DEF AwakeOwner, Inv, TypeOK
<1>3. s.susp = susp /\ s.mprio = mp /\ s.fault = FALSE /\ s.curr = [curr EXCEPT ![o] = p]
  <2>1. PICK q : q = susp
    OBVIOUS
  <2>2. s = ThreadUpdatePriority(o, p, q, mp, cl)
    BY <1>1, <2>1
  <2>3. stat[o] # "SUSPEND"
    BY <1>2
  <2>4. EndsAt(s, o, p, q, mp)
    BY <2>2, <2>3, UpdateStops
  <2> QED
    BY <2>1, <2>4 DEF EndsAt
<1>4. s.curr[o] = p /\ \A u \in Threads : u # o => s.curr[u] = curr[u]
  BY <1>2, <1>3
<1> QED
  BY <1>1, <1>3, <1>4 DEF OnlyOwner

(* A boost: the mutex becomes as urgent as the new waiter, and its owner.  *)
LEMMA TakeBoostPrio ==
  ASSUME NEW m \in Mutexes, Mutexes = {m}, Inv, PrioInv(m), NEW t \in Threads, TakeBoost(t)
  PROVE  PrioInv(m)' /\ susp' = susp
<1> DEFINE o == owner[m]
           mp == [mprio EXCEPT ![m] = Lesser(curr[t], @)]
           s == IF curr[t] < mprio[m] /\ curr[t] < curr[o]
                  THEN ThreadUpdatePriority(o, curr[t], susp, mp, ceil)
                  ELSE Settled(susp, mp)
<1>1. at[t] = m /\ o \in Threads /\ lock[m] = t /\ pc[t] = "boost"
  BY DEF Inv, TypeOK, CallInv, Sleeping, TakeBoost, At
<1>2. /\ mp[m] = Lesser(curr[t], mprio[m]) /\ mprio[m] \in 0..NoPrio
      /\ curr[t] \in 0..NoPrio /\ curr[o] \in 0..NoPrio
  BY <1>1 DEF Inv, TypeOK
<1>3. mp[m] <= curr[t] /\ mp[m] <= mprio[m] /\ mp[m] \in 0..NoPrio
  <2> HIDE DEF mp
  <2>1. mprio[m] \in Nat /\ curr[t] \in Nat
    BY <1>2, LesserBound
  <2> QED
    BY <1>2, <2>1, LesserBound DEF Lesser
<1>4. OnlyOwner(m, s, mp) /\ s.curr[o] = IF curr[t] < mprio[m] /\ curr[t] < curr[o]
                                           THEN curr[t] ELSE curr[o]
  <2> HIDE DEF mp
  <2>1. CASE curr[t] < mprio[m] /\ curr[t] < curr[o]
    BY <1>1, <2>1, UpdateIsOnly DEF PrioInv
  <2>2. CASE ~(curr[t] < mprio[m] /\ curr[t] < curr[o])
    BY <2>2, SettledIsOnly
  <2> QED
    BY <2>1, <2>2
<1>5. Apply(s) /\ UNCHANGED <<owner, stat, alive>>
  BY <1>1 DEF TakeBoost
<1>6. \A u \in Threads : u # t /\ Told(u)' => Told(u)
  BY <1>1 DEF TakeBoost, Goto, Told, Inv, TypeOK
<1>7. ASSUME m \in alive
      PROVE  /\ s.curr[o] <= mp[m]
             /\ \A u \in Queued(susp[m]) : Told(u)' => mp[m] <= curr[u]
  <2>1. curr[o] <= mprio[m] /\ \A u \in Queued(susp[m]) : Told(u) => mprio[m] <= curr[u]
    BY <1>1, <1>7, NoThreadAssumption DEF PrioInv, Inherits
  <2>2. s.curr[o] <= mp[m]
    <3> HIDE DEF s, mp, o
    <3>1. mp[m] = Lesser(curr[t], mprio[m])
      BY <1>2
    <3>2. curr[t] \in Nat /\ mprio[m] \in Nat /\ curr[o] \in Nat
      BY <1>2, LesserBound
    <3> QED
      BY <1>4, <2>1, <3>1, <3>2 DEF Lesser
  <2>3. ASSUME NEW u \in Queued(susp[m]), Told(u)' PROVE mp[m] <= curr[u]
    <3>1. u \in Threads /\ curr[u] \in 0..NoPrio
      BY DEF Inv, TypeOK, ListInv, ListsOK, Sleepers
    <3>2. CASE u = t
      BY <1>3, <3>2
    <3>3. CASE u # t
      <4>1. mprio[m] <= curr[u]
        BY <1>6, <2>1, <2>3, <3>1, <3>3
      <4> HIDE DEF mp
      <4>2. mp[m] \in Nat /\ mprio[m] \in Nat /\ curr[u] \in Nat
        BY <1>2, <1>3, <3>1, LesserBound
      <4> QED
        BY <1>3, <4>1, <4>2
    <3> QED
      BY <3>2, <3>3
  <2> QED
    BY <2>2, <2>3
<1> HIDE DEF s, mp
<1> QED
  BY <1>4, <1>5, <1>7, PrioApply DEF o

(* A waiter that is gone: the mutex becomes as urgent as the first of      *)
(* those that are left, and the owner no less urgent than that.            *)
LEMMA WithdrawPrio ==
  ASSUME NEW m \in Mutexes, Inv, PrioInv(m), NEW t \in Threads, Withdraw(t, m),
         lock[m] = NoThread, UNCHANGED <<owner, stat, alive>>
  PROVE  PrioInv(m)' /\ susp' = susp
<1> DEFINE o == owner[m]
           h == HeadPriority(susp[m], curr)
           mp == [mprio EXCEPT ![m] = h]
           p == MutexPriority(o, Taken(o), mp, ceil)
           C == o # NoThread /\ curr[o] = curr[t] /\ p # curr[o]
           s == IF C THEN ThreadUpdatePriority(o, p, susp, mp, ceil)
                     ELSE Settled(susp, mp)
<1>1. susp[m] \in Seq(Threads) /\ curr \in [Threads -> 0..NoPrio] /\ Sorted(susp[m], curr)
  BY DEF PrioInv, Inv, TypeOK
<1>2. h \in 0..NoPrio /\ \A u \in Queued(susp[m]) : h <= curr[u]
  BY <1>1, HeadPriorityType, HeadPriorityBound
<1>3. mp \in [Mutexes -> 0..NoPrio] /\ ceil \in [Mutexes -> 0..NoPrio] /\ mp[m] = h
  BY <1>2 DEF Inv, TypeOK
<1>4. Apply(s)
  BY DEF Withdraw
<1>5. o = NoThread \/ o \in Threads
  BY DEF Inv, TypeOK
<1>6. \A u \in Queued(susp[m]) : Told(u)
  <2>1. Queued(susp[m]) \subseteq Sleepers(m)
    BY DEF Inv, ListInv, ListsOK
  <2> QED
    BY <2>1, NoThreadAssumption DEF Inv, CallInv, Told, Sleepers
<1> HIDE DEF h, mp
<1>7. OnlyOwner(m, s, mp) /\ s.curr[o] = IF C THEN p ELSE curr[o]
  <2> HIDE DEF p
  <2>1. CASE C
    BY <1>5, <2>1, UpdateIsOnly DEF PrioInv
  <2>2. CASE ~C
    BY <2>2, SettledIsOnly
  <2> QED
    BY <2>1, <2>2
<1>8. ASSUME m \in alive, o # NoThread PROVE s.curr[o] <= mp[m]
  <2>1. o \in Threads /\ m \in Taken(o) /\ Taken(o) \in SUBSET Mutexes
    BY <1>5, <1>8 DEF Taken, Inv, TypeOK
  <2>2. p <= h
    BY <1>3, <2>1, MutexPriorityBound
  <2>3. CASE C
    BY <1>3, <1>7, <2>2, <2>3
  <2>4. CASE ~C
    <3>1. curr[o] <= h
      <4>1. CASE susp[m] = <<>>
        <5>1. h = NoPrio
          BY <4>1 DEF h, HeadPriority
        <5>2. curr[o] \in 0..NoPrio
          BY <1>1, <2>1
        <5> QED
          BY <5>1, <5>2 DEF NoPrio
      <4>2. CASE susp[m] # <<>>
        <5>1. Head(susp[m]) \in Queued(susp[m]) /\ h = curr[Head(susp[m])]
          BY <1>1, <4>2, TailProperties DEF h, HeadPriority, Inv, ListInv, ListsOK
        <5>2. curr[o] <= mprio[m] /\ mprio[m] <= h
          BY <1>6, <1>8, <5>1 DEF PrioInv, Inherits
        <5>3. curr[o] \in 0..NoPrio /\ mprio[m] \in 0..NoPrio
          BY <2>1 DEF Inv, TypeOK
        <5> QED
          <6>1. curr[o] \in Nat /\ mprio[m] \in Nat /\ h \in Nat
            BY <1>2, <5>3, LesserBound
          <6> HIDE DEF o
          <6> QED
            BY <5>2, <6>1
      <4> QED
        BY <4>1, <4>2
    <3> QED
      BY <1>3, <1>7, <2>4, <3>1
  <2> QED
    BY <2>3, <2>4
<1> HIDE DEF s, C, p
<1> QED
  BY <1>2, <1>3, <1>4, <1>7, <1>8, PrioApply DEF o

(* The hand-off: the new owner was ahead of all that are left.             *)
LEMMA HandOverPrio ==
  ASSUME NEW m \in Mutexes, Inv, PrioInv(m), NEW t \in Threads, owner[m] = t,
         lock[m] = NoThread, NEW n \in 0..Len(susp[m]), NEW next \in Threads \cup {NoThread},
         Heir(m, n, next), HandOver(t, m, n, next)
  PROVE  PrioInv(m)'
<1> DEFINE q == susp[m]
           rest == SubSeq(q, n + 1, Len(q))
           prio == RestoredPrio(t, m)
<1>1. /\ q \in Seq(Threads) /\ Unique(q) /\ Sorted(q, curr) /\ t \notin Queued(q)
      /\ curr \in [Threads -> 0..NoPrio] /\ Queued(q) \subseteq Threads
  BY OwnerElsewhere DEF PrioInv, Inv, TypeOK, ListInv, ListsOK, Sleepers
<1>2. prio \in [Threads -> 0..NoPrio] /\ \A u \in Threads : u # t => prio[u] = curr[u]
  <2>1. prio \in [Threads -> 0..NoPrio]
    BY RestoredType
  <2> QED
    BY <1>1, <2>1 DEF RestoredPrio
<1>3. /\ curr' = prio /\ susp'[m] = rest /\ owner'[m] = next
      /\ mprio'[m] = HeadPriority(rest, prio) /\ UNCHANGED <<alive, pc>>
  <2> HIDE DEF prio, rest
  <2> QED
    BY DEF HandOver, prio, rest, q, Inv, TypeOK
<1>4. next # NoThread => stat'[next] = "READY" /\ n > 0 /\ next = q[n] /\ next # t
  <2>1. ASSUME next # NoThread
        PROVE  n > 0 /\ next = q[n] /\ ReadyOK(next) /\ next \in Threads
    BY <2>1 DEF Heir
  <2>2. ASSUME next # NoThread PROVE next # t /\ next \in {q[i] : i \in 1..n}
    BY <1>1, <2>1, <2>2 DEF Queued
  <2>3. ASSUME next # NoThread PROVE stat'[next] = "READY"
    BY <2>1, <2>2, <2>3 DEF HandOver
  <2> QED
    BY <2>1, <2>2, <2>3
<1> HIDE DEF prio, q
<1>5. /\ rest \in Seq(Threads) /\ Sorted(rest, curr) /\ Queued(rest) \subseteq Queued(q)
      /\ Len(rest) = Len(q) - n /\ (rest # <<>> => Head(rest) = q[n + 1] /\ n + 1 \in 1..Len(q))
  <2>0. n \in 0..Len(q) /\ Len(q) \in Nat
    BY <1>1 DEF q
  <2>1. rest \in Seq(Threads) /\ Queued(rest) \subseteq Queued(q)
    BY <1>1, <2>0, SuffixProperties
  <2>2. Sorted(rest, curr)
    <3>1. PICK f : f = curr
      OBVIOUS
    <3>2. Sorted(rest, f)
      BY <1>1, <2>0, <3>1, SortedSuffix
    <3> QED
      BY <3>1, <3>2
  <2>3. Len(rest) = Len(q) - n /\ \A i \in 1..(Len(q) - n) : rest[i] = q[n + i]
    <3>1. \A i \in (n + 1)..Len(q) : q[i] \in Threads
      BY <1>1, <2>0, ElementOfSeq
    <3> QED
      BY <2>0, <3>1, SubSeqProperties
  <2>4. rest # <<>> => Head(rest) = q[n + 1] /\ n + 1 \in 1..Len(q)
    <3> HIDE DEF rest
    <3>1. SUFFICES ASSUME rest # <<>> PROVE Head(rest) = q[n + 1] /\ n + 1 \in 1..Len(q)
      OBVIOUS
    <3>2. Len(rest) > 0 /\ Head(rest) = rest[1]
      BY <2>1, <3>1
    <3> QED
      BY <2>0, <2>3, <3>2
  <2> QED
    BY <2>1, <2>2, <2>3, <2>4
<1> HIDE DEF rest
<1>6. Sorted(rest, prio)
  <2>1. \A u \in Queued(rest) : u \in Threads /\ u # t
    BY <1>1, <1>5
  <2>2. \A u \in Queued(rest) : prio[u] = curr[u]
    BY <1>2, <2>1
  <2>3. PICK f, g : f = curr /\ g = prio
    OBVIOUS
  <2>4. Sorted(rest, g)
    BY <1>5, <2>2, <2>3, SortedSame
  <2> QED
    BY <2>3, <2>4
<1>7. \A u \in Queued(rest) : mprio'[m] <= prio[u]
  BY <1>2, <1>3, <1>5, <1>6, HeadPriorityBound
<1>8. next # NoThread => prio[next] <= mprio'[m]
  <2>1. SUFFICES ASSUME next # NoThread PROVE prio[next] <= HeadPriority(rest, prio)
    BY <1>3
  <2>2. next \in Threads /\ prio[next] \in 0..NoPrio
    BY <1>2, <2>1
  <2>3. CASE rest = <<>>
    <3>1. HeadPriority(rest, prio) = NoPrio
      BY <2>3 DEF HeadPriority
    <3>2. \A x \in 0..NoPrio : x <= NoPrio
      BY DEF NoPrio
    <3> QED
      BY <2>2, <3>1, <3>2
  <2>4. CASE rest # <<>>
    <3>1. n \in 1..Len(q) /\ n + 1 \in 1..Len(q) /\ next = q[n]
      BY <1>1, <1>4, <1>5, <2>1, <2>4 DEF q
    <3>2. curr[q[n]] <= curr[q[n + 1]]
      <4>1. \A i, j \in 1..Len(q) : i < j => curr[q[i]] <= curr[q[j]]
        <5> HIDE DEF q
        <5> QED
          BY <1>1 DEF Sorted
      <4>2. n < n + 1
        BY <3>1
      <4> QED
        BY <3>1, <4>1, <4>2
    <3>3. q[n] \in Threads /\ q[n + 1] \in Threads /\ q[n] # t /\ q[n + 1] # t
      BY <1>1, <3>1 DEF Queued
    <3> QED
      BY <1>2, <1>5, <2>4, <3>1, <3>2, <3>3 DEF HeadPriority
  <2> QED
    BY <2>3, <2>4
<1>9. AwakeOwner(m)'
  BY <1>3, <1>4, NoThreadAssumption DEF AwakeOwner
<1>10. Sorted(susp[m], curr)'
  BY <1>3, <1>6 DEF Sorted
<1>11. Inherits(m)'
  BY <1>3, <1>7, <1>8 DEF Inherits
<1> QED
  BY <1>9, <1>10, <1>11 DEF PrioInv

(* The two calls that hand a mutex over.                                   *)
LEMMA PassOnPrio ==
  ASSUME NEW m \in Mutexes, Inv, PrioInv(m), NEW t \in Threads, owner[m] = t,
         lock[m] = NoThread, PassOn(t, m)
  PROVE  PrioInv(m)'
BY PassOnHands, HandOverPrio

(* A take of a free mutex: nobody waits.                                   *)
LEMMA TakeFreePrio ==
  ASSUME NEW m \in Mutexes, Inv, PrioInv(m), NEW t \in Threads, TakeFree(t, m)
  PROVE  PrioInv(m)'
<1>1. /\ susp[m] = <<>> /\ susp' = susp /\ owner'[m] = t /\ mprio'[m] = NoPrio
      /\ curr'[t] = Lesser(ceil[m], curr[t]) /\ stat[t] = "READY" /\ stat' = stat
  BY DEF Inv, TypeOK, ListInv, ListsOK, TakeFree, Enter
<1>2. ceil[m] \in Nat /\ curr[t] \in 0..NoPrio
  BY LesserBound DEF Inv, TypeOK
<1>3. curr'[t] <= NoPrio
  <2>1. curr[t] \in Nat /\ curr[t] <= NoPrio
    BY <1>2 DEF NoPrio
  <2>2. Lesser(ceil[m], curr[t]) <= curr[t] /\ Lesser(ceil[m], curr[t]) \in Nat
    BY <1>2, <2>1, LesserBound
  <2> QED
    BY <1>1, <2>1, <2>2 DEF NoPrio
<1>4. Queued(susp'[m]) = {} /\ Sorted(susp[m], curr)'
  BY <1>1 DEF Queued, Sorted
<1> QED
  BY <1>1, <1>3, <1>4 DEF PrioInv, AwakeOwner, Inherits

(* A take of a mutex that another thread owns: the thread is queued in its *)
(* place and has yet to boost.                                             *)
LEMMA TakeSuspendPrio ==
  ASSUME NEW m \in Mutexes, Inv, PrioInv(m), NEW t \in Threads, NEW timeout,
         TakeSuspend(t, m, timeout)
  PROVE  PrioInv(m)'
<1> DEFINE q == SuspListEnqueue(susp[m], t, "PRIO", curr)
<1>1. /\ susp[m] \in Seq(Threads) /\ Unique(susp[m]) /\ Sorted(susp[m], curr)
      /\ t \notin Queued(susp[m]) /\ curr \in [Threads -> 0..NoPrio]
  BY DEF PrioInv, Inv, TypeOK, ListInv, ListsOK, Sleepers, TakeSuspend, Enter
<1>2. Queued(q) = Queued(susp[m]) \cup {t} /\ q \in Seq(Threads)
  BY <1>1, EnqueueProperties
<1>3. Sorted(q, curr)
  <2>1. curr \in [Threads -> Nat]
    BY <1>1, LesserBound
  <2>2. PICK f : f = curr
    OBVIOUS
  <2>3. Sorted(SuspListEnqueue(susp[m], t, "PRIO", f), f)
    BY <1>1, <2>1, <2>2, SortedEnqueue
  <2> QED
    BY <2>2, <2>3
<1>4. /\ susp'[m] = q /\ UNCHANGED <<owner, mprio, alive, curr>> /\ owner[m] # t
      /\ pc' = [pc EXCEPT ![t] = "pend"] /\ stat' = [stat EXCEPT ![t] = "SUSPEND"]
  BY DEF TakeSuspend, SuspendSelf, Goto, Inv, TypeOK
<1> HIDE DEF q
<1>5. AwakeOwner(m)'
  BY <1>4 DEF PrioInv, AwakeOwner, Inv, TypeOK
<1>6. Sorted(susp[m], curr)'
  BY <1>3, <1>4 DEF Sorted
<1>7. ~Told(t)' /\ \A u \in Threads : u # t => (Told(u)' <=> Told(u))
  BY <1>4 DEF Told, Inv, TypeOK
<1>8. Inherits(m)'
  <2>1. Queued(susp[m]) \subseteq Threads
    BY DEF Inv, ListInv, ListsOK, Sleepers
  <2>2. ASSUME NEW u \in Queued(susp'[m]), Told(u)' PROVE u \in Queued(susp[m]) /\ Told(u)
    BY <1>2, <1>4, <1>7, <2>1, <2>2
  <2> QED
    BY <1>4, <2>2 DEF PrioInv, Inherits
<1> QED
  BY <1>5, <1>6, <1>8 DEF PrioInv

(* A new ceiling.                                                          *)
LEMMA SetPrioCeilingPrio ==
  ASSUME NEW m \in Mutexes, Inv, PrioInv(m), NEW t \in Threads, NEW c \in Ceilings,
         SetPrioCeiling(t, m, c)
  PROVE  PrioInv(m)' /\ susp' = susp
<1> DEFINE o == owner[m]
           cl == [ceil EXCEPT ![m] = c]
           p == MutexPriority(o, Taken(o), mprio, cl)
           C == o # NoThread /\ p # curr[o]
           s == IF C THEN ThreadUpdatePriority(o, p, susp, mprio, cl)
                     ELSE Settled(susp, mprio)
<1>1. cl \in [Mutexes -> 0..NoPrio] /\ mprio \in [Mutexes -> 0..NoPrio]
  BY CallsAssumption DEF Inv, TypeOK
<1>2. Apply(s) /\ UNCHANGED <<owner, stat, alive, pc>>
  BY DEF SetPrioCeiling, callVars
<1>3. o = NoThread \/ o \in Threads
  BY DEF Inv, TypeOK
<1> HIDE DEF cl
<1>4. OnlyOwner(m, s, mprio) /\ s.curr[o] = IF C THEN p ELSE curr[o]
  <2> HIDE DEF p
  <2>1. PICK mp : mp = mprio
    OBVIOUS
  <2>2. CASE C
    BY <1>3, <2>1, <2>2, UpdateIsOnly DEF PrioInv
  <2>3. CASE ~C
    BY <2>1, <2>3, SettledIsOnly
  <2> QED
    BY <2>2, <2>3
<1>5. ASSUME m \in alive, o # NoThread
      PROVE  /\ s.curr[o] <= mprio[m]
             /\ \A u \in Queued(susp[m]) : Told(u)' => mprio[m] <= curr[u]
  <2>1. o \in Threads /\ m \in Taken(o) /\ Taken(o) \in SUBSET Mutexes
    BY <1>3, <1>5 DEF Taken, Inv, TypeOK
  <2>2. p <= mprio[m]
    BY <1>1, <2>1, MutexPriorityBound
  <2>3. curr[o] <= mprio[m] /\ \A u \in Queued(susp[m]) : Told(u) => mprio[m] <= curr[u]
    BY <1>5 DEF PrioInv, Inherits
  <2>4. \A u \in Queued(susp[m]) : Told(u)' => Told(u)
    BY <1>2 DEF Told
  <2> QED
    BY <1>4, <2>2, <2>3, <2>4
<1> HIDE DEF s, C, p
<1>6. PICK mp, r : mp = mprio /\ r = s
  OBVIOUS
<1> QED
  BY <1>2, <1>4, <1>5, <1>6, PrioApply DEF o

(* A detach that wakes one waiter.                                         *)
LEMMA DetachStepPrio ==
  ASSUME NEW m \in Mutexes, Mutexes = {m}, Inv, PrioInv(m), NEW t \in Threads, DetachStep(t)
  PROVE  PrioInv(m)'
<1> DEFINE u == Head(susp[m])
<1>1. at[t] = m
  BY DEF Inv, CallInv, DetachStep, At
<1>2. /\ susp[m] # <<>> /\ susp[m] \in Seq(Threads) /\ Unique(susp[m]) /\ Sorted(susp[m], curr)
      /\ curr \in [Threads -> 0..NoPrio]
  BY <1>1 DEF PrioInv, Inv, TypeOK, ListInv, ListsOK, DetachStep, DequeueOK
<1>3. Queued(Tail(susp[m])) = Queued(susp[m]) \ {u}
  BY <1>2, TailProperties
<1>4. Sorted(Tail(susp[m]), curr)
  <2>1. curr \in [Threads -> Int]
    BY <1>2, LesserBound
  <2> QED
    BY <1>2, <2>1, SortedTail
<1>5. /\ susp'[m] = Tail(susp[m]) /\ UNCHANGED <<owner, mprio, curr, alive, pc>>
      /\ \A x \in Threads : stat'[x] = "SUSPEND" => stat[x] = "SUSPEND"
  BY <1>1 DEF DetachStep, ThreadReady, callVars, Inv, TypeOK
<1>6. \A x \in Queued(susp'[m]) : Told(x)' => Told(x)
  BY <1>5 DEF Told
<1> QED
  BY <1>3, <1>4, <1>5, <1>6, PrioKept

(* The end of a detach: the owner, who is awake, loses what it inherited.  *)
LEMMA DetachDonePrio ==
  ASSUME NEW m \in Mutexes, Mutexes = {m}, Inv, PrioInv(m), NEW t \in Threads, DetachDone(t)
  PROVE  PrioInv(m)'
<1>1. at[t] = m
  BY DEF Inv, CallInv, DetachDone, At
<1>2. UNCHANGED <<owner, susp, stat>> /\ m \notin alive'
  <2>1. CASE susp[m] = <<>>
    BY <1>1, <2>1 DEF DetachDone
  <2>2. CASE susp[m] # <<>>
    <3>1. ThreadReady(Head(susp[m])) /\ ~ReadyOK(Head(susp[m]))
      BY <1>1, <2>2 DEF DetachDone, DequeueOK
    <3> QED
      BY <1>1, <3>1 DEF DetachDone, ThreadReady, Inv, TypeOK
  <2> QED
    BY <2>1, <2>2
<1>3. \A u \in Threads : u # owner[m] => curr'[u] = curr[u]
  BY <1>1 DEF DetachDone, RestoredPrio, Inv, TypeOK
<1>4. owner[m] \notin Queued(susp[m]) /\ Queued(susp[m]) \subseteq Threads
  BY OwnerElsewhere DEF PrioInv, Inv, ListInv, ListsOK, Sleepers
<1>5. \A u \in Queued(susp[m]) : curr'[u] = curr[u]
  BY <1>3, <1>4
<1>6. Sorted(susp[m], curr')
  <2>1. PICK f, g : f = curr /\ g = curr'
    OBVIOUS
  <2>2. Sorted(susp[m], g)
    BY <1>5, <2>1, SortedSame DEF PrioInv, Inv, TypeOK
  <2> QED
    BY <2>1, <2>2
<1>7. Sorted(susp[m], curr)'
  BY <1>2, <1>6 DEF Sorted
<1> QED
  BY <1>2, <1>7 DEF PrioInv, AwakeOwner, Inherits

(* A mutex that is initialised again has no owner and no waiters.          *)
LEMMA MutexInitPrio ==
  ASSUME NEW m \in Mutexes, Mutexes = {m}, Inv, PrioInv(m), MutexInit(m)
  PROVE  PrioInv(m)'
<1>1. owner'[m] = NoThread /\ UNCHANGED <<susp, curr, stat>>
  BY DEF MutexInit, threadVars, Inv, TypeOK
<1>2. Sorted(susp[m], curr)'
  BY <1>1 DEF PrioInv, Sorted
<1> QED
  BY <1>1, <1>2, NoThreadAssumption DEF PrioInv, AwakeOwner, Inherits

(* A new thread in the place of one that has ended has its own priority.   *)
LEMMA CreatePrio ==
  ASSUME NEW m \in Mutexes, Mutexes = {m}, Inv, PrioInv(m), NEW t \in Threads, Create(t)
  PROVE  PrioInv(m)'
<1>1. /\ stat' = [stat EXCEPT ![t] = "READY"] /\ curr' = [curr EXCEPT ![t] = InitPrio[t]]
      /\ pc' = [pc EXCEPT ![t] = "idle"] /\ UNCHANGED <<owner, susp, alive, mprio>>
  BY DEF Create, Leave, Goto, mutexVars
<1>2. stat[t] = "CLOSE" /\ t \notin Taken(t) /\ (m \in alive => owner[m] # t)
  BY DEF Create, At, Inv, StatInv, Dead, Taken, TypeOK
<1>3. t \notin Queued(susp[m]) /\ Queued(susp[m]) \subseteq Threads
  BY <1>2 DEF Inv, ListInv, ListsOK, Sleepers
<1>4. \A u \in Threads : u # t => curr'[u] = curr[u] /\ (Told(u)' <=> Told(u))
  BY <1>1 DEF Told, Inv, TypeOK
<1>5. Sorted(susp[m], curr')
  <2>1. PICK f, g : f = curr /\ g = curr'
    OBVIOUS
  <2>2. \A u \in Queued(susp[m]) : g[u] = f[u]
    BY <1>3, <1>4, <2>1
  <2>3. Sorted(susp[m], g)
    BY <2>1, <2>2, SortedSame DEF PrioInv, Inv, TypeOK
  <2> QED
    BY <2>1, <2>3
<1>6. Sorted(susp[m], curr)'
  BY <1>1, <1>5 DEF Sorted
<1>7. AwakeOwner(m)'
  BY <1>1, <1>2 DEF PrioInv, AwakeOwner, Inv, TypeOK
<1>8. Inherits(m)'
  <2>1. SUFFICES ASSUME m \in alive, owner[m] # NoThread
                 PROVE  /\ curr'[owner[m]] <= mprio[m]
                        /\ \A u \in Queued(susp[m]) : Told(u)' => mprio[m] <= curr'[u]
    BY <1>1 DEF Inherits
  <2>2. owner[m] \in Threads /\ owner[m] # t
    BY <1>2, <2>1 DEF Inv, TypeOK
  <2>3. curr[owner[m]] <= mprio[m] /\ \A u \in Queued(susp[m]) : Told(u) => mprio[m] <= curr[u]
    BY <2>1 DEF PrioInv, Inherits
  <2> QED
    BY <1>3, <1>4, <2>2, <2>3
<1> QED
  BY <1>6, <1>7, <1>8 DEF PrioInv

(* Every step keeps the priorities as they should be.                      *)
LEMMA NextPrio ==
  ASSUME NEW m \in Mutexes, Mutexes = {m}, Inv, PrioInv(m), [Next]_vars
  PROVE  PrioInv(m)'
<1>0. \A x \in Mutexes : x = m
  OBVIOUS
<1>1. ASSUME NEW t \in Threads, Call(t) PROVE PrioInv(m)'
  <2>1. \/ TakeNested(t, m)
        \/ InOrder(t, m) /\ TakeFree(t, m)
        \/ InOrder(t, m) /\ \E timeout \in Timeouts : TakeSuspend(t, m, timeout)
        \/ ReleaseNested(t, m)
        \/ ReleaseLast(t, m)
        \/ \E c \in Ceilings : SetPrioCeiling(t, m, c)
        \/ "detach" \in Ops /\ Detach(t, m)
    BY <1>0, <1>1 DEF Call
  <2>2. CASE TakeNested(t, m)
    <3>1. UNCHANGED <<owner, mprio, curr, susp, alive, stat, pc>>
      BY <2>2 DEF TakeNested
    <3> QED
      BY <3>1, PrioQuiet DEF Told
  <2>3. CASE TakeFree(t, m)
    BY <2>3, TakeFreePrio
  <2>4. CASE \E timeout \in Timeouts : TakeSuspend(t, m, timeout)
    BY <2>4, TakeSuspendPrio
  <2>5. CASE ReleaseNested(t, m)
    <3>1. UNCHANGED <<owner, mprio, curr, susp, alive, stat, pc>>
      BY <2>5 DEF ReleaseNested, threadVars
    <3> QED
      BY <3>1, PrioQuiet DEF Told
  <2>6. CASE ReleaseLast(t, m)
    BY <2>6, PassOnPrio DEF ReleaseLast, LastHold, Enter
  <2>7. CASE \E c \in Ceilings : SetPrioCeiling(t, m, c)
    BY <2>7, SetPrioCeilingPrio
  <2>8. CASE Detach(t, m)
    <3>1. UNCHANGED <<owner, mprio, curr, susp, alive, stat>>
      BY <2>8 DEF Detach, threadVars
    <3>2. \A u \in Threads : Told(u)' => Told(u)
      BY <2>8 DEF Detach, Enter, Goto, Told, Inv, TypeOK
    <3> QED
      BY <3>1, <3>2, PrioQuiet
  <2> QED
    BY <2>1, <2>2, <2>3, <2>4, <2>5, <2>6, <2>7, <2>8
<1>2. ASSUME NEW t \in Threads, Continue(t) PROVE PrioInv(m)'
  <2>1. CASE TakePend(t)
    <3>1. UNCHANGED <<owner, mprio, curr, susp, alive, stat>>
      BY <2>1 DEF TakePend, threadVars, mutexVars
    <3>2. \A u \in Threads : Told(u)' => Told(u)
      BY <2>1 DEF TakePend, At, Goto, Told, Inv, TypeOK
    <3> QED
      BY <3>1, <3>2, PrioQuiet
  <2>2. CASE TakeBoost(t)
    BY <2>2, TakeBoostPrio
  <2>3. CASE TakeArm(t)
    <3>1. UNCHANGED <<owner, mprio, curr, susp, alive, stat>>
      BY <2>3 DEF TakeArm
    <3>2. \A u \in Threads : Told(u)' => Told(u)
      BY <2>3 DEF TakeArm, At, Goto, Told, Inv, TypeOK
    <3> QED
      BY <3>1, <3>2, PrioQuiet
  <2>4. CASE TakeGranted(t)
    <3>1. UNCHANGED <<owner, mprio, curr, susp, alive, stat>>
      BY <2>4 DEF TakeGranted, mutexVars
    <3>2. \A u \in Threads : Told(u)' => Told(u)
      BY <2>4 DEF TakeGranted, Resumes, At, Leave, Goto, Told, Inv, TypeOK
    <3> QED
      BY <3>1, <3>2, PrioQuiet
  <2>5. CASE TakeGivenUp(t)
    <3>1. at[t] = m
      BY <1>0, <2>5 DEF Inv, CallInv, Sleeping, TakeGivenUp, Resumes, At
    <3>2. Withdraw(t, m) /\ lock[m] = NoThread /\ UNCHANGED <<owner, stat, alive>>
      BY <2>5, <3>1 DEF TakeGivenUp, Resumes
    <3> QED
      BY <3>2, WithdrawPrio
  <2>6. CASE DetachStep(t)
    BY <2>6, DetachStepPrio
  <2>7. CASE DetachDone(t)
    BY <2>7, DetachDonePrio
  <2> QED
    BY <1>2, <2>1, <2>2, <2>3, <2>4, <2>5, <2>6, <2>7 DEF Continue
<1>3. ASSUME NEW t \in Threads, End(t) PROVE PrioInv(m)'
  <2>1. CASE Exit(t)
    <3>1. /\ UNCHANGED <<owner, mprio, curr, alive>>
          /\ susp' = [x \in Mutexes |-> ListRemove(susp[x], t)]
      BY <2>1 DEF Exit, Close
    <3>2. \A u \in Threads : /\ stat'[u] = "SUSPEND" => stat[u] = "SUSPEND"
                             /\ u # t => pc'[u] = pc[u]
      BY <2>1 DEF Exit, Close, Goto, Inv, TypeOK
    <3> QED
      BY <3>1, <3>2, PrioRemove
  <2>2. CASE \E x \in Mutexes : ExitRelease(t, x)
    BY <1>0, <2>2, PassOnPrio DEF ExitRelease, Taken
  <2>3. CASE Delete(t)
    <3>1. /\ UNCHANGED <<owner, mprio, curr, alive>>
          /\ susp' = [x \in Mutexes |-> ListRemove(susp[x], t)]
      BY <2>3 DEF Delete, Close
    <3>2. \A u \in Threads : /\ stat'[u] = "SUSPEND" => stat[u] = "SUSPEND"
                             /\ u # t => pc'[u] = pc[u]
      BY <2>3 DEF Delete, Close, Goto, Inv, TypeOK
    <3> QED
      BY <3>1, <3>2, PrioRemove
  <2>4. CASE DropThread(t)
    <3>1. pending[t] = m
      BY <1>0, <2>4 DEF Inv, TypeOK, PendInv, DropThread, At
    <3>2. Withdraw(t, m) /\ lock[m] = NoThread /\ UNCHANGED <<owner, stat, alive>>
      BY <2>4, <3>1 DEF DropThread
    <3> QED
      BY <3>2, WithdrawPrio
  <2>5. CASE Create(t)
    BY <2>5, CreatePrio
  <2> QED
    BY <1>3, <2>1, <2>2, <2>3, <2>4, <2>5 DEF End
<1>4. ASSUME NEW t \in Threads, Expire(t) PROVE PrioInv(m)'
  <2>1. UNCHANGED <<owner, mprio, curr, susp, alive, stat, pc>>
    BY <1>4 DEF Expire, TimerExpire, mutexVars, callVars
  <2> QED
    BY <2>1, PrioQuiet DEF Told
<1>5. ASSUME NEW x \in Mutexes, MutexInit(x) PROVE PrioInv(m)'
  BY <1>0, <1>5, MutexInitPrio
<1>6. CASE Timeout
  <2>1. /\ UNCHANGED <<owner, mprio, curr, alive, pc>>
        /\ susp' = [x \in Mutexes |-> ListRemove(susp[x], isr)]
    BY <1>6 DEF Timeout, callVars
  <2>2. \A u \in Threads : stat'[u] = "SUSPEND" => stat[u] = "SUSPEND"
    BY <1>6 DEF Timeout, ThreadTimeout, Inv, TypeOK
  <2>3. PICK i : i = isr
    OBVIOUS
  <2> QED
    BY <2>1, <2>2, <2>3, PrioRemove
<1>7. CASE TimeoutAssertFails
  <2>1. UNCHANGED <<owner, mprio, curr, susp, alive, stat, pc>>
    BY <1>7 DEF TimeoutAssertFails, ThreadTimeoutAssertFails, mutexVars, callVars
  <2> QED
    BY <2>1, PrioQuiet DEF Told
<1>8. ASSUME NEW t \in Threads, ThreadResume(t) PROVE PrioInv(m)'
  <2>1. /\ UNCHANGED <<owner, mprio, curr, alive, pc>>
        /\ \A u \in Threads : stat'[u] = "SUSPEND" => stat[u] = "SUSPEND"
    BY <1>8 DEF ThreadResume, ThreadReady, callVars, Inv, TypeOK
  <2>2. CASE ReadyOK(t)
    <3>1. susp' = [x \in Mutexes |-> ListRemove(susp[x], t)]
      BY <1>8, <2>2 DEF ThreadResume
    <3> QED
      BY <2>1, <3>1, PrioRemove
  <2>3. CASE ~ReadyOK(t)
    <3>1. susp' = susp
      BY <1>8, <2>3 DEF ThreadResume
    <3> QED
      BY <2>1, <3>1, PrioQuiet DEF Told
  <2> QED
    BY <2>2, <2>3
<1>9. CASE UNCHANGED vars
  <2>1. UNCHANGED <<owner, mprio, curr, susp, alive, stat, pc>>
    BY <1>9 DEF vars, threadVars, mutexVars, callVars
  <2> QED
    BY <2>1, PrioQuiet DEF Told
<1> QED
  BY <1>1, <1>2, <1>3, <1>4, <1>5, <1>6, <1>7, <1>8, <1>9 DEF Next

(* Nobody is woken by a timer.                                             *)
Untimed ==
  /\ isr = NoThread
  /\ \A t \in Threads : pc[t] # "arm" /\ timed[t] = FALSE /\ ttmr[t] = FALSE /\ tmr[t] = FALSE

(* A hand-off starts no timer.                                             *)
LEMMA PassOnUntimed ==
  ASSUME NEW t, NEW m, Untimed, PassOn(t, m)
  PROVE  Untimed'
<1>1. PICK n, next : HandOver(t, m, n, next)
  BY DEF PassOn
<1> QED
  BY <1>1 DEF HandOver, Untimed

(* With callers that wait for ever it stays so.                            *)
LEMMA UntimedKept ==
  ASSUME Timeouts \subseteq {"forever"}, Inv, Untimed, [Next]_vars
  PROVE  Untimed'
<1>0. /\ pc \in [Threads -> {"idle", "pend", "boost", "arm", "waiting",
                             "detach", "exit", "drop", "deleted"}]
      /\ timed \in [Threads -> BOOLEAN]
      /\ ttmr \in [Threads -> BOOLEAN] /\ tmr \in [Threads -> BOOLEAN]
  BY DEF Inv, TypeOK, TimerTypes
<1>1. ASSUME NEW t \in Threads, Call(t) PROVE Untimed'
  <2>1. PICK m \in Mutexes :
          \/ TakeNested(t, m)
          \/ InOrder(t, m) /\ TakeFree(t, m)
          \/ InOrder(t, m) /\ \E timeout \in Timeouts : TakeSuspend(t, m, timeout)
          \/ ReleaseNested(t, m)
          \/ ReleaseLast(t, m)
          \/ \E c \in Ceilings : SetPrioCeiling(t, m, c)
          \/ "detach" \in Ops /\ Detach(t, m)
    BY <1>1 DEF Call
  <2>2. CASE TakeNested(t, m)
    BY <2>2 DEF TakeNested, Untimed
  <2>3. CASE TakeFree(t, m)
    BY <2>3 DEF TakeFree, Untimed
  <2>4. CASE \E timeout \in Timeouts : TakeSuspend(t, m, timeout)
    BY <1>0, <2>4 DEF TakeSuspend, SuspendSelf, Goto, Untimed
  <2>5. CASE ReleaseNested(t, m)
    BY <2>5 DEF ReleaseNested, threadVars, Untimed
  <2>6. CASE ReleaseLast(t, m)
    BY <2>6, PassOnUntimed DEF ReleaseLast
  <2>7. CASE \E c \in Ceilings : SetPrioCeiling(t, m, c)
    BY <2>7 DEF SetPrioCeiling, callVars, Untimed
  <2>8. CASE Detach(t, m)
    BY <1>0, <2>8 DEF Detach, threadVars, Goto, Untimed
  <2> QED
    BY <2>1, <2>2, <2>3, <2>4, <2>5, <2>6, <2>7, <2>8
<1>2. ASSUME NEW t \in Threads, Continue(t) PROVE Untimed'
  <2>1. CASE TakePend(t)
    BY <1>0, <2>1 DEF TakePend, threadVars, Goto, Untimed
  <2>2. CASE TakeBoost(t)
    BY <1>0, <2>2 DEF TakeBoost, Goto, Untimed
  <2>3. CASE TakeArm(t)
    BY <2>3 DEF TakeArm, At, Untimed
  <2>4. CASE TakeGranted(t)
    BY <1>0, <2>4 DEF TakeGranted, Leave, Goto, Untimed
  <2>5. CASE TakeGivenUp(t)
    BY <1>0, <2>5 DEF TakeGivenUp, Leave, Goto, Untimed
  <2>6. CASE DetachStep(t)
    BY <1>0, <2>6 DEF DetachStep, ThreadReady, callVars, Untimed
  <2>7. CASE DetachDone(t)
    BY <1>0, <2>7 DEF DetachDone, ThreadReady, Leave, Goto, Untimed
  <2> QED
    BY <1>2, <2>1, <2>2, <2>3, <2>4, <2>5, <2>6, <2>7 DEF Continue
<1>3. ASSUME NEW t \in Threads, End(t) PROVE Untimed'
  <2>1. CASE Exit(t)
    BY <1>0, <2>1 DEF Exit, Close, Goto, Untimed
  <2>2. CASE \E m \in Mutexes : ExitRelease(t, m)
    BY <2>2, PassOnUntimed DEF ExitRelease
  <2>3. CASE Delete(t)
    BY <1>0, <2>3 DEF Delete, Close, Goto, Untimed
  <2>4. CASE DropThread(t)
    BY <1>0, <2>4 DEF DropThread, Goto, Untimed
  <2>5. CASE Create(t)
    BY <1>0, <2>5 DEF Create, Leave, Goto, Untimed
  <2> QED
    BY <1>3, <2>1, <2>2, <2>3, <2>4, <2>5 DEF End
<1>4. ASSUME NEW t \in Threads, Expire(t) PROVE Untimed'
  BY <1>4 DEF Expire, TimerExpire, Untimed
<1>5. ASSUME NEW m \in Mutexes, MutexInit(m) PROVE Untimed'
  BY <1>5 DEF MutexInit, threadVars, callVars, Untimed
<1>6. CASE Timeout
  BY <1>6 DEF Timeout, ThreadTimeout, Untimed
<1>7. CASE TimeoutAssertFails
  BY <1>7 DEF TimeoutAssertFails, ThreadTimeoutAssertFails, Untimed
<1>8. ASSUME NEW t \in Threads, ThreadResume(t) PROVE Untimed'
  BY <1>0, <1>8 DEF ThreadResume, ThreadReady, callVars, Untimed
<1>9. CASE UNCHANGED vars
  BY <1>9 DEF vars, threadVars, callVars, Untimed
<1> QED
  BY <1>1, <1>2, <1>3, <1>4, <1>5, <1>6, <1>7, <1>8, <1>9 DEF Next

(* Then a detach leaves nobody on the list of the dead mutex, and nobody   *)
(* comes to be there.                                                      *)
DeadEmpty(m) == m \notin alive => susp[m] = <<>>

(* Without timers every waiter can be woken.                               *)
LEMMA DeadEmptyKept ==
  ASSUME NEW m \in Mutexes, Mutexes = {m}, Inv, PrioInv(m), Untimed, DeadEmpty(m),
         [Next]_vars
  PROVE  DeadEmpty(m)'
<1>0. /\ \A x \in Mutexes : x = m
      /\ susp[m] \in Seq(Threads) /\ Unique(susp[m]) /\ Queued(susp[m]) \subseteq Sleepers(m)
  BY DEF Inv, ListInv, ListsOK
<1>1. \A u : ListRemove(<<>>, u) = <<>>
  BY DEF ListRemove
<1>2. ASSUME UNCHANGED <<susp, alive>> PROVE DeadEmpty(m)'
  BY <1>2 DEF DeadEmpty
<1>3. ASSUME NEW u, susp' = [x \in Mutexes |-> ListRemove(susp[x], u)], UNCHANGED alive
      PROVE  DeadEmpty(m)'
  BY <1>1, <1>3 DEF DeadEmpty
<1>4. ASSUME NEW t \in Threads, Call(t) PROVE DeadEmpty(m)'
  <2>1. \/ TakeNested(t, m)
        \/ InOrder(t, m) /\ TakeFree(t, m)
        \/ InOrder(t, m) /\ \E timeout \in Timeouts : TakeSuspend(t, m, timeout)
        \/ ReleaseNested(t, m)
        \/ ReleaseLast(t, m)
        \/ \E c \in Ceilings : SetPrioCeiling(t, m, c)
        \/ "detach" \in Ops /\ Detach(t, m)
    BY <1>0, <1>4 DEF Call
  <2>2. m \in alive
    BY <2>1 DEF TakeNested, TakeFree, TakeSuspend, ReleaseNested, ReleaseLast, LastHold,
       SetPrioCeiling, Detach, Enter
  <2>3. alive' = alive
    BY <2>1 DEF TakeNested, TakeFree, TakeSuspend, ReleaseNested, ReleaseLast, PassOn, HandOver,
       SetPrioCeiling, Detach
  <2> QED
    BY <2>2, <2>3 DEF DeadEmpty
<1>5. ASSUME NEW t \in Threads, Continue(t) PROVE DeadEmpty(m)'
  <2>1. CASE TakePend(t)
    BY <1>2, <2>1 DEF TakePend, mutexVars
  <2>2. CASE TakeBoost(t)
    BY <1>2, <2>2, TakeBoostPrio DEF TakeBoost
  <2>3. CASE TakeArm(t)
    BY <1>2, <2>3 DEF TakeArm
  <2>4. CASE TakeGranted(t)
    BY <1>2, <2>4 DEF TakeGranted, mutexVars
  <2>5. CASE TakeGivenUp(t)
    <3>1. at[t] = m
      BY <1>0, <2>5 DEF Inv, CallInv, Sleeping, TakeGivenUp, Resumes, At
    <3>2. Withdraw(t, m) /\ lock[m] = NoThread /\ UNCHANGED <<owner, stat, alive>>
      BY <2>5, <3>1 DEF TakeGivenUp, Resumes
    <3> QED
      BY <1>2, <3>2, WithdrawPrio
  <2>6. CASE DetachStep(t)
    <3>1. at[t] = m
      BY <1>0, <2>6 DEF Inv, CallInv, DetachStep, At
    <3>2. susp[m] # <<>> /\ alive' = alive
      BY <2>6, <3>1 DEF DetachStep, DequeueOK
    <3> QED
      BY <3>2 DEF DeadEmpty
  <2>7. CASE DetachDone(t)
    <3>1. at[t] = m
      BY <1>0, <2>7 DEF Inv, CallInv, DetachDone, At
    <3>2. ~DequeueOK(m) /\ susp' = susp
      BY <2>7, <3>1 DEF DetachDone
    <3>3. ASSUME susp[m] # <<>> PROVE FALSE
      <4>1. Head(susp[m]) \in Queued(susp[m])
        BY <1>0, <3>3, TailProperties
      <4>2. ReadyOK(Head(susp[m]))
        BY <1>0, <4>1 DEF ReadyOK, Untimed, Sleepers
      <4> QED
        BY <3>2, <3>3, <4>2 DEF DequeueOK
    <3> QED
      BY <3>2, <3>3 DEF DeadEmpty
  <2> QED
    BY <1>5, <2>1, <2>2, <2>3, <2>4, <2>5, <2>6, <2>7 DEF Continue
<1>6. ASSUME NEW t \in Threads, End(t) PROVE DeadEmpty(m)'
  <2>1. CASE Exit(t)
    BY <1>3, <2>1 DEF Exit, Close
  <2>2. CASE \E x \in Mutexes : ExitRelease(t, x)
    <3>1. m \in alive /\ alive' = alive
      BY <1>0, <2>2 DEF ExitRelease, Taken, PassOn, HandOver
    <3> QED
      BY <3>1 DEF DeadEmpty
  <2>3. CASE Delete(t)
    BY <1>3, <2>3 DEF Delete, Close
  <2>4. CASE DropThread(t)
    <3>1. pending[t] = m
      BY <1>0, <2>4 DEF Inv, TypeOK, PendInv, DropThread, At
    <3>2. Withdraw(t, m) /\ lock[m] = NoThread /\ UNCHANGED <<owner, stat, alive>>
      BY <2>4, <3>1 DEF DropThread
    <3> QED
      BY <1>2, <3>2, WithdrawPrio
  <2>5. CASE Create(t)
    BY <1>2, <2>5 DEF Create, mutexVars
  <2> QED
    BY <1>6, <2>1, <2>2, <2>3, <2>4, <2>5 DEF End
<1>7. ASSUME NEW t \in Threads, Expire(t) PROVE DeadEmpty(m)'
  BY <1>2, <1>7 DEF Expire, mutexVars
<1>8. ASSUME NEW x \in Mutexes, MutexInit(x) PROVE DeadEmpty(m)'
  BY <1>0, <1>8 DEF MutexInit, DeadEmpty
<1>9. CASE Timeout
  <2>1. isr # NoThread
    BY <1>9 DEF Timeout, ThreadTimeout
  <2> QED
    BY <2>1 DEF Untimed
<1>10. CASE TimeoutAssertFails
  BY <1>2, <1>10 DEF TimeoutAssertFails, mutexVars
<1>11. ASSUME NEW t \in Threads, ThreadResume(t) PROVE DeadEmpty(m)'
  <2>1. alive' = alive /\ susp' = IF ReadyOK(t) THEN [x \in Mutexes |-> ListRemove(susp[x], t)]
                                                ELSE susp
    BY <1>11 DEF ThreadResume
  <2> QED
    BY <1>2, <1>3, <2>1
<1>12. CASE UNCHANGED vars
  BY <1>2, <1>12 DEF vars, mutexVars
<1> QED
  BY <1>4, <1>5, <1>6, <1>7, <1>8, <1>9, <1>10, <1>11, <1>12 DEF Next

(* Nobody detaches a mutex.                                                *)
Undetached == alive = Mutexes /\ \A t \in Threads : pc[t] # "detach"

(* It stays so if no caller asks for it.                                   *)
LEMMA UndetachedKept ==
  ASSUME "detach" \notin Ops, Inv, Undetached, [Next]_vars
  PROVE  Undetached'
<1>0. /\ pc \in [Threads -> {"idle", "pend", "boost", "arm", "waiting",
                             "detach", "exit", "drop", "deleted"}]
  BY DEF Inv, TypeOK
<1>1. ASSUME NEW t \in Threads, Call(t) PROVE Undetached'
  <2>1. UNCHANGED alive
    BY <1>1 DEF Call, TakeNested, TakeFree, TakeSuspend, ReleaseNested, ReleaseLast, PassOn,
       HandOver, SetPrioCeiling
  <2>2. pc' = pc \/ pc' = [pc EXCEPT ![t] = "pend"]
    BY <1>1 DEF Call, TakeNested, TakeFree, TakeSuspend, ReleaseNested, ReleaseLast, PassOn,
       HandOver, SetPrioCeiling, callVars, Goto
  <2> QED
    BY <1>0, <2>1, <2>2 DEF Undetached
<1>2. ASSUME NEW t \in Threads, Continue(t) PROVE Undetached'
  <2>1. ~DetachStep(t) /\ ~DetachDone(t)
    BY DEF DetachStep, DetachDone, At, Undetached
  <2>2. UNCHANGED alive
    BY <1>2, <2>1 DEF Continue, TakePend, TakeBoost, TakeArm, TakeGranted, TakeGivenUp,
       mutexVars
  <2>3. \E where \in {"boost", "arm", "waiting", "idle"} : pc' = [pc EXCEPT ![t] = where]
    BY <1>2, <2>1 DEF Continue, TakePend, TakeBoost, TakeArm, TakeGranted, TakeGivenUp,
       Leave, Goto
  <2> QED
    BY <1>0, <2>2, <2>3 DEF Undetached
<1>3. ASSUME NEW t \in Threads, End(t) PROVE Undetached'
  <2>1. UNCHANGED alive
    BY <1>3 DEF End, Exit, ExitRelease, PassOn, HandOver, Delete, DropThread, Create, Close,
       mutexVars
  <2>2. \/ pc' = pc
        \/ \E where \in {"exit", "deleted", "drop", "idle"} : pc' = [pc EXCEPT ![t] = where]
    BY <1>3 DEF End, Exit, ExitRelease, PassOn, HandOver, Delete, DropThread, Create, Leave,
       Goto
  <2> QED
    BY <1>0, <2>1, <2>2 DEF Undetached
<1>4. ASSUME NEW t \in Threads, Expire(t) \/ ThreadResume(t) PROVE Undetached'
  BY <1>4 DEF Expire, ThreadResume, mutexVars, callVars, Undetached
<1>5. ASSUME NEW m \in Mutexes PROVE ~MutexInit(m)
  BY DEF MutexInit, Undetached
<1>6. CASE Timeout \/ TimeoutAssertFails \/ UNCHANGED vars
  BY <1>6 DEF Timeout, TimeoutAssertFails, vars, mutexVars, callVars, Undetached
<1> QED
  BY <1>1, <1>2, <1>3, <1>4, <1>5, <1>6 DEF Next

(* The priorities are as they should be in every state.                    *)
LEMMA SpecPrio ==
  ASSUME NEW m, Mutexes = {m}
  PROVE  Spec => [](Inv /\ PrioInv(m))
<1>1. m \in Mutexes
  OBVIOUS
<1>2. Init => Inv /\ PrioInv(m)
  <2>1. SUFFICES ASSUME Init PROVE PrioInv(m)
    BY InitInv
  <2>2. susp[m] = <<>> /\ owner[m] = NoThread
    BY <1>1, <2>1 DEF Init
  <2> QED
    BY <2>2, NoThreadAssumption DEF PrioInv, AwakeOwner, Sorted, Inherits
<1>3. Inv /\ PrioInv(m) /\ [Next]_vars => Inv' /\ PrioInv(m)'
  BY <1>1, NextInv, NextPrio
<1> QED
  BY <1>2, <1>3, PTL DEF Spec

(* What the invariant says of a quiet state, if no dead mutex has waiters. *)
LEMMA QuietInherits ==
  ASSUME NEW m \in Mutexes, Mutexes = {m}, Inv, PrioInv(m), DeadEmpty(m)
  PROVE  PriorityInherited
<1>1. SUFFICES ASSUME Quiet, NEW t \in Queued(susp[m]) PROVE curr[owner[m]] <= curr[t]
  BY DEF PriorityInherited
<1>2. susp[m] # <<>>
  BY <1>1 DEF Queued
<1>3. m \in alive /\ owner[m] # NoThread
  BY <1>2 DEF DeadEmpty, Inv, ListInv, ListsOK
<1>4. t \in Threads /\ Told(t)
  BY <1>1 DEF Inv, ListInv, ListsOK, Sleepers, Quiet, Told
<1>5. curr[owner[m]] <= mprio[m] /\ mprio[m] <= curr[t]
  BY <1>1, <1>3, <1>4 DEF PrioInv, Inherits
<1>6. curr[owner[m]] \in Nat /\ mprio[m] \in Nat /\ curr[t] \in Nat
  BY <1>3, <1>4, LesserBound DEF Inv, TypeOK
<1> QED
  BY <1>5, <1>6

(* Priority inheritance: when no call is halfway, the owner is at least as *)
(* urgent as every thread that waits (_rt_mutex_take, rt_mutex_release,    *)
(* _mutex_update_priority, _thread_update_priority), whatever nested       *)
(* takes, ceilings, resumes and ends of threads there are; with timeouts,  *)
(* too, if the mutex is not detached: a detach leaves those behind a       *)
(* timeout asleep.                                                         *)
THEOREM OwnerInherits ==
  ASSUME NEW m, Mutexes = {m}, Timeouts \subseteq {"forever"} \/ "detach" \notin Ops
  PROVE  Spec => []PriorityInherited
<1>1. m \in Mutexes
  OBVIOUS
<1>2. CASE Timeouts \subseteq {"forever"}
  <2> DEFINE J == Inv /\ PrioInv(m) /\ Untimed /\ DeadEmpty(m)
  <2>1. Init => J
    <3>1. SUFFICES ASSUME Init PROVE Untimed /\ DeadEmpty(m) /\ Inv /\ PrioInv(m)
      OBVIOUS
    <3>2. Untimed /\ DeadEmpty(m)
      BY <1>1, <3>1 DEF Init, ThreadInit, Untimed, DeadEmpty
    <3>3. susp[m] = <<>> /\ owner[m] = NoThread
      BY <1>1, <3>1 DEF Init
    <3>4. PrioInv(m)
      BY <3>3, NoThreadAssumption DEF PrioInv, AwakeOwner, Sorted, Inherits
    <3> QED
      BY <3>1, <3>2, <3>4, InitInv
  <2>2. J /\ [Next]_vars => J'
    BY <1>1, <1>2, NextInv, NextPrio, UntimedKept, DeadEmptyKept
  <2>3. J => PriorityInherited
    BY <1>1, QuietInherits
  <2> HIDE DEF J
  <2> QED
    BY <2>1, <2>2, <2>3, PTL DEF Spec
<1>3. CASE "detach" \notin Ops
  <2>1. Spec => []Undetached
    <3>1. Init => Inv /\ Undetached
      BY InitInv DEF Init, Undetached
    <3>2. Inv /\ Undetached /\ [Next]_vars => Inv' /\ Undetached'
      BY <1>3, NextInv, UndetachedKept
    <3> QED
      BY <3>1, <3>2, PTL DEF Spec
  <2>2. Undetached => DeadEmpty(m)
    BY <1>1 DEF Undetached, DeadEmpty
  <2>3. Inv /\ PrioInv(m) /\ DeadEmpty(m) => PriorityInherited
    BY <1>1, QuietInherits
  <2> QED
    BY <2>1, <2>2, <2>3, SpecPrio, PTL
<1> QED
  BY <1>2, <1>3

-------------------------------------------------------------------------------
(* The end of the walk along the owners.                                   *)

(* A mutex whose waiter is queued again is as urgent as the waiter or as   *)
(* the first of the others.                                                *)
LEMMA RequeuedPriority ==
  ASSUME NEW q \in Seq(Threads), NEW t \in Threads, NEW prio \in [Threads -> 0..NoPrio],
         t \notin Queued(q)
  PROVE  HeadPriority(SuspListEnqueue(q, t, "PRIO", prio), prio)
           = Lesser(prio[t], HeadPriority(q, prio))
<1> DEFINE r == SuspListEnqueue(q, t, "PRIO", prio)
<1>1. prio \in [Threads -> Nat]
  <2>1. 0..NoPrio \subseteq Nat
    BY DEF NoPrio
  <2> QED
    BY <2>1
<1>2. r # <<>> /\ Head(r) = IF q = <<>> \/ prio[t] < prio[Head(q)] THEN t ELSE Head(q)
  BY <1>1, EnqueueUndone
<1> HIDE DEF r
<1>3. HeadPriority(r, prio) = prio[Head(r)]
  BY <1>2 DEF HeadPriority
<1>4. CASE q = <<>>
  <2>1. prio[t] \in Nat /\ prio[t] <= NoPrio
    <3>1. \A x \in 0..NoPrio : x \in Nat /\ x <= NoPrio
      BY DEF NoPrio
    <3> QED
      BY <3>1
  <2>2. Lesser(prio[t], NoPrio) = prio[t]
    BY <2>1 DEF Lesser, NoPrio
  <2> QED
    BY <1>2, <1>3, <1>4, <2>2 DEF HeadPriority, r
<1>5. CASE q # <<>>
  BY <1>2, <1>3, <1>5 DEF HeadPriority, Lesser, r
<1> QED
  BY <1>4, <1>5

(* One mutex that becomes more urgent by Lesser makes its owner so.        *)
LEMMA PriorityClamped ==
  ASSUME NEW o \in Threads, NEW held \in SUBSET Mutexes, NEW m \in held,
         NEW a \in [Mutexes -> 0..NoPrio], NEW b \in [Mutexes -> 0..NoPrio],
         NEW cl \in [Mutexes -> 0..NoPrio], NEW w \in 0..NoPrio,
         a[m] = Lesser(w, b[m]), \A x \in held : x # m => a[x] = b[x]
  PROVE  MutexPriority(o, held, a, cl) = Lesser(MutexPriority(o, held, b, cl), w)
<1> DEFINE A == {InitPrio[o]} \cup {Lesser(a[x], cl[x]) : x \in held}
           B == {InitPrio[o]} \cup {Lesser(b[x], cl[x]) : x \in held}
           p == MutexPriority(o, held, b, cl)
<1>2. 0..NoPrio \subseteq Nat
  BY DEF NoPrio
<1>3. A \subseteq 0..NoPrio /\ B \subseteq 0..NoPrio /\ B # {}
  BY PrioAssumption DEF Lesser
<1>4. p \in B /\ \A q \in B : p <= q
  <2>1. \E q \in B : \A r \in B : q <= r
    <3> HIDE DEF B
    <3> QED BY <1>2, <1>3, LeastNat
  <2> QED
    BY <2>1 DEF MutexPriority
<1>6. b[m] \in 0..NoPrio /\ cl[m] \in 0..NoPrio
  OBVIOUS
<1>7. Lesser(a[m], cl[m]) = Lesser(Lesser(b[m], cl[m]), w)
  BY <1>2, <1>6 DEF Lesser
<1>8. Lesser(a[m], cl[m]) \in A /\ Lesser(b[m], cl[m]) \in B
  OBVIOUS
<1>9. \A q \in A : q \in B \/ q = Lesser(a[m], cl[m])
  OBVIOUS
<1>10. \A q \in B : q \in A \/ q = Lesser(b[m], cl[m])
  OBVIOUS
<1>11. MutexPriority(o, held, a, cl) = CHOOSE q \in A : \A r \in A : q <= r
  BY DEF MutexPriority
<1> HIDE DEF A, B, p
<1> DEFINE c == Lesser(a[m], cl[m])
           d == Lesser(b[m], cl[m])
<1>12. c \in Nat /\ d \in Nat /\ p \in Nat /\ w \in Nat /\ A \subseteq Nat /\ B \subseteq Nat
  BY <1>2, <1>3, <1>4, <1>8
<1>13. c = Lesser(d, w) /\ p <= d /\ c \in A /\ d \in B
  BY <1>4, <1>7, <1>8
<1> HIDE DEF c, d
<1>14. Lesser(p, w) \in A
  <2>1. CASE p = d
    BY <1>13, <2>1
  <2>2. CASE p # d
    <3>1. p \in A
      BY <1>4, <1>10, <2>2 DEF d
    <3>2. CASE p < w
      BY <3>1, <3>2 DEF Lesser
    <3>3. CASE ~(p < w)
      <4>1. c = w
        BY <1>12, <1>13, <2>2, <3>3 DEF Lesser
      <4> QED
        BY <1>13, <3>3, <4>1 DEF Lesser
    <3> QED
      BY <3>2, <3>3
  <2> QED
    BY <2>1, <2>2
<1>15. \A q \in A : Lesser(p, w) <= q
  <2>1. SUFFICES ASSUME NEW q \in A PROVE Lesser(p, w) <= q
    OBVIOUS
  <2>2. q \in Nat
    BY <1>12
  <2>3. CASE q \in B
    BY <1>4, <1>12, <2>2, <2>3 DEF Lesser
  <2>4. CASE q = c
    BY <1>12, <1>13, <2>4 DEF Lesser
  <2> QED
    BY <1>9, <2>3, <2>4 DEF c
<1>16. \A q, r \in A : (\A x \in A : q <= x) /\ (\A x \in A : r <= x) => q = r
  BY <1>12
<1>17. (CHOOSE q \in A : \A r \in A : q <= r) = Lesser(p, w)
  BY <1>14, <1>15, <1>16
<1> QED
  BY <1>11, <1>17 DEF p
(* The states of the walk with sound lists; the owner that t waits for;    *)
(* and the other waiters of the mutex.                                     *)
SoundWalks == {s \in Walks : ListsOK(s.susp)}
Blocker(t) == owner[pending[t]]
Others(s) == ListRemove(s.susp[pending[s.t]], s.t)

(* What a turn has done if the walk goes on after it.                      *)
GoesOn(s, r) ==
  LET m == pending[s.t]
      q == SuspListEnqueue(Others(s), s.t, "PRIO", s.curr)
  IN  /\ s.go /\ m \in Mutexes /\ owner[m] \in Threads /\ s.t \in Sleepers(m)
      /\ r.t = owner[m] /\ r.ceil = s.ceil
      /\ r.susp = [s.susp EXCEPT ![m] = q]
      /\ r.mprio = [s.mprio EXCEPT ![m] = HeadPriority(q, s.curr)]
      /\ r.curr = [s.curr EXCEPT ![owner[m]] =
                     MutexPriority(owner[m], Taken(owner[m]), r.mprio, s.ceil)]
      /\ r.curr[owner[m]] # s.curr[owner[m]]

(* A turn after which the walk goes on is such a one.                      *)
LEMMA TurnGoesOn ==
  ASSUME Inv, NEW s \in SoundWalks, NEW r, r = PropagateStep(s), r.go
  PROVE  GoesOn(s, r)
<1> DEFINE m == pending[s.t]
           q == SuspListEnqueue(ListRemove(s.susp[m], s.t), s.t, "PRIO", s.curr)
           mp == [s.mprio EXCEPT ![m] = HeadPriority(q, s.curr)]
           o == owner[m]
           p == MutexPriority(o, Taken(o), mp, s.ceil)
           stop == [s EXCEPT !.go = FALSE]
           fail == [s EXCEPT !.go = FALSE, !.fault = TRUE]
           more == [s EXCEPT !.susp = [@ EXCEPT ![m] = q],
                             !.mprio = mp,
                             !.curr = [@ EXCEPT ![o] = p],
                             !.t = o,
                             !.go = (p # s.curr[o])]
<1>1. s \in Walks
  BY DEF SoundWalks
<1>2. stop.go = FALSE /\ fail.go = FALSE
  BY <1>1 DEF Walks
<1>3. r = IF ~s.go \/ stat[s.t] # "SUSPEND" \/ m = NoMutex THEN stop
          ELSE IF o = NoThread THEN fail ELSE more
  BY DEF PropagateStep
<1>4. r = more /\ s.go /\ stat[s.t] = "SUSPEND" /\ m # NoMutex /\ o # NoThread
  <2> HIDE DEF stop, fail, more, m, o
  <2> QED BY <1>2, <1>3
<1>5. m \in Mutexes /\ o \in Threads /\ s.t \in Sleepers(m) /\ s.t \in Threads
  <2>1. s.t \in Threads
    BY <1>1 DEF Walks
  <2>2. /\ pending \in [Threads -> Mutexes \cup {NoMutex}]
        /\ owner \in [Mutexes -> Threads \cup {NoThread}]
    BY DEF Inv, TypeOK
  <2>3. \A u \in Threads : pending[u] # NoMutex => pending[u] = at[u]
    BY DEF Inv, PendInv
  <2>4. m \in Mutexes /\ at[s.t] = m
    BY <1>4, <2>1, <2>2, <2>3
  <2>5. o \in Threads
    <3> HIDE DEF m
    <3> QED BY <1>4, <2>2, <2>4
  <2> QED
    BY <1>4, <2>1, <2>4, <2>5 DEF Sleepers
<1>6. /\ s.susp \in [Mutexes -> Seq(Threads)] /\ s.mprio \in [Mutexes -> 0..NoPrio]
      /\ s.curr \in [Threads -> 0..NoPrio]
  BY <1>1 DEF Walks
<1>7. /\ more.t = o /\ more.ceil = s.ceil /\ more.susp = [s.susp EXCEPT ![m] = q]
      /\ more.mprio = mp /\ more.curr = [s.curr EXCEPT ![o] = p]
      /\ more.go = (p # s.curr[o])
  <2> HIDE DEF m, q, mp, o, p
  <2> QED BY <1>1 DEF Walks
<1>8. p # s.curr[o] /\ more.curr[o] = p
  <2> HIDE DEF m, q, mp, o, p, more
  <2> QED BY <1>4, <1>5, <1>6, <1>7
<1>9. q = SuspListEnqueue(Others(s), s.t, "PRIO", s.curr)
  BY DEF Others
<1> HIDE DEF more, p, q
<1> QED
  BY <1>4, <1>5, <1>7, <1>8, <1>9 DEF GoesOn, p

(* What two turns from the same thread make of its priority.               *)
Clamped(v, w, x, y) == x = y \/ \E A \in Nat : x = Lesser(A, v) /\ y = Lesser(A, w)

(* Two turns from the same thread, with the same offers and the same other *)
(* waiters, clamp its priority in the same way.                            *)
LEMMA TurnsClamp ==
  ASSUME Inv, NEW s1 \in SoundWalks, NEW s2 \in SoundWalks,
         NEW r1, NEW r2, GoesOn(s1, r1), GoesOn(s2, r2), s1.t = s2.t, s1.ceil = s2.ceil,
         s2.susp[pending[s1.t]] = r1.susp[pending[s1.t]],
         \A x \in Mutexes : x # pending[s1.t] /\ owner[x] = Blocker(s1.t)
                              => s1.mprio[x] = s2.mprio[x],
         \A u \in Queued(s1.susp[pending[s1.t]]) : u # s1.t => s1.curr[u] = s2.curr[u]
  PROVE  Clamped(s1.curr[s1.t], s2.curr[s2.t], r1.curr[r1.t], r2.curr[r2.t])
<1> DEFINE t == s1.t
           m == pending[t]
           o == owner[m]
           rest == Others(s1)
<1>1. /\ s1.susp \in [Mutexes -> Seq(Threads)] /\ s2.susp \in [Mutexes -> Seq(Threads)]
      /\ s1.mprio \in [Mutexes -> 0..NoPrio] /\ s2.mprio \in [Mutexes -> 0..NoPrio]
      /\ s1.curr \in [Threads -> 0..NoPrio] /\ s2.curr \in [Threads -> 0..NoPrio]
      /\ s1.ceil \in [Mutexes -> 0..NoPrio] /\ t \in Threads
  BY DEF SoundWalks, Walks
<1>2. m \in Mutexes /\ o \in Threads /\ r1.t = o /\ r2.t = o
  BY DEF GoesOn
<1>3. /\ rest \in Seq(Threads) /\ Queued(rest) = Queued(s1.susp[m]) \ {t}
  BY <1>1, <1>2, ListRemoveProperties DEF SoundWalks, ListsOK, Others
<1>4. r1.susp[m] = SuspListEnqueue(rest, t, "PRIO", s1.curr)
  BY <1>1, <1>2 DEF GoesOn
<1>5. Others(s2) = rest
  <2>1. s1.curr \in [Threads -> Nat]
    <3>1. 0..NoPrio \subseteq Nat
      BY DEF NoPrio
    <3> QED
      BY <1>1, <3>1
  <2>2. ListRemove(r1.susp[m], t) = rest
    <3>1. t \notin Queued(rest)
      BY <1>3
    <3>2. ListRemove(SuspListEnqueue(rest, t, "PRIO", s1.curr), t) = rest
      <4> HIDE DEF rest, t
      <4> QED BY <1>1, <1>3, <2>1, <3>1, EnqueueUndone
    <3> QED
      BY <1>4, <3>2
  <2> QED
    BY <2>2 DEF Others
<1> DEFINE h == HeadPriority(rest, s1.curr)
<1>6. h \in 0..NoPrio
  BY <1>1, <1>3, HeadPriorityType
<1>7. HeadPriority(rest, s2.curr) = h
  <2>1. CASE rest = <<>>
    BY <2>1 DEF HeadPriority
  <2>2. CASE rest # <<>>
    <3>1. Head(rest) \in Queued(rest)
      BY <1>3, <2>2 DEF Queued
    <3>2. s1.curr[Head(rest)] = s2.curr[Head(rest)]
      BY <1>3, <3>1
    <3> QED
      BY <2>2, <3>2 DEF HeadPriority
  <2> QED
    BY <2>1, <2>2
<1> DEFINE v == s1.curr[t]
           w == s2.curr[t]
           held == Taken(o)
           P(mp) == MutexPriority(o, held, mp, s1.ceil)
<1>8. v \in 0..NoPrio /\ w \in 0..NoPrio /\ t \notin Queued(rest)
  BY <1>1, <1>3
<1>9. r1.mprio = [s1.mprio EXCEPT ![m] = Lesser(v, h)]
  <2>1. HeadPriority(SuspListEnqueue(rest, t, "PRIO", s1.curr), s1.curr) = Lesser(v, h)
    <3> HIDE DEF rest, t
    <3> QED BY <1>1, <1>3, <1>8, RequeuedPriority
  <2> QED
    BY <2>1 DEF GoesOn
<1>10. r2.mprio = [s2.mprio EXCEPT ![m] = Lesser(w, h)]
  <2>1. HeadPriority(SuspListEnqueue(rest, t, "PRIO", s2.curr), s2.curr) = Lesser(w, h)
    <3>1. HeadPriority(SuspListEnqueue(rest, t, "PRIO", s2.curr), s2.curr)
            = Lesser(w, HeadPriority(rest, s2.curr))
      <4> HIDE DEF rest, t
      <4> QED BY <1>1, <1>3, <1>8, RequeuedPriority
    <3> QED
      BY <1>7, <3>1
  <2> QED
    BY <1>5, <2>1 DEF GoesOn
<1>11. r1.curr[o] = P(r1.mprio) /\ r2.curr[o] = P(r2.mprio)
  BY <1>1, <1>2 DEF GoesOn
<1>12. held \subseteq Mutexes /\ \A x \in held : x # m => s1.mprio[x] = s2.mprio[x]
  BY DEF Taken, Blocker, Inv, TypeOK
<1> HIDE DEF t, m, o, rest, h, v, w, held
<1>13. CASE m \notin held
  <2>1. \A x \in held : Lesser(r1.mprio[x], s1.ceil[x]) = Lesser(r2.mprio[x], s1.ceil[x])
    <3>1. \A x \in held : r1.mprio[x] = s1.mprio[x] /\ r2.mprio[x] = s2.mprio[x] /\ x # m
      BY <1>1, <1>9, <1>10, <1>12, <1>13
    <3> QED
      BY <1>12, <3>1
  <2>2. {Lesser(r1.mprio[x], s1.ceil[x]) : x \in held}
          = {Lesser(r2.mprio[x], s1.ceil[x]) : x \in held}
    BY <2>1
  <2>3. P(r1.mprio) = P(r2.mprio)
    BY <2>2 DEF MutexPriority
  <2> QED
    BY <1>2, <1>11, <2>3 DEF Clamped
<1>14. CASE m \in held
  <2> DEFINE a == [s1.mprio EXCEPT ![m] = h]
             b == [s2.mprio EXCEPT ![m] = h]
  <2>1. P(r1.mprio) = Lesser(P(a), v)
    <3>1. PICK mp, cl : mp = r1.mprio /\ cl = s1.ceil
      OBVIOUS
    <3>2. mp \in [Mutexes -> 0..NoPrio] /\ cl \in [Mutexes -> 0..NoPrio]
      BY <1>1, <1>6, <1>8, <1>9, <3>1 DEF Lesser
    <3>3. a \in [Mutexes -> 0..NoPrio]
      BY <1>1, <1>6
    <3>4. mp[m] = Lesser(v, a[m]) /\ \A x \in held : x # m => mp[x] = a[x]
      BY <1>1, <1>2, <1>12, <1>9, <3>1
    <3> HIDE DEF a
    <3>5. MutexPriority(o, held, mp, cl) = Lesser(MutexPriority(o, held, a, cl), v)
      BY <1>2, <1>8, <1>12, <1>14, <3>2, <3>3, <3>4, PriorityClamped
    <3> QED
      BY <3>1, <3>5
  <2>2. P(r2.mprio) = Lesser(P(b), w)
    <3>1. PICK mp, cl : mp = r2.mprio /\ cl = s1.ceil
      OBVIOUS
    <3>2. mp \in [Mutexes -> 0..NoPrio] /\ cl \in [Mutexes -> 0..NoPrio]
      BY <1>1, <1>6, <1>8, <1>10, <3>1 DEF Lesser
    <3>3. b \in [Mutexes -> 0..NoPrio]
      BY <1>1, <1>6
    <3>4. mp[m] = Lesser(w, b[m]) /\ \A x \in held : x # m => mp[x] = b[x]
      BY <1>1, <1>2, <1>12, <1>10, <3>1
    <3> HIDE DEF b
    <3>5. MutexPriority(o, held, mp, cl) = Lesser(MutexPriority(o, held, b, cl), w)
      BY <1>2, <1>8, <1>12, <1>14, <3>2, <3>3, <3>4, PriorityClamped
    <3> QED
      BY <3>1, <3>5
  <2>3. \A x \in held : a[x] = b[x]
    BY <1>1, <1>12
  <2>4. a \in [Mutexes -> 0..NoPrio]
    BY <1>1, <1>6
  <2> HIDE DEF a, b
  <2>5. {Lesser(a[x], s1.ceil[x]) : x \in held} = {Lesser(b[x], s1.ceil[x]) : x \in held}
    BY <2>3
  <2>6. P(a) = P(b)
    BY <2>5 DEF MutexPriority
  <2>7. P(a) \in Nat
    <3>1. P(a) \in 0..NoPrio
      BY <1>1, <1>2, <1>12, <2>4, MutexPriorityType
    <3> QED
      BY <3>1 DEF NoPrio
  <2> HIDE DEF P
  <2> QED
    BY <1>2, <1>11, <2>1, <2>2, <2>6, <2>7 DEF Clamped, v, w, t
<1> QED
  BY <1>13, <1>14
(* A walk of n turns that goes on after each of them.                      *)
Endless(f, n) ==
  /\ f \in [0..n -> SoundWalks]
  /\ \A i \in 1..n : GoesOn(f[i - 1], f[i])

(* A walk that goes on after its last turn went on after each.             *)
LEMMA WentOn ==
  ASSUME Inv, NEW n \in Nat, NEW f \in [0..n -> SoundWalks],
         \A i \in 1..n : f[i] = PropagateStep(f[i - 1]), f[n].go
  PROVE  Endless(f, n)
<1> DEFINE S == {d \in 0..n : f[n - d].go}
<1>1. 0 \in S
  OBVIOUS
<1>2. ASSUME NEW i \in 1..n, f[i].go PROVE GoesOn(f[i - 1], f[i]) /\ f[i - 1].go
  <2>1. i - 1 \in 0..n /\ f[i - 1] \in SoundWalks /\ f[i] = PropagateStep(f[i - 1])
    OBVIOUS
  <2>2. GoesOn(f[i - 1], f[i])
    BY <1>2, <2>1, TurnGoesOn
  <2> QED
    BY <2>2 DEF GoesOn
<1>3. ASSUME NEW d \in 0..(n - 1), d \in S PROVE d + 1 \in S
  <2>1. n - d \in 1..n /\ (n - d) - 1 = n - (d + 1) /\ f[n - d].go /\ d + 1 \in 0..n
    BY <1>3
  <2>2. f[(n - d) - 1].go
    BY <1>2, <2>1
  <2> QED
    BY <2>1, <2>2
<1>4. 0..n \subseteq S
  <2> HIDE DEF S
  <2> QED BY <1>1, <1>3, SetInduction
<1>5. ASSUME NEW i \in 1..n PROVE f[i].go
  <2>1. n - i \in 0..n /\ n - (n - i) = i
    OBVIOUS
  <2> QED
    BY <1>4, <2>1
<1> QED
  BY <1>2, <1>5 DEF Endless

(* The priority of a thread, and the list and priority of a mutex, change  *)
(* only when the walk comes to the thread, or to the owner of the mutex.   *)
LEMMA OnlyVisited ==
  ASSUME NEW n \in Nat, NEW f, Endless(f, n), NEW i \in 0..n, NEW j \in i..n
  PROVE  /\ f[j].ceil = f[i].ceil
         /\ \A u \in Threads : (\A k \in (i + 1)..j : f[k].t # u) => f[j].curr[u] = f[i].curr[u]
         /\ \A x \in Mutexes : (\A k \in (i + 1)..j : f[k].t # owner[x])
              => f[j].susp[x] = f[i].susp[x] /\ f[j].mprio[x] = f[i].mprio[x]
<1> DEFINE Calm(k, u) == \A l \in (i + 1)..k : f[l].t # u
           P(k) == /\ f[k].ceil = f[i].ceil
                   /\ \A u \in Threads : Calm(k, u) => f[k].curr[u] = f[i].curr[u]
                   /\ \A x \in Mutexes : Calm(k, owner[x])
                        => f[k].susp[x] = f[i].susp[x] /\ f[k].mprio[x] = f[i].mprio[x]
           S == {d \in 0..(n - i) : P(i + d)}
<1>1. 0 \in S
  OBVIOUS
<1>2. ASSUME NEW d \in 0..((n - i) - 1), d \in S PROVE d + 1 \in S
  <2> DEFINE k == i + d
  <2>1. k \in 0..n /\ k + 1 \in 1..n /\ i + (d + 1) = k + 1 /\ (k + 1) - 1 = k
    OBVIOUS
  <2>2. P(k) /\ GoesOn(f[k], f[k + 1]) /\ f[k] \in SoundWalks
    BY <1>2, <2>1 DEF Endless
  <2>3. ASSUME NEW u, Calm(k + 1, u) PROVE Calm(k, u) /\ f[k + 1].t # u
    <3>1. (i + 1)..k \subseteq (i + 1)..(k + 1) /\ k + 1 \in (i + 1)..(k + 1)
      OBVIOUS
    <3> QED
      BY <2>3, <3>1
  <2> HIDE DEF k, Calm
  <2>4. f[k + 1].ceil = f[i].ceil
    BY <2>2 DEF GoesOn
  <2>5. ASSUME NEW u \in Threads, Calm(k + 1, u) PROVE f[k + 1].curr[u] = f[i].curr[u]
    <3>1. f[k + 1].curr[u] = f[k].curr[u]
      BY <2>2, <2>3, <2>5 DEF GoesOn, SoundWalks, Walks
    <3> QED
      BY <2>2, <2>3, <2>5, <3>1
  <2>6. ASSUME NEW x \in Mutexes, Calm(k + 1, owner[x])
        PROVE  f[k + 1].susp[x] = f[i].susp[x] /\ f[k + 1].mprio[x] = f[i].mprio[x]
    <3>1. x # pending[f[k].t]
      BY <2>2, <2>3, <2>6 DEF GoesOn
    <3>2. f[k + 1].susp[x] = f[k].susp[x] /\ f[k + 1].mprio[x] = f[k].mprio[x]
      BY <2>2, <3>1 DEF GoesOn, SoundWalks, Walks
    <3> QED
      BY <2>2, <2>3, <2>6, <3>2
  <2>7. P(k + 1) /\ d + 1 \in 0..(n - i)
    BY <2>4, <2>5, <2>6
  <2> QED
    BY <2>1, <2>7
<1>3. n - i \in Nat /\ j - i \in 0..(n - i) /\ i + (j - i) = j
  OBVIOUS
<1>4. 0..(n - i) \subseteq S
  <2> HIDE DEF S
  <2> QED BY <1>1, <1>2, <1>3, SetInduction
<1>5. P(j)
  BY <1>3, <1>4
<1> QED
  BY <1>5

(* Each thread waits for one mutex: once it came back to a thread, the     *)
(* walk goes the same way again.                                           *)
LEMMA SameWayAgain ==
  ASSUME NEW n \in Nat, NEW f, Endless(f, n), NEW i \in 0..n, NEW j \in 0..n,
         f[i].t = f[j].t, NEW d \in Nat, i + d <= n, j + d <= n
  PROVE  f[i + d].t = f[j + d].t
<1> DEFINE S == {e \in 0..d : f[i + e].t = f[j + e].t}
<1>1. 0 \in S
  OBVIOUS
<1>2. ASSUME NEW e \in 0..(d - 1), e \in S PROVE e + 1 \in S
  <2>1. /\ i + (e + 1) \in 1..n /\ j + (e + 1) \in 1..n /\ e + 1 \in 0..d
        /\ (i + (e + 1)) - 1 = i + e /\ (j + (e + 1)) - 1 = j + e
    OBVIOUS
  <2>2. GoesOn(f[i + e], f[i + (e + 1)]) /\ GoesOn(f[j + e], f[j + (e + 1)])
    BY <2>1 DEF Endless
  <2>3. f[i + e].t = f[j + e].t
    BY <1>2
  <2>4. f[i + (e + 1)].t = f[j + (e + 1)].t
    BY <2>2, <2>3 DEF GoesOn
  <2> QED
    BY <2>1, <2>4
<1>3. 0..d \subseteq S
  <2> HIDE DEF S
  <2> QED BY <1>1, <1>2, SetInduction
<1> QED
  BY <1>3

(* A walk that is longer than there are threads goes in a circle.  One of  *)
(* c threads begins at turn a; there is no shorter one.                    *)
Circle(f, n, a, c) ==
  /\ c \in 1..n /\ a \in 0..(n - c) /\ f[a].t = f[a + c].t
  /\ \A i, j \in 0..n : i < j /\ j - i < c => f[i].t # f[j].t

(* Every walk of that length has such a circle.                            *)
LEMMA WalkCircles ==
  ASSUME NEW f, Endless(f, 2 * Cardinality(Threads))
  PROVE  \E a, c : Circle(f, Cardinality(Threads), a, c)
<1> DEFINE n == Cardinality(Threads)
           g == [i \in 0..n |-> f[i].t]
           S == {d \in 1..n : \E i \in 0..(n - d) : f[i].t = f[i + d].t}
<1>1. n \in Nat /\ IsFiniteSet(Threads)
  BY PrioAssumption, FS_CardinalityType
<1>2. IsFiniteSet(0..n) /\ Cardinality(0..n) = n + 1
  BY <1>1, FS_Interval
<1>3. g \in [0..n -> Threads]
  <2>1. \A i \in 0..n : i \in 0..(2 * n)
    BY <1>1
  <2> QED
    BY <2>1 DEF Endless, SoundWalks, Walks
<1> HIDE DEF n
<1>4. PICK x, y \in 0..n : x # y /\ g[x] = g[y]
  <2> HIDE DEF g
  <2>1. Cardinality(Threads) < Cardinality(0..n)
    BY <1>1, <1>2 DEF n
  <2> QED
    BY <1>1, <1>2, <1>3, <2>1, FS_PigeonHole
<1>5. S # {}
  <2>1. f[x].t = f[y].t
    BY <1>4
  <2>2. CASE x < y
    <3>1. y - x \in 1..n /\ x \in 0..(n - (y - x)) /\ x + (y - x) = y
      BY <1>1, <2>2
    <3> QED
      BY <2>1, <3>1
  <2>3. CASE y < x
    <3>1. x - y \in 1..n /\ y \in 0..(n - (x - y)) /\ y + (x - y) = x
      BY <1>1, <2>3
    <3> QED
      BY <2>1, <3>1
  <2> QED
    BY <1>1, <1>4, <2>2, <2>3
<1>6. S \subseteq Nat
  BY <1>1
<1>7. PICK c \in S : \A d \in S : c <= d
  <2> HIDE DEF S
  <2> QED BY <1>5, <1>6, LeastNat
<1>8. PICK a \in 0..(n - c) : f[a].t = f[a + c].t
  BY <1>7
<1>9. ASSUME NEW i \in 0..n, NEW j \in 0..n, i < j, j - i < c PROVE f[i].t # f[j].t
  <2>1. SUFFICES ASSUME f[i].t = f[j].t PROVE FALSE
    OBVIOUS
  <2>2. j - i \in 1..n /\ i \in 0..(n - (j - i)) /\ i + (j - i) = j
    BY <1>1, <1>9
  <2>3. j - i \in S
    BY <2>1, <2>2
  <2> QED
    BY <1>6, <1>7, <1>9, <2>3
<1> QED
  BY <1>7, <1>8, <1>9 DEF Circle, n

(* In its first two rounds it meets no thread of the circle more often     *)
(* than every c turns.                                                     *)
LEMMA CircleIsSimple ==
  ASSUME NEW n \in Nat, NEW f, Endless(f, 2 * n), NEW a, NEW c, Circle(f, n, a, c),
         NEW k \in (a + 1)..(a + c), NEW j \in (k + 1)..(k + (c - 1))
  PROVE  f[j].t # f[k].t
<1>1. a \in 0..n /\ c \in 1..n /\ a + c \in 0..n /\ a + c + c <= 2 * n
  BY DEF Circle
<1>2. CASE j <= a + c
  <2>1. j \in 0..n /\ k \in 0..n /\ k < j /\ j - k < c
    BY <1>1, <1>2
  <2> QED
    BY <2>1 DEF Circle
<1>3. CASE j > a + c
  <2> DEFINE i == j - c
             d == i - a
  <2>1. i \in 0..n /\ k \in 0..n /\ i < k /\ k - i < c /\ d \in Nat
    BY <1>1, <1>3
  <2>2. f[i].t # f[k].t
    BY <2>1 DEF Circle
  <2>3. a \in 0..(2 * n) /\ a + c \in 0..(2 * n) /\ a + d = i /\ a + c + d = j
        /\ 2 * n \in Nat /\ a + d <= 2 * n /\ (a + c) + d <= 2 * n
    BY <1>1, <1>3
  <2>4. f[a].t = f[a + c].t
    BY DEF Circle
  <2> HIDE DEF d, i
  <2>5. f[a + d].t = f[(a + c) + d].t
    BY <2>1, <2>3, <2>4, SameWayAgain
  <2> QED
    BY <2>2, <2>3, <2>5
<1> QED
  BY <1>1, <1>2, <1>3
(* Clamping one after the other is clamping.                               *)
LEMMA ClampedTwice ==
  ASSUME NEW v \in Nat, NEW w \in Nat, NEW x \in Nat, NEW y \in Nat, NEW p \in Nat, NEW q \in Nat,
         Clamped(v, w, x, y), Clamped(x, y, p, q)
  PROVE  Clamped(v, w, p, q)
<1>1. CASE p = q
  BY <1>1 DEF Clamped
<1>2. CASE p # q
  <2>1. PICK B \in Nat : p = Lesser(B, x) /\ q = Lesser(B, y)
    BY <1>2 DEF Clamped
  <2>2. CASE x = y
    BY <1>2, <2>1, <2>2
  <2>3. CASE x # y
    <3>1. PICK A \in Nat : x = Lesser(A, v) /\ y = Lesser(A, w)
      BY <2>3 DEF Clamped
    <3>2. p = Lesser(Lesser(B, A), v) /\ q = Lesser(Lesser(B, A), w) /\ Lesser(B, A) \in Nat
      BY <2>1, <3>1 DEF Lesser
    <3> QED
      BY <3>2 DEF Clamped
  <2> QED
    BY <2>2, <2>3
<1> QED
  BY <1>1, <1>2

(* The priority that a turn of the walk has just stored.                   *)
Stored(s) == s.curr[s.t]

(* A turn of the first round of the circle and that of the second.         *)
LEMMA RoundsClamp ==
  ASSUME Inv, NEW n \in Nat, NEW f, Endless(f, 2 * n), NEW a, NEW c, Circle(f, n, a, c),
         NEW k \in a..(a + (c - 1))
  PROVE  Clamped(Stored(f[k]), Stored(f[k + c]), Stored(f[k + 1]), Stored(f[k + c + 1]))
<1>1. /\ k \in 0..(2 * n) /\ k + c \in 0..(2 * n) /\ k + 1 \in 1..(2 * n)
      /\ k + c + 1 \in 1..(2 * n) /\ k + c \in k..(2 * n) /\ k + c \in (k + 1)..(2 * n)
      /\ k + 1 \in (a + 1)..(a + c) /\ c \in 1..n /\ a \in 0..n /\ 2 * n \in Nat
  BY DEF Circle
<1>2. (k + 1) - 1 = k /\ (k + c + 1) - 1 = k + c
  BY <1>1
<1> DEFINE s1 == f[k]
           s2 == f[k + c]
           r1 == f[k + 1]
           r2 == f[k + c + 1]
           t == s1.t
           m == pending[t]
           o == owner[m]
<1>3. s1 \in SoundWalks /\ s2 \in SoundWalks /\ GoesOn(s1, r1) /\ GoesOn(s2, r2)
  BY <1>1, <1>2 DEF Endless
<1>4. m \in Mutexes /\ o \in Threads /\ r1.t = o
  BY <1>3 DEF GoesOn
<1>5. s2.t = t
  <2> DEFINE d == k - a
  <2>1. d \in Nat /\ a + d = k /\ (a + c) + d = k + c
    BY <1>1
  <2>2. a \in 0..(2 * n) /\ a + c \in 0..(2 * n) /\ f[a].t = f[a + c].t
    BY <1>1 DEF Circle
  <2>3. a + d <= 2 * n /\ (a + c) + d <= 2 * n
    BY <1>1, <2>1
  <2> HIDE DEF d
  <2>4. f[a + d].t = f[(a + c) + d].t
    BY <1>1, <2>1, <2>2, <2>3, SameWayAgain
  <2> QED
    BY <2>1, <2>4
<1>6. \A j \in (k + 2)..(k + c) : f[j].t # o
  <2>1. ASSUME NEW j \in (k + 2)..(k + c) PROVE f[j].t # o
    <3>1. j \in ((k + 1) + 1)..((k + 1) + (c - 1))
      BY <1>1
    <3>2. f[j].t # f[k + 1].t
      BY <1>1, <3>1, CircleIsSimple
    <3> QED
      BY <1>4, <3>2
  <2> QED
    BY <2>1
<1>7. ASSUME NEW u \in Queued(s1.susp[m]), u # t, NEW j \in (k + 1)..(k + c)
      PROVE  f[j].t # u
  <2>1. SUFFICES ASSUME f[j].t = u PROVE FALSE
    OBVIOUS
  <2>2. u \in Sleepers(m)
    BY <1>3, <1>4, <1>7 DEF SoundWalks, ListsOK
  <2>3. j + 1 \in 1..(2 * n) /\ (j + 1) - 1 = j
    BY <1>1
  <2>4. GoesOn(f[j], f[j + 1])
    BY <2>3 DEF Endless
  <2>5. pending[u] \in Mutexes /\ f[j + 1].t = owner[pending[u]]
    BY <2>1, <2>4 DEF GoesOn
  <2>6. pending[u] = m
    BY <2>2, <2>5, MutexAssumption DEF Inv, PendInv, Sleepers
  <2>7. j = k + c
    <3>1. ~(j + 1 \in (k + 2)..(k + c))
      BY <1>6, <2>5, <2>6
    <3> QED
      BY <1>1, <3>1
  <2> QED
    BY <1>5, <1>7, <2>1, <2>7
<1>8. s1.ceil = s2.ceil /\ \A u \in Queued(s1.susp[m]) : u # t => s1.curr[u] = s2.curr[u]
  <2>1. Queued(s1.susp[m]) \subseteq Threads
    BY <1>3, <1>4 DEF SoundWalks, ListsOK, Sleepers
  <2>2. /\ f[k + c].ceil = f[k].ceil
        /\ \A u \in Threads : (\A j \in (k + 1)..(k + c) : f[j].t # u)
             => f[k + c].curr[u] = f[k].curr[u]
    BY <1>1, OnlyVisited
  <2> QED
    BY <1>7, <2>1, <2>2
<1>9. \A x \in Mutexes : owner[x] = o => s2.susp[x] = r1.susp[x] /\ s2.mprio[x] = r1.mprio[x]
  <2>1. \A x \in Mutexes : (\A j \in ((k + 1) + 1)..(k + c) : f[j].t # owner[x])
          => f[k + c].susp[x] = f[k + 1].susp[x] /\ f[k + c].mprio[x] = f[k + 1].mprio[x]
    <3>1. k + 1 \in 0..(2 * n)
      BY <1>1
    <3> QED
      BY <1>1, <3>1, OnlyVisited
  <2>2. (k + 1) + 1 = k + 2
    BY <1>1
  <2> QED
    BY <1>6, <2>1, <2>2
<1>10. \A x \in Mutexes : x # m => r1.mprio[x] = s1.mprio[x]
  BY <1>3 DEF GoesOn, SoundWalks, Walks
<1>11. /\ s2.susp[pending[s1.t]] = r1.susp[pending[s1.t]]
       /\ \A x \in Mutexes : x # pending[s1.t] /\ owner[x] = Blocker(s1.t)
                              => s1.mprio[x] = s2.mprio[x]
  BY <1>4, <1>9, <1>10 DEF Blocker
<1> HIDE DEF s1, s2, r1, r2
<1>12. Clamped(s1.curr[s1.t], s2.curr[s2.t], r1.curr[r1.t], r2.curr[r2.t])
  BY <1>3, <1>5, <1>8, <1>11, TurnsClamp
<1> QED
  BY <1>12 DEF Stored, s1, s2, r1, r2

(* No walk goes on for as many turns as it may take.                       *)
LEMMA NoEndlessWalk ==
  ASSUME Inv, NEW f
  PROVE  ~Endless(f, ChainBound)
<1> DEFINE n == Cardinality(Threads)
<1>1. n \in Nat
  BY PrioAssumption, FS_CardinalityType
<1>2. SUFFICES ASSUME Endless(f, 2 * n) PROVE FALSE
  BY DEF ChainBound
<1>3. PICK a, c : Circle(f, n, a, c)
  BY <1>2, WalkCircles
<1> HIDE DEF n
<1> DEFINE b == a + c
<1>4. /\ a \in 0..n /\ c \in 1..n /\ b \in 0..n /\ b + c \in 1..(2 * n) /\ 2 * n \in Nat
      /\ f[a].t = f[b].t
  BY <1>1, <1>3 DEF Circle
<1>5. \A k \in 0..(2 * n) : Stored(f[k]) \in Nat /\ f[k] \in SoundWalks
  <2>1. SUFFICES ASSUME NEW k \in 0..(2 * n) PROVE Stored(f[k]) \in Nat /\ f[k] \in SoundWalks
    OBVIOUS
  <2>2. f[k] \in SoundWalks
    BY <1>2 DEF Endless
  <2>3. f[k].curr \in [Threads -> 0..NoPrio] /\ f[k].t \in Threads
    BY <2>2 DEF SoundWalks, Walks
  <2>4. Stored(f[k]) \in 0..NoPrio
    BY <2>3 DEF Stored
  <2> QED
    BY <2>2, <2>4 DEF NoPrio
<1> DEFINE C(d) == Clamped(Stored(f[a]), Stored(f[b]), Stored(f[a + d]), Stored(f[b + d]))
           S == {d \in 0..c : C(d)}
<1>6. 0 \in S
  <2> DEFINE v == Stored(f[a])
             w == Stored(f[b])
             A == v + w
  <2>1. v \in Nat /\ w \in Nat /\ a + 0 = a /\ b + 0 = b
    BY <1>1, <1>4, <1>5
  <2> HIDE DEF v, w
  <2>2. v = Lesser(A, v) /\ w = Lesser(A, w) /\ A \in Nat
    BY <2>1 DEF Lesser
  <2>3. Clamped(v, w, v, w)
    <3> HIDE DEF A
    <3> QED BY <2>2 DEF Clamped
  <2> QED
    BY <1>4, <2>1, <2>3 DEF v, w
<1>7. ASSUME NEW d \in 0..(c - 1), d \in S PROVE d + 1 \in S
  <2>1. /\ a + d \in 0..(2 * n) /\ b + d \in 0..(2 * n) /\ a + (d + 1) \in 0..(2 * n)
        /\ b + (d + 1) \in 0..(2 * n) /\ a \in 0..(2 * n) /\ b \in 0..(2 * n)
        /\ a + d \in a..(a + (c - 1)) /\ (a + d) + c = b + d
        /\ (a + d) + 1 = a + (d + 1) /\ (a + d) + c + 1 = b + (d + 1)
    BY <1>1, <1>4
  <2>2. Clamped(Stored(f[a + d]), Stored(f[(a + d) + c]), Stored(f[(a + d) + 1]),
                Stored(f[(a + d) + c + 1]))
    <3> DEFINE k == a + d
    <3>1. k \in a..(a + (c - 1))
      BY <2>1
    <3> HIDE DEF k, b
    <3>2. Clamped(Stored(f[k]), Stored(f[k + c]), Stored(f[k + 1]), Stored(f[k + c + 1]))
      BY <1>1, <1>2, <1>3, <3>1, RoundsClamp
    <3> QED
      BY <3>2 DEF k
  <2>3. Clamped(Stored(f[a + d]), Stored(f[b + d]), Stored(f[a + (d + 1)]), Stored(f[b + (d + 1)]))
    BY <2>1, <2>2
  <2>4. Clamped(Stored(f[a]), Stored(f[b]), Stored(f[a + d]), Stored(f[b + d]))
    BY <1>7
  <2>5. C(d + 1)
    <3> HIDE DEF b
    <3>1. /\ Stored(f[a]) \in Nat /\ Stored(f[b]) \in Nat
          /\ Stored(f[a + d]) \in Nat /\ Stored(f[b + d]) \in Nat
          /\ Stored(f[a + (d + 1)]) \in Nat /\ Stored(f[b + (d + 1)]) \in Nat
      BY <1>5, <2>1
    <3>2. PICK v, w, x, y, p, q :
            /\ v = Stored(f[a]) /\ w = Stored(f[b]) /\ x = Stored(f[a + d])
            /\ y = Stored(f[b + d]) /\ p = Stored(f[a + (d + 1)]) /\ q = Stored(f[b + (d + 1)])
      OBVIOUS
    <3>3. Clamped(v, w, x, y) /\ Clamped(x, y, p, q)
      BY <2>3, <2>4, <3>2
    <3>4. v \in Nat /\ w \in Nat /\ x \in Nat /\ y \in Nat /\ p \in Nat /\ q \in Nat
      BY <3>1, <3>2
    <3>5. Clamped(v, w, p, q)
      BY <3>3, <3>4, ClampedTwice
    <3> QED
      BY <3>2, <3>5
  <2> QED
    BY <1>4, <2>5
<1>8. Clamped(Stored(f[a]), Stored(f[b]), Stored(f[b]), Stored(f[b + c]))
  <2>1. 0..c \subseteq S
    <3>1. c \in Nat
      BY <1>4
    <3> HIDE DEF S
    <3> QED BY <1>6, <1>7, <3>1, SetInduction
  <2>2. c \in 0..c
    BY <1>4
  <2> QED
    BY <2>1, <2>2
<1>9. Stored(f[b]) = Stored(f[b + c])
  <2>1. Stored(f[a]) \in Nat /\ Stored(f[b]) \in Nat /\ Stored(f[b + c]) \in Nat
    BY <1>1, <1>4, <1>5
  <2> QED
    BY <1>8, <2>1 DEF Clamped, Lesser
<1>10. f[b + c].t = f[b].t
  <2>1. a \in 0..(2 * n) /\ b \in 0..(2 * n) /\ c \in Nat /\ a + c <= 2 * n /\ b + c <= 2 * n
    BY <1>1, <1>4
  <2> HIDE DEF b
  <2>2. f[a + c].t = f[b + c].t
    BY <1>2, <1>4, <2>1, SameWayAgain
  <2> QED
    BY <2>2 DEF b
<1> DEFINE e == (b + c) - 1
<1>11. e \in b..(2 * n) /\ e \in 0..(2 * n) /\ b \in 0..(2 * n) /\ b \in (a + 1)..(a + c)
       /\ (b + 1)..e = (b + 1)..(b + (c - 1))
  BY <1>1, <1>4
<1>12. f[e].curr[f[b].t] = f[b].curr[f[b].t]
  <2>1. f[b].t \in Threads
    BY <1>5, <1>11 DEF SoundWalks, Walks
  <2>2. \A j \in (b + 1)..e : f[j].t # f[b].t
    <3> HIDE DEF b, e
    <3> QED BY <1>1, <1>2, <1>3, <1>11, CircleIsSimple
  <2>3. \A u \in Threads : (\A k \in (b + 1)..e : f[k].t # u) => f[e].curr[u] = f[b].curr[u]
    <3> HIDE DEF b, e
    <3> QED BY <1>2, <1>4, <1>11, OnlyVisited
  <2> QED
    BY <2>1, <2>2, <2>3
<1>13. f[b + c].curr[f[b + c].t] # f[e].curr[f[b + c].t]
  <2>1. GoesOn(f[e], f[b + c])
    BY <1>2, <1>4 DEF Endless
  <2> QED
    BY <2>1 DEF GoesOn
<1> QED
  BY <1>9, <1>10, <1>12, <1>13 DEF Stored

(* _thread_update_priority comes to an end, from any thread, with any      *)
(* priority and whoever waits for whom.                                    *)
LEMMA WalkEnds ==
  ASSUME Inv, NEW t \in Threads, NEW prio \in 0..NoPrio, NEW q, ListsOK(q),
         NEW mp \in [Mutexes -> 0..NoPrio], NEW cl \in [Mutexes -> 0..NoPrio]
  PROVE  ~ThreadUpdatePriority(t, prio, q, mp, cl).go
<1>1. ChainBound \in Nat
  BY PrioAssumption, FS_CardinalityType DEF ChainBound
<1>2. \A s \in SoundWalks : PropagateStep(s) \in SoundWalks
  BY PropagateKeeps DEF SoundWalks
<1>3. WalkStart(t, prio, q, mp, cl) \in SoundWalks
  BY DEF Inv, TypeOK, SoundWalks, Walks, ListsOK, WalkStart
<1>4. PICK f \in [0..ChainBound -> SoundWalks] :
        /\ \A i \in 1..ChainBound : f[i] = PropagateStep(f[i - 1])
        /\ ThreadUpdatePriority(t, prio, q, mp, cl) = f[ChainBound]
  BY <1>2, <1>3, UpdateRuns
<1>5. SUFFICES ASSUME f[ChainBound].go PROVE FALSE
  BY <1>4
<1>6. Endless(f, ChainBound)
  BY <1>1, <1>4, <1>5, WentOn
<1> QED
  BY <1>6, NoEndlessWalk

(* _thread_update_priority under the scheduler lock: the walk along the    *)
(* owners ends, also where threads wait for each other in a circle.        *)
THEOREM WalksEnd == Spec => []PropagationEnds
<1>1. Inv => PropagationEnds
  <2>1. SUFFICES ASSUME Inv, NEW m \in Mutexes, NEW t \in Threads, owner[m] # NoThread
                 PROVE  ~ThreadUpdatePriority(owner[m], curr[t], susp, mprio, ceil).go
    BY DEF PropagationEnds
  <2>2. /\ owner[m] \in Threads /\ curr[t] \in 0..NoPrio /\ ListsOK(susp)
        /\ mprio \in [Mutexes -> 0..NoPrio] /\ ceil \in [Mutexes -> 0..NoPrio]
    BY <2>1 DEF Inv, TypeOK, ListInv
  <2> QED
    BY <2>1, <2>2, WalkEnds
<1> QED
  BY <1>1, SpecInv, PTL

-------------------------------------------------------------------------------
(* The lists of all mutexes stay in order, whoever waits for whom.         *)

(* A walk gets every list in order but for the thread it has come to; it   *)
(* has changed no thread that is half made, or has come to it and stops.   *)
Lined(q, f) == \A m \in Mutexes : Sorted(q[m], f)
Steady(f) == \A u \in Threads : HalfMade(u) => f[u] = curr[u]
LinedBut(s) == \A m \in Mutexes : Sorted(ListRemove(s.susp[m], s.t), s.curr)
WalkInv(s) ==
  /\ \A u \in Threads : HalfMade(u) /\ u # s.t => s.curr[u] = curr[u]
  /\ s.go => LinedBut(s)
  /\ (s.go => HalfMade(s.t)) /\ Steady(s.curr) => Lined(s.susp, s.curr)

(* The property of the runs in these words.                                *)
LEMMA LinedIsOrder == QueueByPriority <=> Lined(susp, curr)
BY DEF QueueByPriority, Lined, Sorted

(* Taking off a list who is not on it changes nothing.                     *)
LEMMA RemoveAbsent ==
  ASSUME NEW s, NEW t, t \notin Queued(s)
  PROVE  ListRemove(s, t) = s
BY DEF ListRemove, Queued

(* A thread that waits for another mutex, or for none, is not on the list. *)
LEMMA NotQueued ==
  ASSUME Inv, NEW q, ListsOK(q), NEW m \in Mutexes, NEW t \in Threads,
         stat[t] # "SUSPEND" \/ (pending[t] # NoMutex /\ pending[t] # m) \/ owner[m] = NoThread
  PROVE  t \notin Queued(q[m])
<1>1. Queued(q[m]) \subseteq Sleepers(m) /\ (owner[m] = NoThread => q[m] = <<>>)
  BY DEF ListsOK
<1>2. Queued(<<>>) = {}
  BY DEF Queued
<1> QED
  BY <1>1, <1>2 DEF Sleepers, Inv, PendInv

(* A turn that stops: the thread it has come to is on no list, or is half  *)
(* made and did not change.                                                *)
LEMMA StopLined ==
  ASSUME Inv, NEW s \in Walks, ListsOK(s.susp), WalkInv(s), Steady(s.curr),
         ~s.go \/ HalfMade(s.t) \/ \A m \in Mutexes : s.t \notin Queued(s.susp[m])
  PROVE  Lined(s.susp, s.curr)
<1>1. CASE ~s.go \/ HalfMade(s.t)
  BY <1>1 DEF WalkInv
<1>2. CASE s.go /\ \A m \in Mutexes : s.t \notin Queued(s.susp[m])
  <2>1. \A m \in Mutexes : ListRemove(s.susp[m], s.t) = s.susp[m]
    BY <1>2, RemoveAbsent
  <2> QED
    BY <1>2, <2>1 DEF WalkInv, LinedBut, Lined
<1> QED
  BY <1>1, <1>2

(* A turn that queues a waiter again: all lists are in order, by the       *)
(* priorities before the owner gets its own.                               *)
LEMMA RequeueLines ==
  ASSUME Inv, NEW s \in Walks, ListsOK(s.susp), LinedBut(s), NEW m \in Mutexes,
         pending[s.t] = m,
         NEW q, q = SuspListEnqueue(ListRemove(s.susp[m], s.t), s.t, "PRIO", s.curr)
  PROVE  Lined([s.susp EXCEPT ![m] = q], s.curr)
<1>1. /\ s.t \in Threads /\ s.susp \in [Mutexes -> Seq(Threads)]
      /\ s.curr \in [Threads -> 0..NoPrio] /\ Unique(s.susp[m])
  BY DEF Walks, ListsOK
<1>2. s.curr \in [Threads -> Nat]
  BY <1>1, LesserBound
<1>3. /\ ListRemove(s.susp[m], s.t) \in Seq(Threads)
      /\ Sorted(ListRemove(s.susp[m], s.t), s.curr)
  BY <1>1, ListRemoveProperties DEF LinedBut
<1>4. Sorted(q, s.curr)
  <2>1. PICK r, f, t : r = ListRemove(s.susp[m], s.t) /\ f = s.curr /\ t = s.t
    OBVIOUS
  <2>2. q = SuspListEnqueue(r, t, "PRIO", f)
    BY <2>1
  <2>3. r \in Seq(Threads) /\ t \in Threads /\ f \in [Threads -> Nat] /\ Sorted(r, f)
    BY <1>1, <1>2, <1>3, <2>1
  <2>4. Sorted(SuspListEnqueue(r, t, "PRIO", f), f)
    BY <2>3, SortedEnqueue
  <2> QED
    BY <2>1, <2>2, <2>4
<1>5. ASSUME NEW x \in Mutexes, x # m PROVE Sorted(s.susp[x], s.curr)
  <2>1. s.t \notin Queued(s.susp[x])
    <3>1. pending[s.t] # NoMutex /\ pending[s.t] # x
      BY <1>5, MutexAssumption
    <3> QED
      BY <1>1, <3>1, NotQueued
  <2>2. ListRemove(s.susp[x], s.t) = s.susp[x]
    BY <2>1, RemoveAbsent
  <2> QED
    BY <2>2 DEF LinedBut
<1> QED
  BY <1>1, <1>4, <1>5 DEF Lined

(* Every turn keeps that.                                                  *)
LEMMA TurnLines ==
  ASSUME Inv, NEW s \in Walks, ListsOK(s.susp), WalkInv(s)
  PROVE  WalkInv(PropagateStep(s))
<1> DEFINE m == pending[s.t]
           q == SuspListEnqueue(ListRemove(s.susp[m], s.t), s.t, "PRIO", s.curr)
           mp == [s.mprio EXCEPT ![m] = HeadPriority(q, s.curr)]
           o == owner[m]
           p == MutexPriority(o, Taken(o), mp, s.ceil)
           stop == [s EXCEPT !.go = FALSE]
           fail == [s EXCEPT !.go = FALSE, !.fault = TRUE]
           more == [s EXCEPT !.susp = [@ EXCEPT ![m] = q],
                             !.mprio = mp,
                             !.curr = [@ EXCEPT ![o] = p],
                             !.t = o,
                             !.go = (p # s.curr[o])]
<1>0. /\ s.t \in Threads /\ s.susp \in [Mutexes -> Seq(Threads)]
      /\ s.curr \in [Threads -> 0..NoPrio]
  BY DEF Walks
<1>1. CASE ~s.go \/ stat[s.t] # "SUSPEND" \/ m = NoMutex
  <2>1. PropagateStep(s) = stop
    BY <1>1 DEF PropagateStep
  <2>2. stop.t = s.t /\ stop.susp = s.susp /\ stop.curr = s.curr /\ stop.go = FALSE
    BY DEF Walks
  <2>3. ~s.go \/ HalfMade(s.t) \/ \A x \in Mutexes : s.t \notin Queued(s.susp[x])
    BY <1>0, <1>1, NotQueued DEF HalfMade
  <2>4. Steady(s.curr) => Lined(s.susp, s.curr)
    BY <2>3, StopLined
  <2> HIDE DEF stop
  <2>5. WalkInv(stop)
    BY <2>2, <2>4 DEF WalkInv
  <2> QED
    BY <2>1, <2>5
<1>2. CASE ~(~s.go \/ stat[s.t] # "SUSPEND" \/ m = NoMutex) /\ o = NoThread
  <2>1. PropagateStep(s) = fail
    BY <1>2 DEF PropagateStep
  <2>2. fail.t = s.t /\ fail.susp = s.susp /\ fail.curr = s.curr /\ fail.go = FALSE
    BY DEF Walks
  <2>3. ASSUME NEW x \in Mutexes PROVE s.t \notin Queued(s.susp[x])
    <3>1. (pending[s.t] # NoMutex /\ pending[s.t] # x) \/ owner[x] = NoThread
      BY <1>2
    <3> QED
      BY <1>0, <3>1, NotQueued
  <2>4. Steady(s.curr) => Lined(s.susp, s.curr)
    BY <2>3, StopLined
  <2> HIDE DEF fail
  <2>5. WalkInv(fail)
    BY <2>2, <2>4 DEF WalkInv
  <2> QED
    BY <2>1, <2>5
<1>3. CASE ~(~s.go \/ stat[s.t] # "SUSPEND" \/ m = NoMutex) /\ o # NoThread
  <2>1. PropagateStep(s) = more
    BY <1>3 DEF PropagateStep
  <2>2. m \in Mutexes /\ o \in Threads /\ ~HalfMade(s.t)
    BY <1>0, <1>3 DEF Inv, TypeOK, HalfMade
  <2>3. PICK l : l = [s.susp EXCEPT ![m] = q]
    OBVIOUS
  <2>4. Lined(l, s.curr)
    <3>1. LinedBut(s)
      BY <1>3 DEF WalkInv
    <3> HIDE DEF q
    <3>2. PICK x : x = m
      OBVIOUS
    <3>3. q = SuspListEnqueue(ListRemove(s.susp[x], s.t), s.t, "PRIO", s.curr)
      BY <3>2 DEF q
    <3>4. Lined([s.susp EXCEPT ![x] = q], s.curr)
      BY <2>2, <3>1, <3>2, <3>3, RequeueLines
    <3> QED
      BY <2>3, <3>2, <3>4
  <2>5. \A x \in Mutexes : l[x] \in Seq(Threads) /\ Unique(l[x])
    <3>1. ListsOK(PropagateStep(s).susp)
      BY PropagateKeeps
    <3>2. PropagateStep(s).susp = l
      <4> HIDE DEF q, mp, p
      <4> QED BY <2>1, <2>3 DEF Walks
    <3> QED
      BY <3>1, <3>2 DEF ListsOK
  <2>6. PICK c : c = [s.curr EXCEPT ![o] = p]
    OBVIOUS
  <2> HIDE DEF q, mp, p
  <2>7. /\ more.t = o /\ more.susp = l /\ more.curr = c /\ more.go = (p # s.curr[o])
    BY <2>3, <2>6 DEF Walks
  <2> HIDE DEF more, o, m
  <2>8. c[o] = p /\ \A u \in Threads : u # o => c[u] = s.curr[u]
    BY <1>0, <2>2, <2>6
  <2>9. p = s.curr[o] => c = s.curr
    BY <1>0, <2>2, <2>6
  <2>10. \A u \in Threads : HalfMade(u) => s.curr[u] = curr[u]
    BY <2>2 DEF WalkInv
  <2>11. \A u \in Threads : HalfMade(u) /\ u # o => c[u] = curr[u]
    BY <2>8, <2>10
  <2>12. ASSUME NEW x \in Mutexes PROVE Sorted(ListRemove(l[x], o), c)
    <3>1. /\ ListRemove(l[x], o) \in Seq(Threads)
          /\ Queued(ListRemove(l[x], o)) = Queued(l[x]) \ {o}
      BY <2>5, ListRemoveProperties
    <3>2. Queued(l[x]) \subseteq Threads
      BY <2>5 DEF Queued
    <3>3. Sorted(ListRemove(l[x], o), s.curr)
      BY <2>4, <2>5, SortedRemove DEF Lined
    <3>4. \A u \in Queued(ListRemove(l[x], o)) : c[u] = s.curr[u]
      BY <2>8, <3>1, <3>2
    <3>5. PICK f, r : f = s.curr /\ r = ListRemove(l[x], o)
      OBVIOUS
    <3>6. Sorted(r, c)
      BY <3>1, <3>3, <3>4, <3>5, SortedSame
    <3> QED
      BY <3>5, <3>6
  <2>13. ASSUME Steady(c), (p # s.curr[o]) => HalfMade(o) PROVE Lined(l, c)
    <3>1. p = s.curr[o]
      BY <2>2, <2>8, <2>10, <2>13 DEF Steady
    <3> QED
      BY <2>4, <2>9, <3>1
  <2>14. WalkInv(more)
    BY <2>7, <2>11, <2>12, <2>13 DEF WalkInv, LinedBut
  <2> QED
    BY <2>1, <2>14
<1> QED
  BY <1>1, <1>2, <1>3

(* So the whole walk leaves the lists in order, if it changed no thread    *)
(* that is half made.                                                      *)
LEMMA WalkLines ==
  ASSUME Inv, QueueByPriority, NEW t \in Threads, NEW prio \in 0..NoPrio,
         NEW mp \in [Mutexes -> 0..NoPrio], NEW cl \in [Mutexes -> 0..NoPrio],
         NEW s, s = ThreadUpdatePriority(t, prio, susp, mp, cl), Steady(s.curr)
  PROVE  Lined(s.susp, s.curr)
<1> DEFINE good == {w \in Walks : ListsOK(w.susp) /\ WalkInv(w)}
           start == WalkStart(t, prio, susp, mp, cl)
<1>1. \A w \in good : PropagateStep(w) \in good
  BY PropagateKeeps, TurnLines
<1>2. /\ start.t = t /\ start.susp = susp /\ start.curr = [curr EXCEPT ![t] = prio]
      /\ start.go = TRUE /\ start \in Walks /\ ListsOK(start.susp)
  BY DEF Inv, TypeOK, ListInv, Walks, WalkStart
<1>3. WalkInv(start)
  <2> HIDE DEF start
  <2>1. PICK c : c = [curr EXCEPT ![t] = prio]
    OBVIOUS
  <2>2. curr \in [Threads -> 0..NoPrio] /\ susp \in [Mutexes -> Seq(Threads)]
    BY DEF Inv, TypeOK
  <2>3. c[t] = prio /\ \A u \in Threads : u # t => c[u] = curr[u]
    BY <2>1, <2>2
  <2>4. prio = curr[t] => c = curr
    BY <2>1, <2>2
  <2>5. Lined(susp, curr)
    BY LinedIsOrder
  <2>6. ASSUME NEW m \in Mutexes PROVE Sorted(ListRemove(susp[m], t), c)
    <3>1. Unique(susp[m]) /\ Queued(susp[m]) \subseteq Threads
      BY DEF Inv, ListInv, ListsOK, Sleepers
    <3>2. /\ ListRemove(susp[m], t) \in Seq(Threads)
          /\ Queued(ListRemove(susp[m], t)) = Queued(susp[m]) \ {t}
      BY <2>2, <3>1, ListRemoveProperties
    <3>3. PICK f, r : f = curr /\ r = ListRemove(susp[m], t)
      OBVIOUS
    <3>4. Sorted(r, f)
      BY <2>2, <2>5, <3>3, SortedRemove DEF Lined
    <3>5. \A u \in Queued(r) : c[u] = f[u]
      BY <2>3, <3>1, <3>2, <3>3
    <3>6. Sorted(r, c)
      BY <3>2, <3>3, <3>4, <3>5, SortedSame
    <3> QED
      BY <3>3, <3>6
  <2>7. ASSUME HalfMade(t), Steady(c) PROVE Lined(susp, c)
    BY <2>3, <2>4, <2>5, <2>7 DEF Steady
  <2> QED
    BY <1>2, <2>1, <2>3, <2>6, <2>7 DEF WalkInv, LinedBut
<1>4. s \in good
  <2>1. start \in good
    BY <1>2, <1>3
  <2>2. PICK q : q = susp
    OBVIOUS
  <2>3. WalkStart(t, prio, q, mp, cl) \in good
    BY <2>1, <2>2
  <2> HIDE DEF good
  <2>4. ThreadUpdatePriority(t, prio, q, mp, cl) \in good
    BY <1>1, <2>3, UpdateWithin
  <2> QED
    BY <2>2, <2>4
<1>5. ~s.go
  <2>1. PICK q : q = susp
    OBVIOUS
  <2>2. ListsOK(q)
    BY <2>1 DEF Inv, ListInv
  <2>3. ~ThreadUpdatePriority(t, prio, q, mp, cl).go
    BY <2>2, WalkEnds
  <2> QED
    BY <2>1, <2>3
<1> QED
  BY <1>4, <1>5 DEF WalkInv

(* The steps under which a half-made waiter keeps its priority, and no     *)
(* mutex goes whose owner sleeps.                                          *)
Fair ==
  /\ \A t \in Threads : HalfMade(t) => curr'[t] = curr[t]
  /\ \A m \in alive \ alive' : owner[m] # NoThread => stat[owner[m]] # "SUSPEND"

(* Steps that give no waiter another priority, and take waiters away.      *)
LEMMA OrderLeft ==
  ASSUME Inv, QueueByPriority, NEW q, NEW f, susp' = q, curr' = f,
         \A m \in Mutexes : /\ Sorted(q[m], curr)
                            /\ q[m] \in Seq(Threads)
                            /\ \A u \in Queued(q[m]) : f[u] = curr[u]
  PROVE  QueueByPriority'
<1>1. PICK c : c = curr
  OBVIOUS
<1>2. \A m \in Mutexes : Sorted(q[m], f)
  BY <1>1, SortedSame
<1> QED
  BY <1>2 DEF Sorted, QueueByPriority

LEMMA OrderStays ==
  ASSUME Inv, QueueByPriority, UNCHANGED susp,
         \A m \in Mutexes : \A u \in Queued(susp[m]) : curr'[u] = curr[u]
  PROVE  QueueByPriority'
<1>1. \A m \in Mutexes : Sorted(susp[m], curr) /\ susp[m] \in Seq(Threads)
  BY LinedIsOrder DEF Lined, Inv, TypeOK
<1>2. PICK q, f : q = susp /\ f = curr'
  OBVIOUS
<1> QED
  BY <1>1, <1>2, OrderLeft

LEMMA OrderRemove ==
  ASSUME Inv, QueueByPriority, UNCHANGED curr, NEW t,
         susp' = [m \in Mutexes |-> ListRemove(susp[m], t)]
  PROVE  QueueByPriority'
<1>1. \A m \in Mutexes : /\ Sorted(susp[m], curr) /\ susp[m] \in Seq(Threads)
                         /\ Unique(susp[m])
  BY LinedIsOrder DEF Lined, Inv, TypeOK, ListInv, ListsOK
<1>2. PICK q, c : q = susp' /\ c = curr
  OBVIOUS
<1>3. ASSUME NEW m \in Mutexes PROVE Sorted(q[m], c) /\ q[m] \in Seq(Threads)
  <2>1. q[m] = ListRemove(susp[m], t)
    BY <1>2
  <2> QED
    BY <1>1, <1>2, <2>1, SortedRemove, ListRemoveProperties
<1> QED
  BY <1>2, <1>3, OrderLeft

(* Steps that write what a walk finds, or the mutexes' priorities only.    *)
LEMMA OrderApply ==
  ASSUME Inv, QueueByPriority, Fair, NEW o, NEW p,
         NEW mp \in [Mutexes -> 0..NoPrio], NEW cl \in [Mutexes -> 0..NoPrio], NEW go,
         go => o \in Threads /\ p \in 0..NoPrio,
         Apply(IF go THEN ThreadUpdatePriority(o, p, susp, mp, cl) ELSE Settled(susp, mp))
  PROVE  QueueByPriority'
<1>1. PICK s : s = IF go THEN ThreadUpdatePriority(o, p, susp, mp, cl) ELSE Settled(susp, mp)
  OBVIOUS
<1>2. susp' = s.susp /\ curr' = s.curr
  BY <1>1 DEF Apply
<1>3. CASE go
  <2>1. s = ThreadUpdatePriority(o, p, susp, mp, cl)
    BY <1>1, <1>3
  <2>2. Steady(s.curr)
    BY <1>2 DEF Fair, Steady
  <2>3. Lined(s.susp, s.curr)
    BY <1>3, <2>1, <2>2, WalkLines
  <2> QED
    BY <1>2, <2>3 DEF QueueByPriority, Lined, Sorted
<1>4. CASE ~go
  <2>1. UNCHANGED <<susp, curr>>
    BY <1>1, <1>2, <1>4 DEF Settled
  <2> QED
    BY <2>1, OrderStays
<1> QED
  BY <1>3, <1>4

LEMMA TakeBoostOrder ==
  ASSUME Inv, QueueByPriority, Fair, NEW t \in Threads, TakeBoost(t)
  PROVE  QueueByPriority'
<1> DEFINE m == at[t]
           mp == [mprio EXCEPT ![m] = Lesser(curr[t], @)]
           go == curr[t] < mprio[m] /\ curr[t] < curr[owner[m]]
<1>1. m \in Mutexes /\ owner[m] \in Threads /\ curr[t] \in 0..NoPrio
  BY DEF Inv, TypeOK, CallInv, Sleeping, TakeBoost, At
<1>2. mp \in [Mutexes -> 0..NoPrio] /\ ceil \in [Mutexes -> 0..NoPrio]
  BY <1>1 DEF Inv, TypeOK, Lesser, NoPrio
<1>3. Apply(IF go THEN ThreadUpdatePriority(owner[m], curr[t], susp, mp, ceil)
                  ELSE Settled(susp, mp))
  BY DEF TakeBoost
<1> HIDE DEF m, mp, go
<1>4. PICK o, p, cl, g, k : o = owner[m] /\ p = curr[t] /\ cl = ceil /\ g = go /\ k = mp
  OBVIOUS
<1> QED
  BY <1>1, <1>2, <1>3, <1>4, OrderApply

LEMMA WithdrawOrder ==
  ASSUME Inv, QueueByPriority, Fair, NEW t \in Threads, NEW m \in Mutexes, Withdraw(t, m)
  PROVE  QueueByPriority'
<1> DEFINE o == owner[m]
           mp == [mprio EXCEPT ![m] = HeadPriority(susp[m], curr)]
           p == MutexPriority(o, Taken(o), mp, ceil)
           go == o # NoThread /\ curr[o] = curr[t] /\ p # curr[o]
<1>1. mp \in [Mutexes -> 0..NoPrio] /\ ceil \in [Mutexes -> 0..NoPrio]
  BY HeadPriorityType DEF Inv, TypeOK
<1>2. o = NoThread \/ o \in Threads
  BY DEF Inv, TypeOK
<1>3. o \in Threads => p \in 0..NoPrio
  <2> HIDE DEF mp, o
  <2> QED BY <1>1, OwnerPriority
<1>4. Apply(IF go THEN ThreadUpdatePriority(o, p, susp, mp, ceil) ELSE Settled(susp, mp))
  BY DEF Withdraw
<1>5. go => o \in Threads /\ p \in 0..NoPrio
  BY <1>2, <1>3
<1> HIDE DEF mp, o, p, go
<1>6. PICK u, x, cl, g, k : u = o /\ x = p /\ cl = ceil /\ g = go /\ k = mp
  OBVIOUS
<1> QED
  BY <1>1, <1>4, <1>5, <1>6, OrderApply

LEMMA SetPrioCeilingOrder ==
  ASSUME Inv, QueueByPriority, Fair, NEW t \in Threads, NEW m \in Mutexes, NEW c \in Ceilings,
         SetPrioCeiling(t, m, c)
  PROVE  QueueByPriority'
<1> DEFINE o == owner[m]
           cl == [ceil EXCEPT ![m] = c]
           p == MutexPriority(o, Taken(o), mprio, cl)
           go == o # NoThread /\ p # curr[o]
<1>1. cl \in [Mutexes -> 0..NoPrio] /\ mprio \in [Mutexes -> 0..NoPrio]
  BY CallsAssumption DEF Inv, TypeOK
<1>2. o = NoThread \/ o \in Threads
  BY DEF Inv, TypeOK
<1>3. o \in Threads => p \in 0..NoPrio
  <2>1. PICK k : k = mprio
    OBVIOUS
  <2> HIDE DEF cl, o
  <2> QED BY <1>1, <2>1, OwnerPriority
<1>4. Apply(IF go THEN ThreadUpdatePriority(o, p, susp, mprio, cl) ELSE Settled(susp, mprio))
  BY DEF SetPrioCeiling
<1>5. go => o \in Threads /\ p \in 0..NoPrio
  BY <1>2, <1>3
<1> HIDE DEF cl, o, p, go
<1>6. PICK u, x, k, g, l : u = o /\ x = p /\ k = mprio /\ g = go /\ l = cl
  OBVIOUS
<1> QED
  BY <1>1, <1>4, <1>5, <1>6, OrderApply

(* A new waiter goes to its place.                                         *)
LEMMA TakeSuspendOrder ==
  ASSUME Inv, QueueByPriority, NEW t \in Threads, NEW m \in Mutexes, NEW timeout,
         TakeSuspend(t, m, timeout)
  PROVE  QueueByPriority'
<1>1. \A x \in Mutexes : Sorted(susp[x], curr) /\ susp[x] \in Seq(Threads) /\ Unique(susp[x])
  BY LinedIsOrder DEF Lined, Inv, TypeOK, ListInv, ListsOK
<1>2. curr \in [Threads -> Nat]
  BY LesserBound DEF Inv, TypeOK
<1>3. PICK c, r : c = curr /\ r = SuspListEnqueue(susp[m], t, "PRIO", c)
  OBVIOUS
<1>4. Sorted(r, c)
  BY <1>1, <1>2, <1>3, SortedEnqueue
<1>5. susp' = [susp EXCEPT ![m] = r] /\ curr' = c
  BY <1>3 DEF TakeSuspend
<1>6. PICK q : q = susp'
  OBVIOUS
<1>7. \A x \in Mutexes : q[x] = IF x = m THEN r ELSE susp[x]
  BY <1>5, <1>6 DEF Inv, TypeOK
<1>8. Lined(q, c)
  BY <1>1, <1>3, <1>4, <1>7 DEF Lined
<1> QED
  BY <1>5, <1>6, <1>8 DEF QueueByPriority, Lined, Sorted

(* A hand-off: what is left of the list; who gave the mutex up does not    *)
(* wait.                                                                   *)
LEMMA PassOnOrder ==
  ASSUME Inv, QueueByPriority, NEW t \in Threads, stat[t] # "SUSPEND", NEW m \in Mutexes,
         PassOn(t, m)
  PROVE  QueueByPriority'
<1>1. PICK n \in 0..Len(susp[m]), next \in Threads \cup {NoThread} : HandOver(t, m, n, next)
  BY PassOnHands
<1>2. \A x \in Mutexes : /\ Sorted(susp[x], curr) /\ susp[x] \in Seq(Threads)
                         /\ Unique(susp[x]) /\ Queued(susp[x]) \subseteq Threads \ {t}
  BY LinedIsOrder DEF Lined, Inv, TypeOK, ListInv, ListsOK, Sleepers
<1>3. PICK r : r = SubSeq(susp[m], n + 1, Len(susp[m]))
  OBVIOUS
<1>4. r \in Seq(Threads) /\ Queued(r) \subseteq Queued(susp[m])
  BY <1>2, <1>3, SuffixProperties
<1>5. PICK c, q, f : c = curr /\ q = susp' /\ f = curr'
  OBVIOUS
<1>6. Sorted(r, c)
  BY <1>2, <1>3, <1>5, SortedSuffix
<1>7. \A x \in Mutexes : q[x] = IF x = m THEN r ELSE susp[x]
  BY <1>1, <1>3, <1>5 DEF HandOver, Inv, TypeOK
<1>8. \A u \in Threads \ {t} : f[u] = c[u]
  BY <1>1, <1>5 DEF HandOver, RestoredPrio, Inv, TypeOK
<1>9. ASSUME NEW x \in Mutexes
      PROVE  Sorted(q[x], c) /\ q[x] \in Seq(Threads) /\ \A u \in Queued(q[x]) : f[u] = c[u]
  BY <1>2, <1>4, <1>5, <1>6, <1>7, <1>8
<1> QED
  BY <1>5, <1>9, OrderLeft

(* Nobody detaches a mutex that another has detached.                      *)
Detaching == \A t \in Threads : pc[t] = "detach" => at[t] \in alive

LEMMA DetachingKept ==
  ASSUME Inv, Detaching, [Next]_vars
  PROVE  Detaching'
<1>1. ASSUME UNCHANGED <<alive, at>>, \A t \in Threads : pc'[t] = "detach" => pc[t] = "detach"
      PROVE  Detaching'
  BY <1>1 DEF Detaching
<1>2. ASSUME alive \subseteq alive', NEW t \in Threads, pc'[t] # "detach",
             \A u \in Threads \ {t} : pc'[u] = pc[u] /\ at'[u] = at[u]
      PROVE  Detaching'
  BY <1>2 DEF Detaching
<1>3. ASSUME NEW t \in Threads, NEW m \in Mutexes, PassOn(t, m) PROVE Detaching'
  BY <1>1, <1>3, PassOnHands DEF HandOver
<1>4. ASSUME NEW t \in Threads, Call(t) PROVE Detaching'
  <2>1. ASSUME NEW m \in Mutexes, TakeNested(t, m) \/ TakeFree(t, m) \/ ReleaseNested(t, m)
        PROVE  Detaching'
    BY <1>1, <2>1 DEF TakeNested, TakeFree, ReleaseNested
  <2>2. ASSUME NEW m \in Mutexes, NEW timeout, TakeSuspend(t, m, timeout) PROVE Detaching'
    BY <1>2, <2>2 DEF TakeSuspend, Goto, Inv, TypeOK
  <2>3. ASSUME NEW m \in Mutexes, ReleaseLast(t, m) PROVE Detaching'
    BY <1>3, <2>3 DEF ReleaseLast
  <2>4. ASSUME NEW m \in Mutexes, NEW c \in Ceilings, SetPrioCeiling(t, m, c) PROVE Detaching'
    BY <1>1, <2>4 DEF SetPrioCeiling, callVars
  <2>5. ASSUME NEW m \in Mutexes, Detach(t, m) PROVE Detaching'
    <3>1. /\ alive' = alive /\ m \in alive /\ at'[t] = m
          /\ \A u \in Threads \ {t} : pc'[u] = pc[u] /\ at'[u] = at[u]
      BY <2>5 DEF Detach, Enter, Goto, Inv, TypeOK
    <3> QED
      BY <3>1 DEF Detaching
  <2> QED
    BY <1>4, <2>1, <2>2, <2>3, <2>4, <2>5 DEF Call
<1>5. ASSUME NEW t \in Threads, Continue(t) PROVE Detaching'
  <2>1. CASE TakePend(t) \/ TakeBoost(t) \/ TakeArm(t)
    <3>1. alive' = alive /\ pc'[t] # "detach"
          /\ \A u \in Threads \ {t} : pc'[u] = pc[u] /\ at'[u] = at[u]
      BY <2>1 DEF TakePend, TakeBoost, TakeArm, Goto, mutexVars, Inv, TypeOK
    <3> QED
      BY <1>2, <3>1
  <2>2. CASE TakeGranted(t) \/ TakeGivenUp(t)
    <3>1. alive' = alive /\ pc'[t] # "detach"
          /\ \A u \in Threads \ {t} : pc'[u] = pc[u] /\ at'[u] = at[u]
      BY <2>2 DEF TakeGranted, TakeGivenUp, Leave, Goto, mutexVars, Inv, TypeOK
    <3> QED
      BY <1>2, <3>1
  <2>3. CASE DetachStep(t)
    BY <1>1, <2>3 DEF DetachStep, callVars
  <2>4. CASE DetachDone(t)
    <3>1. /\ alive' = alive \ {at[t]} /\ pc[t] = "detach" /\ pc'[t] = "idle"
          /\ \A u \in Threads \ {t} : pc'[u] = pc[u] /\ at'[u] = at[u]
      BY <2>4 DEF DetachDone, At, Leave, Goto, Inv, TypeOK
    <3>2. \A u \in Threads \ {t} : pc[u] = "detach" => at[u] # at[t]
      BY <3>1 DEF Inv, CallInv
    <3> QED
      BY <3>1, <3>2 DEF Detaching
  <2> QED
    BY <1>5, <2>1, <2>2, <2>3, <2>4 DEF Continue
<1>6. ASSUME NEW t \in Threads, End(t) PROVE Detaching'
  <2>1. CASE Exit(t) \/ Delete(t) \/ DropThread(t) \/ Create(t)
    <3>1. alive' = alive /\ pc'[t] # "detach"
          /\ \A u \in Threads \ {t} : pc'[u] = pc[u] /\ at'[u] = at[u]
      BY <2>1 DEF Exit, Delete, DropThread, Create, Close, Leave, Goto, mutexVars, Inv, TypeOK
    <3> QED
      BY <1>2, <3>1
  <2>2. ASSUME NEW m \in Mutexes, ExitRelease(t, m) PROVE Detaching'
    BY <1>3, <2>2 DEF ExitRelease
  <2> QED
    BY <1>6, <2>1, <2>2 DEF End
<1>7. ASSUME NEW t \in Threads, Expire(t) \/ ThreadResume(t) PROVE Detaching'
  BY <1>1, <1>7 DEF Expire, ThreadResume, mutexVars, callVars
<1>8. ASSUME NEW m \in Mutexes, MutexInit(m) PROVE Detaching'
  BY <1>8 DEF MutexInit, callVars, Detaching
<1>9. CASE Timeout \/ TimeoutAssertFails \/ UNCHANGED vars
  BY <1>1, <1>9 DEF Timeout, TimeoutAssertFails, vars, mutexVars, callVars
<1> QED
  BY <1>4, <1>5, <1>6, <1>7, <1>8, <1>9 DEF Next

(* The end of a detach, when the owner does not wait.                      *)
LEMMA DetachDoneOrder ==
  ASSUME Inv, Detaching, QueueByPriority, Fair, NEW t \in Threads, DetachDone(t)
  PROVE  QueueByPriority'
<1>1. PICK m : m = at[t]
  OBVIOUS
<1>2. m \in alive \ alive' /\ m \in Mutexes
  BY <1>1 DEF DetachDone, At, Detaching, Inv, TypeOK
<1>3. owner[m] # NoThread => stat[owner[m]] # "SUSPEND"
  BY <1>2 DEF Fair
<1>4. \A u \in Threads : u # owner[m] => curr'[u] = curr[u]
  BY <1>1 DEF DetachDone, RestoredPrio, Inv, TypeOK
<1>5. \A x \in Mutexes : Queued(susp[x]) \subseteq {u \in Threads : stat[u] = "SUSPEND"}
  BY DEF Inv, ListInv, ListsOK, Sleepers
<1>6. \A x \in Mutexes : \A u \in Queued(susp[x]) : curr'[u] = curr[u]
  BY <1>3, <1>4, <1>5, NoThreadAssumption
<1>7. UNCHANGED susp
  BY DEF DetachDone
<1> QED
  BY <1>6, <1>7, OrderStays

(* A detach that wakes one waiter.                                         *)
LEMMA DetachStepOrder ==
  ASSUME Inv, QueueByPriority, NEW t \in Threads, DetachStep(t)
  PROVE  QueueByPriority'
<1>1. PICK m : m = at[t]
  OBVIOUS
<1>2. /\ m \in Mutexes /\ susp[m] # <<>> /\ UNCHANGED curr
      /\ susp' = [susp EXCEPT ![m] = Tail(susp[m])]
  BY <1>1 DEF DetachStep, DequeueOK, At, Inv, CallInv, TypeOK
<1>3. \A x \in Mutexes : Sorted(susp[x], curr) /\ susp[x] \in Seq(Threads) /\ Unique(susp[x])
  BY LinedIsOrder DEF Lined, Inv, TypeOK, ListInv, ListsOK
<1>4. PICK q, c : q = susp' /\ c = curr
  OBVIOUS
<1>5. c \in [Threads -> Int]
  BY <1>4, LesserBound DEF Inv, TypeOK
<1>6. Tail(susp[m]) \in Seq(Threads) /\ Sorted(Tail(susp[m]), c)
  BY <1>2, <1>3, <1>4, <1>5, TailProperties, SortedTail
<1>7. \A x \in Mutexes : q[x] = IF x = m THEN Tail(susp[m]) ELSE susp[x]
  BY <1>2, <1>4 DEF Inv, TypeOK
<1>8. \A x \in Mutexes : Sorted(q[x], c) /\ q[x] \in Seq(Threads)
  BY <1>3, <1>4, <1>6, <1>7
<1> QED
  BY <1>2, <1>4, <1>8, OrderLeft

(* Steps that give one thread another priority that does not wait.         *)
LEMMA OrderAwake ==
  ASSUME Inv, QueueByPriority, UNCHANGED susp, NEW t, stat[t] # "SUSPEND",
         \A u \in Threads : u # t => curr'[u] = curr[u]
  PROVE  QueueByPriority'
<1>1. \A x \in Mutexes : Queued(susp[x]) \subseteq {u \in Threads : stat[u] = "SUSPEND"}
  BY DEF Inv, ListInv, ListsOK, Sleepers
<1>2. \A x \in Mutexes : \A u \in Queued(susp[x]) : curr'[u] = curr[u]
  BY <1>1
<1> QED
  BY <1>2, OrderStays

(* Every step keeps the order.                                             *)
LEMMA NextOrder ==
  ASSUME Inv, Detaching, QueueByPriority, Fair, [Next]_vars
  PROVE  QueueByPriority'
<1>1. ASSUME UNCHANGED <<susp, curr>> PROVE QueueByPriority'
  BY <1>1, OrderStays
<1>2. ASSUME NEW t \in Threads, Call(t) PROVE QueueByPriority'
  <2>1. ASSUME NEW m \in Mutexes, TakeNested(t, m) \/ ReleaseNested(t, m) \/ Detach(t, m)
        PROVE  QueueByPriority'
    BY <1>1, <2>1 DEF TakeNested, ReleaseNested, Detach
  <2>2. ASSUME NEW m \in Mutexes, TakeFree(t, m) PROVE QueueByPriority'
    <3>1. /\ UNCHANGED susp /\ stat[t] # "SUSPEND"
          /\ \A u \in Threads : u # t => curr'[u] = curr[u]
      BY <2>2 DEF TakeFree, Enter, Inv, TypeOK
    <3> QED
      BY <3>1, OrderAwake
  <2>3. ASSUME NEW m \in Mutexes, ReleaseLast(t, m) PROVE QueueByPriority'
    BY <2>3, PassOnOrder DEF ReleaseLast, LastHold, Enter
  <2> QED
    BY <1>2, <2>1, <2>2, <2>3, TakeSuspendOrder, SetPrioCeilingOrder DEF Call
<1>3. ASSUME NEW t \in Threads, Continue(t) PROVE QueueByPriority'
  <2>1. CASE TakePend(t) \/ TakeArm(t) \/ TakeGranted(t)
    BY <1>1, <2>1 DEF TakePend, TakeArm, TakeGranted, mutexVars
  <2>2. CASE TakeGivenUp(t)
    <3>1. at[t] \in Mutexes /\ Withdraw(t, at[t])
      BY <2>2 DEF TakeGivenUp, Resumes, At, Inv, CallInv, Sleeping
    <3> QED
      BY <3>1, WithdrawOrder
  <2> QED
    BY <1>3, <2>1, <2>2, TakeBoostOrder, DetachStepOrder, DetachDoneOrder DEF Continue
<1>4. ASSUME NEW t \in Threads, End(t) PROVE QueueByPriority'
  <2>1. CASE Exit(t) \/ Delete(t)
    BY <2>1, OrderRemove DEF Exit, Delete, Close
  <2>2. ASSUME NEW m \in Mutexes, ExitRelease(t, m) PROVE QueueByPriority'
    <3>1. stat[t] # "SUSPEND" /\ PassOn(t, m)
      BY <2>2 DEF ExitRelease, At, Inv, StatInv, Dead, Sleeping
    <3> QED
      BY <3>1, PassOnOrder
  <2>3. CASE DropThread(t)
    <3>1. pending[t] \in Mutexes /\ Withdraw(t, pending[t])
      BY <2>3 DEF DropThread, At, Inv, TypeOK, PendInv
    <3> QED
      BY <3>1, WithdrawOrder
  <2>4. CASE Create(t)
    <3>1. /\ UNCHANGED susp /\ stat[t] # "SUSPEND"
          /\ \A u \in Threads : u # t => curr'[u] = curr[u]
      BY <2>4 DEF Create, At, mutexVars, Inv, TypeOK, StatInv, Dead, Sleeping
    <3> QED
      BY <3>1, OrderAwake
  <2> QED
    BY <1>4, <2>1, <2>2, <2>3, <2>4 DEF End
<1>5. ASSUME NEW t \in Threads, Expire(t) \/ ThreadResume(t) PROVE QueueByPriority'
  <2>1. UNCHANGED curr
    BY <1>5 DEF Expire, ThreadResume
  <2>2. UNCHANGED susp \/ susp' = [m \in Mutexes |-> ListRemove(susp[m], t)]
    BY <1>5 DEF Expire, ThreadResume, mutexVars
  <2> QED
    BY <1>1, <2>1, <2>2, OrderRemove
<1>6. CASE Timeout
  <2>1. PICK u : u = isr
    OBVIOUS
  <2>2. UNCHANGED curr /\ susp' = [m \in Mutexes |-> ListRemove(susp[m], u)]
    BY <1>6, <2>1 DEF Timeout
  <2> QED
    BY <2>2, OrderRemove
<1>7. CASE (\E m \in Mutexes : MutexInit(m)) \/ TimeoutAssertFails \/ UNCHANGED vars
  BY <1>1, <1>7 DEF MutexInit, TimeoutAssertFails, vars, mutexVars
<1> QED
  BY <1>2, <1>3, <1>4, <1>5, <1>6, <1>7 DEF Next

(* The waiters of every mutex stay in order of priority, for any number of *)
(* threads and mutexes, also in circles: _thread_update_priority moves     *)
(* each waiter whose priority it changes, and no other call changes that   *)
(* of a waiter it can move.                                                *)
THEOREM QueuesResorted == Spec => OrderKept
<1>1. Init => Inv /\ Detaching
  BY InitInv DEF Init, Detaching
<1>2. Inv /\ Detaching /\ [Next]_vars => Inv' /\ Detaching'
  BY NextInv, DetachingKept
<1> DEFINE A == (/\ QueueByPriority
                 /\ \A t \in Threads : HalfMade(t) => curr'[t] = curr[t]
                 /\ \A m \in alive \ alive' :
                      owner[m] # NoThread => stat[owner[m]] # "SUSPEND")
                => QueueByPriority'
<1>3. Inv /\ Detaching /\ [Next]_vars => A
  BY NextOrder DEF Fair
<1>4. OrderKept <=> [][A]_vars
  BY DEF OrderKept
<1> HIDE DEF A
<1> QED
  BY <1>1, <1>2, <1>3, <1>4, PTL DEF Spec
===============================================================================

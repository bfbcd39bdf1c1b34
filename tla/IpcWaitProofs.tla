----------------------------- MODULE IpcWaitProofs -----------------------------
(***************************************************************************)
(* What the shared steps of IpcWait do to the suspend lists, for any       *)
(* number of threads and lists: the lists hold exactly the sleepers, and   *)
(* no wake-up is forgotten.  The theorems about an object (mailbox,        *)
(* message queue, event, memory pool) rest on these lemmas.                *)
(***************************************************************************)
EXTENDS IpcWait, WaitListProofs, FiniteSetTheorems

(* Who sleeps is inside a call that sleeps on a list.                      *)
SleepInv ==
  \A t \in Threads : stat[t] = "SUSPEND" => pc[t] \in {"arm", "waiting"} /\ on[t] \in Lists

(* A call that starts its timer, or resumes all, has the spinlock.         *)
HolderInv == \A t \in Threads : pc[t] = "arm" \/ pc[t] \in Lists => lock = t

WaitInv(places) == /\ WaitTypeOK(places)
                   /\ SleepInv
                   /\ HolderInv
                   /\ SleepersQueued

(* Whom a list should hold.                                                *)
Sleepers(l) == {t \in Threads : stat[t] = "SUSPEND" /\ on[t] = l}

(* Init.                                                                   *)
LEMMA WaitInitKeeps ==
  ASSUME NEW P, WaitInit
  PROVE  WaitInv(P)
<1>1. WaitTypeOK(P)
  <2>1. ThreadTypeOK
    BY DEF WaitInit, ThreadInit, ThreadTypeOK, Errors
  <2>2. susp \in [Lists -> Seq(Threads)] /\ wasted \in [Lists -> 0..MaxWasted]
    BY IpcBoundAssumption DEF WaitInit
  <2> QED
    BY <2>1, <2>2 DEF WaitInit, WaitTypeOK
<1>2. SleepInv /\ HolderInv
  BY IpcListsAssumption DEF WaitInit, ThreadInit, SleepInv, HolderInv
<1>3. SleepersQueued
  <2>1. Queued(<<>>) = {} /\ Unique(<<>>)
    BY DEF Queued, Unique
  <2> QED
    BY <2>1 DEF WaitInit, ThreadInit, SleepersQueued
<1> QED
  BY <1>1, <1>2, <1>3 DEF WaitInv

(* A thread at the start of a call, or woken in one, is not suspended.     *)
LEMMA CallerRuns ==
  ASSUME NEW P, WaitInv(P), NEW t \in Threads, NEW l,
         Enter(t) \/ Reenter(t, l)
  PROVE  stat[t] = "READY" /\ lock = NoThread /\ ~halted
BY DEF WaitInv, WaitTypeOK, ThreadTypeOK, SleepInv, Enter, Reenter, Woken

(* Going to sleep.                                                         *)
LEMMA SleepKeeps ==
  ASSUME NEW P, WaitInv(P), NEW t \in Threads, NEW l \in Lists, stat[t] = "READY",
         lock = NoThread, NEW finite \in BOOLEAN, NEW err \in Errors,
         Sleep(t, l, finite, err)
  PROVE  WaitInv(P)'
<1> DEFINE q == SuspListEnqueue(susp[l], t, Flag, Prio)
<1>1. t \notin Queued(susp[l]) /\ susp[l] \in Seq(Threads) /\ Unique(susp[l])
  BY DEF WaitInv, WaitTypeOK, SleepersQueued
<1>2. q \in Seq(Threads) /\ Queued(q) = Queued(susp[l]) \cup {t} /\ Unique(q)
  BY <1>1, EnqueueProperties
<1>3. /\ susp' = [susp EXCEPT ![l] = q]
      /\ stat' = [stat EXCEPT ![t] = "SUSPEND"] /\ on' = [on EXCEPT ![t] = l]
      /\ error' = [error EXCEPT ![t] = err] /\ timed' = [timed EXCEPT ![t] = finite]
      /\ pc' = [pc EXCEPT ![t] = IF finite THEN "arm" ELSE "waiting"]
      /\ lock' = IF finite THEN t ELSE NoThread
      /\ UNCHANGED <<isr, halted, alive, job>>
  BY DEF Sleep, SuspendSelf, Goto
<1> HIDE DEF q
<1>4. tmr' \in [Threads -> BOOLEAN] /\ ttmr' \in [Threads -> BOOLEAN]
  BY DEF WaitInv, WaitTypeOK, ThreadTypeOK, Sleep, SuspendSelf
<1>5. wasted' \in [Lists -> 0..MaxWasted]
  BY IpcBoundAssumption DEF WaitInv, WaitTypeOK, Sleep
<1>6. WaitTypeOK(P)'
  BY <1>2, <1>3, <1>4, <1>5 DEF WaitInv, WaitTypeOK, ThreadTypeOK
<1>7. SleepInv'
  BY <1>3 DEF WaitInv, WaitTypeOK, ThreadTypeOK, SleepInv
<1>8. HolderInv'
  BY <1>3, NoThreadAssumption, IpcListsAssumption DEF WaitInv, WaitTypeOK, HolderInv
<1>9. SleepersQueued'
  <2>1. ASSUME NEW k \in Lists
        PROVE  Queued(susp'[k]) = Sleepers(k)' /\ Unique(susp'[k])
    <3>1. Queued(susp[k]) = Sleepers(k) /\ Unique(susp[k])
      BY DEF WaitInv, SleepersQueued, Sleepers
    <3>2. Sleepers(k)' = IF k = l THEN Sleepers(k) \cup {t} ELSE Sleepers(k)
      BY <1>3 DEF WaitInv, WaitTypeOK, ThreadTypeOK, Sleepers
    <3>3. susp'[k] = IF k = l THEN q ELSE susp[k]
      BY <1>3 DEF WaitInv, WaitTypeOK
    <3> QED
      BY <1>2, <3>1, <3>2, <3>3
  <2> QED
    BY <2>1 DEF SleepersQueued, Sleepers
<1> QED
  BY <1>6, <1>7, <1>8, <1>9 DEF WaitInv

(* What rt_susp_list_dequeue does: nothing on an empty list, the first     *)
(* waiter is woken, or its wake-up is wasted.                              *)
LEMMA DequeueCases ==
  ASSUME NEW P, WaitInv(P), NEW l \in Lists, NEW err, NEW cost \in Nat, Dequeue(l, err, cost)
  PROVE  \/ /\ susp[l] = <<>>
            /\ UNCHANGED <<susp, stat, ttmr, tmr, error, wasted>>
         \/ /\ DequeueOK(l)
            /\ Head(susp[l]) \in Threads /\ Head(susp[l]) \in Sleepers(l)
            /\ susp' = [susp EXCEPT ![l] = Tail(susp[l])]
            /\ stat' = [stat EXCEPT ![Head(susp[l])] = "READY"]
            /\ error' = [error EXCEPT ![Head(susp[l])] = err]
            /\ UNCHANGED wasted
         \/ /\ susp[l] # <<>> /\ ~DequeueOK(l)
            /\ UNCHANGED <<susp, stat, error>>
            /\ wasted' = [wasted EXCEPT ![l] = IF wasted[l] + cost > MaxWasted THEN MaxWasted
                                               ELSE wasted[l] + cost]
<1>1. CASE susp[l] = <<>>
  BY <1>1 DEF Dequeue
<1>2. CASE susp[l] # <<>>
  <2> DEFINE h == Head(susp[l])
  <2>1. /\ ThreadReady(h)
        /\ susp' = [susp EXCEPT ![l] = IF DequeueOK(l) THEN Tail(@) ELSE @]
        /\ error' = [error EXCEPT ![h] = IF DequeueOK(l) THEN err ELSE @]
        /\ wasted' = [wasted EXCEPT ![l] = IF DequeueOK(l) THEN @
                                           ELSE IF @ + cost > MaxWasted THEN MaxWasted
                                           ELSE @ + cost]
    BY <1>2 DEF Dequeue
  <2>2. h \in Queued(susp[l])
    BY <1>2, TailProperties DEF WaitInv, WaitTypeOK, SleepersQueued
  <2>3. h \in Threads /\ h \in Sleepers(l)
    BY <2>2 DEF WaitInv, SleepersQueued, Sleepers
  <2>4. stat' = [stat EXCEPT ![h] = IF ReadyOK(h) THEN "READY" ELSE @]
    BY <2>1 DEF ThreadReady
  <2>5. CASE DequeueOK(l)
    <3>1. ReadyOK(h)
      BY <2>5 DEF DequeueOK
    <3>2. UNCHANGED wasted
      BY <2>1, <2>5 DEF WaitInv, WaitTypeOK
    <3> HIDE DEF h
    <3>3. /\ susp' = [susp EXCEPT ![l] = Tail(susp[l])]
          /\ stat' = [stat EXCEPT ![h] = "READY"]
          /\ error' = [error EXCEPT ![h] = err]
      BY <2>1, <2>4, <2>5, <3>1
    <3> QED
      BY <2>3, <2>5, <3>2, <3>3 DEF h
  <2>6. CASE ~DequeueOK(l)
    <3>1. ~ReadyOK(h)
      BY <1>2, <2>6 DEF DequeueOK
    <3> HIDE DEF h
    <3>2. UNCHANGED <<susp, stat, error>>
      BY <2>1, <2>3, <2>4, <2>6, <3>1 DEF WaitInv, WaitTypeOK, ThreadTypeOK
    <3>3. wasted' = [wasted EXCEPT ![l] = IF wasted[l] + cost > MaxWasted THEN MaxWasted
                                          ELSE wasted[l] + cost]
      BY <2>1, <2>6
    <3> QED
      BY <1>2, <2>6, <3>2, <3>3
  <2> QED
    BY <2>5, <2>6
<1> QED
  BY <1>1, <1>2

(* After a dequeue the lists hold the sleepers again.                      *)
LEMMA DequeueKeeps ==
  ASSUME NEW P, WaitInv(P), NEW l \in Lists, NEW err \in Errors, NEW cost \in Nat,
         Dequeue(l, err, cost),
         \A t \in Threads : stat[t] = "SUSPEND" => on'[t] = on[t]
  PROVE  /\ ThreadTypeOK'
         /\ susp' \in [Lists -> Seq(Threads)]
         /\ wasted' \in [Lists -> 0..MaxWasted]
         /\ \A t \in Threads : stat'[t] = "SUSPEND" => stat[t] = "SUSPEND"
         /\ SleepersQueued'
<1>1. tmr' \in [Threads -> BOOLEAN] /\ ttmr' \in [Threads -> BOOLEAN]
  BY DEF WaitInv, WaitTypeOK, ThreadTypeOK, Dequeue, ThreadReady
<1>2. UNCHANGED <<isr, halted>>
  BY DEF Dequeue
<1>3. CASE susp[l] = <<>> /\ UNCHANGED <<susp, stat, ttmr, tmr, error, wasted>>
  <2>1. \A k \in Lists : Sleepers(k)' = Sleepers(k)
    BY <1>3 DEF Sleepers
  <2>2. SleepersQueued'
    BY <1>3, <2>1 DEF WaitInv, SleepersQueued, Sleepers
  <2> QED
    BY <1>1, <1>2, <1>3, <2>2 DEF WaitInv, WaitTypeOK, ThreadTypeOK
<1>4. CASE /\ DequeueOK(l)
           /\ Head(susp[l]) \in Threads /\ Head(susp[l]) \in Sleepers(l)
           /\ susp' = [susp EXCEPT ![l] = Tail(susp[l])]
           /\ stat' = [stat EXCEPT ![Head(susp[l])] = "READY"]
           /\ error' = [error EXCEPT ![Head(susp[l])] = err]
           /\ UNCHANGED wasted
  <2> DEFINE h == Head(susp[l])
  <2>1. susp[l] # <<>> /\ susp[l] \in Seq(Threads) /\ Unique(susp[l])
    BY <1>4 DEF WaitInv, WaitTypeOK, SleepersQueued, DequeueOK
  <2>2. /\ Tail(susp[l]) \in Seq(Threads) /\ Unique(Tail(susp[l]))
        /\ Queued(Tail(susp[l])) = Queued(susp[l]) \ {h}
    BY <2>1, TailProperties
  <2> HIDE DEF h
  <2>3. /\ h \in Threads /\ h \in Sleepers(l)
        /\ susp' = [susp EXCEPT ![l] = Tail(susp[l])]
        /\ stat' = [stat EXCEPT ![h] = "READY"] /\ error' = [error EXCEPT ![h] = err]
    BY <1>4 DEF h
  <2>4. ASSUME NEW k \in Lists
        PROVE  Queued(susp'[k]) = Sleepers(k)' /\ Unique(susp'[k])
    <3>1. Queued(susp[k]) = Sleepers(k) /\ Unique(susp[k])
      BY DEF WaitInv, SleepersQueued, Sleepers
    <3>2. Sleepers(k)' = Sleepers(k) \ {h}
      BY <2>3 DEF WaitInv, WaitTypeOK, ThreadTypeOK, Sleepers
    <3>3. CASE k = l
      BY <2>2, <2>3, <3>1, <3>2, <3>3 DEF WaitInv, WaitTypeOK
    <3>4. CASE k # l
      <4>1. h \notin Sleepers(k)
        BY <2>3, <3>4 DEF Sleepers
      <4> QED
        BY <2>3, <3>1, <3>2, <3>4, <4>1 DEF WaitInv, WaitTypeOK
    <3> QED
      BY <3>3, <3>4
  <2>5. SleepersQueued'
    BY <2>4 DEF SleepersQueued, Sleepers
  <2> QED
    BY <1>1, <1>2, <1>4, <2>2, <2>3, <2>5 DEF WaitInv, WaitTypeOK, ThreadTypeOK
<1>5. CASE /\ susp[l] # <<>> /\ ~DequeueOK(l)
           /\ UNCHANGED <<susp, stat, error>>
           /\ wasted' = [wasted EXCEPT ![l] = IF wasted[l] + cost > MaxWasted THEN MaxWasted
                                              ELSE wasted[l] + cost]
  <2>1. \A k \in Lists : Sleepers(k)' = Sleepers(k)
    BY <1>5 DEF Sleepers
  <2>2. SleepersQueued'
    BY <1>5, <2>1 DEF WaitInv, SleepersQueued, Sleepers
  <2>3. wasted' \in [Lists -> 0..MaxWasted]
    BY <1>5, IpcBoundAssumption DEF WaitInv, WaitTypeOK
  <2> QED
    BY <1>1, <1>2, <1>5, <2>2, <2>3 DEF WaitInv, WaitTypeOK, ThreadTypeOK
<1> QED
  BY <1>3, <1>4, <1>5, DequeueCases

(* A call ends, and wakes the first waiter of a list.                      *)
LEMMA LeaveAndWakeKeeps ==
  ASSUME NEW P, WaitInv(P), NEW t \in Threads, NEW l \in Lists, stat[t] = "READY",
         LeaveAndWake(t, l)
  PROVE  WaitInv(P)'
<1>1. /\ Dequeue(l, "EOK", 1) /\ "EOK" \in Errors /\ 1 \in Nat
      /\ pc' = [pc EXCEPT ![t] = "idle"] /\ on' = [on EXCEPT ![t] = NoList]
      /\ timed' = [timed EXCEPT ![t] = FALSE] /\ UNCHANGED <<lock, alive, job>>
  BY DEF LeaveAndWake, Return, Goto, Errors
<1>2. \A u \in Threads : stat[u] = "SUSPEND" => on'[u] = on[u] /\ pc'[u] = pc[u]
  BY <1>1 DEF WaitInv, WaitTypeOK
<1>3. /\ ThreadTypeOK' /\ susp' \in [Lists -> Seq(Threads)]
      /\ wasted' \in [Lists -> 0..MaxWasted]
      /\ \A u \in Threads : stat'[u] = "SUSPEND" => stat[u] = "SUSPEND"
      /\ SleepersQueued'
  BY <1>1, <1>2, DequeueKeeps
<1>4. WaitTypeOK(P)'
  BY <1>1, <1>3 DEF WaitInv, WaitTypeOK
<1>5. SleepInv'
  BY <1>2, <1>3 DEF WaitInv, SleepInv
<1>6. HolderInv'
  BY <1>1, IpcListsAssumption DEF WaitInv, WaitTypeOK, HolderInv
<1> QED
  BY <1>3, <1>4, <1>5, <1>6 DEF WaitInv

(* A step that changes no status and no list, and at most what one running *)
(* thread knows of its call.                                               *)
LEMMA QuietKeeps ==
  ASSUME NEW P, WaitInv(P), NEW t, stat[t] # "SUSPEND", UNCHANGED <<stat, susp>>,
         WaitTypeOK(P)', HolderInv',
         \A u \in Threads \ {t} : on'[u] = on[u] /\ pc'[u] = pc[u]
  PROVE  WaitInv(P)'
<1>1. SleepInv'
  BY DEF WaitInv, SleepInv
<1>2. \A k \in Lists : Sleepers(k)' = Sleepers(k)
  BY DEF Sleepers
<1>3. SleepersQueued'
  BY <1>2 DEF WaitInv, SleepersQueued, Sleepers
<1> QED
  BY <1>1, <1>3 DEF WaitInv

(* A call ends and wakes nobody.                                           *)
LEMMA LeaveKeeps ==
  ASSUME NEW P, WaitInv(P), NEW t \in Threads, stat[t] = "READY", Leave(t)
  PROVE  WaitInv(P)'
<1>1. /\ pc' = [pc EXCEPT ![t] = "idle"] /\ on' = [on EXCEPT ![t] = NoList]
      /\ timed' = [timed EXCEPT ![t] = FALSE]
      /\ UNCHANGED <<stat, ttmr, tmr, error, isr, halted, susp, lock, alive, job, wasted>>
  BY DEF Leave, Return, Goto, threadVars
<1>2. WaitTypeOK(P)'
  BY <1>1 DEF WaitInv, WaitTypeOK, ThreadTypeOK
<1>3. HolderInv'
  BY <1>1, IpcListsAssumption DEF WaitInv, WaitTypeOK, HolderInv
<1>4. \A u \in Threads \ {t} : on'[u] = on[u] /\ pc'[u] = pc[u]
  BY <1>1 DEF WaitInv, WaitTypeOK
<1> QED
  BY <1>1, <1>2, <1>3, <1>4, QuietKeeps

(* A sleeper starts its timer and drops the spinlock.                      *)
LEMMA ArmKeeps ==
  ASSUME NEW P, WaitInv(P), NEW t \in Threads, Arm(t)
  PROVE  WaitInv(P)'
<1>1. /\ pc' = [pc EXCEPT ![t] = "waiting"] /\ lock' = NoThread /\ pc[t] = "arm"
      /\ ttmr' = [ttmr EXCEPT ![t] = TRUE] /\ tmr' = [tmr EXCEPT ![t] = TRUE]
      /\ UNCHANGED <<stat, error, isr, halted, susp, alive, on, timed, job, wasted>>
  BY DEF Arm, Goto, TimerStart
<1>2. WaitTypeOK(P)'
  BY <1>1 DEF WaitInv, WaitTypeOK, ThreadTypeOK
<1>3. HolderInv'
  BY <1>1, IpcListsAssumption DEF WaitInv, WaitTypeOK, HolderInv
<1>4. SleepInv'
  BY <1>1 DEF WaitInv, WaitTypeOK, SleepInv
<1>5. SleepersQueued'
  BY <1>1 DEF WaitInv, SleepersQueued
<1> QED
  BY <1>2, <1>3, <1>4, <1>5 DEF WaitInv

(* A thread that was not woken with RT_EOK returns its error.              *)
LEMMA ReturnErrorKeeps ==
  ASSUME NEW P, WaitInv(P), NEW t \in Threads, ReturnError(t)
  PROVE  WaitInv(P)'
<1>1. /\ pc' = [pc EXCEPT ![t] = "idle"] /\ on' = [on EXCEPT ![t] = NoList]
      /\ timed' = [timed EXCEPT ![t] = FALSE] /\ error' = [error EXCEPT ![t] = "EOK"]
      /\ stat[t] = "READY"
      /\ UNCHANGED <<stat, ttmr, tmr, isr, halted, susp, lock, alive, job, wasted>>
  BY DEF ReturnError, Return, Goto
<1>2. WaitTypeOK(P)'
  BY <1>1 DEF WaitInv, WaitTypeOK, ThreadTypeOK, Errors
<1>3. HolderInv'
  BY <1>1, IpcListsAssumption DEF WaitInv, WaitTypeOK, HolderInv
<1>4. \A u \in Threads \ {t} : on'[u] = on[u] /\ pc'[u] = pc[u]
  BY <1>1 DEF WaitInv, WaitTypeOK
<1> QED
  BY <1>1, <1>2, <1>3, <1>4, QuietKeeps

(* Reset, detach or delete begins.                                         *)
LEMMA ResumeAllKeeps ==
  ASSUME NEW P, WaitInv(P), NEW t \in Threads, NEW why \in {"reset", "detach"},
         NEW first \in Lists, ResumeAll(t, why, first)
  PROVE  WaitInv(P)'
<1>1. /\ pc' = [pc EXCEPT ![t] = first] /\ lock' = t /\ job' = why /\ lock = NoThread
      /\ pc[t] = "idle"
      /\ UNCHANGED <<stat, ttmr, tmr, error, isr, halted, susp, alive, on, timed, wasted>>
  BY DEF ResumeAll, Enter, Goto, threadVars
<1>2. WaitTypeOK(P)'
  BY <1>1 DEF WaitInv, WaitTypeOK, ThreadTypeOK
<1>3. HolderInv'
  BY <1>1, NoThreadAssumption, IpcListsAssumption DEF WaitInv, WaitTypeOK, HolderInv
<1>4. stat[t] # "SUSPEND" /\ \A u \in Threads \ {t} : on'[u] = on[u] /\ pc'[u] = pc[u]
  BY <1>1 DEF WaitInv, WaitTypeOK, SleepInv
<1> QED
  BY <1>1, <1>2, <1>3, <1>4, QuietKeeps

(* It wakes one waiter, goes on to the next list, or ends.                 *)
LEMMA ResumeAllStepKeeps ==
  ASSUME NEW P, WaitInv(P), NEW t \in Threads, NEW l \in Lists,
         \/ ResumeAllStep(t, l)
         \/ \E next \in Lists : ResumeAllNext(t, l, next)
         \/ ResumeAllDone(t, l)
  PROVE  WaitInv(P)'
<1>1. /\ pc[t] = l /\ Dequeue(l, "ERROR", MaxWasted) /\ "ERROR" \in Errors
      /\ MaxWasted \in Nat /\ UNCHANGED <<on, timed>>
  BY IpcBoundAssumption DEF ResumeAllStep, ResumeAllNext, ResumeAllDone, Errors
<1>2. /\ ThreadTypeOK' /\ susp' \in [Lists -> Seq(Threads)]
      /\ wasted' \in [Lists -> 0..MaxWasted]
      /\ \A u \in Threads : stat'[u] = "SUSPEND" => stat[u] = "SUSPEND"
      /\ SleepersQueued'
  BY <1>1, DequeueKeeps
<1>3. lock = t
  BY <1>1 DEF WaitInv, HolderInv
<1>4. /\ pc' \in [Threads -> {"idle", "arm", "waiting"} \cup Lists \cup P]
      /\ pc' = [pc EXCEPT ![t] = pc'[t]]
      /\ \/ pc'[t] \in Lists /\ lock' = t /\ UNCHANGED <<alive, job>>
         \/ /\ pc'[t] = "idle" /\ lock' = NoThread /\ job' = "none"
            /\ alive' = (job # "detach")
  BY <1>1, <1>3 DEF WaitInv, WaitTypeOK, ResumeAllStep, ResumeAllNext, ResumeAllDone, Goto
<1>5. WaitTypeOK(P)'
  BY <1>1, <1>2, <1>4 DEF WaitInv, WaitTypeOK
<1>6. SleepInv'
  <2>1. stat[t] # "SUSPEND"
    BY <1>1, IpcListsAssumption DEF WaitInv, SleepInv
  <2> QED
    BY <1>1, <1>2, <1>4, <2>1 DEF WaitInv, WaitTypeOK, SleepInv
<1>7. HolderInv'
  BY <1>1, <1>3, <1>4, NoThreadAssumption, IpcListsAssumption DEF WaitInv, WaitTypeOK, HolderInv
<1> QED
  BY <1>2, <1>5, <1>6, <1>7 DEF WaitInv

(* A thread is taken off the lists and does not sleep any more.            *)
LEMMA RemoveKeeps ==
  ASSUME NEW P, WaitInv(P), NEW u \in Threads, stat'[u] # "SUSPEND",
         susp' = [l \in Lists |-> ListRemove(susp[l], u)], UNCHANGED <<on, pc, lock>>,
         \A v \in Threads \ {u} : stat'[v] = stat[v]
  PROVE  susp' \in [Lists -> Seq(Threads)] /\ SleepInv' /\ HolderInv' /\ SleepersQueued'
<1>1. ASSUME NEW k \in Lists
      PROVE  /\ susp'[k] \in Seq(Threads) /\ Unique(susp'[k])
             /\ Queued(susp'[k]) = Sleepers(k)'
  <2>1. susp[k] \in Seq(Threads) /\ Unique(susp[k]) /\ susp'[k] = ListRemove(susp[k], u)
    BY DEF WaitInv, WaitTypeOK, SleepersQueued
  <2>2. Queued(susp'[k]) = Queued(susp[k]) \ {u} /\ Queued(susp[k]) = Sleepers(k)
    BY <2>1, ListRemoveProperties DEF WaitInv, SleepersQueued, Sleepers
  <2>3. Sleepers(k)' = Sleepers(k) \ {u}
    BY DEF Sleepers
  <2> QED
    BY <2>1, <2>2, <2>3, ListRemoveProperties
<1>2. susp' \in [Lists -> Seq(Threads)]
  BY <1>1
<1>3. SleepersQueued'
  BY <1>1 DEF SleepersQueued, Sleepers
<1>4. SleepInv' /\ HolderInv'
  BY DEF WaitInv, SleepInv, HolderInv
<1> QED
  BY <1>2, <1>3, <1>4

(* rt_thread_resume on a sleeper.                                          *)
LEMMA ThreadResumeKeeps ==
  ASSUME NEW P, WaitInv(P), NEW t \in Threads, ThreadResume(t)
  PROVE  WaitInv(P)'
<1>1. /\ tmr' \in [Threads -> BOOLEAN] /\ ttmr' \in [Threads -> BOOLEAN]
      /\ stat' = [stat EXCEPT ![t] = IF ReadyOK(t) THEN "READY" ELSE @]
      /\ UNCHANGED <<error, isr, halted, lock, alive, pc, on, timed, job, wasted>>
  BY DEF WaitInv, WaitTypeOK, ThreadTypeOK, ThreadResume, ThreadReady
<1>2. CASE ReadyOK(t)
  <2>1. /\ susp' = [l \in Lists |-> ListRemove(susp[l], t)] /\ stat'[t] # "SUSPEND"
        /\ \A v \in Threads \ {t} : stat'[v] = stat[v]
    BY <1>1, <1>2 DEF WaitInv, WaitTypeOK, ThreadTypeOK, ThreadResume
  <2>2. susp' \in [Lists -> Seq(Threads)] /\ SleepInv' /\ HolderInv' /\ SleepersQueued'
    BY <1>1, <2>1, RemoveKeeps
  <2> QED
    BY <1>1, <2>2 DEF WaitInv, WaitTypeOK, ThreadTypeOK
<1>3. CASE ~ReadyOK(t)
  <2>1. susp' = susp /\ stat' = stat
    BY <1>1, <1>3 DEF WaitInv, WaitTypeOK, ThreadTypeOK, ThreadResume
  <2> QED
    BY <1>1, <2>1 DEF WaitInv, WaitTypeOK, ThreadTypeOK, SleepInv, HolderInv, SleepersQueued
<1> QED
  BY <1>2, <1>3

(* Timers, timeouts and errors.                                            *)
LEMMA WaitStepKeeps ==
  ASSUME NEW P, WaitInv(P), WaitStep
  PROVE  WaitInv(P)'
<1>1. ASSUME NEW t \in Threads, Expire(t) PROVE WaitInv(P)'
  <2>1. /\ tmr' = [tmr EXCEPT ![t] = FALSE] /\ isr' = t
        /\ UNCHANGED <<stat, ttmr, error, halted, susp, lock, alive, pc, on, timed, job, wasted>>
    BY <1>1 DEF Expire, TimerExpire, waitVars
  <2> QED
    BY <2>1 DEF WaitInv, WaitTypeOK, ThreadTypeOK, SleepInv, HolderInv, SleepersQueued
<1>2. CASE Timeout
  <2>1. /\ isr \in Threads /\ stat' = [stat EXCEPT ![isr] = "READY"]
        /\ error' = [error EXCEPT ![isr] = "ETIMEOUT"] /\ isr' = NoThread
        /\ susp' = [l \in Lists |-> ListRemove(susp[l], isr)]
        /\ UNCHANGED <<ttmr, tmr, halted, lock, alive, pc, on, timed, job, wasted>>
    BY <1>2 DEF WaitInv, WaitTypeOK, ThreadTypeOK, Timeout, ThreadTimeout
  <2>2. stat'[isr] # "SUSPEND" /\ \A v \in Threads \ {isr} : stat'[v] = stat[v]
    BY <2>1 DEF WaitInv, WaitTypeOK, ThreadTypeOK
  <2>3. susp' \in [Lists -> Seq(Threads)] /\ SleepInv' /\ HolderInv' /\ SleepersQueued'
    BY <2>1, <2>2, RemoveKeeps
  <2>4. ThreadTypeOK'
    BY <2>1 DEF WaitInv, WaitTypeOK, ThreadTypeOK, Errors
  <2> QED
    BY <2>1, <2>3, <2>4 DEF WaitInv, WaitTypeOK
<1>3. CASE TimeoutAssertFails
  <2>1. /\ halted' = TRUE
        /\ UNCHANGED <<stat, ttmr, tmr, error, isr, susp, lock, alive, pc, on, timed, job, wasted>>
    BY <1>3 DEF TimeoutAssertFails, ThreadTimeoutAssertFails, waitVars
  <2> QED
    BY <2>1 DEF WaitInv, WaitTypeOK, ThreadTypeOK, SleepInv, HolderInv, SleepersQueued
<1> QED
  BY <1>1, <1>2, <1>3, ArmKeeps, ReturnErrorKeeps DEF WaitStep

-------------------------------------------------------------------------------
(* Wake-ups.                                                               *)

(* ItemsClaimed at any time, whoever has the spinlock.                     *)
Claim(l, n) == susp[l] # <<>> => n <= Cardinality(Woken(l)) + wasted[l]

(* A step that puts nobody on an empty list and after which all but t who  *)
(* were woken still are.                                                   *)
GrowsBut(t, l) == /\ susp'[l] # <<>> => susp[l] # <<>>
                  /\ wasted[l] <= wasted'[l]
                  /\ Woken(l) \ {t} \subseteq Woken(l)'

(* Sets of threads can be counted.                                         *)
LEMMA ThreadsCounted ==
  ASSUME NEW A \in SUBSET Threads
  PROVE  IsFiniteSet(A) /\ Cardinality(A) \in Nat
BY IpcThreadsAssumption, FS_Subset, FS_CardinalityType

(* After such a step n items are claimed if they were before, and one      *)
(* less if t was one who had been woken.                                   *)
LEMMA ClaimKept ==
  ASSUME NEW P, WaitTypeOK(P), WaitTypeOK(P)', NEW l \in Lists, NEW t, GrowsBut(t, l),
         NEW n \in Int, Claim(l, n), NEW m \in Int, m <= n, t \in Woken(l) => m < n
  PROVE  susp'[l] # <<>> => m <= Cardinality(Woken(l)') + wasted'[l]
<1> DEFINE old == Woken(l)
           new == Woken(l)'
<1>1. old \in SUBSET Threads /\ new \in SUBSET Threads
  BY DEF Woken
<1>2. wasted[l] \in Nat /\ wasted'[l] \in Nat /\ wasted[l] <= wasted'[l]
  BY IpcBoundAssumption DEF WaitTypeOK, GrowsBut
<1>3. susp'[l] # <<>> => n <= Cardinality(old) + wasted[l]
  BY DEF Claim, GrowsBut
<1>4. old \ {t} \subseteq new /\ (t \in old => m < n)
  BY DEF GrowsBut
<1> HIDE DEF old, new
<1>5. /\ IsFiniteSet(old) /\ Cardinality(old) \in Nat
      /\ IsFiniteSet(new) /\ Cardinality(new) \in Nat
  BY <1>1, ThreadsCounted
<1>6. Cardinality(old \ {t}) = IF t \in old THEN Cardinality(old) - 1 ELSE Cardinality(old)
  BY <1>5, FS_RemoveElement
<1>7. Cardinality(old \ {t}) <= Cardinality(new)
  BY <1>4, <1>5, FS_Subset
<1>8. susp'[l] # <<>> => m <= Cardinality(new) + wasted'[l]
  BY <1>2, <1>3, <1>4, <1>5, <1>6, <1>7
<1> QED
  BY <1>8 DEF new

(* Timers, timeouts and errors take no wake-up away.                       *)
LEMMA WaitStepGrows ==
  ASSUME NEW P, WaitInv(P), WaitStep, NEW l \in Lists
  PROVE  GrowsBut(NoThread, l)
<1>0. wasted[l] \in Nat /\ susp[l] \in Seq(Threads) /\ Unique(susp[l])
  BY IpcBoundAssumption DEF WaitInv, WaitTypeOK, SleepersQueued
<1>1. ASSUME NEW t \in Threads, Arm(t) PROVE GrowsBut(NoThread, l)
  BY <1>0, <1>1 DEF WaitInv, WaitTypeOK, Arm, Goto, GrowsBut, Woken
<1>2. ASSUME NEW t \in Threads, ReturnError(t) PROVE GrowsBut(NoThread, l)
  BY <1>0, <1>2 DEF WaitInv, WaitTypeOK, ThreadTypeOK, ReturnError, Return, Goto, GrowsBut, Woken
<1>3. ASSUME NEW t \in Threads, Expire(t) PROVE GrowsBut(NoThread, l)
  BY <1>0, <1>3 DEF Expire, TimerExpire, waitVars, GrowsBut, Woken
<1>4. CASE Timeout
  <2>1. susp'[l] # <<>> => susp[l] # <<>>
    <3>1. ListRemove(<<>>, isr) = <<>>
      BY DEF ListRemove
    <3> QED
      BY <1>4, <3>1 DEF Timeout
  <2>2. Woken(l) \subseteq Woken(l)'
    BY <1>4 DEF WaitInv, WaitTypeOK, ThreadTypeOK, Timeout, ThreadTimeout, Woken
  <2>3. wasted'[l] = wasted[l]
    BY <1>4 DEF Timeout
  <2> QED
    BY <1>0, <2>1, <2>2, <2>3 DEF GrowsBut
<1>5. CASE TimeoutAssertFails
  BY <1>0, <1>5 DEF TimeoutAssertFails, ThreadTimeoutAssertFails, waitVars, GrowsBut, Woken
<1> QED
  BY <1>1, <1>2, <1>3, <1>4, <1>5 DEF WaitStep

(* Nor does rt_thread_resume.                                              *)
LEMMA ThreadResumeGrows ==
  ASSUME NEW P, WaitInv(P), NEW t \in Threads, ThreadResume(t), NEW l \in Lists
  PROVE  GrowsBut(NoThread, l)
<1>0. wasted[l] \in Nat /\ wasted' = wasted
  BY IpcBoundAssumption DEF WaitInv, WaitTypeOK, ThreadResume
<1>1. susp'[l] # <<>> => susp[l] # <<>>
  <2>1. ListRemove(<<>>, t) = <<>>
    BY DEF ListRemove
  <2> QED
    BY <2>1 DEF ThreadResume
<1>2. Woken(l) \subseteq Woken(l)'
  BY DEF WaitInv, WaitTypeOK, ThreadTypeOK, ThreadResume, ThreadReady, Woken
<1> QED
  BY <1>0, <1>1, <1>2 DEF GrowsBut

(* A call that ends takes at most the wake-up of its own thread.           *)
LEMMA LeaveGrows ==
  ASSUME NEW P, WaitInv(P), NEW t \in Threads, Leave(t), NEW l \in Lists
  PROVE  GrowsBut(t, l)
BY IpcBoundAssumption
   DEF WaitInv, WaitTypeOK, Leave, Return, Goto, threadVars, GrowsBut, Woken

(* So does one that goes to sleep, on the lists it does not go to.         *)
LEMMA SleepGrows ==
  ASSUME NEW P, WaitInv(P), NEW t \in Threads, NEW k \in Lists, NEW finite, NEW err,
         Sleep(t, k, finite, err), NEW l \in Lists \ {k}
  PROVE  GrowsBut(t, l)
<1>1. susp'[l] = susp[l] /\ wasted'[l] = wasted[l] /\ wasted[l] \in Nat
  BY IpcBoundAssumption DEF WaitInv, WaitTypeOK, Sleep
<1>2. Woken(l) \ {t} \subseteq Woken(l)'
  BY DEF WaitInv, WaitTypeOK, ThreadTypeOK, Sleep, SuspendSelf, Goto, Woken
<1> QED
  BY <1>1, <1>2 DEF GrowsBut

(* A dequeue takes no wake-up away.                                        *)
LEMMA DequeueGrows ==
  ASSUME NEW P, WaitInv(P), NEW k \in Lists, NEW err, NEW cost \in Nat, Dequeue(k, err, cost),
         NEW t \in Threads, NEW l \in Lists,
         \A u \in Threads \ {t} : pc'[u] = pc[u] /\ on'[u] = on[u]
  PROVE  GrowsBut(t, l)
<1> DEFINE h == Head(susp[k])
<1>0. wasted \in [Lists -> Nat] /\ MaxWasted \in Nat /\ \A x \in Lists : wasted[x] <= MaxWasted
  BY IpcBoundAssumption DEF WaitInv, WaitTypeOK
<1>1. /\ susp'[l] # <<>> => susp[l] # <<>>
      /\ wasted[l] <= wasted'[l]
      /\ \A u \in Threads : stat[u] = "READY" => stat'[u] = "READY" /\ error'[u] = error[u]
  <2>1. CASE susp[k] = <<>> /\ UNCHANGED <<susp, stat, ttmr, tmr, error, wasted>>
    BY <1>0, <2>1
  <2>2. CASE /\ DequeueOK(k)
             /\ h \in Threads /\ h \in Sleepers(k)
             /\ susp' = [susp EXCEPT ![k] = Tail(susp[k])]
             /\ stat' = [stat EXCEPT ![h] = "READY"]
             /\ error' = [error EXCEPT ![h] = err]
             /\ UNCHANGED wasted
    <3>1. susp'[l] # <<>> => susp[l] # <<>>
      BY <2>2 DEF WaitInv, WaitTypeOK, DequeueOK
    <3> HIDE DEF h
    <3>2. \A u \in Threads : stat[u] = "READY" => stat'[u] = "READY" /\ error'[u] = error[u]
      BY <2>2 DEF WaitInv, WaitTypeOK, ThreadTypeOK, Sleepers
    <3> QED
      BY <1>0, <2>2, <3>1, <3>2
  <2>3. CASE /\ susp[k] # <<>> /\ ~DequeueOK(k)
             /\ UNCHANGED <<susp, stat, error>>
             /\ wasted' = [wasted EXCEPT ![k] = IF wasted[k] + cost > MaxWasted THEN MaxWasted
                                                ELSE wasted[k] + cost]
    BY <1>0, <2>3
  <2> QED
    BY <2>1, <2>2, <2>3, DequeueCases
<1>2. Woken(l) \ {t} \subseteq Woken(l)'
  BY <1>1 DEF Woken
<1> QED
  BY <1>1, <1>2 DEF GrowsBut

(* The end of a call that wakes one of l makes one more item claimed.      *)
LEMMA ClaimWoken ==
  ASSUME NEW P, WaitInv(P), WaitInv(P)', NEW t \in Threads, NEW l \in Lists,
         LeaveAndWake(t, l), lock = NoThread, stat[t] = "READY", t \notin Woken(l),
         NEW n \in Nat, n < MaxWasted, Claim(l, n)
  PROVE  susp'[l] # <<>> => n + 1 <= Cardinality(Woken(l)') + wasted'[l]
<1> DEFINE old == Woken(l)
           new == Woken(l)'
           h == Head(susp[l])
<1>1. /\ Dequeue(l, "EOK", 1) /\ 1 \in Nat
      /\ \A u \in Threads \ {t} : pc'[u] = pc[u] /\ on'[u] = on[u]
  BY DEF WaitInv, WaitTypeOK, LeaveAndWake, Return, Goto
<1>2. GrowsBut(t, l)
  BY <1>1, DequeueGrows
<1>3. old \in SUBSET Threads /\ new \in SUBSET Threads /\ old \subseteq new
  BY <1>2 DEF Woken, GrowsBut
<1>4. /\ IsFiniteSet(old) /\ Cardinality(old) \in Nat
      /\ IsFiniteSet(new) /\ Cardinality(new) \in Nat
      /\ Cardinality(old) <= Cardinality(new)
  <2> HIDE DEF old, new
  <2> QED BY <1>3, ThreadsCounted, FS_Subset
<1>5. wasted \in [Lists -> Nat] /\ MaxWasted \in Nat
  BY IpcBoundAssumption DEF WaitInv, WaitTypeOK
<1>6. CASE susp[l] = <<>>
  BY <1>2, <1>6 DEF GrowsBut
<1>7. CASE /\ DequeueOK(l)
           /\ h \in Threads /\ h \in Sleepers(l)
           /\ susp' = [susp EXCEPT ![l] = Tail(susp[l])]
           /\ stat' = [stat EXCEPT ![h] = "READY"]
           /\ error' = [error EXCEPT ![h] = "EOK"]
           /\ UNCHANGED wasted
  <2>1. susp[l] # <<>>
    BY <1>7 DEF DequeueOK
  <2> HIDE DEF h
  <2>2. h \in Threads /\ stat[h] = "SUSPEND" /\ on[h] = l /\ h # t
    BY <1>7 DEF Sleepers
  <2>3. pc[h] = "waiting"
    BY <2>2, NoThreadAssumption DEF WaitInv, SleepInv, HolderInv
  <2>4. h \notin old /\ h \in new
    BY <1>1, <1>7, <2>2, <2>3 DEF WaitInv, WaitTypeOK, ThreadTypeOK, Woken
  <2> HIDE DEF old, new
  <2>5. Cardinality(old \cup {h}) = Cardinality(old) + 1
    BY <1>4, <2>4, FS_AddElement
  <2>6. Cardinality(old \cup {h}) <= Cardinality(new)
    <3>1. old \cup {h} \in SUBSET new
      BY <1>3, <2>4
    <3> QED
      BY <1>4, <3>1, FS_Subset
  <2>7. n <= Cardinality(old) + wasted[l]
    BY <2>1 DEF Claim, old
  <2>8. n + 1 <= Cardinality(new) + wasted'[l]
    BY <1>4, <1>5, <1>7, <2>5, <2>6, <2>7
  <2> QED
    BY <2>8 DEF new
<1>8. CASE /\ susp[l] # <<>> /\ ~DequeueOK(l)
           /\ UNCHANGED <<susp, stat, error>>
           /\ wasted' = [wasted EXCEPT ![l] = IF wasted[l] + 1 > MaxWasted THEN MaxWasted
                                              ELSE wasted[l] + 1]
  <2>1. n <= Cardinality(old) + wasted[l]
    BY <1>8 DEF Claim
  <2>2. wasted'[l] = IF wasted[l] + 1 > MaxWasted THEN MaxWasted ELSE wasted[l] + 1
    BY <1>5, <1>8
  <2> HIDE DEF old, new
  <2>3. n + 1 <= Cardinality(new) + wasted'[l]
    BY <1>4, <1>5, <2>1, <2>2
  <2> QED
    BY <2>3 DEF new
<1> QED
  BY <1>1, <1>6, <1>7, <1>8, DequeueCases

(* A dequeue of reset, detach or delete that gives no thread: the list is  *)
(* empty, or its first waiter is in its timeout.                           *)
LEMMA LastDequeue ==
  ASSUME NEW P, WaitInv(P), NEW l \in Lists, ~DequeueOK(l), Dequeue(l, "ERROR", MaxWasted)
  PROVE  /\ susp' = susp
         /\ susp[l] # <<>> => wasted'[l] = MaxWasted
         /\ \A k \in Lists \ {l} : wasted'[k] = wasted[k]
<1>1. MaxWasted \in Nat /\ wasted \in [Lists -> Nat]
  BY IpcBoundAssumption DEF WaitInv, WaitTypeOK
<1> QED
  BY <1>1, DequeueCases
===============================================================================

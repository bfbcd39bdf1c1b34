---------------------------- MODULE SemaphoreProofs ----------------------------
(***************************************************************************)
(* Safety of Semaphore for any number of threads, any priorities, either   *)
(* queueing flag and any mix of timeouts and control calls.                *)
(***************************************************************************)
EXTENDS Semaphore, WaitListProofs, FiniteSetTheorems

(* Where a thread holds the spinlock.                                      *)
Locked == {"arm", "release"} \cup ResumingAll

(* The spinlock excludes: a call past its first step holds it.             *)
LockInv == \A t \in Threads : pc[t] \in Locked => lock = t

(* Only a thread inside a take can be suspended.                           *)
RunningInv == \A t \in Threads : pc[t] \notin {"arm", "waiting"} => stat[t] = "READY"

(* The error number of a sleeper is not RT_EOK, so that only a waker that  *)
(* hands over a token makes the take succeed.                              *)
ErrorInv == \A t \in Threads : stat[t] = "SUSPEND" \/ pc[t] = "arm" => error[t] # "EOK"

(* SET_VLIMIT has rejected a limit of 0.                                   *)
ArgInv == \A t \in Threads : pc[t] = "vlimit" => arg # 0

(* The inductive invariant.                                                *)
Inv == /\ TypeOK
       /\ LockInv
       /\ RunningInv
       /\ ErrorInv
       /\ ArgInv
       /\ SuspendedIffQueued
       /\ NoTokenInvented

(* Handed is a finite set of threads, so its cardinality is a number.      *)
LEMMA HandedFinite == IsFiniteSet(Handed) /\ Cardinality(Handed) \in Nat
<1>1. Handed \subseteq Threads
  BY DEF Handed
<1> QED
  BY <1>1, ThreadsAssumption, FS_Subset, FS_CardinalityType

(* The same of the next state.                                             *)
LEMMA HandedFinitePrime == IsFiniteSet(Handed') /\ Cardinality(Handed') \in Nat
<1>1. Handed' \subseteq Threads
  BY DEF Handed
<1> QED
  BY <1>1, ThreadsAssumption, FS_Subset, FS_CardinalityType

(* Initially nobody waits and the credit is the value.                     *)
LEMMA InitInv == Init => Inv
<1> SUFFICES ASSUME Init PROVE Inv
  OBVIOUS
<1> USE DEF Init, ThreadInit
<1>1. TypeOK
  <2>1. ThreadTypeOK
    BY DEF ThreadTypeOK, Errors
  <2>2. susp \in Seq(Threads)
    BY EmptySeq
  <2>3. timed \in [Threads -> BOOLEAN] /\ alive \in BOOLEAN
    OBVIOUS
  <2>4. value \in 0..RT_SEM_VALUE_MAX /\ max_value \in 1..RT_SEM_VALUE_MAX
        /\ credit \in Nat /\ arg \in 0..RT_SEM_VALUE_MAX
    BY ValueAssumption
  <2>5. pc \in [Threads -> {"idle", "arm", "waiting", "release"} \cup ResumingAll]
    OBVIOUS
  <2> QED
    BY <2>1, <2>2, <2>3, <2>4, <2>5 DEF TypeOK
<1>2. LockInv /\ RunningInv /\ ErrorInv /\ ArgInv
  BY DEF LockInv, RunningInv, ErrorInv, ArgInv, Locked, ResumingAll
<1>3. SuspendedIffQueued
  BY DEF SuspendedIffQueued, Queued, Unique
<1>4. Handed = {}
  BY DEF Handed
<1>5. NoTokenInvented
  BY <1>4, FS_EmptySet, ValueAssumption DEF NoTokenInvented
<1> QED
  BY <1>1, <1>2, <1>3, <1>5 DEF Inv

(* If no more threads hold a token than before, the inequality survives.   *)
LEMMA FewerHanded ==
  ASSUME Handed' \subseteq Handed
  PROVE  Cardinality(Handed') <= Cardinality(Handed)
BY HandedFinite, FS_Subset

(* ... and with one more at most, the count grows by one at most.          *)
LEMMA OneMoreHanded ==
  ASSUME NEW h, Handed' \subseteq Handed \cup {h}
  PROVE  Cardinality(Handed') <= Cardinality(Handed) + 1
<1>1. /\ IsFiniteSet(Handed \cup {h})
      /\ Cardinality(Handed \cup {h}) <= Cardinality(Handed) + 1
  BY HandedFinite, FS_AddElement
<1>2. Cardinality(Handed') <= Cardinality(Handed \cup {h})
  BY <1>1, FS_Subset
<1>3. Cardinality(Handed \cup {h}) \in Nat
  BY <1>1, FS_CardinalityType
<1> QED
  BY <1>1, <1>2, <1>3, HandedFinite, HandedFinitePrime

(* A take that finds a token.                                              *)
LEMMA TakeAvailableInv ==
  ASSUME Inv, NEW t \in Threads, TakeAvailable(t)
  PROVE  Inv'
<1> USE DEF TakeAvailable, Enter, threadVars
<1>1. credit' \in Nat /\ value' + Cardinality(Handed) <= credit'
  BY HandedFinite, ValueAssumption DEF Inv, NoTokenInvented, TypeOK
<1>2. TypeOK'
  BY <1>1, ValueAssumption DEF Inv, TypeOK, ThreadTypeOK
<1>3. (LockInv /\ RunningInv /\ ErrorInv /\ ArgInv /\ SuspendedIffQueued)'
  BY DEF Inv, LockInv, RunningInv, ErrorInv, ArgInv, SuspendedIffQueued
<1>4. Handed' = Handed
  BY DEF Handed
<1>5. NoTokenInvented'
  BY <1>1, <1>4 DEF NoTokenInvented
<1> QED
  BY <1>2, <1>3, <1>5 DEF Inv

(* A take that goes to sleep.                                              *)
LEMMA TakeSuspendInv ==
  ASSUME Inv, NEW t \in Threads, NEW timeout, TakeSuspend(t, timeout)
  PROVE  Inv'
<1> USE DEF TakeSuspend, Enter, SuspendSelf, Goto
<1>1. t \notin Queued(susp) /\ Unique(susp) /\ susp \in Seq(Threads)
  BY DEF Inv, RunningInv, SuspendedIffQueued, TypeOK
<1>2. /\ susp' \in Seq(Threads)
      /\ Queued(susp') = Queued(susp) \cup {t}
      /\ Unique(susp')
  BY <1>1, EnqueueProperties
<1>3. TypeOK'
  BY <1>2 DEF Inv, TypeOK, ThreadTypeOK, Errors
<1>4. (LockInv /\ RunningInv /\ ErrorInv /\ ArgInv)'
  BY NoThreadAssumption
  DEF Inv, TypeOK, ThreadTypeOK, LockInv, RunningInv, ErrorInv, ArgInv, Locked, ResumingAll
<1>5. SuspendedIffQueued'
  BY <1>2 DEF Inv, TypeOK, ThreadTypeOK, SuspendedIffQueued
<1>6. Handed' \subseteq Handed
  BY DEF Handed, Inv, TypeOK, ThreadTypeOK
<1>7. NoTokenInvented'
  BY <1>6, FewerHanded, HandedFinite, HandedFinitePrime DEF Inv, TypeOK, NoTokenInvented
<1> QED
  BY <1>3, <1>4, <1>5, <1>7 DEF Inv

(* The sleeper's timer is started.                                         *)
LEMMA TakeArmInv ==
  ASSUME Inv, NEW t \in Threads, TakeArm(t)
  PROVE  Inv'
<1> USE DEF TakeArm, At, TimerStart, Goto
<1>1. TypeOK'
  BY DEF Inv, TypeOK, ThreadTypeOK
<1>2. (LockInv /\ RunningInv /\ ErrorInv /\ ArgInv)'
  BY NoThreadAssumption
  DEF Inv, TypeOK, ThreadTypeOK, LockInv, RunningInv, ErrorInv, ArgInv, Locked, ResumingAll
<1>3. SuspendedIffQueued'
  BY DEF Inv, SuspendedIffQueued
<1>4. Handed' \subseteq Handed
  BY DEF Handed, Inv, TypeOK, ThreadTypeOK, ErrorInv
<1>5. NoTokenInvented'
  BY <1>4, FewerHanded, HandedFinite, HandedFinitePrime DEF Inv, TypeOK, NoTokenInvented
<1> QED
  BY <1>1, <1>2, <1>3, <1>5 DEF Inv

(* A sleeper comes back; it consumes a token if it was handed one.         *)
LEMMA TakeReturnInv ==
  ASSUME Inv, NEW t \in Threads, TakeReturn(t)
  PROVE  Inv'
<1> USE DEF TakeReturn, At, Goto, threadVars
<1>1. (LockInv /\ RunningInv /\ ErrorInv /\ ArgInv)'
  BY DEF Inv, TypeOK, ThreadTypeOK, LockInv, RunningInv, ErrorInv, ArgInv, Locked, ResumingAll
<1>2. SuspendedIffQueued'
  BY DEF Inv, SuspendedIffQueued
<1>3. Handed' = Handed \ {t}
  BY DEF Handed, Inv, TypeOK
<1>4. Cardinality(Handed') = IF t \in Handed THEN Cardinality(Handed) - 1
                                              ELSE Cardinality(Handed)
  BY <1>3, HandedFinite, FS_RemoveElement
<1>5. t \in Handed <=> error[t] = "EOK"
  BY DEF Handed
<1>6. NoTokenInvented' /\ credit' \in Nat
  BY <1>4, <1>5, HandedFinite, HandedFinitePrime, ValueAssumption
  DEF Inv, TypeOK, NoTokenInvented
<1>7. TypeOK'
  BY <1>6 DEF Inv, TypeOK, ThreadTypeOK
<1> QED
  BY <1>1, <1>2, <1>6, <1>7 DEF Inv

(* What a dequeue does to the threads: the first waiter, if it can be made *)
(* ready, leaves the list and gets the error number; no other thread's     *)
(* status or error number changes.                                         *)
LEMMA DequeueEffect ==
  ASSUME Inv, NEW err \in Errors, Dequeue(err)
  PROVE  /\ ThreadTypeOK'
         /\ susp' \in Seq(Threads)
         /\ SuspendedIffQueued'
         /\ DequeueOK => /\ Head(susp) \in Threads
                         /\ stat[Head(susp)] = "SUSPEND"
                         /\ stat' = [stat EXCEPT ![Head(susp)] = "READY"]
                         /\ error' = [error EXCEPT ![Head(susp)] = err]
         /\ ~DequeueOK => stat' = stat /\ error' = error
<1>1. CASE susp = <<>>
  <2>1. UNCHANGED <<susp, stat, ttmr, tmr, error, isr, halted>> /\ ~DequeueOK
    BY <1>1 DEF Dequeue, DequeueOK
  <2> QED
    BY <2>1 DEF Inv, TypeOK, ThreadTypeOK, SuspendedIffQueued
<1>2. CASE susp # <<>>
  <2> DEFINE h == Head(susp)
  <2>1. /\ h \in Queued(susp)
        /\ Tail(susp) \in Seq(Threads)
        /\ Queued(Tail(susp)) = Queued(susp) \ {h}
        /\ Unique(Tail(susp))
    BY <1>2, TailProperties DEF Inv, TypeOK, SuspendedIffQueued
  <2>2. h \in Threads /\ stat[h] = "SUSPEND"
    BY <2>1 DEF Inv, SuspendedIffQueued
  <2>3. /\ ThreadReady(h)
        /\ susp' = IF DequeueOK THEN Tail(susp) ELSE susp
        /\ error' = IF DequeueOK THEN [error EXCEPT ![h] = err] ELSE error
        /\ UNCHANGED <<isr, halted>>
    BY <1>2 DEF Dequeue
  <2>4. DequeueOK <=> ReadyOK(h)
    BY <1>2 DEF DequeueOK
  <2> HIDE DEF h
  <2>5. stat' = IF DequeueOK THEN [stat EXCEPT ![h] = "READY"] ELSE stat
    BY <2>2, <2>3, <2>4 DEF ThreadReady, Inv, TypeOK, ThreadTypeOK
  <2>6. tmr' \in [Threads -> BOOLEAN] /\ ttmr' \in [Threads -> BOOLEAN]
    BY <2>2, <2>3 DEF ThreadReady, Inv, TypeOK, ThreadTypeOK
  <2>7. ThreadTypeOK'
    BY <2>2, <2>3, <2>5, <2>6 DEF Inv, TypeOK, ThreadTypeOK
  <2>8. susp' \in Seq(Threads) /\ SuspendedIffQueued'
    BY <2>1, <2>2, <2>3, <2>5 DEF Inv, TypeOK, ThreadTypeOK, SuspendedIffQueued
  <2> QED
    BY <2>2, <2>3, <2>5, <2>7, <2>8 DEF h
<1> QED
  BY <1>1, <1>2

(* A release that finds nobody waiting.                                    *)
LEMMA ReleaseIncrementInv ==
  ASSUME Inv, NEW t \in Threads, ReleaseIncrement(t)
  PROVE  Inv'
<1> USE DEF ReleaseIncrement, Enter, threadVars
<1>1. TypeOK'
  BY ValueAssumption DEF Inv, TypeOK, ThreadTypeOK
<1>2. (LockInv /\ RunningInv /\ ErrorInv /\ ArgInv /\ SuspendedIffQueued)'
  BY DEF Inv, LockInv, RunningInv, ErrorInv, ArgInv, SuspendedIffQueued
<1>3. Handed' = Handed
  BY DEF Handed
<1>4. NoTokenInvented'
  BY <1>3, HandedFinite, ValueAssumption DEF Inv, TypeOK, NoTokenInvented
<1> QED
  BY <1>1, <1>2, <1>4 DEF Inv

(* A call that has taken the spinlock and done nothing else yet.           *)
LEMMA EnterInv ==
  ASSUME Inv, NEW t \in Threads, NEW where \in {"release"} \cup ResumingAll,
         Enter(t), lock' = t, Goto(t, where), arg' \in 0..RT_SEM_VALUE_MAX,
         where = "vlimit" => arg' # 0,
         UNCHANGED <<threadVars, value, max_value, susp, alive, timed, credit>>
  PROVE  Inv'
<1> USE DEF Enter, Goto, threadVars
<1>1. TypeOK'
  BY DEF Inv, TypeOK, ThreadTypeOK, ResumingAll
<1>2. (LockInv /\ RunningInv /\ ErrorInv /\ ArgInv)'
  BY NoThreadAssumption
  DEF Inv, TypeOK, ThreadTypeOK, LockInv, RunningInv, ErrorInv, ArgInv, Locked, ResumingAll
<1>3. SuspendedIffQueued'
  BY DEF Inv, SuspendedIffQueued
<1>4. Handed' \subseteq Handed
  BY DEF Handed, Inv, TypeOK, ResumingAll
<1>5. NoTokenInvented'
  BY <1>4, FewerHanded, HandedFinite, HandedFinitePrime DEF Inv, TypeOK, NoTokenInvented
<1> QED
  BY <1>1, <1>2, <1>3, <1>5 DEF Inv

(* A release that dequeues, or fails to: it adds one to the credit and     *)
(* hands over one token at most.                                           *)
LEMMA ReleaseDequeueInv ==
  ASSUME Inv, NEW t \in Threads, ReleaseDequeue(t)
  PROVE  Inv'
<1> USE DEF ReleaseDequeue, At, Goto
<1>1. /\ ThreadTypeOK'
      /\ susp' \in Seq(Threads)
      /\ SuspendedIffQueued'
      /\ DequeueOK => /\ Head(susp) \in Threads
                      /\ stat[Head(susp)] = "SUSPEND"
                      /\ stat' = [stat EXCEPT ![Head(susp)] = "READY"]
                      /\ error' = [error EXCEPT ![Head(susp)] = "EOK"]
      /\ ~DequeueOK => stat' = stat /\ error' = error
  <2>1. "EOK" \in Errors
    BY DEF Errors
  <2> QED BY <2>1, DequeueEffect
<1>2. TypeOK'
  BY <1>1 DEF Inv, TypeOK
<1>3. lock = t /\ \A u \in Threads : u # t => pc[u] \notin Locked
  BY DEF Inv, LockInv, Locked
<1>4. LockInv'
  BY <1>3 DEF Inv, TypeOK, LockInv, Locked, ResumingAll
<1>5. ArgInv'
  BY DEF Inv, TypeOK, ArgInv
<1>6. RunningInv' /\ ErrorInv'
  BY <1>1, <1>3 DEF Inv, TypeOK, ThreadTypeOK, RunningInv, ErrorInv, Locked
<1>7. Handed' \subseteq Handed \cup {Head(susp)}
  BY <1>1 DEF Inv, TypeOK, ThreadTypeOK, Handed
<1>8. Cardinality(Handed') <= Cardinality(Handed) + 1
  BY <1>7, OneMoreHanded
<1>9. credit' = credit + 1 /\ value' = value
  OBVIOUS
<1>10. NoTokenInvented'
  BY <1>8, <1>9, HandedFinite, HandedFinitePrime DEF Inv, TypeOK, NoTokenInvented
<1> QED
  BY <1>1, <1>2, <1>4, <1>5, <1>6, <1>10 DEF Inv

(* A waiter sent away with RT_ERROR.                                       *)
LEMMA ResumeAllStepInv ==
  ASSUME Inv, NEW t \in Threads, ResumeAllStep(t)
  PROVE  Inv'
<1> USE DEF ResumeAllStep
<1>1. /\ ThreadTypeOK'
      /\ susp' \in Seq(Threads)
      /\ SuspendedIffQueued'
      /\ Head(susp) \in Threads
      /\ stat[Head(susp)] = "SUSPEND"
      /\ stat' = [stat EXCEPT ![Head(susp)] = "READY"]
      /\ error' = [error EXCEPT ![Head(susp)] = "ERROR"]
  <2>1. "ERROR" \in Errors
    BY DEF Errors
  <2> QED BY <2>1, DequeueEffect
<1>2. TypeOK' /\ LockInv'
  BY <1>1 DEF Inv, TypeOK, LockInv
<1>3. RunningInv' /\ ErrorInv' /\ ArgInv'
  BY <1>1 DEF Inv, TypeOK, ThreadTypeOK, RunningInv, ErrorInv, ArgInv
<1>4. Handed' \subseteq Handed
  BY <1>1 DEF Inv, TypeOK, ThreadTypeOK, Handed
<1>5. NoTokenInvented'
  BY <1>4, FewerHanded, HandedFinite, HandedFinitePrime DEF Inv, TypeOK, NoTokenInvented
<1> QED
  BY <1>1, <1>2, <1>3, <1>5 DEF Inv

(* The control call or detach takes effect.                                *)
LEMMA ResumeAllDoneInv ==
  ASSUME Inv, NEW t \in Threads, ResumeAllDone(t)
  PROVE  Inv'
<1> USE DEF ResumeAllDone, Goto
<1>1. /\ ThreadTypeOK'
      /\ susp' \in Seq(Threads)
      /\ SuspendedIffQueued'
      /\ stat' = stat /\ error' = error
  <2>1. "ERROR" \in Errors
    BY DEF Errors
  <2> QED BY <2>1, DequeueEffect
<1>2. pc[t] = "vlimit" => arg \in 1..RT_SEM_VALUE_MAX
  BY ValueAssumption DEF Inv, ArgInv, TypeOK
<1>3. Handed' = Handed
  BY <1>1 DEF Inv, TypeOK, Handed, ResumingAll
<1>4. NoTokenInvented' /\ credit' \in Nat
  BY <1>3, HandedFinite, ValueAssumption DEF Inv, TypeOK, NoTokenInvented
<1>5. value' \in 0..RT_SEM_VALUE_MAX /\ max_value' \in 1..RT_SEM_VALUE_MAX
  BY <1>2 DEF Inv, TypeOK
<1>6. TypeOK'
  BY <1>1, <1>4, <1>5, ValueAssumption DEF Inv, TypeOK
<1>7. \A u \in Threads : u # t => pc[u] \notin Locked
  BY DEF Inv, LockInv, Locked
<1>8. (LockInv /\ RunningInv /\ ErrorInv /\ ArgInv)'
  BY <1>1, <1>7
  DEF Inv, TypeOK, ThreadTypeOK, LockInv, RunningInv, ErrorInv, ArgInv, Locked, ResumingAll
<1> QED
  BY <1>1, <1>4, <1>6, <1>8 DEF Inv

(* A timer expires: only the timer changes.                                *)
LEMMA ExpireInv ==
  ASSUME Inv, NEW t \in Threads, Expire(t)
  PROVE  Inv'
<1> USE DEF Expire, TimerExpire, semVars
<1>1. TypeOK'
  BY DEF Inv, TypeOK, ThreadTypeOK
<1>2. (LockInv /\ RunningInv /\ ErrorInv /\ ArgInv)'
  BY DEF Inv, LockInv, RunningInv, ErrorInv, ArgInv
<1>3. SuspendedIffQueued' /\ Handed' = Handed
  BY DEF Inv, SuspendedIffQueued, Handed
<1> QED
  BY <1>1, <1>2, <1>3 DEF Inv, NoTokenInvented

(* A timeout wakes its thread, with an error number that is not RT_EOK.    *)
LEMMA TimeoutInv ==
  ASSUME Inv, Timeout
  PROVE  Inv'
<1> USE DEF Timeout, ThreadTimeout
<1>1. isr \in Threads
  BY DEF Inv, TypeOK, ThreadTypeOK
<1>2. /\ susp' \in Seq(Threads)
      /\ Queued(susp') = Queued(susp) \ {isr}
      /\ Unique(susp')
  BY ListRemoveProperties DEF Inv, TypeOK, SuspendedIffQueued
<1>3. TypeOK'
  BY <1>1, <1>2 DEF Inv, TypeOK, ThreadTypeOK, Errors
<1>4. SuspendedIffQueued'
  BY <1>1, <1>2 DEF Inv, TypeOK, ThreadTypeOK, SuspendedIffQueued
<1>5. (LockInv /\ RunningInv /\ ErrorInv /\ ArgInv)'
  BY <1>1 DEF Inv, TypeOK, ThreadTypeOK, LockInv, RunningInv, ErrorInv, ArgInv
<1>6. Handed' \subseteq Handed
  BY <1>1 DEF Inv, TypeOK, ThreadTypeOK, Handed
<1>7. NoTokenInvented'
  BY <1>6, FewerHanded, HandedFinite, HandedFinitePrime DEF Inv, TypeOK, NoTokenInvented
<1> QED
  BY <1>3, <1>4, <1>5, <1>7 DEF Inv

(* rt_thread_resume wakes a thread without a token.                        *)
LEMMA ThreadResumeInv ==
  ASSUME Inv, NEW t \in Threads, ThreadResume(t)
  PROVE  Inv'
<1> USE DEF ThreadResume
<1>1. /\ ListRemove(susp, t) \in Seq(Threads)
      /\ Queued(ListRemove(susp, t)) = Queued(susp) \ {t}
      /\ Unique(ListRemove(susp, t))
  BY ListRemoveProperties DEF Inv, TypeOK, SuspendedIffQueued
<1>2. stat' = [stat EXCEPT ![t] = IF ReadyOK(t) THEN "READY" ELSE stat[t]]
  BY DEF ThreadReady
<1>3. tmr' \in [Threads -> BOOLEAN] /\ ttmr' \in [Threads -> BOOLEAN]
  BY DEF ThreadReady, Inv, TypeOK, ThreadTypeOK
<1>4. TypeOK'
  BY <1>1, <1>2, <1>3 DEF Inv, TypeOK, ThreadTypeOK
<1>5. SuspendedIffQueued'
  BY <1>1, <1>2 DEF Inv, TypeOK, ThreadTypeOK, SuspendedIffQueued
<1>6. (LockInv /\ RunningInv /\ ErrorInv /\ ArgInv)'
  BY <1>2 DEF Inv, TypeOK, ThreadTypeOK, LockInv, RunningInv, ErrorInv, ArgInv
<1>7. Handed' \subseteq Handed
  BY <1>2 DEF Inv, TypeOK, ThreadTypeOK, Handed, ErrorInv
<1>8. NoTokenInvented'
  BY <1>7, FewerHanded, HandedFinite, HandedFinitePrime DEF Inv, TypeOK, NoTokenInvented
<1> QED
  BY <1>4, <1>5, <1>6, <1>8 DEF Inv

(* The cast gives a number that fits.                                      *)
LEMMA CastRange ==
  ASSUME NEW v \in Values
  PROVE  Cast(v) \in 0..RT_SEM_VALUE_MAX
BY ValueAssumption DEF Cast, Values

(* SET_VLIMIT that has nobody to resume only stores the limit.             *)
LEMMA SetVlimitInv ==
  ASSUME Inv, NEW t \in Threads, NEW v \in Values, SetVlimit(t, v)
  PROVE  Inv'
<1> DEFINE c == Cast(v)
<1>0. c \in 1..RT_SEM_VALUE_MAX
  BY CastRange, ValueAssumption DEF SetVlimit
<1>1. CASE c < value /\ susp # <<>>
  <2>1. /\ Enter(t) /\ lock' = t /\ arg' = c /\ Goto(t, "vlimit")
        /\ UNCHANGED <<threadVars, value, max_value, susp, alive, timed, credit>>
    BY <1>1 DEF SetVlimit, ApplyVlimit
  <2>2. c \in 0..RT_SEM_VALUE_MAX /\ c # 0 /\ "vlimit" \in {"release"} \cup ResumingAll
    BY <1>0, ValueAssumption DEF ResumingAll
  <2> HIDE DEF c
  <2> QED
    BY <2>1, <2>2, EnterInv
<1>2. CASE ~(c < value /\ susp # <<>>)
  <2>1. /\ max_value' = c
        /\ UNCHANGED <<threadVars, value, susp, lock, alive, pc, arg, timed, credit>>
    BY <1>2 DEF SetVlimit, ApplyVlimit
  <2> HIDE DEF c
  <2>2. TypeOK'
    BY <1>0, <2>1 DEF Inv, TypeOK, ThreadTypeOK, threadVars
  <2>3. (LockInv /\ RunningInv /\ ErrorInv /\ ArgInv)'
    BY <2>1 DEF Inv, LockInv, RunningInv, ErrorInv, ArgInv, threadVars
  <2>4. SuspendedIffQueued' /\ Handed' = Handed
    BY <2>1 DEF Inv, SuspendedIffQueued, Handed, threadVars
  <2> QED
    BY <2>1, <2>2, <2>3, <2>4 DEF Inv, NoTokenInvented
<1> QED
  BY <1>1, <1>2

(* Steps that change nothing the invariant mentions.                       *)
LEMMA StutterInv ==
  ASSUME Inv, UNCHANGED vars
  PROVE  Inv'
<1> USE DEF vars, threadVars, semVars
<1>1. (TypeOK /\ LockInv /\ RunningInv /\ ErrorInv /\ ArgInv)'
  BY DEF Inv, TypeOK, ThreadTypeOK, LockInv, RunningInv, ErrorInv, ArgInv
<1>2. SuspendedIffQueued' /\ Handed' = Handed
  BY DEF Inv, SuspendedIffQueued, Handed
<1> QED
  BY <1>1, <1>2 DEF Inv, NoTokenInvented

(* The failing assertion only stops the system.                            *)
LEMMA TimeoutAssertFailsInv ==
  ASSUME Inv, TimeoutAssertFails
  PROVE  Inv'
<1> USE DEF TimeoutAssertFails, ThreadTimeoutAssertFails, semVars
<1>1. (TypeOK /\ LockInv /\ RunningInv /\ ErrorInv /\ ArgInv)'
  BY DEF Inv, TypeOK, ThreadTypeOK, LockInv, RunningInv, ErrorInv, ArgInv
<1>2. SuspendedIffQueued' /\ Handed' = Handed
  BY DEF Inv, SuspendedIffQueued, Handed
<1> QED
  BY <1>1, <1>2 DEF Inv, NoTokenInvented

(* Every step of the specification preserves the invariant.                *)
LEMMA NextInv == Inv /\ [Next]_vars => Inv'
<1> SUFFICES ASSUME Inv, [Next]_vars PROVE Inv'
  OBVIOUS
<1>1. ASSUME NEW t \in Threads, Call(t)
      PROVE  Inv'
  <2>1. CASE TakeAvailable(t)
    BY <2>1, TakeAvailableInv
  <2>2. CASE \E timeout \in Timeouts : TakeSuspend(t, timeout)
    BY <2>2, TakeSuspendInv
  <2>3. CASE ReleaseIncrement(t)
    BY <2>3, ReleaseIncrementInv
  <2>4. CASE ReleaseCheck(t)
    <3>1. "release" \in {"release"} \cup ResumingAll /\ arg \in 0..RT_SEM_VALUE_MAX
      BY DEF Inv, TypeOK
    <3> QED
      BY <2>4, <3>1, EnterInv DEF ReleaseCheck
  <2>5. CASE \E v \in Values : Reset(t, v)
    <3>1. "reset" \in {"release"} \cup ResumingAll
      BY DEF ResumingAll
    <3> QED
      BY <2>5, <3>1, CastRange, EnterInv DEF Reset
  <2>6. CASE \E v \in Values : SetVlimit(t, v)
    BY <2>6, SetVlimitInv
  <2>7. CASE Detach(t)
    <3>1. "detach" \in {"release"} \cup ResumingAll /\ arg \in 0..RT_SEM_VALUE_MAX
      BY DEF Inv, TypeOK, ResumingAll
    <3> QED
      BY <2>7, <3>1, EnterInv DEF Detach
  <2> QED
    BY <1>1, <2>1, <2>2, <2>3, <2>4, <2>5, <2>6, <2>7 DEF Call
<1>2. ASSUME NEW t \in Threads, Continue(t)
      PROVE  Inv'
  BY <1>2, TakeArmInv, TakeReturnInv, ReleaseDequeueInv, ResumeAllStepInv,
     ResumeAllDoneInv
  DEF Continue
<1>3. ASSUME NEW t \in Threads, Expire(t)
      PROVE  Inv'
  BY <1>3, ExpireInv
<1>4. CASE Timeout
  BY <1>4, TimeoutInv
<1>5. CASE TimeoutAssertFails
  BY <1>5, TimeoutAssertFailsInv
<1>6. ASSUME NEW t \in Threads, ThreadResume(t)
      PROVE  Inv'
  BY <1>6, ThreadResumeInv
<1>7. CASE UNCHANGED vars
  BY <1>7, StutterInv
<1> QED
  BY <1>1, <1>2, <1>3, <1>4, <1>5, <1>6, <1>7 DEF Next

(* The invariant holds throughout.                                         *)
LEMMA SpecInv == Spec => []Inv
BY InitInv, NextInv, PTL DEF Spec

(* Every variable keeps its type; in particular the 16-bit value never     *)
(* leaves 0..RT_SEM_VALUE_MAX and the credit is never negative.            *)
THEOREM TypeCorrect == Spec => []TypeOK
<1>1. Inv => TypeOK
  BY DEF Inv
<1> QED
  BY <1>1, SpecInv, PTL

(* rt_sem_take never succeeds without a token that a release paid for,     *)
(* whatever timeouts, resets, detaches and resumes happen in between.      *)
THEOREM TokensCovered == Spec => []NoTokenInvented
<1>1. Inv => NoTokenInvented
  BY DEF Inv
<1> QED
  BY <1>1, SpecInv, PTL

(* The suspend list and the thread states agree in every reachable state.  *)
THEOREM QueueConsistent == Spec => []SuspendedIffQueued
<1>1. Inv => SuspendedIffQueued
  BY DEF Inv
<1> QED
  BY <1>1, SpecInv, PTL

-------------------------------------------------------------------------------
(* Callers that wait for ever: no timer runs, so that every waiter can be  *)
(* made ready, whichever section looks at it.                              *)
Untimed ==
  /\ isr = NoThread
  /\ \A t \in Threads : ~tmr[t] /\ ~ttmr[t] /\ pc[t] # "arm"

(* Without a timer the dequeue fails on an empty list only.                *)
LEMMA UntimedDequeue ==
  ASSUME Inv, Untimed, susp # <<>>
  PROVE  DequeueOK
<1>1. Head(susp) \in Queued(susp)
  BY TailProperties DEF Inv, TypeOK, SuspendedIffQueued
<1>2. Head(susp) \in Threads /\ stat[Head(susp)] = "SUSPEND"
  BY <1>1 DEF Inv, SuspendedIffQueued
<1> QED
  BY <1>2 DEF Untimed, DequeueOK, ReadyOK

(* A dequeue starts no timer.                                              *)
LEMMA DequeueTimers ==
  ASSUME Inv, Untimed, NEW err, Dequeue(err)
  PROVE  isr' = isr /\ \A t \in Threads : ~tmr'[t] /\ ~ttmr'[t]
<1>1. CASE susp = <<>>
  BY <1>1 DEF Dequeue, Untimed
<1>2. CASE susp # <<>>
  <2>1. ThreadReady(Head(susp)) /\ isr' = isr
    BY <1>2 DEF Dequeue
  <2> QED
    BY <2>1 DEF ThreadReady, Untimed, Inv, TypeOK, ThreadTypeOK
<1> QED
  BY <1>1, <1>2

(* If all callers wait for ever, no step starts a timer.                   *)
LEMMA UntimedStep ==
  ASSUME Timeouts \subseteq {"forever"}, Inv, Untimed, [Next]_vars
  PROVE  Untimed'
<1> USE DEF Untimed
<1>1. ASSUME NEW t \in Threads, Call(t)
      PROVE  Untimed'
  <2>1. CASE \E timeout \in Timeouts : TakeSuspend(t, timeout)
    BY <2>1 DEF TakeSuspend, SuspendSelf, Goto, Inv, TypeOK, ThreadTypeOK
  <2>2. CASE ~\E timeout \in Timeouts : TakeSuspend(t, timeout)
    <3>1. UNCHANGED threadVars
      BY <1>1, <2>2
      DEF Call, TakeAvailable, ReleaseIncrement, ReleaseCheck, Reset, SetVlimit,
          ApplyVlimit, Detach
    <3>2. \E where \in {"release"} \cup ResumingAll : UNCHANGED pc \/ Goto(t, where)
      BY <1>1, <2>2
      DEF Call, TakeAvailable, ReleaseIncrement, ReleaseCheck, Reset, SetVlimit,
          ApplyVlimit, Detach, ResumingAll
    <3> QED
      BY <3>1, <3>2 DEF threadVars, Goto, Inv, TypeOK, ResumingAll
  <2> QED
    BY <2>1, <2>2
<1>2. ASSUME NEW t \in Threads, Continue(t)
      PROVE  Untimed'
  <2>1. CASE TakeArm(t)
    BY <2>1 DEF TakeArm, At
  <2>2. CASE TakeReturn(t)
    BY <2>2 DEF TakeReturn, Goto, threadVars, Inv, TypeOK
  <2>3. CASE ReleaseDequeue(t)
    BY <2>3, DequeueTimers DEF ReleaseDequeue, Goto, Inv, TypeOK
  <2>4. CASE ResumeAllStep(t)
    BY <2>4, DequeueTimers DEF ResumeAllStep
  <2>5. CASE ResumeAllDone(t)
    BY <2>5, DequeueTimers DEF ResumeAllDone, Goto, Inv, TypeOK
  <2> QED
    BY <1>2, <2>1, <2>2, <2>3, <2>4, <2>5 DEF Continue
<1>3. ASSUME NEW t \in Threads, Expire(t)
      PROVE  Untimed'
  BY <1>3 DEF Expire, TimerExpire
<1>4. CASE Timeout \/ TimeoutAssertFails
  BY <1>4 DEF Timeout, ThreadTimeout, TimeoutAssertFails, ThreadTimeoutAssertFails
<1>5. ASSUME NEW t \in Threads, ThreadResume(t)
      PROVE  Untimed'
  BY <1>5 DEF ThreadResume, ThreadReady, Inv, TypeOK, ThreadTypeOK
<1>6. CASE UNCHANGED vars
  BY <1>6 DEF vars, threadVars, semVars
<1> QED
  BY <1>1, <1>2, <1>3, <1>4, <1>5, <1>6 DEF Next

(* ... and so throughout.                                                  *)
LEMMA SpecUntimed ==
  ASSUME Timeouts \subseteq {"forever"}
  PROVE  Spec => [](Inv /\ Untimed)
<1>1. Init => Untimed
  BY DEF Init, ThreadInit, Untimed
<1>2. Inv /\ Untimed /\ [Next]_vars => Untimed'
  BY UntimedStep
<1> QED
  BY <1>1, <1>2, SpecInv, PTL DEF Spec

(* The waiter that a release has seen is still there when it dequeues.     *)
ReleasePending == \A t \in Threads : pc[t] = "release" => susp # <<>>

(* A thread that a step wakes with a token, or that comes back with one,   *)
(* is all that Handed gains or loses.                                      *)
LEMMA ConservedCall ==
  ASSUME Inv, Untimed, ReleasePending, TokenConserved,
         NEW t \in Threads, Call(t)
  PROVE  ReleasePending' /\ TokenConserved'
<1>1. CASE \E timeout \in Timeouts : TakeSuspend(t, timeout)
  <2>1. Handed' = Handed
    BY <1>1 DEF TakeSuspend, Enter, SuspendSelf, Goto, Handed, Inv, TypeOK, ThreadTypeOK
  <2>2. susp' # <<>>
    <3>1. t \notin Queued(susp) /\ Unique(susp) /\ susp \in Seq(Threads)
      BY <1>1 DEF TakeSuspend, Enter, Inv, RunningInv, SuspendedIffQueued, TypeOK
    <3>2. t \in Queued(susp')
      BY <1>1, <3>1, EnqueueProperties DEF TakeSuspend
    <3> QED
      BY <3>2 DEF Queued
  <2> QED
    BY <1>1, <2>1, <2>2 DEF TakeSuspend, ReleasePending, TokenConserved
<1>2. CASE ~\E timeout \in Timeouts : TakeSuspend(t, timeout)
  <2>1. /\ UNCHANGED <<threadVars, susp>> /\ Enter(t)
        /\ \/ UNCHANGED <<value, credit>>
           \/ value' = value - 1 /\ credit' = credit - 1
           \/ value' = value + 1 /\ credit' = credit + 1
        /\ \/ UNCHANGED pc
           \/ Goto(t, "release") /\ susp # <<>>
           \/ Goto(t, "reset") \/ Goto(t, "vlimit") \/ Goto(t, "detach")
    BY <1>1, <1>2
    DEF Call, TakeAvailable, ReleaseIncrement, ReleaseCheck, Reset, SetVlimit,
        ApplyVlimit, Detach
  <2>2. Handed' = Handed
    BY <2>1 DEF Handed, Enter, Goto, threadVars, Inv, TypeOK
  <2>3. ReleasePending'
    BY <2>1 DEF ReleasePending, Goto, Inv, TypeOK
  <2> QED
    BY <2>1, <2>2, <2>3, HandedFinite DEF TokenConserved, Inv, TypeOK
<1> QED
  BY <1>1, <1>2

(* The same of the steps that continue a call.                             *)
LEMMA ConservedContinue ==
  ASSUME Inv, Untimed, ReleasePending, TokenConserved,
         NEW t \in Threads, Continue(t)
  PROVE  ReleasePending' /\ TokenConserved'
<1>1. CASE TakeArm(t)
  BY <1>1 DEF TakeArm, At, Untimed
<1>2. CASE TakeReturn(t)
  <2> USE DEF TakeReturn, At, Goto, threadVars
  <2>1. Handed' = Handed \ {t}
    BY <1>2 DEF Handed, Inv, TypeOK
  <2>2. t \in Handed <=> error[t] = "EOK"
    BY <1>2 DEF Handed
  <2>3. Cardinality(Handed') = IF t \in Handed THEN Cardinality(Handed) - 1
                                                ELSE Cardinality(Handed)
    BY <2>1, HandedFinite, FS_RemoveElement
  <2>4. TokenConserved'
    BY <1>2, <2>2, <2>3, HandedFinite DEF TokenConserved, Inv, TypeOK
  <2> QED
    BY <1>2, <2>4 DEF ReleasePending, Inv, TypeOK
<1>3. CASE ReleaseDequeue(t)
  <2> USE DEF ReleaseDequeue, At, Goto
  <2>1. susp # <<>>
    BY <1>3 DEF ReleasePending
  <2>2. DequeueOK
    BY <2>1, UntimedDequeue
  <2>3. /\ Head(susp) \in Threads
        /\ stat[Head(susp)] = "SUSPEND"
        /\ stat' = [stat EXCEPT ![Head(susp)] = "READY"]
        /\ error' = [error EXCEPT ![Head(susp)] = "EOK"]
    BY <1>3, <2>2, DequeueEffect DEF Errors
  <2>4. pc[Head(susp)] = "waiting"
    BY <2>3 DEF Inv, RunningInv, Untimed
  <2>5. pc' = [pc EXCEPT ![t] = "idle"] /\ pc[t] = "release"
    BY <1>3
  <2>6. Handed' = Handed \cup {Head(susp)} /\ Head(susp) \notin Handed
    <3> HIDE DEF ReleaseDequeue
    <3> QED BY <2>3, <2>4, <2>5 DEF Handed, Inv, TypeOK, ThreadTypeOK
  <2>7. Cardinality(Handed') = Cardinality(Handed) + 1
    BY <2>6, HandedFinite, FS_AddElement
  <2>8. TokenConserved'
    BY <1>3, <2>7, HandedFinite DEF TokenConserved, Inv, TypeOK
  <2>9. \A u \in Threads : pc'[u] # "release"
    BY <1>3, <2>5 DEF Inv, TypeOK, LockInv, Locked
  <2> QED
    BY <2>8, <2>9 DEF ReleasePending
<1>4. CASE ResumeAllStep(t)
  <2>1. /\ Head(susp) \in Threads
        /\ stat[Head(susp)] = "SUSPEND"
        /\ stat' = [stat EXCEPT ![Head(susp)] = "READY"]
        /\ error' = [error EXCEPT ![Head(susp)] = "ERROR"]
    BY <1>4, DequeueEffect DEF ResumeAllStep, Errors
  <2>2. Handed' = Handed
    BY <1>4, <2>1 DEF ResumeAllStep, Handed, Inv, TypeOK, ThreadTypeOK
  <2>3. \A u \in Threads : pc[u] # "release"
    BY <1>4 DEF ResumeAllStep, Inv, LockInv, Locked, ResumingAll
  <2> QED
    BY <1>4, <2>2, <2>3 DEF ResumeAllStep, TokenConserved, ReleasePending
<1>5. CASE ResumeAllDone(t)
  <2>1. stat' = stat /\ error' = error
    BY <1>5, DequeueEffect DEF ResumeAllDone, Errors
  <2>2. Handed' = Handed
    BY <1>5, <2>1 DEF ResumeAllDone, Goto, Handed, ResumingAll, Inv, TypeOK
  <2>3. \A u \in Threads : pc[u] # "release"
    BY <1>5 DEF ResumeAllDone, Inv, LockInv, Locked, ResumingAll
  <2>4. ReleasePending'
    BY <1>5, <2>3 DEF ResumeAllDone, Goto, ReleasePending, Inv, TypeOK
  <2> QED
    BY <1>5, <2>2, <2>4, HandedFinite DEF ResumeAllDone, TokenConserved
<1> QED
  BY <1>1, <1>2, <1>3, <1>4, <1>5 DEF Continue

(* "A release that returned RT_EOK is worth one take": with callers that   *)
(* wait for ever and nobody who resumes waiters from outside, no token is  *)
(* lost either.                                                            *)
THEOREM TokensConserved ==
  ASSUME Timeouts \subseteq {"forever"}, "resume" \notin Ops
  PROVE  Spec => []TokenConserved
<1> DEFINE I == ReleasePending /\ TokenConserved
<1>1. Init => I
  <2> SUFFICES ASSUME Init PROVE I
    OBVIOUS
  <2>1. Handed = {} /\ value = credit /\ value \in Nat
    BY ValueAssumption DEF Init, Handed
  <2> QED
    BY <2>1, FS_EmptySet DEF Init, ReleasePending, TokenConserved
<1>2. ASSUME Inv, Untimed, I, [Next]_vars
      PROVE  I'
  <2>1. ASSUME NEW t \in Threads, Expire(t)
        PROVE  I'
    BY <1>2, <2>1 DEF Expire, TimerExpire, Untimed
  <2>2. CASE Timeout \/ TimeoutAssertFails
    BY <1>2, <2>2
    DEF Timeout, ThreadTimeout, TimeoutAssertFails, ThreadTimeoutAssertFails, Untimed
  <2>3. CASE UNCHANGED vars
    <3>1. Handed' = Handed
      BY <2>3 DEF vars, threadVars, semVars, Handed
    <3> QED
      BY <1>2, <2>3, <3>1 DEF vars, semVars, ReleasePending, TokenConserved
  <2> QED
    BY <1>2, <2>1, <2>2, <2>3, ConservedCall, ConservedContinue DEF Next
<1> HIDE DEF I
<1>3. Inv /\ Untimed /\ I /\ [Next]_vars => I'
  BY <1>2
<1>4. I => TokenConserved
  BY DEF I
<1>5. Spec => [](Inv /\ Untimed)
  BY SpecUntimed
<1> QED
  BY <1>1, <1>3, <1>4, <1>5, PTL DEF Spec
(* Once empty, the list stays so while no take goes to sleep.              *)
LEMMA EmptyStays ==
  ASSUME Inv, susp = <<>>, [Next]_vars,
         ~\E t \in Threads, timeout \in Timeouts : TakeSuspend(t, timeout)
  PROVE  susp' = <<>>
<1>1. ASSUME NEW t \in Threads, Call(t)
      PROVE  susp' = <<>>
  BY <1>1 DEF Call, TakeAvailable, ReleaseIncrement, ReleaseCheck, Reset, SetVlimit,
              ApplyVlimit, Detach
<1>2. ASSUME NEW t \in Threads, Continue(t)
      PROVE  susp' = <<>>
  BY <1>2 DEF Continue, TakeArm, TakeReturn, ReleaseDequeue, ResumeAllStep, ResumeAllDone,
              Dequeue
<1>3. \A t : ListRemove(<<>>, t) = <<>>
  BY DEF ListRemove
<1>4. CASE Timeout \/ TimeoutAssertFails \/ \E t \in Threads : ThreadResume(t) \/ Expire(t)
  BY <1>3, <1>4 DEF Timeout, TimeoutAssertFails, ThreadResume, Expire, semVars
<1>5. CASE UNCHANGED vars
  BY <1>5 DEF vars, semVars
<1> QED
  BY <1>1, <1>2, <1>4, <1>5 DEF Next

(* With callers that wait for ever, detach and delete leave nobody behind  *)
(* on the list of the dead semaphore.                                      *)
THEOREM DetachWakesAll ==
  ASSUME Timeouts \subseteq {"forever"}
  PROVE  Spec => []NoWaiterLeftBehind
<1> DEFINE I == ~alive => susp = <<>>
<1>1. Init => I
  BY DEF Init
<1>2. ASSUME Inv, Untimed, I, [Next]_vars
      PROVE  I'
  <2>1. SUFFICES ASSUME ~alive'
                 PROVE  susp' = <<>>
    OBVIOUS
  <2>2. CASE ~alive
    <3>1. ~\E t \in Threads, timeout \in Timeouts : TakeSuspend(t, timeout)
      BY <2>2 DEF TakeSuspend, Enter
    <3> QED
      BY <1>2, <2>2, <3>1, EmptyStays
  <2>3. CASE alive
    <3>1. PICK t \in Threads : ResumeAllDone(t)
      BY <1>2, <2>1, <2>3
      DEF Next, Call, Continue, TakeAvailable, TakeSuspend, ReleaseIncrement, ReleaseCheck,
          Reset, SetVlimit, ApplyVlimit, Detach, TakeArm, TakeReturn, ReleaseDequeue,
          ResumeAllStep, Expire, Timeout, TimeoutAssertFails, ThreadResume, vars, semVars
    <3>2. susp = <<>>
      BY <1>2, <3>1, UntimedDequeue DEF ResumeAllDone
    <3> QED
      BY <3>1, <3>2 DEF ResumeAllDone, Dequeue
  <2> QED
    BY <2>2, <2>3
<1> HIDE DEF I
<1>3. Inv /\ Untimed /\ I /\ [Next]_vars => I'
  BY <1>2
<1>4. I => NoWaiterLeftBehind
  BY DEF I, NoWaiterLeftBehind, Queued
<1>5. Spec => [](Inv /\ Untimed)
  BY SpecUntimed
<1> QED
  BY <1>1, <1>3, <1>4, <1>5, PTL DEF Spec

(* A token and a sleeper never meet: a value is stored only over an empty  *)
(* list.  The reset stores one too, and finds the list empty unless a      *)
(* waiter is in its timeout.                                               *)
LEMMA BesideStep ==
  ASSUME Inv, value > 0 => susp = <<>>, [Next]_vars,
         \A t \in Threads : pc[t] = "reset" => Untimed
  PROVE  value' > 0 => susp' = <<>>
<1>1. SUFFICES ASSUME value' > 0
               PROVE  susp' = <<>>
  OBVIOUS
<1>2. CASE \E t \in Threads : ResumeAllDone(t) /\ pc[t] = "reset"
  <2>1. PICK t \in Threads : ResumeAllDone(t) /\ Untimed
    BY <1>2
  <2>2. susp = <<>>
    BY <2>1, UntimedDequeue DEF ResumeAllDone
  <2> QED
    BY <2>1, <2>2 DEF ResumeAllDone, Dequeue
<1>3. CASE \E t \in Threads, timeout \in Timeouts : TakeSuspend(t, timeout)
  BY <1>1, <1>3 DEF TakeSuspend
<1>4. CASE ~\E t \in Threads : ResumeAllDone(t) /\ pc[t] = "reset"
  <2>1. \/ value' = value
        \/ value' = value - 1
        \/ susp = <<>>
    <3>1. ASSUME NEW t \in Threads, Call(t)
          PROVE  value' = value \/ value' = value - 1 \/ susp = <<>>
      BY <3>1 DEF Call, TakeAvailable, TakeSuspend, ReleaseIncrement, ReleaseCheck,
                  Reset, SetVlimit, ApplyVlimit, Detach
    <3>2. ASSUME NEW t \in Threads, Continue(t)
          PROVE  value' = value
      BY <3>2, <1>4 DEF Continue, TakeArm, TakeReturn, ReleaseDequeue, ResumeAllStep,
                        ResumeAllDone
    <3>3. ASSUME NEW t \in Threads, Expire(t) \/ ThreadResume(t)
          PROVE  value' = value
      BY <3>3 DEF Expire, ThreadResume, semVars
    <3>4. CASE Timeout \/ TimeoutAssertFails \/ UNCHANGED vars
      BY <3>4 DEF Timeout, TimeoutAssertFails, vars, semVars
    <3> QED
      BY <3>1, <3>2, <3>3, <3>4 DEF Next
  <2>2. susp = <<>>
    BY <1>1, <2>1 DEF Inv, TypeOK
  <2> QED
    BY <1>3, <2>2, EmptyStays
<1> QED
  BY <1>2, <1>4

(* Nobody sleeps beside a token: in a semaphore that is not reset, for any *)
(* mix of timeouts, and with resets if all callers wait for ever.          *)
THEOREM TokensNotIgnored ==
  ASSUME "reset" \notin Ops \/ Timeouts \subseteq {"forever"}
  PROVE  Spec => []NoSleeperBesideToken
<1> DEFINE I == value > 0 => susp = <<>>
           NoReset == \A t \in Threads : pc[t] # "reset"
<1>1. Init => I
  BY DEF Init
<1>2. Inv /\ I /\ [Next]_vars /\ (NoReset \/ Untimed) => I'
  BY BesideStep
<1>3. I => NoSleeperBesideToken
  BY DEF NoSleeperBesideToken
<1>4. CASE Timeouts \subseteq {"forever"}
  <2>1. Spec => [](Inv /\ Untimed)
    BY <1>4, SpecUntimed
  <2> HIDE DEF I, NoReset
  <2> QED
    BY <1>1, <1>2, <1>3, <2>1, PTL DEF Spec
<1>5. CASE "reset" \notin Ops
  <2>1. Init => NoReset
    BY DEF Init
  <2>2. ASSUME Inv, NoReset, [Next]_vars
        PROVE  NoReset'
    <3> USE DEF Goto, Inv, TypeOK
    <3>1. ASSUME NEW t \in Threads, Call(t)
          PROVE  NoReset'
      BY <1>5, <2>2, <3>1
      DEF Call, TakeAvailable, TakeSuspend, ReleaseIncrement, ReleaseCheck, SetVlimit,
          ApplyVlimit, Detach
    <3>2. ASSUME NEW t \in Threads, Continue(t)
          PROVE  NoReset'
      BY <2>2, <3>2 DEF Continue, TakeArm, TakeReturn, ReleaseDequeue, ResumeAllStep,
                        ResumeAllDone
    <3>3. CASE UNCHANGED pc
      BY <2>2, <3>3
    <3> QED
      BY <2>2, <3>1, <3>2, <3>3
      DEF Next, Expire, ThreadResume, Timeout, TimeoutAssertFails, vars, semVars
  <2>3. Inv /\ NoReset /\ [Next]_vars => NoReset'
    BY <2>2
  <2> HIDE DEF I, NoReset
  <2> QED
    BY <1>1, <1>2, <1>3, <2>1, <2>3, SpecInv, PTL DEF Spec
<1> QED
  BY <1>4, <1>5
===============================================================================

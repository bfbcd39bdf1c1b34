------------------------------- MODULE Semaphore -------------------------------
(***************************************************************************)
(* rt_semaphore of rt-thread/src/ipc.c, with the thread timeout machinery  *)
(* it blocks on (module ThreadWait).                                       *)
(*                                                                         *)
(* A call runs under the semaphore's spinlock, but the suspend list is     *)
(* guarded by the scheduler lock, which the call takes and drops several   *)
(* times; the timeout of a waiter takes the scheduler lock only.  So a     *)
(* call is several steps here, one per section under the scheduler lock,   *)
(* and timeouts come in between.  A call that returns without changing     *)
(* anything (take with timeout 0 on value 0, release of a full semaphore)  *)
(* is a stuttering step.                                                   *)
(*                                                                         *)
(* credit is a history variable: the tokens that the results of the calls  *)
(* returned so far entitle the callers to.                                 *)
(***************************************************************************)
EXTENDS ThreadWait, FiniteSets

CONSTANTS
  Prio,               \* priority of every thread, 0 is the highest
  Flag,               \* RT_IPC_FLAG_FIFO or RT_IPC_FLAG_PRIO
  InitValue,          \* value given to rt_sem_init
  RT_SEM_VALUE_MAX,   \* 65535 in the code: max_value of a new semaphore
  Timeouts,           \* which timeouts callers pass: "forever", "timed"
  Ops,                \* calls besides take and release that callers make
  MaxCredit           \* bound: no release when this many tokens are out

ASSUME PrioAssumption == Prio \in [Threads -> Nat]
ASSUME ThreadsAssumption == IsFiniteSet(Threads)
ASSUME FlagAssumption == Flag \in {"FIFO", "PRIO"}
ASSUME ValueAssumption == RT_SEM_VALUE_MAX \in Nat \ {0}
                          /\ InitValue \in 0..RT_SEM_VALUE_MAX
                          /\ MaxCredit \in Nat
ASSUME CallsAssumption == /\ Timeouts \subseteq {"forever", "timed"}
                          /\ Ops \subseteq {"reset", "vlimit", "detach", "resume"}

VARIABLES
  value, max_value,   \* of struct rt_semaphore
  susp,               \* parent.suspend_thread
  lock,               \* holder of the semaphore's spinlock, or NoThread
  alive,              \* FALSE once rt_sem_detach / rt_sem_delete has returned
  pc,                 \* where in a call every thread is
  arg,                \* argument of the rt_sem_control call in progress
  timed,              \* the take in progress has a finite timeout
  credit

semVars == <<value, max_value, susp, lock, alive, pc, arg, timed, credit>>
vars == <<threadVars, semVars>>

ResumingAll == {"reset", "vlimit", "detach"}

(* Types; in particular the value never passes RT_SEM_VALUE_MAX, and the   *)
(* limit set by rt_sem_control is never 0.                                 *)
TypeOK ==
  /\ ThreadTypeOK
  /\ value \in 0..RT_SEM_VALUE_MAX
  /\ max_value \in 1..RT_SEM_VALUE_MAX
  /\ susp \in Seq(Threads)
  /\ lock \in Threads \cup {NoThread}
  /\ alive \in BOOLEAN
  /\ pc \in [Threads -> {"idle", "arm", "waiting", "release"} \cup ResumingAll]
  /\ arg \in 0..RT_SEM_VALUE_MAX
  /\ timed \in [Threads -> BOOLEAN]
  /\ credit \in Nat

Init ==
  /\ ThreadInit
  /\ value = InitValue
  /\ max_value = RT_SEM_VALUE_MAX
  /\ susp = <<>>
  /\ lock = NoThread
  /\ alive = TRUE
  /\ pc = [t \in Threads |-> "idle"]
  /\ arg = 0
  /\ timed = [t \in Threads |-> FALSE]
  /\ credit = InitValue

(* Threads that were resumed with RT_EOK and have not returned from take.  *)
Handed == {t \in Threads :
             pc[t] = "waiting" /\ stat[t] = "READY" /\ error[t] = "EOK"}

(* t, outside any call, enters one and gets the spinlock.                  *)
Enter(t) == ~halted /\ alive /\ pc[t] = "idle" /\ lock = NoThread

(* t continues the call it is in.                                          *)
At(t, where) == ~halted /\ pc[t] = where

Goto(t, where) == pc' = [pc EXCEPT ![t] = where]

-------------------------------------------------------------------------------
(* _rt_sem_take.                                                           *)

TakeAvailable(t) ==
  /\ Enter(t)
  /\ value > 0
  /\ value' = value - 1
  /\ credit' = credit - 1
  /\ UNCHANGED <<threadVars, max_value, susp, lock, alive, pc, arg, timed>>

(* Fault: thread->error says RT_EOK unless the waker says otherwise.       *)
TakeSuspendSaysOK(t, timeout) ==
  /\ Enter(t)
  /\ value = 0
  /\ error' = [error EXCEPT ![t] = "EOK"]
  /\ SuspendSelf(t)
  /\ susp' = SuspListEnqueue(susp, t, Flag, Prio)
  /\ timed' = [timed EXCEPT ![t] = timeout = "timed"]
  /\ Goto(t, IF timeout = "timed" THEN "arm" ELSE "waiting")
  /\ lock' = IF timeout = "timed" THEN t ELSE NoThread
  /\ UNCHANGED <<isr, halted, value, max_value, alive, arg, credit>>

TakeSuspend(t, timeout) ==
  /\ Enter(t)
  /\ value = 0
  /\ error' = [error EXCEPT ![t] = "EINTR"]
  /\ SuspendSelf(t)
  /\ susp' = SuspListEnqueue(susp, t, Flag, Prio)
  /\ timed' = [timed EXCEPT ![t] = timeout = "timed"]
  /\ Goto(t, IF timeout = "timed" THEN "arm" ELSE "waiting")
  /\ lock' = IF timeout = "timed" THEN t ELSE NoThread
  /\ UNCHANGED <<isr, halted, value, max_value, alive, arg, credit>>

(* Fault: the timer is not started.                                        *)
TakeNoTimer(t) ==
  /\ At(t, "arm")
  /\ Goto(t, "waiting")
  /\ lock' = NoThread
  /\ UNCHANGED threadVars
  /\ UNCHANGED <<value, max_value, susp, alive, arg, timed, credit>>

TakeArm(t) ==
  /\ At(t, "arm")
  /\ TimerStart(t)
  /\ Goto(t, "waiting")
  /\ lock' = NoThread
  /\ UNCHANGED <<stat, error, isr, halted>>
  /\ UNCHANGED <<value, max_value, susp, alive, arg, timed, credit>>

(* rt_schedule has come back to t, which reports thread->error.            *)
TakeReturn(t) ==
  /\ At(t, "waiting")
  /\ stat[t] = "READY"
  /\ credit' = IF error[t] = "EOK" THEN credit - 1 ELSE credit
  /\ timed' = [timed EXCEPT ![t] = FALSE]
  /\ Goto(t, "idle")
  /\ UNCHANGED <<threadVars, value, max_value, susp, lock, alive, arg>>

-------------------------------------------------------------------------------
(* rt_susp_list_dequeue on this semaphore's list, on behalf of a caller.   *)

(* It succeeds if the first waiter can be made ready.                      *)
DequeueOK == susp # <<>> /\ ReadyOK(Head(susp))

Dequeue(err) ==
  /\ UNCHANGED <<isr, halted>>
  /\ IF susp = <<>>
       THEN UNCHANGED <<susp, stat, ttmr, tmr, error>>
       ELSE /\ ThreadReady(Head(susp))
            /\ susp' = IF DequeueOK THEN Tail(susp) ELSE susp
            /\ error' = IF DequeueOK
                          THEN [error EXCEPT ![Head(susp)] = err]
                          ELSE error

-------------------------------------------------------------------------------
(* rt_sem_release.                                                         *)

(* Fault: the suspend list is not looked at.                               *)
ReleaseIgnoresList(t) ==
  /\ Enter(t)
  /\ credit < MaxCredit
  /\ value < max_value
  /\ value' = value + 1
  /\ credit' = credit + 1
  /\ UNCHANGED <<threadVars, max_value, susp, lock, alive, pc, arg, timed>>

ReleaseIncrement(t) ==
  /\ Enter(t)
  /\ credit < MaxCredit
  /\ susp = <<>>
  /\ value < max_value
  /\ value' = value + 1
  /\ credit' = credit + 1
  /\ UNCHANGED <<threadVars, max_value, susp, lock, alive, pc, arg, timed>>

(* The list is seen not to be empty, without the scheduler lock.           *)
ReleaseCheck(t) ==
  /\ Enter(t)
  /\ credit < MaxCredit
  /\ susp # <<>>
  /\ lock' = t
  /\ Goto(t, "release")
  /\ UNCHANGED <<threadVars, value, max_value, susp, alive, arg, timed, credit>>

(* Fault: the waiter is told RT_ERROR.                                     *)
ReleaseSaysError(t) ==
  /\ At(t, "release")
  /\ Dequeue("ERROR")
  /\ credit' = credit + 1
  /\ lock' = NoThread
  /\ Goto(t, "idle")
  /\ UNCHANGED <<value, max_value, alive, arg, timed>>

(* The dequeue may find nobody to resume; RT_EOK is returned all the same. *)
ReleaseDequeue(t) ==
  /\ At(t, "release")
  /\ Dequeue("EOK")
  /\ credit' = credit + 1
  /\ lock' = NoThread
  /\ Goto(t, "idle")
  /\ UNCHANGED <<value, max_value, alive, arg, timed>>

-------------------------------------------------------------------------------
(* rt_sem_control, rt_sem_detach and rt_sem_delete: resume all, then act.  *)

(* The cast to rt_uint16_t, and arguments one of which does not fit.       *)
Cast(v) == v % (RT_SEM_VALUE_MAX + 1)
Values == 0..(RT_SEM_VALUE_MAX + 1)

Reset(t, v) ==
  /\ Enter(t)
  /\ lock' = t
  /\ arg' = Cast(v)
  /\ Goto(t, "reset")
  /\ UNCHANGED <<threadVars, value, max_value, susp, alive, timed, credit>>

(* Without the check of the new limit.                                     *)
ApplyVlimit(t, v) ==
  /\ Enter(t)
  /\ IF Cast(v) < value /\ susp # <<>>
       THEN /\ lock' = t
            /\ arg' = Cast(v)
            /\ Goto(t, "vlimit")
            /\ UNCHANGED max_value
       ELSE /\ max_value' = Cast(v)
            /\ UNCHANGED <<lock, arg, pc>>
  /\ UNCHANGED <<threadVars, value, susp, alive, timed, credit>>

SetVlimit(t, v) == Cast(v) >= 1 /\ ApplyVlimit(t, v)

Detach(t) ==
  /\ Enter(t)
  /\ lock' = t
  /\ Goto(t, "detach")
  /\ UNCHANGED <<threadVars, value, max_value, susp, alive, arg, timed, credit>>

(* rt_susp_list_resume_all goes on as long as the dequeue gives a thread.  *)
ResumeAllStep(t) ==
  /\ ~halted
  /\ pc[t] \in ResumingAll
  /\ DequeueOK
  /\ Dequeue("ERROR")
  /\ UNCHANGED <<value, max_value, lock, alive, pc, arg, timed, credit>>

(* Fault: one waiter is resumed, not all.                                  *)
ResumeOne(t) ==
  /\ ~halted
  /\ pc[t] \in ResumingAll
  /\ Dequeue("ERROR")
  /\ value' = IF pc[t] = "reset" THEN arg ELSE value
  /\ credit' = IF pc[t] = "reset" THEN arg + Cardinality(Handed) ELSE credit
  /\ max_value' = IF pc[t] = "vlimit" THEN arg ELSE max_value
  /\ alive' = (pc[t] # "detach")
  /\ lock' = NoThread
  /\ arg' = 0
  /\ Goto(t, "idle")
  /\ UNCHANGED timed

(* The dequeue that gives none ends it; then the call takes effect.        *)
ResumeAllDone(t) ==
  /\ ~halted
  /\ pc[t] \in ResumingAll
  /\ ~DequeueOK
  /\ Dequeue("ERROR")
  /\ value' = IF pc[t] = "reset" THEN arg ELSE value
  /\ credit' = IF pc[t] = "reset" THEN arg + Cardinality(Handed) ELSE credit
  /\ max_value' = IF pc[t] = "vlimit" THEN arg ELSE max_value
  /\ alive' = (pc[t] # "detach")
  /\ lock' = NoThread
  /\ arg' = 0
  /\ Goto(t, "idle")
  /\ UNCHANGED timed

-------------------------------------------------------------------------------
(* Timeouts, and rt_thread_resume on a thread that waits here.             *)

Expire(t) == TimerExpire(t) /\ UNCHANGED semVars

(* Fault: the thread stays on the list it waited on.                       *)
TimeoutLeavesQueued ==
  ThreadTimeout /\ UNCHANGED semVars

Timeout ==
  /\ ThreadTimeout
  /\ susp' = ListRemove(susp, isr)
  /\ UNCHANGED <<value, max_value, lock, alive, pc, arg, timed, credit>>

TimeoutAssertFails == ThreadTimeoutAssertFails /\ UNCHANGED semVars

ThreadResume(t) ==
  /\ ~halted
  /\ stat[t] = "SUSPEND"
  /\ ThreadReady(t)
  /\ susp' = IF ReadyOK(t) THEN ListRemove(susp, t) ELSE susp
  /\ UNCHANGED <<error, isr, halted>>
  /\ UNCHANGED <<value, max_value, lock, alive, pc, arg, timed, credit>>

-------------------------------------------------------------------------------
Call(t) ==
  \/ TakeAvailable(t)
  \/ \E timeout \in Timeouts : TakeSuspend(t, timeout)
  \/ ReleaseIncrement(t)
  \/ ReleaseCheck(t)
  \/ "reset" \in Ops /\ \E v \in Values : Reset(t, v)
  \/ "vlimit" \in Ops /\ \E v \in Values : SetVlimit(t, v)
  \/ "detach" \in Ops /\ Detach(t)

Continue(t) ==
  \/ TakeArm(t)
  \/ TakeReturn(t)
  \/ ReleaseDequeue(t)
  \/ ResumeAllStep(t)
  \/ ResumeAllDone(t)

Next ==
  \/ \E t \in Threads : Call(t) \/ Continue(t) \/ Expire(t)
  \/ Timeout
  \/ TimeoutAssertFails
  \/ "resume" \in Ops /\ \E t \in Threads : ThreadResume(t)

Spec == Init /\ [][Next]_vars

(* A thread inside a call holds a spinlock or has been made ready, so it   *)
(* goes on; the tick interrupt serves the expired timers in list order and *)
(* a timer armed later is behind, so no armed timer is passed over for     *)
(* ever.  Nothing obliges a thread to make a call.                         *)
Fairness ==
  /\ \A t \in Threads : WF_vars(Continue(t)) /\ SF_vars(Expire(t))
  /\ WF_vars(Timeout \/ TimeoutAssertFails)

FairSpec == Spec /\ Fairness

-------------------------------------------------------------------------------
(* A token is never made up: whatever timeouts, resets and external        *)
(* resumes do to the waiters, the tokens that can still be taken or have   *)
(* been handed over are covered by releases that returned RT_EOK.  With    *)
(* InitValue 1 and callers that release only what they took, this is       *)
(* mutual exclusion.                                                       *)
NoTokenInvented == value + Cardinality(Handed) <= credit

(* Every release that returned RT_EOK is worth exactly one take: "the      *)
(* rt_sem_release() function will increase the count value of sem->value   *)
(* by 1 each time".                                                        *)
TokenConserved == value + Cardinality(Handed) = credit

(* The suspend list holds exactly the suspended threads, each once: no     *)
(* path wakes a thread and leaves it queued, or unlinks one that sleeps.   *)
SuspendedIffQueued ==
  /\ Queued(susp) = {t \in Threads : stat[t] = "SUSPEND"}
  /\ Unique(susp)

(* Nobody sleeps beside a token: with the spinlock free, a positive value  *)
(* means that the suspend list is empty.                                   *)
NoSleeperBesideToken == lock = NoThread /\ value > 0 => susp = <<>>

(* Once rt_sem_detach or rt_sem_delete has returned, no thread is left on  *)
(* the list of the dead object (one whose timeout is already running on    *)
(* CPU 0 is about to leave it).                                            *)
NoWaiterLeftBehind == ~alive => Queued(susp) \subseteq {isr}

(* A take with a finite timeout returns, whoever else wins or loses the    *)
(* race for waking the thread (unless the assertion of _thread_timeout     *)
(* fails and stops the system).                                            *)
TimedWaitReturns ==
  \A t \in Threads : (pc[t] = "waiting" /\ timed[t]) ~> (pc[t] = "idle" \/ halted)
===============================================================================

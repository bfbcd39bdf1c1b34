-------------------------------- MODULE IpcWait --------------------------------
(***************************************************************************)
(* What mailbox, message queue, event and memory pool have in common: an   *)
(* object with a spinlock and one or two suspend lists, and calls that     *)
(* sleep on a list until the object changes (rt-thread/src/ipc.c,          *)
(* mempool.c).                                                             *)
(*                                                                         *)
(* The fields of the object are accessed under its spinlock only; timeouts *)
(* and rt_thread_resume take the scheduler lock only, and touch nothing    *)
(* but the status of threads and the lists.  So stores to the fields and   *)
(* the section under the scheduler lock that ends a call are one step.     *)
(* Suspending a thread and starting its timer are two sections, and so are *)
(* two dequeues: timeouts come in between.  While the spinlock is held a   *)
(* list only shrinks, so the test for an empty list, made without the      *)
(* scheduler lock, and the dequeue after it are one step as well.          *)
(*                                                                         *)
(* Outside a call the model forgets thread->error: every call sets it      *)
(* before it reads it.                                                     *)
(***************************************************************************)
EXTENDS ThreadWait, FiniteSets

CONSTANTS
  Prio,        \* priority of every thread, 0 is the highest
  Flag,        \* RT_IPC_FLAG_FIFO or RT_IPC_FLAG_PRIO
  Lists,       \* the suspend lists of the object
  Timed,       \* by thread, subset of BOOLEAN: does it pass finite timeouts
  MaxWasted    \* bound: wasted wake-ups are counted up to here

ASSUME IpcPrioAssumption == Prio \in [Threads -> Nat]
ASSUME IpcFlagAssumption == Flag \in {"FIFO", "PRIO"}
ASSUME IpcTimedAssumption == Timed \in [Threads -> SUBSET BOOLEAN]
ASSUME IpcBoundAssumption == MaxWasted \in Nat
ASSUME IpcThreadsAssumption == IsFiniteSet(Threads)
ASSUME IpcListsAssumption == Lists \cap {"idle", "arm", "waiting", "none"} = {}

VARIABLES
  susp,    \* the suspend lists
  lock,    \* holder of the object's spinlock, or NoThread
  alive,   \* FALSE once detach or delete has returned
  pc,      \* where in a call every thread is
  on,      \* the list the thread sleeps on, or slept on, in its call
  timed,   \* the call in progress has a finite timeout
  job,     \* why all waiters are being resumed: "reset" or "detach"
  wasted   \* history: wake-ups spent on a first waiter in its timeout,
           \* since the list was last empty

NoList == "none"

waitVars == <<susp, lock, alive, pc, on, timed, job, wasted>>
ipcVars == <<threadVars, waitVars>>

WaitTypeOK(places) ==
  /\ ThreadTypeOK
  /\ susp \in [Lists -> Seq(Threads)]
  /\ lock \in Threads \cup {NoThread}
  /\ alive \in BOOLEAN
  /\ pc \in [Threads -> {"idle", "arm", "waiting"} \cup Lists \cup places]
  /\ on \in [Threads -> Lists \cup {NoList}]
  /\ timed \in [Threads -> BOOLEAN]
  /\ job \in {"none", "reset", "detach"}
  /\ wasted \in [Lists -> 0..MaxWasted]

WaitInit ==
  /\ ThreadInit
  /\ susp = [l \in Lists |-> <<>>]
  /\ lock = NoThread
  /\ alive = TRUE
  /\ pc = [t \in Threads |-> "idle"]
  /\ on = [t \in Threads |-> NoList]
  /\ timed = [t \in Threads |-> FALSE]
  /\ job = "none"
  /\ wasted = [l \in Lists |-> 0]

Goto(t, where) == pc' = [pc EXCEPT ![t] = where]

(* t returns from its call; the local variables of the call are gone.      *)
Return(t) ==
  /\ Goto(t, "idle")
  /\ on' = [on EXCEPT ![t] = NoList]
  /\ timed' = [timed EXCEPT ![t] = FALSE]

(* t, outside any call, enters one and gets the spinlock.                  *)
Enter(t) == ~halted /\ alive /\ pc[t] = "idle" /\ lock = NoThread

(* The threads that were woken from l with RT_EOK and have not looked at   *)
(* the object again.                                                       *)
Woken(l) == {t \in Threads : /\ pc[t] = "waiting" /\ on[t] = l
                             /\ stat[t] = "READY" /\ error[t] = "EOK"}

(* A woken thread gets the spinlock again, to test its condition anew.     *)
Reenter(t, l) == ~halted /\ lock = NoThread /\ t \in Woken(l)

(* The calling thread goes to sleep on l.  With a finite timeout it keeps  *)
(* the spinlock until its timer is started.                                *)
Sleep(t, l, finite, err) ==
  /\ error' = [error EXCEPT ![t] = err]
  /\ SuspendSelf(t)
  /\ susp' = [susp EXCEPT ![l] = SuspListEnqueue(@, t, Flag, Prio)]
  /\ wasted' = [wasted EXCEPT ![l] = IF susp[l] = <<>> THEN 0 ELSE @]
  /\ on' = [on EXCEPT ![t] = l]
  /\ timed' = [timed EXCEPT ![t] = finite]
  /\ Goto(t, IF finite THEN "arm" ELSE "waiting")
  /\ lock' = IF finite THEN t ELSE NoThread
  /\ UNCHANGED <<isr, halted, alive, job>>

Arm(t) ==
  /\ ~halted
  /\ pc[t] = "arm"
  /\ TimerStart(t)
  /\ Goto(t, "waiting")
  /\ lock' = NoThread
  /\ UNCHANGED <<stat, error, isr, halted, susp, alive, on, timed, job, wasted>>

(* A thread that runs again and finds thread->error set returns it,        *)
(* without the spinlock.                                                   *)
ReturnError(t) ==
  /\ ~halted
  /\ pc[t] = "waiting"
  /\ stat[t] = "READY"
  /\ error[t] # "EOK"
  /\ error' = [error EXCEPT ![t] = "EOK"]
  /\ Return(t)
  /\ UNCHANGED <<stat, ttmr, tmr, isr, halted, susp, lock, alive, job, wasted>>

(* rt_susp_list_dequeue on l succeeds if the first waiter can be made      *)
(* ready; a waiter in its timeout stays on the list.  cost is the number   *)
(* of wake-ups that are lost if it fails: all, where all were to be woken. *)
DequeueOK(l) == susp[l] # <<>> /\ ReadyOK(Head(susp[l]))

Dequeue(l, err, cost) ==
  /\ UNCHANGED <<isr, halted>>
  /\ IF susp[l] = <<>>
       THEN UNCHANGED <<susp, stat, ttmr, tmr, error, wasted>>
       ELSE /\ ThreadReady(Head(susp[l]))
            /\ susp' = [susp EXCEPT ![l] = IF DequeueOK(l) THEN Tail(@) ELSE @]
            /\ error' = [error EXCEPT ![Head(susp[l])] =
                           IF DequeueOK(l) THEN err ELSE @]
            /\ wasted' = [wasted EXCEPT ![l] =
                            IF DequeueOK(l) THEN @
                            ELSE IF @ + cost > MaxWasted THEN MaxWasted
                            ELSE @ + cost]

(* The end of a call of t that wakes the first waiter of l.                *)
LeaveAndWake(t, l) ==
  /\ Dequeue(l, "EOK", 1)
  /\ Return(t)
  /\ UNCHANGED <<lock, alive, job>>

(* The end of a call of t that wakes nobody, for instance because its      *)
(* timeout was found to have run down.                                     *)
Leave(t) ==
  /\ Return(t)
  /\ UNCHANGED <<threadVars, susp, lock, alive, job, wasted>>

(* Reset, detach and delete call rt_susp_list_resume_all for one list      *)
(* after the other, from first on.  While t is at the place named l, it    *)
(* goes on as long as the dequeue gives a thread.                          *)
ResumeAll(t, why, first) ==
  /\ Enter(t)
  /\ lock' = t
  /\ job' = why
  /\ Goto(t, first)
  /\ UNCHANGED <<threadVars, susp, alive, on, timed, wasted>>

ResumeAllStep(t, l) ==
  /\ ~halted
  /\ pc[t] = l
  /\ DequeueOK(l)
  /\ Dequeue(l, "ERROR", MaxWasted)
  /\ UNCHANGED <<lock, alive, pc, on, timed, job>>

ResumeAllNext(t, l, next) ==
  /\ ~halted
  /\ pc[t] = l
  /\ ~DequeueOK(l)
  /\ Dequeue(l, "ERROR", MaxWasted)
  /\ Goto(t, next)
  /\ UNCHANGED <<lock, alive, on, timed, job>>

(* The dequeue that gives none on the last list ends it.                   *)
ResumeAllDone(t, l) ==
  /\ ~halted
  /\ pc[t] = l
  /\ ~DequeueOK(l)
  /\ Dequeue(l, "ERROR", MaxWasted)
  /\ Goto(t, "idle")
  /\ lock' = NoThread
  /\ alive' = (job # "detach")
  /\ job' = "none"
  /\ UNCHANGED <<on, timed>>

-------------------------------------------------------------------------------
(* Timeouts, and rt_thread_resume on a thread that sleeps here.            *)

Expire(t) == TimerExpire(t) /\ UNCHANGED waitVars

(* Fault: the thread stays on the list it waited on.                       *)
TimeoutLeavesQueued == ThreadTimeout /\ UNCHANGED waitVars

Timeout ==
  /\ ThreadTimeout
  /\ susp' = [l \in Lists |-> ListRemove(susp[l], isr)]
  /\ UNCHANGED <<lock, alive, pc, on, timed, job, wasted>>

TimeoutAssertFails == ThreadTimeoutAssertFails /\ UNCHANGED waitVars

ThreadResume(t) ==
  /\ ~halted
  /\ stat[t] = "SUSPEND"
  /\ ThreadReady(t)
  /\ susp' = [l \in Lists |-> IF ReadyOK(t) THEN ListRemove(susp[l], t)
                              ELSE susp[l]]
  /\ UNCHANGED <<error, isr, halted, lock, alive, pc, on, timed, job, wasted>>

WaitStep ==
  \/ \E t \in Threads : Arm(t) \/ ReturnError(t) \/ Expire(t)
  \/ Timeout
  \/ TimeoutAssertFails

-------------------------------------------------------------------------------
(* The lists hold exactly the suspended threads, each thread once and on   *)
(* the list its call sleeps on.                                            *)
SleepersQueued ==
  /\ \A l \in Lists :
       /\ Queued(susp[l]) = {t \in Threads : stat[t] = "SUSPEND" /\ on[t] = l}
       /\ Unique(susp[l])

(* n items of the object are what the sleepers of l wait for.  If somebody *)
(* sleeps there while the object has items, then as many threads have been *)
(* woken for them, or a wake-up was spent on a waiter in its timeout.      *)
ItemsClaimed(l, n) ==
  lock = NoThread /\ susp[l] # <<>> => n <= Cardinality(Woken(l)) + wasted[l]

AllWoken == \A l \in Lists : wasted[l] = 0 => susp[l] = <<>>
===============================================================================

------------------------------ MODULE ThreadLife ------------------------------
(***************************************************************************)
(* The life of a thread outside IPC objects: rt-thread/src/thread.c with   *)
(* its sleep, suspend and resume, and src/defunct.c, whose system thread   *)
(* frees what exited or deleted threads leave behind.                      *)
(*                                                                         *)
(* _thread_sleep suspends the thread in one section, starts its timer in   *)
(* another and sets thread->error after that, without a lock.  Meanwhile   *)
(* the thread is still on its CPU, in a critical region; another CPU may   *)
(* resume it.                                                              *)
(*                                                                         *)
(* A thread is deleted by one caller, at most once, and not while it is    *)
(* inside those sections on another CPU: rt_thread_delete does not wait    *)
(* for a CPU that runs the thread.                                         *)
(***************************************************************************)
EXTENDS ThreadWait

CONSTANT RT_SEM_VALUE_MAX   \* limit of the value of a semaphore

ASSUME SemLimitAssumption == RT_SEM_VALUE_MAX \in Nat \ {0}
ASSUME ReaperAssumption == {"take", "loop"} \cap Threads = {}

VARIABLES
  pc,        \* where the thread is: "none" if the object does not exist
  end,       \* what is left of its deletion: "no", "enqueue", "release"
  defunct,   \* _rt_thread_defunct
  system_sem,       \* its value
  reaper,    \* the system thread: "take", "loop" or the thread it frees
  gap,       \* history: made ready before its timer was started, or by
             \* the late timeout of an earlier sleep
  held       \* history: suspended by another thread since it went to sleep

ownVars == <<pc, end, defunct, system_sem, reaper, gap, held>>
lifeVars == <<threadVars, ownVars>>

LifeInit ==
  /\ ThreadInit
  /\ pc = [t \in Threads |-> "none"]
  /\ end = [t \in Threads |-> "no"]
  /\ defunct = <<>>
  /\ system_sem = 0
  /\ reaper = "take"
  /\ gap = [t \in Threads |-> FALSE]
  /\ held = [t \in Threads |-> FALSE]

Goto(t, where) == pc' = [pc EXCEPT ![t] = where]

(* t is at the place named where and runs.                                 *)
Runs(t, where) == ~halted /\ pc[t] = where /\ stat[t] = "READY"

-------------------------------------------------------------------------------
(* rt_thread_init and rt_thread_create, not in the place of an object      *)
(* whose deletion has not returned yet.                                    *)
Create(t) ==
  /\ ~halted
  /\ pc[t] = "none" /\ end[t] = "no"
  /\ Goto(t, "init")
  /\ stat' = [stat EXCEPT ![t] = "INIT"]
  /\ UNCHANGED <<ttmr, tmr, error, isr, halted, end, defunct, system_sem, reaper, gap, held>>

(* rt_thread_startup makes it a suspended thread and resumes it.           *)
Startup(t) ==
  /\ ~halted
  /\ pc[t] = "init"
  /\ Goto(t, "start")
  /\ stat' = [stat EXCEPT ![t] = "SUSPEND"]
  /\ UNCHANGED <<ttmr, tmr, error, isr, halted, end, defunct, system_sem, reaper, gap, held>>

StartupResume(t) ==
  /\ ~halted
  /\ pc[t] = "start"
  /\ ThreadReady(t)
  /\ Goto(t, "run")
  /\ UNCHANGED <<error, isr, halted, end, defunct, system_sem, reaper, gap, held>>

-------------------------------------------------------------------------------
(* _thread_sleep, of rt_thread_delay and rt_thread_mdelay.                 *)

SleepSuspend(t) ==
  /\ Runs(t, "run")
  /\ error' = [error EXCEPT ![t] = "EOK"]
  /\ SuspendSelf(t)
  /\ Goto(t, "arm")
  /\ gap' = [gap EXCEPT ![t] = FALSE]
  /\ held' = [held EXCEPT ![t] = FALSE]
  /\ UNCHANGED <<isr, halted, end, defunct, system_sem, reaper>>

(* Fault: the timer is given its time, and is not started.                 *)
SleepNoTimer(t) ==
  /\ ~halted
  /\ pc[t] = "arm"
  /\ Goto(t, "note")
  /\ UNCHANGED <<threadVars, end, defunct, system_sem, reaper, gap, held>>

SleepArm(t) ==
  /\ ~halted
  /\ pc[t] = "arm"
  /\ TimerStart(t)
  /\ Goto(t, "note")
  /\ UNCHANGED <<stat, error, isr, halted, end, defunct, system_sem, reaper, gap, held>>

(* thread->error is set after the timer was started, maybe after the       *)
(* timeout has set it.                                                     *)
SleepNote(t) ==
  /\ ~halted
  /\ pc[t] = "note"
  /\ error' = [error EXCEPT ![t] = "EINTR"]
  /\ Goto(t, "asleep")
  /\ UNCHANGED <<stat, ttmr, tmr, isr, halted, end, defunct, system_sem, reaper, gap, held>>

(* RT_ETIMEOUT becomes RT_EOK; what else is left in thread->error is       *)
(* forgotten here, the next call sets it before it is read.                *)
SleepReturn(t) ==
  /\ Runs(t, "asleep")
  /\ error' = [error EXCEPT ![t] = "EOK"]
  /\ gap' = [gap EXCEPT ![t] = @ /\ tmr[t]]
  /\ held' = [held EXCEPT ![t] = FALSE]
  /\ Goto(t, "run")
  /\ UNCHANGED <<stat, ttmr, tmr, isr, halted, end, defunct, system_sem, reaper>>

-------------------------------------------------------------------------------
(* rt_thread_suspend by another thread.  A thread that is suspended        *)
(* already has its timer stopped.  One on a CPU must not be suspended from *)
(* outside (an assertion), so a ready thread here is one that waits; and   *)
(* nobody suspends a thread that is being started up.                      *)
Suspend(t) ==
  /\ ~halted
  /\ pc[t] # "start"
  /\ stat[t] = "SUSPEND" \/ (stat[t] = "READY" /\ pc[t] \in {"run", "asleep"})
  /\ SuspendSelf(t)
  /\ held' = [held EXCEPT ![t] = pc[t] # "run"]
  /\ UNCHANGED <<error, isr, halted, pc, end, defunct, system_sem, reaper, gap>>

(* rt_thread_resume.                                                       *)
Resume(t) ==
  /\ ~halted
  /\ stat[t] = "SUSPEND"
  /\ ThreadReady(t)
  /\ gap' = [gap EXCEPT ![t] = @ \/ (ReadyOK(t) /\ pc[t] = "arm")]
  /\ UNCHANGED <<error, isr, halted, pc, end, defunct, system_sem, reaper, held>>

(* The timeout, as in ThreadWait.                                          *)
TakeTimer(t) == TimerExpire(t) /\ UNCHANGED ownVars

(* Fault: the status of the thread is not tested.                          *)
TimeoutUnchecked ==
  /\ ~halted
  /\ isr # NoThread
  /\ error' = [error EXCEPT ![isr] = "ETIMEOUT"]
  /\ stat' = [stat EXCEPT ![isr] = "READY"]
  /\ isr' = NoThread
  /\ UNCHANGED <<ttmr, tmr, halted, ownVars>>

Timeout ==
  /\ ThreadTimeout
  /\ gap' = [gap EXCEPT ![isr] = @ \/ pc[isr] = "arm" \/ tmr[isr]]
  /\ UNCHANGED <<pc, end, defunct, system_sem, reaper, held>>

TimeoutAssertFails == ThreadTimeoutAssertFails /\ UNCHANGED ownVars

-------------------------------------------------------------------------------
(* The end of a thread: by its own return (_thread_exit), or by            *)
(* rt_thread_detach or rt_thread_delete.                                   *)

(* Fault: the timer goes on.                                               *)
CloseKeepsTimer(t) ==
  /\ ~halted
  /\ stat' = [stat EXCEPT ![t] = "CLOSE"]
  /\ Goto(t, "closed")
  /\ end' = [end EXCEPT ![t] = "enqueue"]
  /\ UNCHANGED <<tmr, ttmr, error, isr, halted, defunct, system_sem, reaper, gap, held>>

(* rt_thread_close.                                                        *)
Close(t) ==
  /\ ~halted
  /\ stat' = [stat EXCEPT ![t] = "CLOSE"]
  /\ tmr' = [tmr EXCEPT ![t] = FALSE]
  /\ Goto(t, "closed")
  /\ end' = [end EXCEPT ![t] = "enqueue"]
  /\ UNCHANGED <<ttmr, error, isr, halted, defunct, system_sem, reaper, gap, held>>

Exit(t) == Runs(t, "run") /\ Close(t)

Delete(t) == pc[t] \in {"init", "run", "asleep"} /\ Close(t)

(* Fault: the system thread is not told.                                   *)
EnqueueQuietly(t) ==
  /\ ~halted
  /\ end[t] = "enqueue"
  /\ defunct' = <<t>> \o defunct
  /\ end' = [end EXCEPT ![t] = "no"]
  /\ UNCHANGED <<threadVars, pc, system_sem, reaper, gap, held>>

(* rt_thread_defunct_enqueue: at the head of the list, and a token.        *)
Enqueue(t) ==
  /\ ~halted
  /\ end[t] = "enqueue"
  /\ defunct' = <<t>> \o defunct
  /\ end' = [end EXCEPT ![t] = "release"]
  /\ UNCHANGED <<threadVars, pc, system_sem, reaper, gap, held>>

TellReaper(t) ==
  /\ ~halted
  /\ end[t] = "release"
  /\ system_sem' = IF system_sem < RT_SEM_VALUE_MAX THEN system_sem + 1 ELSE system_sem
  /\ end' = [end EXCEPT ![t] = "no"]
  /\ UNCHANGED <<threadVars, pc, defunct, reaper, gap, held>>

-------------------------------------------------------------------------------
(* rt_thread_system_entry and rt_defunct_execute.                          *)

ReaperTake ==
  /\ ~halted
  /\ reaper = "take"
  /\ system_sem > 0
  /\ system_sem' = system_sem - 1
  /\ reaper' = "loop"
  /\ UNCHANGED <<threadVars, pc, end, defunct, gap, held>>

(* Fault: the thread stays on the list.                                    *)
DequeueKeeps ==
  /\ ~halted
  /\ reaper = "loop"
  /\ defunct # <<>>
  /\ reaper' = Head(defunct)
  /\ UNCHANGED <<threadVars, pc, end, defunct, system_sem, gap, held>>

ReaperDequeue ==
  /\ ~halted
  /\ reaper = "loop"
  /\ defunct # <<>>
  /\ defunct' = Tail(defunct)
  /\ reaper' = Head(defunct)
  /\ UNCHANGED <<threadVars, pc, end, system_sem, gap, held>>

(* The object is freed, and what it held is gone.                          *)
ReaperFree ==
  /\ ~halted
  /\ reaper \in Threads
  /\ Goto(reaper, "none")
  /\ ttmr' = [ttmr EXCEPT ![reaper] = FALSE]
  /\ error' = [error EXCEPT ![reaper] = "EOK"]
  /\ gap' = [gap EXCEPT ![reaper] = FALSE]
  /\ held' = [held EXCEPT ![reaper] = FALSE]
  /\ reaper' = "loop"
  /\ UNCHANGED <<stat, tmr, isr, halted, end, defunct, system_sem>>

ReaperDone ==
  /\ ~halted
  /\ reaper = "loop"
  /\ defunct = <<>>
  /\ reaper' = "take"
  /\ UNCHANGED <<threadVars, pc, end, defunct, system_sem, gap, held>>

Reaper == ReaperTake \/ ReaperDequeue \/ ReaperFree \/ ReaperDone

-------------------------------------------------------------------------------
Choose(t) ==
  \/ Create(t) \/ Startup(t) \/ SleepSuspend(t)
  \/ Suspend(t) \/ Resume(t)
  \/ Exit(t) \/ Delete(t)

Go(t) ==
  \/ StartupResume(t)
  \/ SleepArm(t) \/ SleepNote(t) \/ SleepReturn(t)

Bury(t) == Enqueue(t) \/ TellReaper(t)

LifeNext ==
  \/ \E t \in Threads : Choose(t) \/ Go(t) \/ Bury(t) \/ TakeTimer(t)
  \/ Timeout
  \/ TimeoutAssertFails
  \/ Reaper

(* What has begun goes on, and a timer that runs expires: the tick         *)
(* interrupt serves every hard timer in its tick (module Timer), so a      *)
(* thread's timer is not passed over for ever by those of others.          *)
Fairness ==
  /\ \A t \in Threads : WF_lifeVars(Go(t)) /\ WF_lifeVars(Bury(t)) /\ SF_lifeVars(TakeTimer(t))
  /\ WF_lifeVars(Timeout \/ TimeoutAssertFails)
  /\ WF_lifeVars(Reaper)

LifeSpec == LifeInit /\ [][LifeNext]_lifeVars /\ Fairness

-------------------------------------------------------------------------------
(* The timer of a thread runs only while the thread is suspended, which is *)
(* what the assertion of _thread_timeout relies on; there are two ways out *)
(* only: the thread was made ready between its suspension and the start of *)
(* the timer, or by a timeout that was due to an earlier sleep.            *)
TimerFitsStatus == \A t \in Threads : tmr[t] => stat[t] = "SUSPEND" \/ gap[t]

(* A closed thread is never made ready again, by a late timeout or by a    *)
(* resume.                                                                 *)
ClosedStays ==
  [][\A t \in Threads : stat[t] = "CLOSE" => stat'[t] = "CLOSE" \/ pc[t] = "none"]_lifeVars

(* Dead threads are freed once: each is on the list at most once, and not  *)
(* while it is being freed.                                                *)
FreedOnce ==
  /\ Unique(defunct)
  /\ reaper \notin Queued(defunct)
  /\ \A t \in Queued(defunct) \cup ({reaper} \cap Threads) :
       stat[t] = "CLOSE" /\ pc[t] = "closed" /\ end[t] # "enqueue"

(* Every sleep ends, whoever resumes the thread at whatever moment, unless *)
(* another thread suspends the sleeper or deletes it.                      *)
SleepEnds ==
  \A t \in Threads : pc[t] = "arm" ~> pc[t] \notin {"arm", "note", "asleep"}
                                      \/ held[t] \/ halted

(* Whatever a closed thread leaves is freed, unless another thread dies    *)
(* before: the list is a stack, so a thread that dies later is freed       *)
(* earlier, and a dead thread may wait for ever if others keep dying.      *)
Reaped ==
  \A t \in Threads :
    stat[t] = "CLOSE" ~> \/ pc[t] = "none"
                         \/ \E u \in Threads \ {t} : end[u] = "enqueue"
                         \/ halted
===============================================================================

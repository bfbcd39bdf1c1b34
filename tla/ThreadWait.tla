------------------------------ MODULE ThreadWait ------------------------------
(***************************************************************************)
(* The part of a thread control block that every blocking IPC call of the  *)
(* kernel uses: the scheduling status, the per-thread timeout timer and    *)
(* the error number through which a waker tells the sleeper why it runs    *)
(* again (rt-thread/src/thread.c, scheduler_comm.c, timer.c).              *)
(*                                                                         *)
(* Every operator below is one section executed under the scheduler lock   *)
(* (rt_sched_lock), which is what makes it atomic.  READY and RUNNING are  *)
(* one status here: which CPU runs a thread that may run is the business   *)
(* of the scheduler, not of the IPC code.                                  *)
(*                                                                         *)
(* The hard timers are checked by the tick interrupt of CPU 0 only.        *)
(* _timer_check takes an expired timer off the list, drops the timer lock  *)
(* and only then calls the timeout function, which has to take the         *)
(* scheduler lock.  isr names the thread whose timeout is between these    *)
(* two points; other CPUs run in that window.                              *)
(***************************************************************************)
EXTENDS RtList

CONSTANTS
  Threads,   \* the threads that use the IPC object
  NoThread   \* RT_NULL

ASSUME NoThreadAssumption == NoThread \notin Threads

VARIABLES
  stat,     \* RT_SCHED_CTX(t).stat: "READY" (or running) | "SUSPEND"
  ttmr,     \* RT_SCHED_CTX(t).sched_flag_ttmr_set
  tmr,      \* thread_timer has RT_TIMER_FLAG_ACTIVATED and is on the list
  error,    \* thread->error
  isr,      \* thread whose timer CPU 0 has taken off the list, or NoThread
  halted    \* an RT_ASSERT failed: rt_assert_handler never returns

threadVars == <<stat, ttmr, tmr, error, isr, halted>>

(* Error numbers are kept without their sign: the callers of these         *)
(* functions return  error > 0 ? -error : error.                           *)
Errors == {"EOK", "EINTR", "ETIMEOUT", "ERROR"}

ThreadTypeOK ==
  /\ stat \in [Threads -> {"READY", "SUSPEND"}]
  /\ ttmr \in [Threads -> BOOLEAN]
  /\ tmr \in [Threads -> BOOLEAN]
  /\ error \in [Threads -> Errors]
  /\ isr \in Threads \cup {NoThread}
  /\ halted \in BOOLEAN

ThreadInit ==
  /\ stat = [t \in Threads |-> "READY"]
  /\ ttmr = [t \in Threads |-> FALSE]
  /\ tmr = [t \in Threads |-> FALSE]
  /\ error = [t \in Threads |-> "EOK"]
  /\ isr = NoThread
  /\ halted = FALSE

(* What rt_thread_suspend_to_list does to the calling, running thread: it  *)
(* suspends it and stops its timer "anyway".                               *)
SuspendSelf(t) ==
  /\ stat' = [stat EXCEPT ![t] = "SUSPEND"]
  /\ tmr' = [tmr EXCEPT ![t] = tmr[t] /\ ~ttmr[t]]
  /\ ttmr' = [ttmr EXCEPT ![t] = FALSE]

(* rt_timer_control(SET_TIME) and rt_timer_start on the thread timer.      *)
TimerStart(t) ==
  /\ ttmr' = [ttmr EXCEPT ![t] = TRUE]
  /\ tmr' = [tmr EXCEPT ![t] = TRUE]

(* rt_sched_thread_ready succeeds on a suspended thread whose timeout, if  *)
(* one was started, could still be stopped.                                *)
ReadyOK(t) == stat[t] = "SUSPEND" /\ (ttmr[t] => tmr[t])

(* rt_sched_thread_ready.  The timer flag is masked out "no matter stop    *)
(* success or not", also when the call then gives up.                      *)
ThreadReady(t) ==
  /\ stat' = [stat EXCEPT ![t] = IF ReadyOK(t) THEN "READY" ELSE @]
  /\ tmr' = [tmr EXCEPT ![t] = tmr[t] /\ ~(stat[t] = "SUSPEND" /\ ttmr[t])]
  /\ ttmr' = [ttmr EXCEPT ![t] = ttmr[t] /\ stat[t] # "SUSPEND"]

(* _timer_check on CPU 0 finds the timer of t expired, removes it from the *)
(* list, marks it deactivated and unlocks the timer list.                  *)
TimerExpire(t) ==
  /\ ~halted
  /\ isr = NoThread
  /\ tmr[t]
  /\ tmr' = [tmr EXCEPT ![t] = FALSE]
  /\ isr' = t
  /\ UNCHANGED <<stat, ttmr, error, halted>>

(* _thread_timeout gets the scheduler lock.  It asserts that the thread is *)
(* still suspended; the caller removes it from the list it waits on.       *)
ThreadTimeout ==
  /\ ~halted
  /\ isr # NoThread
  /\ stat[isr] = "SUSPEND"
  /\ error' = [error EXCEPT ![isr] = "ETIMEOUT"]
  /\ stat' = [stat EXCEPT ![isr] = "READY"]
  /\ isr' = NoThread
  /\ UNCHANGED <<ttmr, tmr, halted>>

ThreadTimeoutAssertFails ==
  /\ ~halted
  /\ isr # NoThread
  /\ stat[isr] # "SUSPEND"
  /\ halted' = TRUE
  /\ UNCHANGED <<stat, ttmr, tmr, error, isr>>
===============================================================================

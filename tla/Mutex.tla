--------------------------------- MODULE Mutex ---------------------------------
(***************************************************************************)
(* rt_mutex of rt-thread/src/ipc.c: nested locks, hand-off to the first    *)
(* waiter, priority inheritance along chains of waiting owners, priority   *)
(* ceiling, timeouts, detach, and what becomes of the mutexes and of the   *)
(* place in the list of a thread that exits or is deleted.                 *)
(*                                                                         *)
(* As in Semaphore, a call runs under the spinlock of its mutex and takes  *)
(* the scheduler lock in sections; every action below is such a section    *)
(* (or a store between two of them).  A call that only returns an error    *)
(* is a stuttering step: it leaves nothing behind but thread->error, which *)
(* every take resets before it is read.  rt_mutex_control does nothing.    *)
(*                                                                         *)
(* granted is a history variable: the takes that returned RT_EOK and are   *)
(* not released yet, by thread and mutex.  Detaching a mutex voids them.   *)
(***************************************************************************)
EXTENDS ThreadWait, FiniteSets

CONSTANTS
  Mutexes,
  NoMutex,             \* RT_NULL
  InitPrio,            \* init_priority of every thread, 0 is the highest
  Rank,                \* callers take mutexes in ascending order of rank
  RT_MUTEX_HOLD_MAX,   \* 255 in the code
  Ceilings,            \* the ceilings that callers set
  Timeouts,            \* which timeouts callers pass: "forever", "timed"
  Ops,                 \* calls besides: "resume" for rt_thread_resume on waiters,
                       \* "detach", and "exit" and "delete" of a thread
  Mortal               \* bound: the threads that exit or are deleted

(* 0xFF, the priority of a mutex nobody waits for.                         *)
NoPrio == 255

ASSUME MutexAssumption == NoMutex \notin Mutexes /\ IsFiniteSet(Mutexes)
ASSUME PrioAssumption == IsFiniteSet(Threads) /\ InitPrio \in [Threads -> 0..NoPrio]
ASSUME HoldAssumption == RT_MUTEX_HOLD_MAX \in Nat \ {0}
ASSUME RankAssumption == Rank \in [Mutexes -> Nat]
ASSUME CallsAssumption == /\ Ceilings \subseteq 0..NoPrio
                          /\ Timeouts \subseteq {"forever", "timed"}
                          /\ Ops \subseteq {"resume", "detach", "exit", "delete"}
                          /\ Mortal \subseteq Threads

VARIABLES
  owner, hold,   \* of struct rt_mutex
  mprio,         \* mutex->priority
  ceil,          \* mutex->ceiling_priority
  alive,         \* the mutexes that are not detached
  susp,          \* parent.suspend_thread
  lock,          \* holder of the mutex's spinlock, or NoThread
  curr,          \* current_priority of every thread
  pending,       \* thread->pending_object
  pc,            \* where in rt_mutex_take every thread is
  at,            \* the mutex of that call
  timed,         \* that call has a finite timeout
  granted

mutexVars == <<owner, hold, mprio, ceil, alive, susp, lock>>
callVars == <<pc, at, timed, granted>>
vars == <<threadVars, mutexVars, curr, pending, callVars>>

(* Types; in particular hold, eight bits wide in the code, never passes    *)
(* its limit however deep the takes are nested.                            *)
TypeOK ==
  /\ stat \in [Threads -> {"READY", "SUSPEND", "CLOSE"}]
  /\ error \in [Threads -> Errors]
  /\ isr \in Threads \cup {NoThread}
  /\ owner \in [Mutexes -> Threads \cup {NoThread}]
  /\ hold \in [Mutexes -> 0..RT_MUTEX_HOLD_MAX]
  /\ mprio \in [Mutexes -> 0..NoPrio]
  /\ ceil \in [Mutexes -> 0..NoPrio]
  /\ alive \subseteq Mutexes
  /\ susp \in [Mutexes -> Seq(Threads)]
  /\ lock \in [Mutexes -> Threads \cup {NoThread}]
  /\ curr \in [Threads -> 0..NoPrio]
  /\ pending \in [Threads -> Mutexes \cup {NoMutex}]
  /\ pc \in [Threads -> {"idle", "pend", "boost", "arm", "waiting",
                         "detach", "exit", "drop", "deleted"}]
  /\ at \in [Threads -> Mutexes \cup {NoMutex}]
  /\ timed \in [Threads -> BOOLEAN]
  /\ granted \in [Threads -> [Mutexes -> 0..RT_MUTEX_HOLD_MAX]]

Init ==
  /\ ThreadInit
  /\ owner = [m \in Mutexes |-> NoThread]
  /\ hold = [m \in Mutexes |-> 0]
  /\ mprio = [m \in Mutexes |-> NoPrio]
  /\ ceil = [m \in Mutexes |-> NoPrio]
  /\ alive = Mutexes
  /\ susp = [m \in Mutexes |-> <<>>]
  /\ lock = [m \in Mutexes |-> NoThread]
  /\ curr = InitPrio
  /\ pending = [t \in Threads |-> NoMutex]
  /\ pc = [t \in Threads |-> "idle"]
  /\ at = [t \in Threads |-> NoMutex]
  /\ timed = [t \in Threads |-> FALSE]
  /\ granted = [t \in Threads |-> [m \in Mutexes |-> 0]]

Enter(t, m) == /\ ~halted /\ pc[t] = "idle" /\ stat[t] = "READY"
               /\ m \in alive /\ lock[m] = NoThread
At(t, where) == ~halted /\ pc[t] = where
Goto(t, where) == pc' = [pc EXCEPT ![t] = where]

-------------------------------------------------------------------------------
(* Priorities.                                                             *)

Lesser(a, b) == IF a < b THEN a ELSE b

(* taken_object_list.                                                      *)
Taken(t) == {m \in alive : owner[m] = t}

(* _thread_get_mutex_priority, for a thread that holds the mutexes held of *)
(* priorities mp and ceilings cl.                                          *)
MutexPriority(t, held, mp, cl) ==
  LET offers == {InitPrio[t]} \cup {Lesser(mp[m], cl[m]) : m \in held}
  IN  CHOOSE p \in offers : \A q \in offers : p <= q

(* The priority of a mutex whose suspend list is q: _mutex_update_priority *)
HeadPriority(q, prio) == IF q = <<>> THEN NoPrio ELSE prio[Head(q)]

(* Fault: the walk goes on when the owner's priority does not change.      *)
PropagateOn(s) ==
  LET m == pending[s.t]
      q == SuspListEnqueue(ListRemove(s.susp[m], s.t), s.t, "PRIO", s.curr)
      mp == [s.mprio EXCEPT ![m] = HeadPriority(q, s.curr)]
      o == owner[m]
  IN  IF ~s.go \/ stat[s.t] # "SUSPEND" \/ m = NoMutex
        THEN [s EXCEPT !.go = FALSE]
      ELSE IF o = NoThread
        THEN [s EXCEPT !.go = FALSE, !.fault = TRUE]
      ELSE [s EXCEPT !.susp = [@ EXCEPT ![m] = q],
                     !.mprio = mp,
                     !.curr = [@ EXCEPT ![o] = MutexPriority(o, Taken(o), mp, s.ceil)],
                     !.t = o]

(* Fault: a waiter with a new priority keeps its place in the list.        *)
PropagateInPlace(s) ==
  LET m == pending[s.t]
      mp == [s.mprio EXCEPT ![m] = HeadPriority(s.susp[m], s.curr)]
      o == owner[m]
      p == MutexPriority(o, Taken(o), mp, s.ceil)
  IN  IF ~s.go \/ stat[s.t] # "SUSPEND" \/ m = NoMutex
        THEN [s EXCEPT !.go = FALSE]
      ELSE IF o = NoThread
        THEN [s EXCEPT !.go = FALSE, !.fault = TRUE]
      ELSE [s EXCEPT !.mprio = mp,
                     !.curr = [@ EXCEPT ![o] = p],
                     !.t = o,
                     !.go = (p # s.curr[o])]

(* One turn of the loop of _thread_update_priority.  s.t just got another  *)
(* priority; if it waits for a mutex, it is queued again and the owner of  *)
(* that mutex is next.  A mutex without owner is a null pointer.           *)
PropagateStep(s) ==
  LET m == pending[s.t]
      q == SuspListEnqueue(ListRemove(s.susp[m], s.t), s.t, "PRIO", s.curr)
      mp == [s.mprio EXCEPT ![m] = HeadPriority(q, s.curr)]
      o == owner[m]
      p == MutexPriority(o, Taken(o), mp, s.ceil)
  IN  IF ~s.go \/ stat[s.t] # "SUSPEND" \/ m = NoMutex
        THEN [s EXCEPT !.go = FALSE]
      ELSE IF o = NoThread
        THEN [s EXCEPT !.go = FALSE, !.fault = TRUE]
      ELSE [s EXCEPT !.susp = [@ EXCEPT ![m] = q],
                     !.mprio = mp,
                     !.curr = [@ EXCEPT ![o] = p],
                     !.t = o,
                     !.go = (p # s.curr[o])]

(* More turns than the loop ever takes (PropagationEnds).                  *)
ChainBound == 2 * Cardinality(Threads)

(* _thread_update_priority from lists q, mutex priorities mp and ceilings  *)
(* cl.                                                                     *)
ThreadUpdatePriority(t, prio, q, mp, cl) ==
  LET start == [t |-> t, go |-> TRUE, fault |-> FALSE, susp |-> q, mprio |-> mp,
                ceil |-> cl, curr |-> [curr EXCEPT ![t] = prio]]
      chain[n \in 0..ChainBound] ==
        IF n = 0 THEN start ELSE PropagateStep(chain[n - 1])
  IN  chain[ChainBound]

(* Nothing to propagate.                                                   *)
Settled(q, mp) == [fault |-> FALSE, susp |-> q, mprio |-> mp, curr |-> curr]

Apply(s) ==
  /\ susp' = s.susp
  /\ mprio' = s.mprio
  /\ curr' = s.curr
  /\ halted' = s.fault

-------------------------------------------------------------------------------
(* _rt_mutex_take.                                                         *)

TakeNested(t, m) ==
  /\ Enter(t, m)
  /\ owner[m] = t
  /\ hold[m] < RT_MUTEX_HOLD_MAX
  /\ hold' = [hold EXCEPT ![m] = @ + 1]
  /\ granted' = [granted EXCEPT ![t][m] = @ + 1]
  /\ error' = [error EXCEPT ![t] = "EOK"]
  /\ UNCHANGED <<stat, ttmr, tmr, isr, halted, owner, mprio, ceil, alive, susp, lock>>
  /\ UNCHANGED <<curr, pending, pc, at, timed>>

TakeFree(t, m) ==
  /\ Enter(t, m)
  /\ owner[m] = NoThread
  /\ owner' = [owner EXCEPT ![m] = t]
  /\ mprio' = [mprio EXCEPT ![m] = NoPrio]
  /\ hold' = [hold EXCEPT ![m] = 1]
  /\ curr' = [curr EXCEPT ![t] = Lesser(ceil[m], @)]
  /\ granted' = [granted EXCEPT ![t][m] = 1]
  /\ error' = [error EXCEPT ![t] = "EOK"]
  /\ UNCHANGED <<stat, ttmr, tmr, isr, halted, ceil, alive, susp, lock>>
  /\ UNCHANGED <<pending, pc, at, timed>>

TakeSuspend(t, m, timeout) ==
  /\ Enter(t, m)
  /\ owner[m] \notin {t, NoThread}
  /\ error' = [error EXCEPT ![t] = "EOK"]
  /\ SuspendSelf(t)
  /\ susp' = [susp EXCEPT ![m] = SuspListEnqueue(@, t, "PRIO", curr)]
  /\ lock' = [lock EXCEPT ![m] = t]
  /\ at' = [at EXCEPT ![t] = m]
  /\ timed' = [timed EXCEPT ![t] = timeout = "timed"]
  /\ Goto(t, "pend")
  /\ UNCHANGED <<isr, halted, owner, hold, mprio, ceil, alive, curr, pending, granted>>

(* The store of pending_object, outside the scheduler lock.                *)
TakePend(t) ==
  /\ At(t, "pend")
  /\ pending' = [pending EXCEPT ![t] = at[t]]
  /\ Goto(t, "boost")
  /\ UNCHANGED <<threadVars, mutexVars, curr, at, timed, granted>>

(* Fault: only the priority of the mutex is updated.                       *)
TakeNoBoost(t) ==
  LET m == at[t]
      mp == [mprio EXCEPT ![m] = Lesser(curr[t], @)]
  IN  /\ At(t, "boost")
      /\ Apply(Settled(susp, mp))
      /\ Goto(t, IF timed[t] THEN "arm" ELSE "waiting")
      /\ lock' = [lock EXCEPT ![m] = IF timed[t] THEN t ELSE NoThread]
      /\ UNCHANGED <<stat, ttmr, tmr, error, isr, owner, hold, ceil, alive>>
      /\ UNCHANGED <<pending, at, timed, granted>>

(* The owner inherits the priority of the waiter.                          *)
TakeBoost(t) ==
  LET m == at[t]
      mp == [mprio EXCEPT ![m] = Lesser(curr[t], @)]
  IN  /\ At(t, "boost")
      /\ Apply(IF curr[t] < mprio[m] /\ curr[t] < curr[owner[m]]
                 THEN ThreadUpdatePriority(owner[m], curr[t], susp, mp, ceil)
                 ELSE Settled(susp, mp))
      /\ Goto(t, IF timed[t] THEN "arm" ELSE "waiting")
      /\ lock' = [lock EXCEPT ![m] = IF timed[t] THEN t ELSE NoThread]
      /\ UNCHANGED <<stat, ttmr, tmr, error, isr, owner, hold, ceil, alive>>
      /\ UNCHANGED <<pending, at, timed, granted>>

TakeArm(t) ==
  /\ At(t, "arm")
  /\ TimerStart(t)
  /\ Goto(t, "waiting")
  /\ lock' = [lock EXCEPT ![at[t]] = NoThread]
  /\ UNCHANGED <<stat, error, isr, halted, owner, hold, mprio, ceil, alive, susp>>
  /\ UNCHANGED <<curr, pending, at, timed, granted>>

(* t runs again and gets the spinlock back.                                *)
Resumes(t) == At(t, "waiting") /\ stat[t] = "READY" /\ lock[at[t]] = NoThread

Leave(t) ==
  /\ Goto(t, "idle")
  /\ at' = [at EXCEPT ![t] = NoMutex]
  /\ timed' = [timed EXCEPT ![t] = FALSE]

(* Fault: a woken thread believes that it has the mutex.                   *)
TakeTrustsWakeUp(t) ==
  /\ Resumes(t)
  /\ granted' = [granted EXCEPT ![t][at[t]] = 1]
  /\ Leave(t)
  /\ UNCHANGED <<threadVars, mutexVars, curr, pending>>

(* It is the owner; RT_ASSERT(thread->error == RT_EOK).  If the mutex was  *)
(* detached since the hand-off, RT_EOK is worth nothing.                   *)
TakeGranted(t) ==
  /\ Resumes(t)
  /\ owner[at[t]] = t
  /\ halted' = (error[t] # "EOK")
  /\ granted' = [granted EXCEPT ![t][at[t]] = IF at[t] \in alive THEN 1 ELSE 0]
  /\ Leave(t)
  /\ UNCHANGED <<stat, ttmr, tmr, error, isr, mutexVars, curr, pending>>

(* The priorities of m and of its owner are computed again without t, who  *)
(* no longer waits for it.                                                 *)
Withdraw(t, m) ==
  LET o == owner[m]
      mp == [mprio EXCEPT ![m] = HeadPriority(susp[m], curr)]
      p == MutexPriority(o, Taken(o), mp, ceil)
  IN  Apply(IF o # NoThread /\ curr[o] = curr[t] /\ p # curr[o]
              THEN ThreadUpdatePriority(o, p, susp, mp, ceil)
              ELSE Settled(susp, mp))

(* It is not the owner, and gives up.  pending_object is cleared after the *)
(* unlock; nobody looks at it while the thread is not suspended.           *)
TakeGivenUp(t) ==
  /\ Resumes(t)
  /\ owner[at[t]] # t
  /\ Withdraw(t, at[t])
  /\ pending' = [pending EXCEPT ![t] = NoMutex]
  /\ Leave(t)
  /\ UNCHANGED <<stat, ttmr, tmr, error, isr, owner, hold, ceil, alive, lock, granted>>

-------------------------------------------------------------------------------
(* rt_mutex_release.                                                       *)

ReleaseNested(t, m) ==
  /\ Enter(t, m)
  /\ owner[m] = t
  /\ hold[m] > 1
  /\ hold' = [hold EXCEPT ![m] = @ - 1]
  /\ granted' = [granted EXCEPT ![t][m] = @ - 1]
  /\ UNCHANGED <<threadVars, owner, mprio, ceil, alive, susp, lock>>
  /\ UNCHANGED <<curr, pending, pc, at, timed>>

(* _check_and_update_prio for a thread that has just lost m.               *)
RestoredPrio(t, m) ==
  IF ceil[m] # NoPrio \/ curr[t] = mprio[m]
    THEN [curr EXCEPT ![t] = MutexPriority(t, Taken(t) \ {m}, mprio, ceil)]
    ELSE curr

(* The waiters at the head of q whose timeout is running: they are taken   *)
(* off the list and passed over.                                           *)
Skipped(q) == CHOOSE k \in 0..Len(q) :
                /\ \A i \in 1..k : ~ReadyOK(q[i])
                /\ k = Len(q) \/ ReadyOK(q[k + 1])

(* t gives m up: the first n waiters are taken off the list, all of them   *)
(* are tried, and next (perhaps nobody) becomes the owner.                 *)
HandOver(t, m, n, next) ==
  LET rest == SubSeq(susp[m], n + 1, Len(susp[m]))
      tried == {susp[m][i] : i \in 1..n}
      prio == RestoredPrio(t, m)
  IN  /\ curr' = prio
      /\ stat' = [u \in Threads |-> IF u \in tried /\ ReadyOK(u) THEN "READY" ELSE stat[u]]
      /\ tmr' = [u \in Threads |-> tmr[u] /\ ~(u \in tried /\ ttmr[u])]
      /\ ttmr' = [u \in Threads |-> ttmr[u] /\ u \notin tried]
      /\ susp' = [susp EXCEPT ![m] = rest]
      /\ owner' = [owner EXCEPT ![m] = next]
      /\ hold' = [hold EXCEPT ![m] = IF next = NoThread THEN 0 ELSE 1]
      /\ mprio' = [mprio EXCEPT ![m] = HeadPriority(rest, prio)]
      /\ pending' = [u \in Threads |-> IF u = next THEN NoMutex ELSE pending[u]]
      /\ granted' = [granted EXCEPT ![t][m] = 0]
      /\ UNCHANGED <<error, isr, halted, ceil, alive, lock, pc, at, timed>>

(* The owner releases the mutex for the last time.                         *)
LastHold(t, m) == Enter(t, m) /\ owner[m] = t /\ hold[m] = 1

(* Fault: the head of the list is the new owner, woken or not.             *)
ReleaseToHead(t, m) ==
  /\ LastHold(t, m)
  /\ IF susp[m] = <<>> THEN HandOver(t, m, 0, NoThread)
                       ELSE HandOver(t, m, 1, Head(susp[m]))

(* Fault: no second try when the first waiter cannot be woken.             *)
ReleaseTriesOnce(t, m) ==
  LET n == IF susp[m] = <<>> THEN 0 ELSE 1
  IN  /\ LastHold(t, m)
      /\ HandOver(t, m, n, IF n = 1 /\ ReadyOK(Head(susp[m])) THEN Head(susp[m]) ELSE NoThread)

(* The first waiter that can be woken is the new owner.                    *)
PassOn(t, m) ==
  LET k == Skipped(susp[m])
  IN  IF k = Len(susp[m]) THEN HandOver(t, m, k, NoThread)
                          ELSE HandOver(t, m, k + 1, susp[m][k + 1])

ReleaseLast(t, m) == LastHold(t, m) /\ PassOn(t, m)

-------------------------------------------------------------------------------
(* rt_mutex_setprioceiling.                                                *)
SetPrioCeiling(t, m, c) ==
  LET o == owner[m]
      cl == [ceil EXCEPT ![m] = c]
      p == MutexPriority(o, Taken(o), mprio, cl)
  IN  /\ Enter(t, m)
      /\ ceil' = cl
      /\ Apply(IF o # NoThread /\ p # curr[o]
                 THEN ThreadUpdatePriority(o, p, susp, mprio, cl)
                 ELSE Settled(susp, mprio))
      /\ UNCHANGED <<stat, ttmr, tmr, error, isr, owner, hold, alive, lock>>
      /\ UNCHANGED <<pending, callVars>>

-------------------------------------------------------------------------------
(* rt_mutex_detach and rt_mutex_delete: rt_susp_list_resume_all, one waiter *)
(* in each section, until the dequeue fails.                               *)
Detach(t, m) ==
  /\ Enter(t, m)
  /\ lock' = [lock EXCEPT ![m] = t]
  /\ at' = [at EXCEPT ![t] = m]
  /\ Goto(t, "detach")
  /\ UNCHANGED <<threadVars, owner, hold, mprio, ceil, alive, susp>>
  /\ UNCHANGED <<curr, pending, timed, granted>>

DequeueOK(m) == susp[m] # <<>> /\ ReadyOK(Head(susp[m]))

DetachStep(t) ==
  LET m == at[t]
  IN  /\ At(t, "detach")
      /\ DequeueOK(m)
      /\ ThreadReady(Head(susp[m]))
      /\ error' = [error EXCEPT ![Head(susp[m])] = "ERROR"]
      /\ susp' = [susp EXCEPT ![m] = Tail(@)]
      /\ UNCHANGED <<isr, halted, owner, hold, mprio, ceil, alive, lock>>
      /\ UNCHANGED <<curr, pending, callVars>>

(* The owner loses the mutex, and what it inherited through it.            *)
DetachDone(t) ==
  LET m == at[t]
  IN  /\ At(t, "detach")
      /\ ~DequeueOK(m)
      /\ IF susp[m] = <<>> THEN UNCHANGED <<stat, ttmr, tmr>>
                           ELSE ThreadReady(Head(susp[m]))
      /\ curr' = IF owner[m] = NoThread THEN curr ELSE RestoredPrio(owner[m], m)
      /\ alive' = alive \ {m}
      /\ granted' = [u \in Threads |-> [granted[u] EXCEPT ![m] = 0]]
      /\ lock' = [lock EXCEPT ![m] = NoThread]
      /\ Leave(t)
      /\ UNCHANGED <<error, isr, halted, owner, hold, mprio, ceil, susp, pending>>

(* rt_mutex_init of a mutex that was detached and is not in use any more.  *)
MutexInit(m) ==
  /\ ~halted
  /\ m \notin alive
  /\ \A t \in Threads : at[t] # m
  /\ alive' = alive \cup {m}
  /\ owner' = [owner EXCEPT ![m] = NoThread]
  /\ hold' = [hold EXCEPT ![m] = 0]
  /\ mprio' = [mprio EXCEPT ![m] = NoPrio]
  /\ ceil' = [ceil EXCEPT ![m] = NoPrio]
  /\ UNCHANGED <<threadVars, susp, lock, curr, pending, callVars>>

-------------------------------------------------------------------------------
(* The end of a thread: _thread_exit, rt_thread_detach, rt_thread_delete.  *)

(* rt_thread_close takes the thread off any list and stops its timer.      *)
Close(t) ==
  /\ stat' = [stat EXCEPT ![t] = "CLOSE"]
  /\ tmr' = [tmr EXCEPT ![t] = FALSE]
  /\ susp' = [m \in Mutexes |-> ListRemove(susp[m], t)]
  /\ UNCHANGED <<ttmr, error, isr, halted, mprio, lock, ceil, alive, curr>>

Exit(t) ==
  /\ At(t, "idle")
  /\ stat[t] = "READY"
  /\ Close(t)
  /\ Goto(t, "exit")
  /\ UNCHANGED <<owner, hold, pending, at, timed, granted>>

(* An exiting thread releases its mutexes, however often it took them; in  *)
(* which order is left open.                                               *)
ExitRelease(t, m) ==
  /\ At(t, "exit")
  /\ m \in Taken(t)
  /\ lock[m] = NoThread
  /\ PassOn(t, m)

(* Another thread, or one outside the model, deletes t while t is not      *)
(* inside a section.  It tries to release the mutexes of t, which only     *)
(* their owner can: hold is set to 1 and the mutex stays with the dead.    *)
Delete(t) ==
  /\ At(t, "idle") \/ At(t, "waiting")
  /\ stat[t] # "CLOSE"
  /\ Close(t)
  /\ Goto(t, IF pending[t] = NoMutex THEN "deleted" ELSE "drop")
  /\ hold' = [m \in Mutexes |-> IF m \in Taken(t) THEN 1 ELSE hold[m]]
  /\ granted' = [granted EXCEPT ![t] = [m \in Mutexes |-> 0]]
  /\ UNCHANGED <<owner, pending, at, timed>>

(* rt_mutex_drop_thread for the mutex t waited for.                        *)
DropThread(t) ==
  /\ At(t, "drop")
  /\ lock[pending[t]] = NoThread
  /\ Withdraw(t, pending[t])
  /\ pending' = [pending EXCEPT ![t] = NoMutex]
  /\ Goto(t, "deleted")
  /\ UNCHANGED <<stat, ttmr, tmr, error, isr, owner, hold, ceil, alive, lock>>
  /\ UNCHANGED <<at, timed, granted>>

(* The thread is created anew, in the place of one that is freed.          *)
Create(t) ==
  /\ At(t, "exit") \/ At(t, "deleted")
  /\ Taken(t) = {} /\ isr # t
  /\ stat' = [stat EXCEPT ![t] = "READY"]
  /\ ttmr' = [ttmr EXCEPT ![t] = FALSE]
  /\ error' = [error EXCEPT ![t] = "EOK"]
  /\ curr' = [curr EXCEPT ![t] = InitPrio[t]]
  /\ Leave(t)
  /\ UNCHANGED <<tmr, isr, halted, mutexVars, pending, granted>>

-------------------------------------------------------------------------------
(* Timeouts, and rt_thread_resume on a waiter.                             *)

Expire(t) == TimerExpire(t) /\ UNCHANGED <<mutexVars, curr, pending, callVars>>

Timeout ==
  /\ ThreadTimeout
  /\ susp' = [m \in Mutexes |-> ListRemove(susp[m], isr)]
  /\ UNCHANGED <<owner, hold, mprio, ceil, alive, lock, curr, pending, callVars>>

TimeoutAssertFails ==
  ThreadTimeoutAssertFails /\ UNCHANGED <<mutexVars, curr, pending, callVars>>

ThreadResume(t) ==
  /\ ~halted
  /\ stat[t] = "SUSPEND"
  /\ ThreadReady(t)
  /\ susp' = IF ReadyOK(t) THEN [m \in Mutexes |-> ListRemove(susp[m], t)] ELSE susp
  /\ UNCHANGED <<error, isr, halted>>
  /\ UNCHANGED <<owner, hold, mprio, ceil, alive, lock, curr, pending, callVars>>

-------------------------------------------------------------------------------
(* The lock order that callers keep; with equal ranks, none.               *)
InOrder(t, m) == \A x \in Taken(t) : Rank[x] <= Rank[m]

Call(t) == \E m \in Mutexes :
  \/ TakeNested(t, m)
  \/ InOrder(t, m) /\ TakeFree(t, m)
  \/ InOrder(t, m) /\ \E timeout \in Timeouts : TakeSuspend(t, m, timeout)
  \/ ReleaseNested(t, m)
  \/ ReleaseLast(t, m)
  \/ \E c \in Ceilings : SetPrioCeiling(t, m, c)
  \/ "detach" \in Ops /\ Detach(t, m)

Continue(t) ==
  \/ TakePend(t)
  \/ TakeBoost(t)
  \/ TakeArm(t)
  \/ TakeGranted(t)
  \/ TakeGivenUp(t)
  \/ DetachStep(t)
  \/ DetachDone(t)

End(t) ==
  \/ "exit" \in Ops /\ t \in Mortal /\ Exit(t)
  \/ \E m \in Mutexes : ExitRelease(t, m)
  \/ "delete" \in Ops /\ t \in Mortal /\ Delete(t)
  \/ DropThread(t)
  \/ Create(t)

Next ==
  \/ \E t \in Threads : Call(t) \/ Continue(t) \/ End(t) \/ Expire(t)
  \/ \E m \in Mutexes : MutexInit(m)
  \/ Timeout
  \/ TimeoutAssertFails
  \/ "resume" \in Ops /\ \E t \in Threads : ThreadResume(t)

Spec == Init /\ [][Next]_vars

-------------------------------------------------------------------------------
(* Ownership as the callers see it: a thread whose take returned RT_EOK is *)
(* the owner until its matching release, as many times over as hold says,  *)
(* whatever timeouts and hand-offs do meanwhile.                           *)
OwnershipHonoured ==
  \A t \in Threads, m \in Mutexes :
    granted[t][m] > 0 => owner[m] = t /\ hold[m] = granted[t][m]

(* A mutex has an owner who knows: it was granted the mutex, or is awake   *)
(* and about to find out, with no error pending.  A thread that exits      *)
(* gives all its mutexes away.  Not so one that is deleted by another: its *)
(* mutexes are lost.                                                       *)
HandedOver ==
  \A m \in alive : LET o == owner[m] IN
    o # NoThread /\ ~halted =>
      \/ granted[o][m] > 0
      \/ pc[o] = "waiting" /\ at[o] = m /\ stat[o] = "READY" /\ error[o] = "EOK"
      \/ pc[o] \in {"drop", "deleted"}

(* Nobody sleeps for a mutex that is free.                                 *)
NoSleeperAtFreeMutex ==
  \A m \in Mutexes : owner[m] = NoThread => Queued(susp[m]) \subseteq {isr}

(* The walk along the chain of owners, which holds the scheduler lock of   *)
(* all CPUs, comes to an end whatever priority it starts with, also when   *)
(* threads wait for each other in a circle.                                *)
PropagationEnds ==
  \A m \in Mutexes, t \in Threads :
    owner[m] # NoThread => ~ThreadUpdatePriority(owner[m], curr[t], susp, mprio, ceil).go

(* The lists of waiters are in order of priority.                          *)
QueueByPriority ==
  \A m \in Mutexes : \A i, j \in 1..Len(susp[m]) :
    i < j => curr[susp[m][i]] <= curr[susp[m][j]]

(* t is on a list, but its pending_object does not say on which yet.       *)
HalfMade(t) == stat[t] = "SUSPEND" /\ pending[t] = NoMutex

(* The lists stay in order of priority (_thread_update_priority,           *)
(* rt_susp_list_enqueue): whoever's boost, withdrawal, ceiling or hand-off *)
(* gives a waiter another priority, on any of the mutexes along the chain  *)
(* of owners, the waiter is moved to its new place in the same section.    *)
(* The code loses the order in two ways only: a walk reaches a waiter that *)
(* is half made and cannot move it, and _mutex_before_delete_detach takes  *)
(* an inherited priority back from an owner that itself waits, but leaves  *)
(* that owner where it is in its list.                                     *)
OrderKept ==
  [][(/\ QueueByPriority
      /\ \A t \in Threads : HalfMade(t) => curr'[t] = curr[t]
      /\ \A m \in alive \ alive' : owner[m] # NoThread => stat[owner[m]] # "SUSPEND")
     => QueueByPriority']_vars

(* No call is between two of its sections.                                 *)
Quiet == isr = NoThread /\ ~halted
         /\ \A t \in Threads : pc[t] \in {"idle", "waiting"}
                               /\ (pc[t] = "waiting" => stat[t] = "SUSPEND")

(* Priority inheritance: in a quiet state no owner is less urgent than a   *)
(* thread that waits for it, directly or along a chain.                    *)
PriorityInherited ==
  Quiet => \A m \in Mutexes : \A t \in Queued(susp[m]) : curr[owner[m]] <= curr[t]
===============================================================================

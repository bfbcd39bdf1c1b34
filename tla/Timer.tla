--------------------------------- MODULE Timer ---------------------------------
(***************************************************************************)
(* The timers of rt-thread/src/timer.c, built with RT_USING_TIMER_SOFT and *)
(* a skip list of one level: a list of hard timers, served by the tick     *)
(* interrupt on CPU 0, and a list of soft timers, served by a thread that  *)
(* the interrupt wakes through a semaphore of limit 1.  Each list has its  *)
(* spinlock.  Callbacks run without it, so that everything may be done to  *)
(* the timer meanwhile, by its callback or by another CPU; a timer in its  *)
(* callback is on a temporary list, which tells whether that was so.       *)
(*                                                                         *)
(* Ticks are counted modulo RT_TICK_MAX + 1.  left is a history variable:  *)
(* the ticks every timer really has left, whatever the width of the tick.  *)
(* The timeout of a timer that is on no list is forgotten: it is computed  *)
(* anew before a list is looked at (RT_TIMER_CTRL_GET_REMAIN_TIME, which   *)
(* reports it, is left out, as are the other queries).                     *)
(* Times are positive: a periodic timer of time 0 would be served for ever *)
(* by one and the same interrupt.                                          *)
(***************************************************************************)
EXTENDS RtList, FiniteSets

CONSTANTS
  Hard, Soft,     \* the timers of the two kinds
  NoTimer,
  RT_TICK_MAX,
  MaxTimers,      \* bound: timers that exist at a time
  MaxLate,        \* the ticks by which a soft timer may be overdue
  Times           \* the times callers pass

Half == RT_TICK_MAX \div 2

ASSUME TickAssumption == RT_TICK_MAX \in Nat /\ Half > 1
ASSUME TimesAssumption == Times \subseteq 1..(Half - 1)
ASSUME BoundAssumption == MaxTimers \in Nat
ASSUME TimersAssumption == NoTimer \notin Hard \cup Soft /\ Hard \cap Soft = {}

(* What the comparisons of timeouts suppose: none is overdue by half the   *)
(* range of the tick, and none is inserted more than half the range after  *)
(* one that is overdue.                                                    *)
ASSUME LateAssumption ==
  /\ MaxLate \in 0..(Half - 1)
  /\ \A time \in Times : time + MaxLate <= RT_TICK_MAX + 1 - Half

Timers == Hard \cup Soft
Kinds == {"hard", "soft"}

VARIABLES
  tick,           \* rt_tick_get()
  list,           \* _timer_list and _soft_timer_list
  lock,           \* the timer whose start holds the list's lock, or NoTimer
  activated,      \* RT_TIMER_FLAG_ACTIVATED
  periodic,       \* RT_TIMER_FLAG_PERIODIC
  init_tick,      \* 0 while the timer is not initialised
  timeout_tick,
  at,             \* where the interrupt and the timer thread are
  cur,            \* the timer in its callback, or NoTimer
  temp,           \* is it still on the temporary list
  sem,            \* value of _soft_timer_sem
  left,           \* history: the ticks a started timer has left
  stopped         \* history: not started since init, stop or detach

flagVars == <<activated, periodic, init_tick, timeout_tick>>
checkVars == <<at, cur, temp, sem>>
vars == <<tick, list, lock, flagVars, checkVars, left, stopped>>

Kind(t) == IF t \in Hard THEN "hard" ELSE "soft"

(* Arithmetic of rt_tick_t.                                                *)
Wrap(n) == n % (RT_TICK_MAX + 1)

Listed == {t \in Timers : \E i \in 1..Len(list[Kind(t)]) : list[Kind(t)][i] = t}

Init ==
  /\ tick = 0
  /\ list = [k \in Kinds |-> <<>>]
  /\ lock = [k \in Kinds |-> NoTimer]
  /\ activated = [t \in Timers |-> FALSE]
  /\ periodic = [t \in Timers |-> FALSE]
  /\ init_tick = [t \in Timers |-> 0]
  /\ timeout_tick = [t \in Timers |-> 0]
  /\ at = [k \in Kinds |-> IF k = "hard" THEN "idle" ELSE "check"]
  /\ cur = [k \in Kinds |-> NoTimer]
  /\ temp = [k \in Kinds |-> FALSE]
  /\ sem = 0
  /\ left = [t \in Timers |-> 0]
  /\ stopped = [t \in Timers |-> TRUE]

-------------------------------------------------------------------------------
(* _timer_remove takes the timer off whatever list it is on.               *)
Without(l, t) == ListRemove(l, t)

Remove(t) ==
  /\ list' = [list EXCEPT ![Kind(t)] = Without(@, t)]
  /\ temp' = [temp EXCEPT ![Kind(t)] = @ /\ cur[Kind(t)] # t]

(* Fault: timeouts are compared as plain numbers.                          *)
LaterPlain(n, m) == n > m

(* The timeout n is after m, if both lie within half the range.            *)
Later(n, m) == LET d == Wrap(n - m) IN d # 0 /\ d < Half

(* The sorted insertion of _timer_start: in front of the first timer with  *)
(* a later timeout.                                                        *)
Insert(l, t, timeout) ==
  LET before == {i \in 1..Len(l) : \A j \in 1..i : ~Later(timeout_tick[l[j]], timeout)}
      n == Cardinality(before)
  IN  SubSeq(l, 1, n) \o <<t>> \o SubSeq(l, n + 1, Len(l))

-------------------------------------------------------------------------------
(* The calls.  They run on any CPU, in callbacks too.                      *)

Locked(t) == init_tick[t] # 0 /\ lock[Kind(t)] = NoTimer

(* rt_timer_init and rt_timer_create; a new or detached timer is inactive  *)
(* and its timeout 0.                                                      *)
TimerInit(t, time, per) ==
  /\ init_tick[t] = 0
  /\ Cardinality({u \in Timers : init_tick[u] # 0}) < MaxTimers
  /\ init_tick' = [init_tick EXCEPT ![t] = time]
  /\ periodic' = [periodic EXCEPT ![t] = per]
  /\ UNCHANGED <<tick, list, lock, activated, timeout_tick, checkVars, left, stopped>>

(* Fault: a timer that is started again is not taken off its list.         *)
StartTwice(t) ==
  /\ Locked(t)
  /\ lock' = [lock EXCEPT ![Kind(t)] = t]
  /\ activated' = [activated EXCEPT ![t] = FALSE]
  /\ timeout_tick' = [timeout_tick EXCEPT ![t] = Wrap(tick + init_tick[t])]
  /\ left' = [left EXCEPT ![t] = init_tick[t]]
  /\ stopped' = [stopped EXCEPT ![t] = FALSE]
  /\ UNCHANGED <<tick, list, temp, periodic, init_tick, at, cur, sem>>

(* rt_timer_start, up to the read of the tick ...                          *)
Start(t) ==
  /\ Locked(t)
  /\ lock' = [lock EXCEPT ![Kind(t)] = t]
  /\ Remove(t)
  /\ activated' = [activated EXCEPT ![t] = FALSE]
  /\ timeout_tick' = [timeout_tick EXCEPT ![t] = Wrap(tick + init_tick[t])]
  /\ left' = [left EXCEPT ![t] = init_tick[t]]
  /\ stopped' = [stopped EXCEPT ![t] = FALSE]
  /\ UNCHANGED <<tick, periodic, init_tick, at, cur, sem>>

(* ... and the insertion, which a tick may precede.                        *)
StartInsert(t) ==
  /\ lock[Kind(t)] = t
  /\ lock' = [lock EXCEPT ![Kind(t)] = NoTimer]
  /\ list' = [list EXCEPT ![Kind(t)] = Insert(@, t, timeout_tick[t])]
  /\ activated' = [activated EXCEPT ![t] = TRUE]
  /\ UNCHANGED <<tick, periodic, init_tick, timeout_tick, checkVars, left, stopped>>

Forget(t) ==
  /\ timeout_tick' = [timeout_tick EXCEPT ![t] = 0]
  /\ left' = [left EXCEPT ![t] = 0]

Deactivate(t) ==
  /\ Remove(t)
  /\ Forget(t)
  /\ activated' = [activated EXCEPT ![t] = FALSE]
  /\ stopped' = [stopped EXCEPT ![t] = TRUE]
  /\ UNCHANGED <<tick, lock, periodic, at, cur, sem>>

Stop(t) ==
  /\ Locked(t)
  /\ activated[t]
  /\ Deactivate(t)
  /\ UNCHANGED init_tick

(* rt_timer_detach and rt_timer_delete.                                    *)
Detach(t) ==
  /\ Locked(t)
  /\ Deactivate(t)
  /\ init_tick' = [init_tick EXCEPT ![t] = 0]

(* RT_TIMER_CTRL_SET_TIME stops a timer that is active.                    *)
SetTime(t, time) ==
  /\ Locked(t)
  /\ init_tick' = [init_tick EXCEPT ![t] = time]
  /\ IF activated[t]
       THEN Deactivate(t)
       ELSE UNCHANGED <<tick, list, lock, activated, periodic, timeout_tick,
                        checkVars, left, stopped>>

(* RT_TIMER_CTRL_SET_ONESHOT and RT_TIMER_CTRL_SET_PERIODIC.               *)
SetPeriodic(t, per) ==
  /\ Locked(t)
  /\ periodic' = [periodic EXCEPT ![t] = per]
  /\ UNCHANGED <<tick, list, lock, activated, init_tick, timeout_tick,
                 checkVars, left, stopped>>

-------------------------------------------------------------------------------
(* The tick interrupt on CPU 0: rt_tick_increase and rt_timer_check.  The  *)
(* next one comes after this one has returned.  A section under a lock is  *)
(* shorter than a tick, so a start sees one tick at most.                  *)

(* The timer thread is not further behind than _timer_start and            *)
(* _timer_check suppose.                                                   *)
InTime == \A t \in Listed : left[t] > -MaxLate

(* Fault: the thread is woken only in the tick of the timeout.             *)
DueNow ==
  /\ list["soft"] # <<>>
  /\ timeout_tick[Head(list["soft"])] = Wrap(tick + 1)

(* The head of the soft list is read without its lock and compared with    *)
(* the new tick as plain numbers.                                          *)
DueByNumber ==
  /\ list["soft"] # <<>>
  /\ timeout_tick[Head(list["soft"])] <= Wrap(tick + 1)

(* rt_sem_release on a semaphore of limit 1.                               *)
Release(value) == IF value < 1 THEN value + 1 ELSE value

(* What comes between the increment of the tick and the look at the soft   *)
(* list might as well come before or after both.                           *)
Tick ==
  /\ at["hard"] = "idle"
  /\ \A k \in Kinds : lock[k] # NoTimer => left[lock[k]] = init_tick[lock[k]]
  /\ InTime
  /\ tick' = Wrap(tick + 1)
  /\ left' = [t \in Timers |-> IF t \in Listed \/ lock[Kind(t)] = t
                               THEN left[t] - 1 ELSE left[t]]
  /\ sem' = IF DueByNumber THEN Release(sem) ELSE sem
  /\ at' = [at EXCEPT !["hard"] = "check"]
  /\ UNCHANGED <<list, lock, flagVars, cur, temp, stopped>>

-------------------------------------------------------------------------------
(* _timer_check, by the interrupt and by the timer thread.                 *)

(* Fault: the current tick is no longer part of the timeout.               *)
DueLate(t) == LET d == Wrap(tick - timeout_tick[t]) IN d # 0 /\ d < Half

Due(t) == Wrap(tick - timeout_tick[t]) < Half

HeadDue(k) == list[k] # <<>> /\ Due(Head(list[k]))

AtCheck(k) == at[k] = "check" /\ lock[k] = NoTimer

Expire(k) ==
  LET t == Head(list[k])
  IN  /\ AtCheck(k)
      /\ HeadDue(k)
      /\ list' = [list EXCEPT ![k] = Tail(@)]
      /\ activated' = [activated EXCEPT ![t] = periodic[t]]
      /\ at' = [at EXCEPT ![k] = "callback"]
      /\ cur' = [cur EXCEPT ![k] = t]
      /\ temp' = [temp EXCEPT ![k] = TRUE]
      /\ Forget(t)
      /\ UNCHANGED <<tick, lock, periodic, init_tick, sem, stopped>>

(* The interrupt returns, or the thread goes to take the semaphore.        *)
CheckDone(k) ==
  /\ AtCheck(k)
  /\ ~HeadDue(k)
  /\ at' = [at EXCEPT ![k] = IF k = "hard" THEN "idle" ELSE "take"]
  /\ UNCHANGED <<tick, list, lock, flagVars, cur, temp, sem, left, stopped>>

(* Fault: a periodic timer is started again whatever became of it.         *)
RestartPeriodic(k) == periodic[cur[k]]

(* Is the timer, back from its callback, to be started again?  Not if it   *)
(* has left the temporary list: it was stopped, detached or started.       *)
Restart(k) == temp[k] /\ periodic[cur[k]] /\ activated[cur[k]]

(* The timer thread looks at the list again after it has restarted the     *)
(* timer, so that no tick goes unnoticed in between.                       *)
CallbackReturn(k) ==
  LET t == cur[k]
      timeout == Wrap(tick + init_tick[t])
  IN  /\ at[k] = "callback"
      /\ lock[k] = NoTimer
      /\ at' = [at EXCEPT ![k] = "check"]
      /\ cur' = [cur EXCEPT ![k] = NoTimer]
      /\ temp' = [temp EXCEPT ![k] = FALSE]
      /\ IF Restart(k)
           THEN /\ timeout_tick' = [timeout_tick EXCEPT ![t] = timeout]
                /\ list' = [list EXCEPT ![k] = Insert(Without(@, t), t, timeout)]
                /\ activated' = [activated EXCEPT ![t] = TRUE]
                /\ left' = [left EXCEPT ![t] = init_tick[t]]
           ELSE UNCHANGED <<timeout_tick, list, activated, left>>
      /\ UNCHANGED <<tick, lock, periodic, init_tick, sem, stopped>>

(* The timer thread gets the semaphore.                                    *)
Take ==
  /\ at["soft"] = "take"
  /\ sem = 1
  /\ sem' = 0
  /\ at' = [at EXCEPT !["soft"] = "check"]
  /\ UNCHANGED <<tick, list, lock, flagVars, cur, temp, left, stopped>>

-------------------------------------------------------------------------------
Call(t) ==
  \/ \E time \in Times, per \in BOOLEAN : TimerInit(t, time, per)
  \/ Start(t)
  \/ Stop(t)
  \/ Detach(t)
  \/ \E time \in Times : SetTime(t, time)
  \/ \E per \in BOOLEAN : SetPeriodic(t, per)

Check(k) == Expire(k) \/ CheckDone(k) \/ CallbackReturn(k)

Next ==
  \/ \E t \in Timers : Call(t) \/ StartInsert(t)
  \/ Tick
  \/ \E k \in Kinds : Check(k)
  \/ Take

Spec == Init /\ [][Next]_vars

-------------------------------------------------------------------------------
(* Types; the semaphore of the timer thread stays at 0 or 1, and the timer *)
(* thread is never further behind than the comparisons allow.              *)
TypeOK ==
  /\ tick \in 0..RT_TICK_MAX
  /\ list \in [Kinds -> Seq(Timers)]
  /\ lock \in [Kinds -> Timers \cup {NoTimer}]
  /\ activated \in [Timers -> BOOLEAN]
  /\ periodic \in [Timers -> BOOLEAN]
  /\ init_tick \in [Timers -> Times \cup {0}]
  /\ timeout_tick \in [Timers -> 0..RT_TICK_MAX]
  /\ at \in [Kinds -> {"idle", "check", "callback", "take"}]
  /\ cur \in [Kinds -> Timers \cup {NoTimer}]
  /\ temp \in [Kinds -> BOOLEAN]
  /\ sem \in {0, 1}
  /\ left \in [Timers -> (-MaxLate)..(Half - 1)]
  /\ stopped \in [Timers -> BOOLEAN]

(* A timer is on the list of its kind at most once, and on the temporary   *)
(* list at most instead, whatever is done to it during its callback.       *)
ListedOnce ==
  \A k \in Kinds :
    /\ \A i, j \in 1..Len(list[k]) : list[k][i] = list[k][j] => i = j
    /\ \A i \in 1..Len(list[k]) : Kind(list[k][i]) = k /\ activated[list[k][i]]
    /\ temp[k] => cur[k] \notin Listed

(* The lists are sorted by the time the timers really have left, across    *)
(* the wrap-around of the tick and with timers that are overdue.           *)
SortedByTimeLeft ==
  \A k \in Kinds : \A i, j \in 1..Len(list[k]) :
    i < j => left[list[k][i]] <= left[list[k][j]]

(* No callback is called early, and none of a hard timer late: it is       *)
(* called in the interrupt of the very tick it asked for, also if several  *)
(* are due, are restarted or stopped meanwhile.                            *)
ServedOnTime ==
  /\ \A k \in Kinds : AtCheck(k) /\ HeadDue(k) => left[Head(list[k])] <= 0
  /\ at["hard"] = "idle" => \A t \in Hard \cap Listed : left[t] > 0

(* A timer that was stopped, detached or given a new time is on no list    *)
(* until it is started again, even if that happened during its callback.   *)
StoppedStays == \A t \in Timers : stopped[t] => t \notin Listed

(* A soft timer that is overdue is on its way: the thread is checking or   *)
(* has been signalled.  The timer may have been inserted when the          *)
(* interrupt of its tick had already looked; then the next one sees it.    *)
(* That fails across the wrap-around, where the next tick is the smaller   *)
(* number: nobody is signalled, and timers behind it suffer as well.       *)
SoftSignalled ==
  tick >= Half - 1 =>
    \A t \in Soft \cap Listed :
      left[t] < 0 => sem = 1 \/ at["soft"] \in {"check", "callback"}
===============================================================================

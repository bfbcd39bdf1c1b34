# Verification of the RT-Thread kernel of the QEMU vexpress-A9 BSP

TLA+ models of the kernel and heap code in this repository, TLC runs that check
them on small instances, and TLAPS proofs of the main invariants for every value
of the constants. File and line references are to the repository.

## 1. The system

The repository is a board support package: RT-Thread 5 for the two-core
vexpress-A9 that QEMU emulates (`RT_USING_SMP`, `RT_CPUS_NR` 2), the drivers of
the board (`drivers/`), and applications, of which `applications/mem` is a study
of heap allocators. Its core logic is the kernel in `rt-thread/src`.

| Part | State | Operations | Hard behaviour |
|---|---|---|---|
| wake-up protocol (`thread.c`, `scheduler_comm.c`) | status, suspend list node, timer flag, `error` | suspend to a list, resume, timeout | two CPUs, a tick interrupt on CPU 0 that races every waker |
| timers (`timer.c`, `clock.c`) | sorted lists of hard and soft timers, `ACTIVATED` flag, the tick, the semaphore of the timer thread | start, stop, detach, control, check | the callback runs after the list lock is dropped; tick wrap-around; the soft list is looked at without its lock |
| thread life cycle (`thread.c`, `defunct.c`) | status, the list of dead threads and its semaphore | create, start, sleep, suspend, resume, exit, delete, reap | a sleep in two sections; a timeout that comes to a dead thread |
| scheduler (`scheduler_mp.c`) | ready queues per CPU and global, bitmap, current thread per CPU, lock nesting | insert, remove, schedule, yield, bind | IPIs, critical sections, migration |
| semaphore (`ipc.c`) | value, limit, suspend list | take, release, control, detach | timeouts between the sections of a call |
| mutex (`ipc.c`) | owner, hold, priority, ceiling, list of mutexes per thread | take, release, detach, set ceiling | priority inheritance along chains, hand-off against timeouts |
| mailbox (`ipc.c`) | a ring with its offsets and counter, lists of senders and of receivers | send, urgent, receive, control, detach | a woken thread has to test again; two lists |
| message queue (`ipc.c`) | slots linked in a queue by priority or in the free list, two suspend lists | the same | messages are copied without the lock |
| event (`ipc.c`) | a set of bits, what every receiver asks for | send, receive, control, detach | one send wakes many, and clears bits for them |
| small memory heap (`mem.c`, copied in `applications/mem/rtmem.c`) | chain of headers, lowest free item, statistics | alloc, realloc, free | long sequences of legal calls, off-by-one at the ends |
| variable-size heap (`applications/mem/varmem.c`) | chain of headers | alloc, free | as above |
| memory pool (`mempool.c`) | free list of equal blocks, suspend list | alloc, free, delete | a freed block handed to a timing-out waiter |
| memheap (`memheap.c`) | several heaps, doubly linked free lists | alloc, realloc, free | several pools and a semaphore as lock |
| objects, devices, file systems, network, shell, drivers | | | not modelled, see section 7 |

How they interact: every IPC call takes the spinlock of its object, and inside
it the scheduler lock, once or several times. A thread that has to wait is
suspended, put on the list of the object, its timer is started, and only then
the spinlock is released. It is woken by another thread (the head of the list is
made ready, `rt_sched_thread_ready`), by its timer (`_thread_timeout` on CPU 0),
or from outside (`rt_thread_resume`). The timer code takes an expired timer off
its list under the timer lock, drops that lock, and then calls the timeout
function, which takes the scheduler lock. Everything that goes wrong in the
models goes wrong in that window or in one like it.

What makes the parts correct: the list of an object holds exactly the threads
that sleep on it; a wake-up is neither lost nor duplicated; no token, message or
block is lost or made up; waiters are served in the promised order; a timed wait
ends; a heap gives out disjoint blocks, finds every free one and joins what is
freed.

## 2. Modules

| Module | Models | EXTENDS |
|---|---|---|
| `RtList` | the linked lists of `rtservice.h`, and where a suspend list inserts | |
| `ThreadWait` | what a blocking call uses of a thread and its timer | `RtList` |
| `Semaphore` | `rt_semaphore`, one action per section under the scheduler lock | `ThreadWait` |
| `MCSemaphore` | instances | `Semaphore` |
| `Mutex` | `rt_mutex` with nesting, hand-off, priority inheritance, ceiling, timeouts, detach, threads that die | `ThreadWait` |
| `MCMutex` | instances | `Mutex` |
| `IpcWait` | what mailbox, message queue, event and memory pool share: the sections of a sleep, wake-ups, resume-all, timeouts | `ThreadWait` |
| `BoundedQueue` | what a mailbox or message queue promises (abstract specification) | |
| `Mailbox`, `MCMailbox` | `rt_mailbox`, shown to implement `BoundedQueue` | `IpcWait` |
| `MessageQueue`, `MCMessageQueue` | `rt_messagequeue`, shown to implement `BoundedQueue` with places by priority | `IpcWait` |
| `Event`, `MCEvent` | `rt_event` | `IpcWait` |
| `MemPool`, `MCMemPool` | `rt_mempool` | `IpcWait` |
| `Timer`, `MCTimer` | the timer lists, the tick interrupt and the timer thread | `RtList` |
| `ThreadLife`, `MCThreadLife` | threads outside IPC objects, and the thread that frees the dead | `ThreadWait` |
| `Allocator` | what a heap promises (abstract specification) | |
| `SmallMem`, `MCSmallMem` | `mem.c`, shown to implement `Allocator` | |
| `WaitListProofs` | lemmas on the lists | `RtList` |
| `SemaphoreProofs`, `MutexProofs` | proofs about the module of that name | that module, `WaitListProofs` |
| `TimerProofs` | proofs about the timer lists, and about threads, which the timer of each wakes | `Timer`, `ThreadLife`, `WaitListProofs` |
| `IpcWaitProofs` | lemmas on everything built on `IpcWait` | `IpcWait`, `WaitListProofs` |
| `MailboxProofs`, `MessageQueueProofs` | proofs about the module of that name | that module, `IpcWaitProofs` |
| `MemPoolProofs` | proofs about the two objects with one suspend list, and about the heap | `MemPool`, `Event`, `SmallMem`, `IpcWaitProofs` |

Each module has a `TypeOK` (`HeapTypeOK` in `SmallMem`) or builds on `ThreadTypeOK` or
`WaitTypeOK` (those of `ThreadLife` and `Event` are with their proofs). All of them are
proved. `ThreadLife`, `Event` and `SmallMem` name their specifications `LifeSpec`,
`EventSpec` and `HeapSpec`, so that one module can extend them together with `Timer` or
`MemPool`.

Operators whose comment begins with "Fault:" are faulty variants of the
definition that follows them. No specification uses them; each is a change that
some property has to notice.

## 3. How the models correspond to the code

**Sections.** An IPC call is not atomic: it holds the spinlock of its object and
takes the scheduler lock several times. An action is one section under the
scheduler lock, or a store between two sections that others can see. `lock` is
the spinlock; `pc` says where in its call a thread is. Calls that fail without
changing anything are stuttering steps.

**Threads and timers** (`ThreadWait`). `stat` is the scheduling status with READY
and RUNNING taken together, `ttmr` is `sched_flag_ttmr_set`, `tmr` the activated
timer on its list, `error` is `thread->error` without its sign. `isr` is the
thread whose timer CPU 0 has taken off the list and whose `_thread_timeout` has
not got the scheduler lock yet. `halted` is a failed `RT_ASSERT`, or, in `Mutex`,
a read through a null owner (page 0 is not mapped on this board). The window
between the two halves of a timeout has no upper bound in the model. On the
target it is short, but QEMU runs each virtual CPU in a host thread that may be
descheduled anywhere. The models do not limit the number of CPUs; the traces of
the findings need no more than the two of this board (section 6).

**Semaphore.** `value`, `max_value` and `susp`, the suspend list, are as in `struct
rt_semaphore`.
`TakeAvailable`, `TakeSuspend`, `TakeArm`, `TakeReturn` are the sections of
`_rt_sem_take`; `ReleaseIncrement`, or `ReleaseCheck` followed by
`ReleaseDequeue`, those of `rt_sem_release`, whose test of the list is outside the
scheduler lock; `Reset`, `SetVlimit` are `rt_sem_control`, `Detach` and the
`ResumeAll` steps `rt_sem_detach` and `rt_sem_delete`. The history variable
`credit` is the number of tokens that the results of the calls returned so far
entitle the callers to.

**Mutex.** `owner`, `hold`, `mprio`, `ceil` are the fields of `struct rt_mutex`;
the list of mutexes a thread holds is the set `Taken(t)`. `TakePend` is the store
of `pending_object`, which is outside the scheduler lock; `TakeBoost` the boost
of the owner; `ThreadUpdatePriority` is the walk along the chain of owners, as a
recursive function with a bound that `PropagationEnds` shows is never reached.
`granted` is a history variable: takes that returned `RT_EOK` and are not yet
released. Two stores that the code makes just outside a section are part of it:
clearing the owner of a mutex without waiters (after the unlock, under the
spinlock), and the new ceiling (before the lock). A detached mutex is initialised
again once no call is inside it. A thread that exits closes itself and releases
what it holds, in any order; one that is deleted (not inside a section) is closed
and taken off the list at once, and forgotten by the mutex it waited for in a
second section, `DropThread`; the attempt of the deleting thread to release its
mutexes fails, because only the owner may. `Create` is a new thread in its place.

**Objects with a test-and-sleep loop** (`IpcWait`). A caller of a mailbox, message
queue or pool that finds nothing sleeps, and when it is woken takes the spinlock
again and tests again: a wake-up promises nothing. Fields of the object are
touched under its spinlock only, timeouts and `rt_thread_resume` take only the
scheduler lock, so the stores to the fields and the section that ends the call are
one step. Suspending and starting the timer are two sections, and each dequeue of
a resume-all is one. `Woken(l)` are the threads that were woken from list `l` and
have not tested yet; they are ahead of everybody asleep. A woken thread whose
timeout has run down meanwhile may give up (`SendGiveUp`, `RecvGiveUp`,
`AllocGiveUp`): the code subtracts the ticks it slept, so which wake-ups find the
time used up is left open. `wasted` is a history variable, the wake-ups that met a
first waiter in its timeout since the list was last empty; such a wake-up is lost
in the code, and the properties `...Claimed` say that no other is.

**Mailbox.** `msg_pool`, `in_offset`, `out_offset`, `entry` are the fields of the
ring; `mail` is the argument of a sender that sleeps; `received` the mail a
receive has just given out. The refinement mapping reads the ring from
`out_offset`.

**Message queue.** `next`, `prio`, `content` belong to the slots, `head`, `tail`,
`free` are the pointers. A call that copies has taken its slot off one list and
not yet put it on the other: `slot`. `Send` takes the slot, `Link` puts it in its
place; `Recv` takes the message, `PutBack` gives the slot back; `Urgent` and
`LinkFront` are `rt_mq_urgent`, which leaves the old `prio` in the slot. The
abstract queue holds messages with the priority they are stored with.

**Event.** `set` is the event set, `event_set` and `event_info` the fields of the
threads (what is asked, then what is received), `want` a history variable: what
was asked. `rt_event_send` is one section: it walks the list, serves every
receiver whose condition the set meets, and clears at the end.

**Memory pool.** `block_list`, `block_free_count` and `header`, the word in front
of each block that leads to the next free one or to the pool; `held` is a history
variable, the blocks callers have. `rt_mp_alloc` sleeps with `thread->error` at
`RT_EOK`, so that a resume from outside is taken for a wake-up.

**Timers.** One list of each kind with its spinlock, one level of the skip list as
configured. `cur` is the timer in its callback, `temp` whether it is still on the
temporary list by which `_timer_check` finds out what was done to it meanwhile.
`Start` and `StartInsert` are the two halves of `rt_timer_start` around the reading
of the tick. `left` is a history variable: the ticks a timer really has left,
counted without wrap-around; `stopped` another: not started since it was
initialised, stopped or detached. The comparisons of `_timer_start` and
`_timer_check` are right only as long as the timer thread is not far behind:
`InTime` says that it is less than `MaxLate` ticks behind, and `LateAssumption` that
`MaxLate` is below half the range of the tick and that no time is so long that the
new timer would lie more than half the range after an overdue one. On the target
the range is 2^32 ticks.

**Thread life cycle.** `pc` is where a thread is in `_thread_sleep` and in its life,
`end` what is left of its deletion, `defunct` the list of dead threads, `reaper`
the system thread. `gap` is a history variable: the thread was made ready between
its suspension and the start of its timer, or by the timeout of an earlier sleep;
`held` another: suspended by a third party since it went to sleep. A thread is
closed by one caller (`rt_thread_close` does not protect its callers from each
other), and not while another CPU runs it inside `_thread_sleep`.

**Small memory heap.** `heap` is a record: `next`, `prev` and `inuse` of the
headers by offset, and `lfree`, `used` and `max` as in `struct rt_small_mem`.
`requested` is a history variable, the size last asked for by block. The heap lock
makes every call atomic, so there is one action per call and branch. Sizes keep
the width of `rt_size_t` (a constant, small in the runs), because `RT_ALIGN` wraps.
`Allocator` is the abstract heap: disjoint blocks, each at least as long as its
caller asked; the refinement mapping forgets headers and free items.

## 4. Runs

| Run | Shows |
|---|---|
| `sem_forever` | no timeouts, with reset, limits, detach: tokens are conserved, detach wakes all |
| `sem_timed` | timeouts and outside resumes: list = sleepers, nobody sleeps beside a token, no token made up, a timed take returns |
| `mutex_two` | two mutexes in any order, with timeouts, one thread that exits or is deleted: ownership as the callers were told, hand-off only to a thread that wakes, no sleeper at a free mutex, propagation ends in circles too and moves each waiter it reaches to its new place in its list (`OrderKept`) |
| `mutex_inherit` | four priorities on one mutex, with nesting, ceilings, outside resumes, detach and an exit: inheritance, no deadlock |
| `mailbox` | senders and receivers on a ring of two, with timeouts, urgent mails, reset, detach: implements `BoundedQueue`; no wake-up is forgotten on either list (`MailsClaimed`, `RoomClaimed`); reset and detach wake all |
| `mqueue` | the same for a queue of two slots and two priorities: one owner for every slot (`SlotsOwned`), no wake-up forgotten, implements `BoundedQueue` |
| `event` | AND, OR, CLEAR, timeouts, resumes, reset, detach: nobody sleeps through a set that meets its condition, a receiver reports what it asked for, a bit is lost only to a receiver in its timeout |
| `mempool` | four threads, two blocks: list = sleepers, every block free or held once, no wake-up forgotten |
| `timer` | two timers at a time across the wrap-around, every call during every callback: no timer twice on a list, sorted by the time left, hard timers served in their tick and none early, stopped timers stay off, the timer thread is signalled |
| `threadlife` | two threads that sleep, are suspended, resumed, deleted: a timer runs only for a sleeper, a closed thread stays closed, is freed, and once; sleeps end |
| `smallmem` | all sequences of calls: chain, joins, every fitting block found; `SmallMem` implements `Allocator` |
| `sem_lost_token` | the finding of section 6, as a counterexample |

**Bounds.** Three threads are a holder or releaser, a waiter whose timeout runs,
and a second waiter behind it; every window in the wake-up protocol needs at most
these. Inheritance needs a fourth: an owner, its owner, and two waiters of which
one is overtaken. Two mutexes make the shortest chain and the shortest circle; with three threads, the
circle is where a waiter in a list of two gets another priority.
Values and limits of semaphores up to 2 reach the limit, zero, and a limit
below the value; a limit of nesting of 2 replaces 255 (in
`mutex_two` of 1: there each nested take is one at the limit). Ceilings are one above all
threads, one in the middle, and 255, none. One thread, of middle priority, is
`Mortal`. The heap holds up to four blocks of
the smallest size (more after `realloc` has cut them): a block, its neighbours on
both sides, and one next to a neighbour. Threads are not
symmetric, because they differ in priority.

For the objects of `IpcWait`, three threads of which one both sends and receives
give a sender and two receivers, or the reverse, with one of them in its timeout; a
ring or queue of two has an empty, a partly filled and a full state and wraps
around. Their runs let threads wait with a finite timeout only (in `mqueue` only
the thread that does both): when a timer expires is open, so a wait that is never
timed out is among these behaviours. `MaxWasted`, the bound of the history
variable, is the number of items, and saturates there, no earlier (`WastedAssumption`;
in `event`, which wakes by
condition and not by count, it only records that there was one). The pool has
threads that are interchangeable (symmetry), as are the mails of `mailbox` and the
timers of a kind. The tick of `timer` has ten values, times are 1 and 3, and
two of four timers exist at a time: two of one kind or one of each. `MaxLate` is 3,
so that the longest time and the largest delay together are all that
`LateAssumption` allows: the callbacks, restarts and overdue soft timers reach every
distance up to half the range. In
`threadlife` the semaphore of the system thread is at its limit with one dead
thread, so the second release fails. Two threads suffice because no action of that
module involves three.

**Deadlock** is checked wherever the system may not stop. It is off where an
assertion may halt it (timeouts), where all threads may wait for something that
nobody gives, and where the object may be detached.

**Fairness** (`sem_timed`): weak fairness of the steps by which a thread gets
through its call and of the timeout function, strong fairness of the expiry of
each timer. A thread inside a call holds a spinlock, so it is not preempted, or
is ready; that it then runs is the one thing assumed of the scheduler. Expiry is
disabled while the interrupt handler of CPU 0 serves another timer; strong
fairness says that it gets to this one in the end, which holds because the list
is in order of time and a timer armed later goes behind. The timeout function
only waits for the scheduler lock. Nobody is assumed to release the semaphore.
`threadlife` assumes the same of a sleep, of its timer and of the timeout, and weak
fairness of the steps of a deletion that has begun and of the system thread. That
no hard timer is passed over is what `ServedOnTime` shows in `timer`. Nobody is
obliged to create, resume, suspend or delete a thread.

## 5. Proofs

Each theorem holds for every value of the constants that the assumptions of its
modules allow: any finite set of threads, any priorities, sizes, limits, widths of
the tick, and any choice of the calls that are made. Where a theorem needs more,
the table says so. Those with a property in the second column state for all
instances what a run checks on a small one.

| Theorem | Property | Needs |
|---|---|---|
| `SemaphoreProofs!TypeCorrect` | types; the 16-bit value keeps its range | |
| `TokensCovered` | `NoTokenInvented` | |
| `QueueConsistent` | `SuspendedIffQueued` | |
| `TokensNotIgnored` | `NoSleeperBesideToken` | no resets, or no finite timeouts |
| `TokensConserved` | `TokenConserved` | no finite timeouts, no resumes from outside |
| `DetachWakesAll` | `NoWaiterLeftBehind` | no finite timeouts |
| `TimerProofs!TimersFit` | `TimerFitsStatus` | |
| `DeadFreedOnce` | `FreedOnce` | |
| `DeadStayDead` | `ClosedStays` (action property) | |
| `MutexProofs!TypeCorrect` | types; `hold` keeps its range | |
| `OwnersOwn` | `OwnershipHonoured` | |
| `NoMutexLost` | `HandedOver` | |
| `FreeMeansUnwanted` | `NoSleeperAtFreeMutex` | |
| `OwnerInherits` | `PriorityInherited` | one mutex; no finite timeouts, or no detach |
| `WalksEnd` | `PropagationEnds` | |
| `QueuesResorted` | `OrderKept` (action property) | |
| `MailboxProofs!TypeCorrect` | types; list = sleepers | |
| `MailsAreClaimed`, `RoomIsClaimed` | `MailsClaimed`, `RoomClaimed` | |
| `ClosingWakesAll` | `CloseWakesAll` (action property) | |
| `MailboxIsAQueue` | `ImplementsQueue` (refinement of `BoundedQueue`) | |
| `MessageQueueProofs!TypeCorrect` | types; list = sleepers (`SleepersQueued`) | |
| `SlotsAreOwned` | `SlotsOwned` | |
| `MessagesAreClaimed`, `SlotsAreClaimed` | `MessagesClaimed`, `SlotsClaimed` | |
| `MessageQueueIsAQueue` | `ImplementsQueue` (refinement of `BoundedQueue`) | |
| `MemPoolProofs!TypeCorrect` | types; the assertion of `rt_mp_alloc` | |
| `SleepersAreQueued` | `SleepersQueued` | |
| `BlocksAreOwned` | `BlocksOwned` | |
| `BlocksAreClaimed` | `BlocksClaimed` | |
| `NobodySleepsSatisfied` | `NoSatisfiedSleeper` | |
| `ReportsAreAsked` | `ReceivedAsAsked` | |
| `BitsAreKept` | `NoBitLost` (action property) | |
| `HeapTypeCorrect` | types of the heap; its statistics keep their range | |
| `UsedIsExact` | `used` is the number of bytes of the blocks in use | |
| `ChainStaysIntact` | `ChainIntact` | |
| `FreeSpaceIsJoined` | `NoTwoFreeInARow` | |
| `SearchIsComplete` | `AllocFailsOnlyWhenFull` | |
| `HeapIsAnAllocator` | `ImplementsAllocator` (refinement of `Allocator`) | no size that wraps in `RT_ALIGN` |
| `TimerProofs!TypeCorrect` | types; the times left stay in range | |
| `LinkedOnce` | `ListedOnce` | |
| `ListsAreSorted` | `SortedByTimeLeft` | |
| `TimersServedOnTime` | `ServedOnTime` | |
| `StoppedTimersStay` | `StoppedStays` | |
| `ThreadIsSignalled` | `SoftSignalled` | |

The conditions are not for the prover's sake: without them the property is false,
in the way the findings describe (a wake-up that meets a waiter in its timeout, and
with two mutexes a boost before `pending_object` is stored). A detach that meets a
waiter in its timeout leaves those behind it asleep at a mutex whose owner has lost
what it inherited. A size that wraps in `RT_ALIGN` gets a block of the smallest size,
shorter than was asked.

**How the proofs go.** In every module `Inv` is the inductive invariant: one lemma
says that the initial states satisfy it, one lemma per action (or group of actions
alike) that the action keeps it, `NextInv` or `StepKeeps` joins them, and the
theorems follow. What `Inv` adds to the properties, and why:

- `Semaphore`: `LockInv`, a thread between two sections holds the spinlock, so that
  two calls do not interleave; `RunningInv`, only a thread inside a take is
  suspended; `ErrorInv`, the error number of a sleeper is not `RT_EOK`, so that only
  a waker that hands over a token makes the take succeed; `ArgInv`, a limit of 0 was
  rejected before the section that stores it. The theorems with conditions have
  invariants of their own on top: with no timer running, no dequeue fails.
- `ThreadLife`: `TimerKnown`, the scheduler knows of every timer that runs, so that
  suspend, resume and close stop it; `ArmInv` for the two sections of a sleep;
  `ClosedInv`, only what is being deleted is closed, and without a timer.
- `Mutex`: where a thread is in its call decides what it holds (`StatInv`,
  `CallInv`); `pending_object`, where it is set, is the mutex of the call
  (`PendInv`); a thread that was given the mutex it waits for holds it once
  (`HeirInv`); lists hold sleepers of their mutex only, each once, and none if the
  mutex is free (`ListInv`). That the walk along the owners keeps all this is proved
  by induction over its steps (`UpdateKeeps`), for any length of the chain. For the
  priorities of one mutex `PrioInv` says more: its owner is awake, so that the walk
  ends where it begins (`UpdateStops`); its list is in order; and the owner is as
  urgent as the mutex, the mutex as urgent as every waiter that has boosted. That the
  walk ends (`WalksEnd`) is shown for any graph of owners: a walk longer than there
  are threads comes back to one; it then goes the same way again (`SameWayAgain`);
  each turn replaces the priority it carries by the smaller of that and an offer that
  is the same in both rounds (`TurnsClamp`), so that the second round stores what the
  first did (`NoEndlessWalk`), and the loop stops where nothing changes. For the order
  of the lists of all mutexes (`QueuesResorted`), `WalkInv` says that in the middle of
  a walk every list is in order but for the one thread the walk has come to; each turn
  puts that one in its place and may upset the owner next (`TurnLines`). As the walk
  ends, so does the exception; one that ends at a waiter without `pending_object`
  has changed its priority, which is what `OrderKept` excepts.
- `IpcWaitProofs`: `WaitInv`, the invariant of test-and-sleep loops, is kept by every
  section of `IpcWait`, so that the objects cite one lemma per section.
  `Claim(l, n)` says that beside `n` items somebody asleep on `l` has that many woken
  threads or wasted wake-ups ahead of it; `GrowsBut` says of a section that it takes
  no claim away but one thread's.
- `Mailbox`: `RingInv` ties `in_offset` to `out_offset` and `entry`; `Halfway`, a close
  that has come to the senders is done with the receivers. For the refinement, a lemma
  for each of send, urgent and receive says what it does to the queue the ring stands
  for.
- `MessageQueue`: `SlotInv`, there are two sequences of slots without one in common,
  the queue and the free list, and `head`, `tail`, `free`, `entry` and the links say
  what they should of them; `CallInv`, a slot is in flight exactly while its call is
  between two sections, and what it holds is written before it is read. A lemma per
  operation on a list (`PathInserted`, `PathTail`) says what the stores into `next` do
  to its sequence; `SlotsOwned`, which follows the links, and the refinement are then
  about sequences. A send that finds its place by priority implements the insertion of
  `BoundedQueue`, whatever urgent messages have done to the order.
- `MemPool`: `PoolInv`, there is a sequence of all blocks such that the first
  `block_free_count` of them are the free list in its order, and the others are held.
- `Event`: `ReceiverInv`, what a receiver sleeps for is part of what it wants, all of
  it with AND, and once it has been told `RT_EOK` it has got that; `IsrInv`, the only
  sleeper whose timer has run down is the one in its timeout, so a send that cannot
  make a receiver ready leaves nobody else behind. `WalkProperties` says what the walk
  of a send leaves of the list, by induction on the walk.
- `SmallMem`: `HeapInv` does not follow the chain from the start. `Linked` says of the
  *set* of headers that each item ends where or before the next header begins, that no
  header lies between, that the way back is the way, and that `lfree` is below every
  hole; each of these speaks of two neighbours, so no proof needs induction along the
  chain. `JoinLinked`, `SplitLinked` and `MarkLinked` say that the three things the code
  does to headers keep it, `PlugHeap`, `FreeHeap`, `AllocHeap` and `CutHeap` put them
  together. Between the two halves of `plug_holes` holes may meet at one place only,
  which is what `PlugForwardHeap` and `PlugBackwardHeap` carry along. `Counted` ties
  `used` to the number of bytes in blocks. For the refinement, `BlockIsApart` says that
  a new block lies beside all others, the old one of a `realloc` included.
- `Timer`: `Listable`, the wrapped `timeout_tick` of a timer on a list is the tick plus
  the ticks it really has left; from it and from the order of the list the comparison
  of wrapped numbers is shown to be that of plain ones. `Starting` and `Called` are
  what a timer is between the halves of its start, and in its callback while nobody
  touched it; `HardInv` and `SoftInv` are the overdue ones.

`WaitListProofs` has the lemmas on lists that all of these use: what inserting by
priority and removing do to who is on a list, to everybody being there once, and to
its order; and the induction principle for the loops. The position that
`SuspListEnqueue` picks with CHOOSE exists for either flag.

**Only model-checked:**
- liveness (`TimedWaitReturns`, `SleepEnds`, `Reaped`): fairness is beyond this prover.

## 6. Findings

`sem_lost_token` is a run that ends with a counterexample: `rt_sem_release` that
meets a waiter in its timeout reports success without waking anybody or counting.

The following came up while the properties were made to hold. They have no run of
their own; where a property had to be stated with an exception, its comment says
so.

*The window of a timeout* (between the timer leaving its list and
`_thread_timeout` getting the scheduler lock):
- a wake-up of a mailbox, message queue or pool that meets a waiter in its timeout
  is lost for the waiters behind it (`wasted`), and so is the bit of an event;
- `rt_susp_list_resume_all` takes such a waiter for the end of the list: reset,
  detach and delete leave the rest asleep;
- the failed wake-up has cleared `sched_flag_ttmr_set` all the same, so a second
  one inside the window succeeds, and the assertion in `_thread_timeout` fails; a
  thread that is deleted inside the window meets the same assertion;
- a thread that times out leaves `pending_object` set: with one thread releasing
  the mutex and then waiting for another that the first holds, the boost reads a
  null owner.

*Sections that others see halfway*:
- a mutex waiter boosted before its `pending_object` is stored keeps its place in
  the list (`OrderKept` excepts the step; with two mutexes and four threads this breaks
  `PriorityInherited`);
- a resume between the suspension and the start of the timer in `_thread_sleep`
  leaves a timer behind a thread that runs (`gap`); its expiry fails the assertion;
- a soft timer inserted after the interrupt of its tick has looked is found by the
  next interrupt, except across the wrap-around of the tick, where the comparison
  of plain numbers in `rt_timer_check` says no (`SoftSignalled`);
- a thread handed the mutex, and not running yet when the mutex is detached, returns
  `RT_EOK` from the take of a mutex that no longer exists (`granted` is 0 for it);
- the longest time that `rt_timer_init` documents (`timer.c:262`: no more than
  `RT_TICK_MAX/2 - 1`) is too long for a soft timer that is started while another is
  overdue: the comparison at `timer.c:446` wraps and puts the new timer in front of
  the overdue one, which then waits for it (with `RT_TICK_MAX` 11 and times 1 and 4
  TLC finds it in a few steps; hence the second half of `LateAssumption`).

*Without concurrency*:
- the detach of a mutex takes an inherited priority back from its owner without
  moving it in the list of the mutex it waits for itself (`ipc.c:935`; `OrderKept`
  excepts the step);
- the mutexes of a thread that another thread deletes stay locked for ever
  (`thread.c:107` releases them in the name of the wrong thread; `HandedOver` excepts
  them);
- two mutex waiters that time out and return in the other order leave the owner
  its boost after the release; a mutex handed over does not apply its ceiling to
  the new owner;
- `rt_mq_urgent` leaves the priority of the slot's previous message, and later
  messages are placed by comparison with it;
- a periodic timer made one-shot in its own callback keeps `ACTIVATED` on no list;
- the list of dead threads is a stack, so one that died early waits while others
  keep dying (`Reaped`);
- rounding a size near the end of `rt_size_t` wraps to 0; and `rt_smem_realloc`
  splits at any aligned size, so blocks shorter than `MIN_SIZE_ALIGNED` come about.

## 7. Not modelled

Not yet: see section 8. Of the modelled parts: `rt_thread_delay_until` and
`rt_thread_control`; the memory of a deleted object, into which a late caller would
still look; a thread that two callers close at once; timers of time 0. Not at all:
the single-core scheduler, signals and the
slab allocator (not built); the drivers (register access), the shell, file
systems, network, C library and user processes (general components this board
configures); formatting, hooks and logging. The interruptible and killable
variants of the IPC calls differ from the others only with `RT_USING_SMART`. Weak
memory is not modelled: the sections are ordered by spinlocks, which carry
barriers.

## 8. Plan

1. `Sched`: ready queues, bitmaps, current threads, rescheduling interrupts.
2. `MemHeap`, `VarMem` as further implementations of `Allocator`.
3. `Completion` and `WorkQueue` on top.

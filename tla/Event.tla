--------------------------------- MODULE Event ---------------------------------
(***************************************************************************)
(* rt_event of rt-thread/src/ipc.c: a set of bits, and receivers that wait *)
(* for all (AND) or for one (OR) of the bits they ask for, and clear them  *)
(* or not.  A send walks the whole list under the scheduler lock, so it is *)
(* one step.  It does not look at the result of rt_sched_thread_ready: a   *)
(* receiver in its timeout is served, too, but reports the timeout.        *)
(***************************************************************************)
EXTENDS IpcWait

CONSTANTS
  Bits,       \* the bits of an event set
  Requests,   \* what receivers ask for: bits and option
  EventOps         \* calls besides send and receive

ASSUME EventListsAssumption == Lists = {"suspend_thread"}
ASSUME EventOpsAssumption == EventOps \subseteq {"reset", "detach", "resume"}

Options == [and : BOOLEAN, clear : BOOLEAN]
BitSets == SUBSET Bits \ {{}}

ASSUME RequestsAssumption == Requests \subseteq BitSets \X Options

VARIABLES
  set,          \* event->set, a subset of Bits
  event_set,    \* thread->event_set, a subset of Bits
  event_info,   \* thread->event_info, one of Options
  want          \* the bits a receiver has asked for

bitVars == <<set, event_set, event_info, want>>
eventVars == <<ipcVars, bitVars>>

NoOption == [and |-> FALSE, clear |-> FALSE]

EventInit ==
  /\ WaitInit
  /\ set = {}
  /\ event_set = [t \in Threads |-> {}]
  /\ event_info = [t \in Threads |-> NoOption]
  /\ want = [t \in Threads |-> {}]

(* Do the bits in s satisfy a request for asked with this option?          *)
Met(asked, option, s) == IF option.and THEN asked \subseteq s
                         ELSE asked \cap s # {}

-------------------------------------------------------------------------------
(* rt_event_send.                                                          *)

(* Fault: the walk ends with the first receiver that is served.            *)
FirstHit(s) ==
  LET list == susp["suspend_thread"]
      met == {i \in 1..Len(list) : Met(event_set[list[i]], event_info[list[i]], s)}
  IN  {list[i] : i \in {i \in met : \A j \in met : i <= j}}

(* The receivers on the list whose condition is met by the bits in s.      *)
Hit(s) == {u \in Queued(susp["suspend_thread"]) : Met(event_set[u], event_info[u], s)}

(* Fault: the receiver is given the whole set.                             *)
ServedAll(t, s) == s

(* What is left in thread->event_set of a receiver that is served.         *)
Served(t, s) == IF event_info[t].and THEN event_set[t] ELSE event_set[t] \cap s

(* Fault: a receiver with the clear option clears the whole set.           *)
ClearedAll(hit, s) == IF \E u \in hit : event_info[u].clear THEN s ELSE {}

(* need_clear_set.                                                         *)
Cleared(hit, s) == UNION {Served(u, s) : u \in {v \in hit : event_info[v].clear}}

(* What the walk along the list leaves of it: rt_sched_thread_ready takes  *)
(* those off that it makes ready, one after the other.                     *)
Walk(list, ready) ==
  LET left[n \in 0..Len(list)] ==
        IF n = 0 THEN list
        ELSE IF list[n] \in ready THEN ListRemove(left[n - 1], list[n])
        ELSE left[n - 1]
  IN  left[Len(list)]

(* All receivers whose condition is met are served with the same bits;     *)
(* then the bits are cleared that one of them wants cleared.               *)
Send(t, bits) ==
  LET all == set \cup bits
      hit == Hit(all)
  IN  /\ Enter(t)
      /\ event_set' = [u \in Threads |-> IF u \in hit THEN Served(u, all)
                                         ELSE event_set[u]]
      /\ set' = all \ Cleared(hit, all)
      /\ stat' = [u \in Threads |-> IF u \in hit /\ ReadyOK(u) THEN "READY"
                                    ELSE stat[u]]
      /\ tmr' = [u \in Threads |-> tmr[u] /\ ~(u \in hit /\ ttmr[u])]
      /\ ttmr' = [u \in Threads |-> ttmr[u] /\ u \notin hit]
      /\ error' = [u \in Threads |-> IF u \in hit THEN "EOK" ELSE error[u]]
      /\ susp' = [susp EXCEPT !["suspend_thread"] =
                    Walk(@, {u \in hit : ReadyOK(u)})]
      /\ UNCHANGED <<isr, halted, lock, alive, pc, on, timed, job, wasted>>
      /\ UNCHANGED <<event_info, want>>

-------------------------------------------------------------------------------
(* _rt_event_recv.                                                         *)

Ask(t, asked, option) ==
  /\ Enter(t)
  /\ event_info' = [event_info EXCEPT ![t] = option]
  /\ want' = [want EXCEPT ![t] = asked]

Recv(t, asked, option) ==
  /\ Ask(t, asked, option)
  /\ Met(asked, option, set)
  /\ event_set' = [event_set EXCEPT ![t] = set \cap asked]
  /\ set' = IF option.clear THEN set \ asked ELSE set
  /\ Goto(t, "done")
  /\ UNCHANGED <<threadVars, susp, lock, alive, on, timed, job, wasted>>

RecvSleep(t, asked, option, finite) ==
  /\ Ask(t, asked, option)
  /\ ~Met(asked, option, set)
  /\ event_set' = [event_set EXCEPT ![t] = asked]
  /\ Sleep(t, "suspend_thread", finite, "EINTR")
  /\ UNCHANGED set

(* The call is over; what it left in the thread is not used again.         *)
Forget(t) ==
  /\ event_set' = [event_set EXCEPT ![t] = {}]
  /\ event_info' = [event_info EXCEPT ![t] = NoOption]
  /\ want' = [want EXCEPT ![t] = {}]
  /\ UNCHANGED set

(* RT_EOK and event_set are reported, by a woken thread under the spinlock.*)
RecvReturn(t) ==
  /\ Reenter(t, "suspend_thread") \/ (~halted /\ pc[t] = "done")
  /\ Leave(t)
  /\ Forget(t)

RecvError(t) == ReturnError(t) /\ Forget(t)

-------------------------------------------------------------------------------
(* rt_event_control, rt_event_detach and rt_event_delete.                  *)

Close(t, why) == ResumeAll(t, why, "suspend_thread") /\ UNCHANGED bitVars

CloseStep(t) == ResumeAllStep(t, "suspend_thread") /\ UNCHANGED bitVars

CloseDone(t) ==
  /\ ResumeAllDone(t, "suspend_thread")
  /\ set' = IF job = "reset" THEN {} ELSE set
  /\ UNCHANGED <<event_set, event_info, want>>

-------------------------------------------------------------------------------
Call(t) ==
  \/ \E bits \in BitSets : Send(t, bits)
  \/ \E r \in Requests :
       \/ Recv(t, r[1], r[2])
       \/ \E finite \in Timed[t] : RecvSleep(t, r[1], r[2], finite)
  \/ \E why \in EventOps \cap {"reset", "detach"} : Close(t, why)

Continue(t) ==
  \/ Arm(t) /\ UNCHANGED bitVars
  \/ RecvReturn(t)
  \/ RecvError(t)
  \/ CloseStep(t)
  \/ CloseDone(t)

EventNext ==
  \/ \E t \in Threads : Call(t) \/ Continue(t)
  \/ \E t \in Threads : Expire(t) /\ UNCHANGED bitVars
  \/ Timeout /\ UNCHANGED bitVars
  \/ TimeoutAssertFails /\ UNCHANGED bitVars
  \/ "resume" \in EventOps /\ \E t \in Threads : ThreadResume(t) /\ UNCHANGED bitVars

EventSpec == EventInit /\ [][EventNext]_eventVars

-------------------------------------------------------------------------------
(* The threads that have been given event_set and are about to report it.  *)
Reporting == Woken("suspend_thread") \cup {t \in Threads : pc[t] = "done"}

(* Nobody sleeps although the set meets his condition, whatever was sent,  *)
(* cleared by others or reset since he went to sleep (a receiver whose     *)
(* timeout is running on CPU 0 is about to wake).                          *)
NoSatisfiedSleeper ==
  \A t \in Queued(susp["suspend_thread"]) :
    t # isr => ~Met(event_set[t], event_info[t], set)

(* A receiver that reports RT_EOK reports bits it asked for: all of them   *)
(* with AND, at least one with OR.                                         *)
ReceivedAsAsked ==
  \A t \in Reporting : /\ event_set[t] \subseteq want[t]
                     /\ Met(want[t], event_info[t], event_set[t])

(* A thread was given b: a receiver that reports it, or one in its timeout.*)
Given(b) == \E t \in Reporting \cup {isr} : t # NoThread /\ b \in event_set[t]

(* A bit leaves the set, or does not enter it when it is sent, only if it  *)
(* is given to a receiver, or a reset drops it.                            *)
KeepsBits ==
  /\ \A b \in set \ set' : job # "none" \/ Given(b)'
  /\ \A t \in Threads, bits \in BitSets :
       Send(t, bits) => \A b \in bits : b \in set' \/ Given(b)'

(* A bit that was sent stays in the set until a receiver is given it, or a *)
(* reset drops it.  The receiver may be one in its timeout, who reports    *)
(* the timeout and not the bit: only that way a bit is lost.               *)
NoBitLost == [][KeepsBits]_eventVars
===============================================================================

----------------------------- MODULE MessageQueue -----------------------------
(***************************************************************************)
(* rt_messagequeue of rt-thread/src/ipc.c, as configured here with         *)
(* RT_USING_MESSAGEQUEUE_PRIORITY: a pool of slots, linked either into the *)
(* free list or into the queue.                                            *)
(*                                                                         *)
(* A call drops the spinlock while it copies the message into or out of a  *)
(* slot, which is then on neither list: in flight.  SlotsOwned says that   *)
(* nobody else touches it, so copying is one step with the section before. *)
(* The content of a free slot is forgotten: it is written before it is     *)
(* read.  The length of a message is not modelled, nor the test of entry   *)
(* against RT_MQ_ENTRY_MAX, which cannot fail with 16 bits of slots.       *)
(*                                                                         *)
(* rt_mq_urgent does not set the priority of the message it puts in front: *)
(* the slot keeps the one of the message it held before, or whatever is in *)
(* the memory of the pool.                                                 *)
(***************************************************************************)
EXTENDS IpcWait

CONSTANTS
  Messages,    \* contents that are sent
  NoMessage,   \* content of a slot that was never written
  MsgPrio,     \* the priority each is sent with
  MaxMsgs,     \* max_msgs: number of slots of the pool
  Senders,     \* the threads that send
  Receivers,   \* the threads that receive
  Closers,     \* the threads that reset and detach the queue
  Ops          \* which of the two they do

ASSUME QueueListsAssumption == Lists = {"recv", "send"}
ASSUME MaxMsgsAssumption == MaxMsgs \in Nat \ {0}
ASSUME MsgPrioAssumption == NoMessage \notin Messages /\ MsgPrio \in [Messages -> Int]
ASSUME CallersAssumption == /\ Senders \cup Receivers \cup Closers \subseteq Threads
                            /\ Ops \subseteq {"reset", "detach"}

(* The count of wasted wake-ups stops no lower than what it is added to.   *)
ASSUME WastedAssumption == MaxMsgs <= MaxWasted

Slots == 1..MaxMsgs
Null == 0
Prios == {MsgPrio[m] : m \in Messages}

VARIABLES
  next, prio, content,        \* of struct rt_mq_message, by slot
  head, tail, free, entry,    \* msg_queue_head, _tail, _free and entry
  slot,      \* the slot a call in progress has in flight
  msg,       \* the message a call of send is to send
  received   \* history: the message given to a receiver, until it returns
             \* or the queue changes

listVars == <<next, head, tail, free, entry>>
mqVars == <<listVars, prio, content, slot, msg, received>>
vars == <<ipcVars, mqVars>>

(* Links stay inside the pool, entry inside its range, and the priority of *)
(* a slot is one that was sent, at every step of a call.                   *)
TypeOK ==
  /\ WaitTypeOK({"link", "front", "return"})
  /\ next \in [Slots -> Slots \cup {Null}]
  /\ {head, tail, free} \subseteq Slots \cup {Null}
  /\ entry \in 0..MaxMsgs
  /\ prio \in [Slots -> Prios]
  /\ content \in [Slots -> Messages \cup {NoMessage}]
  /\ slot \in [Threads -> Slots \cup {Null}]
  /\ msg \in [Threads -> Messages \cup {NoMessage}]
  /\ received \in [body : Messages, prio : Prios] \cup {NoMessage}

(* rt_mq_init links the slots from the last to the first.                  *)
Init ==
  /\ WaitInit
  /\ next = [s \in Slots |-> s - 1]
  /\ head = Null /\ tail = Null /\ free = MaxMsgs
  /\ entry = 0
  /\ prio \in [Slots -> Prios]
  /\ content = [s \in Slots |-> NoMessage]
  /\ slot = [t \in Threads |-> Null]
  /\ msg = [t \in Threads |-> NoMessage]
  /\ received = NoMessage

(* The slots of the list that starts at s, in order.                       *)
ListFrom(s) ==
  LET link == [i \in Slots \cup {Null} |-> IF i = Null THEN Null ELSE next[i]]
      nth[k \in Slots] == IF k = 1 THEN s ELSE link[nth[k - 1]]
      n == Cardinality({k \in Slots : nth[k] # Null})
  IN  [k \in 1..n |-> nth[k]]

(* A thread inside a call gets the spinlock a second time.                 *)
Relock(t, where) == ~halted /\ pc[t] = where /\ lock = NoThread

-------------------------------------------------------------------------------
(* _rt_mq_send_wait.                                                       *)

Sending(t, m) == Enter(t) \/ (Reenter(t, "send") /\ m = msg[t])

(* The first free slot is taken off, and written without the lock.         *)
TakeSlot(t, m, where) ==
  /\ free # Null
  /\ free' = next[free]
  /\ slot' = [slot EXCEPT ![t] = free]
  /\ content' = [content EXCEPT ![free] = m]
  /\ msg' = [msg EXCEPT ![t] = IF where = "link" THEN m ELSE NoMessage]
  /\ Goto(t, where)
  /\ on' = [on EXCEPT ![t] = NoList]
  /\ timed' = [timed EXCEPT ![t] = FALSE]
  /\ UNCHANGED <<threadVars, susp, lock, alive, job, wasted>>
  /\ UNCHANGED <<head, tail, entry, prio, received>>

Send(t, m) ==
  /\ Sending(t, m)
  /\ TakeSlot(t, m, "link")
  /\ next' = [next EXCEPT ![free] = Null]

SendSleep(t, m, finite) ==
  /\ Sending(t, m)
  /\ t \in Woken("send") => finite = timed[t]
  /\ free = Null
  /\ msg' = [msg EXCEPT ![t] = m]
  /\ Sleep(t, "send", finite, "EINTR")
  /\ UNCHANGED <<listVars, prio, content, slot, received>>

SendGiveUp(t) ==
  /\ Reenter(t, "send")
  /\ free = Null
  /\ timed[t]
  /\ Leave(t)
  /\ msg' = [msg EXCEPT ![t] = NoMessage]
  /\ UNCHANGED <<listVars, prio, content, slot, received>>

(* The walk along the queue stops at the first message of lower priority.  *)
Lower(items, p) == {k \in 1..Len(items) : prio[items[k]] < p}

SentPrio(t) == MsgPrio[msg[t]]

(* The message goes before that one, or behind all; only then it is the    *)
(* new tail.                                                               *)
Link(t) ==
  LET s == slot[t]
      p == SentPrio(t)
      items == ListFrom(head)
      low == Lower(items, p)
      n == IF low = {} THEN Len(items) + 1
           ELSE CHOOSE k \in low : \A j \in low : k <= j
  IN  /\ Relock(t, "link")
      /\ prio' = [prio EXCEPT ![s] = p]
      /\ head' = IF n = 1 THEN s ELSE head
      /\ tail' = IF low = {} THEN s ELSE tail
      /\ next' = [i \in Slots |-> IF i = s /\ low # {} THEN items[n]
                                 ELSE IF n > 1 /\ i = items[n - 1] THEN s
                                 ELSE next[i]]
      /\ entry' = entry + 1
      /\ slot' = [slot EXCEPT ![t] = Null]
      /\ msg' = [msg EXCEPT ![t] = NoMessage]
      /\ received' = NoMessage
      /\ LeaveAndWake(t, "recv")
      /\ UNCHANGED <<free, content>>

(* rt_mq_urgent.                                                           *)
Urgent(t, m) == Enter(t) /\ TakeSlot(t, m, "front") /\ UNCHANGED next

(* Fault: the receivers are not looked at.                                 *)
LinkFrontWakesNobody(t) ==
  LET s == slot[t]
  IN  /\ Relock(t, "front")
      /\ next' = [next EXCEPT ![s] = head]
      /\ head' = s
      /\ tail' = IF tail = Null THEN s ELSE tail
      /\ entry' = entry + 1
      /\ slot' = [slot EXCEPT ![t] = Null]
      /\ received' = NoMessage
      /\ Leave(t)
      /\ UNCHANGED <<free, prio, content, msg>>

(* Fault: the message goes behind all, as that of rt_mq_send would.        *)
LinkFrontLast(t) ==
  LET s == slot[t]
  IN  /\ Relock(t, "front")
      /\ next' = [i \in Slots |-> IF i = s THEN Null ELSE IF i = tail THEN s ELSE next[i]]
      /\ head' = IF head = Null THEN s ELSE head
      /\ tail' = s
      /\ entry' = entry + 1
      /\ slot' = [slot EXCEPT ![t] = Null]
      /\ received' = NoMessage
      /\ LeaveAndWake(t, "recv")
      /\ UNCHANGED <<free, prio, content, msg>>

LinkFront(t) ==
  LET s == slot[t]
  IN  /\ Relock(t, "front")
      /\ next' = [next EXCEPT ![s] = head]
      /\ head' = s
      /\ tail' = IF tail = Null THEN s ELSE tail
      /\ entry' = entry + 1
      /\ slot' = [slot EXCEPT ![t] = Null]
      /\ received' = NoMessage
      /\ LeaveAndWake(t, "recv")
      /\ UNCHANGED <<free, prio, content, msg>>

-------------------------------------------------------------------------------
(* _rt_mq_recv.                                                            *)

Receiving(t) == Enter(t) \/ Reenter(t, "recv")

(* The head is taken off, and read without the lock.                       *)
Recv(t) ==
  /\ Receiving(t)
  /\ entry # 0
  /\ head' = next[head]
  /\ tail' = IF tail = head THEN Null ELSE tail
  /\ entry' = entry - 1
  /\ slot' = [slot EXCEPT ![t] = head]
  /\ received' = [body |-> content[head], prio |-> prio[head]]
  /\ Goto(t, "return")
  /\ on' = [on EXCEPT ![t] = NoList]
  /\ timed' = [timed EXCEPT ![t] = FALSE]
  /\ UNCHANGED <<threadVars, susp, lock, alive, job, wasted>>
  /\ UNCHANGED <<next, free, prio, content, msg>>

RecvSleep(t, finite) ==
  /\ Receiving(t)
  /\ t \in Woken("recv") => finite = timed[t]
  /\ entry = 0
  /\ Sleep(t, "recv", finite, "EINTR")
  /\ UNCHANGED mqVars

RecvGiveUp(t) ==
  /\ Reenter(t, "recv")
  /\ entry = 0
  /\ timed[t]
  /\ Leave(t)
  /\ UNCHANGED mqVars

(* Fault: a sender is woken when the message is taken, not when the slot   *)
(* is free.                                                                *)
PutBackWakesNobody(t) ==
  /\ Relock(t, "return")
  /\ next' = [next EXCEPT ![slot[t]] = free]
  /\ free' = slot[t]
  /\ content' = [content EXCEPT ![slot[t]] = NoMessage]
  /\ received' = NoMessage
  /\ slot' = [slot EXCEPT ![t] = Null]
  /\ Leave(t)
  /\ UNCHANGED <<head, tail, entry, prio, msg>>

(* The slot is put on the free list, and a waiting sender is woken.        *)
PutBack(t) ==
  /\ Relock(t, "return")
  /\ next' = [next EXCEPT ![slot[t]] = free]
  /\ free' = slot[t]
  /\ content' = [content EXCEPT ![slot[t]] = NoMessage]
  /\ received' = NoMessage
  /\ slot' = [slot EXCEPT ![t] = Null]
  /\ LeaveAndWake(t, "send")
  /\ UNCHANGED <<head, tail, entry, prio, msg>>

-------------------------------------------------------------------------------
(* rt_mq_control, rt_mq_detach, rt_mq_delete: receivers, then senders.     *)

Close(t, why) == ResumeAll(t, why, "recv") /\ UNCHANGED mqVars

CloseStep(t) ==
  /\ \/ \E l \in Lists : ResumeAllStep(t, l)
     \/ ResumeAllNext(t, "recv", "send")
  /\ UNCHANGED mqVars

(* Fault: only the entry counter and the queue are cleared.                *)
CloseLeaksSlots(t) ==
  /\ ResumeAllDone(t, "send")
  /\ head' = IF job = "reset" THEN Null ELSE head
  /\ tail' = IF job = "reset" THEN Null ELSE tail
  /\ entry' = IF job = "reset" THEN 0 ELSE entry
  /\ received' = IF job = "reset" THEN NoMessage ELSE received
  /\ UNCHANGED <<next, free, prio, content, slot, msg>>

(* A reset pushes the queued slots on the free list, one after the other.  *)
CloseDone(t) ==
  LET items == ListFrom(head)
      n == Len(items)
  IN  /\ ResumeAllDone(t, "send")
      /\ IF job = "reset" /\ n > 0
           THEN /\ next' = [s \in Slots |->
                     IF \E k \in 1..n : items[k] = s
                       THEN LET k == CHOOSE i \in 1..n : items[i] = s
                            IN  IF k = 1 THEN free ELSE items[k - 1]
                       ELSE next[s]]
                /\ free' = items[n]
                /\ head' = Null
                /\ tail' = IF tail \in Queued(items) THEN Null ELSE tail
                /\ entry' = 0
                /\ content' = [s \in Slots |-> IF s \in Queued(items) THEN NoMessage
                                              ELSE content[s]]
           ELSE UNCHANGED <<listVars, content>>
      /\ received' = IF job = "reset" THEN NoMessage ELSE received
      /\ UNCHANGED <<prio, slot, msg>>

-------------------------------------------------------------------------------
SendCall(t) ==
  \/ \E m \in Messages : \/ Send(t, m)
                         \/ \E finite \in Timed[t] : SendSleep(t, m, finite)
                         \/ Urgent(t, m)
  \/ SendGiveUp(t)
  \/ Link(t)
  \/ LinkFront(t)

RecvCall(t) ==
  \/ Recv(t)
  \/ \E finite \in Timed[t] : RecvSleep(t, finite)
  \/ RecvGiveUp(t)
  \/ PutBack(t)

Next ==
  \/ \E t \in Senders : SendCall(t)
  \/ \E t \in Receivers : RecvCall(t)
  \/ \E t \in Closers : \/ \E why \in Ops : Close(t, why)
                        \/ CloseStep(t)
                        \/ CloseDone(t)
  \/ WaitStep /\ UNCHANGED mqVars

Spec == Init /\ [][Next]_vars

-------------------------------------------------------------------------------
(* Every slot is in exactly one place: on the free list, in the queue, or  *)
(* in flight in exactly one call.  None leaks, none is filled while it is  *)
(* read, and both lists end.                                               *)
SlotsOwned ==
  LET queued == ListFrom(head)
      unused == ListFrom(free)
      flying == {t \in Threads : slot[t] # Null}
  IN  /\ Queued(queued) \cup Queued(unused) \cup {slot[t] : t \in flying} = Slots
      /\ Len(queued) + Len(unused) + Cardinality(flying) = MaxMsgs

(* No wake-up of a receiver is forgotten, although a message is taken and  *)
(* its slot put back in two sections: one that sleeps beside a message has *)
(* a woken thread ahead of it for every message in the queue.              *)
MessagesClaimed == ItemsClaimed("recv", entry)

(* Nor that of a sender: one that sleeps beside a free slot has a woken    *)
(* thread ahead of it for every slot of the free list.                     *)
SlotsClaimed == ItemsClaimed("send", Len(ListFrom(free)))

(* The queue with its priorities, as the sequence it stands for.           *)
Queue ==
  LET items == ListFrom(head)
  IN  [k \in 1..Len(items) |-> [body |-> content[items[k]], prio |-> prio[items[k]]]]

(* A message goes before the first of lower priority, or to the end.       *)
BeforeLower(q, m) ==
  LET low == {k \in 1..Len(q) : q[k].prio < m.prio}
  IN  {IF low = {} THEN Len(q) + 1 ELSE CHOOSE k \in low : \A j \in low : k <= j}

Abstract == INSTANCE BoundedQueue WITH
  q <- Queue, taken <- received,
  Messages <- [body : Messages, prio : Prios],
  Capacity <- MaxMsgs, Places <- BeforeLower

(* A message queue is a queue of at most MaxMsgs messages: none is lost or *)
(* doubled, one is put where its priority says and behind its equals, an   *)
(* urgent one in front, and a receiver gets the first with its priority.   *)
(* Slots in flight, sleepers and timeouts do not show.                     *)
ImplementsQueue == Abstract!Spec
===============================================================================

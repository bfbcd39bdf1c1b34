-------------------------------- MODULE Mailbox --------------------------------
(***************************************************************************)
(* rt_mailbox of rt-thread/src/ipc.c: a ring of mails, a list of receivers *)
(* that wait for a mail and a list of senders that wait for room.          *)
(*                                                                         *)
(* A woken thread is promised nothing: it takes the spinlock again and     *)
(* tests the ring anew, and others may have been faster.  If its timeout   *)
(* has run down meanwhile it gives up.  A call that returns without        *)
(* changing anything (timeout 0, or urgent, on a full ring) is a           *)
(* stuttering step.  The test of entry against RT_MB_ENTRY_MAX never fails *)
(* for a size of 16 bits and is left out.                                  *)
(***************************************************************************)
EXTENDS IpcWait

CONSTANTS
  Mails,     \* values that are sent
  NoMail,    \* content of a cell that was never written
  Size,      \* number of cells of the ring
  Senders,   \* the threads that send
  Receivers, \* the threads that receive
  Closers,   \* the threads that reset and detach the mailbox
  Ops        \* which of the two they do

ASSUME MailboxListsAssumption == Lists = {"recv", "send"}
ASSUME SizeAssumption == Size \in Nat \ {0}
ASSUME NoMailAssumption == NoMail \notin Mails
ASSUME CallersAssumption == Senders \cup Receivers \cup Closers \subseteq Threads
ASSUME OpsAssumption == Ops \subseteq {"reset", "detach"}

(* The count of wasted wake-ups stops no lower than what it is added to.   *)
ASSUME WastedAssumption == Size <= MaxWasted

VARIABLES
  msg_pool, entry, in_offset, out_offset,   \* of struct rt_mailbox
  mail,       \* the value a waiting sender wants to send
  received    \* history: the mail that the last change of the ring gave
              \* to a receiver, NoMail if it was a send or a reset

ringVars == <<msg_pool, entry, in_offset, out_offset>>
vars == <<ipcVars, ringVars, mail, received>>

(* The counter and both offsets stay inside the ring, so that no send      *)
(* writes past the pool, and every thread and list keeps its type.         *)
TypeOK ==
  /\ WaitTypeOK({})
  /\ msg_pool \in [0..(Size - 1) -> Mails \cup {NoMail}]
  /\ entry \in 0..Size
  /\ in_offset \in 0..(Size - 1) /\ out_offset \in 0..(Size - 1)
  /\ mail \in [Threads -> Mails \cup {NoMail}]
  /\ received \in Mails \cup {NoMail}

Init ==
  /\ WaitInit
  /\ msg_pool = [i \in 0..(Size - 1) |-> NoMail]
  /\ entry = 0 /\ in_offset = 0 /\ out_offset = 0
  /\ mail = [t \in Threads |-> NoMail]
  /\ received = NoMail

(* The next cell: the offset goes back to 0 at the end of the ring.        *)
Advance(offset) == IF offset + 1 >= Size THEN 0 ELSE offset + 1

-------------------------------------------------------------------------------
(* _rt_mb_send_wait: t holds the spinlock, at its entry or after a wait.   *)

Sending(t, m) == Enter(t) \/ (Reenter(t, "send") /\ m = mail[t])

Send(t, m) ==
  /\ Sending(t, m)
  /\ entry # Size
  /\ msg_pool' = [msg_pool EXCEPT ![in_offset] = m]
  /\ in_offset' = Advance(in_offset)
  /\ entry' = entry + 1
  /\ mail' = [mail EXCEPT ![t] = NoMail]
  /\ received' = NoMail
  /\ LeaveAndWake(t, "recv")
  /\ UNCHANGED out_offset

SendSleep(t, m, finite) ==
  /\ Sending(t, m)
  /\ t \in Woken("send") => finite = timed[t]
  /\ entry = Size
  /\ mail' = [mail EXCEPT ![t] = m]
  /\ Sleep(t, "send", finite, "EINTR")
  /\ UNCHANGED <<ringVars, received>>

SendGiveUp(t) ==
  /\ Reenter(t, "send")
  /\ entry = Size
  /\ timed[t]
  /\ Leave(t)
  /\ mail' = [mail EXCEPT ![t] = NoMail]
  /\ UNCHANGED <<ringVars, received>>

(* Fault: no receiver is woken.                                            *)
UrgentWakesNobody(t, m) ==
  /\ Enter(t)
  /\ entry # Size
  /\ out_offset' = IF out_offset > 0 THEN out_offset - 1 ELSE Size - 1
  /\ msg_pool' = [msg_pool EXCEPT ![out_offset'] = m]
  /\ entry' = entry + 1
  /\ received' = NoMail
  /\ Leave(t)
  /\ UNCHANGED <<in_offset, mail>>

(* Fault: the mail is stored before the ring is rewound.                   *)
UrgentStoresFirst(t, m) ==
  /\ Enter(t)
  /\ entry # Size
  /\ out_offset' = IF out_offset > 0 THEN out_offset - 1 ELSE Size - 1
  /\ msg_pool' = [msg_pool EXCEPT ![out_offset] = m]
  /\ entry' = entry + 1
  /\ received' = NoMail
  /\ LeaveAndWake(t, "recv")
  /\ UNCHANGED <<in_offset, mail>>

(* rt_mb_urgent: the ring is rewound by one cell.                          *)
Urgent(t, m) ==
  /\ Enter(t)
  /\ entry # Size
  /\ out_offset' = IF out_offset > 0 THEN out_offset - 1 ELSE Size - 1
  /\ msg_pool' = [msg_pool EXCEPT ![out_offset'] = m]
  /\ entry' = entry + 1
  /\ received' = NoMail
  /\ LeaveAndWake(t, "recv")
  /\ UNCHANGED <<in_offset, mail>>

-------------------------------------------------------------------------------
(* _rt_mb_recv.                                                            *)

Receiving(t) == Enter(t) \/ Reenter(t, "recv")

(* Fault: a sender is woken only when the ring was full.                   *)
RecvWakesIfFull(t) ==
  /\ Receiving(t)
  /\ entry # 0
  /\ received' = msg_pool[out_offset]
  /\ out_offset' = Advance(out_offset)
  /\ entry' = entry - 1
  /\ IF entry = Size THEN LeaveAndWake(t, "send") ELSE Leave(t)
  /\ UNCHANGED <<msg_pool, in_offset, mail>>

Recv(t) ==
  /\ Receiving(t)
  /\ entry # 0
  /\ received' = msg_pool[out_offset]
  /\ out_offset' = Advance(out_offset)
  /\ entry' = entry - 1
  /\ LeaveAndWake(t, "send")
  /\ UNCHANGED <<msg_pool, in_offset, mail>>

RecvSleep(t, finite) ==
  /\ Receiving(t)
  /\ t \in Woken("recv") => finite = timed[t]
  /\ entry = 0
  /\ Sleep(t, "recv", finite, "EINTR")
  /\ UNCHANGED <<ringVars, mail, received>>

RecvGiveUp(t) ==
  /\ Reenter(t, "recv")
  /\ entry = 0
  /\ timed[t]
  /\ Leave(t)
  /\ UNCHANGED <<ringVars, mail, received>>

-------------------------------------------------------------------------------
(* rt_mb_control, rt_mb_detach, rt_mb_delete: receivers, then senders.     *)

(* Fault: the receivers are not resumed.                                   *)
CloseForgetsReceivers(t, why) ==
  ResumeAll(t, why, "send") /\ UNCHANGED <<ringVars, mail, received>>

Close(t, why) ==
  ResumeAll(t, why, "recv") /\ UNCHANGED <<ringVars, mail, received>>

CloseStep(t) ==
  /\ \/ \E l \in Lists : ResumeAllStep(t, l)
     \/ ResumeAllNext(t, "recv", "send")
  /\ UNCHANGED <<ringVars, mail, received>>

CloseDone(t) ==
  /\ ResumeAllDone(t, "send")
  /\ entry' = IF job = "reset" THEN 0 ELSE entry
  /\ in_offset' = IF job = "reset" THEN 0 ELSE in_offset
  /\ out_offset' = IF job = "reset" THEN 0 ELSE out_offset
  /\ received' = NoMail
  /\ UNCHANGED <<msg_pool, mail>>

-------------------------------------------------------------------------------
SendCall(t) ==
  \/ \E m \in Mails : \/ Send(t, m)
                      \/ \E finite \in Timed[t] : SendSleep(t, m, finite)
                      \/ Urgent(t, m)
  \/ SendGiveUp(t)

RecvCall(t) ==
  \/ Recv(t)
  \/ \E finite \in Timed[t] : RecvSleep(t, finite)
  \/ RecvGiveUp(t)

Next ==
  \/ \E t \in Senders : SendCall(t)
  \/ \E t \in Receivers : RecvCall(t)
  \/ \E t \in Closers :
       \/ \E why \in Ops : Close(t, why)
       \/ CloseStep(t)
       \/ CloseDone(t)
  \/ WaitStep /\ UNCHANGED <<ringVars, mail, received>>

Spec == Init /\ [][Next]_vars

-------------------------------------------------------------------------------
(* The mails in the ring, the oldest first.                                *)
Queue == [i \in 1..entry |-> msg_pool[(out_offset + i - 1) % Size]]

EndOnly(q, m) == {Len(q) + 1}

Abstract == INSTANCE BoundedQueue WITH
  q <- Queue, taken <- received, Messages <- Mails, NoMessage <- NoMail,
  Capacity <- Size, Places <- EndOnly

(* A mailbox is a queue of at most Size mails: none is lost, doubled or    *)
(* overtaken (an urgent one goes in front), whoever sleeps, wakes, gives   *)
(* up or is reset, and at whatever offset the ring wraps around.           *)
ImplementsQueue == Abstract!Spec

(* No wake-up of a receiver is forgotten: one that sleeps beside a mail    *)
(* has a woken thread ahead of it for every mail in the ring, except where *)
(* the wake-up met a waiter in its timeout.                                *)
MailsClaimed == ItemsClaimed("recv", entry)

(* Nor that of a sender: one that sleeps beside a free cell has a woken    *)
(* thread ahead of it for every free cell, with the same exception.        *)
RoomClaimed == ItemsClaimed("send", Size - entry)

(* Reset, detach and delete wake everybody: when they return, a list on    *)
(* which no wake-up met a waiter in its timeout is empty.                  *)
CloseWakesAll == [][job # "none" /\ job' = "none" => AllWoken']_vars
===============================================================================

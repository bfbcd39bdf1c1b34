----------------------------- MODULE MailboxProofs -----------------------------
(***************************************************************************)
(* Proofs about Mailbox, for every number of threads and every size of the *)
(* ring.  What concerns the suspend lists comes from IpcWaitProofs; here   *)
(* is what ties the lists to the ring, and the ring to a queue.            *)
(***************************************************************************)
EXTENDS Mailbox, IpcWaitProofs

(* Where the next mail goes: entry cells behind the oldest one.            *)
RingInv ==
  /\ msg_pool \in [0..(Size - 1) -> Mails \cup {NoMail}]
  /\ entry \in 0..Size
  /\ out_offset \in 0..(Size - 1)
  /\ in_offset = IF out_offset + entry >= Size THEN out_offset + entry - Size
                 ELSE out_offset + entry

(* A close that has come to the senders is done with the receivers.        *)
Halfway == \A t \in Threads : pc[t] = "send" => (wasted["recv"] = 0 => susp["recv"] = <<>>)

Inv == /\ WaitInv({})
       /\ RingInv
       /\ mail \in [Threads -> Mails \cup {NoMail}]
       /\ received \in Mails \cup {NoMail}
       /\ Claim("recv", entry)
       /\ Claim("send", Size - entry)
       /\ Halfway

(* The two lists are lists, and everybody who calls is a thread.           *)
LEMMA Constants ==
  /\ "recv" \in Lists /\ "send" \in Lists /\ Lists = {"recv", "send"}
  /\ Size \in Nat /\ Size > 0 /\ MaxWasted \in Nat /\ Size <= MaxWasted /\ MaxWasted > 0
  /\ NoThread \notin Threads
BY MailboxListsAssumption, SizeAssumption, WastedAssumption, IpcBoundAssumption,
   NoThreadAssumption

(* Init.                                                                   *)
LEMMA InitHolds == Init => Inv
<1> SUFFICES ASSUME Init PROVE Inv
  OBVIOUS
<1>1. WaitInv({})
  BY WaitInitKeeps DEF Init
<1>2. RingInv
  BY Constants DEF Init, RingInv
<1>3. susp["recv"] = <<>> /\ susp["send"] = <<>>
  BY Constants DEF Init, WaitInit
<1> QED
  BY <1>1, <1>2, <1>3 DEF Init, Inv, Claim, Halfway

(* What is left of the invariant is kept by a step that leaves the count   *)
(* of mails, and takes no wake-up from a thread but t, who has none.       *)
LEMMA QuietStep ==
  ASSUME Inv, WaitInv({})', RingInv', NEW t, GrowsBut(t, "recv"), GrowsBut(t, "send"),
         entry' = entry, t \notin Woken("recv"), t \notin Woken("send"),
         \A u \in Threads : pc'[u] = "send" => pc[u] = "send",
         mail' \in [Threads -> Mails \cup {NoMail}], received' \in Mails \cup {NoMail}
  PROVE  Inv'
<1>1. /\ WaitTypeOK({}) /\ WaitTypeOK({})' /\ entry \in Int /\ Size - entry \in Int
      /\ entry <= entry /\ Size - entry <= Size - entry
      /\ Claim("recv", entry) /\ Claim("send", Size - entry)
  BY Constants DEF Inv, WaitInv, RingInv
<1>2. Claim("recv", entry)'
  <2>1. susp'["recv"] # <<>> => entry <= Cardinality(Woken("recv")') + wasted'["recv"]
    BY <1>1, Constants, ClaimKept
  <2> QED
    BY <2>1 DEF Claim
<1>3. Claim("send", Size - entry)'
  <2>1. susp'["send"] # <<>> => Size - entry <= Cardinality(Woken("send")') + wasted'["send"]
    BY <1>1, Constants, ClaimKept
  <2> QED
    BY <2>1 DEF Claim
<1>4. Halfway'
  <2>1. wasted["recv"] \in Nat /\ wasted'["recv"] \in Nat
    BY <1>1, Constants DEF WaitTypeOK
  <2> QED
    BY <2>1 DEF Inv, Halfway, GrowsBut
<1> QED
  BY <1>2, <1>3, <1>4 DEF Inv

(* A send or an urgent send: one mail more, one cell less, and a wake-up   *)
(* for a receiver.                                                         *)
LEMMA PutKeeps ==
  ASSUME Inv, NEW t \in Threads, Enter(t) \/ Reenter(t, "send"), RingInv',
         entry # Size, entry' = entry + 1, LeaveAndWake(t, "recv"),
         mail' \in [Threads -> Mails \cup {NoMail}], received' = NoMail
  PROVE  Inv'
<1>1. WaitInv({}) /\ stat[t] = "READY" /\ lock = NoThread
  BY CallerRuns DEF Inv
<1>2. WaitInv({})'
  BY <1>1, Constants, LeaveAndWakeKeeps
<1>3. t \notin Woken("recv")
  BY DEF Enter, Reenter, Woken
<1>4. /\ Dequeue("recv", "EOK", 1) /\ 1 \in Nat
      /\ \A u \in Threads \ {t} : pc'[u] = pc[u] /\ on'[u] = on[u]
      /\ \A u \in Threads : pc'[u] = "send" => pc[u] = "send"
  BY <1>1 DEF LeaveAndWake, Return, Goto, WaitInv, WaitTypeOK
<1>5. GrowsBut(t, "recv") /\ GrowsBut(t, "send")
  BY <1>1, <1>4, Constants, DequeueGrows
<1>6. /\ WaitTypeOK({}) /\ WaitTypeOK({})' /\ entry \in Nat /\ entry < MaxWasted
      /\ Size - entry \in Int /\ Size - entry' \in Int /\ Size - entry' < Size - entry
      /\ Claim("recv", entry) /\ Claim("send", Size - entry)
  BY <1>2, Constants DEF Inv, WaitInv, RingInv
<1>7. Claim("recv", entry)'
  <2>1. susp'["recv"] # <<>> => entry + 1 <= Cardinality(Woken("recv")') + wasted'["recv"]
    BY <1>1, <1>2, <1>3, <1>6, Constants, ClaimWoken
  <2> QED
    BY <2>1 DEF Claim
<1>8. Claim("send", Size - entry)'
  <2>1. susp'["send"] # <<>> => Size - entry' <= Cardinality(Woken("send")') + wasted'["send"]
    BY <1>5, <1>6, Constants, ClaimKept
  <2> QED
    BY <2>1 DEF Claim
<1>9. Halfway'
  <2>1. wasted["recv"] \in Nat /\ wasted'["recv"] \in Nat
    BY <1>6, Constants DEF WaitTypeOK
  <2> QED
    BY <2>1, <1>4, <1>5 DEF Inv, Halfway, GrowsBut
<1> QED
  BY <1>2, <1>7, <1>8, <1>9 DEF Inv

(* _rt_mb_recv with a mail: one mail less, and a wake-up for a sender.     *)
LEMMA RecvKeeps ==
  ASSUME Inv, NEW t \in Threads, Recv(t), RingInv'
  PROVE  Inv'
<1>1. WaitInv({}) /\ stat[t] = "READY" /\ lock = NoThread
  BY CallerRuns DEF Inv, Recv, Receiving
<1>2. WaitInv({})' /\ LeaveAndWake(t, "send")
  BY <1>1, Constants, LeaveAndWakeKeeps DEF Recv
<1>3. t \notin Woken("send")
  BY DEF Recv, Receiving, Enter, Reenter, Woken
<1>4. /\ Dequeue("send", "EOK", 1) /\ 1 \in Nat
      /\ \A u \in Threads \ {t} : pc'[u] = pc[u] /\ on'[u] = on[u]
      /\ \A u \in Threads : pc'[u] = "send" => pc[u] = "send"
  BY <1>1, <1>2 DEF LeaveAndWake, Return, Goto, WaitInv, WaitTypeOK
<1>5. GrowsBut(t, "recv") /\ GrowsBut(t, "send")
  BY <1>1, <1>4, Constants, DequeueGrows
<1>6. /\ WaitTypeOK({}) /\ WaitTypeOK({})' /\ entry \in Int /\ entry - 1 \in Int
      /\ entry - 1 < entry /\ entry' = entry - 1
      /\ Size - entry \in Nat /\ Size - entry < MaxWasted
      /\ Claim("recv", entry) /\ Claim("send", Size - entry)
  BY <1>2, Constants DEF Inv, WaitInv, RingInv, Recv
<1>7. Claim("recv", entry)'
  <2>1. susp'["recv"] # <<>> => entry - 1 <= Cardinality(Woken("recv")') + wasted'["recv"]
    BY <1>5, <1>6, Constants, ClaimKept
  <2> QED
    BY <2>1, <1>6 DEF Claim
<1>8. Claim("send", Size - entry)'
  <2>1. susp'["send"] # <<>> =>
          (Size - entry) + 1 <= Cardinality(Woken("send")') + wasted'["send"]
    BY <1>1, <1>2, <1>3, <1>6, Constants, ClaimWoken
  <2>2. (Size - entry) + 1 = Size - entry'
    BY <1>6, Constants
  <2> QED
    BY <2>1, <2>2 DEF Claim
<1>9. Halfway'
  <2>1. wasted["recv"] \in Nat /\ wasted'["recv"] \in Nat
    BY <1>6, Constants DEF WaitTypeOK
  <2> QED
    BY <2>1, <1>4, <1>5 DEF Inv, Halfway, GrowsBut
<1>10. /\ mail' \in [Threads -> Mails \cup {NoMail}]
       /\ received' \in Mails \cup {NoMail}
  BY DEF Inv, RingInv, Recv
<1> QED
  BY <1>2, <1>7, <1>8, <1>9, <1>10 DEF Inv

(* A call that sleeps on l, or gives up, leaves the other list alone, and  *)
(* on l there is nothing to claim.                                         *)
LEMMA NothingToClaim ==
  ASSUME Inv, WaitInv({})', NEW t, NEW l \in Lists, entry' = entry,
         l = "recv" => entry = 0, l = "send" => entry = Size,
         \A k \in Lists : k # l => t \notin Woken(k) /\ GrowsBut(t, k)
  PROVE  Claim("recv", entry)' /\ Claim("send", Size - entry)'
<1>1. /\ WaitTypeOK({}) /\ WaitTypeOK({})' /\ entry \in Int /\ Size - entry \in Int
      /\ entry <= entry /\ Size - entry <= Size - entry
      /\ Claim("recv", entry) /\ Claim("send", Size - entry)
      /\ wasted' \in [Lists -> Nat]
  BY Constants DEF Inv, WaitInv, RingInv, WaitTypeOK
<1>2. \A k \in Lists : Cardinality(Woken(k)') + wasted'[k] >= 0
  <2> SUFFICES ASSUME NEW k \in Lists PROVE Cardinality(Woken(k)') + wasted'[k] >= 0
    OBVIOUS
  <2>1. Woken(k)' \subseteq Threads
    BY DEF Woken
  <2>2. Cardinality(Woken(k)') \in Nat
    BY <2>1, ThreadsCounted
  <2> QED
    BY <2>2, <1>1
<1>3. Claim("recv", entry)'
  <2>1. CASE l = "recv"
    BY <2>1, <1>2, Constants DEF Claim
  <2>2. CASE l # "recv"
    <3>1. susp'["recv"] # <<>> => entry <= Cardinality(Woken("recv")') + wasted'["recv"]
      BY <2>2, <1>1, Constants, ClaimKept
    <3> QED
      BY <3>1 DEF Claim
  <2> QED
    BY <2>1, <2>2
<1>4. Claim("send", Size - entry)'
  <2>1. CASE l = "send"
    <3>1. Size - entry' = 0
      BY <2>1, Constants
    <3> QED
      BY <3>1, <1>2, Constants DEF Claim
  <2>2. CASE l # "send"
    <3>1. susp'["send"] # <<>> => Size - entry <= Cardinality(Woken("send")') + wasted'["send"]
      BY <2>2, <1>1, Constants, ClaimKept
    <3> QED
      BY <3>1 DEF Claim
  <2> QED
    BY <2>1, <2>2
<1> QED
  BY <1>3, <1>4

(* A woken thread gives up.                                                *)
LEMMA GiveUpKeeps ==
  ASSUME Inv, NEW t \in Threads, NEW l \in Lists, Reenter(t, l), Leave(t),
         UNCHANGED <<ringVars, received>>,
         l = "recv" => entry = 0, l = "send" => entry = Size,
         mail' \in [Threads -> Mails \cup {NoMail}]
  PROVE  Inv'
<1>1. WaitInv({}) /\ stat[t] = "READY" /\ lock = NoThread
  BY CallerRuns DEF Inv
<1>2. WaitInv({})'
  BY <1>1, LeaveKeeps
<1>3. RingInv' /\ entry' = entry
  BY DEF Inv, RingInv, ringVars
<1>4. GrowsBut(t, "recv") /\ GrowsBut(t, "send")
  BY <1>1, Constants, LeaveGrows
<1>5. \A k \in Lists : k # l => t \notin Woken(k) /\ GrowsBut(t, k)
  BY <1>4, Constants DEF Reenter, Woken
<1>6. Claim("recv", entry)' /\ Claim("send", Size - entry)'
  BY <1>2, <1>3, <1>5, NothingToClaim
<1>7. Halfway'
  <2>1. \A u \in Threads : pc'[u] = "send" => pc[u] = "send"
    BY <1>1 DEF Leave, Return, Goto, WaitInv, WaitTypeOK
  <2>2. wasted["recv"] \in Nat /\ wasted'["recv"] \in Nat
    BY <1>1, <1>2, Constants DEF WaitInv, WaitTypeOK
  <2> QED
    BY <2>1, <2>2, <1>4 DEF Inv, Halfway, GrowsBut
<1> QED
  BY <1>2, <1>3, <1>6, <1>7 DEF Inv

(* A thread goes to sleep.                                                 *)
LEMMA SleepKeepsInv ==
  ASSUME Inv, NEW t \in Threads, NEW l \in Lists, Enter(t) \/ Reenter(t, l),
         NEW finite \in BOOLEAN, Sleep(t, l, finite, "EINTR"),
         UNCHANGED <<ringVars, received>>,
         l = "recv" => entry = 0, l = "send" => entry = Size,
         mail' \in [Threads -> Mails \cup {NoMail}]
  PROVE  Inv'
<1>1. WaitInv({}) /\ stat[t] = "READY" /\ lock = NoThread /\ "EINTR" \in Errors
  BY CallerRuns DEF Inv, Errors
<1>2. WaitInv({})'
  BY <1>1, SleepKeeps
<1>3. RingInv' /\ entry' = entry
  BY DEF Inv, RingInv, ringVars
<1>4. \A k \in Lists : k # l => t \notin Woken(k) /\ GrowsBut(t, k)
  BY <1>1, SleepGrows DEF Enter, Reenter, Woken
<1>5. Claim("recv", entry)' /\ Claim("send", Size - entry)'
  BY <1>2, <1>3, <1>4, NothingToClaim
<1>6. Halfway'
  <2>1. \A u \in Threads : pc[u] # "send"
    BY <1>1, Constants DEF WaitInv, HolderInv
  <2>2. \A u \in Threads : pc'[u] # "send"
    BY <2>1, <1>1 DEF Sleep, Goto, WaitInv, WaitTypeOK
  <2> QED
    BY <2>2 DEF Halfway
<1> QED
  BY <1>2, <1>3, <1>5, <1>6 DEF Inv

-------------------------------------------------------------------------------
(* The ring.                                                               *)

(* Taking a mail from the front, putting one behind all and one in front   *)
(* of all keep the offsets apart by the number of mails.                   *)
LEMMA RingKept ==
  ASSUME RingInv, NEW t, NEW m \in Mails, Send(t, m) \/ Urgent(t, m) \/ Recv(t)
  PROVE  RingInv'
<1>1. CASE Send(t, m)
  BY <1>1, Constants DEF RingInv, Send, Advance
<1>2. CASE Urgent(t, m)
  BY <1>2, Constants DEF RingInv, Urgent
<1>3. CASE Recv(t)
  BY <1>3, Constants DEF RingInv, Recv, Advance
<1> QED
  BY <1>1, <1>2, <1>3

-------------------------------------------------------------------------------
(* Reset, detach and delete.                                               *)

LEMMA CloseKeeps ==
  ASSUME Inv, NEW t \in Threads, NEW why \in Ops, Close(t, why)
  PROVE  Inv'
<1>1. WaitInv({}) /\ why \in {"reset", "detach"} /\ ResumeAll(t, why, "recv")
  BY OpsAssumption DEF Inv, Close
<1>2. WaitInv({})'
  BY <1>1, Constants, ResumeAllKeeps
<1>3. /\ RingInv' /\ entry' = entry
      /\ mail' \in [Threads -> Mails \cup {NoMail}] /\ received' \in Mails \cup {NoMail}
  BY DEF Inv, RingInv, ringVars, Close
<1>4. t \notin Woken("recv") /\ t \notin Woken("send")
  BY <1>1 DEF ResumeAll, Enter, Woken
<1>5. /\ \A u \in Threads : pc'[u] = "send" => pc[u] = "send"
      /\ \A u \in Threads \ {t} : pc'[u] = pc[u]
      /\ UNCHANGED <<stat, error, susp, on, wasted>>
  BY <1>1 DEF ResumeAll, Goto, WaitInv, WaitTypeOK, threadVars
<1>6. GrowsBut(t, "recv") /\ GrowsBut(t, "send")
  BY <1>1, <1>5, Constants DEF GrowsBut, Woken, WaitInv, WaitTypeOK
<1> QED
  BY <1>2, <1>3, <1>4, <1>5, <1>6, QuietStep

LEMMA CloseStepKeeps ==
  ASSUME Inv, NEW t \in Threads, CloseStep(t)
  PROVE  Inv'
<1>1. WaitInv({}) /\ MaxWasted \in Nat
  BY Constants DEF Inv
<1>2. WaitInv({})'
  BY <1>1, Constants, ResumeAllStepKeeps DEF CloseStep
<1>3. /\ RingInv' /\ entry' = entry
      /\ mail' \in [Threads -> Mails \cup {NoMail}] /\ received' \in Mails \cup {NoMail}
  BY DEF Inv, RingInv, ringVars, CloseStep
<1>4. t \notin Woken("recv") /\ t \notin Woken("send")
  BY Constants DEF CloseStep, ResumeAllStep, ResumeAllNext, Woken
<1>5. CASE \E l \in Lists : ResumeAllStep(t, l)
  <2>1. PICK l \in Lists : ResumeAllStep(t, l)
    BY <1>5
  <2>2. Dequeue(l, "ERROR", MaxWasted) /\ UNCHANGED <<pc, on>>
    BY <2>1 DEF ResumeAllStep
  <2>3. GrowsBut(t, "recv") /\ GrowsBut(t, "send")
    BY <2>2, <1>1, Constants, DequeueGrows
  <2> QED
    BY <1>2, <1>3, <1>4, <2>2, <2>3, QuietStep
<1>6. CASE ResumeAllNext(t, "recv", "send")
  <2>1. /\ Dequeue("recv", "ERROR", MaxWasted) /\ ~DequeueOK("recv") /\ UNCHANGED on
        /\ \A u \in Threads \ {t} : pc'[u] = pc[u]
    BY <1>6, <1>1 DEF ResumeAllNext, Goto, WaitInv, WaitTypeOK
  <2>2. GrowsBut(t, "recv") /\ GrowsBut(t, "send")
    BY <2>1, <1>1, Constants, DequeueGrows
  <2>3. /\ WaitTypeOK({}) /\ WaitTypeOK({})' /\ entry \in Int /\ Size - entry \in Int
        /\ entry <= entry /\ Size - entry <= Size - entry
        /\ Claim("recv", entry) /\ Claim("send", Size - entry)
    BY <1>2, Constants DEF Inv, WaitInv, RingInv
  <2>4. Claim("recv", entry)'
    <3>1. susp'["recv"] # <<>> => entry <= Cardinality(Woken("recv")') + wasted'["recv"]
      BY <1>4, <2>2, <2>3, Constants, ClaimKept
    <3> QED
      BY <3>1, <1>3 DEF Claim
  <2>5. Claim("send", Size - entry)'
    <3>1. susp'["send"] # <<>> => Size - entry <= Cardinality(Woken("send")') + wasted'["send"]
      BY <1>4, <2>2, <2>3, Constants, ClaimKept
    <3> QED
      BY <3>1, <1>3 DEF Claim
  <2>6. Halfway'
    BY <2>1, <1>1, Constants, LastDequeue DEF Halfway
  <2> QED
    BY <1>2, <1>3, <2>4, <2>5, <2>6 DEF Inv
<1> QED
  BY <1>5, <1>6 DEF CloseStep

(* When the senders are done, the list of senders is empty or counts as    *)
(* many wasted wake-ups as there can be.                                   *)
LEMMA CloseDoneKeeps ==
  ASSUME Inv, NEW t \in Threads, CloseDone(t)
  PROVE  Inv' /\ AllWoken'
<1>1. /\ WaitInv({}) /\ MaxWasted \in Nat /\ ResumeAllDone(t, "send")
      /\ WaitTypeOK({}) /\ pc[t] = "send"
  BY Constants DEF Inv, CloseDone, ResumeAllDone, WaitInv
<1>2. WaitInv({})' /\ WaitTypeOK({})'
  BY <1>1, Constants, ResumeAllStepKeeps DEF WaitInv
<1>3. /\ RingInv'
      /\ mail' \in [Threads -> Mails \cup {NoMail}] /\ received' \in Mails \cup {NoMail}
  BY Constants DEF Inv, RingInv, CloseDone
<1>4. t \notin Woken("recv") /\ t \notin Woken("send")
  BY <1>1, Constants DEF Woken
<1>5. /\ Dequeue("send", "ERROR", MaxWasted) /\ ~DequeueOK("send") /\ UNCHANGED on
      /\ \A u \in Threads \ {t} : pc'[u] = pc[u]
      /\ pc'[t] = "idle"
  BY <1>1 DEF ResumeAllDone, Goto, WaitTypeOK
<1>6. GrowsBut(t, "recv")
  BY <1>5, <1>1, Constants, DequeueGrows
<1>7. /\ susp' = susp
      /\ susp["send"] # <<>> => wasted'["send"] = MaxWasted
      /\ wasted'["recv"] = wasted["recv"]
  BY <1>5, <1>1, Constants, LastDequeue
<1>8. entry \in Int /\ entry' \in Int /\ entry' <= entry /\ Claim("recv", entry)
      /\ Size - entry' <= MaxWasted
  BY <1>3, Constants DEF Inv, RingInv, CloseDone
<1>9. Claim("recv", entry)'
  <2>1. susp'["recv"] # <<>> => entry' <= Cardinality(Woken("recv")') + wasted'["recv"]
    BY <1>1, <1>2, <1>4, <1>6, <1>8, Constants, ClaimKept
  <2> QED
    BY <2>1 DEF Claim
<1>10. Claim("send", Size - entry)'
  <2>1. Woken("send")' \subseteq Threads
    BY DEF Woken
  <2>2. Cardinality(Woken("send")') \in Nat
    BY <2>1, ThreadsCounted
  <2> QED
    BY <2>2, <1>7, <1>8, Constants DEF Claim
<1>11. Halfway'
  <2>1. \A u \in Threads : pc[u] = "send" => u = t
    BY <1>1, Constants DEF WaitInv, HolderInv
  <2> QED
    BY <2>1, <1>5 DEF Halfway
<1>12. AllWoken'
  BY <1>1, <1>7, Constants DEF Inv, Halfway, AllWoken
<1> QED
  BY <1>2, <1>3, <1>9, <1>10, <1>11, <1>12 DEF Inv
-------------------------------------------------------------------------------
(* Every step, and what follows for every behaviour.                       *)

LEMMA StepKeeps == Inv /\ [Next]_vars => Inv'
<1> SUFFICES ASSUME Inv, [Next]_vars PROVE Inv'
  OBVIOUS
<1>1. Senders \subseteq Threads /\ Receivers \subseteq Threads /\ Closers \subseteq Threads
  BY CallersAssumption
<1>2. RingInv /\ mail \in [Threads -> Mails \cup {NoMail}] /\ WaitInv({})
  BY DEF Inv
<1>3. ASSUME NEW t \in Senders, SendCall(t) PROVE Inv'
  <2>1. t \in Threads
    BY <1>1
  <2>2. ASSUME NEW m \in Mails, Send(t, m) PROVE Inv'
    <3>1. RingInv'
      BY <1>2, <2>2, RingKept
    <3>2. /\ Enter(t) \/ Reenter(t, "send")
          /\ entry # Size /\ entry' = entry + 1 /\ LeaveAndWake(t, "recv")
          /\ mail' \in [Threads -> Mails \cup {NoMail}] /\ received' = NoMail
      BY <1>2, <2>2 DEF Send, Sending
    <3> QED
      BY <2>1, <3>1, <3>2, PutKeeps
  <2>3. ASSUME NEW m \in Mails, Urgent(t, m) PROVE Inv'
    <3>1. RingInv'
      BY <1>2, <2>3, RingKept
    <3>2. /\ Enter(t)
          /\ entry # Size /\ entry' = entry + 1 /\ LeaveAndWake(t, "recv")
          /\ mail' \in [Threads -> Mails \cup {NoMail}] /\ received' = NoMail
      BY <1>2, <2>3 DEF Urgent
    <3> QED
      BY <2>1, <3>1, <3>2, PutKeeps
  <2>4. ASSUME NEW m \in Mails, NEW finite \in Timed[t], SendSleep(t, m, finite) PROVE Inv'
    <3>1. finite \in BOOLEAN
      BY <2>1, IpcTimedAssumption
    <3>2. /\ Enter(t) \/ Reenter(t, "send")
          /\ entry = Size /\ Sleep(t, "send", finite, "EINTR")
          /\ UNCHANGED <<ringVars, received>>
          /\ mail' \in [Threads -> Mails \cup {NoMail}]
      BY <1>2, <2>4 DEF SendSleep, Sending
    <3> QED
      BY <2>1, <3>1, <3>2, Constants, SleepKeepsInv
  <2>5. ASSUME SendGiveUp(t) PROVE Inv'
    <3>1. /\ Reenter(t, "send") /\ entry = Size /\ Leave(t)
          /\ UNCHANGED <<ringVars, received>>
          /\ mail' \in [Threads -> Mails \cup {NoMail}]
      BY <1>2, <2>5 DEF SendGiveUp
    <3> QED
      BY <2>1, <3>1, Constants, GiveUpKeeps
  <2> QED
    BY <1>3, <2>2, <2>3, <2>4, <2>5 DEF SendCall
<1>4. ASSUME NEW t \in Receivers, RecvCall(t) PROVE Inv'
  <2>1. t \in Threads
    BY <1>1
  <2>2. ASSUME Recv(t) PROVE Inv'
    <3>1. RingInv'
      BY <1>2, <2>2, Constants DEF RingInv, Recv, Advance
    <3> QED
      BY <2>1, <2>2, <3>1, RecvKeeps
  <2>3. ASSUME NEW finite \in Timed[t], RecvSleep(t, finite) PROVE Inv'
    <3>1. finite \in BOOLEAN
      BY <2>1, IpcTimedAssumption
    <3>2. /\ Enter(t) \/ Reenter(t, "recv")
          /\ entry = 0 /\ Sleep(t, "recv", finite, "EINTR")
          /\ UNCHANGED <<ringVars, received>>
          /\ mail' \in [Threads -> Mails \cup {NoMail}]
      BY <1>2, <2>3 DEF RecvSleep, Receiving
    <3> QED
      BY <2>1, <3>1, <3>2, Constants, SleepKeepsInv
  <2>4. ASSUME RecvGiveUp(t) PROVE Inv'
    <3>1. /\ Reenter(t, "recv") /\ entry = 0 /\ Leave(t)
          /\ UNCHANGED <<ringVars, received>>
          /\ mail' \in [Threads -> Mails \cup {NoMail}]
      BY <1>2, <2>4 DEF RecvGiveUp
    <3> QED
      BY <2>1, <3>1, Constants, GiveUpKeeps
  <2> QED
    BY <1>4, <2>2, <2>3, <2>4 DEF RecvCall
<1>5. ASSUME NEW t \in Closers,
             (\E why \in Ops : Close(t, why)) \/ CloseStep(t) \/ CloseDone(t)
      PROVE  Inv'
  BY <1>1, <1>5, CloseKeeps, CloseStepKeeps, CloseDoneKeeps
<1>6. ASSUME WaitStep, UNCHANGED <<ringVars, mail, received>> PROVE Inv'
  <2>1. WaitInv({})'
    BY <1>2, <1>6, WaitStepKeeps
  <2>2. GrowsBut(NoThread, "recv") /\ GrowsBut(NoThread, "send")
    BY <1>2, <1>6, Constants, WaitStepGrows
  <2>3. NoThread \notin Woken("recv") /\ NoThread \notin Woken("send")
    BY Constants DEF Woken
  <2>4. \A u \in Threads : pc'[u] = "send" => pc[u] = "send"
    BY <1>2, <1>6 DEF WaitStep, Arm, ReturnError, Return, Goto, Expire, Timeout,
       TimeoutAssertFails, waitVars, WaitInv, WaitTypeOK
  <2>5. /\ RingInv' /\ entry' = entry
        /\ mail' \in [Threads -> Mails \cup {NoMail}] /\ received' \in Mails \cup {NoMail}
    BY <1>6 DEF Inv, RingInv, ringVars
  <2> QED
    BY <2>1, <2>2, <2>3, <2>4, <2>5, QuietStep
<1>7. ASSUME UNCHANGED vars PROVE Inv'
  <2>1. UNCHANGED <<ipcVars, ringVars, mail, received>>
    BY <1>7 DEF vars
  <2> QED
    BY <2>1 DEF Inv, WaitInv, WaitTypeOK, ThreadTypeOK, SleepInv, HolderInv, SleepersQueued,
       RingInv, Claim, Woken, Halfway, ipcVars, threadVars, waitVars, ringVars
<1> QED
  BY <1>3, <1>4, <1>5, <1>6, <1>7 DEF Next

(* The invariant holds in every reachable state.                           *)
THEOREM Invariance == Spec => []Inv
BY InitHolds, StepKeeps, PTL DEF Spec

(* Every receiver that sleeps beside a mail has a woken receiver ahead of  *)
(* it for every mail, or a wake-up met a waiter in its timeout             *)
(* (rt_mb_send_wait, rt_mb_urgent, _rt_mb_recv), for every number of       *)
(* threads and cells.                                                      *)
THEOREM MailsAreClaimed == Spec => []MailsClaimed
<1>1. Inv => MailsClaimed
  BY DEF Inv, Claim, MailsClaimed, ItemsClaimed
<1> QED
  BY <1>1, Invariance, PTL

(* The same for a sender that sleeps beside a free cell.                   *)
THEOREM RoomIsClaimed == Spec => []RoomClaimed
<1>1. Inv => RoomClaimed
  BY DEF Inv, Claim, RoomClaimed, ItemsClaimed
<1> QED
  BY <1>1, Invariance, PTL

(* The suspend lists of a mailbox hold exactly the threads that sleep on   *)
(* it, each once and on its own list, and the offsets stay in the ring.    *)
THEOREM TypeCorrect == Spec => [](TypeOK /\ SleepersQueued)
<1>1. Inv => TypeOK /\ SleepersQueued
  BY Constants DEF Inv, WaitInv, RingInv, TypeOK
<1> QED
  BY <1>1, Invariance, PTL

(* When reset, detach or delete returns, it has resumed everybody, except  *)
(* on a list where a wake-up met a waiter in its timeout                   *)
(* (rt_susp_list_resume_all of the receivers, then of the senders).        *)
THEOREM ClosingWakesAll == Spec => CloseWakesAll
<1>1. Inv /\ [Next]_vars => [job # "none" /\ job' = "none" => AllWoken']_vars
  <2> SUFFICES ASSUME Inv, Next, job # "none", job' = "none" PROVE AllWoken'
    OBVIOUS
  <2>1. ASSUME NEW t \in Senders PROVE ~SendCall(t)
    BY DEF SendCall, Send, Urgent, SendSleep, SendGiveUp, LeaveAndWake, Leave, Sleep
  <2>2. ASSUME NEW t \in Receivers PROVE ~RecvCall(t)
    BY DEF RecvCall, Recv, RecvSleep, RecvGiveUp, LeaveAndWake, Leave, Sleep
  <2>3. ~WaitStep
    BY DEF WaitStep, Arm, ReturnError, Expire, Timeout, TimeoutAssertFails, waitVars
  <2>4. ASSUME NEW t \in Closers
        PROVE  ~CloseStep(t) /\ \A why \in Ops : ~Close(t, why)
    BY OpsAssumption DEF CloseStep, Close, ResumeAll, ResumeAllStep, ResumeAllNext
  <2>5. PICK t \in Closers : CloseDone(t)
    BY <2>1, <2>2, <2>3, <2>4 DEF Next
  <2> QED
    BY <2>5, CallersAssumption, CloseDoneKeeps
<1> QED
  BY <1>1, Invariance, PTL DEF Spec, CloseWakesAll
-------------------------------------------------------------------------------
(* A mailbox is a bounded queue.                                           *)

(* An offset that runs past the end of the ring, once.                     *)
LEMMA Wrapped ==
  ASSUME NEW n \in Nat \ {0}, NEW a \in Nat, a < n + n
  PROVE  a % n = IF a < n THEN a ELSE a - n
<1>1. a % n \in 0..(n - 1) /\ a \div n \in Int /\ a = n * (a \div n) + (a % n)
  OBVIOUS
<1> DEFINE d == a \div n
           r == a % n
<1>2. d \in Int /\ r \in 0..(n - 1) /\ a = n * d + r
  BY <1>1
<1> HIDE DEF d, r
<1>3. d < 2 /\ d >= 0
  BY <1>2
<1>4. d = 0 \/ d = 1
  BY <1>2, <1>3
<1>5. n * 0 = 0 /\ n * 1 = n
  OBVIOUS
<1>6. r = IF a < n THEN a ELSE a - n
  BY <1>2, <1>4, <1>5
<1> QED
  BY <1>6 DEF r

(* The cell of the i-th mail.                                              *)
Cell(out, i) == IF out + i - 1 < Size THEN out + i - 1 ELSE out + i - 1 - Size

(* What Queue is, for any pool, offset and number of mails.                *)
Ring(pool, out, n) == [i \in 1..n |-> pool[(out + i - 1) % Size]]

(* The mails in the ring are a sequence, read cell by cell.                *)
LEMMA QueueCells ==
  ASSUME NEW pool \in [0..(Size - 1) -> Mails \cup {NoMail}], NEW n \in 0..Size,
         NEW out \in 0..(Size - 1)
  PROVE  /\ Ring(pool, out, n) \in Seq(Mails \cup {NoMail}) /\ Len(Ring(pool, out, n)) = n
         /\ \A i \in 1..n : /\ Ring(pool, out, n)[i] = pool[Cell(out, i)]
                             /\ Cell(out, i) \in 0..(Size - 1)
<1>1. Size \in Nat \ {0} /\ n \in Nat
  BY Constants
<1>2. ASSUME NEW i \in 1..n
      PROVE  /\ (out + i - 1) % Size = Cell(out, i)
             /\ Cell(out, i) \in 0..(Size - 1)
  <2> DEFINE a == out + i - 1
  <2>1. a \in Nat /\ a < Size + Size
    BY <1>1
  <2>2. Cell(out, i) = IF a < Size THEN a ELSE a - Size
    BY <1>1, <2>1 DEF Cell
  <2>3. Cell(out, i) \in 0..(Size - 1)
    BY <1>1, <2>1, <2>2
  <2> HIDE DEF a
  <2>4. a % Size = Cell(out, i)
    BY <1>1, <2>1, <2>2, Wrapped
  <2> QED
    BY <2>3, <2>4 DEF a
<1> DEFINE q == Ring(pool, out, n)
<1>3. q \in [1..n -> Mails \cup {NoMail}] /\ \A i \in 1..n : q[i] = pool[Cell(out, i)]
  BY <1>2 DEF Ring
<1> HIDE DEF q
<1>4. q \in Seq(Mails \cup {NoMail}) /\ Len(q) = n
  BY <1>1, <1>3, FunctionIsSeq
<1> QED
  BY <1>2, <1>3, <1>4 DEF q

(* Two sequences with the same elements are the same.                      *)
LEMMA SameSeq ==
  ASSUME NEW S, NEW r \in Seq(S), NEW s \in Seq(S), Len(r) = Len(s),
         \A i \in 1..Len(r) : r[i] = s[i]
  PROVE  r = s
BY SeqEqual

(* The queue before and after a step, cell by cell.                        *)
LEMMA BothQueues ==
  ASSUME RingInv, RingInv'
  PROVE  /\ Queue \in Seq(Mails \cup {NoMail}) /\ Len(Queue) = entry
         /\ \A i \in 1..entry : /\ Queue[i] = msg_pool[Cell(out_offset, i)]
                                 /\ Cell(out_offset, i) \in 0..(Size - 1)
         /\ Queue' \in Seq(Mails \cup {NoMail}) /\ Len(Queue') = entry'
         /\ \A i \in 1..entry' : Queue'[i] = msg_pool'[Cell(out_offset', i)]
<1> DEFINE q == Queue
           r == Queue'
<1>1. /\ msg_pool \in [0..(Size - 1) -> Mails \cup {NoMail}] /\ entry \in 0..Size
      /\ out_offset \in 0..(Size - 1)
  BY DEF RingInv
<1>2. /\ msg_pool' \in [0..(Size - 1) -> Mails \cup {NoMail}] /\ entry' \in 0..Size
      /\ out_offset' \in 0..(Size - 1)
  BY DEF RingInv
<1>3. q = Ring(msg_pool, out_offset, entry) /\ r = Ring(msg_pool', out_offset', entry')
  BY DEF Queue, Ring
<1> HIDE DEF q, r
<1>4. /\ q \in Seq(Mails \cup {NoMail}) /\ Len(q) = entry
      /\ \A i \in 1..entry : /\ q[i] = msg_pool[Cell(out_offset, i)]
                              /\ Cell(out_offset, i) \in 0..(Size - 1)
  BY <1>1, <1>3, QueueCells
<1>5. /\ r \in Seq(Mails \cup {NoMail}) /\ Len(r) = entry'
      /\ \A i \in 1..entry' : r[i] = msg_pool'[Cell(out_offset', i)]
  BY <1>2, <1>3, QueueCells
<1> QED
  BY <1>4, <1>5 DEF q, r

(* A send puts its mail behind all others.                                 *)
LEMMA SendPuts ==
  ASSUME Inv, NEW t, NEW m \in Mails, Send(t, m)
  PROVE  Abstract!Put(m)
<1>1. RingInv /\ RingInv' /\ Size \in Nat
  BY RingKept, Constants DEF Inv
<1> DEFINE q == Queue
           r == Queue'
           p == SubSeq(q, 1, entry) \o <<m>> \o SubSeq(q, entry + 1, entry)
<1>2. /\ q \in Seq(Mails \cup {NoMail}) /\ Len(q) = entry
      /\ \A i \in 1..entry : /\ q[i] = msg_pool[Cell(out_offset, i)]
                              /\ Cell(out_offset, i) \in 0..(Size - 1)
      /\ r \in Seq(Mails \cup {NoMail}) /\ Len(r) = entry'
      /\ \A i \in 1..entry' : r[i] = msg_pool'[Cell(out_offset', i)]
  BY <1>1, BothQueues
<1> HIDE DEF q, r
<1>3. /\ entry \in Nat /\ entry < Size /\ entry' = entry + 1 /\ out_offset' = out_offset
      /\ received' = NoMail
      /\ msg_pool' = [msg_pool EXCEPT ![in_offset] = m]
      /\ in_offset \in 0..(Size - 1)
  BY <1>1 DEF Send, RingInv
<1>4. \A i \in 1..entry : Cell(out_offset, i) # in_offset
  BY <1>1, <1>3 DEF Cell, RingInv
<1>5. Cell(out_offset, entry + 1) = in_offset
  BY <1>1, <1>3 DEF Cell, RingInv
<1>6. \A i \in 1..entry : r[i] = q[i]
  BY <1>1, <1>2, <1>3, <1>4 DEF RingInv
<1>7. r[entry + 1] = m
  BY <1>1, <1>2, <1>3, <1>5 DEF RingInv
<1>8. /\ p \in Seq(Mails \cup {NoMail}) /\ Len(p) = entry + 1
      /\ \A i \in 1..entry : p[i] = q[i]
      /\ p[entry + 1] = m
  BY <1>2, <1>3
<1> HIDE DEF p
<1>9. r = p
  BY <1>2, <1>3, <1>6, <1>7, <1>8, SameSeq
<1> USE DEF q, r, p
<1>10. Queue' = Abstract!InsertedAt(Queue, entry + 1, m)
  BY <1>2, <1>3, <1>9 DEF Abstract!InsertedAt
<1>11. entry + 1 \in EndOnly(Queue, m)
  BY <1>2 DEF EndOnly
<1> QED
  BY <1>2, <1>3, <1>10, <1>11 DEF Abstract!Put

(* An urgent send puts its mail in front of all others.                    *)
LEMMA UrgentPutsFront ==
  ASSUME Inv, NEW t, NEW m \in Mails, Urgent(t, m)
  PROVE  Abstract!PutFront(m)
<1>1. RingInv /\ RingInv' /\ Size \in Nat
  BY RingKept, Constants DEF Inv
<1> DEFINE q == Queue
           r == Queue'
           p == <<m>> \o q
<1>2. /\ q \in Seq(Mails \cup {NoMail}) /\ Len(q) = entry
      /\ \A i \in 1..entry : /\ q[i] = msg_pool[Cell(out_offset, i)]
                              /\ Cell(out_offset, i) \in 0..(Size - 1)
      /\ r \in Seq(Mails \cup {NoMail}) /\ Len(r) = entry'
      /\ \A i \in 1..entry' : r[i] = msg_pool'[Cell(out_offset', i)]
  BY <1>1, BothQueues
<1> HIDE DEF q, r
<1>3. /\ entry \in Nat /\ entry < Size /\ entry' = entry + 1
      /\ out_offset' = IF out_offset > 0 THEN out_offset - 1 ELSE Size - 1
      /\ received' = NoMail
      /\ msg_pool' = [msg_pool EXCEPT ![out_offset'] = m]
      /\ out_offset \in 0..(Size - 1) /\ out_offset' \in 0..(Size - 1)
      /\ msg_pool \in [0..(Size - 1) -> Mails \cup {NoMail}]
  BY <1>1 DEF Urgent, RingInv
<1>4. \A i \in 1..entry : /\ Cell(out_offset, i) # out_offset'
                           /\ Cell(out_offset', i + 1) = Cell(out_offset, i)
  BY <1>1, <1>3 DEF Cell
<1>5. Cell(out_offset', 1) = out_offset'
  BY <1>1, <1>3 DEF Cell
<1>6. \A i \in 1..entry : r[i + 1] = q[i]
  BY <1>2, <1>3, <1>4
<1>7. r[1] = m
  BY <1>2, <1>3, <1>5
<1>8. /\ p \in Seq(Mails \cup {NoMail}) /\ Len(p) = entry + 1
      /\ p[1] = m
      /\ \A i \in 1..(entry + 1) : i # 1 => p[i] = q[i - 1]
  BY <1>2, <1>3
<1>9. \A i \in 1..(entry + 1) : i # 1 => r[i] = q[i - 1]
  BY <1>3, <1>6
<1> HIDE DEF p
<1>10. r = p
  BY <1>2, <1>3, <1>7, <1>8, <1>9, SameSeq
<1> QED
  BY <1>2, <1>3, <1>10 DEF Abstract!PutFront, p, q, r

(* A receive takes the mail in front.                                      *)
LEMMA RecvTakes ==
  ASSUME Inv, NEW t, Recv(t)
  PROVE  Abstract!Take
<1>1. RingInv /\ RingInv' /\ Size \in Nat
  BY Constants DEF Inv, RingInv, Recv, Advance
<1> DEFINE q == Queue
           r == Queue'
<1>2. /\ q \in Seq(Mails \cup {NoMail}) /\ Len(q) = entry
      /\ \A i \in 1..entry : /\ q[i] = msg_pool[Cell(out_offset, i)]
                              /\ Cell(out_offset, i) \in 0..(Size - 1)
      /\ r \in Seq(Mails \cup {NoMail}) /\ Len(r) = entry'
      /\ \A i \in 1..entry' : r[i] = msg_pool'[Cell(out_offset', i)]
  BY <1>1, BothQueues
<1> HIDE DEF q, r
<1>3. /\ entry \in Nat /\ entry <= Size /\ entry > 0 /\ entry' = entry - 1
      /\ out_offset' = IF out_offset + 1 >= Size THEN 0 ELSE out_offset + 1
      /\ received' = msg_pool[out_offset]
      /\ msg_pool' = msg_pool
      /\ out_offset \in 0..(Size - 1)
  BY <1>1 DEF Recv, RingInv, Advance
<1>4. \A i \in 1..(entry - 1) : Cell(out_offset', i) = Cell(out_offset, i + 1)
  BY <1>1, <1>3 DEF Cell
<1>5. Cell(out_offset, 1) = out_offset
  BY <1>1, <1>3 DEF Cell
<1>6. q # <<>> /\ received' = Head(q)
  BY <1>2, <1>3, <1>5
<1>7. ASSUME NEW i \in 1..(entry - 1) PROVE r[i] = q[i + 1]
  <2>1. i \in 1..entry' /\ i + 1 \in 1..entry
    BY <1>3
  <2>2. r[i] = msg_pool'[Cell(out_offset', i)]
    BY <2>1, <1>2
  <2>3. q[i + 1] = msg_pool[Cell(out_offset, i + 1)]
    BY <2>1, <1>2
  <2> QED
    BY <2>2, <2>3, <1>3, <1>4
<1>8. /\ Tail(q) \in Seq(Mails \cup {NoMail}) /\ Len(Tail(q)) = entry - 1
      /\ \A i \in 1..(entry - 1) : Tail(q)[i] = q[i + 1]
  BY <1>2, <1>3, <1>6
<1>9. r = Tail(q)
  BY <1>2, <1>3, <1>7, <1>8, SameSeq
<1> QED
  BY <1>6, <1>9 DEF Abstract!Take, q, r

(* The queue at the start.                                                 *)
LEMMA InitRefines == Init => Abstract!Init
<1> SUFFICES ASSUME Init PROVE Queue = <<>> /\ received = NoMail
  BY DEF Abstract!Init
<1>1. Queue = [i \in 1..0 |-> msg_pool[(out_offset + i - 1) % Size]]
  BY DEF Init, Queue
<1>2. Queue \in Seq({NoMail}) /\ Len(Queue) = 0
  BY <1>1, FunctionIsSeq
<1> QED
  BY <1>2 DEF Init

(* Every step of the mailbox is one of the queue, or does not show.        *)
LEMMA StepRefines ==
  Inv /\ [Next]_vars => [Abstract!Next]_<<Queue, received>>
<1> SUFFICES ASSUME Inv, [Next]_vars PROVE [Abstract!Next]_<<Queue, received>>
  OBVIOUS
<1>1. ASSUME UNCHANGED <<ringVars, received>> PROVE UNCHANGED <<Queue, received>>
  BY <1>1 DEF Queue, ringVars
<1>2. ASSUME NEW t \in Senders, SendCall(t)
      PROVE  UNCHANGED <<Queue, received>> \/ Abstract!Next
  <2>1. ASSUME NEW m \in Mails, Send(t, m) PROVE Abstract!Next
    BY <2>1, SendPuts DEF Abstract!Next
  <2>2. ASSUME NEW m \in Mails, Urgent(t, m) PROVE Abstract!Next
    BY <2>2, UrgentPutsFront DEF Abstract!Next
  <2>3. ASSUME NEW m \in Mails, NEW finite \in Timed[t], SendSleep(t, m, finite)
        PROVE  UNCHANGED <<ringVars, received>>
    BY <2>3 DEF SendSleep
  <2>4. ASSUME SendGiveUp(t) PROVE UNCHANGED <<ringVars, received>>
    BY <2>4 DEF SendGiveUp
  <2> QED
    BY <1>1, <1>2, <2>1, <2>2, <2>3, <2>4 DEF SendCall
<1>3. ASSUME NEW t \in Receivers, RecvCall(t)
      PROVE  UNCHANGED <<Queue, received>> \/ Abstract!Next
  <2>1. ASSUME Recv(t) PROVE Abstract!Next
    BY <2>1, RecvTakes DEF Abstract!Next
  <2>2. ASSUME NEW finite \in Timed[t], RecvSleep(t, finite)
        PROVE  UNCHANGED <<ringVars, received>>
    BY <2>2 DEF RecvSleep
  <2>3. ASSUME RecvGiveUp(t) PROVE UNCHANGED <<ringVars, received>>
    BY <2>3 DEF RecvGiveUp
  <2> QED
    BY <1>1, <1>3, <2>1, <2>2, <2>3 DEF RecvCall
<1>4. ASSUME NEW t \in Closers, CloseDone(t) PROVE Abstract!Next
  <2>1. received' = NoMail /\ msg_pool' = msg_pool
    BY <1>4 DEF CloseDone
  <2>2. CASE job = "reset"
    <3>1. entry' = 0
      BY <1>4, <2>2 DEF CloseDone
    <3>2. Queue' \in Seq(Mails \cup {NoMail}) /\ Len(Queue') = 0
      <4>1. Queue' = [i \in 1..0 |-> msg_pool'[(out_offset' + i - 1) % Size]]
        BY <3>1 DEF Queue
      <4> QED
        BY <4>1, FunctionIsSeq
    <3>3. Queue' = <<>>
      BY <3>2
    <3> QED
      BY <2>1, <3>3 DEF Abstract!Next, Abstract!Clear
  <2>3. CASE job # "reset"
    <3>1. Queue' = Queue
      BY <1>4, <2>1, <2>3 DEF CloseDone, Queue
    <3> QED
      BY <2>1, <3>1 DEF Abstract!Next, Abstract!Forget
  <2> QED
    BY <2>2, <2>3
<1>5. ASSUME NEW t \in Closers, (\E why \in Ops : Close(t, why)) \/ CloseStep(t)
      PROVE  UNCHANGED <<ringVars, received>>
  BY <1>5 DEF Close, CloseStep
<1>6. UNCHANGED vars => UNCHANGED <<ringVars, received>>
  BY DEF vars
<1> QED
  BY <1>1, <1>2, <1>3, <1>4, <1>5, <1>6 DEF Next

(* A mailbox implements a bounded queue: no mail is lost, doubled or       *)
(* overtaken but by an urgent one, at whatever offset the ring wraps       *)
(* around, for every size of it (rt_mb_send_wait, rt_mb_urgent,            *)
(* _rt_mb_recv, rt_mb_control).                                            *)
THEOREM MailboxIsAQueue == Spec => ImplementsQueue
BY InitRefines, StepRefines, Invariance, PTL DEF Spec, ImplementsQueue, Abstract!Spec

===============================================================================

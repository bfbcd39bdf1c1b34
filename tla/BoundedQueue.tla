----------------------------- MODULE BoundedQueue -----------------------------
(***************************************************************************)
(* What a mailbox or a message queue promises its callers: a queue of at   *)
(* most Capacity messages.  A message is put in its place behind others,   *)
(* or in front of all; the one in front is taken; a reset drops all.  Who  *)
(* sleeps and who is woken does not show.                                  *)
(***************************************************************************)
EXTENDS Naturals, Sequences

CONSTANTS
  Messages,      \* what can be sent
  NoMessage,     \* not a message
  Capacity,
  Places(_, _)   \* the positions of queue q at which a message may be put

VARIABLES
  q,             \* the messages, the one to be taken next first
  taken          \* the message that was taken last, until it is forgotten

InsertedAt(s, i, m) == SubSeq(s, 1, i - 1) \o <<m>> \o SubSeq(s, i, Len(s))

Init == q = <<>> /\ taken = NoMessage

Put(m) ==
  /\ taken' = NoMessage
  /\ Len(q) < Capacity
  /\ \E i \in Places(q, m) : q' = InsertedAt(q, i, m)

PutFront(m) ==
  /\ taken' = NoMessage
  /\ Len(q) < Capacity
  /\ q' = <<m>> \o q

Take ==
  /\ q # <<>>
  /\ taken' = Head(q)
  /\ q' = Tail(q)

(* The receiver has returned with what it took.                            *)
Forget == taken' = NoMessage /\ UNCHANGED q

Clear == taken' = NoMessage /\ q' = <<>>

Next == Take \/ Forget \/ Clear \/ \E m \in Messages : Put(m) \/ PutFront(m)

Spec == Init /\ [][Next]_<<q, taken>>
===============================================================================

------------------------------- MODULE Allocator -------------------------------
(***************************************************************************)
(* What a heap promises to its callers, whatever its data structure: every *)
(* live block is a region of the heap of its own, at least as long as was  *)
(* asked for, and no call touches a live block but the one it is about.    *)
(***************************************************************************)
EXTENDS Integers

CONSTANTS
  HeapSize,   \* bytes of the heap, headers included
  Requests    \* the sizes that callers ask for

VARIABLES
  owned,   \* the length of every live block, by the offset of its data
  asked    \* the size its caller asked for last

(* f with x mapped to v, and f without x.                                  *)
Put(f, x, v) == [y \in DOMAIN f \cup {x} |-> IF y = x THEN v ELSE f[y]]
Drop(f, x) == [y \in DOMAIN f \ {x} |-> f[y]]

(* [a, a + s) is inside the heap and overlaps none of the blocks of f.     *)
Apart(f, a, s) ==
  /\ a \in 0..HeapSize /\ a + s <= HeapSize
  /\ \A b \in DOMAIN f : a + s <= b \/ b + f[b] <= a

Init == owned = <<>> /\ asked = <<>>

(* a is a new block of at least n bytes, apart from the live ones.         *)
NewBlock(a, n) == owned'[a] \in n..HeapSize /\ Apart(owned, a, owned'[a])

Alloc(n) ==
  \E a \in DOMAIN owned' \ DOMAIN owned :
    /\ NewBlock(a, n)
    /\ owned' = Put(owned, a, owned'[a])
    /\ asked' = Put(asked, a, n)

Free(a) == owned' = Drop(owned, a) /\ asked' = Drop(asked, a)

(* The block stays where it is, and stays long enough.                     *)
Shrink(a, n) ==
  /\ \E s \in n..owned[a] : owned' = Put(owned, a, s)
  /\ asked' = Put(asked, a, n)

(* The old block is intact while the new one is filled from it.            *)
Move(a, n) ==
  \E b \in DOMAIN owned' \ DOMAIN owned :
    /\ NewBlock(b, n)
    /\ owned' = Drop(Put(owned, b, owned'[b]), a)
    /\ asked' = Drop(Put(asked, b, n), a)

Next ==
  \/ \E n \in Requests \ {0} : Alloc(n)
  \/ \E a \in DOMAIN owned :
       \/ Free(a)
       \/ \E n \in Requests \ {0} : Shrink(a, n) \/ Move(a, n)

Spec == Init /\ [][Next]_<<owned, asked>>
===============================================================================

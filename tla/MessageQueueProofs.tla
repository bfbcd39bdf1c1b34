-------------------------- MODULE MessageQueueProofs --------------------------
(***************************************************************************)
(* Proofs about MessageQueue, for every number of threads and slots.  What *)
(* concerns the suspend lists comes from IpcWaitProofs; here is what ties  *)
(* them to the two linked lists of slots, and these to a queue.            *)
(***************************************************************************)
EXTENDS MessageQueue, IpcWaitProofs

(* The constants of the queue.                                             *)
LEMMA Constants ==
  /\ "recv" \in Lists /\ "send" \in Lists /\ Lists = {"recv", "send"}
  /\ MaxMsgs \in Nat /\ MaxMsgs > 0 /\ MaxWasted \in Nat /\ MaxMsgs <= MaxWasted
  /\ NoThread \notin Threads /\ Slots = 1..MaxMsgs /\ Null = 0 /\ Null \notin Slots
BY QueueListsAssumption, MaxMsgsAssumption, WastedAssumption, IpcBoundAssumption,
   NoThreadAssumption DEF Slots, Null

-------------------------------------------------------------------------------
(* Linked lists.                                                           *)

(* From slot s on, the links nx lead through c, and end there.             *)
Path(c, s, nx) ==
  /\ c \in Seq(Slots)
  /\ Unique(c)
  /\ s = IF c = <<>> THEN Null ELSE c[1]
  /\ \A i \in 1..Len(c) : nx[c[i]] = IF i = Len(c) THEN Null ELSE c[i + 1]

(* x put before the n-th member of c, or behind all.                       *)
Inserted(c, n, x) ==
  [i \in 1..(Len(c) + 1) |-> IF i < n THEN c[i] ELSE IF i = n THEN x ELSE c[i - 1]]

(* It is there, and the others are as they were.                           *)
LEMMA InsertedProperties ==
  ASSUME NEW S, NEW c \in Seq(S), NEW n \in 1..(Len(c) + 1), NEW x \in S
  PROVE  /\ Inserted(c, n, x) \in Seq(S)
         /\ Len(Inserted(c, n, x)) = Len(c) + 1
         /\ \A i \in 1..(Len(c) + 1) :
              Inserted(c, n, x)[i] = IF i < n THEN c[i] ELSE IF i = n THEN x ELSE c[i - 1]
         /\ Queued(Inserted(c, n, x)) = Queued(c) \cup {x}
         /\ Unique(c) /\ x \notin Queued(c) => Unique(Inserted(c, n, x))
<1> DEFINE r == Inserted(c, n, x)
<1>0. Len(c) \in Nat /\ \A i \in 1..Len(c) : c[i] \in S
  BY LenProperties, ElementOfSeq
<1>1. \A i \in 1..(Len(c) + 1) : r[i] = IF i < n THEN c[i] ELSE IF i = n THEN x ELSE c[i - 1]
  BY DEF Inserted
<1>2. r \in [1..(Len(c) + 1) -> S]
  BY <1>0 DEF Inserted
<1>3. r \in Seq(S) /\ Len(r) = Len(c) + 1
  <2> HIDE DEF r
  <2> QED
    BY <1>0, <1>2, FunctionIsSeq
<1> HIDE DEF r
<1>4. \A i \in 1..(Len(c) + 1) : i # n => /\ i < n => i \in 1..Len(c) /\ r[i] = c[i]
                                          /\ i > n => i - 1 \in 1..Len(c) /\ r[i] = c[i - 1]
  BY <1>0, <1>1
<1>5. Queued(r) = Queued(c) \cup {x}
  <2>1. ASSUME NEW y \in Queued(r) PROVE y \in Queued(c) \cup {x}
    <3>1. PICK i \in 1..(Len(c) + 1) : r[i] = y
      BY <1>3 DEF Queued
    <3>2. CASE i = n
      BY <1>1, <3>1, <3>2
    <3>3. CASE i < n
      BY <1>4, <3>1, <3>3 DEF Queued
    <3>4. CASE i > n
      BY <1>4, <3>1, <3>4 DEF Queued
    <3> QED
      BY <3>2, <3>3, <3>4
  <2>2. ASSUME NEW y \in Queued(c) PROVE y \in Queued(r)
    <3>1. PICK i \in 1..Len(c) : c[i] = y
      BY DEF Queued
    <3>2. CASE i < n
      <4>1. i \in 1..Len(r) /\ r[i] = y
        BY <1>0, <1>3, <1>4, <3>1, <3>2
      <4> QED
        BY <4>1 DEF Queued
    <3>3. CASE i >= n
      <4>1. i + 1 \in 1..Len(r) /\ i + 1 > n /\ (i + 1) - 1 = i
        BY <1>0, <1>3, <3>3
      <4>2. r[i + 1] = y
        BY <1>3, <1>4, <3>1, <4>1
      <4> QED
        BY <4>1, <4>2 DEF Queued
    <3> QED
      BY <3>2, <3>3
  <2>3. x \in Queued(r)
    <3>1. n \in 1..Len(r) /\ r[n] = x
      BY <1>1, <1>3
    <3> QED
      BY <3>1 DEF Queued
  <2> QED
    BY <2>1, <2>2, <2>3
<1>6. ASSUME Unique(c), x \notin Queued(c) PROVE Unique(r)
  <2> DEFINE old(i) == IF i < n THEN i ELSE i - 1
  <2>1. \A i \in 1..Len(r) : i # n => old(i) \in 1..Len(c) /\ r[i] = c[old(i)] /\ r[i] # x
    BY <1>3, <1>4, <1>6 DEF Queued
  <2>2. r[n] = x
    BY <1>1
  <2> SUFFICES ASSUME NEW i \in 1..Len(r), NEW j \in 1..Len(r), r[i] = r[j] PROVE i = j
    BY DEF Unique
  <2>3. CASE i = n \/ j = n
    BY <2>1, <2>2, <2>3
  <2>4. CASE i # n /\ j # n
    <3>1. old(i) \in 1..Len(c) /\ old(j) \in 1..Len(c) /\ c[old(i)] = c[old(j)]
      BY <2>1, <2>4
    <3> HIDE DEF old
    <3>2. old(i) = old(j)
      BY <1>6, <3>1 DEF Unique
    <3> USE DEF old
    <3> QED
      BY <1>3, <2>4, <3>2
  <2> QED
    BY <2>3, <2>4
<1> QED
  BY <1>1, <1>3, <1>5, <1>6 DEF r

(* A path depends on the links of its own slots only.                      *)
LEMMA PathSame ==
  ASSUME NEW c, NEW s, NEW nx, NEW mx, Path(c, s, nx),
         \A x \in Queued(c) : mx[x] = nx[x]
  PROVE  Path(c, s, mx)
BY DEF Path, Queued

(* A slot that is put on a list.                                           *)
LEMMA PathInserted ==
  ASSUME NEW c, NEW s, NEW nx, NEW mx, Path(c, s, nx),
         NEW x \in Slots, x \notin Queued(c), NEW n \in 1..(Len(c) + 1),
         mx[x] = IF n = Len(c) + 1 THEN Null ELSE c[n],
         n > 1 => mx[c[n - 1]] = x,
         \A i \in 1..Len(c) : i # n - 1 => mx[c[i]] = nx[c[i]]
  PROVE  Path(Inserted(c, n, x), IF n = 1 THEN x ELSE s, mx)
<1> DEFINE r == Inserted(c, n, x)
<1>1. /\ c \in Seq(Slots) /\ Unique(c) /\ Len(c) \in Nat
      /\ \A i \in 1..Len(c) : nx[c[i]] = IF i = Len(c) THEN Null ELSE c[i + 1]
      /\ s = IF c = <<>> THEN Null ELSE c[1]
  BY LenProperties DEF Path
<1>2. /\ r \in Seq(Slots) /\ Unique(r) /\ Len(r) = Len(c) + 1
      /\ \A i \in 1..(Len(c) + 1) : r[i] = IF i < n THEN c[i] ELSE IF i = n THEN x ELSE c[i - 1]
  BY <1>1, InsertedProperties
<1> HIDE DEF r
<1>3. r # <<>> /\ r[1] = IF n = 1 THEN x ELSE s
  BY <1>1, <1>2
<1>4. ASSUME NEW i \in 1..Len(r) PROVE mx[r[i]] = IF i = Len(r) THEN Null ELSE r[i + 1]
  <2>1. CASE i = n
    BY <1>1, <1>2, <2>1
  <2>2. CASE i = n - 1
    BY <1>1, <1>2, <2>2
  <2>3. CASE i < n - 1
    <3>1. i \in 1..Len(c) /\ r[i] = c[i] /\ i # Len(c) /\ r[i + 1] = c[i + 1] /\ i # Len(r)
      BY <1>1, <1>2, <2>3
    <3> QED
      BY <1>1, <2>3, <3>1
  <2>4. CASE i > n
    <3>1. i - 1 \in 1..Len(c) /\ r[i] = c[i - 1] /\ i - 1 # n - 1
      BY <1>1, <1>2, <2>4
    <3>2. mx[r[i]] = IF i - 1 = Len(c) THEN Null ELSE c[(i - 1) + 1]
      BY <1>1, <3>1
    <3>3. i # Len(r) => i + 1 \in 1..(Len(c) + 1) /\ ~(i + 1 < n) /\ i + 1 # n
                        /\ (i + 1) - 1 = i
      <4>1. Len(c) \in Nat /\ Len(r) = Len(c) + 1
        BY <1>1, <1>2
      <4> QED
        BY <2>4, <4>1
    <3>4. i # Len(r) => r[i + 1] = c[i]
      BY <1>2, <3>3
    <3> QED
      BY <1>1, <1>2, <3>2, <3>4
  <2> QED
    BY <1>2, <2>1, <2>2, <2>3, <2>4
<1> QED
  BY <1>2, <1>3, <1>4 DEF Path, r

(* The first slot that is taken off a list.                                *)
LEMMA PathTail ==
  ASSUME NEW c, NEW s, NEW nx, Path(c, s, nx), s # Null
  PROVE  /\ c # <<>> /\ s = Head(c) /\ s \in Slots /\ s = c[1]
         /\ Path(Tail(c), nx[s], nx)
         /\ Queued(Tail(c)) = Queued(c) \ {s} /\ s \in Queued(c)
         /\ Len(Tail(c)) = Len(c) - 1 /\ Len(c) \in Nat /\ Len(c) > 0
<1>1. /\ c \in Seq(Slots) /\ Unique(c) /\ c # <<>> /\ Len(c) \in Nat /\ s = c[1] /\ s = Head(c)
      /\ \A i \in 1..Len(c) : nx[c[i]] = IF i = Len(c) THEN Null ELSE c[i + 1]
  BY LenProperties DEF Path
<1> DEFINE r == Tail(c)
<1>2. /\ r \in Seq(Slots) /\ Unique(r) /\ Queued(r) = Queued(c) \ {s} /\ s \in Queued(c)
  BY <1>1, TailProperties
<1>3. Len(c) > 0 /\ Len(r) = Len(c) - 1 /\ \A i \in 1..(Len(c) - 1) : r[i] = c[i + 1]
  BY <1>1
<1> HIDE DEF r
<1>4. nx[s] = IF r = <<>> THEN Null ELSE r[1]
  BY <1>1, <1>2, <1>3
<1>5. ASSUME NEW i \in 1..Len(r) PROVE nx[r[i]] = IF i = Len(r) THEN Null ELSE r[i + 1]
  <2>1. i + 1 \in 1..Len(c) /\ r[i] = c[i + 1] /\ (i # Len(r) => r[i + 1] = c[i + 2])
    BY <1>1, <1>3
  <2>2. nx[c[i + 1]] = IF i + 1 = Len(c) THEN Null ELSE c[(i + 1) + 1]
    BY <1>1, <2>1
  <2> QED
    BY <1>1, <1>3, <2>1, <2>2
<1> QED
  <2>1. Path(r, nx[s], nx)
    BY <1>2, <1>4, <1>5 DEF Path
  <2>2. s \in Slots
    BY <1>1
  <2> QED
    BY <1>1, <1>2, <1>3, <2>1, <2>2 DEF r

(* A reset pushes the members of c on the list d, one after the other.     *)
LEMMA PathPushed ==
  ASSUME NEW c, NEW h, NEW nx, Path(c, h, nx), NEW d, NEW f, Path(d, f, nx), c # <<>>,
         Queued(c) \cap Queued(d) = {}, NEW mx,
         \A i \in 1..Len(c) : mx[c[i]] = IF i = 1 THEN f ELSE c[i - 1],
         \A x \in Queued(d) : mx[x] = nx[x]
  PROVE  \E e : /\ Path(e, c[Len(c)], mx)
                /\ Queued(e) = Queued(c) \cup Queued(d)
                /\ Len(e) = Len(c) + Len(d)
<1> DEFINE n == Len(c)
           l == n + Len(d)
           e == [i \in 1..l |-> IF i <= n THEN c[n + 1 - i] ELSE d[i - n]]
<1>1. /\ n \in Nat /\ n > 0 /\ Len(d) \in Nat /\ l \in Nat
      /\ c \in Seq(Slots) /\ d \in Seq(Slots) /\ Unique(c) /\ Unique(d)
      /\ \A i \in 1..n : c[i] \in Slots
      /\ \A i \in 1..Len(d) : d[i] \in Slots
  BY DEF Path
<1>2. \A i \in 1..l : /\ i <= n => n + 1 - i \in 1..n /\ e[i] = c[n + 1 - i]
                      /\ i > n => i - n \in 1..Len(d) /\ e[i] = d[i - n]
  BY <1>1
<1>3. e \in Seq(Slots) /\ Len(e) = l
  <2>1. e \in [1..l -> Slots]
    BY <1>1, <1>2
  <2> HIDE DEF e, l
  <2> QED
    BY <2>1, <1>1, FunctionIsSeq
<1> HIDE DEF e
<1>4. Unique(e)
  <2> SUFFICES ASSUME NEW i \in 1..l, NEW j \in 1..l, e[i] = e[j] PROVE i = j
    BY <1>3 DEF Unique
  <2>1. CASE i <= n /\ j <= n
    <3>1. /\ n + 1 - i \in 1..n /\ n + 1 - j \in 1..n
          /\ c[n + 1 - i] = c[n + 1 - j]
      BY <1>2, <2>1
    <3>2. n + 1 - i = n + 1 - j
      BY <1>1, <3>1 DEF Unique
    <3> QED
      BY <3>2, <1>1
  <2>2. CASE i > n /\ j > n
    <3>1. i - n = j - n
      BY <1>1, <1>2, <2>2 DEF Unique
    <3> QED
      BY <3>1, <1>1
  <2>3. \A k, m \in 1..l : k <= n /\ m > n => e[k] # e[m]
    <3> SUFFICES ASSUME NEW k \in 1..l, NEW m \in 1..l, k <= n, m > n PROVE e[k] # e[m]
      OBVIOUS
    <3>1. e[k] \in Queued(c)
      BY <1>2 DEF Queued
    <3>2. e[m] \in Queued(d)
      BY <1>2 DEF Queued
    <3> QED
      BY <3>1, <3>2
  <2>4. (i <= n \/ i > n) /\ (j <= n \/ j > n)
    BY <1>1
  <2> QED
    BY <2>1, <2>2, <2>3, <2>4
<1>5. Queued(e) = Queued(c) \cup Queued(d)
  <2>1. ASSUME NEW x \in Queued(e) PROVE x \in Queued(c) \cup Queued(d)
    <3>1. PICK i \in 1..l : e[i] = x
      BY <1>3 DEF Queued
    <3>2. i <= n \/ i > n
      BY <1>1
    <3> QED
      BY <1>2, <3>1, <3>2 DEF Queued
  <2>2. ASSUME NEW x \in Queued(c) PROVE x \in Queued(e)
    <3>1. PICK i \in 1..n : c[i] = x
      BY DEF Queued
    <3>2. n + 1 - i \in 1..l /\ n + 1 - i <= n /\ n + 1 - (n + 1 - i) = i
      BY <1>1
    <3>3. e[n + 1 - i] = x
      BY <1>2, <3>1, <3>2
    <3> QED
      BY <1>3, <3>2, <3>3 DEF Queued
  <2>3. ASSUME NEW x \in Queued(d) PROVE x \in Queued(e)
    <3>1. PICK i \in 1..Len(d) : d[i] = x
      BY DEF Queued
    <3>2. i + n \in 1..l /\ i + n > n /\ (i + n) - n = i
      BY <1>1
    <3>3. e[i + n] = x
      BY <1>2, <3>1, <3>2
    <3> QED
      BY <1>3, <3>2, <3>3 DEF Queued
  <2> QED
    BY <2>1, <2>2, <2>3
<1>6. e # <<>> /\ e[1] = c[n]
  <2>1. 1 \in 1..l /\ 1 <= n /\ n + 1 - 1 = n /\ Len(e) > 0
    BY <1>1, <1>3
  <2> QED
    BY <1>2, <2>1
<1>7. ASSUME NEW i \in 1..l PROVE mx[e[i]] = IF i = l THEN Null ELSE e[i + 1]
  <2>1. CASE i < n
    <3>1. /\ n + 1 - i \in 1..n /\ e[i] = c[n + 1 - i] /\ n + 1 - i # 1
          /\ (n + 1 - i) - 1 = n + 1 - (i + 1) /\ i + 1 \in 1..l /\ i + 1 <= n /\ i # l
      BY <1>1, <1>2, <2>1
    <3>2. e[i + 1] = c[n + 1 - (i + 1)]
      BY <1>2, <3>1
    <3> QED
      BY <3>1, <3>2
  <2>2. CASE i = n
    <3>1. e[i] = c[1] /\ 1 \in 1..n
      <4>1. n + 1 - i = 1 /\ i <= n
        BY <1>1, <2>2
      <4> QED
        BY <1>1, <1>2, <4>1
    <3>2. mx[e[i]] = f
      BY <3>1
    <3>3. f = IF d = <<>> THEN Null ELSE d[1]
      BY DEF Path
    <3>4. CASE d = <<>>
      BY <1>1, <2>2, <3>2, <3>3, <3>4
    <3>5. CASE d # <<>>
      <4>1. Len(d) > 0 /\ i # l /\ i + 1 \in 1..l /\ i + 1 > n /\ (i + 1) - n = 1
        BY <1>1, <2>2, <3>5
      <4>2. e[i + 1] = d[1]
        BY <1>2, <4>1
      <4> QED
        BY <3>2, <3>3, <3>5, <4>1, <4>2
    <3> QED
      BY <3>4, <3>5
  <2>3. CASE i > n
    <3>1. i - n \in 1..Len(d) /\ e[i] = d[i - n] /\ d[i - n] \in Queued(d)
      BY <1>2, <2>3 DEF Queued
    <3>2. mx[e[i]] = IF i - n = Len(d) THEN Null ELSE d[(i - n) + 1]
      BY <3>1 DEF Path
    <3>3. i # l => i + 1 \in 1..l /\ i + 1 > n /\ (i + 1) - n = (i - n) + 1
      BY <1>1, <2>3
    <3>4. i # l => e[i + 1] = d[(i - n) + 1]
      BY <1>2, <3>3
    <3>5. i = l <=> i - n = Len(d)
      <4>1. n \in Nat /\ Len(d) \in Nat
        BY <1>1
      <4> QED
        BY <4>1
    <3> QED
      BY <3>2, <3>4, <3>5
  <2> QED
    BY <1>1, <2>1, <2>2, <2>3
<1>8. Path(e, c[n], mx)
  BY <1>3, <1>4, <1>6, <1>7 DEF Path
<1> QED
  BY <1>3, <1>5, <1>8

-------------------------------------------------------------------------------
(* ListFrom.                                                               *)

Link0(nx) == [i \in Slots \cup {Null} |-> IF i = Null THEN Null ELSE nx[i]]

(* What nth of ListFrom is defined to be, and the list that is made of it. *)
IsWalk(f, s, nx) == f = [k \in Slots |-> IF k = 1 THEN s ELSE Link0(nx)[f[k - 1]]]
Listed(f) == [k \in 1..Cardinality({k \in Slots : f[k] # Null}) |-> f[k]]
Walked(s, nx) == Listed(CHOOSE f : IsWalk(f, s, nx))

(* There is such a walk.                                                   *)
LEMMA WalkExists ==
  ASSUME NEW s \in Slots \cup {Null}, NEW nx \in [Slots -> Slots \cup {Null}]
  PROVE  \E f : IsWalk(f, s, nx)
<1> DEFINE G == Slots \cup {Null}
           F == Link0(nx)
<1>1. F \in [G -> G] /\ s \in G /\ MaxMsgs \in Nat /\ Slots = 1..MaxMsgs
  BY Constants DEF Link0
<1>2. PICK r : IsRun(r, F, G, s, MaxMsgs)
  <2> HIDE DEF F, G
  <2> QED
    BY <1>1, Iterates
<1> DEFINE f == [k \in Slots |-> r[k - 1]]
           g == [k \in Slots |-> IF k = 1 THEN s ELSE F[f[k - 1]]]
<1>3. ASSUME NEW k \in Slots PROVE f[k] = g[k]
  <2>1. CASE k = 1
    BY <1>1, <1>2, <2>1 DEF IsRun
  <2>2. CASE k # 1
    <3>1. k - 1 \in Slots /\ k - 1 \in 1..MaxMsgs
      BY <1>1, <2>2
    <3>2. r[k - 1] = F[r[(k - 1) - 1]]
      BY <1>2, <3>1 DEF IsRun
    <3> QED
      BY <2>2, <3>1, <3>2
  <2> QED
    BY <2>1, <2>2
<1>4. f = g
  BY <1>3
<1> QED
  BY <1>4 DEF IsWalk

(* It passes the slots of the list in their order, and then stays at Null. *)
LEMMA WalkFollows ==
  ASSUME NEW c, NEW s, NEW nx \in [Slots -> Slots \cup {Null}], Path(c, s, nx),
         Len(c) <= MaxMsgs
  PROVE  Walked(s, nx) = c
<1> DEFINE f == CHOOSE w : IsWalk(w, s, nx)
           n == Len(c)
<1>1. /\ MaxMsgs \in Nat /\ n \in 0..MaxMsgs /\ Slots = 1..MaxMsgs /\ c \in Seq(Slots)
      /\ s \in Slots \cup {Null} /\ s = (IF c = <<>> THEN Null ELSE c[1])
      /\ \A i \in 1..n : c[i] \in Slots /\ nx[c[i]] = IF i = n THEN Null ELSE c[i + 1]
  BY Constants DEF Path
<1>2. IsWalk(f, s, nx)
  BY <1>1, WalkExists
<1> HIDE DEF f
<1>3. \A k \in Slots : f[k] = IF k = 1 THEN s ELSE Link0(nx)[f[k - 1]]
  BY <1>2 DEF IsWalk
<1>4. \A x \in Slots \cup {Null} : Link0(nx)[x] = IF x = Null THEN Null ELSE nx[x]
  BY DEF Link0
<1> DEFINE R == {k \in 0..MaxMsgs : k # 0 => f[k] = IF k <= n THEN c[k] ELSE Null}
<1>5. 0 \in R
  BY <1>1
<1>6. ASSUME NEW k \in 0..(MaxMsgs - 1), k \in R PROVE k + 1 \in R
  <2>1. CASE k = 0
    <3>1. f[1] = s /\ (n >= 1 => c # <<>>) /\ (n < 1 => c = <<>>)
      BY <1>1, <1>3
    <3> QED
      BY <1>1, <2>1, <3>1
  <2>2. CASE k # 0
    <3>1. k + 1 \in Slots /\ k + 1 # 1 /\ (k + 1) - 1 = k
      BY <1>1, <2>2
    <3>2. f[k + 1] = Link0(nx)[f[k]]
      BY <1>3, <3>1
    <3>3. CASE k <= n
      <4>1. k \in 1..n /\ f[k] = c[k] /\ c[k] \in Slots /\ c[k] # Null
        BY <1>1, <1>6, <2>2, <3>3, Constants
      <4>2. f[k + 1] = nx[c[k]]
        BY <1>4, <3>2, <4>1
      <4> QED
        BY <1>1, <3>1, <3>3, <4>1, <4>2
    <3>4. CASE k > n
      <4>1. f[k] = Null
        BY <1>1, <1>6, <2>2, <3>4
      <4> QED
        BY <1>1, <1>4, <3>1, <3>2, <3>4, <4>1
    <3> QED
      BY <1>1, <3>3, <3>4
  <2> QED
    BY <2>1, <2>2
<1>7. \A k \in Slots : f[k] = IF k <= n THEN c[k] ELSE Null
  <2>1. 0..MaxMsgs \subseteq R
    <3> HIDE DEF R
    <3> QED
      BY <1>1, <1>5, <1>6, SetInduction
  <2> QED
    BY <1>1, <2>1
<1>8. {k \in Slots : f[k] # Null} = 1..n
  <2>1. ASSUME NEW k \in 1..n PROVE k \in Slots /\ f[k] # Null
    <3>1. k \in Slots /\ k <= n
      BY <1>1
    <3>2. f[k] = c[k] /\ c[k] \in Slots
      BY <1>1, <1>7, <3>1
    <3> QED
      BY <3>1, <3>2, Constants
  <2>2. \A k \in Slots : f[k] # Null => k \in 1..n
    BY <1>1, <1>7
  <2> QED
    BY <2>1, <2>2
<1>9. Cardinality(1..n) = n
  <2>1. n \in Int /\ 1 \in Int /\ n >= 0
    BY <1>1
  <2> HIDE DEF n
  <2>2. Cardinality(1..n) = IF 1 > n THEN 0 ELSE n - 1 + 1
    BY <2>1, FS_Interval
  <2> QED
    BY <2>1, <2>2
<1>10. Listed(f) = [k \in 1..n |-> f[k]]
  BY <1>8, <1>9 DEF Listed
<1>11. [k \in 1..n |-> f[k]] = [k \in 1..n |-> c[k]]
  BY <1>1, <1>7
<1>12. c = [k \in 1..n |-> c[k]]
  BY <1>1
<1> QED
  BY <1>10, <1>11, <1>12 DEF Walked, f

(* That is what ListFrom gives, before and after a step.                   *)
LEMMA ListsWalked ==
  /\ ListFrom(head) = Walked(head, next) /\ ListFrom(free) = Walked(free, next)
  /\ ListFrom(head)' = Walked(head', next') /\ ListFrom(free)' = Walked(free', next')
BY DEF ListFrom, Walked, Listed, IsWalk, Link0

-------------------------------------------------------------------------------
(* Who has the slots.                                                      *)

(* The threads that have one in flight.                                    *)
Flying(sl) == {t \in Threads : sl[t] # Null}

(* With the links nx, lists c from h on and d from f on, and sl in flight, *)
(* every slot is in one place.                                             *)
Owned(c, d, h, f, nx, sl) ==
  /\ nx \in [Slots -> Slots \cup {Null}]
  /\ sl \in [Threads -> Slots \cup {Null}]
  /\ Path(c, h, nx) /\ Path(d, f, nx)
  /\ Queued(c) \cap Queued(d) = {}
  /\ \A t \in Threads : sl[t] # Null => sl[t] \notin Queued(c) \cup Queued(d)
  /\ \A t, u \in Threads : sl[t] = sl[u] /\ sl[t] # Null => t = u
  /\ Slots \subseteq Queued(c) \cup Queued(d) \cup {sl[t] : t \in Flying(sl)}
  /\ Len(c) + Len(d) + Cardinality(Flying(sl)) = MaxMsgs

(* The two lists play the same part.                                       *)
LEMMA OwnedSwap ==
  ASSUME NEW c, NEW d, NEW h, NEW f, NEW nx, NEW sl, Owned(c, d, h, f, nx, sl)
  PROVE  Owned(d, c, f, h, nx, sl)
<1>1. Len(c) \in Nat /\ Len(d) \in Nat /\ Cardinality(Flying(sl)) \in Nat
  BY ThreadsCounted DEF Owned, Path, Flying
<1>2. Len(d) + Len(c) + Cardinality(Flying(sl)) = MaxMsgs
  BY <1>1 DEF Owned
<1> QED
  BY <1>2 DEF Owned

(* The lists are no longer than the pool.                                  *)
LEMMA OwnedBounds ==
  ASSUME NEW c, NEW d, NEW h, NEW f, NEW nx, NEW sl, Owned(c, d, h, f, nx, sl)
  PROVE  /\ c \in Seq(Slots) /\ Len(c) \in Nat /\ d \in Seq(Slots) /\ Len(d) \in Nat
         /\ Len(c) + Len(d) <= MaxMsgs
         /\ (\E t \in Threads : sl[t] # Null) => Len(c) + Len(d) < MaxMsgs
         /\ Path(c, h, nx) /\ Path(d, f, nx)
<1>1. /\ Len(c) \in Nat /\ Len(d) \in Nat
      /\ IsFiniteSet(Flying(sl)) /\ Cardinality(Flying(sl)) \in Nat
  BY ThreadsCounted DEF Owned, Path, Flying
<1>2. (\E t \in Threads : sl[t] # Null) => Cardinality(Flying(sl)) # 0
  BY <1>1, FS_EmptySet DEF Flying
<1> QED
  BY <1>1, <1>2, Constants DEF Owned, Path

(* A thread takes the first slot of the list d.                            *)
LEMMA OwnedTake ==
  ASSUME NEW c, NEW d, NEW h, NEW f, NEW nx, NEW sl, Owned(c, d, h, f, nx, sl),
         f # Null, NEW t \in Threads, sl[t] = Null, NEW mx \in [Slots -> Slots \cup {Null}],
         \A x \in Slots : x # f => mx[x] = nx[x]
  PROVE  Owned(c, Tail(d), h, nx[f], mx, [sl EXCEPT ![t] = f]) /\ Len(Tail(d)) = Len(d) - 1
<1> DEFINE e == Tail(d)
           tl == [sl EXCEPT ![t] = f]
<1>1. /\ f \in Slots /\ Path(e, nx[f], nx) /\ Queued(e) = Queued(d) \ {f} /\ f \in Queued(d)
      /\ Len(e) = Len(d) - 1 /\ Len(d) \in Nat
  BY PathTail DEF Owned
<1> HIDE DEF e
<1>2. sl \in [Threads -> Slots \cup {Null}] /\ f \notin Queued(c)
  BY <1>1 DEF Owned
<1>3. /\ tl \in [Threads -> Slots \cup {Null}] /\ tl[t] = f
      /\ \A u \in Threads : u # t => tl[u] = sl[u]
  BY <1>1, <1>2
<1> HIDE DEF tl
<1>4. Queued(c) \subseteq Slots /\ Queued(d) \subseteq Slots
  BY DEF Owned, Path, Queued
<1>5. Path(c, h, mx) /\ Path(e, nx[f], mx)
  BY <1>1, <1>2, <1>4, PathSame DEF Owned
<1>6. Flying(tl) = Flying(sl) \cup {t} /\ t \notin Flying(sl)
  BY <1>1, <1>2, <1>3, Constants DEF Flying
<1>7. Cardinality(Flying(tl)) = Cardinality(Flying(sl)) + 1 /\ Cardinality(Flying(sl)) \in Nat
  <2>1. IsFiniteSet(Flying(sl)) /\ Cardinality(Flying(sl)) \in Nat
    BY ThreadsCounted DEF Flying
  <2> HIDE DEF Flying
  <2> QED
    BY <1>6, <2>1, FS_AddElement
<1>8. Len(c) + Len(e) + Cardinality(Flying(tl)) = MaxMsgs
  <2>1. Len(c) \in Nat /\ Len(c) + Len(d) + Cardinality(Flying(sl)) = MaxMsgs
    BY DEF Owned, Path
  <2> QED
    BY <1>1, <1>7, <2>1
<1>9. Slots \subseteq Queued(c) \cup Queued(e) \cup {tl[u] : u \in Flying(tl)}
  <2> SUFFICES ASSUME NEW x \in Slots, x \notin Queued(c), x \notin Queued(e)
               PROVE  \E u \in Flying(tl) : tl[u] = x
    OBVIOUS
  <2>1. CASE x = f
    BY <1>3, <1>6, <2>1
  <2>2. CASE x # f
    <3>1. PICK u \in Flying(sl) : sl[u] = x
      BY <1>1, <2>2 DEF Owned
    <3> QED
      BY <1>3, <1>6, <3>1 DEF Flying
  <2> QED
    BY <2>1, <2>2
<1>10. /\ \A u \in Threads : tl[u] # Null => tl[u] \notin Queued(c) \cup Queued(e)
       /\ \A u, v \in Threads : tl[u] = tl[v] /\ tl[u] # Null => u = v
  BY <1>1, <1>2, <1>3 DEF Owned
<1>11. Queued(c) \cap Queued(e) = {}
  BY <1>1 DEF Owned
<1> QED
  BY <1>1, <1>3, <1>5, <1>8, <1>9, <1>10, <1>11 DEF Owned, e, tl

(* The links mx are nx, with x put before the n-th member of c.            *)
Relinked(c, n, x, nx, mx) ==
  /\ n \in 1..(Len(c) + 1)
  /\ mx \in [Slots -> Slots \cup {Null}]
  /\ mx[x] = IF n = Len(c) + 1 THEN Null ELSE c[n]
  /\ n > 1 => mx[c[n - 1]] = x
  /\ \A y \in Slots : y # x /\ (n > 1 => y # c[n - 1]) => mx[y] = nx[y]

(* A thread puts its slot on the list c.                                   *)
LEMMA OwnedPut ==
  ASSUME NEW c, NEW d, NEW h, NEW f, NEW nx, NEW sl, Owned(c, d, h, f, nx, sl),
         NEW t \in Threads, NEW x, x = sl[t], x # Null,
         NEW n, NEW mx, Relinked(c, n, x, nx, mx),
         NEW g, g = IF n = 1 THEN x ELSE h, NEW tl, tl = [sl EXCEPT ![t] = Null]
  PROVE  Owned(Inserted(c, n, x), d, g, f, mx, tl)
<1> DEFINE e == Inserted(c, n, x)
<1>0. /\ n \in 1..(Len(c) + 1)
      /\ mx \in [Slots -> Slots \cup {Null}]
      /\ mx[x] = IF n = Len(c) + 1 THEN Null ELSE c[n]
      /\ n > 1 => mx[c[n - 1]] = x
      /\ \A y \in Slots : y # x /\ (n > 1 => y # c[n - 1]) => mx[y] = nx[y]
  BY DEF Relinked
<1>1. /\ sl \in [Threads -> Slots \cup {Null}] /\ x \in Slots /\ x \notin Queued(c)
      /\ x \notin Queued(d) /\ c \in Seq(Slots) /\ Unique(c) /\ Len(c) \in Nat
      /\ Queued(c) \cap Queued(d) = {}
  BY DEF Owned, Path
<1>2. Queued(c) \subseteq Slots /\ Queued(d) \subseteq Slots
  BY DEF Owned, Path, Queued
<1>3. /\ tl \in [Threads -> Slots \cup {Null}] /\ tl[t] = Null
      /\ \A u \in Threads : u # t => tl[u] = sl[u]
  BY <1>1
<1>4. \A i \in 1..Len(c) : c[i] \in Queued(c) /\ (i # n - 1 /\ n > 1 => c[i] # c[n - 1])
  <2>1. n > 1 => n - 1 \in 1..Len(c)
    BY <1>0, <1>1
  <2> QED
    BY <1>1, <2>1 DEF Queued, Unique
<1>5. \A i \in 1..Len(c) : i # n - 1 => mx[c[i]] = nx[c[i]]
  BY <1>0, <1>1, <1>2, <1>4
<1>6. Path(e, IF n = 1 THEN x ELSE h, mx)
  BY <1>0, <1>1, <1>5, PathInserted DEF Owned
<1>7. /\ Queued(e) = Queued(c) \cup {x} /\ Len(e) = Len(c) + 1
  BY <1>0, <1>1, InsertedProperties
<1> HIDE DEF e
<1>8. Path(d, f, mx)
  <2>1. n > 1 => c[n - 1] \in Queued(c)
    BY <1>0, <1>1, <1>4
  <2>2. \A y \in Queued(d) : y \in Slots /\ y # x /\ (n > 1 => y # c[n - 1])
    BY <1>1, <1>2, <2>1
  <2>3. \A y \in Queued(d) : mx[y] = nx[y]
    BY <1>0, <2>2
  <2> QED
    BY <2>3, PathSame DEF Owned
<1>9. Flying(tl) = Flying(sl) \ {t} /\ t \in Flying(sl)
  BY <1>1, <1>3 DEF Flying
<1>10. Cardinality(Flying(tl)) = Cardinality(Flying(sl)) - 1 /\ Cardinality(Flying(sl)) \in Nat
  <2>1. IsFiniteSet(Flying(sl)) /\ Cardinality(Flying(sl)) \in Nat
    BY ThreadsCounted DEF Flying
  <2> HIDE DEF Flying
  <2> QED
    BY <1>9, <2>1, FS_RemoveElement
<1>11. Len(e) + Len(d) + Cardinality(Flying(tl)) = MaxMsgs
  <2>1. Len(d) \in Nat /\ Len(c) + Len(d) + Cardinality(Flying(sl)) = MaxMsgs
    BY DEF Owned, Path
  <2> QED
    BY <1>1, <1>7, <1>10, <2>1
<1>12. Slots \subseteq Queued(e) \cup Queued(d) \cup {tl[u] : u \in Flying(tl)}
  <2> SUFFICES ASSUME NEW y \in Slots, y \notin Queued(e), y \notin Queued(d)
               PROVE  \E u \in Flying(tl) : tl[u] = y
    OBVIOUS
  <2>1. PICK u \in Flying(sl) : sl[u] = y
    BY <1>7 DEF Owned
  <2>2. u # t
    BY <1>7, <2>1
  <2> QED
    BY <1>3, <1>9, <2>1, <2>2 DEF Flying
<1>13. /\ \A u \in Threads : tl[u] # Null => tl[u] \notin Queued(e) \cup Queued(d)
       /\ \A u, v \in Threads : tl[u] = tl[v] /\ tl[u] # Null => u = v
  BY <1>1, <1>3, <1>7 DEF Owned
<1>14. Queued(e) \cap Queued(d) = {}
  BY <1>1, <1>7
<1> QED
  BY <1>0, <1>3, <1>6, <1>7, <1>8, <1>11, <1>12, <1>13, <1>14 DEF Owned, e

(* A reset puts the slots of c on d.                                       *)
LEMMA OwnedReset ==
  ASSUME NEW c, NEW d, NEW h, NEW f, NEW nx, NEW sl, Owned(c, d, h, f, nx, sl), c # <<>>,
         NEW mx \in [Slots -> Slots \cup {Null}],
         \A i \in 1..Len(c) : mx[c[i]] = IF i = 1 THEN f ELSE c[i - 1],
         \A x \in Slots \ Queued(c) : mx[x] = nx[x]
  PROVE  \E e : Owned(<<>>, e, Null, c[Len(c)], mx, sl)
<1>1. Queued(d) \subseteq Slots \ Queued(c) /\ Path(c, h, nx) /\ Path(d, f, nx)
  <2>1. Queued(d) \subseteq Slots
    BY DEF Owned, Path, Queued
  <2> QED
    BY <2>1 DEF Owned
<1>2. PICK e : /\ Path(e, c[Len(c)], mx) /\ Queued(e) = Queued(c) \cup Queued(d)
               /\ Len(e) = Len(c) + Len(d)
  <2>1. \A x \in Queued(d) : mx[x] = nx[x]
    BY <1>1
  <2> QED
    BY <1>1, <2>1, PathPushed DEF Owned
<1>3. Path(<<>>, Null, mx) /\ Queued(<<>>) = {} /\ Len(<<>>) = 0
  BY DEF Path, Queued, Unique
<1>4. Len(<<>>) + Len(e) + Cardinality(Flying(sl)) = MaxMsgs
  <2>1. Len(c) \in Nat /\ Len(d) \in Nat /\ Cardinality(Flying(sl)) \in Nat
    BY ThreadsCounted DEF Owned, Path, Flying
  <2> QED
    BY <1>2, <1>3, <2>1 DEF Owned
<1>5. Owned(<<>>, e, Null, c[Len(c)], mx, sl)
  BY <1>2, <1>3, <1>4 DEF Owned
<1> QED
  BY <1>5

-------------------------------------------------------------------------------
(* The invariant.                                                          *)

InCall == {"link", "front", "return"}

Items == ListFrom(head)
Spare == ListFrom(free)

(* The two lists and the slots in flight share out the pool.               *)
SlotInv ==
  /\ Owned(Items, Spare, head, free, next, slot)
  /\ entry = Len(Items)
  /\ tail = IF Items = <<>> THEN Null ELSE Items[Len(Items)]

(* A slot is in flight in the second half of a call, and a queued one has  *)
(* been written.                                                           *)
CallInv ==
  /\ prio \in [Slots -> Prios]
  /\ content \in [Slots -> Messages \cup {NoMessage}]
  /\ msg \in [Threads -> Messages \cup {NoMessage}]
  /\ received \in [body : Messages, prio : Prios] \cup {NoMessage}
  /\ \A x \in Queued(Items) : content[x] \in Messages
  /\ \A t \in Threads : /\ slot[t] # Null <=> pc[t] \in InCall
                        /\ pc[t] = "link" => /\ msg[t] \in Messages
                                             /\ content[slot[t]] = msg[t]
                                             /\ next[slot[t]] = Null
                        /\ pc[t] = "front" => content[slot[t]] \in Messages

(* What the sleepers of a list wait for: messages, or free slots.          *)
Count(l) == IF l = "recv" THEN entry ELSE Len(Spare)

ClaimInv == \A l \in Lists : Claim(l, Count(l))

Inv == WaitInv(InCall) /\ SlotInv /\ CallInv /\ ClaimInv

(* The lists are what they are owned as.                                   *)
LEMMA ListsOwned ==
  ASSUME NEW c, NEW d, Owned(c, d, head', free', next', slot')
  PROVE  Items' = c /\ Spare' = d
<1>1. /\ Path(c, head', next') /\ Path(d, free', next')
      /\ Len(c) <= MaxMsgs /\ Len(d) <= MaxMsgs
  <2>1. /\ Path(c, head', next') /\ Path(d, free', next')
        /\ Len(c) \in Nat /\ Len(d) \in Nat /\ Len(c) + Len(d) <= MaxMsgs
    BY OwnedBounds
  <2> QED
    BY <2>1, Constants
<1>2. next' \in [Slots -> Slots \cup {Null}]
  BY DEF Owned
<1>3. Walked(head', next') = c /\ Walked(free', next') = d
  BY <1>1, <1>2, WalkFollows
<1> QED
  BY <1>3, ListsWalked DEF Items, Spare

(* The first of them, and the numbers of both.                             *)
LEMMA Counts ==
  ASSUME SlotInv
  PROVE  /\ Items \in Seq(Slots) /\ Spare \in Seq(Slots)
         /\ entry \in Nat /\ Len(Spare) \in Nat /\ entry = Len(Items)
         /\ entry + Len(Spare) <= MaxMsgs
         /\ (\E t \in Threads : slot[t] # Null) => entry + Len(Spare) < MaxMsgs
         /\ Path(Items, head, next) /\ Path(Spare, free, next)
         /\ free = Null => Len(Spare) = 0
         /\ head = Null <=> entry = 0
<1>1. /\ Items \in Seq(Slots) /\ Spare \in Seq(Slots)
      /\ Len(Items) \in Nat /\ Len(Spare) \in Nat
      /\ Len(Items) + Len(Spare) <= MaxMsgs
      /\ (\E t \in Threads : slot[t] # Null) => Len(Items) + Len(Spare) < MaxMsgs
      /\ Path(Items, head, next) /\ Path(Spare, free, next) /\ entry = Len(Items)
  BY OwnedBounds DEF SlotInv
<1>2. /\ head = IF Items = <<>> THEN Null ELSE Items[1]
      /\ free = IF Spare = <<>> THEN Null ELSE Spare[1]
  BY <1>1 DEF Path
<1>3. free = Null => Len(Spare) = 0
  <2>1. Spare # <<>> => Spare[1] \in Slots
    BY <1>1
  <2> QED
    BY <1>1, <1>2, <2>1, Constants
<1>4. head = Null <=> entry = 0
  <2>1. Items # <<>> => Items[1] \in Slots
    BY <1>1
  <2> QED
    BY <1>1, <1>2, <2>1, Constants
<1> QED
  BY <1>1, <1>3, <1>4

(* Init: all slots are on the free list, the last first.                   *)
LEMMA InitHolds == Init => Inv
<1> SUFFICES ASSUME Init PROVE Inv
  OBVIOUS
<1> DEFINE d == [k \in 1..MaxMsgs |-> MaxMsgs + 1 - k]
<1>1. WaitInv(InCall)
  BY WaitInitKeeps DEF Init
<1>2. Path(<<>>, Null, next) /\ Queued(<<>>) = {} /\ Len(<<>>) = 0
  BY DEF Path, Queued, Unique
<1>3. \A k \in 1..MaxMsgs : d[k] = MaxMsgs + 1 - k /\ d[k] \in Slots
  BY Constants
<1>4. d \in Seq(Slots) /\ Len(d) = MaxMsgs
  <2>1. d \in [1..MaxMsgs -> Slots]
    BY <1>3
  <2> HIDE DEF d
  <2> QED
    BY <2>1, Constants, FunctionIsSeq
<1> HIDE DEF d
<1>5. next \in [Slots -> Slots \cup {Null}] /\ \A x \in Slots : next[x] = x - 1
  BY Constants DEF Init
<1>6. Path(d, free, next)
  <2>1. Unique(d)
    BY <1>3, <1>4, Constants DEF Unique
  <2>2. d # <<>> /\ free = d[1]
    BY <1>3, <1>4, Constants DEF Init
  <2>3. \A i \in 1..Len(d) : next[d[i]] = IF i = Len(d) THEN Null ELSE d[i + 1]
    <3> SUFFICES ASSUME NEW i \in 1..MaxMsgs
                 PROVE  next[d[i]] = IF i = MaxMsgs THEN Null ELSE d[i + 1]
      BY <1>4
    <3>1. MaxMsgs \in Nat /\ Null = 0
      BY Constants
    <3>2. d[i] = MaxMsgs + 1 - i /\ next[d[i]] = d[i] - 1
      BY <1>3, <1>5
    <3>3. i # MaxMsgs => d[i + 1] = MaxMsgs + 1 - (i + 1)
      BY <1>3, <3>1
    <3> QED
      BY <3>1, <3>2, <3>3
  <2> QED
    BY <1>4, <2>1, <2>2, <2>3 DEF Path
<1>7. /\ slot \in [Threads -> Slots \cup {Null}] /\ \A t \in Threads : slot[t] = Null
  BY DEF Init
<1>8. Flying(slot) = {} /\ Cardinality(Flying(slot)) = 0
  BY <1>7, FS_EmptySet DEF Flying
<1>9. Slots \subseteq Queued(d)
  <2> SUFFICES ASSUME NEW x \in Slots PROVE x \in Queued(d)
    OBVIOUS
  <2>1. MaxMsgs + 1 - x \in 1..MaxMsgs /\ MaxMsgs + 1 - (MaxMsgs + 1 - x) = x
    BY Constants
  <2>2. d[MaxMsgs + 1 - x] = x
    BY <1>3, <2>1
  <2> QED
    BY <1>4, <2>1, <2>2 DEF Queued
<1>10. Owned(<<>>, d, Null, free, next, slot)
  <2>1. Len(<<>>) + Len(d) + Cardinality(Flying(slot)) = MaxMsgs
    BY <1>2, <1>4, <1>8, Constants
  <2> QED
    BY <1>2, <1>5, <1>6, <1>7, <1>9, <2>1 DEF Owned
<1>11. Items = <<>> /\ Spare = d
  <2>1. Len(<<>>) <= MaxMsgs /\ Len(d) <= MaxMsgs /\ head = Null
    BY <1>2, <1>4, Constants DEF Init
  <2>2. Walked(head, next) = <<>> /\ Walked(free, next) = d
    BY <1>2, <1>5, <1>6, <2>1, WalkFollows
  <2> QED
    BY <2>2, ListsWalked DEF Items, Spare
<1>12. SlotInv
  BY <1>2, <1>10, <1>11 DEF SlotInv, Init
<1>13. CallInv
  <2>1. \A t \in Threads : pc[t] = "idle" /\ pc[t] \notin InCall
    BY DEF Init, WaitInit, InCall
  <2> QED
    BY <1>2, <1>7, <1>11, <2>1 DEF CallInv, Init
<1>14. ClaimInv
  <2>1. \A l \in Lists : susp[l] = <<>>
    BY DEF Init, WaitInit
  <2> QED
    BY <2>1 DEF ClaimInv, Claim
<1> QED
  BY <1>1, <1>12, <1>13, <1>14 DEF Inv

-------------------------------------------------------------------------------
(* What all steps have in common.                                          *)

(* A step that does not touch the slots.                                   *)
LEMMA SlotsUntouched ==
  ASSUME Inv, UNCHANGED <<listVars, prio, content, slot, received>>,
         msg' \in [Threads -> Messages \cup {NoMessage}],
         \A t \in Threads : /\ pc'[t] \in InCall <=> pc[t] \in InCall
                            /\ pc'[t] = "link" => pc[t] = "link" /\ msg'[t] = msg[t]
                            /\ pc'[t] = "front" => pc[t] = "front"
  PROVE  /\ SlotInv' /\ CallInv' /\ Items' = Items /\ Spare' = Spare
         /\ \A l \in Lists : Count(l)' = Count(l)
<1>1. /\ head' = head /\ free' = free /\ next' = next /\ slot' = slot /\ entry' = entry
      /\ tail' = tail /\ prio' = prio /\ content' = content /\ received' = received
  BY DEF listVars
<1>2. Items' = Items /\ Spare' = Spare
  BY <1>1, ListsWalked DEF Items, Spare
<1>3. SlotInv'
  <2>1. Owned(Items', Spare', head', free', next', slot')
    BY <1>1, <1>2 DEF Inv, SlotInv
  <2> QED
    BY <1>1, <1>2, <2>1 DEF Inv, SlotInv
<1>4. CallInv'
  BY <1>1, <1>2 DEF Inv, CallInv
<1> QED
  BY <1>1, <1>2, <1>3, <1>4 DEF Count

(* The counts are natural numbers, and no larger than what is counted of   *)
(* wasted wake-ups.                                                        *)
LEMMA CountRange ==
  ASSUME SlotInv
  PROVE  \A l \in Lists : /\ Count(l) \in Nat /\ Count(l) <= MaxWasted
                          /\ (\E t \in Threads : slot[t] # Null) => Count(l) < MaxWasted
<1>1. /\ entry \in Nat /\ Len(Spare) \in Nat /\ entry + Len(Spare) <= MaxMsgs
      /\ (\E t \in Threads : slot[t] # Null) => entry + Len(Spare) < MaxMsgs
  BY Counts
<1> QED
  BY <1>1, Constants DEF Count

(* Claims are kept by a step that adds nothing, and takes no wake-up from  *)
(* a thread but t, or takes one item from t; and where nothing is left.    *)
LEMMA ClaimsKept ==
  ASSUME Inv, WaitInv(InCall)', SlotInv', NEW t,
         \A l \in Lists : \/ Claim(l, Count(l))'
                          \/ Count(l)' = 0
                          \/ /\ GrowsBut(t, l) /\ Count(l)' <= Count(l)
                             /\ t \in Woken(l) => Count(l)' < Count(l)
  PROVE  ClaimInv'
<1> SUFFICES ASSUME NEW l \in Lists PROVE Claim(l, Count(l))'
  BY DEF ClaimInv
<1>1. /\ WaitTypeOK(InCall) /\ WaitTypeOK(InCall)' /\ Count(l) \in Int
      /\ Count(l)' \in Int /\ Claim(l, Count(l))
  <2>1. Count(l) \in Nat
    BY CountRange DEF Inv
  <2>2. Count(l)' \in Nat
    <3>1. Owned(Items', Spare', head', free', next', slot') /\ entry' = Len(Items')
      BY DEF SlotInv
    <3>2. Len(Items') \in Nat /\ Len(Spare') \in Nat
      BY <3>1, OwnedBounds
    <3> QED
      BY <3>1, <3>2 DEF Count
  <2> QED
    BY <2>1, <2>2 DEF Inv, WaitInv, ClaimInv
<1>2. CASE Count(l)' = 0
  <2>1. Woken(l)' \subseteq Threads
    BY DEF Woken
  <2>2. Cardinality(Woken(l)') \in Nat
    BY <2>1, ThreadsCounted
  <2>3. wasted'[l] \in Nat
    BY <1>1, Constants DEF WaitTypeOK
  <2> QED
    BY <1>2, <2>2, <2>3 DEF Claim
<1>3. CASE /\ GrowsBut(t, l) /\ Count(l)' <= Count(l)
           /\ t \in Woken(l) => Count(l)' < Count(l)
  <2>1. susp'[l] # <<>> => Count(l)' <= Cardinality(Woken(l)') + wasted'[l]
    <3> DEFINE n == Count(l)
               m == Count(l)'
    <3>1. n \in Int /\ m \in Int /\ m <= n /\ (t \in Woken(l) => m < n) /\ Claim(l, n)
      BY <1>1, <1>3
    <3> HIDE DEF n, m
    <3>2. susp'[l] # <<>> => m <= Cardinality(Woken(l)') + wasted'[l]
      BY <1>1, <1>3, <3>1, ClaimKept
    <3> QED
      BY <3>2 DEF m
  <2> QED
    BY <2>1 DEF Claim
<1> QED
  BY <1>2, <1>3

(* The end of a send or a receive: one item more for the sleepers of l,    *)
(* and a wake-up for one of them.                                          *)
LEMMA WakeKeeps ==
  ASSUME Inv, NEW t \in Threads, pc[t] \in {"link", "front", "return"}, lock = NoThread,
         NEW l \in Lists, LeaveAndWake(t, l), SlotInv', CallInv',
         Count(l)' = Count(l) + 1, \A k \in Lists : k # l => Count(k)' = Count(k)
  PROVE  Inv'
<1>1. WaitInv(InCall) /\ stat[t] = "READY" /\ SlotInv /\ slot[t] # Null
  BY DEF Inv, WaitInv, WaitTypeOK, ThreadTypeOK, SleepInv, CallInv, InCall
<1>2. WaitInv(InCall)'
  BY <1>1, LeaveAndWakeKeeps
<1>3. \A k \in Lists : t \notin Woken(k)
  BY DEF Woken
<1>4. /\ Dequeue(l, "EOK", 1) /\ 1 \in Nat
      /\ \A u \in Threads \ {t} : pc'[u] = pc[u] /\ on'[u] = on[u]
  BY <1>1 DEF LeaveAndWake, Return, Goto, WaitInv, WaitTypeOK
<1>5. \A k \in Lists : GrowsBut(t, k)
  BY <1>1, <1>4, DequeueGrows
<1>6. \A k \in Lists : Count(k) \in Nat /\ Count(k) < MaxWasted
  BY <1>1, CountRange
<1>7. Claim(l, Count(l))'
  <2> DEFINE n == Count(l)
  <2>1. n \in Nat /\ n < MaxWasted /\ Claim(l, n)
    BY <1>6 DEF Inv, ClaimInv
  <2> HIDE DEF n
  <2>2. susp'[l] # <<>> => n + 1 <= Cardinality(Woken(l)') + wasted'[l]
    BY <1>1, <1>2, <1>3, <2>1, ClaimWoken
  <2>3. Count(l)' = n + 1
    BY DEF n
  <2> QED
    BY <2>2, <2>3 DEF Claim
<1>8. \A k \in Lists : k # l => GrowsBut(t, k) /\ Count(k)' <= Count(k) /\ t \notin Woken(k)
  BY <1>3, <1>5, <1>6
<1>9. ClaimInv'
  BY <1>2, <1>7, <1>8, ClaimsKept
<1> QED
  BY <1>2, <1>9 DEF Inv

(* The start of a send or a receive takes an item, of which the caller was *)
(* told if it had to wait, and goes on with a slot in flight.              *)
LEMMA TakeKeeps ==
  ASSUME Inv, NEW t \in Threads, NEW l \in Lists, Enter(t) \/ Reenter(t, l),
         NEW where \in InCall, Goto(t, where), on' = [on EXCEPT ![t] = NoList],
         timed' = [timed EXCEPT ![t] = FALSE],
         UNCHANGED <<threadVars, susp, lock, alive, job, wasted>>,
         SlotInv', CallInv', Count(l)' = Count(l) - 1,
         \A k \in Lists : k # l => Count(k)' = Count(k)
  PROVE  Inv'
<1>1. /\ WaitInv(InCall) /\ WaitTypeOK(InCall) /\ HolderInv /\ stat[t] = "READY"
      /\ lock = NoThread
  BY CallerRuns DEF Inv, WaitInv
<1>2. /\ where \notin Lists /\ where # "arm" /\ where # "waiting"
  BY Constants DEF InCall
<1>3. /\ pc' = [pc EXCEPT ![t] = where]
      /\ UNCHANGED <<stat, ttmr, tmr, error, isr, halted, susp, lock, alive, job, wasted>>
  BY DEF Goto, threadVars
<1>4. WaitTypeOK(InCall)'
  <2>1. pc' \in [Threads -> {"idle", "arm", "waiting"} \cup Lists \cup InCall]
    BY <1>1, <1>3 DEF WaitTypeOK
  <2>2. /\ on' \in [Threads -> Lists \cup {NoList}] /\ timed' \in [Threads -> BOOLEAN]
    BY <1>1 DEF WaitTypeOK
  <2>3. ThreadTypeOK'
    BY <1>1, <1>3 DEF WaitTypeOK, ThreadTypeOK
  <2> QED
    BY <1>1, <1>3, <2>1, <2>2, <2>3 DEF WaitTypeOK
<1>5. \A u \in Threads \ {t} : on'[u] = on[u] /\ pc'[u] = pc[u]
  BY <1>1, <1>3 DEF WaitTypeOK
<1>6. HolderInv'
  BY <1>1, <1>2, <1>3 DEF WaitTypeOK, HolderInv
<1>7. WaitInv(InCall)'
  BY <1>1, <1>3, <1>4, <1>5, <1>6, QuietKeeps
<1>8. \A k \in Lists : GrowsBut(t, k) /\ (k # l => t \notin Woken(k))
  <2>1. \A k \in Lists : wasted[k] <= wasted[k]
    BY <1>1, Constants DEF WaitTypeOK
  <2> QED
    BY <1>3, <1>5, <2>1 DEF GrowsBut, Woken, Enter, Reenter
<1>9. ClaimInv'
  <2>1. \A k \in Lists : Count(k) \in Nat
    BY CountRange DEF Inv
  <2>2. ASSUME NEW k \in Lists
        PROVE  /\ GrowsBut(t, k) /\ Count(k)' <= Count(k)
               /\ t \in Woken(k) => Count(k)' < Count(k)
    BY <1>8, <2>1
  <2> QED
    BY <1>7, <2>2, ClaimsKept
<1> QED
  BY <1>7, <1>9 DEF Inv

-------------------------------------------------------------------------------
(* Send and receive.                                                       *)

(* The other threads keep what they have in flight.                        *)
LEMMA CallKept ==
  ASSUME Inv, NEW t \in Threads,
         \A u \in Threads \ {t} :
           /\ slot'[u] = slot[u] /\ pc'[u] = pc[u] /\ msg'[u] = msg[u]
           /\ slot[u] # Null => /\ content'[slot[u]] = content[slot[u]]
                                /\ next'[slot[u]] = next[slot[u]],
         prio' \in [Slots -> Prios], content' \in [Slots -> Messages \cup {NoMessage}],
         msg' \in [Threads -> Messages \cup {NoMessage}],
         received' \in [body : Messages, prio : Prios] \cup {NoMessage},
         \A x \in Queued(Items)' : content'[x] \in Messages,
         slot'[t] # Null <=> pc'[t] \in InCall,
         pc'[t] = "link" => /\ msg'[t] \in Messages /\ content'[slot'[t]] = msg'[t]
                            /\ next'[slot'[t]] = Null,
         pc'[t] = "front" => content'[slot'[t]] \in Messages
  PROVE  CallInv'
<1> SUFFICES ASSUME NEW u \in Threads
             PROVE  /\ slot'[u] # Null <=> pc'[u] \in InCall
                    /\ pc'[u] = "link" => /\ msg'[u] \in Messages
                                          /\ content'[slot'[u]] = msg'[u]
                                          /\ next'[slot'[u]] = Null
                    /\ pc'[u] = "front" => content'[slot'[u]] \in Messages
  BY DEF CallInv
<1>1. CASE u = t
  BY <1>1
<1>2. CASE u # t
  BY <1>2 DEF Inv, CallInv, InCall
<1> QED
  BY <1>1, <1>2

(* What is known of the slots of others.                                   *)
LEMMA Apart ==
  ASSUME SlotInv, NEW t \in Threads, slot[t] # Null
  PROVE  /\ slot[t] \in Slots /\ slot[t] \notin Queued(Items) /\ slot[t] \notin Queued(Spare)
         /\ \A u \in Threads : slot[u] = slot[t] => u = t
BY DEF SlotInv, Owned

(* _rt_mq_send_wait and rt_mq_urgent take a free slot.                     *)
LEMMA TakeSlotKeeps ==
  ASSUME Inv, NEW t \in Threads, NEW m \in Messages, Enter(t) \/ Reenter(t, "send"),
         NEW where \in {"link", "front"}, TakeSlot(t, m, where),
         next' \in [Slots -> Slots \cup {Null}],
         where = "link" => next'[free] = Null,
         \A x \in Slots : x # free => next'[x] = next[x]
  PROVE  /\ Inv' /\ Items' = Items /\ UNCHANGED <<prio, received>>
         /\ \A x \in Queued(Items) : content'[x] = content[x]
<1>1. /\ Inv /\ SlotInv /\ CallInv /\ slot[t] = Null /\ WaitTypeOK(InCall)
      /\ Owned(Items, Spare, head, free, next, slot)
  BY DEF Inv, CallInv, SlotInv, WaitInv, Enter, Reenter, Woken, InCall
<1>2. /\ free # Null /\ free' = next[free] /\ slot' = [slot EXCEPT ![t] = free]
      /\ content' = [content EXCEPT ![free] = m]
      /\ msg' = [msg EXCEPT ![t] = IF where = "link" THEN m ELSE NoMessage]
      /\ Goto(t, where) /\ on' = [on EXCEPT ![t] = NoList]
      /\ timed' = [timed EXCEPT ![t] = FALSE]
      /\ UNCHANGED <<threadVars, susp, lock, alive, job, wasted>>
      /\ head' = head /\ tail' = tail /\ entry' = entry /\ prio' = prio /\ received' = received
  BY DEF TakeSlot
<1>3. /\ Path(Spare, free, next) /\ Items \in Seq(Slots) /\ Len(Spare) \in Nat
      /\ entry = Len(Items)
  BY <1>1, Counts
<1>4. free \in Slots /\ free \in Queued(Spare)
  BY <1>2, <1>3, PathTail
<1>5. /\ Owned(Items, Tail(Spare), head', free', next', slot') /\ Len(Tail(Spare)) = Len(Spare) - 1
  <2>1. /\ Owned(Items, Tail(Spare), head, next[free], next', [slot EXCEPT ![t] = free])
        /\ Len(Tail(Spare)) = Len(Spare) - 1
    <3>1. free # Null
      BY <1>2
    <3> QED
      BY <1>1, <3>1, OwnedTake
  <2> QED
    BY <1>2, <2>1
<1>6. Items' = Items /\ Spare' = Tail(Spare)
  BY <1>5, ListsOwned
<1>7. SlotInv'
  BY <1>1, <1>2, <1>5, <1>6 DEF SlotInv
<1>8. free \notin Queued(Items) /\ \A u \in Threads : slot[u] # free
  BY <1>1, <1>2, <1>4 DEF Owned
<1>9. /\ \A x \in Slots : x # free => content'[x] = content[x]
      /\ content'[free] = m /\ content' \in [Slots -> Messages \cup {NoMessage}]
  BY <1>1, <1>2, <1>4 DEF CallInv
<1>10. /\ Queued(Items) \subseteq Slots /\ \A x \in Queued(Items) : content'[x] = content[x]
  <2>1. Queued(Items) \subseteq Slots
    BY <1>3 DEF Queued
  <2> QED
    BY <2>1, <1>8, <1>9
<1>11. CallInv'
  <2>1. /\ slot'[t] = free /\ pc'[t] = where /\ where \in InCall
        /\ where = "link" => msg'[t] = m
        /\ \A u \in Threads \ {t} : slot'[u] = slot[u] /\ pc'[u] = pc[u] /\ msg'[u] = msg[u]
    BY <1>1, <1>2 DEF Owned, CallInv, WaitTypeOK, Goto, InCall
  <2>2. \A u \in Threads \ {t} : slot[u] # Null => slot[u] \in Slots /\ slot[u] # free
    BY <1>1, <1>8 DEF Owned
  <2>3. \A x \in Queued(Items)' : content'[x] \in Messages
    BY <1>1, <1>6, <1>10 DEF CallInv
  <2>4. msg' \in [Threads -> Messages \cup {NoMessage}]
    BY <1>1, <1>2 DEF CallInv
  <2> QED
    BY <1>1, <1>2, <1>9, <2>1, <2>2, <2>3, <2>4, CallKept DEF CallInv
<1>12. /\ Count("send")' = Count("send") - 1
       /\ \A k \in Lists : k # "send" => Count(k)' = Count(k)
  BY <1>2, <1>5, <1>6, Constants DEF Count
<1>13. Inv'
  <2>1. where \in InCall
    BY DEF InCall
  <2> QED
    BY <1>2, <1>7, <1>11, <1>12, <2>1, Constants, TakeKeeps
<1> QED
  BY <1>2, <1>6, <1>10, <1>13

(* _rt_mq_recv takes the first slot of the queue.                          *)
LEMMA RecvKeeps ==
  ASSUME Inv, NEW t \in Threads, Recv(t)
  PROVE  /\ Inv' /\ Items # <<>> /\ head = Items[1] /\ Items' = Tail(Items)
         /\ received' = [body |-> content[head], prio |-> prio[head]]
         /\ UNCHANGED <<prio, content>>
<1>1. /\ Inv /\ SlotInv /\ CallInv /\ slot[t] = Null /\ WaitTypeOK(InCall)
      /\ Owned(Items, Spare, head, free, next, slot) /\ entry = Len(Items)
      /\ Enter(t) \/ Reenter(t, "recv")
      /\ tail = IF Items = <<>> THEN Null ELSE Items[Len(Items)]
  BY DEF Inv, CallInv, SlotInv, WaitInv, Recv, Receiving, Enter, Reenter, Woken, InCall
<1>2. /\ entry # 0 /\ head' = next[head] /\ tail' = IF tail = head THEN Null ELSE tail
      /\ entry' = entry - 1 /\ slot' = [slot EXCEPT ![t] = head]
      /\ received' = [body |-> content[head], prio |-> prio[head]]
      /\ Goto(t, "return") /\ on' = [on EXCEPT ![t] = NoList]
      /\ timed' = [timed EXCEPT ![t] = FALSE]
      /\ UNCHANGED <<threadVars, susp, lock, alive, job, wasted>>
      /\ next' = next /\ free' = free /\ prio' = prio /\ content' = content /\ msg' = msg
  BY DEF Recv
<1>3. /\ Path(Items, head, next) /\ Items \in Seq(Slots) /\ Len(Spare) \in Nat /\ head # Null
      /\ Unique(Items)
  BY <1>1, <1>2, Counts DEF Path
<1>4. /\ Items # <<>> /\ head = Items[1] /\ head \in Slots /\ head \in Queued(Items)
      /\ Queued(Tail(Items)) = Queued(Items) \ {head}
      /\ Len(Tail(Items)) = Len(Items) - 1 /\ Len(Items) \in Nat /\ Len(Items) > 0
  BY <1>3, PathTail
<1>5. Owned(Tail(Items), Spare, head', free', next', slot')
  <2>1. Owned(Spare, Items, free, head, next, slot)
    BY <1>1, OwnedSwap
  <2>2. next \in [Slots -> Slots \cup {Null}]
    BY <1>1 DEF Owned
  <2>3. Owned(Spare, Tail(Items), free, next[head], next, [slot EXCEPT ![t] = head])
    BY <1>1, <1>3, <2>1, <2>2, OwnedTake
  <2> QED
    BY <1>2, <2>3, OwnedSwap
<1>6. Items' = Tail(Items) /\ Spare' = Spare
  BY <1>5, ListsOwned
<1>7. tail' = IF Items' = <<>> THEN Null ELSE Items'[Len(Items')]
  <2>1. tail = Items[Len(Items)]
    BY <1>1, <1>4
  <2>2. 1 \in 1..Len(Items) /\ Len(Items) \in 1..Len(Items)
    BY <1>4
  <2>3. tail = head <=> Len(Items) = 1
    BY <1>3, <1>4, <2>1, <2>2 DEF Unique
  <2>4. CASE Len(Items) = 1
    <3>1. Items' = <<>>
      BY <1>3, <1>4, <1>6, <2>4
    <3> QED
      BY <1>2, <2>3, <2>4, <3>1
  <2>5. CASE Len(Items) # 1
    <3>1. Len(Items') = Len(Items) - 1 /\ Len(Items') > 0
      BY <1>4, <1>6, <2>5
    <3>2. Items'[Len(Items')] = Items[Len(Items)]
      BY <1>3, <1>4, <1>6, <3>1
    <3>3. Items' # <<>>
      BY <3>1
    <3> QED
      BY <1>2, <2>1, <2>3, <2>5, <3>2, <3>3
  <2> QED
    BY <2>4, <2>5
<1>8. SlotInv'
  BY <1>1, <1>2, <1>4, <1>5, <1>6, <1>7 DEF SlotInv
<1>9. content[head] \in Messages /\ prio[head] \in Prios
  BY <1>1, <1>4 DEF CallInv
<1>10. CallInv'
  <2>1. /\ slot'[t] = head /\ pc'[t] = "return" /\ "return" \in InCall
        /\ \A u \in Threads \ {t} : slot'[u] = slot[u] /\ pc'[u] = pc[u] /\ msg'[u] = msg[u]
    BY <1>1, <1>2 DEF Owned, CallInv, WaitTypeOK, Goto, InCall
  <2>2. \A x \in Queued(Items)' : content'[x] \in Messages
    BY <1>1, <1>2, <1>4, <1>6 DEF CallInv
  <2>3. received' \in [body : Messages, prio : Prios] \cup {NoMessage}
    BY <1>2, <1>9
  <2> QED
    BY <1>1, <1>2, <1>3, <2>1, <2>2, <2>3, CallKept DEF CallInv
<1>11. /\ Count("recv")' = Count("recv") - 1
       /\ \A k \in Lists : k # "recv" => Count(k)' = Count(k)
  BY <1>2, <1>6, Constants DEF Count
<1>12. Inv'
  <2>1. "return" \in InCall
    BY DEF InCall
  <2> QED
    BY <1>1, <1>2, <1>8, <1>10, <1>11, <2>1, Constants, TakeKeeps
<1> QED
  BY <1>2, <1>4, <1>6, <1>12

(* The end of a send puts the message before the n-th, or behind all.      *)
LEMMA PutKeeps ==
  ASSUME Inv, NEW t \in Threads, pc[t] \in {"link", "front"}, lock = NoThread,
         NEW n, Relinked(Items, n, slot[t], next, next'),
         head' = IF n = 1 THEN slot[t] ELSE head,
         tail' = IF n = Len(Items) + 1 THEN slot[t] ELSE tail,
         entry' = entry + 1, slot' = [slot EXCEPT ![t] = Null],
         msg' \in [Threads -> Messages \cup {NoMessage}],
         \A u \in Threads \ {t} : msg'[u] = msg[u],
         prio' \in [Slots -> Prios], received' = NoMessage,
         free' = free, content' = content, LeaveAndWake(t, "recv")
  PROVE  Inv' /\ Items' = Inserted(Items, n, slot[t])
<1> DEFINE x == slot[t]
<1>1. /\ SlotInv /\ CallInv /\ x # Null /\ WaitTypeOK(InCall)
      /\ Owned(Items, Spare, head, free, next, slot) /\ entry = Len(Items)
      /\ tail = (IF Items = <<>> THEN Null ELSE Items[Len(Items)])
      /\ content[x] \in Messages
  BY DEF Inv, CallInv, SlotInv, WaitInv, InCall
<1>0. /\ n \in 1..(Len(Items) + 1)
      /\ \A y \in Slots : y # x /\ (n > 1 => y # Items[n - 1]) => next'[y] = next[y]
  BY DEF Relinked
<1>2. /\ Items \in Seq(Slots) /\ Len(Items) \in Nat /\ Queued(Items) \subseteq Slots
      /\ x \in Slots /\ x \notin Queued(Items) /\ x \notin Queued(Spare)
      /\ \A u \in Threads : slot[u] = x => u = t
  BY <1>1, Counts, Apart DEF Queued
<1>3. Owned(Inserted(Items, n, x), Spare, head', free', next', slot')
  <2>1. x = slot[t] /\ head' = IF n = 1 THEN x ELSE head
    OBVIOUS
  <2> HIDE DEF x
  <2> QED
    BY <1>1, <2>1, OwnedPut
<1>4. Items' = Inserted(Items, n, x) /\ Spare' = Spare
  BY <1>3, ListsOwned
<1>5. /\ \A i \in 1..(Len(Items) + 1) :
           Items'[i] = IF i < n THEN Items[i] ELSE IF i = n THEN x ELSE Items[i - 1]
      /\ Queued(Items') = Queued(Items) \cup {x} /\ Len(Items') = Len(Items) + 1
  <2> DEFINE r == Inserted(Items, n, x)
  <2>1. /\ \A i \in 1..(Len(Items) + 1) :
             r[i] = IF i < n THEN Items[i] ELSE IF i = n THEN x ELSE Items[i - 1]
        /\ Queued(r) = Queued(Items) \cup {x} /\ Len(r) = Len(Items) + 1
    <3> HIDE DEF x
    <3> QED
      BY <1>0, <1>2, InsertedProperties
  <2> HIDE DEF r
  <2>2. Items' = r
    BY <1>4 DEF r
  <2> QED
    BY <2>1, <2>2
<1>6. SlotInv'
  <2>1. tail' = IF Items' = <<>> THEN Null ELSE Items'[Len(Items')]
    <3>1. Items' # <<>> /\ Len(Items) + 1 \in 1..(Len(Items) + 1)
      BY <1>2, <1>5
    <3>2. CASE n = Len(Items) + 1
      BY <1>2, <1>5, <3>1, <3>2
    <3>3. CASE n # Len(Items) + 1
      <4>1. Items # <<>> /\ ~(Len(Items) + 1 < n) /\ (Len(Items) + 1) - 1 = Len(Items)
        BY <1>0, <1>2, <3>3
      <4>2. Items'[Len(Items) + 1] = Items[Len(Items)]
        BY <1>5, <3>1, <3>3, <4>1
      <4> QED
        BY <1>1, <1>5, <3>1, <3>3, <4>1, <4>2
    <3> QED
      BY <3>2, <3>3
  <2>2. entry' = Len(Items')
    BY <1>1, <1>5
  <2> QED
    BY <1>3, <1>4, <2>1, <2>2 DEF SlotInv
<1>7. CallInv'
  <2>1. /\ slot'[t] = Null /\ pc'[t] = "idle" /\ "idle" \notin InCall
        /\ \A u \in Threads \ {t} : slot'[u] = slot[u] /\ pc'[u] = pc[u]
    BY <1>1 DEF Owned, WaitTypeOK, LeaveAndWake, Return, Goto, InCall
  <2>2. \A u \in Threads \ {t} : slot[u] # Null => next'[slot[u]] = next[slot[u]]
    <3> SUFFICES ASSUME NEW u \in Threads \ {t}, slot[u] # Null
                 PROVE  next'[slot[u]] = next[slot[u]]
      OBVIOUS
    <3>1. slot[u] \in Slots /\ slot[u] \notin Queued(Items) /\ slot[u] # x
      BY <1>1, <1>2, Apart
    <3>2. n > 1 => Items[n - 1] \in Queued(Items)
      <4>1. n > 1 => n - 1 \in 1..Len(Items)
        BY <1>0, <1>2
      <4> QED
        BY <4>1 DEF Queued
    <3> QED
      BY <1>0, <3>1, <3>2
  <2>3. \A y \in Queued(Items)' : content'[y] \in Messages
    BY <1>1, <1>5 DEF CallInv
  <2>4. /\ pc'[t] # "link" /\ pc'[t] # "front" /\ (slot'[t] # Null <=> pc'[t] \in InCall)
        /\ content' \in [Slots -> Messages \cup {NoMessage}]
        /\ received' \in [body : Messages, prio : Prios] \cup {NoMessage}
    BY <1>1, <2>1 DEF CallInv
  <2> QED
    BY <2>1, <2>2, <2>3, <2>4, CallKept
<1>8. /\ Count("recv")' = Count("recv") + 1
      /\ \A k \in Lists : k # "recv" => Count(k)' = Count(k)
  BY <1>4, Constants DEF Count
<1>9. Inv'
  BY <1>6, <1>7, <1>8, Constants, WakeKeeps
<1> QED
  BY <1>4, <1>9

(* Where rt_mq_send puts a message: behind those of its priority.          *)
Place(items, p) == LET low == Lower(items, p)
                   IN  IF low = {} THEN Len(items) + 1
                       ELSE CHOOSE k \in low : \A j \in low : k <= j

LEMMA PlaceProperties ==
  ASSUME NEW items \in Seq(Slots), NEW p
  PROVE  /\ Place(items, p) \in 1..(Len(items) + 1)
         /\ Lower(items, p) = {} <=> Place(items, p) = Len(items) + 1
<1> DEFINE low == Lower(items, p)
<1>1. low \subseteq 1..Len(items) /\ Len(items) \in Nat
  BY DEF Lower
<1> HIDE DEF low
<1>2. CASE low = {}
  BY <1>1, <1>2 DEF Place, low
<1>3. CASE low # {}
  <2>1. \E k \in low : \A j \in low : k <= j
    <3>1. low \subseteq Nat
      BY <1>1
    <3> QED
      BY <1>3, <3>1, LeastNat
  <2> DEFINE k == CHOOSE i \in low : \A j \in low : i <= j
  <2>2. k \in low
    BY <2>1
  <2> HIDE DEF k
  <2>3. k \in 1..(Len(items) + 1) /\ k # Len(items) + 1
    BY <1>1, <2>2
  <2> QED
    BY <1>3, <2>3 DEF Place, k, low
<1> QED
  BY <1>2, <1>3

(* The end of rt_mq_send.                                                  *)
LEMMA LinkKeeps ==
  ASSUME Inv, NEW t \in Threads, Link(t)
  PROVE  /\ Inv' /\ Items' = Inserted(Items, Place(Items, SentPrio(t)), slot[t])
         /\ slot[t] \in Slots /\ slot[t] \notin Queued(Items) /\ content[slot[t]] \in Messages
         /\ SentPrio(t) \in Prios /\ prio' = [prio EXCEPT ![slot[t]] = SentPrio(t)]
         /\ content' = content /\ received' = NoMessage
<1> DEFINE x == slot[t]
           p == SentPrio(t)
           low == Lower(Items, p)
           n == Place(Items, p)
<1>1. /\ SlotInv /\ CallInv /\ x # Null /\ msg[t] \in Messages /\ content[x] \in Messages
      /\ next[x] = Null /\ pc[t] = "link" /\ lock = NoThread
      /\ next \in [Slots -> Slots \cup {Null}] /\ slot \in [Threads -> Slots \cup {Null}]
  BY DEF Inv, CallInv, SlotInv, Owned, InCall, Link, Relock
<1>2. p \in Prios
  BY <1>1 DEF SentPrio, Prios
<1>3. /\ Items \in Seq(Slots) /\ Len(Items) \in Nat /\ \A i \in 1..Len(Items) : Items[i] \in Slots
      /\ x \in Slots /\ x \notin Queued(Items)
  BY <1>1, Counts, Apart
<1>4. n \in 1..(Len(Items) + 1) /\ (low = {} <=> n = Len(Items) + 1)
  BY <1>3, PlaceProperties
<1>5. /\ prio' = [prio EXCEPT ![x] = p]
      /\ head' = IF n = 1 THEN x ELSE head
      /\ tail' = IF low = {} THEN x ELSE tail
      /\ next' = [i \in Slots |-> IF i = x /\ low # {} THEN Items[n]
                                  ELSE IF n > 1 /\ i = Items[n - 1] THEN x ELSE next[i]]
      /\ entry' = entry + 1 /\ slot' = [slot EXCEPT ![t] = Null]
      /\ msg' = [msg EXCEPT ![t] = NoMessage] /\ received' = NoMessage
      /\ LeaveAndWake(t, "recv") /\ free' = free /\ content' = content
  BY DEF Link, Items, Place
<1> HIDE DEF p, low, n
<1>6. n > 1 => n - 1 \in 1..Len(Items) /\ Items[n - 1] # x
  <2>1. n > 1 => n - 1 \in 1..Len(Items)
    BY <1>3, <1>4
  <2> QED
    BY <1>3, <2>1 DEF Queued
<1>7. low # {} => n \in 1..Len(Items)
  BY <1>3, <1>4
<1>8. next' \in [Slots -> Slots \cup {Null}]
  BY <1>1, <1>3, <1>5, <1>7
<1>9. /\ next'[x] = IF n = Len(Items) + 1 THEN Null ELSE Items[n]
      /\ n > 1 => next'[Items[n - 1]] = x
      /\ \A y \in Slots : y # x /\ (n > 1 => y # Items[n - 1]) => next'[y] = next[y]
  BY <1>1, <1>3, <1>4, <1>5, <1>6
<1>10. /\ tail' = IF n = Len(Items) + 1 THEN x ELSE tail
       /\ msg' \in [Threads -> Messages \cup {NoMessage}]
       /\ \A u \in Threads \ {t} : msg'[u] = msg[u]
       /\ prio' \in [Slots -> Prios]
  BY <1>1, <1>2, <1>3, <1>4, <1>5 DEF CallInv
<1>11. Inv' /\ Items' = Inserted(Items, n, x)
  <2>1. Relinked(Items, n, slot[t], next, next')
    BY <1>4, <1>8, <1>9 DEF Relinked
  <2>2. head' = IF n = 1 THEN slot[t] ELSE head
    BY <1>5
  <2> QED
    BY <1>1, <1>5, <1>10, <2>1, <2>2, PutKeeps
<1> QED
  BY <1>1, <1>2, <1>3, <1>5, <1>11 DEF n, p

(* The end of rt_mq_urgent.                                                *)
LEMMA LinkFrontKeeps ==
  ASSUME Inv, NEW t \in Threads, LinkFront(t)
  PROVE  /\ Inv' /\ Items' = Inserted(Items, 1, slot[t])
         /\ slot[t] \in Slots /\ slot[t] \notin Queued(Items) /\ content[slot[t]] \in Messages
         /\ prio' = prio /\ content' = content /\ received' = NoMessage
<1> DEFINE x == slot[t]
<1>1. /\ SlotInv /\ CallInv /\ x # Null /\ content[x] \in Messages
      /\ pc[t] = "front" /\ lock = NoThread
      /\ next \in [Slots -> Slots \cup {Null}]
      /\ tail = IF Items = <<>> THEN Null ELSE Items[Len(Items)]
  BY DEF Inv, CallInv, SlotInv, Owned, InCall, LinkFront, Relock
<1>2. /\ Items \in Seq(Slots) /\ Len(Items) \in Nat /\ \A i \in 1..Len(Items) : Items[i] \in Slots
      /\ Path(Items, head, next) /\ x \in Slots /\ x \notin Queued(Items)
  BY <1>1, Counts, Apart
<1>3. /\ next' = [next EXCEPT ![x] = head] /\ head' = x
      /\ tail' = IF tail = Null THEN x ELSE tail
      /\ entry' = entry + 1 /\ slot' = [slot EXCEPT ![t] = Null]
      /\ received' = NoMessage /\ LeaveAndWake(t, "recv")
      /\ free' = free /\ prio' = prio /\ content' = content /\ msg' = msg
  BY DEF LinkFront
<1>4. head = IF Items = <<>> THEN Null ELSE Items[1]
  BY <1>2 DEF Path
<1>5. 1 \in 1..(Len(Items) + 1) /\ (Items = <<>> <=> 1 = Len(Items) + 1)
  BY <1>2
<1>6. /\ next' \in [Slots -> Slots \cup {Null}]
      /\ next'[x] = IF 1 = Len(Items) + 1 THEN Null ELSE Items[1]
      /\ \A y \in Slots : y # x => next'[y] = next[y]
  <2>1. Items # <<>> => Items[1] \in Slots
    BY <1>2
  <2> QED
    BY <1>1, <1>2, <1>3, <1>4, <1>5, <2>1
<1>7. tail' = IF 1 = Len(Items) + 1 THEN x ELSE tail
  <2>1. Items # <<>> => Len(Items) \in 1..Len(Items)
    BY <1>2
  <2>2. tail = Null <=> Items = <<>>
    BY <1>1, <1>2, <2>1, Constants
  <2> QED
    BY <1>3, <1>5, <2>2
<1>8. msg' \in [Threads -> Messages \cup {NoMessage}] /\ prio' \in [Slots -> Prios]
  BY <1>1, <1>3 DEF CallInv
<1>9. Inv' /\ Items' = Inserted(Items, 1, x)
  <2> DEFINE n == 1
  <2>1. /\ Relinked(Items, n, slot[t], next, next')
        /\ head' = IF n = 1 THEN slot[t] ELSE head
        /\ tail' = IF n = Len(Items) + 1 THEN slot[t] ELSE tail
    BY <1>3, <1>5, <1>6, <1>7 DEF Relinked
  <2>2. \A u \in Threads \ {t} : msg'[u] = msg[u]
    BY <1>3
  <2> HIDE DEF n
  <2>3. Inv' /\ Items' = Inserted(Items, n, slot[t])
    BY <1>1, <1>3, <1>8, <2>1, <2>2, PutKeeps
  <2> QED
    BY <2>3 DEF n
<1> QED
  BY <1>1, <1>2, <1>3, <1>9

(* The end of a receive puts the slot on the free list.                    *)
LEMMA PutBackKeeps ==
  ASSUME Inv, NEW t \in Threads, PutBack(t)
  PROVE  /\ Inv' /\ Items' = Items /\ prio' = prio /\ received' = NoMessage
         /\ \A y \in Queued(Items) : content'[y] = content[y]
<1> DEFINE x == slot[t]
<1>1. /\ SlotInv /\ CallInv /\ x # Null /\ WaitTypeOK(InCall)
      /\ Owned(Items, Spare, head, free, next, slot) /\ entry = Len(Items)
      /\ pc[t] = "return" /\ lock = NoThread
  BY DEF Inv, CallInv, SlotInv, WaitInv, InCall, PutBack, Relock
<1>2. /\ Items \in Seq(Slots) /\ Spare \in Seq(Slots) /\ Len(Spare) \in Nat
      /\ \A i \in 1..Len(Spare) : Spare[i] \in Slots
      /\ Path(Spare, free, next) /\ x \in Slots /\ x \notin Queued(Items)
      /\ \A u \in Threads : slot[u] = x => u = t
  BY <1>1, Counts, Apart
<1>3. /\ next' = [next EXCEPT ![x] = free] /\ free' = x
      /\ content' = [content EXCEPT ![x] = NoMessage]
      /\ received' = NoMessage /\ slot' = [slot EXCEPT ![t] = Null]
      /\ LeaveAndWake(t, "send") /\ head' = head /\ tail' = tail /\ entry' = entry
      /\ prio' = prio /\ msg' = msg
  BY DEF PutBack
<1>4. free = IF Spare = <<>> THEN Null ELSE Spare[1]
  BY <1>2 DEF Path
<1>5. 1 \in 1..(Len(Spare) + 1) /\ (Spare = <<>> <=> 1 = Len(Spare) + 1)
  BY <1>2
<1>6. Relinked(Spare, 1, x, next, next')
  <2>1. next \in [Slots -> Slots \cup {Null}]
    BY <1>1 DEF Owned
  <2>2. free \in Slots \cup {Null}
    BY <1>2, <1>4, <1>5
  <2> QED
    BY <1>2, <1>3, <1>4, <1>5, <2>1, <2>2 DEF Relinked
<1>7. Owned(Items, Inserted(Spare, 1, x), head', free', next', slot')
  <2>1. Owned(Spare, Items, free, head, next, slot)
    BY <1>1, OwnedSwap
  <2> DEFINE n == 1
  <2>2. Relinked(Spare, n, x, next, next') /\ free' = IF n = 1 THEN x ELSE free
    BY <1>3, <1>6
  <2>3. x = slot[t]
    OBVIOUS
  <2> HIDE DEF x, n
  <2>4. Owned(Inserted(Spare, n, x), Items, free', head, next', slot')
    BY <1>1, <1>3, <2>1, <2>2, <2>3, OwnedPut
  <2>5. Owned(Items, Inserted(Spare, n, x), head, free', next', slot')
    BY <2>4, OwnedSwap
  <2> QED
    BY <1>3, <2>5 DEF n
<1>8. Items' = Items /\ Spare' = Inserted(Spare, 1, x)
  BY <1>7, ListsOwned
<1>9. Len(Spare') = Len(Spare) + 1
  <2> DEFINE n == 1
  <2>1. n \in 1..(Len(Spare) + 1) /\ Spare' = Inserted(Spare, n, x)
    BY <1>5, <1>8
  <2> HIDE DEF n, x
  <2> QED
    BY <1>2, <2>1, InsertedProperties
<1>10. SlotInv'
  BY <1>1, <1>3, <1>7, <1>8 DEF SlotInv
<1>11. \A y \in Slots : y # x => content'[y] = content[y] /\ next'[y] = next[y]
  BY <1>1, <1>3 DEF CallInv, Owned
<1>12. \A y \in Queued(Items) : y \in Slots /\ y # x /\ content'[y] = content[y]
  <2>1. Queued(Items) \subseteq Slots
    BY <1>2 DEF Queued
  <2> QED
    BY <1>2, <1>11, <2>1
<1>13. CallInv'
  <2>1. /\ slot'[t] = Null /\ pc'[t] = "idle" /\ "idle" \notin InCall
        /\ \A u \in Threads \ {t} : slot'[u] = slot[u] /\ pc'[u] = pc[u] /\ msg'[u] = msg[u]
    BY <1>1, <1>3 DEF Owned, WaitTypeOK, LeaveAndWake, Return, Goto, InCall
  <2>2. \A u \in Threads \ {t} :
          slot[u] # Null => /\ content'[slot[u]] = content[slot[u]]
                            /\ next'[slot[u]] = next[slot[u]]
    <3>1. \A u \in Threads \ {t} : slot[u] # Null => slot[u] \in Slots /\ slot[u] # x
      BY <1>1, <1>2 DEF Owned
    <3> QED
      BY <1>11, <3>1
  <2>3. \A y \in Queued(Items)' : content'[y] \in Messages
    BY <1>1, <1>8, <1>12 DEF CallInv
  <2>4. /\ pc'[t] # "link" /\ pc'[t] # "front" /\ (slot'[t] # Null <=> pc'[t] \in InCall)
        /\ content' \in [Slots -> Messages \cup {NoMessage}]
        /\ received' \in [body : Messages, prio : Prios] \cup {NoMessage}
        /\ prio' \in [Slots -> Prios] /\ msg' \in [Threads -> Messages \cup {NoMessage}]
    BY <1>1, <1>3, <2>1 DEF CallInv
  <2> QED
    BY <2>1, <2>2, <2>3, <2>4, CallKept
<1>14. /\ Count("send")' = Count("send") + 1
       /\ \A k \in Lists : k # "send" => Count(k)' = Count(k)
  BY <1>3, <1>9, Constants DEF Count
<1>15. Inv'
  BY <1>1, <1>3, <1>10, <1>13, <1>14, Constants, WakeKeeps
<1> QED
  BY <1>3, <1>8, <1>12, <1>15

-------------------------------------------------------------------------------
(* Sleeping, and giving up.                                                *)

(* There is nothing for the sleepers of l.                                 *)
Nothing(l) == IF l = "recv" THEN entry = 0 ELSE free = Null

LEMMA NothingCounts ==
  ASSUME SlotInv, NEW l \in Lists, Nothing(l)
  PROVE  Count(l) = 0
BY Counts, Constants DEF Nothing, Count

(* A thread goes to sleep, or gives up, and touches no slot.               *)
LEMMA WaitKeeps ==
  ASSUME Inv, NEW t \in Threads, NEW l \in Lists, Nothing(l),
         \/ /\ Enter(t) \/ Reenter(t, l)
            /\ \E finite \in BOOLEAN : Sleep(t, l, finite, "EINTR")
         \/ Reenter(t, l) /\ Leave(t),
         UNCHANGED <<listVars, prio, content, slot, received>>,
         msg' \in [Threads -> Messages \cup {NoMessage}],
         \A u \in Threads \ {t} : msg'[u] = msg[u]
  PROVE  Inv'
<1>1. /\ WaitInv(InCall) /\ stat[t] = "READY" /\ lock = NoThread /\ "EINTR" \in Errors
      /\ pc[t] \in {"idle", "waiting"} /\ SlotInv
  BY CallerRuns DEF Inv, Errors, Enter, Reenter, Woken
<1>2. WaitInv(InCall)'
  BY <1>1, SleepKeeps, LeaveKeeps
<1>3. \A k \in Lists : k # l => t \notin Woken(k) /\ GrowsBut(t, k)
  BY <1>1, SleepGrows, LeaveGrows DEF Enter, Reenter, Woken
<1>4. /\ pc'[t] \in {"idle", "arm", "waiting"}
      /\ \A u \in Threads \ {t} : pc'[u] = pc[u]
  BY <1>1 DEF Sleep, Leave, Return, Goto, WaitInv, WaitTypeOK
<1>5. SlotInv' /\ CallInv' /\ \A k \in Lists : Count(k)' = Count(k)
  <2>1. /\ \A u \in Threads : pc'[u] \in InCall <=> pc[u] \in InCall
        /\ \A u \in Threads : pc'[u] = "link" => pc[u] = "link" /\ msg'[u] = msg[u]
        /\ \A u \in Threads : pc'[u] = "front" => pc[u] = "front"
    BY <1>1, <1>4 DEF InCall
  <2> QED
    BY <2>1, SlotsUntouched
<1>6. ClaimInv'
  <2>1. Count(l)' = 0
    BY <1>1, <1>5, NothingCounts
  <2>2. \A k \in Lists : Count(k)' <= Count(k)
    BY <1>1, <1>5, CountRange
  <2> QED
    BY <1>2, <1>3, <1>5, <2>1, <2>2, ClaimsKept
<1> QED
  BY <1>2, <1>5, <1>6 DEF Inv

(* A step of others that touches no slot and takes no wake-up away.        *)
LEMMA QuietStep ==
  ASSUME Inv, WaitInv(InCall)', UNCHANGED mqVars, NEW t,
         \A l \in Lists : GrowsBut(t, l) /\ t \notin Woken(l),
         \A u \in Threads : pc'[u] \in InCall \/ pc[u] \in InCall => pc'[u] = pc[u]
  PROVE  Inv'
<1>1. SlotInv' /\ CallInv' /\ \A k \in Lists : Count(k)' = Count(k)
  <2>1. /\ \A u \in Threads : pc'[u] \in InCall <=> pc[u] \in InCall
        /\ \A u \in Threads : pc'[u] = "link" => pc[u] = "link" /\ msg'[u] = msg[u]
        /\ \A u \in Threads : pc'[u] = "front" => pc[u] = "front"
    BY DEF InCall, mqVars
  <2>2. /\ UNCHANGED <<listVars, prio, content, slot, received>>
        /\ msg' \in [Threads -> Messages \cup {NoMessage}]
    BY DEF mqVars, Inv, CallInv
  <2> QED
    BY <2>1, <2>2, SlotsUntouched
<1>2. ClaimInv'
  <2>1. \A k \in Lists : Count(k)' <= Count(k)
    BY <1>1, CountRange DEF Inv
  <2> QED
    BY <1>1, <2>1, ClaimsKept
<1> QED
  BY <1>1, <1>2 DEF Inv

-------------------------------------------------------------------------------
(* Reset, detach and delete.                                               *)

LEMMA CloseKeeps ==
  ASSUME Inv, NEW t \in Threads, NEW why \in Ops, Close(t, why)
  PROVE  Inv'
<1>1. WaitInv(InCall) /\ why \in {"reset", "detach"} /\ ResumeAll(t, why, "recv")
  BY CallersAssumption DEF Inv, Close
<1>2. WaitInv(InCall)' /\ UNCHANGED mqVars
  BY <1>1, Constants, ResumeAllKeeps DEF Close
<1>3. /\ pc[t] = "idle" /\ pc' = [pc EXCEPT ![t] = "recv"]
      /\ UNCHANGED <<stat, error, susp, on, wasted>>
  BY <1>1 DEF ResumeAll, Enter, Goto, threadVars
<1>4. \A l \in Lists : GrowsBut(t, l) /\ t \notin Woken(l)
  <2>1. \A l \in Lists : wasted[l] <= wasted[l]
    BY <1>1, Constants DEF WaitInv, WaitTypeOK
  <2> QED
    BY <1>1, <1>3, <2>1 DEF GrowsBut, Woken, WaitInv, WaitTypeOK
<1>5. \A u \in Threads : pc'[u] \in InCall \/ pc[u] \in InCall => pc'[u] = pc[u]
  BY <1>1, <1>3 DEF WaitInv, WaitTypeOK, InCall
<1> QED
  BY <1>2, <1>4, <1>5, QuietStep

LEMMA CloseStepKeeps ==
  ASSUME Inv, NEW t \in Threads, CloseStep(t)
  PROVE  Inv'
<1>1. WaitInv(InCall) /\ MaxWasted \in Nat /\ UNCHANGED mqVars
  BY Constants DEF Inv, CloseStep
<1>2. WaitInv(InCall)'
  BY <1>1, Constants, ResumeAllStepKeeps DEF CloseStep
<1>3. /\ pc[t] \in Lists /\ pc'[t] \in Lists /\ \A u \in Threads \ {t} : pc'[u] = pc[u]
      /\ UNCHANGED on
      /\ \E l \in Lists : Dequeue(l, "ERROR", MaxWasted)
  BY <1>1, Constants
     DEF CloseStep, ResumeAllStep, ResumeAllNext, Goto, WaitInv, WaitTypeOK
<1>4. \A l \in Lists : GrowsBut(t, l)
  BY <1>1, <1>3, DequeueGrows
<1>5. /\ \A l \in Lists : t \notin Woken(l)
      /\ \A u \in Threads : pc'[u] \in InCall \/ pc[u] \in InCall => pc'[u] = pc[u]
  BY <1>3, Constants DEF Woken, InCall
<1> QED
  BY <1>1, <1>2, <1>4, <1>5, QuietStep

(* A reset has put all queued slots on the free list.                      *)
LEMMA ResetOwns ==
  ASSUME Inv, NEW t \in Threads, CloseDone(t)
  PROVE  /\ SlotInv' /\ Items' = IF job = "reset" THEN <<>> ELSE Items
         /\ job # "reset" => content' = content /\ Spare' = Spare
         /\ \A x \in Slots \ Queued(Items) : content'[x] = content[x] /\ next'[x] = next[x]
         /\ content' \in [Slots -> Messages \cup {NoMessage}]
<1> DEFINE n == Len(Items)
<1>1. /\ SlotInv /\ CallInv /\ Owned(Items, Spare, head, free, next, slot) /\ entry = n
      /\ tail = IF Items = <<>> THEN Null ELSE Items[n]
  BY DEF Inv, SlotInv
<1>2. /\ Items \in Seq(Slots) /\ n \in Nat /\ Unique(Items) /\ free \in Slots \cup {Null}
      /\ \A i \in 1..n : Items[i] \in Slots /\ Items[i] \in Queued(Items)
  <2>1. /\ Items \in Seq(Slots) /\ n \in Nat /\ Unique(Items) /\ Path(Spare, free, next)
        /\ Spare \in Seq(Slots)
    BY <1>1, Counts DEF Path
  <2>2. free \in Slots \cup {Null}
    <3>1. Spare # <<>> => Spare[1] \in Slots
      BY <2>1
    <3> QED
      BY <2>1, <3>1 DEF Path
  <2> QED
    BY <2>1, <2>2 DEF Queued
<1>3. CASE job = "reset" /\ n > 0
  <2> DEFINE rank(x) == CHOOSE i \in 1..n : Items[i] = x
  <2>1. /\ next' = [x \in Slots |->
                      IF \E k \in 1..n : Items[k] = x
                        THEN IF rank(x) = 1 THEN free ELSE Items[rank(x) - 1]
                        ELSE next[x]]
        /\ free' = Items[n] /\ head' = Null
        /\ tail' = (IF tail \in Queued(Items) THEN Null ELSE tail) /\ entry' = 0
        /\ content' = [x \in Slots |-> IF x \in Queued(Items) THEN NoMessage ELSE content[x]]
        /\ slot' = slot
    BY <1>3 DEF CloseDone, Items
  <2>2. \A i \in 1..n : rank(Items[i]) = i
    <3> SUFFICES ASSUME NEW i \in 1..n PROVE rank(Items[i]) = i
      OBVIOUS
    <3>1. rank(Items[i]) \in 1..n /\ Items[rank(Items[i])] = Items[i]
      OBVIOUS
    <3> HIDE DEF rank
    <3> QED
      BY <1>2, <3>1 DEF Unique
  <2> HIDE DEF rank
  <2>3. \A i \in 1..n : next'[Items[i]] = IF i = 1 THEN free ELSE Items[i - 1]
    BY <1>2, <2>1, <2>2
  <2>4. \A x \in Slots \ Queued(Items) : content'[x] = content[x] /\ next'[x] = next[x]
    BY <2>1 DEF Queued
  <2>5. next' \in [Slots -> Slots \cup {Null}]
    <3>1. ASSUME NEW x \in Slots PROVE next'[x] \in Slots \cup {Null}
      <4>1. CASE \E i \in 1..n : Items[i] = x
        <5>1. PICK i \in 1..n : Items[i] = x
          BY <4>1
        <5>2. i # 1 => i - 1 \in 1..n
          BY <1>2
        <5> QED
          BY <1>2, <2>3, <5>1, <5>2
      <4>2. CASE ~\E i \in 1..n : Items[i] = x
        BY <1>1, <2>1, <4>2 DEF Owned
      <4> QED
        BY <4>1, <4>2
    <3> QED
      BY <2>1, <3>1
  <2>6. Items # <<>>
    BY <1>3
  <2>7. PICK e : Owned(<<>>, e, Null, Items[n], next', slot)
    <3>1. \A i \in 1..Len(Items) : next'[Items[i]] = IF i = 1 THEN free ELSE Items[i - 1]
      BY <2>3
    <3>2. \E e : Owned(<<>>, e, Null, Items[Len(Items)], next', slot)
      BY <1>1, <2>4, <2>5, <2>6, <3>1, OwnedReset
    <3> QED
      BY <3>2
  <2>8. Items' = <<>> /\ Spare' = e
    BY <2>1, <2>7, ListsOwned
  <2>9. SlotInv'
    <3>1. tail' = Null
      <4>1. n \in 1..n
        BY <1>2, <1>3
      <4>2. tail \in Queued(Items)
        BY <1>1, <1>2, <2>6, <4>1
      <4> QED
        BY <2>1, <4>2
    <3>2. Len(<<>>) = 0
      OBVIOUS
    <3> QED
      BY <2>1, <2>7, <2>8, <3>1, <3>2 DEF SlotInv
  <2>10. content' \in [Slots -> Messages \cup {NoMessage}]
    BY <1>1, <2>1 DEF CallInv
  <2> QED
    BY <1>3, <2>4, <2>8, <2>9, <2>10
<1>4. CASE ~(job = "reset" /\ n > 0)
  <2>1. /\ next' = next /\ head' = head /\ tail' = tail /\ free' = free /\ entry' = entry
        /\ content' = content /\ slot' = slot
    BY <1>4 DEF CloseDone, listVars, Items
  <2>2. Items' = Items /\ Spare' = Spare
    BY <2>1, ListsWalked DEF Items, Spare
  <2>3. SlotInv'
    BY <1>1, <2>1, <2>2 DEF SlotInv
  <2>4. job = "reset" => Items = <<>>
    BY <1>2, <1>4
  <2> QED
    BY <1>1, <2>1, <2>2, <2>3, <2>4 DEF CallInv
<1> QED
  BY <1>3, <1>4

(* When the senders are done, the list of senders is empty or counts as    *)
(* many wasted wake-ups as there can be.                                   *)
LEMMA CloseDoneKeeps ==
  ASSUME Inv, NEW t \in Threads, CloseDone(t)
  PROVE  Inv'
<1>1. /\ WaitInv(InCall) /\ MaxWasted \in Nat /\ ResumeAllDone(t, "send")
      /\ WaitTypeOK(InCall) /\ pc[t] = "send" /\ SlotInv /\ CallInv
  BY Constants DEF Inv, CloseDone, ResumeAllDone, WaitInv
<1>2. WaitInv(InCall)'
  BY <1>1, Constants, ResumeAllStepKeeps
<1>3. /\ SlotInv' /\ Items' = IF job = "reset" THEN <<>> ELSE Items
      /\ job # "reset" => content' = content /\ Spare' = Spare
      /\ \A x \in Slots \ Queued(Items) : content'[x] = content[x] /\ next'[x] = next[x]
      /\ content' \in [Slots -> Messages \cup {NoMessage}]
  BY ResetOwns
<1>4. /\ Dequeue("send", "ERROR", MaxWasted) /\ ~DequeueOK("send") /\ UNCHANGED on
      /\ \A u \in Threads \ {t} : pc'[u] = pc[u]
      /\ pc'[t] = "idle"
  BY <1>1 DEF ResumeAllDone, Goto, WaitTypeOK
<1>5. /\ slot' = slot /\ prio' = prio /\ msg' = msg
      /\ received' = IF job = "reset" THEN NoMessage ELSE received
  BY DEF CloseDone
<1>6. CallInv'
  <2>1. "idle" \notin InCall /\ "send" \notin InCall
    BY DEF InCall
  <2>2. \A u \in Threads \ {t} :
          slot[u] # Null => /\ content'[slot[u]] = content[slot[u]]
                            /\ next'[slot[u]] = next[slot[u]]
    <3> SUFFICES ASSUME NEW u \in Threads \ {t}, slot[u] # Null
                 PROVE  slot[u] \in Slots \ Queued(Items)
      BY <1>3
    <3> QED
      BY <1>1, Apart
  <2>3. \A y \in Queued(Items)' : content'[y] \in Messages
    <3>1. Queued(<<>>) = {}
      BY DEF Queued
    <3> QED
      BY <1>1, <1>3, <3>1 DEF CallInv
  <2>4. /\ slot'[t] # Null <=> pc'[t] \in InCall
        /\ pc'[t] # "link" /\ pc'[t] # "front"
        /\ received' \in [body : Messages, prio : Prios] \cup {NoMessage}
        /\ prio' \in [Slots -> Prios] /\ msg' \in [Threads -> Messages \cup {NoMessage}]
    BY <1>1, <1>4, <1>5, <2>1 DEF CallInv
  <2> QED
    BY <1>3, <1>4, <1>5, <2>2, <2>3, <2>4, CallKept
<1>7. GrowsBut(t, "recv") /\ t \notin Woken("recv")
  BY <1>1, <1>4, Constants, DequeueGrows DEF Woken
<1>8. /\ susp' = susp
      /\ susp["send"] # <<>> => wasted'["send"] = MaxWasted
  BY <1>4, <1>1, Constants, LastDequeue
<1>9. /\ Owned(Items', Spare', head', free', next', slot') /\ entry' = Len(Items')
      /\ Len(Items') \in Nat /\ Len(Spare') \in Nat /\ Len(Items') + Len(Spare') <= MaxMsgs
  <2>1. Owned(Items', Spare', head', free', next', slot') /\ entry' = Len(Items')
    BY <1>3 DEF SlotInv
  <2> QED
    BY <2>1, OwnedBounds
<1>10. Count("recv")' <= Count("recv")
  <2>1. entry \in Nat /\ entry = Len(Items) /\ Len(<<>>) = 0
    BY <1>1, Counts
  <2> QED
    BY <1>3, <1>9, <2>1 DEF Count
<1>11. Claim("send", Count("send"))'
  <2>1. Woken("send")' \subseteq Threads
    BY DEF Woken
  <2>2. Cardinality(Woken("send")') \in Nat
    BY <2>1, ThreadsCounted
  <2>3. Count("send")' = Len(Spare') /\ Len(Spare') <= MaxWasted
    BY <1>9, Constants DEF Count
  <2> QED
    BY <1>8, <1>9, <2>2, <2>3, Constants DEF Claim
<1>12. ClaimInv'
  BY <1>2, <1>3, <1>7, <1>10, <1>11, Constants, ClaimsKept
<1> QED
  BY <1>2, <1>3, <1>6, <1>12 DEF Inv

-------------------------------------------------------------------------------
(* Every step, and what follows for every behaviour.                       *)

(* A send takes a slot.                                                    *)
LEMMA SendTakes ==
  ASSUME Inv, NEW t \in Threads, NEW m \in Messages, Send(t, m) \/ Urgent(t, m)
  PROVE  /\ Inv' /\ Items' = Items /\ UNCHANGED <<prio, received>>
         /\ \A x \in Queued(Items) : content'[x] = content[x]
<1>1. next \in [Slots -> Slots \cup {Null}]
  BY DEF Inv, SlotInv, Owned
<1>2. free # Null => free \in Slots
  BY Counts, PathTail DEF Inv
<1>3. CASE Send(t, m)
  <2>1. /\ (Enter(t) \/ Reenter(t, "send")) /\ TakeSlot(t, m, "link") /\ free # Null
        /\ next' = [next EXCEPT ![free] = Null]
    BY <1>3 DEF Send, Sending, TakeSlot
  <2>2. /\ next' \in [Slots -> Slots \cup {Null}] /\ next'[free] = Null
        /\ \A x \in Slots : x # free => next'[x] = next[x]
    BY <1>1, <1>2, <2>1
  <2> QED
    BY <1>3, <2>1, <2>2, TakeSlotKeeps DEF Send, Sending
<1>4. CASE Urgent(t, m)
  BY <1>1, <1>4, TakeSlotKeeps DEF Urgent
<1> QED
  BY <1>3, <1>4

LEMMA StepKeeps == Inv /\ [Next]_vars => Inv'
<1> SUFFICES ASSUME Inv, [Next]_vars PROVE Inv'
  OBVIOUS
<1>1. Senders \subseteq Threads /\ Receivers \subseteq Threads /\ Closers \subseteq Threads
  BY CallersAssumption
<1>2. WaitInv(InCall) /\ msg \in [Threads -> Messages \cup {NoMessage}]
  BY DEF Inv, CallInv
<1>3. ASSUME NEW t \in Senders, SendCall(t) PROVE Inv'
  <2>1. t \in Threads
    BY <1>1
  <2>2. ASSUME NEW m \in Messages, Send(t, m) \/ Urgent(t, m) PROVE Inv'
    BY <2>1, <2>2, SendTakes
  <2>3. ASSUME NEW m \in Messages, NEW finite \in Timed[t], SendSleep(t, m, finite) PROVE Inv'
    <3>1. finite \in BOOLEAN
      BY <2>1, IpcTimedAssumption
    <3>2. /\ Enter(t) \/ Reenter(t, "send")
          /\ Nothing("send") /\ Sleep(t, "send", finite, "EINTR")
          /\ UNCHANGED <<listVars, prio, content, slot, received>>
          /\ msg' \in [Threads -> Messages \cup {NoMessage}]
          /\ \A u \in Threads \ {t} : msg'[u] = msg[u]
      BY <1>2, <2>3 DEF SendSleep, Sending, Nothing
    <3> QED
      BY <2>1, <3>1, <3>2, Constants, WaitKeeps
  <2>4. ASSUME SendGiveUp(t) PROVE Inv'
    <3>1. /\ Reenter(t, "send") /\ Nothing("send") /\ Leave(t)
          /\ UNCHANGED <<listVars, prio, content, slot, received>>
          /\ msg' \in [Threads -> Messages \cup {NoMessage}]
          /\ \A u \in Threads \ {t} : msg'[u] = msg[u]
      BY <1>2, <2>4 DEF SendGiveUp, Nothing
    <3> QED
      BY <2>1, <3>1, Constants, WaitKeeps
  <2>5. ASSUME Link(t) \/ LinkFront(t) PROVE Inv'
    BY <2>1, <2>5, LinkKeeps, LinkFrontKeeps
  <2> QED
    BY <1>3, <2>2, <2>3, <2>4, <2>5 DEF SendCall
<1>4. ASSUME NEW t \in Receivers, RecvCall(t) PROVE Inv'
  <2>1. t \in Threads
    BY <1>1
  <2>2. ASSUME Recv(t) \/ PutBack(t) PROVE Inv'
    BY <2>1, <2>2, RecvKeeps, PutBackKeeps
  <2>3. ASSUME NEW finite \in Timed[t], RecvSleep(t, finite) PROVE Inv'
    <3>1. finite \in BOOLEAN
      BY <2>1, IpcTimedAssumption
    <3>2. /\ Enter(t) \/ Reenter(t, "recv")
          /\ Nothing("recv") /\ Sleep(t, "recv", finite, "EINTR")
          /\ UNCHANGED <<listVars, prio, content, slot, received>> /\ msg' = msg
      BY <1>2, <2>3 DEF RecvSleep, Receiving, Nothing, mqVars
    <3> QED
      BY <1>2, <2>1, <3>1, <3>2, Constants, WaitKeeps
  <2>4. ASSUME RecvGiveUp(t) PROVE Inv'
    <3>1. /\ Reenter(t, "recv") /\ Nothing("recv") /\ Leave(t)
          /\ UNCHANGED <<listVars, prio, content, slot, received>> /\ msg' = msg
      BY <1>2, <2>4 DEF RecvGiveUp, Nothing, mqVars
    <3> QED
      BY <1>2, <2>1, <3>1, Constants, WaitKeeps
  <2> QED
    BY <1>4, <2>2, <2>3, <2>4 DEF RecvCall
<1>5. ASSUME NEW t \in Closers,
             (\E why \in Ops : Close(t, why)) \/ CloseStep(t) \/ CloseDone(t)
      PROVE  Inv'
  BY <1>1, <1>5, CloseKeeps, CloseStepKeeps, CloseDoneKeeps
<1>6. ASSUME WaitStep, UNCHANGED mqVars PROVE Inv'
  <2>1. WaitInv(InCall)'
    BY <1>2, <1>6, WaitStepKeeps
  <2>2. \A l \in Lists : GrowsBut(NoThread, l) /\ NoThread \notin Woken(l)
    BY <1>2, <1>6, Constants, WaitStepGrows DEF Woken
  <2>3. \A u \in Threads : pc'[u] \in InCall \/ pc[u] \in InCall => pc'[u] = pc[u]
    BY <1>2, <1>6 DEF WaitStep, Arm, ReturnError, Return, Goto, Expire, Timeout,
       TimeoutAssertFails, waitVars, WaitInv, WaitTypeOK, InCall
  <2> QED
    BY <1>6, <2>1, <2>2, <2>3, QuietStep
<1>7. ASSUME UNCHANGED vars PROVE Inv'
  <2>1. UNCHANGED <<ipcVars, mqVars>>
    BY <1>7 DEF vars
  <2>2. WaitInv(InCall)'
    BY <2>1 DEF Inv, WaitInv, WaitTypeOK, ThreadTypeOK, SleepInv, HolderInv, SleepersQueued,
       ipcVars, threadVars, waitVars
  <2>3. SlotInv' /\ CallInv' /\ \A l \in Lists : Count(l)' = Count(l)
    <3>1. pc' = pc /\ UNCHANGED <<listVars, prio, content, slot, received>> /\ msg' = msg
      BY <2>1 DEF ipcVars, waitVars, mqVars
    <3> QED
      BY <1>2, <3>1, SlotsUntouched
  <2>4. ClaimInv'
    <3>1. ASSUME NEW l \in Lists PROVE Claim(l, Count(l))'
      BY <2>1, <2>3 DEF Inv, ClaimInv, Claim, Woken, ipcVars, threadVars, waitVars
    <3> QED
      BY <3>1 DEF ClaimInv
  <2> QED
    BY <2>2, <2>3, <2>4 DEF Inv
<1> QED
  BY <1>3, <1>4, <1>5, <1>6, <1>7 DEF Next

(* The invariant holds in every reachable state.                           *)
THEOREM Invariance == Spec => []Inv
BY InitHolds, StepKeeps, PTL DEF Spec

(* Every slot is in one place at any time, on the free list, in the queue  *)
(* or with one call, although _rt_mq_send_wait and _rt_mq_recv drop the    *)
(* spinlock while they have one and a reset moves all the queued ones: for *)
(* every number of threads and slots.                                      *)
THEOREM SlotsAreOwned == Spec => []SlotsOwned
<1>1. Inv => SlotsOwned
  <2> SUFFICES ASSUME Inv PROVE SlotsOwned
    OBVIOUS
  <2>1. /\ Owned(Items, Spare, head, free, next, slot)
    BY DEF Inv, SlotInv
  <2>2. Queued(Items) \cup Queued(Spare) \cup {slot[t] : t \in Flying(slot)} = Slots
    <3>1. Queued(Items) \subseteq Slots /\ Queued(Spare) \subseteq Slots
      BY <2>1 DEF Owned, Path, Queued
    <3>2. {slot[t] : t \in Flying(slot)} \subseteq Slots
      BY <2>1 DEF Owned, Flying
    <3> QED
      BY <2>1, <3>1, <3>2 DEF Owned
  <2>3. Len(Items) + Len(Spare) + Cardinality(Flying(slot)) = MaxMsgs
    BY <2>1 DEF Owned
  <2> QED
    BY <2>2, <2>3 DEF SlotsOwned, Items, Spare, Flying
<1> QED
  BY <1>1, Invariance, PTL

(* Every receiver that sleeps beside a message has a woken receiver ahead  *)
(* of it for every message, or a wake-up met a waiter in its timeout       *)
(* (_rt_mq_send_wait, rt_mq_urgent, _rt_mq_recv), for every number of      *)
(* threads and slots.                                                      *)
THEOREM MessagesAreClaimed == Spec => []MessagesClaimed
<1>1. Inv => MessagesClaimed
  BY Constants DEF Inv, ClaimInv, Count, Claim, MessagesClaimed, ItemsClaimed
<1> QED
  BY <1>1, Invariance, PTL

(* The same for a sender that sleeps beside a free slot, which is given    *)
(* back in a section of its own at the end of _rt_mq_recv, or by a reset.  *)
THEOREM SlotsAreClaimed == Spec => []SlotsClaimed
<1>1. Inv => SlotsClaimed
  <2>1. Inv => Claim("send", Len(Spare))
    BY Constants DEF Inv, ClaimInv, Count
  <2> QED
    BY <2>1 DEF Claim, SlotsClaimed, ItemsClaimed, Spare
<1> QED
  BY <1>1, Invariance, PTL

(* The suspend lists of a message queue hold exactly the threads that      *)
(* sleep on it, each once and on its own list, and the links stay in the   *)
(* pool.                                                                   *)
THEOREM TypeCorrect == Spec => [](TypeOK /\ SleepersQueued)
<1>1. Inv => TypeOK /\ SleepersQueued
  <2> SUFFICES ASSUME Inv PROVE TypeOK /\ SleepersQueued
    OBVIOUS
  <2>1. /\ Items \in Seq(Slots) /\ Spare \in Seq(Slots)
        /\ Path(Items, head, next) /\ Path(Spare, free, next)
        /\ entry = Len(Items) /\ entry \in Nat /\ Len(Spare) \in Nat
        /\ entry + Len(Spare) <= MaxMsgs
    BY Counts DEF Inv
  <2>2. {head, tail, free} \subseteq Slots \cup {Null}
    <3>1. /\ Items # <<>> => Items[1] \in Slots /\ Items[Len(Items)] \in Slots
          /\ Spare # <<>> => Spare[1] \in Slots
      BY <2>1
    <3> QED
      BY <2>1, <3>1 DEF Path, Inv, SlotInv
  <2>3. entry \in 0..MaxMsgs
    BY <2>1, Constants
  <2> QED
    BY <2>2, <2>3 DEF Inv, WaitInv, SlotInv, Owned, CallInv, TypeOK, InCall
<1> QED
  BY <1>1, Invariance, PTL

-------------------------------------------------------------------------------
(* A message queue is a bounded queue.                                     *)

Message == [body : Messages, prio : Prios]

(* The message in slot x, and that there is one in every slot of c.        *)
MessageOf(x, cont, pr) == [body |-> cont[x], prio |-> pr[x]]
Written(c, cont) == \A y \in Queued(c) : cont[y] \in Messages

(* The messages in the slots c.                                            *)
Read(c, cont, pr) == [k \in 1..Len(c) |-> MessageOf(c[k], cont, pr)]

LEMMA ReadProperties ==
  ASSUME NEW c \in Seq(Slots), NEW cont, NEW pr \in [Slots -> Prios], Written(c, cont)
  PROVE  /\ Read(c, cont, pr) \in Seq(Message) /\ Len(Read(c, cont, pr)) = Len(c)
         /\ \A k \in 1..Len(c) : Read(c, cont, pr)[k] = MessageOf(c[k], cont, pr)
<1> DEFINE r == Read(c, cont, pr)
<1>1. \A k \in 1..Len(c) : c[k] \in Slots /\ c[k] \in Queued(c)
  BY DEF Queued
<1>2. /\ \A k \in 1..Len(c) : r[k] = MessageOf(c[k], cont, pr)
      /\ r \in [1..Len(c) -> Message]
  <2>1. \A k \in 1..Len(c) : MessageOf(c[k], cont, pr) \in Message
    BY <1>1 DEF Message, MessageOf, Written
  <2> QED
    BY <2>1 DEF Read
<1> HIDE DEF r
<1>3. r \in Seq(Message) /\ Len(r) = Len(c)
  BY <1>2, FunctionIsSeq
<1> QED
  BY <1>2, <1>3 DEF r

(* Two sequences with the same elements are the same.                      *)
LEMMA SameSeq ==
  ASSUME NEW S, NEW r \in Seq(S), NEW s \in Seq(S), Len(r) = Len(s),
         \A i \in 1..Len(r) : r[i] = s[i]
  PROVE  r = s
BY SeqEqual

(* The queue of the abstract specification is changed in the same way.     *)
LEMMA InsertedIsConcat ==
  ASSUME NEW S, NEW q \in Seq(S), NEW n \in 1..(Len(q) + 1), NEW m \in S
  PROVE  /\ Inserted(q, n, m) = SubSeq(q, 1, n - 1) \o <<m>> \o SubSeq(q, n, Len(q))
         /\ Inserted(q, 1, m) = <<m>> \o q
<1>0. Len(q) \in Nat /\ \A i \in 1..Len(q) : q[i] \in S
  BY LenProperties, ElementOfSeq
<1>1. Inserted(q, n, m) = SubSeq(q, 1, n - 1) \o <<m>> \o SubSeq(q, n, Len(q))
  <2> DEFINE a == SubSeq(q, 1, n - 1)
             b == SubSeq(q, n, Len(q))
             r == (a \o <<m>>) \o b
             s == Inserted(q, n, m)
  <2>1. /\ a \in Seq(S) /\ Len(a) = n - 1 /\ \A i \in 1..(n - 1) : a[i] = q[i]
    <3>1. n - 1 \in 0..Len(q) /\ \A i \in 1..(n - 1) : i \in 1..Len(q)
      BY <1>0
    <3>2. a = [i \in 1..(n - 1) |-> q[i]]
      BY <3>1
    <3> HIDE DEF a
    <3>3. a \in [1..(n - 1) -> S] /\ n - 1 \in Nat /\ \A i \in 1..(n - 1) : a[i] = q[i]
      BY <1>0, <3>1, <3>2
    <3> QED
      BY <3>3, FunctionIsSeq
  <2>2. /\ b \in Seq(S) /\ Len(b) = Len(q) + 1 - n
        /\ \A i \in 1..(Len(q) + 1 - n) : b[i] = q[n + i - 1]
    <3>1. /\ Len(q) + 1 - n \in Nat
          /\ \A i \in 1..(Len(q) + 1 - n) : n + i - 1 \in 1..Len(q)
      BY <1>0
    <3>2. b = [i \in 1..(Len(q) + 1 - n) |-> q[n + i - 1]]
      BY <1>0
    <3> HIDE DEF b
    <3>3. /\ b \in [1..(Len(q) + 1 - n) -> S]
          /\ \A i \in 1..(Len(q) + 1 - n) : b[i] = q[n + i - 1]
      BY <1>0, <3>1, <3>2
    <3> QED
      BY <3>1, <3>3, FunctionIsSeq
  <2> HIDE DEF a, b
  <2>3. /\ r \in Seq(S) /\ Len(r) = Len(q) + 1
        /\ \A i \in 1..(Len(q) + 1) :
             r[i] = IF i < n THEN a[i] ELSE IF i = n THEN m ELSE b[i - n]
    BY <1>0, <2>1, <2>2
  <2>4. /\ s \in Seq(S) /\ Len(s) = Len(q) + 1
        /\ \A i \in 1..(Len(q) + 1) :
             s[i] = IF i < n THEN q[i] ELSE IF i = n THEN m ELSE q[i - 1]
    BY InsertedProperties
  <2> HIDE DEF r, s
  <2>5. ASSUME NEW i \in 1..(Len(q) + 1) PROVE r[i] = s[i]
    <3>1. CASE i < n
      BY <2>1, <2>3, <2>4, <3>1
    <3>2. CASE i = n
      BY <2>3, <2>4, <3>2
    <3>3. CASE i > n
      <4>1. i - n \in 1..(Len(q) + 1 - n) /\ n + (i - n) - 1 = i - 1
        BY <1>0, <3>3
      <4>2. b[i - n] = q[i - 1]
        BY <2>2, <4>1
      <4> QED
        BY <2>3, <2>4, <3>3, <4>2
    <3> QED
      BY <3>1, <3>2, <3>3
  <2>6. r = s
    BY <2>3, <2>4, <2>5, SameSeq
  <2> QED
    BY <2>6 DEF r, s, a, b
<1>2. Inserted(q, 1, m) = <<m>> \o q
  <2> DEFINE k == 1
             r == <<m>> \o q
             s == Inserted(q, k, m)
  <2>1. /\ r \in Seq(S) /\ Len(r) = Len(q) + 1
        /\ \A i \in 1..(Len(q) + 1) : r[i] = IF i = 1 THEN m ELSE q[i - 1]
    BY <1>0
  <2>2. k \in 1..(Len(q) + 1) /\ k = 1
    BY <1>0
  <2> HIDE DEF k, r
  <2>3. /\ s \in Seq(S) /\ Len(s) = Len(q) + 1
        /\ \A i \in 1..(Len(q) + 1) :
             s[i] = IF i < k THEN q[i] ELSE IF i = k THEN m ELSE q[i - 1]
    BY <2>2, InsertedProperties
  <2> HIDE DEF s
  <2>4. ASSUME NEW i \in 1..(Len(q) + 1) PROVE r[i] = s[i]
    <3>1. i = k <=> i = 1
      BY <2>2
    <3>2. ~(i < k)
      BY <2>2
    <3> QED
      BY <2>1, <2>3, <3>1, <3>2
  <2>5. r = s
    BY <2>1, <2>3, <2>4, SameSeq
  <2> QED
    BY <2>5 DEF r, s, k
<1> QED
  BY <1>1, <1>2

(* A slot that is put on the list is a message that is put in the queue.   *)
LEMMA ReadInserted ==
  ASSUME NEW c \in Seq(Slots), NEW n \in 1..(Len(c) + 1), NEW x \in Slots, NEW cont,
         Written(c, cont), cont[x] \in Messages,
         NEW pr \in [Slots -> Prios], NEW qr \in [Slots -> Prios],
         \A y \in Queued(c) : qr[y] = pr[y]
  PROVE  Read(Inserted(c, n, x), cont, qr)
           = Inserted(Read(c, cont, pr), n, MessageOf(x, cont, qr))
<1> DEFINE m == MessageOf(x, cont, qr)
           d == Inserted(c, n, x)
           r == Read(c, cont, pr)
           s == Read(d, cont, qr)
           u == Inserted(r, n, m)
<1>1. Len(c) \in Nat /\ \A i \in 1..Len(c) : c[i] \in Queued(c)
  BY DEF Queued
<1>2. /\ d \in Seq(Slots) /\ Len(d) = Len(c) + 1 /\ Queued(d) = Queued(c) \cup {x}
      /\ \A i \in 1..(Len(c) + 1) : d[i] = IF i < n THEN c[i] ELSE IF i = n THEN x ELSE c[i - 1]
  BY InsertedProperties
<1> HIDE DEF d
<1>3. /\ r \in Seq(Message) /\ Len(r) = Len(c)
      /\ \A k \in 1..Len(c) : r[k] = MessageOf(c[k], cont, pr)
  BY ReadProperties
<1>4. Written(d, cont)
  BY <1>2 DEF Written
<1>5. /\ s \in Seq(Message) /\ Len(s) = Len(d)
      /\ \A k \in 1..Len(d) : s[k] = MessageOf(d[k], cont, qr)
  BY <1>2, <1>4, ReadProperties
<1>6. m \in Message
  BY DEF Message, MessageOf
<1> HIDE DEF r, s, m
<1>7. /\ u \in Seq(Message) /\ Len(u) = Len(c) + 1
      /\ \A i \in 1..(Len(c) + 1) : u[i] = IF i < n THEN r[i] ELSE IF i = n THEN m ELSE r[i - 1]
  <2>1. n \in 1..(Len(r) + 1) /\ r \in Seq(Message)
    BY <1>3
  <2>2. u \in Seq(Message)
    BY <1>6, <2>1, InsertedProperties
  <2>3. Len(u) = Len(r) + 1
    BY <1>6, <2>1, InsertedProperties
  <2>4. \A i \in 1..(Len(r) + 1) : u[i] = IF i < n THEN r[i] ELSE IF i = n THEN m ELSE r[i - 1]
    BY <1>6, <2>1, InsertedProperties
  <2> QED
    BY <1>3, <2>2, <2>3, <2>4
<1> HIDE DEF u
<1>8. ASSUME NEW i \in 1..(Len(c) + 1) PROVE s[i] = u[i]
  <2>1. s[i] = MessageOf(d[i], cont, qr)
    BY <1>2, <1>5
  <2>2. CASE i < n
    <3>1. i \in 1..Len(c) /\ d[i] = c[i] /\ u[i] = r[i]
      BY <1>1, <1>2, <1>7, <2>2
    <3> QED
      BY <1>1, <1>3, <2>1, <3>1 DEF MessageOf
  <2>3. CASE i = n
    BY <1>2, <1>7, <2>1, <2>3 DEF m
  <2>4. CASE i > n
    <3>1. i - 1 \in 1..Len(c) /\ d[i] = c[i - 1] /\ u[i] = r[i - 1]
      BY <1>1, <1>2, <1>7, <2>4
    <3> QED
      BY <1>1, <1>3, <2>1, <3>1 DEF MessageOf
  <2> QED
    BY <2>2, <2>3, <2>4
<1>9. s = u
  BY <1>2, <1>5, <1>7, <1>8, SameSeq
<1> QED
  BY <1>9 DEF s, u, r, d, m

(* The queue before and after a step.                                      *)
LEMMA QueueRead ==
  /\ Queue = Read(Items, content, prio)
  /\ Queue' = Read(Items', content', prio')
BY DEF Queue, Read, Items, MessageOf

(* What the invariant says of the messages.                                *)
LEMMA QueueTyped ==
  ASSUME Inv
  PROVE  /\ Items \in Seq(Slots) /\ entry = Len(Items) /\ prio \in [Slots -> Prios]
         /\ Written(Items, content)
         /\ Queue \in Seq(Message) /\ Len(Queue) = Len(Items)
         /\ \A k \in 1..Len(Items) : Queue[k] = MessageOf(Items[k], content, prio)
<1>1. /\ Items \in Seq(Slots) /\ entry = Len(Items) /\ prio \in [Slots -> Prios]
      /\ Written(Items, content)
  BY Counts DEF Inv, CallInv, Written
<1>2. LET r == Read(Items, content, prio)
      IN  /\ r \in Seq(Message) /\ Len(r) = Len(Items)
          /\ \A k \in 1..Len(Items) : r[k] = MessageOf(Items[k], content, prio)
  BY <1>1, ReadProperties
<1> QED
  BY <1>1, <1>2, QueueRead

(* A call that ends with its message in the queue had room for it.         *)
LEMMA Room ==
  ASSUME Inv, NEW t \in Threads, slot[t] # Null
  PROVE  Len(Items) < MaxMsgs
<1>1. /\ entry \in Nat /\ Len(Spare) \in Nat /\ entry + Len(Spare) < MaxMsgs
      /\ entry = Len(Items)
  BY Counts DEF Inv
<1> QED
  BY <1>1, Constants

(* The end of rt_mq_send.                                                  *)
LEMMA LinkPuts ==
  ASSUME Inv, NEW t \in Threads, Link(t)
  PROVE  \E m \in Message : Abstract!Put(m)
<1> DEFINE x == slot[t]
           p == SentPrio(t)
           n == Place(Items, p)
           m == [body |-> content[x], prio |-> p]
           q == Queue
<1>1. /\ Items' = Inserted(Items, n, x) /\ x \in Slots /\ x \notin Queued(Items)
      /\ content[x] \in Messages /\ p \in Prios /\ prio' = [prio EXCEPT ![x] = p]
      /\ content' = content /\ received' = NoMessage
  BY LinkKeeps
<1>2. /\ Items \in Seq(Slots) /\ prio \in [Slots -> Prios]
      /\ Written(Items, content)
      /\ q \in Seq(Message) /\ Len(q) = Len(Items)
      /\ \A k \in 1..Len(Items) : q[k] = MessageOf(Items[k], content, prio)
  BY QueueTyped
<1>3. m \in Message /\ m.prio = p
  BY <1>1 DEF Message
<1>4. n \in 1..(Len(Items) + 1)
  BY <1>2, PlaceProperties
<1>5. Len(q) < MaxMsgs
  <2>1. slot[t] # Null
    BY <1>1, Constants
  <2> QED
    BY <1>2, <2>1, Room
<1>6. {k \in 1..Len(q) : q[k].prio < m.prio} = Lower(Items, p)
  <2> HIDE DEF q, m, p
  <2>1. \A k \in 1..Len(Items) : q[k].prio = prio[Items[k]]
    <3> SUFFICES ASSUME NEW k \in 1..Len(Items) PROVE q[k].prio = prio[Items[k]]
      OBVIOUS
    <3>1. q[k] = MessageOf(Items[k], content, prio)
      BY <1>2
    <3> QED
      BY <3>1 DEF MessageOf
  <2> QED
    BY <1>2, <1>3, <2>1 DEF Lower
<1>7. BeforeLower(q, m) = {n}
  BY <1>2, <1>6 DEF BeforeLower, Place
<1>8. Queue' = Inserted(q, n, m)
  <2>1. /\ prio' \in [Slots -> Prios] /\ prio'[x] = p
        /\ \A y \in Queued(Items) : prio'[y] = prio[y]
    <3>1. Queued(Items) \subseteq Slots
      BY <1>2 DEF Queued
    <3> QED
      BY <1>1, <1>2, <3>1
  <2> DEFINE qr == prio'
  <2>2. m = MessageOf(x, content, qr)
    BY <2>1 DEF MessageOf
  <2>3. /\ qr \in [Slots -> Prios] /\ \A y \in Queued(Items) : qr[y] = prio[y]
        /\ x \in Slots /\ content[x] \in Messages /\ n \in 1..(Len(Items) + 1)
        /\ Items \in Seq(Slots) /\ prio \in [Slots -> Prios] /\ Written(Items, content)
    BY <1>1, <1>2, <1>4, <2>1
  <2> HIDE DEF n, p, m, x, qr
  <2>4. Read(Inserted(Items, n, x), content, qr) = Inserted(Read(Items, content, prio), n, m)
    <3>1. Read(Inserted(Items, n, x), content, qr)
            = Inserted(Read(Items, content, prio), n, MessageOf(x, content, qr))
      BY <2>3, ReadInserted
    <3> QED
      BY <2>2, <3>1
  <2> QED
    BY <1>1, <2>4, QueueRead DEF qr
<1>9. Queue' = Abstract!InsertedAt(q, n, m)
  <2> HIDE DEF q, n, m
  <2>1. n \in 1..(Len(q) + 1)
    BY <1>2, <1>4
  <2>2. Inserted(q, n, m) = SubSeq(q, 1, n - 1) \o <<m>> \o SubSeq(q, n, Len(q))
    BY <1>2, <1>3, <2>1, InsertedIsConcat
  <2> QED
    BY <1>8, <2>2 DEF Abstract!InsertedAt
<1> QED
  BY <1>1, <1>3, <1>5, <1>7, <1>9 DEF Abstract!Put

(* The end of rt_mq_urgent.                                                *)
LEMMA LinkFrontPuts ==
  ASSUME Inv, NEW t \in Threads, LinkFront(t)
  PROVE  \E m \in Message : Abstract!PutFront(m)
<1> DEFINE x == slot[t]
           m == [body |-> content[x], prio |-> prio[x]]
           q == Queue
<1>1. /\ Items' = Inserted(Items, 1, x) /\ x \in Slots /\ x \notin Queued(Items)
      /\ content[x] \in Messages /\ prio' = prio
      /\ content' = content /\ received' = NoMessage
  BY LinkFrontKeeps
<1>2. /\ Items \in Seq(Slots) /\ prio \in [Slots -> Prios]
      /\ Written(Items, content)
      /\ q \in Seq(Message) /\ Len(q) = Len(Items) /\ Len(Items) \in Nat
  BY QueueTyped
<1>3. m \in Message
  BY <1>1, <1>2 DEF Message
<1>4. Len(q) < MaxMsgs
  <2>1. slot[t] # Null
    BY <1>1, Constants
  <2> QED
    BY <1>2, <2>1, Room
<1>5. Queue' = Inserted(q, 1, m)
  <2> DEFINE n == 1
  <2>1. n \in 1..(Len(Items) + 1) /\ Items' = Inserted(Items, n, x)
    BY <1>1, <1>2
  <2> HIDE DEF n
  <2>2. m = MessageOf(x, content, prio)
    BY DEF MessageOf
  <2> HIDE DEF m, x
  <2>3. Read(Inserted(Items, n, x), content, prio) = Inserted(Read(Items, content, prio), n, m)
    BY <1>1, <1>2, <2>1, <2>2, ReadInserted
  <2>4. Queue' = Inserted(q, n, m)
    BY <1>1, <2>1, <2>3, QueueRead
  <2> QED
    BY <2>4 DEF n
<1>6. Queue' = <<m>> \o q
  <2> DEFINE n == 1
  <2>1. n \in 1..(Len(q) + 1)
    BY <1>2
  <2> HIDE DEF q, m, n
  <2> QED
    BY <1>2, <1>3, <1>5, <2>1, InsertedIsConcat
<1> QED
  BY <1>1, <1>3, <1>4, <1>6 DEF Abstract!PutFront

(* A receive takes the message in front.                                   *)
LEMMA RecvTakes ==
  ASSUME Inv, NEW t \in Threads, Recv(t)
  PROVE  Abstract!Take
<1> DEFINE q == Queue
           r == Queue'
<1>1. /\ Items # <<>> /\ head = Items[1] /\ Items' = Tail(Items)
      /\ received' = [body |-> content[head], prio |-> prio[head]]
      /\ prio' = prio /\ content' = content
  BY RecvKeeps
<1>2. /\ Items \in Seq(Slots) /\ Len(Items) \in Nat /\ prio \in [Slots -> Prios]
      /\ Written(Items, content)
      /\ q \in Seq(Message) /\ Len(q) = Len(Items)
      /\ \A k \in 1..Len(Items) : q[k] = MessageOf(Items[k], content, prio)
  BY QueueTyped
<1>3. Items' \in Seq(Slots) /\ Len(Items') = Len(Items) - 1
      /\ \A k \in 1..(Len(Items) - 1) : Items'[k] = Items[k + 1] /\ k + 1 \in 1..Len(Items)
  BY <1>1, <1>2
<1>4. /\ r \in Seq(Message) /\ Len(r) = Len(Items')
      /\ \A k \in 1..Len(Items') : r[k] = MessageOf(Items'[k], content, prio)
  <2>1. Written(Items', content)
    <3>1. ASSUME NEW y \in Queued(Items') PROVE y \in Queued(Items)
      <4>1. PICK k \in 1..(Len(Items) - 1) : Items'[k] = y
        BY <1>3 DEF Queued
      <4> QED
        BY <1>3, <4>1 DEF Queued
    <3> QED
      BY <1>2, <3>1 DEF Written
  <2> DEFINE c == Items'
  <2>2. r = Read(c, content, prio) /\ c \in Seq(Slots)
        /\ Written(c, content)
    BY <1>1, <1>3, <2>1, QueueRead
  <2> HIDE DEF c, r
  <2>3. /\ r \in Seq(Message) /\ Len(r) = Len(c)
        /\ \A k \in 1..Len(c) : r[k] = MessageOf(c[k], content, prio)
    BY <1>2, <2>2, ReadProperties
  <2> QED
    BY <2>3 DEF c
<1> HIDE DEF q, r
<1>5. q # <<>> /\ Head(q) = MessageOf(head, content, prio)
  <2>1. Len(Items) > 0 /\ 1 \in 1..Len(Items)
    BY <1>1, <1>2
  <2>2. q # <<>> /\ Head(q) = q[1]
    BY <1>2, <2>1
  <2> QED
    BY <1>1, <1>2, <2>1, <2>2
<1>6. /\ Tail(q) \in Seq(Message) /\ Len(Tail(q)) = Len(Items) - 1
      /\ \A i \in 1..(Len(Items) - 1) : Tail(q)[i] = q[i + 1]
  BY <1>2, <1>5
<1>7. ASSUME NEW k \in 1..(Len(Items) - 1) PROVE r[k] = Tail(q)[k]
  BY <1>2, <1>3, <1>4, <1>6
<1>8. r = Tail(q)
  BY <1>3, <1>4, <1>6, <1>7, SameSeq
<1> QED
  BY <1>1, <1>5, <1>8 DEF Abstract!Take, MessageOf, q, r

(* A step that changes nothing in the queue.                               *)
LEMMA SameQueue ==
  ASSUME Inv, Items' = Items, prio' = prio,
         \A x \in Queued(Items) : content'[x] = content[x]
  PROVE  Queue' = Queue
<1>1. \A k \in 1..Len(Items) : content'[Items[k]] = content[Items[k]]
  BY DEF Queued
<1> QED
  BY <1>1, QueueRead DEF Read, MessageOf

(* The queue at the start.                                                 *)
LEMMA InitRefines == Init => Abstract!Init
<1> SUFFICES ASSUME Init PROVE Queue = <<>> /\ received = NoMessage
  BY DEF Abstract!Init
<1>1. Inv /\ entry = 0 /\ received = NoMessage
  BY InitHolds DEF Init
<1>2. Queue \in Seq(Message) /\ Len(Queue) = 0
  BY <1>1, QueueTyped
<1> QED
  BY <1>1, <1>2

(* Every step of the message queue is one of the queue, or does not show.  *)
LEMMA StepRefines ==
  Inv /\ [Next]_vars => [Abstract!Next]_<<Queue, received>>
<1> SUFFICES ASSUME Inv, [Next]_vars PROVE [Abstract!Next]_<<Queue, received>>
  OBVIOUS
<1>0. Senders \subseteq Threads /\ Receivers \subseteq Threads /\ Closers \subseteq Threads
  BY CallersAssumption
<1>1. ASSUME UNCHANGED <<listVars, prio, content, received>>
      PROVE  UNCHANGED <<Queue, received>>
  <2>1. Items' = Items
    BY <1>1, ListsWalked DEF Items, listVars
  <2> QED
    BY <1>1, <2>1, SameQueue
<1>2. ASSUME NEW t \in Senders, SendCall(t)
      PROVE  UNCHANGED <<Queue, received>> \/ Abstract!Next
  <2>0. t \in Threads
    BY <1>0
  <2>1. ASSUME NEW m \in Messages, Send(t, m) \/ Urgent(t, m)
        PROVE  UNCHANGED <<Queue, received>>
    BY <2>0, <2>1, SendTakes, SameQueue
  <2>2. ASSUME Link(t) PROVE Abstract!Next
    BY <2>0, <2>2, LinkPuts DEF Abstract!Next, Message
  <2>3. ASSUME LinkFront(t) PROVE Abstract!Next
    BY <2>0, <2>3, LinkFrontPuts DEF Abstract!Next, Message
  <2>4. ASSUME NEW m \in Messages, NEW finite \in Timed[t], SendSleep(t, m, finite)
        PROVE  UNCHANGED <<listVars, prio, content, received>>
    BY <2>4 DEF SendSleep
  <2>5. ASSUME SendGiveUp(t) PROVE UNCHANGED <<listVars, prio, content, received>>
    BY <2>5 DEF SendGiveUp
  <2> QED
    BY <1>1, <1>2, <2>1, <2>2, <2>3, <2>4, <2>5 DEF SendCall
<1>3. ASSUME NEW t \in Receivers, RecvCall(t)
      PROVE  UNCHANGED <<Queue, received>> \/ Abstract!Next
  <2>0. t \in Threads
    BY <1>0
  <2>1. ASSUME Recv(t) PROVE Abstract!Next
    BY <2>0, <2>1, RecvTakes DEF Abstract!Next
  <2>2. ASSUME PutBack(t) PROVE Abstract!Next
    <3>1. Queue' = Queue /\ received' = NoMessage
      BY <2>0, <2>2, PutBackKeeps, SameQueue
    <3> QED
      BY <3>1 DEF Abstract!Next, Abstract!Forget
  <2>3. ASSUME NEW finite \in Timed[t], RecvSleep(t, finite)
        PROVE  UNCHANGED <<listVars, prio, content, received>>
    BY <2>3 DEF RecvSleep, mqVars
  <2>4. ASSUME RecvGiveUp(t) PROVE UNCHANGED <<listVars, prio, content, received>>
    BY <2>4 DEF RecvGiveUp, mqVars
  <2> QED
    BY <1>1, <1>3, <2>1, <2>2, <2>3, <2>4 DEF RecvCall
<1>4. ASSUME NEW t \in Closers, CloseDone(t)
      PROVE  UNCHANGED <<Queue, received>> \/ Abstract!Next
  <2>0. /\ Items' = IF job = "reset" THEN <<>> ELSE Items
        /\ job # "reset" => content' = content
        /\ prio' = prio /\ received' = IF job = "reset" THEN NoMessage ELSE received
    BY <1>0, <1>4, ResetOwns DEF CloseDone
  <2>1. CASE job = "reset"
    <3>1. Queue' = <<>>
      BY <2>0, <2>1, QueueRead DEF Read
    <3> QED
      BY <2>0, <2>1, <3>1 DEF Abstract!Next, Abstract!Clear
  <2>2. CASE job # "reset"
    BY <2>0, <2>2, SameQueue
  <2> QED
    BY <2>1, <2>2
<1>5. ASSUME NEW t \in Closers, (\E why \in Ops : Close(t, why)) \/ CloseStep(t)
      PROVE  UNCHANGED <<listVars, prio, content, received>>
  BY <1>5 DEF Close, CloseStep, mqVars
<1>6. UNCHANGED mqVars \/ UNCHANGED vars => UNCHANGED <<listVars, prio, content, received>>
  BY DEF vars, mqVars
<1> QED
  BY <1>1, <1>2, <1>3, <1>4, <1>5, <1>6 DEF Next

(* A message queue implements a bounded queue: no message is lost, doubled *)
(* or overtaken but by one of higher priority or an urgent one, although   *)
(* it is copied outside the spinlock, for every number of slots            *)
(* (_rt_mq_send_wait, rt_mq_urgent, _rt_mq_recv, rt_mq_control).           *)
THEOREM MessageQueueIsAQueue == Spec => ImplementsQueue
BY InitRefines, StepRefines, Invariance, PTL DEF Spec, ImplementsQueue, Abstract!Spec
===============================================================================

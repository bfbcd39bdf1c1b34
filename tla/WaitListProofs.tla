---------------------------- MODULE WaitListProofs ----------------------------
(***************************************************************************)
(* What the operations of RtList do to the set of what is linked and to    *)
(* the absence of double links, for lists of any length.                   *)
(***************************************************************************)
EXTENDS RtList, TLAPS, SequenceTheorems, WellFoundedInduction

(* A non-empty set of natural numbers has a least element.                 *)
LEMMA LeastNat ==
  ASSUME NEW S, S \subseteq Nat, S # {}
  PROVE  \E x \in S : \A y \in S : x <= y
<1>1. PICK x \in S : \A y \in S : ~(<<y, x>> \in OpToRel(<, Nat))
  BY WFMin, NatLessThanWellFounded
<1>2. \A y \in S : ~(y < x)
  BY <1>1 DEF OpToRel
<1> QED
  BY <1>2

(* Induction over the natural numbers up to n, for a set of them.          *)
LEMMA SetInduction ==
  ASSUME NEW n \in Nat, NEW S, 0 \in S, \A i \in 0..(n - 1) : i \in S => i + 1 \in S
  PROVE  0..n \subseteq S
<1> DEFINE bad == {i \in 0..n : i \notin S}
<1>1. SUFFICES ASSUME bad # {} PROVE FALSE
  OBVIOUS
<1>2. bad \subseteq Nat
  OBVIOUS
<1>3. PICK x \in bad : \A y \in bad : x <= y
  <2> HIDE DEF bad
  <2> QED BY <1>1, <1>2, LeastNat
<1>4. x # 0 /\ x - 1 \in 0..(n - 1)
  BY <1>3
<1>5. x - 1 \in S
  BY <1>3, <1>4
<1> QED
  BY <1>3, <1>4, <1>5

(* f lists the values of a function F on G that is applied n times to x.   *)
IsRun(f, F, G, x, n) == /\ f \in [0..n -> G]
                        /\ f[0] = x
                        /\ \A i \in 1..n : f[i] = F[f[i - 1]]

(* A function on G can be iterated n times.                                *)
LEMMA Iterates ==
  ASSUME NEW G, NEW F \in [G -> G], NEW x \in G, NEW n \in Nat
  PROVE  \E f : IsRun(f, F, G, x, n)
<1> DEFINE S == {k \in Nat : \E f : IsRun(f, F, G, x, k)}
<1>1. 0 \in S
  <2> DEFINE g == [i \in 0..0 |-> x]
  <2>1. g \in [0..0 -> G] /\ g[0] = x
    OBVIOUS
  <2>2. \A i \in 1..0 : g[i] = F[g[i - 1]]
    OBVIOUS
  <2>3. IsRun(g, F, G, x, 0)
    <3> HIDE DEF g
    <3> QED BY <2>1, <2>2 DEF IsRun
  <2> QED
    BY <2>3
<1>2. ASSUME NEW k \in S PROVE k + 1 \in S
  <2>1. PICK f : IsRun(f, F, G, x, k)
    OBVIOUS
  <2> DEFINE g == [i \in 0..(k + 1) |-> IF i = k + 1 THEN F[f[k]] ELSE f[i]]
  <2>2. k \in Nat /\ f[k] \in G
    BY <2>1 DEF IsRun
  <2>3. g \in [0..(k + 1) -> G]
    BY <2>1, <2>2 DEF IsRun
  <2>4. g[0] = x
    BY <2>1, <2>2 DEF IsRun
  <2>5. \A i \in 1..(k + 1) : g[i] = F[g[i - 1]]
    BY <2>1, <2>2 DEF IsRun
  <2>6. IsRun(g, F, G, x, k + 1)
    <3> HIDE DEF g
    <3> QED BY <2>2, <2>3, <2>4, <2>5 DEF IsRun
  <2> QED
    BY <2>2, <2>6
<1>3. 0..n \subseteq S
  <2> HIDE DEF S
  <2> QED BY <1>1, <1>2, SetInduction
<1> QED
  BY <1>3

(* The walk of rt_susp_list_enqueue stops: there is a longest prefix of s  *)
(* whose members all belong to A.                                          *)
LEMMA PrefixExists ==
  ASSUME NEW S, NEW s \in Seq(S), NEW A
  PROVE  \E k \in 0..Len(s) : /\ \A i \in 1..k : s[i] \in A
                              /\ k = Len(s) \/ s[k + 1] \notin A
<1> DEFINE B == {i \in 1..Len(s) : s[i] \notin A}
<1>1. CASE B = {}
  BY <1>1
<1>2. CASE B # {}
  <2>1. B \subseteq Nat
    OBVIOUS
  <2>2. PICK x \in B : \A y \in B : x <= y
    <3> HIDE DEF B
    <3> QED BY <1>2, <2>1, LeastNat
  <2>3. x - 1 \in 0..Len(s) /\ (x - 1) + 1 = x
    OBVIOUS
  <2>4. \A i \in 1..(x - 1) : s[i] \in A
    BY <2>2, <2>3
  <2> QED
    BY <2>3, <2>4
<1> QED
  BY <1>1, <1>2

(* A function on 1..m is a list of length m.                               *)
LEMMA FunctionIsSeq ==
  ASSUME NEW S, NEW m \in Nat, NEW r \in [1..m -> S]
  PROVE  r \in Seq(S) /\ Len(r) = m
<1>1. r \in Seq(S)
  BY SeqDef
<1>2. DOMAIN r = 1..m /\ DOMAIN r = 1..Len(r) /\ Len(r) \in Nat
  BY <1>1, LenProperties
<1> QED
  BY <1>1, <1>2

(* rt_list_remove takes exactly the given thread off a list.               *)
LEMMA ListRemoveProperties ==
  ASSUME NEW S, NEW s \in Seq(S), NEW t, Unique(s)
  PROVE  /\ ListRemove(s, t) \in Seq(S)
         /\ Queued(ListRemove(s, t)) = Queued(s) \ {t}
         /\ Unique(ListRemove(s, t))
<1> DEFINE at == {i \in 1..Len(s) : s[i] = t}
           n == CHOOSE i \in at : TRUE
           r == [i \in 1..(Len(s) - 1) |-> IF i < n THEN s[i] ELSE s[i + 1]]
<1>1. CASE at = {}
  <2>1. ListRemove(s, t) = s
    BY <1>1 DEF ListRemove
  <2> QED
    BY <2>1, <1>1 DEF Queued
<1>2. CASE at # {}
  <2>1. n \in 1..Len(s) /\ s[n] = t
    BY <1>2
  <2>2. ListRemove(s, t) = r
    BY <1>2 DEF ListRemove
  <2> HIDE DEF n
  <2>3. /\ r \in Seq(S)
        /\ Len(r) = Len(s) - 1
        /\ \A i \in 1..Len(r) : r[i] = IF i < n THEN s[i] ELSE s[i + 1]
    <3>1. Len(s) - 1 \in Nat /\ r \in [1..(Len(s) - 1) -> S]
      BY <2>1
    <3>2. r \in Seq(S) /\ Len(r) = Len(s) - 1
      <4> HIDE DEF r
      <4> QED BY <3>1, FunctionIsSeq
    <3> QED
      BY <3>2
  <2> HIDE DEF r
  <2>4. Unique(r)
    <3>1. SUFFICES ASSUME NEW i \in 1..Len(r), NEW j \in 1..Len(r), r[i] = r[j]
                   PROVE  i = j
      BY DEF Unique
    <3> DEFINE back(k) == IF k < n THEN k ELSE k + 1
    <3>2. back(i) \in 1..Len(s) /\ back(j) \in 1..Len(s)
      BY <2>1, <2>3
    <3>3. s[back(i)] = s[back(j)]
      BY <3>1, <2>3
    <3>4. back(i) = back(j)
      <4> HIDE DEF back
      <4> QED BY <3>2, <3>3 DEF Unique
    <3> QED
      BY <3>4, <2>1
  <2>5. Queued(r) \subseteq Queued(s) \ {t}
    BY <2>1, <2>3 DEF Unique, Queued
  <2>6. ASSUME NEW u \in Queued(s), u # t
        PROVE  u \in Queued(r)
    <3>1. PICK k \in 1..Len(s) : s[k] = u
      BY <2>6 DEF Queued
    <3>2. CASE k < n
      <4>1. k \in 1..Len(r) /\ r[k] = u
        BY <3>1, <3>2, <2>1, <2>3
      <4> QED BY <4>1 DEF Queued
    <3>3. CASE k > n
      <4>1. k - 1 \in 1..Len(r) /\ r[k - 1] = u
        BY <3>1, <3>3, <2>1, <2>3
      <4> QED BY <4>1 DEF Queued
    <3> QED
      BY <3>1, <3>2, <3>3, <2>1, <2>6
  <2> QED
    BY <2>2, <2>3, <2>4, <2>5, <2>6
<1> QED
  BY <1>1, <1>2

(* rt_susp_list_enqueue links exactly the given thread, at a place before  *)
(* which no queued thread has lower priority and at which the next one     *)
(* has, if there is one.                                                   *)
LEMMA EnqueueProperties ==
  ASSUME NEW S, NEW s \in Seq(S), NEW t \in S, NEW flag, NEW prio,
         t \notin Queued(s), Unique(s)
  PROVE  /\ SuspListEnqueue(s, t, flag, prio) \in Seq(S)
         /\ Queued(SuspListEnqueue(s, t, flag, prio)) = Queued(s) \cup {t}
         /\ Unique(SuspListEnqueue(s, t, flag, prio))
<1> DEFINE A == {u \in S : flag = "FIFO" \/ prio[u] <= prio[t]}
           n == CHOOSE k \in 0..Len(s) :
                  /\ \A i \in 1..k : flag = "FIFO" \/ prio[s[i]] <= prio[t]
                  /\ k = Len(s) \/ ~(flag = "FIFO" \/ prio[s[k + 1]] <= prio[t])
           r == [i \in 1..(Len(s) + 1) |-> IF i <= n THEN s[i]
                                           ELSE IF i = n + 1 THEN t ELSE s[i - 1]]
<1>1. n \in 0..Len(s)
  <2>1. PICK k \in 0..Len(s) : /\ \A i \in 1..k : s[i] \in A
                               /\ k = Len(s) \/ s[k + 1] \notin A
    BY PrefixExists
  <2>2. /\ \A i \in 1..k : flag = "FIFO" \/ prio[s[i]] <= prio[t]
        /\ k = Len(s) \/ ~(flag = "FIFO" \/ prio[s[k + 1]] <= prio[t])
    <3>1. k = Len(s) \/ s[k + 1] \in S
      OBVIOUS
    <3> QED BY <2>1, <3>1
  <2> QED
    BY <2>2
<1>2. SuspListEnqueue(s, t, flag, prio) = r
  BY DEF SuspListEnqueue
<1> HIDE DEF n
<1>3. /\ r \in Seq(S)
      /\ Len(r) = Len(s) + 1
      /\ \A i \in 1..Len(r) : r[i] = IF i <= n THEN s[i]
                                     ELSE IF i = n + 1 THEN t ELSE s[i - 1]
  <2>1. Len(s) + 1 \in Nat /\ r \in [1..(Len(s) + 1) -> S]
    BY <1>1
  <2>2. r \in Seq(S) /\ Len(r) = Len(s) + 1
    <3> HIDE DEF r
    <3> QED BY <2>1, FunctionIsSeq
  <2> QED
    BY <2>2
<1> HIDE DEF r
<1>4. Unique(r)
  <2>1. SUFFICES ASSUME NEW i \in 1..Len(r), NEW j \in 1..Len(r), r[i] = r[j]
                 PROVE  i = j
    BY DEF Unique
  <2> DEFINE back(k) == IF k <= n THEN k ELSE k - 1
  <2>2. \A k \in 1..Len(r) : k # n + 1 => /\ back(k) \in 1..Len(s)
                                          /\ r[k] = s[back(k)]
                                          /\ r[k] # t
    BY <1>1, <1>3 DEF Queued
  <2>3. r[n + 1] = t /\ n + 1 \in 1..Len(r)
    BY <1>1, <1>3
  <2>4. CASE i = n + 1 \/ j = n + 1
    BY <2>1, <2>2, <2>3, <2>4
  <2>5. CASE i # n + 1 /\ j # n + 1
    <3>1. s[back(i)] = s[back(j)] /\ back(i) \in 1..Len(s) /\ back(j) \in 1..Len(s)
      BY <2>1, <2>2, <2>5
    <3>2. back(i) = back(j)
      <4> HIDE DEF back
      <4> QED BY <3>1 DEF Unique
    <3> QED
      BY <3>2, <2>5, <1>1
  <2> QED
    BY <2>4, <2>5
<1>5. ASSUME NEW u \in Queued(r)
      PROVE  u \in Queued(s) \cup {t}
  <2>1. PICK i \in 1..Len(r) : r[i] = u
    BY DEF Queued
  <2>2. CASE i <= n
    BY <2>1, <2>2, <1>1, <1>3 DEF Queued
  <2>3. CASE i > n + 1
    <3>1. i - 1 \in 1..Len(s) /\ s[i - 1] = u
      BY <2>1, <2>3, <1>1, <1>3
    <3> QED BY <3>1 DEF Queued
  <2> QED
    BY <2>1, <2>2, <2>3, <1>1, <1>3
<1>6. t \in Queued(r)
  <2>1. n + 1 \in 1..Len(r) /\ r[n + 1] = t
    BY <1>1, <1>3
  <2> QED BY <2>1 DEF Queued
<1>7. ASSUME NEW u \in Queued(s)
      PROVE  u \in Queued(r)
  <2>1. PICK k \in 1..Len(s) : s[k] = u
    BY DEF Queued
  <2>2. CASE k <= n
    <3>1. k \in 1..Len(r) /\ r[k] = u
      BY <2>1, <2>2, <1>1, <1>3
    <3> QED BY <3>1 DEF Queued
  <2>3. CASE k > n
    <3>1. k + 1 \in 1..Len(r) /\ r[k + 1] = u
      BY <2>1, <2>3, <1>1, <1>3
    <3> QED BY <3>1 DEF Queued
  <2> QED
    BY <2>1, <2>2, <2>3, <1>1
<1> QED
  BY <1>2, <1>3, <1>4, <1>5, <1>6, <1>7

(* Taking the first thread off a list.                                     *)
LEMMA TailProperties ==
  ASSUME NEW S, NEW s \in Seq(S), s # <<>>, Unique(s)
  PROVE  /\ Head(s) \in Queued(s)
         /\ Tail(s) \in Seq(S)
         /\ Queued(Tail(s)) = Queued(s) \ {Head(s)}
         /\ Unique(Tail(s))
<1>1. /\ Tail(s) \in Seq(S)
      /\ Len(Tail(s)) = Len(s) - 1
      /\ \A i \in 1..Len(Tail(s)) : Tail(s)[i] = s[i + 1]
  BY HeadTailProperties
<1>2. 1 \in 1..Len(s) /\ Head(s) = s[1]
  OBVIOUS
<1> DEFINE r == Tail(s)
<1> HIDE DEF r
<1>3. Unique(r)
  BY <1>1 DEF Unique, r
<1>4. Queued(r) \subseteq Queued(s) \ {Head(s)}
  BY <1>1, <1>2 DEF Unique, Queued, r
<1>5. ASSUME NEW u \in Queued(s), u # Head(s)
      PROVE  u \in Queued(r)
  <2>1. PICK k \in 1..Len(s) : s[k] = u
    BY DEF Queued
  <2>2. k - 1 \in 1..Len(r) /\ r[k - 1] = u
    BY <2>1, <1>1, <1>2, <1>5 DEF r
  <2> QED BY <2>2 DEF Queued
<1> QED
  BY <1>1, <1>2, <1>3, <1>4, <1>5 DEF Queued, r

(* Taking the first n threads off a list.                                  *)
LEMMA SuffixProperties ==
  ASSUME NEW S, NEW s \in Seq(S), Unique(s), NEW n \in 0..Len(s)
  PROVE  /\ SubSeq(s, n + 1, Len(s)) \in Seq(S)
         /\ Queued(SubSeq(s, n + 1, Len(s))) \subseteq Queued(s) \ {s[i] : i \in 1..n}
         /\ Unique(SubSeq(s, n + 1, Len(s)))
         /\ n = Len(s) => SubSeq(s, n + 1, Len(s)) = <<>>
<1> DEFINE r == SubSeq(s, n + 1, Len(s))
<1>1. /\ r \in Seq(S)
      /\ Len(r) = Len(s) - n
      /\ \A i \in 1..Len(r) : r[i] = s[n + i]
  <2>1. Len(s) \in Nat /\ \A i \in (n + 1)..Len(s) : s[i] \in S
    BY LenProperties, ElementOfSeq
  <2> QED
    BY <2>1, SubSeqProperties
<1> HIDE DEF r
<1> DEFINE l == Len(s)
           k == Len(r)
<1>2. l \in Nat /\ n \in 0..l /\ k = l - n
  BY <1>1, LenProperties
<1>3. ASSUME NEW i \in 1..k PROVE n + i \in (n + 1)..l /\ n + i \in 1..l /\ r[i] = s[n + i]
  <2> HIDE DEF l
  <2> QED BY <1>1, <1>2
<1> HIDE DEF l, k
<1>4. Unique(r)
  <2> SUFFICES ASSUME NEW i \in 1..k, NEW j \in 1..k, r[i] = r[j] PROVE i = j
    BY DEF Unique, k
  <2>1. s[n + i] = s[n + j] /\ n + i \in 1..Len(s) /\ n + j \in 1..Len(s)
    BY <1>3 DEF l
  <2>2. n + i = n + j
    BY <2>1 DEF Unique
  <2> QED
    BY <1>2, <2>2
<1>5. Queued(r) \subseteq Queued(s) \ {s[i] : i \in 1..n}
  <2> SUFFICES ASSUME NEW x \in Queued(r) PROVE x \in Queued(s) /\ x \notin {s[i] : i \in 1..n}
    OBVIOUS
  <2>1. PICK i \in 1..k : x = r[i]
    BY DEF Queued, k
  <2>2. n + i \in (n + 1)..l /\ n + i \in 1..Len(s) /\ x = s[n + i]
    BY <1>3, <2>1 DEF l
  <2>3. ASSUME NEW j \in 1..n, x = s[j] PROVE FALSE
    <3>1. j \in 1..Len(s)
      BY <1>2 DEF l
    <3>2. j = n + i
      BY <2>2, <2>3, <3>1 DEF Unique
    <3> QED
      BY <1>2, <2>2, <3>2
  <2> QED
    BY <2>2, <2>3 DEF Queued
<1>6. n = Len(s) => r = <<>>
  BY <1>1
<1> QED
  BY <1>1, <1>4, <1>5, <1>6 DEF r

-------------------------------------------------------------------------------
(* Sorted lists.                                                           *)

Sorted(s, f) == \A i, j \in 1..Len(s) : i < j => f[s[i]] <= f[s[j]]

(* Only the keys of what is on the list matter.                            *)
LEMMA SortedSame ==
  ASSUME NEW S, NEW s \in Seq(S), NEW f, NEW g, Sorted(s, f), \A u \in Queued(s) : g[u] = f[u]
  PROVE  Sorted(s, g)
BY DEF Sorted, Queued

(* Taking a timer off leaves the order of the others.                      *)
LEMMA SortedRemove ==
  ASSUME NEW S, NEW s \in Seq(S), NEW t, NEW f, Sorted(s, f)
  PROVE  Sorted(ListRemove(s, t), f)
<1> DEFINE at_ == {i \in 1..Len(s) : s[i] = t}
           n == CHOOSE i \in at_ : TRUE
           r == [i \in 1..(Len(s) - 1) |-> IF i < n THEN s[i] ELSE s[i + 1]]
<1>1. CASE at_ = {}
  BY <1>1 DEF ListRemove
<1>2. CASE at_ # {}
  <2>1. n \in 1..Len(s) /\ Len(s) \in Nat
    BY <1>2
  <2> HIDE DEF n
  <2>2. r \in [1..(Len(s) - 1) -> S] /\ Len(s) - 1 \in Nat
    BY <2>1
  <2>3. Len(r) = Len(s) - 1
    <3> HIDE DEF r
    <3> QED
      BY <2>2, FunctionIsSeq
  <2>4. ListRemove(s, t) = r
    BY <1>2 DEF ListRemove, n
  <2>5. ASSUME NEW i \in 1..Len(r), NEW j \in 1..Len(r), i < j
        PROVE  f[r[i]] <= f[r[j]]
    <3> DEFINE a == IF i < n THEN i ELSE i + 1
               b == IF j < n THEN j ELSE j + 1
    <3>1. a \in 1..Len(s) /\ b \in 1..Len(s) /\ a < b
      BY <2>1, <2>3, <2>5
    <3>2. r[i] = s[a] /\ r[j] = s[b]
      BY <2>1, <2>3
    <3> QED
      BY <3>1, <3>2 DEF Sorted
  <2>6. Sorted(r, f)
    BY <2>5 DEF Sorted
  <2> QED
    BY <2>4, <2>6
<1> QED
  BY <1>1, <1>2

(* So does taking off the first, which comes before all others.            *)
LEMMA SortedTail ==
  ASSUME NEW S, NEW s \in Seq(S), s # <<>>, NEW f \in [S -> Int], Sorted(s, f)
  PROVE  /\ Sorted(Tail(s), f)
         /\ \A u \in Queued(s) : f[Head(s)] <= f[u]
<1>1. /\ Tail(s) \in Seq(S) /\ Len(Tail(s)) = Len(s) - 1 /\ Len(s) \in Nat /\ Len(s) > 0
      /\ \A i \in 1..Len(Tail(s)) : Tail(s)[i] = s[i + 1]
      /\ Head(s) = s[1]
  OBVIOUS
<1>2. ASSUME NEW i \in 1..Len(Tail(s)), NEW j \in 1..Len(Tail(s)), i < j
      PROVE  f[Tail(s)[i]] <= f[Tail(s)[j]]
  <2>1. i + 1 \in 1..Len(s) /\ j + 1 \in 1..Len(s) /\ i + 1 < j + 1
    BY <1>1, <1>2
  <2>2. f[s[i + 1]] <= f[s[j + 1]]
    BY <2>1 DEF Sorted
  <2> QED
    BY <1>1, <2>2
<1>3. ASSUME NEW u \in Queued(s) PROVE f[Head(s)] <= f[u]
  <2>1. PICK i \in 1..Len(s) : u = s[i]
    BY DEF Queued
  <2>2. s[1] \in S /\ f[s[1]] \in Int
    BY <1>1
  <2> QED
    BY <1>1, <2>1, <2>2 DEF Sorted
<1> QED
  BY <1>2, <1>3 DEF Sorted

(* Nor does taking off the first n disturb it.                             *)
LEMMA SortedSuffix ==
  ASSUME NEW S, NEW s \in Seq(S), NEW n \in 0..Len(s), NEW f, Sorted(s, f)
  PROVE  Sorted(SubSeq(s, n + 1, Len(s)), f)
<1> DEFINE r == SubSeq(s, n + 1, Len(s))
           l == Len(s)
           k == Len(r)
<1>1. l \in Nat /\ n \in 0..l /\ k = l - n /\ \A i \in 1..k : r[i] = s[n + i]
  <2>1. \A i \in (n + 1)..Len(s) : s[i] \in S
    BY LenProperties, ElementOfSeq
  <2> QED
    BY <2>1, LenProperties, SubSeqProperties
<1> HIDE DEF r, l, k
<1>2. ASSUME NEW i \in 1..k, NEW j \in 1..k, i < j PROVE f[r[i]] <= f[r[j]]
  <2>1. n + i \in 1..l /\ n + j \in 1..l /\ n + i < n + j
    BY <1>1, <1>2
  <2>2. f[s[n + i]] <= f[s[n + j]]
    BY <2>1 DEF Sorted, l
  <2> QED
    BY <1>1, <2>2
<1>3. Sorted(r, f)
  BY <1>2 DEF Sorted, k
<1> QED
  BY <1>3 DEF r

(* rt_susp_list_enqueue by priority keeps a list in order of priority.     *)
LEMMA SortedEnqueue ==
  ASSUME NEW S, NEW s \in Seq(S), NEW t \in S, NEW prio \in [S -> Nat], Sorted(s, prio)
  PROVE  Sorted(SuspListEnqueue(s, t, "PRIO", prio), prio)
<1> DEFINE A == {u \in S : prio[u] <= prio[t]}
           l == Len(s)
           n == CHOOSE k \in 0..l :
                  /\ \A i \in 1..k : "PRIO" = "FIFO" \/ prio[s[i]] <= prio[t]
                  /\ k = l \/ ~("PRIO" = "FIFO" \/ prio[s[k + 1]] <= prio[t])
           r == [i \in 1..(l + 1) |-> IF i <= n THEN s[i]
                                      ELSE IF i = n + 1 THEN t ELSE s[i - 1]]
<1>1. /\ n \in 0..l
      /\ \A i \in 1..n : prio[s[i]] <= prio[t]
      /\ n = l \/ ~(prio[s[n + 1]] <= prio[t])
  <2>1. PICK k \in 0..Len(s) : /\ \A i \in 1..k : s[i] \in A
                               /\ k = Len(s) \/ s[k + 1] \notin A
    <3> HIDE DEF A
    <3> QED BY PrefixExists
  <2>2. /\ \A i \in 1..k : "PRIO" = "FIFO" \/ prio[s[i]] <= prio[t]
        /\ k = Len(s) \/ ~("PRIO" = "FIFO" \/ prio[s[k + 1]] <= prio[t])
    <3>1. k = Len(s) \/ s[k + 1] \in S
      OBVIOUS
    <3> QED BY <2>1, <3>1
  <2> QED
    BY <2>2
<1>2. SuspListEnqueue(s, t, "PRIO", prio) = r
  BY DEF SuspListEnqueue
<1>3. l \in Nat /\ \A i \in 1..l : s[i] \in S /\ prio[s[i]] \in Nat
  BY LenProperties, ElementOfSeq
<1>4. \A i \in 1..l, j \in 1..l : i < j => prio[s[i]] <= prio[s[j]]
  BY DEF Sorted
<1> HIDE DEF l, n, A
<1>5. Len(r) = l + 1
  <2>1. r \in [1..(l + 1) -> S] /\ l + 1 \in Nat
    BY <1>1, <1>3
  <2> HIDE DEF r
  <2> QED
    BY <2>1, FunctionIsSeq
<1>6. ASSUME NEW i \in 1..(l + 1), NEW j \in 1..(l + 1), i < j
      PROVE  prio[r[i]] <= prio[r[j]]
  <2>1. prio[t] \in Nat
    OBVIOUS
  <2>2. CASE j <= n
    <3>1. i \in 1..l /\ j \in 1..l /\ r[i] = s[i] /\ r[j] = s[j]
      BY <1>1, <1>3, <1>6, <2>2
    <3> QED
      BY <1>4, <1>6, <3>1
  <2>3. CASE j = n + 1
    <3>1. i \in 1..n /\ r[i] = s[i] /\ r[j] = t
      BY <1>1, <1>3, <1>6, <2>3
    <3> QED
      BY <1>1, <3>1
  <2>4. CASE j > n + 1
    <3>1. j - 1 \in 1..l /\ r[j] = s[j - 1] /\ n + 1 \in 1..l /\ n # l
      BY <1>1, <1>3, <1>6, <2>4
    <3>2. prio[s[n + 1]] <= prio[s[j - 1]] /\ prio[t] <= prio[s[n + 1]]
      <4>1. prio[t] <= prio[s[n + 1]]
        BY <1>1, <1>3, <2>1, <3>1
      <4>2. CASE j - 1 = n + 1
        BY <1>3, <3>1, <4>1, <4>2
      <4>3. CASE j - 1 # n + 1
        <5>1. n + 1 < j - 1
          BY <1>1, <1>3, <2>4, <4>3
        <5> QED
          BY <1>4, <3>1, <4>1, <5>1
      <4> QED
        BY <4>2, <4>3
    <3>3. CASE i <= n
      <4>1. i \in 1..l /\ r[i] = s[i] /\ i < j - 1
        BY <1>1, <1>3, <1>6, <2>4, <3>3
      <4> QED
        BY <1>4, <3>1, <4>1
    <3>4. CASE i = n + 1
      <4>1. r[i] = t
        BY <1>1, <1>3, <3>4
      <4> QED
        BY <1>3, <2>1, <3>1, <3>2, <4>1
    <3>5. CASE i > n + 1
      <4>1. i - 1 \in 1..l /\ r[i] = s[i - 1] /\ i - 1 < j - 1
        BY <1>1, <1>3, <1>6, <3>5
      <4> QED
        BY <1>4, <3>1, <4>1
    <3> QED
      BY <1>1, <1>3, <3>3, <3>4, <3>5
  <2> QED
    BY <1>1, <1>3, <2>2, <2>3, <2>4
<1>7. Sorted(r, prio)
  <2> HIDE DEF r
  <2> QED
    BY <1>5, <1>6 DEF Sorted
<1> QED
  BY <1>2, <1>7

(* A thread that is queued by priority comes first if it is more urgent    *)
(* than the first one; and taking it off again restores the list.          *)
LEMMA EnqueueUndone ==
  ASSUME NEW S, NEW s \in Seq(S), NEW t \in S, NEW prio \in [S -> Nat], t \notin Queued(s)
  PROVE  /\ SuspListEnqueue(s, t, "PRIO", prio) # <<>>
         /\ Head(SuspListEnqueue(s, t, "PRIO", prio))
              = IF s = <<>> \/ prio[t] < prio[Head(s)] THEN t ELSE Head(s)
         /\ ListRemove(SuspListEnqueue(s, t, "PRIO", prio), t) = s
<1> DEFINE A == {u \in S : prio[u] <= prio[t]}
           l == Len(s)
           n == CHOOSE k \in 0..l :
                  /\ \A i \in 1..k : "PRIO" = "FIFO" \/ prio[s[i]] <= prio[t]
                  /\ k = l \/ ~("PRIO" = "FIFO" \/ prio[s[k + 1]] <= prio[t])
           r == [i \in 1..(l + 1) |-> IF i <= n THEN s[i]
                                      ELSE IF i = n + 1 THEN t ELSE s[i - 1]]
<1>1. /\ n \in 0..l
      /\ \A i \in 1..n : prio[s[i]] <= prio[t]
      /\ n = l \/ ~(prio[s[n + 1]] <= prio[t])
  <2>1. PICK k \in 0..Len(s) : /\ \A i \in 1..k : s[i] \in A
                               /\ k = Len(s) \/ s[k + 1] \notin A
    <3> HIDE DEF A
    <3> QED BY PrefixExists
  <2>2. /\ \A i \in 1..k : "PRIO" = "FIFO" \/ prio[s[i]] <= prio[t]
        /\ k = Len(s) \/ ~("PRIO" = "FIFO" \/ prio[s[k + 1]] <= prio[t])
    <3>1. k = Len(s) \/ s[k + 1] \in S
      OBVIOUS
    <3> QED BY <2>1, <3>1
  <2> QED
    BY <2>2
<1>2. SuspListEnqueue(s, t, "PRIO", prio) = r
  BY DEF SuspListEnqueue
<1>3. l \in Nat /\ \A i \in 1..l : s[i] \in S /\ prio[s[i]] \in Nat /\ s[i] # t
  BY LenProperties, ElementOfSeq DEF Queued
<1>4. s = <<>> <=> l = 0
  OBVIOUS
<1>5. l # 0 => Head(s) = s[1]
  OBVIOUS
<1>6. s = [i \in 1..l |-> s[i]]
  OBVIOUS
<1> HIDE DEF l, n, A
<1>7. r \in Seq(S) /\ Len(r) = l + 1
  <2>1. r \in [1..(l + 1) -> S] /\ l + 1 \in Nat
    BY <1>1, <1>3
  <2> HIDE DEF r
  <2> QED
    BY <2>1, FunctionIsSeq
<1>8. \A i \in 1..(l + 1) : r[i] = IF i <= n THEN s[i] ELSE IF i = n + 1 THEN t ELSE s[i - 1]
  OBVIOUS
<1> HIDE DEF r
<1>9. r # <<>> /\ Head(r) = r[1]
  BY <1>3, <1>7
<1>10. r[1] = IF s = <<>> \/ prio[t] < prio[Head(s)] THEN t ELSE Head(s)
  <2>1. CASE n = 0
    <3>1. r[1] = t
      BY <1>3, <1>8, <2>1
    <3>2. l = 0 \/ ~(prio[s[1]] <= prio[t])
      BY <1>1, <2>1
    <3>3. l = 0 \/ (1 \in 1..l /\ prio[s[1]] \in Nat)
      BY <1>3
    <3> QED
      BY <1>4, <1>5, <3>1, <3>2, <3>3
  <2>2. CASE n # 0
    <3>1. 1 \in 1..n /\ 1 \in 1..l /\ 1 <= n /\ l # 0
      BY <1>1, <1>3, <2>2
    <3>2. r[1] = s[1] /\ prio[s[1]] <= prio[t] /\ prio[s[1]] \in Nat
      BY <1>1, <1>3, <1>8, <3>1
    <3> QED
      BY <1>4, <1>5, <3>1, <3>2
  <2> QED
    BY <2>1, <2>2
<1>11. ListRemove(r, t) = s
  <2> DEFINE where == {i \in 1..Len(r) : r[i] = t}
  <2>1. where = {n + 1}
    <3>1. n + 1 \in 1..(l + 1) /\ r[n + 1] = t
      BY <1>1, <1>3, <1>8
    <3>2. ASSUME NEW i \in 1..(l + 1), i # n + 1 PROVE r[i] # t
      <4>1. CASE i <= n
        <5>1. r[i] = s[i] /\ i \in 1..l
          BY <1>1, <1>3, <1>8, <4>1
        <5> QED
          BY <1>3, <5>1
      <4>2. CASE ~(i <= n)
        <5>1. r[i] = s[i - 1] /\ i - 1 \in 1..l
          BY <1>1, <1>3, <1>8, <3>2, <4>2
        <5> QED
          BY <1>3, <5>1
      <4> QED
        BY <4>1, <4>2
    <3> QED
      BY <1>7, <3>1, <3>2
  <2>2. ListRemove(r, t) = [i \in 1..(Len(r) - 1) |-> IF i < n + 1 THEN r[i] ELSE r[i + 1]]
    <3>1. (CHOOSE i \in {n + 1} : TRUE) = n + 1
      OBVIOUS
    <3> QED
      BY <2>1, <3>1 DEF ListRemove
  <2>3. Len(r) - 1 = l
    BY <1>3, <1>7
  <2>4. ASSUME NEW i \in 1..l PROVE (IF i < n + 1 THEN r[i] ELSE r[i + 1]) = s[i]
    <3>1. i \in 1..(l + 1) /\ i + 1 \in 1..(l + 1) /\ (i + 1) - 1 = i
      BY <1>3
    <3>2. i < n + 1 <=> i <= n
      BY <1>1, <1>3
    <3>3. ~(i <= n) => ~(i + 1 <= n) /\ i + 1 # n + 1
      BY <1>1, <1>3
    <3> QED
      BY <1>8, <3>1, <3>2, <3>3
  <2>5. [i \in 1..l |-> IF i < n + 1 THEN r[i] ELSE r[i + 1]] = [i \in 1..l |-> s[i]]
    BY <2>4
  <2> QED
    BY <1>6, <2>2, <2>3, <2>5
<1> QED
  BY <1>2, <1>9, <1>10, <1>11
===============================================================================

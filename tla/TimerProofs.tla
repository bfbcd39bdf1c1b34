------------------------------ MODULE TimerProofs ------------------------------
(***************************************************************************)
(* Proofs about Timer, for every number of timers, every width of the tick *)
(* and all times it allows.  timeout_tick says in wrapped numbers what the *)
(* history variable left says in plain ones; the invariant relates the two *)
(* and keeps the lists in the order of left.                               *)
(***************************************************************************)
EXTENDS Timer, ThreadLife, WaitListProofs, FiniteSetTheorems

-------------------------------------------------------------------------------
(* The arithmetic of ticks.                                                *)

(* Half the range, as the code computes it.                                *)
LEMMA Constants ==
  /\ RT_TICK_MAX \in Nat /\ Half \in Nat /\ Half > 1
  /\ Half + Half <= RT_TICK_MAX /\ RT_TICK_MAX <= Half + Half + 1
  /\ MaxLate \in Nat /\ MaxLate < Half
  /\ \A time \in Times : /\ time \in Nat /\ time > 0 /\ time < Half
                         /\ time + MaxLate <= RT_TICK_MAX + 1 - Half
  /\ NoTimer \notin Timers
<1>1. RT_TICK_MAX \in Nat /\ Half > 1
  BY TickAssumption
<1>2. /\ Half \in Nat
      /\ Half + Half <= RT_TICK_MAX /\ RT_TICK_MAX <= Half + Half + 1
  BY <1>1 DEF Half
<1>3. MaxLate \in Nat /\ MaxLate < Half
  BY <1>2, LateAssumption
<1>4. \A time \in Times : /\ time \in Nat /\ time > 0 /\ time < Half
                          /\ time + MaxLate <= RT_TICK_MAX + 1 - Half
  BY <1>2, LateAssumption, TimesAssumption
<1> QED
  BY <1>1, <1>2, <1>3, <1>4, TimersAssumption DEF Timers

(* Wrap, for numbers that are at most one range outside.                   *)
LEMMA WrapIs ==
  ASSUME NEW x \in Int, -(RT_TICK_MAX + 1) <= x, x < RT_TICK_MAX + 1 + RT_TICK_MAX + 1
  PROVE  Wrap(x) = IF x < 0 THEN x + RT_TICK_MAX + 1
                   ELSE IF x < RT_TICK_MAX + 1 THEN x
                   ELSE x - (RT_TICK_MAX + 1)
<1> DEFINE n == RT_TICK_MAX + 1
           d == x \div n
           r == x % n
<1>1. n \in Nat /\ n > 0
  BY Constants
<1> HIDE DEF n
<1>2. d \in Int /\ r \in 0..(n - 1) /\ x = n * d + r
  BY <1>1
<1> HIDE DEF d, r
<1>3. -n <= x /\ x < n + n
  BY Constants DEF n
<1>4. d >= -1 /\ d < 2
  BY <1>1, <1>2, <1>3
<1>5. d = -1 \/ d = 0 \/ d = 1
  BY <1>2, <1>4
<1>6. n * (-1) = -n /\ n * 0 = 0 /\ n * 1 = n
  BY <1>1
<1>7. r = IF x < 0 THEN x + n ELSE IF x < n THEN x ELSE x - n
  BY <1>1, <1>2, <1>5, <1>6
<1>8. Wrap(x) = r
  BY DEF Wrap, r, n
<1> QED
  BY <1>7, <1>8, Constants DEF n

(* The timeout of a timer with n ticks left, at tick now.                  *)
LEMMA TimeoutIs ==
  ASSUME NEW now \in 0..RT_TICK_MAX, NEW n \in (-MaxLate)..(Half - 1)
  PROVE  /\ Wrap(now + n) \in 0..RT_TICK_MAX
         /\ Wrap(now + n) = IF now + n < 0 THEN now + n + RT_TICK_MAX + 1
                            ELSE IF now + n < RT_TICK_MAX + 1 THEN now + n
                            ELSE now + n - (RT_TICK_MAX + 1)
<1>1. now + n \in Int /\ -(RT_TICK_MAX + 1) <= now + n
      /\ now + n < RT_TICK_MAX + 1 + RT_TICK_MAX + 1
  BY Constants
<1>2. Wrap(now + n) = IF now + n < 0 THEN now + n + RT_TICK_MAX + 1
                      ELSE IF now + n < RT_TICK_MAX + 1 THEN now + n
                      ELSE now + n - (RT_TICK_MAX + 1)
  <2> DEFINE x == now + n
  <2> HIDE DEF x
  <2>1. x \in Int /\ -(RT_TICK_MAX + 1) <= x /\ x < RT_TICK_MAX + 1 + RT_TICK_MAX + 1
    BY <1>1 DEF x
  <2>2. Wrap(x) = IF x < 0 THEN x + RT_TICK_MAX + 1
                  ELSE IF x < RT_TICK_MAX + 1 THEN x
                  ELSE x - (RT_TICK_MAX + 1)
    BY <2>1, WrapIs
  <2> QED
    BY <2>1, <2>2, Constants DEF x
<1> QED
  BY <1>2, Constants

(* A tick later there is one tick less left, and the timeout is the same.  *)
LEMMA TimeoutKept ==
  ASSUME NEW now \in 0..RT_TICK_MAX, NEW n \in (-MaxLate)..(Half - 1), n - 1 >= -MaxLate
  PROVE  /\ Wrap(now + 1) \in 0..RT_TICK_MAX
         /\ Wrap(now + 1) = IF now + 1 < RT_TICK_MAX + 1 THEN now + 1 ELSE 0
         /\ Wrap(Wrap(now + 1) + (n - 1)) = Wrap(now + n)
<1> DEFINE next == Wrap(now + 1)
           m == n - 1
<1>1. 1 \in (-MaxLate)..(Half - 1) /\ m \in (-MaxLate)..(Half - 1)
  BY Constants
<1>2. next \in 0..RT_TICK_MAX /\ next = IF now + 1 < RT_TICK_MAX + 1 THEN now + 1 ELSE 0
  BY <1>1, Constants, TimeoutIs
<1> HIDE DEF next
<1>3. Wrap(next + m) = IF next + m < 0 THEN next + m + RT_TICK_MAX + 1
                       ELSE IF next + m < RT_TICK_MAX + 1 THEN next + m
                       ELSE next + m - (RT_TICK_MAX + 1)
  <2> HIDE DEF m
  <2> QED
    BY <1>1, <1>2, TimeoutIs
<1>4. Wrap(now + n) = IF now + n < 0 THEN now + n + RT_TICK_MAX + 1
                      ELSE IF now + n < RT_TICK_MAX + 1 THEN now + n
                      ELSE now + n - (RT_TICK_MAX + 1)
  BY TimeoutIs
<1>5. Wrap(next + m) = Wrap(now + n)
  BY <1>1, <1>2, <1>3, <1>4, Constants
<1> QED
  BY <1>2, <1>5 DEF next

(* A timer is found due if and only if no tick is left.                    *)
LEMMA DueIs ==
  ASSUME NEW now \in 0..RT_TICK_MAX, NEW n \in (-MaxLate)..(Half - 1)
  PROVE  Wrap(now - Wrap(now + n)) < Half <=> n <= 0
<1> DEFINE w == Wrap(now + n)
           x == now - w
<1>1. w \in 0..RT_TICK_MAX
      /\ w = IF now + n < 0 THEN now + n + RT_TICK_MAX + 1
             ELSE IF now + n < RT_TICK_MAX + 1 THEN now + n
             ELSE now + n - (RT_TICK_MAX + 1)
  BY TimeoutIs
<1> HIDE DEF w
<1>2. /\ x \in Int /\ -(RT_TICK_MAX + 1) <= x /\ x < RT_TICK_MAX + 1 + RT_TICK_MAX + 1
      /\ x = -n \/ x = -n - (RT_TICK_MAX + 1) \/ x = -n + RT_TICK_MAX + 1
  BY <1>1, Constants
<1> HIDE DEF x
<1>3. Wrap(x) = IF x < 0 THEN x + RT_TICK_MAX + 1
                ELSE IF x < RT_TICK_MAX + 1 THEN x
                ELSE x - (RT_TICK_MAX + 1)
  BY <1>2, WrapIs
<1>4. Wrap(x) < Half <=> n <= 0
  BY <1>2, <1>3, Constants
<1> QED
  BY <1>4 DEF x, w

(* The comparison of _timer_start tells which of two timers has more ticks *)
(* left, if the new one does not come too long after an overdue one.       *)
LEMMA LaterIs ==
  ASSUME NEW now \in 0..RT_TICK_MAX, NEW n \in (-MaxLate)..(Half - 1),
         NEW m \in 0..(Half - 1), m + MaxLate <= RT_TICK_MAX + 1 - Half
  PROVE  Later(Wrap(now + n), Wrap(now + m)) <=> n > m
<1> DEFINE v == Wrap(now + n)
           w == Wrap(now + m)
           x == v - w
<1>1. v \in 0..RT_TICK_MAX
      /\ v = IF now + n < 0 THEN now + n + RT_TICK_MAX + 1
             ELSE IF now + n < RT_TICK_MAX + 1 THEN now + n
             ELSE now + n - (RT_TICK_MAX + 1)
  BY TimeoutIs
<1>2. w \in 0..RT_TICK_MAX
      /\ w = IF now + m < 0 THEN now + m + RT_TICK_MAX + 1
             ELSE IF now + m < RT_TICK_MAX + 1 THEN now + m
             ELSE now + m - (RT_TICK_MAX + 1)
  <2>1. m \in (-MaxLate)..(Half - 1)
    BY Constants
  <2> QED
    BY <2>1, TimeoutIs
<1> HIDE DEF v, w
<1>3. /\ x \in Int /\ -(RT_TICK_MAX + 1) <= x /\ x < RT_TICK_MAX + 1 + RT_TICK_MAX + 1
      /\ x = n - m \/ x = n - m - (RT_TICK_MAX + 1) \/ x = n - m + RT_TICK_MAX + 1
  BY <1>1, <1>2, Constants
<1> HIDE DEF x
<1>4. Wrap(x) = IF x < 0 THEN x + RT_TICK_MAX + 1
                ELSE IF x < RT_TICK_MAX + 1 THEN x
                ELSE x - (RT_TICK_MAX + 1)
  BY <1>3, WrapIs
<1>5. Wrap(x) # 0 /\ Wrap(x) < Half <=> n > m
  BY <1>3, <1>4, Constants
<1> QED
  BY <1>5 DEF Later, x, v, w

-------------------------------------------------------------------------------
(* The sorted insertion.                                                   *)

(* A new element that comes in front of the first with a greater key, as   *)
(* the comparison tells, keeps the list sorted.                            *)
LEMMA InsertProperties ==
  ASSUME NEW S, NEW l \in Seq(S), NEW t \in S, NEW timeout, NEW f \in [S -> Int],
         t \notin Queued(l), Unique(l), Sorted(l, f),
         \A u \in Queued(l) : Later(timeout_tick[u], timeout) <=> f[u] > f[t]
  PROVE  /\ Insert(l, t, timeout) \in Seq(S)
         /\ Queued(Insert(l, t, timeout)) = Queued(l) \cup {t}
         /\ Unique(Insert(l, t, timeout))
         /\ Sorted(Insert(l, t, timeout), f)
<1> DEFINE A == {u \in S : ~(f[u] > f[t])}
           before == {i \in 1..Len(l) : \A j \in 1..i : ~Later(timeout_tick[l[j]], timeout)}
<1>1. PICK n \in 0..Len(l) : /\ \A i \in 1..n : l[i] \in A
                             /\ n = Len(l) \/ l[n + 1] \notin A
  <2> HIDE DEF A
  <2> QED
    BY PrefixExists
<1>2. Len(l) \in Nat /\ n \in Nat /\ \A i \in 1..Len(l) : l[i] \in S /\ l[i] \in Queued(l)
  BY DEF Queued
<1>3. \A i \in 1..Len(l) : ~Later(timeout_tick[l[i]], timeout) <=> l[i] \in A
  BY <1>2
<1>4. before = 1..n
  <2>1. ASSUME NEW i \in 1..n PROVE i \in before
    <3> HIDE DEF A
    <3>1. i \in 1..Len(l) /\ \A j \in 1..i : j \in 1..n /\ j \in 1..Len(l)
      BY <1>2
    <3>2. \A j \in 1..i : l[j] \in A
      BY <1>1, <3>1
    <3> QED
      BY <1>3, <3>1, <3>2
  <2>2. ASSUME NEW i \in before PROVE i \in 1..n
    <3>1. CASE n = Len(l)
      BY <3>1
    <3>2. CASE n # Len(l)
      <4>1. n + 1 \in 1..Len(l) /\ Later(timeout_tick[l[n + 1]], timeout)
        BY <1>1, <1>2, <1>3, <3>2
      <4>2. ~(n + 1 \in 1..i)
        BY <4>1
      <4> QED
        BY <1>2, <4>2
    <3> QED
      BY <3>1, <3>2
  <2> QED
    BY <2>1, <2>2
<1>5. Cardinality(before) = n
  <2> HIDE DEF before
  <2>1. Cardinality(1..n) = n
    BY <1>2, FS_Interval
  <2> QED
    BY <1>4, <2>1
<1> DEFINE r == SubSeq(l, 1, n) \o <<t>> \o SubSeq(l, n + 1, Len(l))
<1>6. Insert(l, t, timeout) = r
  BY <1>5 DEF Insert
<1>7. /\ r \in Seq(S) /\ Len(r) = Len(l) + 1
      /\ \A i \in 1..n : r[i] = l[i]
      /\ r[n + 1] = t
      /\ \A i \in (n + 2)..(Len(l) + 1) : r[i] = l[i - 1]
  <2> DEFINE a == SubSeq(l, 1, n)
             b == SubSeq(l, n + 1, Len(l))
             c == a \o <<t>>
  <2>1. a \in Seq(S) /\ Len(a) = n /\ \A i \in 1..n : a[i] = l[i]
    BY <1>1, <1>2
  <2>2. b \in Seq(S) /\ Len(b) = Len(l) - n /\ \A i \in 1..(Len(l) - n) : b[i] = l[n + i]
    BY <1>1, <1>2
  <2> HIDE DEF a, b
  <2>3. /\ c \in Seq(S) /\ Len(c) = n + 1 /\ c[n + 1] = t
        /\ \A i \in 1..n : c[i] = l[i]
    <3> DEFINE d == <<t>>
    <3>1. d \in Seq(S) /\ Len(d) = 1 /\ d[1] = t
      OBVIOUS
    <3>2. c = a \o d
      OBVIOUS
    <3> HIDE DEF c, d
    <3>3. /\ c \in Seq(S) /\ Len(c) = Len(a) + Len(d)
          /\ \A i \in 1..(Len(a) + Len(d)) : c[i] = IF i <= Len(a) THEN a[i] ELSE d[i - Len(a)]
      BY <2>1, <3>1, <3>2, ConcatProperties
    <3>4. c[n + 1] = d[(n + 1) - n] /\ (n + 1) - n = 1
      BY <1>2, <2>1, <3>1, <3>3
    <3> QED
      BY <1>2, <2>1, <3>1, <3>3, <3>4
  <2>4. r = c \o b
    BY DEF a, b
  <2> HIDE DEF c, r
  <2>5. r \in Seq(S) /\ Len(r) = Len(l) + 1
    BY <1>2, <2>2, <2>3, <2>4
  <2>6. \A i \in 1..(n + 1) : r[i] = c[i]
    BY <1>2, <2>2, <2>3, <2>4
  <2>7. ASSUME NEW i \in (n + 2)..(Len(l) + 1) PROVE r[i] = l[i - 1]
    <3>1. i - (n + 1) \in 1..(Len(l) - n) /\ i \in 1..(Len(c) + Len(b)) /\ i > Len(c)
      <4>1. Len(c) = n + 1 /\ Len(b) = Len(l) - n
        BY <2>2, <2>3
      <4>2. i - (n + 1) \in 1..(Len(l) - n) /\ i \in 1..(Len(l) + 1) /\ i > n + 1
        BY <1>2
      <4>3. n + 1 + (Len(l) - n) = Len(l) + 1
        BY <1>2
      <4> QED
        BY <4>1, <4>2, <4>3
    <3>2. r[i] = b[i - (n + 1)]
      <4>1. \A k \in 1..(Len(c) + Len(b)) : r[k] = IF k <= Len(c) THEN c[k] ELSE b[k - Len(c)]
        BY <2>2, <2>3, <2>4, ConcatProperties
      <4> QED
        BY <1>2, <2>3, <3>1, <4>1
    <3>3. n + (i - (n + 1)) = i - 1
      BY <1>2
    <3> QED
      BY <2>2, <3>1, <3>2, <3>3
  <2> QED
    BY <1>2, <2>3, <2>5, <2>6, <2>7
<1> HIDE DEF r, before
<1>8. Queued(r) = Queued(l) \cup {t}
  <2>1. ASSUME NEW x \in Queued(r) PROVE x \in Queued(l) \cup {t}
    <3>1. PICK i \in 1..(Len(l) + 1) : x = r[i]
      BY <1>7 DEF Queued
    <3>2. CASE i \in 1..n
      <4>1. i \in 1..Len(l) /\ x = l[i]
        BY <1>2, <1>7, <3>1, <3>2
      <4> QED
        BY <1>2, <4>1
    <3>3. CASE i = n + 1
      BY <1>7, <3>1, <3>3
    <3>4. CASE i \in (n + 2)..(Len(l) + 1)
      <4>1. i - 1 \in 1..Len(l) /\ x = l[i - 1]
        BY <1>2, <1>7, <3>1, <3>4
      <4> QED
        BY <1>2, <4>1
    <3> QED
      BY <1>2, <3>2, <3>3, <3>4
  <2>2. ASSUME NEW x \in Queued(l) \cup {t} PROVE x \in Queued(r)
    <3>1. CASE x = t
      <4>1. n + 1 \in 1..Len(r) /\ r[n + 1] = x
        BY <1>2, <1>7, <3>1
      <4> QED
        BY <4>1 DEF Queued
    <3>2. CASE x \in Queued(l)
      <4>1. PICK i \in 1..Len(l) : x = l[i]
        BY <3>2 DEF Queued
      <4>2. CASE i <= n
        BY <1>2, <1>7, <4>1, <4>2 DEF Queued
      <4>3. CASE i > n
        <5>1. i + 1 \in (n + 2)..(Len(l) + 1) /\ (i + 1) - 1 = i /\ i + 1 \in 1..Len(r)
          BY <1>2, <1>7, <4>3
        <5>2. r[i + 1] = x
          BY <1>7, <4>1, <5>1
        <5> QED
          BY <5>1, <5>2 DEF Queued
      <4> QED
        BY <1>2, <4>2, <4>3
    <3> QED
      BY <3>1, <3>2
  <2> QED
    BY <2>1, <2>2
<1> DEFINE src(i) == IF i <= n THEN i ELSE i - 1
<1>9. ASSUME NEW i \in 1..Len(r), i # n + 1
      PROVE  src(i) \in 1..Len(l) /\ r[i] = l[src(i)]
  <2>1. i \in 1..n \/ i \in (n + 2)..(Len(l) + 1)
    BY <1>2, <1>7, <1>9
  <2> QED
    BY <1>2, <1>7, <2>1
<1>10. Unique(r)
  <2> SUFFICES ASSUME NEW i \in 1..Len(r), NEW j \in 1..Len(r), r[i] = r[j] PROVE i = j
    BY DEF Unique
  <2>1. CASE i = n + 1 \/ j = n + 1
    <3>1. \A k \in 1..Len(r) : k # n + 1 => r[k] \in Queued(l)
      <4> HIDE DEF src
      <4> QED
        BY <1>2, <1>9
    <3> QED
      BY <1>7, <2>1, <3>1
  <2>2. CASE i # n + 1 /\ j # n + 1
    <3>1. src(i) = src(j)
      <4> HIDE DEF src
      <4> QED
        BY <1>9, <2>2 DEF Unique
    <3>2. i \in Nat /\ j \in Nat
      BY <1>7
    <3>3. CASE i <= n
      BY <1>2, <2>2, <3>1, <3>2, <3>3
    <3>4. CASE i > n + 1
      BY <1>2, <2>2, <3>1, <3>2, <3>4
    <3> QED
      BY <1>2, <2>2, <3>2, <3>3, <3>4
  <2> QED
    BY <2>1, <2>2
<1>11. Sorted(r, f)
  <2> SUFFICES ASSUME NEW i \in 1..Len(r), NEW j \in 1..Len(r), i < j
               PROVE  f[r[i]] <= f[r[j]]
    BY DEF Sorted
  <2>1. f[t] \in Int /\ \A k \in 1..Len(l) : f[l[k]] \in Int
    BY <1>2
  <2>2. CASE i # n + 1 /\ j # n + 1
    <3>1. /\ src(i) \in 1..Len(l) /\ r[i] = l[src(i)]
          /\ src(j) \in 1..Len(l) /\ r[j] = l[src(j)]
      BY <1>9, <2>2
    <3>2. src(i) < src(j)
      <4>1. i \in Nat /\ j \in Nat /\ n \in Nat
        BY <1>2, <1>7
      <4> QED
        BY <2>2, <4>1
    <3> HIDE DEF src
    <3> QED
      BY <3>1, <3>2 DEF Sorted
  <2>3. CASE i = n + 1
    <3>1. j # n + 1 /\ src(j) \in 1..Len(l) /\ r[j] = l[src(j)] /\ src(j) >= n + 1
      BY <1>2, <1>7, <1>9, <2>3
    <3>2. n # Len(l)
      BY <1>2, <3>1
    <3>3. n + 1 \in 1..Len(l) /\ l[n + 1] \notin A
      BY <1>1, <1>2, <3>2
    <3>4. f[l[n + 1]] > f[t]
      BY <1>2, <3>3
    <3>5. f[l[n + 1]] <= f[l[src(j)]]
      <4> HIDE DEF src
      <4>1. CASE src(j) = n + 1
        BY <2>1, <3>1, <4>1
      <4>2. CASE src(j) # n + 1
        BY <1>2, <3>1, <3>3, <4>2 DEF Sorted
      <4> QED
        BY <4>1, <4>2
    <3> HIDE DEF src
    <3>6. r[i] = t /\ r[j] = l[src(j)] /\ f[l[n + 1]] \in Int /\ f[l[src(j)]] \in Int
      BY <1>7, <2>1, <2>3, <3>1, <3>3
    <3>7. f[t] <= f[l[src(j)]]
      BY <2>1, <3>4, <3>5, <3>6
    <3> QED
      BY <3>6, <3>7
  <2>4. CASE j = n + 1
    <3>1. i \in 1..n /\ i \in 1..Len(l) /\ r[i] = l[i] /\ l[i] \in A
      BY <1>1, <1>2, <1>7, <2>4
    <3> QED
      BY <1>7, <2>1, <2>4, <3>1
  <2> QED
    BY <2>2, <2>3, <2>4
<1> QED
  BY <1>6, <1>7, <1>8, <1>10, <1>11
-------------------------------------------------------------------------------
(* The invariant.                                                          *)

(* A timer on list k.                                                      *)
Listable(t, k) ==
  /\ Kind(t) = k /\ activated[t] = TRUE /\ stopped[t] = FALSE /\ init_tick[t] # 0
  /\ timeout_tick[t] = Wrap(tick + left[t])

(* A timer between the two halves of its start.  While it keeps the lock   *)
(* of the hard timers from the interrupt, that one does not end.           *)
Starting(t, k) ==
  /\ t \in Timers /\ Kind(t) = k /\ t \notin Queued(list[k])
  /\ stopped[t] = FALSE /\ init_tick[t] # 0
  /\ left[t] = init_tick[t] \/ left[t] = init_tick[t] - 1
  /\ timeout_tick[t] = Wrap(tick + left[t])
  /\ temp[k] = TRUE => cur[k] # t
  /\ k = "hard" /\ at["hard"] = "idle" => left[t] = init_tick[t]

(* A timer in its callback that nobody has touched meanwhile.              *)
Called(t, k) ==
  /\ t \in Timers /\ Kind(t) = k /\ t \notin Queued(list[k])
  /\ stopped[t] = FALSE /\ init_tick[t] # 0

KindInv(k) ==
  /\ Unique(list[k])
  /\ Sorted(list[k], left)
  /\ \A t \in Queued(list[k]) : Listable(t, k)
  /\ lock[k] # NoTimer => Starting(lock[k], k)
  /\ temp[k] = TRUE => Called(cur[k], k)

HardInv == at["hard"] = "idle" => \A t \in Queued(list["hard"]) : left[t] > 0

SoftInv == tick >= Half - 1 =>
             \A t \in Queued(list["soft"]) :
               left[t] < 0 => sem = 1 \/ at["soft"] \in {"check", "callback"}

Inv == TypeOK /\ (\A k \in Kinds : KindInv(k)) /\ HardInv /\ SoftInv

(* Nothing about the timers but t changes.                                 *)
Only(t) ==
  \A u \in Timers : u # t =>
    /\ activated'[u] = activated[u] /\ stopped'[u] = stopped[u]
    /\ init_tick'[u] = init_tick[u] /\ timeout_tick'[u] = timeout_tick[u]
    /\ left'[u] = left[u]

(* Timers on the lists are timers.                                         *)
LEMMA KindsOf ==
  /\ Kinds = {"hard", "soft"}
  /\ \A t \in Timers : Kind(t) \in Kinds
  /\ TypeOK => \A k \in Kinds : list[k] \in Seq(Timers) /\ Queued(list[k]) \subseteq Timers
BY DEF Kinds, Kind, TypeOK, Queued

(* Init.                                                                   *)
LEMMA InitHolds == Init => Inv
<1> SUFFICES ASSUME Init PROVE Inv
  OBVIOUS
<1>1. TypeOK
  <2>1. /\ tick \in 0..RT_TICK_MAX /\ init_tick \in [Timers -> Times \cup {0}]
        /\ timeout_tick \in [Timers -> 0..RT_TICK_MAX]
        /\ left \in [Timers -> (-MaxLate)..(Half - 1)]
    BY Constants DEF Init
  <2> QED
    BY <2>1 DEF Init, TypeOK, Kinds
<1>2. ASSUME NEW k \in Kinds PROVE list[k] = <<>> /\ Queued(list[k]) = {} /\ KindInv(k)
  <2>1. list[k] = <<>> /\ lock[k] = NoTimer /\ temp[k] = FALSE
    BY DEF Init
  <2>2. Queued(list[k]) = {} /\ Unique(list[k]) /\ Sorted(list[k], left)
    BY <2>1 DEF Queued, Unique, Sorted
  <2> QED
    BY <2>1, <2>2 DEF KindInv
<1> QED
  BY <1>1, <1>2 DEF Inv, HardInv, SoftInv, Kinds

(* A step of timer t leaves the other kind alone.                          *)
LEMMA OtherKind ==
  ASSUME Inv, NEW t \in Timers, Only(t), NEW k \in Kinds, k # Kind(t),
         list'[k] = list[k], lock'[k] = lock[k], temp'[k] = temp[k], cur'[k] = cur[k],
         tick' = tick, k = "hard" /\ at'["hard"] = "idle" => at["hard"] = "idle"
  PROVE  KindInv(k)' /\ \A u \in Queued(list[k]) : left'[u] = left[u]
<1>1. KindInv(k) /\ list[k] \in Seq(Timers) /\ Queued(list[k]) \subseteq Timers
  BY KindsOf DEF Inv
<1>2. ASSUME NEW u \in Queued(list[k]) PROVE u # t /\ left'[u] = left[u] /\ Listable(u, k)'
  <2>1. u # t /\ u \in Timers
    BY <1>1 DEF KindInv, Listable
  <2> QED
    BY <1>1, <2>1 DEF KindInv, Listable, Only
<1>3. Sorted(list'[k], left')
  BY <1>1, <1>2, SortedSame DEF KindInv
<1>4. lock'[k] # NoTimer => Starting(lock[k], k)'
  <2>1. SUFFICES ASSUME lock[k] # NoTimer PROVE Starting(lock[k], k)'
    OBVIOUS
  <2>2. Starting(lock[k], k) /\ lock[k] # t
    BY <1>1, <2>1 DEF KindInv, Starting
  <2> QED
    BY <2>2 DEF Starting, Only
<1>5. temp'[k] = TRUE => Called(cur[k], k)'
  <2>1. SUFFICES ASSUME temp[k] = TRUE PROVE Called(cur[k], k)'
    OBVIOUS
  <2>2. Called(cur[k], k) /\ cur[k] # t
    BY <1>1, <2>1 DEF KindInv, Called
  <2> QED
    BY <2>2 DEF Called, Only
<1> QED
  BY <1>1, <1>2, <1>3, <1>4, <1>5 DEF KindInv
-------------------------------------------------------------------------------
(* The calls.                                                              *)

(* A step of timer t that leaves the interrupt, the thread, the lists and  *)
(* the tick as they are keeps what is said about ticks left, if it keeps   *)
(* the ticks that the timers on the lists have left.                       *)
LEMMA ChecksKept ==
  ASSUME Inv, TypeOK', UNCHANGED <<tick, at, sem>>,
         \A k \in Kinds : \A u \in Queued(list'[k]) :
           \/ u \in Queued(list[k]) /\ left'[u] = left[u]
           \/ left'[u] > 0
  PROVE  HardInv' /\ SoftInv'
<1>1. /\ "hard" \in Kinds /\ "soft" \in Kinds
      /\ \A k \in Kinds : Queued(list'[k]) \subseteq Timers
  <2>1. \A k \in Kinds : list'[k] \in Seq(Timers)
    BY DEF TypeOK
  <2>2. \A s \in Seq(Timers) : Queued(s) \subseteq Timers
    BY DEF Queued
  <2> QED
    BY <2>1, <2>2 DEF Kinds
<1>2. left' \in [Timers -> Int]
  BY Constants DEF TypeOK
<1>3. HardInv'
  BY <1>1, <1>2 DEF Inv, HardInv
<1>4. SoftInv'
  BY <1>1, <1>2 DEF Inv, SoftInv
<1> QED
  BY <1>3, <1>4

(* _timer_remove on a timer whose list is not locked.                      *)
LEMMA RemoveKeeps ==
  ASSUME Inv, NEW t \in Timers, lock[Kind(t)] = NoTimer, Remove(t), Only(t),
         UNCHANGED <<tick, cur>>
  PROVE  /\ list' \in [Kinds -> Seq(Timers)] /\ temp' \in [Kinds -> BOOLEAN]
         /\ \A k \in Kinds : k # Kind(t) => list'[k] = list[k] /\ temp'[k] = temp[k]
         /\ Queued(list'[Kind(t)]) = Queued(list[Kind(t)]) \ {t}
         /\ Unique(list'[Kind(t)]) /\ Sorted(list'[Kind(t)], left')
         /\ \A u \in Queued(list'[Kind(t)]) : Listable(u, Kind(t))' /\ left'[u] = left[u]
         /\ temp'[Kind(t)] = TRUE => Called(cur[Kind(t)], Kind(t))' /\ cur[Kind(t)] # t
<1> DEFINE k == Kind(t)
<1>1. /\ k \in Kinds /\ KindInv(k) /\ list[k] \in Seq(Timers) /\ Queued(list[k]) \subseteq Timers
      /\ list \in [Kinds -> Seq(Timers)] /\ temp \in [Kinds -> BOOLEAN]
  BY KindsOf DEF Inv, TypeOK
<1>2. /\ list' = [list EXCEPT ![k] = ListRemove(list[k], t)]
      /\ temp' = [temp EXCEPT ![k] = temp[k] /\ cur[k] # t]
  BY DEF Remove, Without
<1> HIDE DEF k
<1>3. /\ ListRemove(list[k], t) \in Seq(Timers)
      /\ Queued(ListRemove(list[k], t)) = Queued(list[k]) \ {t}
      /\ Unique(ListRemove(list[k], t))
      /\ Sorted(ListRemove(list[k], t), left)
  BY <1>1, ListRemoveProperties, SortedRemove DEF KindInv
<1>4. /\ list' \in [Kinds -> Seq(Timers)] /\ list'[k] = ListRemove(list[k], t)
      /\ \A j \in Kinds : j # k => list'[j] = list[j]
  BY <1>1, <1>2, <1>3
<1>5. temp' \in [Kinds -> BOOLEAN] /\ \A j \in Kinds : j # k => temp'[j] = temp[j]
  BY <1>1, <1>2
<1>6. ASSUME NEW u \in Queued(list'[k]) PROVE Listable(u, k)' /\ left'[u] = left[u]
  <2>1. u \in Queued(list[k]) /\ u # t /\ u \in Timers
    BY <1>1, <1>3, <1>4
  <2> QED
    BY <1>1, <2>1 DEF KindInv, Listable, Only
<1>7. Sorted(list'[k], left')
  BY <1>3, <1>4, <1>6, SortedSame
<1>8. temp'[k] = TRUE => Called(cur[k], k)' /\ cur[k] # t
  <2>1. SUFFICES ASSUME temp'[k] = TRUE PROVE Called(cur[k], k)' /\ cur[k] # t
    OBVIOUS
  <2>2. temp[k] = TRUE /\ cur[k] # t
    BY <1>1, <1>2, <2>1
  <2>3. Called(cur[k], k)
    BY <1>1, <2>2 DEF KindInv
  <2> QED
    BY <1>3, <1>4, <2>2, <2>3 DEF Called, Only
<1> QED
  BY <1>3, <1>4, <1>5, <1>6, <1>7, <1>8 DEF k

(* The first half of rt_timer_start.                                       *)
LEMMA StartKeeps ==
  ASSUME Inv, NEW t \in Timers, Start(t)
  PROVE  Inv'
<1> DEFINE k == Kind(t)
<1>1. /\ k \in Kinds /\ TypeOK /\ lock[k] = NoTimer /\ init_tick[t] # 0 /\ Remove(t)
      /\ UNCHANGED <<tick, periodic, init_tick, at, cur, sem>>
      /\ lock' = [lock EXCEPT ![k] = t] /\ activated' = [activated EXCEPT ![t] = FALSE]
      /\ timeout_tick' = [timeout_tick EXCEPT ![t] = Wrap(tick + init_tick[t])]
      /\ left' = [left EXCEPT ![t] = init_tick[t]] /\ stopped' = [stopped EXCEPT ![t] = FALSE]
  BY KindsOf DEF Inv, Start, Locked
<1>2. Only(t)
  BY <1>1 DEF Only, TypeOK
<1>3. /\ list' \in [Kinds -> Seq(Timers)] /\ temp' \in [Kinds -> BOOLEAN]
      /\ \A j \in Kinds : j # k => list'[j] = list[j] /\ temp'[j] = temp[j]
      /\ Queued(list'[k]) = Queued(list[k]) \ {t}
      /\ Unique(list'[k]) /\ Sorted(list'[k], left')
      /\ \A u \in Queued(list'[k]) : Listable(u, k)' /\ left'[u] = left[u]
      /\ temp'[k] = TRUE => Called(cur[k], k)' /\ cur[k] # t
  BY <1>1, <1>2, RemoveKeeps
<1> HIDE DEF k
<1>4. init_tick[t] \in Times /\ init_tick[t] \in (-MaxLate)..(Half - 1) /\ tick \in 0..RT_TICK_MAX
  BY <1>1, Constants DEF TypeOK
<1>5. Wrap(tick + init_tick[t]) \in 0..RT_TICK_MAX
  BY <1>4, TimeoutIs
<1>6. TypeOK'
  BY <1>1, <1>3, <1>4, <1>5 DEF TypeOK
<1>7. Starting(t, k)' /\ lock'[k] = t
  BY <1>1, <1>3 DEF Starting, TypeOK, k
<1>8. KindInv(k)'
  BY <1>1, <1>3, <1>7 DEF KindInv
<1>9. ASSUME NEW j \in Kinds, j # k PROVE KindInv(j)' /\ \A u \in Queued(list[j]) : left'[u] = left[u]
  <2>1. lock'[j] = lock[j] /\ list'[j] = list[j] /\ temp'[j] = temp[j]
    BY <1>1, <1>3, <1>9 DEF TypeOK
  <2> QED
    BY <1>1, <1>2, <1>9, <2>1, OtherKind DEF k
<1>10. HardInv' /\ SoftInv'
  <2>1. ASSUME NEW j \in Kinds, NEW u \in Queued(list'[j])
        PROVE  u \in Queued(list[j]) /\ left'[u] = left[u]
    BY <1>3, <1>9
  <2> QED
    BY <1>1, <1>6, <2>1, ChecksKept
<1> QED
  BY <1>6, <1>8, <1>9, <1>10 DEF Inv

(* rt_timer_stop, rt_timer_detach, rt_timer_delete, and a new time for an  *)
(* active timer.                                                           *)
LEMMA DeactivateKeeps ==
  ASSUME Inv, NEW t \in Timers, Locked(t), Deactivate(t),
         NEW time \in Times \cup {0}, init_tick' = [init_tick EXCEPT ![t] = time]
  PROVE  Inv'
<1> DEFINE k == Kind(t)
<1>1. /\ k \in Kinds /\ TypeOK /\ lock[k] = NoTimer /\ Remove(t)
      /\ UNCHANGED <<tick, lock, periodic, at, cur, sem>>
      /\ activated' = [activated EXCEPT ![t] = FALSE]
      /\ timeout_tick' = [timeout_tick EXCEPT ![t] = 0]
      /\ left' = [left EXCEPT ![t] = 0] /\ stopped' = [stopped EXCEPT ![t] = TRUE]
  BY KindsOf DEF Inv, Deactivate, Forget, Locked
<1>2. Only(t)
  BY <1>1 DEF Only, TypeOK
<1>3. /\ list' \in [Kinds -> Seq(Timers)] /\ temp' \in [Kinds -> BOOLEAN]
      /\ \A j \in Kinds : j # k => list'[j] = list[j] /\ temp'[j] = temp[j]
      /\ Queued(list'[k]) = Queued(list[k]) \ {t}
      /\ Unique(list'[k]) /\ Sorted(list'[k], left')
      /\ \A u \in Queued(list'[k]) : Listable(u, k)' /\ left'[u] = left[u]
      /\ temp'[k] = TRUE => Called(cur[k], k)' /\ cur[k] # t
  BY <1>1, <1>2, RemoveKeeps
<1> HIDE DEF k
<1>4. 0 \in 0..RT_TICK_MAX /\ 0 \in (-MaxLate)..(Half - 1)
  BY Constants
<1>5. TypeOK'
  BY <1>1, <1>3, <1>4 DEF TypeOK
<1>6. KindInv(k)'
  BY <1>1, <1>3 DEF KindInv
<1>7. ASSUME NEW j \in Kinds, j # k PROVE KindInv(j)' /\ \A u \in Queued(list[j]) : left'[u] = left[u]
  <2>1. lock'[j] = lock[j] /\ list'[j] = list[j] /\ temp'[j] = temp[j]
    BY <1>1, <1>3, <1>7
  <2> QED
    BY <1>1, <1>2, <1>7, <2>1, OtherKind DEF k
<1>8. HardInv' /\ SoftInv'
  <2>1. ASSUME NEW j \in Kinds, NEW u \in Queued(list'[j])
        PROVE  u \in Queued(list[j]) /\ left'[u] = left[u]
    BY <1>3, <1>7
  <2> QED
    BY <1>1, <1>5, <2>1, ChecksKept
<1> QED
  BY <1>5, <1>6, <1>7, <1>8 DEF Inv

(* Calls that change no list: rt_timer_init, and control of a timer that   *)
(* is not active.                                                          *)
LEMMA SetKeeps ==
  ASSUME Inv, NEW t \in Timers, NEW time \in Times,
         UNCHANGED <<tick, list, lock, activated, timeout_tick, checkVars, left, stopped>>,
         periodic' \in [Timers -> BOOLEAN],
         \/ init_tick' = init_tick
         \/ /\ init_tick' = [init_tick EXCEPT ![t] = time]
            /\ init_tick[t] = 0 \/ (lock[Kind(t)] = NoTimer /\ activated[t] = FALSE)
  PROVE  Inv'
<1>1. UNCHANGED <<at, cur, temp, sem>> /\ TypeOK
  BY DEF Inv, checkVars
<1>2. TypeOK'
  BY <1>1 DEF TypeOK
<1>3. ASSUME NEW k \in Kinds PROVE KindInv(k)'
  <2>1. KindInv(k) /\ Queued(list[k]) \subseteq Timers /\ time # 0
    BY <1>1, KindsOf, Constants DEF Inv
  <2>2. ASSUME NEW u \in Timers, init_tick[u] # 0 PROVE init_tick'[u] # 0
    BY <1>1, <2>1, <2>2 DEF TypeOK
  <2>3. ASSUME NEW u \in Queued(list[k]) PROVE Listable(u, k)'
    BY <1>1, <2>1, <2>2 DEF KindInv, Listable
  <2>4. ASSUME lock[k] # NoTimer PROVE Starting(lock[k], k)'
    <3>1. Starting(lock[k], k)
      BY <2>1, <2>4 DEF KindInv
    <3>2. init_tick'[lock[k]] = init_tick[lock[k]]
      BY <1>1, <2>4, <3>1 DEF Starting, TypeOK
    <3> QED
      BY <1>1, <3>1, <3>2 DEF Starting
  <2>5. ASSUME temp[k] = TRUE PROVE Called(cur[k], k)'
    <3>1. Called(cur[k], k)
      BY <2>1, <2>5 DEF KindInv
    <3> QED
      BY <1>1, <2>2, <3>1 DEF Called
  <2> QED
    BY <1>1, <2>1, <2>3, <2>4, <2>5 DEF KindInv
<1>4. HardInv' /\ SoftInv'
  BY <1>1 DEF Inv, HardInv, SoftInv
<1> QED
  BY <1>2, <1>3, <1>4 DEF Inv

(* The second half of rt_timer_start.                                      *)
LEMMA StartInsertKeeps ==
  ASSUME Inv, NEW t \in Timers, StartInsert(t)
  PROVE  Inv'
<1> DEFINE k == Kind(t)
           new == Insert(list[k], t, timeout_tick[t])
<1>1. /\ k \in Kinds /\ TypeOK /\ lock[k] = t /\ lock' = [lock EXCEPT ![k] = NoTimer]
      /\ list' = [list EXCEPT ![k] = new]
      /\ activated' = [activated EXCEPT ![t] = TRUE]
      /\ UNCHANGED <<tick, periodic, init_tick, timeout_tick, at, cur, temp, sem, left, stopped>>
  BY KindsOf DEF Inv, StartInsert, checkVars
<1>2. /\ KindInv(k) /\ Starting(t, k) /\ list[k] \in Seq(Timers)
      /\ Queued(list[k]) \subseteq Timers
  BY <1>1, KindsOf, Constants DEF Inv, KindInv
<1>3. /\ left \in [Timers -> Int] /\ tick \in 0..RT_TICK_MAX /\ left[t] \in 0..(Half - 1)
      /\ left[t] + MaxLate <= RT_TICK_MAX + 1 - Half
      /\ \A u \in Timers : left[u] \in (-MaxLate)..(Half - 1)
  BY <1>1, <1>2, Constants DEF Starting, TypeOK
<1>4. ASSUME NEW u \in Queued(list[k])
      PROVE  Later(timeout_tick[u], timeout_tick[t]) <=> left[u] > left[t]
  <2>1. timeout_tick[u] = Wrap(tick + left[u]) /\ timeout_tick[t] = Wrap(tick + left[t])
    BY <1>2 DEF KindInv, Listable, Starting
  <2>2. u \in Timers
    BY <1>2
  <2>3. Later(Wrap(tick + left[u]), Wrap(tick + left[t])) <=> left[u] > left[t]
    BY <1>3, <2>2, LaterIs
  <2> QED
    BY <2>1, <2>3
<1> HIDE DEF k
<1>5. /\ new \in Seq(Timers) /\ Queued(new) = Queued(list[k]) \cup {t}
      /\ Unique(new) /\ Sorted(new, left)
  <2> DEFINE l == list[k]
             timeout == timeout_tick[t]
  <2>1. /\ l \in Seq(Timers) /\ t \notin Queued(l) /\ Unique(l) /\ Sorted(l, left)
        /\ left \in [Timers -> Int]
    BY <1>2, <1>3 DEF KindInv, Starting
  <2>2. \A u \in Queued(l) : Later(timeout_tick[u], timeout) <=> left[u] > left[t]
    BY <1>4
  <2> HIDE DEF l, timeout
  <2>3. /\ Insert(l, t, timeout) \in Seq(Timers)
        /\ Queued(Insert(l, t, timeout)) = Queued(l) \cup {t}
        /\ Unique(Insert(l, t, timeout))
        /\ Sorted(Insert(l, t, timeout), left)
    BY <2>1, <2>2, InsertProperties
  <2> QED
    BY <2>3 DEF l, timeout
<1> HIDE DEF new
<1>6. /\ list' \in [Kinds -> Seq(Timers)] /\ list'[k] = new /\ lock'[k] = NoTimer
      /\ \A j \in Kinds : j # k => list'[j] = list[j] /\ lock'[j] = lock[j]
  BY <1>1, <1>5 DEF TypeOK
<1>7. TypeOK'
  BY <1>1, <1>6 DEF TypeOK
<1>8. KindInv(k)'
  <2>1. ASSUME NEW u \in Queued(new) PROVE Listable(u, k)'
    <3>1. CASE u = t
      BY <1>1, <1>2, <3>1 DEF Starting, Listable, TypeOK
    <3>2. CASE u # t
      BY <1>1, <1>2, <1>5, <3>2 DEF KindInv, Listable, TypeOK
    <3> QED
      BY <3>1, <3>2
  <2>2. temp[k] = TRUE => Called(cur[k], k)'
    BY <1>1, <1>2, <1>5, <1>6 DEF KindInv, Called, Starting
  <2> QED
    BY <1>1, <1>5, <1>6, <2>1, <2>2 DEF KindInv
<1>9. ASSUME NEW j \in Kinds, j # k PROVE KindInv(j)'
  <2>1. Only(t)
    BY <1>1 DEF Only, TypeOK
  <2> QED
    BY <1>1, <1>6, <1>9, <2>1, OtherKind DEF k
<1>10. HardInv'
  <2>1. k = "hard" /\ at["hard"] = "idle" => left[t] > 0
    BY <1>1, <1>2, Constants DEF Starting, TypeOK
  <2>2. \A u \in Queued(list'["hard"]) : u \in Queued(list["hard"]) \/ (u = t /\ k = "hard")
    BY <1>5, <1>6 DEF Kinds
  <2> QED
    BY <1>1, <2>1, <2>2 DEF Inv, HardInv
<1>11. SoftInv'
  <2>1. \A u \in Queued(list'["soft"]) : u \in Queued(list["soft"]) \/ u = t
    BY <1>5, <1>6 DEF Kinds
  <2> QED
    BY <1>1, <1>3, <2>1 DEF Inv, SoftInv
<1> QED
  BY <1>7, <1>8, <1>9, <1>10, <1>11 DEF Inv

-------------------------------------------------------------------------------
(* The interrupt and the timer thread.                                     *)

(* A timer is due exactly when it has no tick left.                        *)
LEMMA HeadDueIs ==
  ASSUME Inv, NEW k \in Kinds, list[k] # <<>>
  PROVE  /\ Head(list[k]) \in Queued(list[k]) /\ Head(list[k]) \in Timers
         /\ HeadDue(k) <=> left[Head(list[k])] <= 0
         /\ \A u \in Queued(list[k]) : left[Head(list[k])] <= left[u]
<1> DEFINE h == Head(list[k])
<1>1. /\ TypeOK /\ KindInv(k) /\ list[k] \in Seq(Timers) /\ Queued(list[k]) \subseteq Timers
  BY KindsOf DEF Inv
<1>2. left \in [Timers -> Int]
  BY <1>1, Constants DEF TypeOK
<1>3. h \in Queued(list[k]) /\ \A u \in Queued(list[k]) : left[h] <= left[u]
  BY <1>1, <1>2, TailProperties, SortedTail DEF KindInv
<1>4. h \in Timers /\ timeout_tick[h] = Wrap(tick + left[h])
  BY <1>1, <1>3 DEF KindInv, Listable
<1> HIDE DEF h
<1>5. Wrap(tick - Wrap(tick + left[h])) < Half <=> left[h] <= 0
  BY <1>1, <1>4, DueIs DEF TypeOK
<1> QED
  BY <1>3, <1>4, <1>5 DEF HeadDue, Due, h

(* A callback is about to be called.                                       *)
LEMMA ExpireKeeps ==
  ASSUME Inv, NEW k \in Kinds, Expire(k)
  PROVE  Inv'
<1>0. PICK t \in Timers : t = Head(list[k])
  BY HeadDueIs DEF Expire, HeadDue
<1>1. /\ TypeOK /\ KindInv(k) /\ lock[k] = NoTimer /\ list[k] # <<>>
      /\ list[k] \in Seq(Timers) /\ Queued(list[k]) \subseteq Timers
      /\ list' = [list EXCEPT ![k] = Tail(list[k])]
      /\ activated' = [activated EXCEPT ![t] = periodic[t]]
      /\ at' = [at EXCEPT ![k] = "callback"] /\ cur' = [cur EXCEPT ![k] = t]
      /\ temp' = [temp EXCEPT ![k] = TRUE]
      /\ timeout_tick' = [timeout_tick EXCEPT ![t] = 0] /\ left' = [left EXCEPT ![t] = 0]
      /\ UNCHANGED <<tick, lock, periodic, init_tick, sem, stopped>>
  BY <1>0, KindsOf DEF Inv, Expire, AtCheck, HeadDue, Forget
<1>2. t \in Queued(list[k]) /\ t \in Timers /\ Listable(t, k)
  BY <1>0, <1>1, HeadDueIs DEF KindInv
<1>3. /\ Tail(list[k]) \in Seq(Timers) /\ Queued(Tail(list[k])) = Queued(list[k]) \ {t}
      /\ Unique(Tail(list[k])) /\ Sorted(Tail(list[k]), left)
  <2>1. left \in [Timers -> Int]
    BY <1>1, Constants DEF TypeOK
  <2> QED
    BY <1>0, <1>1, <2>1, TailProperties, SortedTail DEF KindInv
<1>4. /\ list' \in [Kinds -> Seq(Timers)] /\ list'[k] = Tail(list[k])
      /\ temp'[k] = TRUE /\ cur'[k] = t /\ at'[k] = "callback"
      /\ \A j \in Kinds : j # k => /\ list'[j] = list[j] /\ temp'[j] = temp[j]
                                   /\ cur'[j] = cur[j] /\ at'[j] = at[j]
  BY <1>1, <1>3 DEF TypeOK
<1>5. TypeOK'
  <2>1. 0 \in 0..RT_TICK_MAX /\ 0 \in (-MaxLate)..(Half - 1)
    BY Constants
  <2> QED
    BY <1>1, <1>2, <1>4, <2>1 DEF TypeOK
<1>6. Only(t)
  BY <1>1 DEF Only, TypeOK
<1>7. KindInv(k)'
  <2>1. ASSUME NEW u \in Queued(list'[k]) PROVE Listable(u, k)' /\ left'[u] = left[u]
    <3>1. u \in Queued(list[k]) /\ u # t /\ u \in Timers
      BY <1>1, <1>3, <1>4
    <3> QED
      BY <1>1, <1>6, <3>1 DEF KindInv, Listable, Only
  <2>2. Sorted(list'[k], left')
    <3>1. Sorted(list'[k], left) /\ list'[k] \in Seq(Timers)
      BY <1>3, <1>4
    <3> QED
      BY <2>1, <3>1, SortedSame
  <2>3. Called(t, k)'
    BY <1>1, <1>2, <1>3, <1>4 DEF Called, Listable
  <2> QED
    BY <1>1, <1>3, <1>4, <2>1, <2>2, <2>3 DEF KindInv
<1>8. ASSUME NEW j \in Kinds, j # k PROVE KindInv(j)' /\ \A u \in Queued(list[j]) : left'[u] = left[u]
  <2>1. j # Kind(t)
    BY <1>2, <1>8 DEF Listable
  <2>2. /\ list'[j] = list[j] /\ lock'[j] = lock[j] /\ temp'[j] = temp[j] /\ cur'[j] = cur[j]
        /\ tick' = tick /\ at'[j] = at[j]
    BY <1>1, <1>4, <1>8
  <2> QED
    BY <1>6, <2>1, <2>2, OtherKind
<1>9. HardInv'
  <2>1. CASE k = "hard"
    BY <1>4, <2>1 DEF HardInv
  <2>2. CASE k # "hard"
    BY <1>4, <1>8, <2>2, KindsOf DEF Inv, HardInv
  <2> QED
    BY <2>1, <2>2
<1>10. SoftInv'
  <2>1. CASE k = "soft"
    BY <1>4, <2>1 DEF SoftInv
  <2>2. CASE k # "soft"
    BY <1>1, <1>4, <1>8, <2>2, KindsOf DEF Inv, SoftInv
  <2> QED
    BY <2>1, <2>2
<1> QED
  BY <1>5, <1>7, <1>8, <1>9, <1>10 DEF Inv

(* Nothing more is due.                                                    *)
LEMMA CheckDoneKeeps ==
  ASSUME Inv, NEW k \in Kinds, CheckDone(k)
  PROVE  Inv'
<1> DEFINE to == IF k = "hard" THEN "idle" ELSE "take"
<1>1. /\ TypeOK /\ lock[k] = NoTimer /\ ~HeadDue(k)
      /\ at' = [at EXCEPT ![k] = to]
      /\ UNCHANGED <<tick, list, lock, activated, periodic, init_tick, timeout_tick,
                     cur, temp, sem, left, stopped>>
  BY DEF Inv, CheckDone, AtCheck, flagVars
<1>2. to \in {"idle", "check", "callback", "take"}
  OBVIOUS
<1> HIDE DEF to
<1>3. TypeOK' /\ \A j \in Kinds : j # k => at'[j] = at[j]
  BY <1>1, <1>2 DEF TypeOK
<1>4. \A u \in Queued(list[k]) : left[u] > 0
  <2>1. CASE list[k] = <<>>
    BY <2>1 DEF Queued
  <2>2. CASE list[k] # <<>>
    <3>1. /\ Head(list[k]) \in Timers /\ ~(left[Head(list[k])] <= 0)
          /\ \A u \in Queued(list[k]) : left[Head(list[k])] <= left[u]
      BY <1>1, <2>2, HeadDueIs
    <3>2. Queued(list[k]) \subseteq Timers /\ left \in [Timers -> Int]
      BY <1>1, KindsOf, Constants DEF TypeOK
    <3>3. ASSUME NEW u \in Queued(list[k]) PROVE left[u] > 0
      <4>1. left[u] \in Int /\ left[Head(list[k])] \in Int
        BY <3>1, <3>2
      <4>2. left[Head(list[k])] <= left[u]
        BY <3>1
      <4> QED
        BY <3>1, <4>1, <4>2
    <3> QED
      BY <3>3
  <2> QED
    BY <2>1, <2>2
<1>5. ASSUME NEW j \in Kinds PROVE KindInv(j)'
  <2>1. KindInv(j)
    BY DEF Inv
  <2>2. ASSUME lock[j] # NoTimer PROVE Starting(lock[j], j)'
    <3>1. Starting(lock[j], j) /\ at'[j] = at[j]
      BY <1>1, <1>3, <2>1, <2>2 DEF KindInv
    <3> QED
      BY <1>1, <3>1 DEF Starting
  <2> QED
    BY <1>1, <2>1, <2>2 DEF KindInv, Listable, Called
<1>6. HardInv'
  BY <1>1, <1>3, <1>4, KindsOf DEF Inv, HardInv
<1>7. SoftInv'
  <2>1. CASE k = "soft"
    <3>1. \A u \in Queued(list["soft"]) : ~(left[u] < 0)
      <4>1. Queued(list[k]) \subseteq Timers /\ left \in [Timers -> Int]
        BY <1>1, KindsOf, Constants DEF TypeOK
      <4>2. ASSUME NEW u \in Queued(list[k]) PROVE ~(left[u] < 0)
        <5>1. left[u] \in Int /\ left[u] > 0
          BY <1>4, <4>1
        <5> QED
          BY <5>1
      <4> QED
        BY <2>1, <4>2
    <3> QED
      BY <1>1, <3>1 DEF SoftInv
  <2>2. CASE k # "soft"
    BY <1>1, <1>3, <2>2, KindsOf DEF Inv, SoftInv
  <2> QED
    BY <2>1, <2>2
<1> QED
  BY <1>3, <1>5, <1>6, <1>7 DEF Inv

(* The timer thread takes the semaphore.                                   *)
LEMMA TakeKeeps ==
  ASSUME Inv, Take
  PROVE  Inv'
<1>1. /\ TypeOK /\ sem' = 0 /\ at' = [at EXCEPT !["soft"] = "check"]
      /\ UNCHANGED <<tick, list, lock, activated, periodic, init_tick, timeout_tick,
                     cur, temp, left, stopped>>
  BY DEF Inv, Take, flagVars
<1>2. TypeOK' /\ at'["soft"] = "check" /\ at'["hard"] = at["hard"]
  BY <1>1, KindsOf DEF TypeOK
<1>3. ASSUME NEW j \in Kinds PROVE KindInv(j)'
  BY <1>1, <1>2 DEF Inv, KindInv, Listable, Called, Starting
<1>4. HardInv' /\ SoftInv'
  BY <1>1, <1>2 DEF Inv, HardInv, SoftInv
<1> QED
  BY <1>2, <1>3, <1>4 DEF Inv

(* Back from a callback, the timer is put on its list again, if it is      *)
(* periodic and nobody has touched it meanwhile.                           *)
LEMMA CallbackReturnKeeps ==
  ASSUME Inv, NEW k \in Kinds, CallbackReturn(k)
  PROVE  Inv'
<1>1. /\ TypeOK /\ KindInv(k) /\ lock[k] = NoTimer
      /\ list[k] \in Seq(Timers) /\ Queued(list[k]) \subseteq Timers
      /\ at' = [at EXCEPT ![k] = "check"] /\ cur' = [cur EXCEPT ![k] = NoTimer]
      /\ temp' = [temp EXCEPT ![k] = FALSE]
      /\ UNCHANGED <<tick, lock, periodic, init_tick, sem, stopped>>
  BY KindsOf DEF Inv, CallbackReturn
<1>2. /\ temp'[k] = FALSE /\ at'[k] = "check"
      /\ \A j \in Kinds : j # k => temp'[j] = temp[j] /\ cur'[j] = cur[j] /\ at'[j] = at[j]
      /\ at' \in [Kinds -> {"idle", "check", "callback", "take"}]
      /\ cur' \in [Kinds -> Timers \cup {NoTimer}] /\ temp' \in [Kinds -> BOOLEAN]
  BY <1>1 DEF TypeOK
<1>3. CASE ~Restart(k)
  <2>1. UNCHANGED <<timeout_tick, list, activated, left>>
    BY <1>3 DEF CallbackReturn
  <2>2. TypeOK'
    BY <1>1, <1>2, <2>1 DEF TypeOK
  <2>3. ASSUME NEW j \in Kinds PROVE KindInv(j)'
    <3>1. KindInv(j)
      BY DEF Inv
    <3>2. CASE j = k
      BY <1>1, <1>2, <2>1, <3>1, <3>2 DEF KindInv, Listable
    <3>3. CASE j # k
      BY <1>1, <1>2, <2>1, <3>1, <3>3 DEF KindInv, Listable, Starting, Called
    <3> QED
      BY <3>2, <3>3
  <2>4. HardInv' /\ SoftInv'
    BY <1>1, <1>2, <2>1, KindsOf DEF Inv, HardInv, SoftInv
  <2> QED
    BY <2>2, <2>3, <2>4 DEF Inv
<1>4. CASE Restart(k)
  <2>1. PICK t : t = cur[k]
    OBVIOUS
  <2>2. Called(t, k)
    BY <1>1, <1>4, <2>1 DEF KindInv, Restart, TypeOK
  <2>3. t \in Timers /\ Kind(t) = k /\ t \notin Queued(list[k]) /\ init_tick[t] \in Times
        /\ stopped[t] = FALSE /\ init_tick[t] # 0
    BY <1>1, <2>2 DEF Called, TypeOK
  <2> DEFINE l == list[k]
             timeout == Wrap(tick + init_tick[t])
             new == Insert(l, t, timeout)
  <2>4. /\ timeout_tick' = [timeout_tick EXCEPT ![t] = timeout]
        /\ list' = [list EXCEPT ![k] = new]
        /\ activated' = [activated EXCEPT ![t] = TRUE]
        /\ left' = [left EXCEPT ![t] = init_tick[t]]
    <3>1. ListRemove(l, t) = l
      <4>1. {i \in 1..Len(l) : l[i] = t} = {}
        BY <2>3 DEF Queued
      <4> HIDE DEF l
      <4> QED
        BY <4>1 DEF ListRemove
    <3>2. /\ timeout_tick' = [timeout_tick EXCEPT ![t] = timeout]
          /\ list' = [list EXCEPT ![k] = Insert(ListRemove(l, t), t, timeout)]
          /\ activated' = [activated EXCEPT ![t] = TRUE]
          /\ left' = [left EXCEPT ![t] = init_tick[t]]
      BY <1>4, <2>1 DEF CallbackReturn, Without
    <3> QED
      BY <3>1, <3>2
  <2>5. /\ tick \in 0..RT_TICK_MAX /\ init_tick[t] \in (-MaxLate)..(Half - 1)
        /\ init_tick[t] \in 0..(Half - 1) /\ init_tick[t] > 0
        /\ init_tick[t] + MaxLate <= RT_TICK_MAX + 1 - Half
        /\ left \in [Timers -> (-MaxLate)..(Half - 1)]
    BY <1>1, <2>3, Constants DEF TypeOK
  <2>6. timeout \in 0..RT_TICK_MAX
    BY <2>5, TimeoutIs
  <2>7. /\ left' \in [Timers -> (-MaxLate)..(Half - 1)] /\ left' \in [Timers -> Int]
        /\ left'[t] = init_tick[t] /\ \A u \in Timers : u # t => left'[u] = left[u]
    BY <2>3, <2>4, <2>5, Constants
  <2>8. \A u \in Queued(l) : Later(timeout_tick[u], timeout) <=> left'[u] > left'[t]
    <3> SUFFICES ASSUME NEW u \in Queued(l)
                 PROVE  Later(timeout_tick[u], timeout) <=> left'[u] > left'[t]
      OBVIOUS
    <3>1. u \in Timers /\ u # t /\ timeout_tick[u] = Wrap(tick + left[u])
      BY <1>1, <2>3 DEF KindInv, Listable
    <3>2. left[u] \in (-MaxLate)..(Half - 1)
      BY <2>5, <3>1
    <3>3. Later(Wrap(tick + left[u]), Wrap(tick + init_tick[t])) <=> left[u] > init_tick[t]
      BY <2>5, <3>2, LaterIs
    <3> QED
      BY <2>7, <3>1, <3>3
  <2>9. l \in Seq(Timers) /\ t \notin Queued(l) /\ Unique(l) /\ Sorted(l, left')
    <3>1. \A u \in Queued(l) : left'[u] = left[u]
      BY <1>1, <2>3, <2>7
    <3>2. l \in Seq(Timers) /\ Sorted(l, left)
      BY <1>1 DEF KindInv
    <3>3. Sorted(l, left')
      <4> HIDE DEF l
      <4> QED
        BY <3>1, <3>2, SortedSame
    <3> QED
      BY <1>1, <2>3, <3>3 DEF KindInv
  <2> HIDE DEF l, timeout
  <2>10. /\ new \in Seq(Timers) /\ Queued(new) = Queued(l) \cup {t}
         /\ Unique(new) /\ Sorted(new, left')
    <3>1. PICK f : f = left'
      OBVIOUS
    <3>2. /\ f \in [Timers -> Int] /\ Sorted(l, f)
          /\ \A u \in Queued(l) : Later(timeout_tick[u], timeout) <=> f[u] > f[t]
      BY <2>7, <2>8, <2>9, <3>1
    <3>3. /\ Insert(l, t, timeout) \in Seq(Timers)
          /\ Queued(Insert(l, t, timeout)) = Queued(l) \cup {t}
          /\ Unique(Insert(l, t, timeout))
          /\ Sorted(Insert(l, t, timeout), f)
      BY <2>3, <2>9, <3>2, InsertProperties
    <3> QED
      BY <3>1, <3>3
  <2> HIDE DEF new
  <2>11. /\ list' \in [Kinds -> Seq(Timers)] /\ list'[k] = new
         /\ \A j \in Kinds : j # k => list'[j] = list[j]
    BY <1>1, <2>4, <2>10 DEF TypeOK
  <2>12. TypeOK'
    BY <1>1, <1>2, <2>4, <2>6, <2>7, <2>11 DEF TypeOK
  <2>13. Only(t)
    BY <1>1, <2>4 DEF Only, TypeOK
  <2>14. KindInv(k)'
    <3>1. ASSUME NEW u \in Queued(new) PROVE Listable(u, k)'
      <4>1. CASE u = t
        <5>1. activated'[t] = TRUE /\ timeout_tick'[t] = timeout
          BY <1>1, <2>3, <2>4 DEF TypeOK
        <5> QED
          BY <1>1, <2>3, <2>7, <4>1, <5>1 DEF Listable, timeout
      <4>2. CASE u # t
        <5>1. u \in Queued(list[k]) /\ u \in Timers
          BY <1>1, <2>10, <4>2 DEF l
        <5> QED
          BY <1>1, <2>13, <4>2, <5>1 DEF KindInv, Listable, Only
      <4> QED
        BY <4>1, <4>2
    <3> QED
      BY <1>1, <1>2, <2>10, <2>11, <3>1 DEF KindInv
  <2>15. ASSUME NEW j \in Kinds, j # k PROVE KindInv(j)' /\ \A u \in Queued(list[j]) : left'[u] = left[u]
    <3>1. /\ list'[j] = list[j] /\ lock'[j] = lock[j] /\ temp'[j] = temp[j] /\ cur'[j] = cur[j]
          /\ tick' = tick /\ at'[j] = at[j] /\ j # Kind(t)
      BY <1>1, <1>2, <2>3, <2>11, <2>15
    <3> QED
      BY <2>3, <2>13, <3>1, OtherKind
  <2>16. HardInv'
    <3>1. CASE k = "hard"
      BY <1>2, <3>1 DEF HardInv
    <3>2. CASE k # "hard"
      BY <1>2, <2>11, <2>15, <3>2, KindsOf DEF Inv, HardInv
    <3> QED
      BY <3>1, <3>2
  <2>17. SoftInv'
    <3>1. CASE k = "soft"
      BY <1>2, <3>1 DEF SoftInv
    <3>2. CASE k # "soft"
      BY <1>1, <1>2, <2>11, <2>15, <3>2, KindsOf DEF Inv, SoftInv
    <3> QED
      BY <3>1, <3>2
  <2> QED
    BY <2>12, <2>14, <2>15, <2>16, <2>17 DEF Inv
<1> QED
  BY <1>3, <1>4

(* Listed, said with Queued.                                               *)
LEMMA ListedIs ==
  ASSUME Inv
  PROVE  /\ \A t \in Timers : t \in Listed <=> t \in Queued(list[Kind(t)])
         /\ \A k \in Kinds : \A t \in Queued(list[k]) : t \in Timers /\ Kind(t) = k /\ t \in Listed
<1>1. \A t \in Timers : t \in Listed <=> t \in Queued(list[Kind(t)])
  BY DEF Listed, Queued
<1>2. ASSUME NEW k \in Kinds, NEW t \in Queued(list[k]) PROVE t \in Timers /\ Kind(t) = k
  BY KindsOf DEF Inv, KindInv, Listable
<1> QED
  BY <1>1, <1>2

(* A tick: every timer that runs has one tick less left, and if the first  *)
(* soft timer is overdue, the thread is signalled.                         *)
LEMMA TickKeeps ==
  ASSUME Inv, Tick
  PROVE  Inv'
<1> DEFINE runs(t) == t \in Listed \/ lock[Kind(t)] = t
<1>1. /\ TypeOK /\ InTime
      /\ \A k \in Kinds : lock[k] # NoTimer => left[lock[k]] = init_tick[lock[k]]
      /\ tick' = Wrap(tick + 1)
      /\ left' = [t \in Timers |-> IF runs(t) THEN left[t] - 1 ELSE left[t]]
      /\ sem' = IF DueByNumber THEN Release(sem) ELSE sem
      /\ at' = [at EXCEPT !["hard"] = "check"]
      /\ UNCHANGED <<list, lock, activated, periodic, init_tick, timeout_tick, cur, temp, stopped>>
  BY DEF Inv, Tick, flagVars
<1>2. tick \in 0..RT_TICK_MAX /\ left \in [Timers -> (-MaxLate)..(Half - 1)]
      /\ \A t \in Timers : left[t] \in Int
  BY <1>1, Constants DEF TypeOK
<1>3. ASSUME NEW t \in Timers, runs(t)
      PROVE  /\ left'[t] = left[t] - 1 /\ left[t] - 1 >= -MaxLate
             /\ left'[t] \in (-MaxLate)..(Half - 1)
             /\ Wrap(tick' + left'[t]) = Wrap(tick + left[t])
  <2>1. left'[t] = left[t] - 1
    BY <1>1, <1>3
  <2>2. left[t] - 1 >= -MaxLate
    <3>1. CASE t \in Listed
      BY <1>1, <1>2, <3>1, Constants DEF InTime
    <3>2. CASE lock[Kind(t)] = t
      <4>1. Kind(t) \in Kinds /\ t # NoTimer
        BY KindsOf, Constants
      <4>2. left[t] = init_tick[t] /\ init_tick[t] # 0 /\ init_tick[t] \in Times
        BY <1>1, <3>2, <4>1 DEF Inv, KindInv, Starting, TypeOK
      <4> QED
        BY <4>2, Constants
    <3> QED
      BY <1>3, <3>1, <3>2
  <2>3. left'[t] \in (-MaxLate)..(Half - 1)
    BY <1>2, <2>1, <2>2, Constants
  <2>4. Wrap(Wrap(tick + 1) + (left[t] - 1)) = Wrap(tick + left[t])
    BY <1>2, <2>2, TimeoutKept
  <2> QED
    BY <1>1, <2>1, <2>2, <2>3, <2>4
<1>4. tick' \in 0..RT_TICK_MAX
  <2>1. 1 \in (-MaxLate)..(Half - 1)
    BY Constants
  <2> QED
    BY <1>1, <1>2, <2>1, TimeoutIs
<1>5. left' \in [Timers -> (-MaxLate)..(Half - 1)]
  <2>1. \A t \in Timers : left'[t] \in (-MaxLate)..(Half - 1)
    <3> SUFFICES ASSUME NEW t \in Timers PROVE left'[t] \in (-MaxLate)..(Half - 1)
      OBVIOUS
    <3>1. CASE runs(t)
      BY <1>3, <3>1
    <3>2. CASE ~runs(t)
      BY <1>1, <1>2, <3>2
    <3> QED
      BY <3>1, <3>2
  <2> QED
    BY <1>1, <2>1
<1>6. sem' \in {0, 1}
  BY <1>1 DEF TypeOK, Release
<1>7. TypeOK' /\ at'["hard"] = "check" /\ at'["soft"] = at["soft"]
  BY <1>1, <1>4, <1>5, <1>6, KindsOf DEF TypeOK
<1>8. ASSUME NEW k \in Kinds, NEW t \in Queued(list[k]) PROVE t \in Timers /\ runs(t)
  BY ListedIs
<1> HIDE DEF runs
<1>9. ASSUME NEW k \in Kinds PROVE KindInv(k)'
  <2>1. KindInv(k) /\ list[k] \in Seq(Timers)
    BY KindsOf DEF Inv
  <2>2. Sorted(list'[k], left')
    <3> SUFFICES ASSUME NEW i \in 1..Len(list[k]), NEW j \in 1..Len(list[k]), i < j
                 PROVE  left'[list[k][i]] <= left'[list[k][j]]
      BY <1>1 DEF Sorted
    <3> DEFINE t == list[k][i]
               u == list[k][j]
    <3>1. t \in Queued(list[k]) /\ u \in Queued(list[k]) /\ left[t] <= left[u]
      BY <2>1 DEF Queued, KindInv, Sorted
    <3> HIDE DEF t, u
    <3>2. t \in Timers /\ u \in Timers /\ runs(t) /\ runs(u)
      BY <1>8, <3>1
    <3>3. left'[t] = left[t] - 1 /\ left'[u] = left[u] - 1 /\ left[t] \in Int /\ left[u] \in Int
      BY <1>2, <1>3, <3>2
    <3>4. left'[t] <= left'[u]
      BY <3>1, <3>3
    <3> QED
      BY <3>4 DEF t, u
  <2>3. ASSUME NEW t \in Queued(list[k]) PROVE Listable(t, k)'
    <3>1. t \in Timers /\ runs(t) /\ Listable(t, k)
      BY <1>8, <2>1 DEF KindInv
    <3>2. Wrap(tick' + left'[t]) = Wrap(tick + left[t])
      BY <1>3, <3>1
    <3> QED
      BY <1>1, <3>1, <3>2 DEF Listable
  <2>4. ASSUME lock[k] # NoTimer PROVE Starting(lock[k], k)'
    <3>1. Starting(lock[k], k)
      BY <2>1, <2>4 DEF KindInv
    <3>2. PICK t \in Timers : t = lock[k] /\ Kind(t) = k
      BY <3>1 DEF Starting
    <3>3. runs(t) /\ left[t] = init_tick[t]
      BY <1>1, <2>4, <3>2 DEF runs
    <3>4. left'[t] = init_tick[t] - 1 /\ Wrap(tick' + left'[t]) = Wrap(tick + left[t])
      BY <1>3, <3>3
    <3>5. Starting(t, k)'
      BY <1>1, <1>7, <3>1, <3>2, <3>4 DEF Starting
    <3> QED
      BY <1>1, <3>2, <3>5
  <2>5. temp[k] = TRUE => Called(cur[k], k)'
    BY <1>1, <2>1 DEF KindInv, Called
  <2> QED
    BY <1>1, <2>1, <2>2, <2>3, <2>4, <2>5 DEF KindInv
<1>10. HardInv'
  BY <1>7 DEF HardInv
<1>11. SoftInv'
  <2> SUFFICES ASSUME tick' >= Half - 1, NEW t \in Queued(list["soft"]), left'[t] < 0
               PROVE  sem' = 1
    BY <1>1 DEF SoftInv
  <2>1. "soft" \in Kinds /\ list["soft"] # <<>>
    BY KindsOf DEF Queued
  <2> DEFINE h == Head(list["soft"])
  <2>2. h \in Queued(list["soft"]) /\ left[h] <= left[t]
    BY <2>1, HeadDueIs
  <2> HIDE DEF h
  <2>3. h \in Timers /\ runs(h) /\ t \in Timers /\ runs(t) /\ Listable(h, "soft")
    BY <1>8, <2>1, <2>2 DEF Inv, KindInv
  <2>4. /\ left'[t] = left[t] - 1 /\ left'[h] = left[h] - 1 /\ left[t] \in Int /\ left[h] \in Int
        /\ left'[h] \in (-MaxLate)..(Half - 1)
        /\ Wrap(tick' + left'[h]) = timeout_tick[h]
    BY <1>2, <1>3, <2>3 DEF Listable
  <2>5. left'[h] < 0 /\ left'[h] \in Int
    BY <2>2, <2>4
  <2>6. timeout_tick[h] = tick' + left'[h]
    <3> DEFINE now == tick'
               n == left'[h]
    <3>1. now \in 0..RT_TICK_MAX /\ n \in (-MaxLate)..(Half - 1) /\ n < 0 /\ now >= Half - 1
      BY <1>4, <2>4, <2>5
    <3>2. Wrap(now + n) = timeout_tick[h]
      BY <2>4
    <3> HIDE DEF now, n
    <3>3. Wrap(now + n) = IF now + n < 0 THEN now + n + RT_TICK_MAX + 1
                          ELSE IF now + n < RT_TICK_MAX + 1 THEN now + n
                          ELSE now + n - (RT_TICK_MAX + 1)
      BY <3>1, TimeoutIs
    <3>4. Wrap(now + n) = now + n
      BY <3>1, <3>3, Constants
    <3> QED
      BY <3>2, <3>4 DEF now, n
  <2>7. timeout_tick[h] <= tick'
    BY <1>4, <2>5, <2>6
  <2>8. DueByNumber
    BY <1>1, <2>1, <2>7 DEF DueByNumber, h
  <2> QED
    BY <1>1, <2>8 DEF Release, TypeOK
<1> QED
  BY <1>7, <1>9, <1>10, <1>11 DEF Inv

-------------------------------------------------------------------------------
(* The theorems.                                                           *)

(* Every step keeps the invariant.                                         *)
LEMMA StepKeeps == Inv /\ [Next]_vars => Inv'
<1> SUFFICES ASSUME Inv, [Next]_vars PROVE Inv'
  OBVIOUS
<1>0. TypeOK /\ \A t \in Timers : activated[t] \in BOOLEAN
  BY DEF Inv, TypeOK
<1>1. ASSUME NEW t \in Timers, NEW time \in Times, NEW per \in BOOLEAN, TimerInit(t, time, per)
      PROVE  Inv'
  <2>1. periodic' \in [Timers -> BOOLEAN]
    BY <1>0, <1>1 DEF TimerInit, TypeOK
  <2> QED
    BY <1>1, <2>1, SetKeeps DEF TimerInit
<1>2. ASSUME NEW t \in Timers, Start(t) PROVE Inv'
  BY <1>2, StartKeeps
<1>3. ASSUME NEW t \in Timers, Stop(t) PROVE Inv'
  <2>1. Locked(t) /\ Deactivate(t) /\ init_tick[t] \in Times \cup {0}
    BY <1>0, <1>3 DEF Stop, TypeOK
  <2>2. init_tick' = [init_tick EXCEPT ![t] = init_tick[t]]
    BY <1>0, <1>3 DEF Stop, TypeOK
  <2> QED
    BY <2>1, <2>2, DeactivateKeeps
<1>4. ASSUME NEW t \in Timers, Detach(t) PROVE Inv'
  BY <1>4, DeactivateKeeps DEF Detach
<1>5. ASSUME NEW t \in Timers, NEW time \in Times, SetTime(t, time) PROVE Inv'
  <2>1. CASE activated[t]
    BY <1>5, <2>1, DeactivateKeeps DEF SetTime
  <2>2. CASE ~activated[t]
    <3>1. /\ UNCHANGED <<tick, list, lock, activated, timeout_tick, checkVars, left, stopped>>
          /\ periodic' \in [Timers -> BOOLEAN]
          /\ init_tick' = [init_tick EXCEPT ![t] = time]
          /\ lock[Kind(t)] = NoTimer /\ activated[t] = FALSE
      BY <1>0, <1>5, <2>2 DEF SetTime, Locked, TypeOK
    <3> QED
      BY <3>1, SetKeeps
  <2> QED
    BY <2>1, <2>2
<1>6. ASSUME NEW t \in Timers, NEW per \in BOOLEAN, SetPeriodic(t, per) PROVE Inv'
  <2>1. /\ UNCHANGED <<tick, list, lock, activated, timeout_tick, checkVars, left, stopped>>
        /\ periodic' \in [Timers -> BOOLEAN] /\ init_tick' = init_tick
    BY <1>0, <1>6 DEF SetPeriodic, TypeOK
  <2>2. init_tick[t] \in Times
    BY <1>0, <1>6 DEF SetPeriodic, Locked, TypeOK
  <2> QED
    BY <2>1, <2>2, SetKeeps
<1>7. ASSUME NEW t \in Timers, StartInsert(t) PROVE Inv'
  BY <1>7, StartInsertKeeps
<1>8. CASE Tick
  BY <1>8, TickKeeps
<1>9. ASSUME NEW k \in Kinds, Check(k) PROVE Inv'
  BY <1>9, ExpireKeeps, CheckDoneKeeps, CallbackReturnKeeps DEF Check
<1>10. CASE Take
  BY <1>10, TakeKeeps
<1>11. CASE UNCHANGED vars
  <2>1. UNCHANGED <<tick, list, lock, activated, periodic, init_tick, timeout_tick,
                    at, cur, temp, sem, left, stopped>>
    BY <1>11 DEF vars, flagVars, checkVars
  <2> QED
    BY <2>1 DEF Inv, TypeOK, KindInv, HardInv, SoftInv, Listable, Starting, Called
<1> QED
  BY <1>1, <1>2, <1>3, <1>4, <1>5, <1>6, <1>7, <1>8, <1>9, <1>10, <1>11 DEF Next, Call

(* The invariant holds in every state.                                     *)
THEOREM Invariance == Spec => []Inv
BY InitHolds, StepKeeps, PTL DEF Spec

(* What the invariant says about the lists.                                *)
LEMMA ListsAreSound == Inv => ListedOnce /\ SortedByTimeLeft /\ StoppedStays
<1> SUFFICES ASSUME Inv PROVE ListedOnce /\ SortedByTimeLeft /\ StoppedStays
  OBVIOUS
<1>1. ASSUME NEW k \in Kinds PROVE KindInv(k) /\ temp[k] \in BOOLEAN
  BY DEF Inv, TypeOK
<1>2. ASSUME NEW k \in Kinds, temp[k] PROVE cur[k] \notin Listed
  BY <1>1, <1>2, ListedIs DEF KindInv, Called
<1>3. ASSUME NEW k \in Kinds, NEW i \in 1..Len(list[k])
      PROVE  Kind(list[k][i]) = k /\ activated[list[k][i]]
  <2>1. list[k][i] \in Queued(list[k])
    BY DEF Queued
  <2> QED
    BY <1>1, <2>1 DEF KindInv, Listable
<1>4. ListedOnce
  BY <1>1, <1>2, <1>3 DEF ListedOnce, KindInv, Unique
<1>5. SortedByTimeLeft
  BY <1>1 DEF SortedByTimeLeft, KindInv, Sorted
<1>6. StoppedStays
  BY <1>1, KindsOf, ListedIs DEF StoppedStays, KindInv, Listable
<1> QED
  BY <1>4, <1>5, <1>6

(* What the invariant says about the interrupt and the timer thread.       *)
LEMMA TimersAreServed == Inv => ServedOnTime /\ SoftSignalled
<1> SUFFICES ASSUME Inv PROVE ServedOnTime /\ SoftSignalled
  OBVIOUS
<1>1. ASSUME NEW k \in Kinds, HeadDue(k) PROVE left[Head(list[k])] <= 0
  BY <1>1, HeadDueIs DEF HeadDue
<1>2. \A t \in Hard \cap Listed : t \in Queued(list["hard"])
  BY ListedIs DEF Timers, Kind
<1>3. \A t \in Soft \cap Listed : t \in Queued(list["soft"])
  BY ListedIs, TimersAssumption DEF Timers, Kind
<1>4. ServedOnTime
  BY <1>1, <1>2 DEF ServedOnTime, Inv, HardInv
<1>5. SoftSignalled
  BY <1>3 DEF SoftSignalled, Inv, SoftInv
<1> QED
  BY <1>4, <1>5

(* Types: the semaphore stays at 0 or 1 and no time left leaves its range. *)
THEOREM TypeCorrect == Spec => []TypeOK
<1>1. Inv => TypeOK
  BY DEF Inv
<1> QED
  BY <1>1, Invariance, PTL

(* A timer is linked at most once, whatever is done to it while its        *)
(* callback runs without the lock.                                         *)
THEOREM LinkedOnce == Spec => []ListedOnce
BY ListsAreSound, Invariance, PTL

(* The comparison of wrapped timeouts keeps the lists in the order of the  *)
(* time really left, for every width of the tick.                          *)
THEOREM ListsAreSorted == Spec => []SortedByTimeLeft
BY ListsAreSound, Invariance, PTL

(* Hard timers are served in their tick, and none is served early.         *)
THEOREM TimersServedOnTime == Spec => []ServedOnTime
BY TimersAreServed, Invariance, PTL

(* A timer that was stopped or detached is not put back on a list by the   *)
(* return from its callback.                                               *)
THEOREM StoppedTimersStay == Spec => []StoppedStays
BY ListsAreSound, Invariance, PTL

(* An overdue soft timer is on its way, except across the wrap-around of   *)
(* the tick.                                                               *)
THEOREM ThreadIsSignalled == Spec => []SoftSignalled
BY TimersAreServed, Invariance, PTL

-------------------------------------------------------------------------------
Places == {"none", "init", "start", "run", "arm", "note", "asleep", "closed"}

LifeTypeOK ==
  /\ stat \in [Threads -> {"READY", "SUSPEND", "INIT", "CLOSE"}]
  /\ ttmr \in [Threads -> BOOLEAN]
  /\ tmr \in [Threads -> BOOLEAN]
  /\ isr \in Threads \cup {NoThread}
  /\ pc \in [Threads -> Places]
  /\ end \in [Threads -> {"no", "enqueue", "release"}]
  /\ defunct \in Seq(Threads)
  /\ system_sem \in 0..RT_SEM_VALUE_MAX
  /\ reaper \in Threads \cup {"take", "loop"}
  /\ gap \in [Threads -> BOOLEAN]
  /\ held \in [Threads -> BOOLEAN]

(* A timer that runs is one that the scheduler knows of, so that suspend,  *)
(* resume and close stop it.                                               *)
TimerKnown == \A t \in Threads : tmr[t] => ttmr[t]

(* Between its suspension and the start of its timer a thread is           *)
(* suspended, unless it was made ready in that gap.                        *)
ArmInv == \A t \in Threads : pc[t] = "arm" => stat[t] = "SUSPEND" \/ gap[t]

(* Only an object whose deletion has begun is closed, and it has no timer. *)
ClosedInv ==
  \A t \in Threads : /\ stat[t] = "CLOSE" => pc[t] \in {"closed", "none"}
                     /\ pc[t] = "closed" => stat[t] = "CLOSE"
                     /\ pc[t] \in {"none", "init", "start", "closed"} => ~tmr[t]
                     /\ end[t] = "enqueue" => stat[t] = "CLOSE" /\ pc[t] = "closed"

(* The inductive invariant.                                                *)
LifeInv == /\ LifeTypeOK
       /\ TimerKnown
       /\ ArmInv
       /\ ClosedInv
       /\ TimerFitsStatus
       /\ FreedOnce

(* Initially no thread exists.                                             *)
LEMMA LifeInitInv == LifeInit => LifeInv
<1> SUFFICES ASSUME LifeInit PROVE LifeInv
  OBVIOUS
<1> USE DEF LifeInit, ThreadInit
<1>1. LifeTypeOK
  BY EmptySeq, SemLimitAssumption DEF LifeTypeOK, Places
<1>2. TimerKnown /\ ArmInv /\ ClosedInv /\ TimerFitsStatus
  BY DEF TimerKnown, ArmInv, ClosedInv, TimerFitsStatus
<1>3. FreedOnce
  BY ReaperAssumption DEF FreedOnce, Unique, Queued
<1> QED
  BY <1>1, <1>2, <1>3 DEF LifeInv

(* What the sections of one thread t must do to keep the invariant: they   *)
(* change nothing of other threads, and leave the dead alone.              *)
LEMMA LivingInv ==
  ASSUME LifeInv, NEW t \in Threads, LifeTypeOK',
         UNCHANGED <<isr, end, defunct, reaper>>,
         pc[t] # "closed" /\ pc'[t] # "closed" /\ stat'[t] # "CLOSE",
         \A u \in Threads \ {t} :
           /\ stat'[u] = stat[u] /\ tmr'[u] = tmr[u] /\ ttmr'[u] = ttmr[u]
           /\ pc'[u] = pc[u] /\ gap'[u] = gap[u],
         tmr'[t] => ttmr'[t] /\ (stat'[t] = "SUSPEND" \/ gap'[t]),
         pc'[t] = "arm" => stat'[t] = "SUSPEND" \/ gap'[t],
         pc'[t] \in {"none", "init", "start"} => ~tmr'[t]
  PROVE  LifeInv'
<1>1. (TimerKnown /\ ArmInv /\ TimerFitsStatus)'
  BY DEF LifeInv, TimerKnown, ArmInv, TimerFitsStatus
<1>2. end[t] # "enqueue"
  BY DEF LifeInv, ClosedInv
<1>3. ClosedInv'
  BY <1>2 DEF LifeInv, ClosedInv
<1>4. t \notin Queued(defunct) \cup ({reaper} \cap Threads)
  BY DEF LifeInv, FreedOnce
<1>5. FreedOnce'
  <2>1. Unique(defunct') /\ reaper' \notin Queued(defunct')
    BY DEF LifeInv, FreedOnce
  <2>2. \A u \in Queued(defunct') \cup ({reaper'} \cap Threads) :
          stat'[u] = "CLOSE" /\ pc'[u] = "closed" /\ end'[u] # "enqueue"
    <3>1. Queued(defunct) \subseteq Threads
      BY DEF LifeInv, LifeTypeOK, Queued
    <3> QED
      BY <1>4, <3>1 DEF LifeInv, FreedOnce
  <2> QED
    BY <2>1, <2>2 DEF FreedOnce
<1> QED
  BY <1>1, <1>3, <1>5 DEF LifeInv

(* rt_thread_init, rt_thread_create, rt_thread_startup.                    *)
LEMMA StartInv ==
  ASSUME LifeInv, NEW t \in Threads, Create(t) \/ Startup(t) \/ StartupResume(t)
  PROVE  LifeInv'
<1> USE DEF LifeInv, LifeTypeOK, Places, TimerKnown, ClosedInv
<1>1. CASE Create(t)
  BY <1>1, LivingInv DEF Create, Goto
<1>2. CASE Startup(t)
  BY <1>2, LivingInv DEF Startup, Goto
<1>3. CASE StartupResume(t)
  <2>1. /\ stat' = [stat EXCEPT ![t] = IF ReadyOK(t) THEN "READY" ELSE @]
        /\ tmr' = tmr
        /\ ttmr' \in [Threads -> BOOLEAN]
        /\ \A u \in Threads \ {t} : ttmr'[u] = ttmr[u]
    BY <1>3 DEF StartupResume, ThreadReady
  <2>2. LifeTypeOK'
    BY <1>3, <2>1 DEF StartupResume, Goto
  <2> QED
    BY <1>3, <2>1, <2>2, LivingInv DEF StartupResume, Goto
<1> QED
  BY <1>1, <1>2, <1>3

(* _thread_sleep.                                                          *)
LEMMA SleepInv ==
  ASSUME LifeInv, NEW t \in Threads,
         SleepSuspend(t) \/ SleepArm(t) \/ SleepNote(t) \/ SleepReturn(t)
  PROVE  LifeInv'
<1> USE DEF LifeInv, LifeTypeOK, Places, TimerKnown, ClosedInv
<1>0. ~(tmr[t] /\ ~ttmr[t])
  OBVIOUS
<1>1. CASE SleepSuspend(t)
  <2>1. LifeTypeOK'
    BY <1>1 DEF SleepSuspend, SuspendSelf, Goto
  <2> QED
    BY <1>0, <1>1, <2>1, LivingInv DEF SleepSuspend, SuspendSelf, Runs, Goto
<1>2. CASE SleepArm(t)
  <2>1. LifeTypeOK'
    BY <1>2 DEF SleepArm, TimerStart, Goto
  <2> QED
    BY <1>2, <2>1, LivingInv DEF SleepArm, TimerStart, Goto, ArmInv
<1>3. CASE SleepNote(t)
  <2>1. LifeTypeOK'
    BY <1>3 DEF SleepNote, Goto
  <2> QED
    BY <1>3, <2>1, LivingInv DEF SleepNote, Goto, TimerFitsStatus
<1>4. CASE SleepReturn(t)
  <2>1. LifeTypeOK'
    BY <1>4 DEF SleepReturn, Goto
  <2> QED
    BY <1>4, <2>1, LivingInv DEF SleepReturn, Runs, Goto, TimerFitsStatus
<1> QED
  BY <1>1, <1>2, <1>3, <1>4

(* rt_thread_suspend and rt_thread_resume from outside: resume stops the   *)
(* timer of a thread it makes ready, because the scheduler knows of it.    *)
LEMMA OutsideInv ==
  ASSUME LifeInv, NEW t \in Threads, Suspend(t) \/ Resume(t)
  PROVE  LifeInv'
<1> USE DEF LifeInv, LifeTypeOK, Places, TimerKnown, ClosedInv
<1>0. stat[t] # "CLOSE"
  BY DEF Suspend, Resume
<1>1. CASE Suspend(t)
  <2>1. LifeTypeOK'
    BY <1>1 DEF Suspend, SuspendSelf
  <2> QED
    BY <1>0, <1>1, <2>1, LivingInv DEF Suspend, SuspendSelf
<1>2. CASE Resume(t)
  <2>1. LifeTypeOK'
    BY <1>2 DEF Resume, ThreadReady
  <2> QED
    BY <1>0, <1>2, <2>1, LivingInv DEF Resume, ThreadReady, ReadyOK, ArmInv, TimerFitsStatus
<1> QED
  BY <1>1, <1>2

(* What is on the list, or taken off it to be freed, is a closed thread.   *)
LEMMA DeadClosed ==
  ASSUME LifeInv, NEW t \in Threads, stat[t] # "CLOSE" \/ pc[t] # "closed"
  PROVE  Queued(defunct) \cup ({reaper} \cap Threads) \subseteq Threads \ {t}
<1>1. Queued(defunct) \subseteq Threads
  BY DEF LifeInv, LifeTypeOK, Queued
<1>2. t \notin Queued(defunct) \cup ({reaper} \cap Threads)
  BY DEF LifeInv, FreedOnce
<1> QED
  BY <1>1, <1>2

(* A timeout makes its thread ready; if the timer runs again or is about   *)
(* to be started, that is recorded in gap.                                 *)
LEMMA TimeoutInv ==
  ASSUME LifeInv, Timeout
  PROVE  LifeInv'
<1> USE DEF Timeout, ThreadTimeout
<1>1. isr \in Threads /\ stat[isr] = "SUSPEND" /\ pc[isr] # "closed"
  BY DEF LifeInv, LifeTypeOK, ClosedInv
<1>2. LifeTypeOK' /\ isr' = NoThread
  BY <1>1 DEF LifeInv, LifeTypeOK
<1>3. (TimerKnown /\ ArmInv /\ TimerFitsStatus)'
  BY <1>1 DEF LifeInv, LifeTypeOK, TimerKnown, ArmInv, TimerFitsStatus
<1>4. ClosedInv'
  BY <1>1 DEF LifeInv, LifeTypeOK, ClosedInv
<1>5. FreedOnce'
  <2>1. Queued(defunct) \cup ({reaper} \cap Threads) \subseteq Threads \ {isr}
    BY <1>1, DeadClosed
  <2>2. \A u \in Threads \ {isr} : stat'[u] = stat[u]
    BY <1>1 DEF LifeInv, LifeTypeOK
  <2> QED
    BY <2>1, <2>2 DEF LifeInv, FreedOnce
<1> QED
  BY <1>2, <1>3, <1>4, <1>5 DEF LifeInv

(* Steps that change neither statuses nor places nor the list of the dead. *)
LEMMA QuietInv ==
  ASSUME LifeInv,
         (\E t \in Threads : TakeTimer(t)) \/ TimeoutAssertFails \/ UNCHANGED lifeVars
  PROVE  LifeInv'
<1>1. /\ UNCHANGED <<stat, ttmr, ownVars>>
      /\ isr' \in Threads \cup {NoThread}
      /\ tmr' \in [Threads -> BOOLEAN] /\ \A t \in Threads : tmr'[t] => tmr[t]
  BY DEF TakeTimer, TimerExpire, TimeoutAssertFails, ThreadTimeoutAssertFails, lifeVars,
         threadVars, LifeInv, LifeTypeOK
<1>2. LifeTypeOK'
  BY <1>1 DEF ownVars, LifeInv, LifeTypeOK
<1>3. (TimerKnown /\ ArmInv /\ ClosedInv /\ TimerFitsStatus)'
  BY <1>1 DEF ownVars, LifeInv, TimerKnown, ArmInv, ClosedInv, TimerFitsStatus
<1>4. FreedOnce'
  BY <1>1 DEF ownVars, LifeInv, FreedOnce
<1> QED
  BY <1>2, <1>3, <1>4 DEF LifeInv

(* rt_thread_close, of a thread that is not closed yet.                    *)
LEMMA CloseInv ==
  ASSUME LifeInv, NEW t \in Threads, Exit(t) \/ Delete(t)
  PROVE  LifeInv'
<1> USE DEF Close, Goto
<1>1. Close(t) /\ pc[t] # "closed"
  BY DEF Exit, Runs, Delete
<1>2. LifeTypeOK'
  BY <1>1 DEF LifeInv, LifeTypeOK, Places
<1>3. (TimerKnown /\ ArmInv /\ TimerFitsStatus)'
  BY <1>1 DEF LifeInv, LifeTypeOK, TimerKnown, ArmInv, TimerFitsStatus
<1>4. ClosedInv'
  BY <1>1 DEF LifeInv, LifeTypeOK, ClosedInv
<1>5. FreedOnce'
  <2>1. Queued(defunct) \cup ({reaper} \cap Threads) \subseteq Threads \ {t}
    BY <1>1, DeadClosed
  <2> QED
    BY <1>1, <2>1 DEF LifeInv, LifeTypeOK, FreedOnce
<1> QED
  BY <1>2, <1>3, <1>4, <1>5 DEF LifeInv

(* Pushing a thread that is not on the list.                               *)
LEMMA PushProperties ==
  ASSUME NEW s \in Seq(Threads), NEW t \in Threads, Unique(s), t \notin Queued(s)
  PROVE  /\ <<t>> \o s \in Seq(Threads)
         /\ Unique(<<t>> \o s)
         /\ Queued(<<t>> \o s) = Queued(s) \cup {t}
<1> DEFINE r == <<t>> \o s
<1>1. /\ r \in Seq(Threads)
      /\ Len(r) = Len(s) + 1
      /\ \A i \in 1..Len(r) : r[i] = IF i = 1 THEN t ELSE s[i - 1]
  OBVIOUS
<1> HIDE DEF r
<1>2. \A i \in 2..Len(r) : i - 1 \in 1..Len(s) /\ r[i] = s[i - 1] /\ r[i] \in Queued(s)
  BY <1>1 DEF Queued
<1>3. Unique(r)
  <2>1. SUFFICES ASSUME NEW i \in 1..Len(r), NEW j \in 1..Len(r), r[i] = r[j], i # 1
                 PROVE  i = j
    BY <1>1, <1>2 DEF Unique
  <2>2. j # 1
    BY <1>1, <1>2, <2>1
  <2>3. i - 1 = j - 1
    BY <1>2, <2>1, <2>2 DEF Unique
  <2> QED
    BY <2>3
<1>4. Queued(r) \subseteq Queued(s) \cup {t}
  <2>1. \A i \in 1..Len(r) : r[i] \in Queued(s) \cup {t}
    BY <1>1, <1>2
  <2> QED
    BY <2>1 DEF Queued
<1>5. t \in Queued(r)
  <2>1. 1 \in 1..Len(r) /\ r[1] = t
    BY <1>1
  <2> QED
    BY <2>1 DEF Queued
<1>6. ASSUME NEW u \in Queued(s)
      PROVE  u \in Queued(r)
  <2>1. PICK k \in 1..Len(s) : s[k] = u
    BY DEF Queued
  <2>2. k + 1 \in 1..Len(r) /\ r[k + 1] = u
    BY <1>1, <2>1
  <2> QED
    BY <2>2 DEF Queued
<1> QED
  BY <1>1, <1>3, <1>4, <1>5, <1>6 DEF r

(* rt_thread_defunct_enqueue: the thread is on the list for the first      *)
(* time, since its deletion had not got there before.                      *)
LEMMA BuryInv ==
  ASSUME LifeInv, NEW t \in Threads, Enqueue(t) \/ TellReaper(t)
  PROVE  LifeInv'
<1> USE DEF threadVars
<1>1. CASE Enqueue(t)
  <2> USE DEF Enqueue
  <2>1. t \notin Queued(defunct) /\ reaper # t /\ stat[t] = "CLOSE" /\ pc[t] = "closed"
    BY <1>1 DEF LifeInv, ClosedInv, FreedOnce
  <2>2. /\ defunct' \in Seq(Threads)
        /\ Unique(defunct')
        /\ Queued(defunct') = Queued(defunct) \cup {t}
    BY <1>1, <2>1, PushProperties DEF LifeInv, LifeTypeOK, FreedOnce
  <2>3. LifeTypeOK'
    BY <1>1, <2>2 DEF LifeInv, LifeTypeOK
  <2>4. (TimerKnown /\ ArmInv /\ ClosedInv /\ TimerFitsStatus)'
    BY <1>1 DEF LifeInv, LifeTypeOK, TimerKnown, ArmInv, ClosedInv, TimerFitsStatus
  <2>5. \A u \in Threads : end'[u] = "enqueue" => end[u] = "enqueue" /\ u # t
    BY <1>1 DEF LifeInv, LifeTypeOK
  <2>6. Queued(defunct) \subseteq Threads
    BY DEF LifeInv, LifeTypeOK, Queued
  <2>7. FreedOnce'
    BY <1>1, <2>1, <2>2, <2>5, <2>6 DEF LifeInv, FreedOnce
  <2> QED
    BY <2>3, <2>4, <2>7 DEF LifeInv
<1>2. CASE TellReaper(t)
  <2> USE DEF TellReaper
  <2>1. system_sem' \in 0..RT_SEM_VALUE_MAX
    BY <1>2, SemLimitAssumption DEF LifeInv, LifeTypeOK
  <2>2. LifeTypeOK'
    BY <1>2, <2>1 DEF LifeInv, LifeTypeOK
  <2>3. (TimerKnown /\ ArmInv /\ ClosedInv /\ TimerFitsStatus)'
    BY <1>2 DEF LifeInv, LifeTypeOK, TimerKnown, ArmInv, ClosedInv, TimerFitsStatus
  <2>4. \A u \in Threads : end'[u] = "enqueue" => end[u] = "enqueue"
    BY <1>2 DEF LifeInv, LifeTypeOK
  <2>5. Queued(defunct) \subseteq Threads
    BY DEF LifeInv, LifeTypeOK, Queued
  <2>6. FreedOnce'
    BY <1>2, <2>4, <2>5 DEF LifeInv, FreedOnce
  <2> QED
    BY <2>2, <2>3, <2>6 DEF LifeInv
<1> QED
  BY <1>1, <1>2

(* The system thread.                                                      *)
LEMMA ReaperInv ==
  ASSUME LifeInv, Reaper
  PROVE  LifeInv'
<1> USE DEF threadVars
<1>1. CASE ReaperTake \/ ReaperDone
  <2>1. /\ UNCHANGED <<threadVars, pc, end, defunct, gap, held>>
        /\ system_sem' \in 0..RT_SEM_VALUE_MAX
        /\ reaper' \in {"take", "loop"}
    BY <1>1, SemLimitAssumption DEF ReaperTake, ReaperDone, LifeInv, LifeTypeOK
  <2>2. LifeTypeOK'
    BY <2>1 DEF LifeInv, LifeTypeOK
  <2>3. (TimerKnown /\ ArmInv /\ ClosedInv /\ TimerFitsStatus)'
    BY <2>1 DEF LifeInv, TimerKnown, ArmInv, ClosedInv, TimerFitsStatus
  <2>4. Queued(defunct) \subseteq Threads
    BY DEF LifeInv, LifeTypeOK, Queued
  <2>5. FreedOnce'
    BY <2>1, <2>4, ReaperAssumption DEF LifeInv, FreedOnce
  <2> QED
    BY <2>2, <2>3, <2>5 DEF LifeInv
<1>2. CASE ReaperDequeue
  <2> USE DEF ReaperDequeue
  <2>1. /\ Head(defunct) \in Queued(defunct)
        /\ Tail(defunct) \in Seq(Threads)
        /\ Queued(Tail(defunct)) = Queued(defunct) \ {Head(defunct)}
        /\ Unique(Tail(defunct))
    BY <1>2, TailProperties DEF LifeInv, LifeTypeOK, FreedOnce
  <2>2. Queued(defunct) \subseteq Threads
    BY DEF LifeInv, LifeTypeOK, Queued
  <2>3. LifeTypeOK'
    BY <1>2, <2>1, <2>2 DEF LifeInv, LifeTypeOK
  <2>4. (TimerKnown /\ ArmInv /\ ClosedInv /\ TimerFitsStatus)'
    BY <1>2 DEF LifeInv, TimerKnown, ArmInv, ClosedInv, TimerFitsStatus
  <2>5. FreedOnce'
    BY <1>2, <2>1, <2>2 DEF LifeInv, FreedOnce
  <2> QED
    BY <2>3, <2>4, <2>5 DEF LifeInv
<1>3. CASE ReaperFree
  <2> USE DEF ReaperFree, Goto
  <2>1. /\ reaper \in Threads /\ reaper \notin Queued(defunct)
        /\ stat[reaper] = "CLOSE" /\ pc[reaper] = "closed" /\ end[reaper] # "enqueue"
        /\ ~tmr[reaper]
    BY <1>3 DEF LifeInv, FreedOnce, ClosedInv
  <2>2. LifeTypeOK'
    BY <1>3 DEF LifeInv, LifeTypeOK, Places
  <2>3. (TimerKnown /\ ArmInv /\ ClosedInv /\ TimerFitsStatus)'
    BY <1>3, <2>1 DEF LifeInv, LifeTypeOK, TimerKnown, ArmInv, ClosedInv, TimerFitsStatus
  <2>4. \A u \in Queued(defunct) : u \in Threads \ {reaper} /\ pc'[u] = pc[u]
    BY <1>3, <2>1 DEF LifeInv, LifeTypeOK, Queued
  <2>5. FreedOnce'
    BY <1>3, <2>4, ReaperAssumption DEF LifeInv, FreedOnce
  <2> QED
    BY <2>2, <2>3, <2>5 DEF LifeInv
<1> QED
  BY <1>1, <1>2, <1>3 DEF Reaper

(* Every step of the specification preserves the invariant.                *)
LEMMA LifeNextInv == LifeInv /\ [LifeNext]_lifeVars => LifeInv'
<1> SUFFICES ASSUME LifeInv, [LifeNext]_lifeVars PROVE LifeInv'
  OBVIOUS
<1>1. ASSUME NEW t \in Threads, Choose(t) \/ Go(t) \/ Bury(t)
      PROVE  LifeInv'
  BY <1>1, StartInv, SleepInv, OutsideInv, CloseInv, BuryInv DEF Choose, Go, Bury
<1>2. CASE (\E t \in Threads : TakeTimer(t)) \/ TimeoutAssertFails \/ UNCHANGED lifeVars
  BY <1>2, QuietInv
<1>3. CASE Timeout
  BY <1>3, TimeoutInv
<1>4. CASE Reaper
  BY <1>4, ReaperInv
<1> QED
  BY <1>1, <1>2, <1>3, <1>4 DEF LifeNext

(* The invariant holds throughout.                                         *)
LEMMA LifeSpecInv == LifeSpec => []LifeInv
BY LifeInitInv, LifeNextInv, PTL DEF LifeSpec

(* Whoever suspends, resumes or deletes sleepers, a timer runs behind a    *)
(* thread that is not suspended in the two cases gap records only.         *)
THEOREM TimersFit == LifeSpec => []TimerFitsStatus
<1>1. LifeInv => TimerFitsStatus
  BY DEF LifeInv
<1> QED
  BY <1>1, LifeSpecInv, PTL

(* Every dead thread is on the defunct list once at most, not while it is  *)
(* freed, and closed as long as it is there.                               *)
THEOREM DeadFreedOnce == LifeSpec => []FreedOnce
<1>1. LifeInv => FreedOnce
  BY DEF LifeInv
<1> QED
  BY <1>1, LifeSpecInv, PTL

(* No timeout, resume or suspend brings a closed thread back to life.      *)
THEOREM DeadStayDead == LifeSpec => ClosedStays
<1> DEFINE A == \A t \in Threads : stat[t] = "CLOSE" => stat'[t] = "CLOSE" \/ pc[t] = "none"
<1>1. ASSUME LifeInv, [LifeNext]_lifeVars
      PROVE  [A]_lifeVars
  <2>1. SUFFICES ASSUME NEW u \in Threads, stat[u] = "CLOSE", pc[u] # "none", LifeNext
                 PROVE  stat'[u] = "CLOSE"
    BY <1>1
  <2>2. pc[u] = "closed"
    BY <1>1, <2>1 DEF LifeInv, ClosedInv
  <2>3. stat \in [Threads -> {"READY", "SUSPEND", "INIT", "CLOSE"}]
    BY <1>1 DEF LifeInv, LifeTypeOK
  <2>4. ASSUME NEW t \in Threads, Choose(t)
        PROVE  stat'[u] = "CLOSE"
    BY <2>1, <2>2, <2>3, <2>4
    DEF Choose, Create, Startup, SleepSuspend, Suspend, SuspendSelf, Resume, ThreadReady,
        ReadyOK, Exit, Delete, Close, Runs
  <2>5. ASSUME NEW t \in Threads, Go(t)
        PROVE  stat'[u] = "CLOSE"
    BY <2>1, <2>2, <2>3, <2>5
    DEF Go, StartupResume, ThreadReady, ReadyOK, SleepArm, SleepNote, SleepReturn
  <2>6. ASSUME NEW t \in Threads, Bury(t) \/ TakeTimer(t)
        PROVE  stat'[u] = "CLOSE"
    BY <2>1, <2>6 DEF Bury, Enqueue, TellReaper, TakeTimer, TimerExpire, threadVars
  <2>7. CASE Timeout \/ TimeoutAssertFails
    BY <2>1, <2>3, <2>7
    DEF Timeout, ThreadTimeout, TimeoutAssertFails, ThreadTimeoutAssertFails
  <2>8. CASE Reaper
    BY <2>1, <2>8 DEF Reaper, ReaperTake, ReaperDequeue, ReaperFree, ReaperDone, threadVars
  <2> QED
    BY <2>1, <2>4, <2>5, <2>6, <2>7, <2>8 DEF LifeNext
<1>2. LifeInv /\ [LifeNext]_lifeVars => [A]_lifeVars
  BY <1>1
<1> QED
  BY <1>2, LifeSpecInv, PTL DEF LifeSpec, ClosedStays
=============================================================================

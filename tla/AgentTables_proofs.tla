--------------------------- MODULE AgentTables_proofs ---------------------------
(***************************************************************************)
(* Proofs about the tables of the agent: the container, for any keys and   *)
(* any number of entries; a GETNEXT that a table answers, for any columns, *)
(* rows and names and any number of variables; and the registry, for any   *)
(* names, priorities, sessions and ranges that begin at 1.                 *)
(***************************************************************************)
EXTENDS BinaryArray, TableIterator, AgentRegistry, Induction, SequenceTheorems

-----------------------------------------------------------------------------
(* The container.                                                          *)

\* The least place of a set is in it and not behind any other.
LEMMA LeastIs ==
    ASSUME NEW s, s \subseteq Nat, s # {}
    PROVE  LeastPlace(s) \in s /\ \A j \in s : LeastPlace(s) <= j
BY LeastOf DEF LeastPlace

\* ... and the greatest one of a bounded set, not before any other.
LEMMA GreatestIs ==
    ASSUME NEW n \in Nat, NEW s, s \subseteq 0 .. n, s # {}
    PROVE  GreatestPlace(s) \in s /\ \A j \in s : j <= GreatestPlace(s)
<1>1. \E m \in s : \A k \in s : k <= m
  BY GreatestOf
<1>2. \A m, k \in s : k <= m <=> m >= k
  OBVIOUS
<1> QED  BY <1>1, <1>2 DEF GreatestPlace

\* r is d with the entries from lo to hi in another order: place tells where
\* each of them was.
IsOrder(place, n, lo, hi) ==
    /\ place \in [1 .. n -> 1 .. n]
    /\ \A a, b \in 1 .. n : place[a] = place[b] => a = b
    /\ \A k \in 1 .. n : \E a \in 1 .. n : place[a] = k
    /\ \A k \in 1 .. n : k \notin lo .. hi => place[k] = k

Reordered(r, d, lo, hi) ==
    /\ r \in Seq(Keys) /\ Len(r) = Len(d)
    /\ \E place : IsOrder(place, Len(d), lo, hi) /\ \A k \in 1 .. Len(d) : r[k] = d[place[k]]

\* What stays as it is is reordered.
LEMMA ReorderedSame ==
    ASSUME NEW d \in Seq(Keys), NEW lo, NEW hi
    PROVE  Reordered(d, d, lo, hi)
<1> DEFINE n == Len(d)
           place == [k \in 1 .. n |-> k]
<1>1. IsOrder(place, n, lo, hi)
  BY DEF IsOrder
<1>2. \A k \in 1 .. n : d[k] = d[place[k]]
  OBVIOUS
<1> HIDE DEF place
<1> QED  BY <1>1, <1>2 DEF Reordered

\* What is reordered within a range that was reordered is reordered.
LEMMA ReorderedAgain ==
    ASSUME NEW q, NEW r, NEW d, d \in Seq(Keys), NEW lo \in Int, NEW hi \in Int,
           NEW lo1 \in Int, NEW hi1 \in Int, lo <= lo1, hi1 <= hi,
           Reordered(q, r, lo1, hi1), Reordered(r, d, lo, hi)
    PROVE  Reordered(q, d, lo, hi)
<1> DEFINE n == Len(d)
<1>1. n \in Nat /\ Len(r) = n /\ Len(q) = n /\ q \in Seq(Keys)
  BY DEF Reordered
<1>2. PICK f : IsOrder(f, n, lo1, hi1) /\ \A k \in 1 .. n : q[k] = r[f[k]]
  BY <1>1 DEF Reordered
<1>3. PICK g : IsOrder(g, n, lo, hi) /\ \A k \in 1 .. n : r[k] = d[g[k]]
  BY <1>1 DEF Reordered
<1> DEFINE place == [k \in 1 .. n |-> g[f[k]]]
<1>4. /\ f \in [1 .. n -> 1 .. n] /\ g \in [1 .. n -> 1 .. n]
      /\ \A a, b \in 1 .. n : (f[a] = f[b] => a = b) /\ (g[a] = g[b] => a = b)
      /\ \A k \in 1 .. n : (\E a \in 1 .. n : f[a] = k) /\ (\E a \in 1 .. n : g[a] = k)
      /\ \A k \in 1 .. n : (k \notin lo1 .. hi1 => f[k] = k) /\ (k \notin lo .. hi => g[k] = k)
  BY <1>2, <1>3 DEF IsOrder
<1>5. IsOrder(place, n, lo, hi)
  <2> HIDE DEF n
  <2>1. place \in [1 .. n -> 1 .. n]
    BY <1>4
  <2>2. \A a, b \in 1 .. n : place[a] = place[b] => a = b
    BY <1>4
  <2>3. ASSUME NEW k \in 1 .. n  PROVE \E a \in 1 .. n : place[a] = k
    <3>1. PICK b \in 1 .. n : g[b] = k
      BY <1>4
    <3>2. PICK a \in 1 .. n : f[a] = b
      BY <1>4
    <3> QED  BY <3>1, <3>2
  <2>4. ASSUME NEW k \in 1 .. n, k \notin lo .. hi  PROVE place[k] = k
    <3>1. k \notin lo1 .. hi1
      BY <1>1, <2>4
    <3> QED  BY <1>4, <2>4, <3>1
  <2> QED  BY <2>1, <2>2, <2>3, <2>4 DEF IsOrder
<1>6. \A k \in 1 .. n : q[k] = d[place[k]]
  BY <1>2, <1>3, <1>4
<1> HIDE DEF place
<1> QED  BY <1>1, <1>5, <1>6 DEF Reordered

\* Two entries of a range that are swapped are reordered.
LEMMA ReorderedBySwap ==
    ASSUME NEW d \in Seq(Keys), NEW lo \in Int, NEW hi \in Int,
           NEW a \in lo .. hi, NEW b \in lo .. hi, 1 <= lo, hi <= Len(d)
    PROVE  Reordered([d EXCEPT ![a] = d[b], ![b] = d[a]], d, lo, hi)
<1> DEFINE n == Len(d)
           r == [d EXCEPT ![a] = d[b], ![b] = d[a]]
           place == [k \in 1 .. n |-> IF k = a THEN b ELSE IF k = b THEN a ELSE k]
<1>1. n \in Nat /\ a \in 1 .. n /\ b \in 1 .. n /\ d \in [1 .. n -> Keys]
  OBVIOUS
<1>2. r \in [1 .. n -> Keys] /\ \A k \in 1 .. n : r[k] = d[place[k]]
  <2> HIDE DEF n
  <2> QED  BY <1>1
<1>3. r \in Seq(Keys) /\ Len(r) = n
  <2> HIDE DEF r
  <2> QED  BY <1>1, <1>2
<1>4. IsOrder(place, n, lo, hi)
  <2> HIDE DEF n
  <2>1. place \in [1 .. n -> 1 .. n]
    BY <1>1
  <2>2. \A x, y \in 1 .. n : place[x] = place[y] => x = y
    BY <1>1
  <2>3. ASSUME NEW k \in 1 .. n  PROVE \E x \in 1 .. n : place[x] = k
    <3>1. place[place[k]] = k /\ place[k] \in 1 .. n
      BY <1>1
    <3> HIDE DEF place
    <3> QED  BY <3>1
  <2>4. \A k \in 1 .. n : k \notin lo .. hi => place[k] = k
    OBVIOUS
  <2> HIDE DEF place
  <2> QED  BY <2>1, <2>2, <2>3, <2>4 DEF IsOrder
<1> HIDE DEF r, place
<1>5. Reordered(r, d, lo, hi)
  BY <1>2, <1>3, <1>4 DEF Reordered
<1> QED  BY <1>5 DEF r

\* The entries of the range are those that were there, and the others stay.
LEMMA ReorderedRange ==
    ASSUME NEW r, NEW d \in Seq(Keys), NEW lo \in Int, NEW hi \in Int, 1 <= lo, hi <= Len(d),
           Reordered(r, d, lo, hi)
    PROVE  /\ \A k \in lo .. hi : \E j \in lo .. hi : r[k] = d[j]
           /\ \A k \in 1 .. Len(d) : k \notin lo .. hi => r[k] = d[k]
<1> DEFINE n == Len(d)
<1>1. n \in Nat /\ lo .. hi \subseteq 1 .. n
  OBVIOUS
<1>2. PICK place : IsOrder(place, n, lo, hi) /\ \A k \in 1 .. n : r[k] = d[place[k]]
  BY DEF Reordered
<1>3. ASSUME NEW k \in lo .. hi  PROVE place[k] \in lo .. hi
  <2>1. place[k] \in 1 .. n /\ k \in 1 .. n
    BY <1>1, <1>2 DEF IsOrder
  <2>2. SUFFICES ASSUME place[k] \notin lo .. hi  PROVE FALSE
    OBVIOUS
  <2>3. place[place[k]] = place[k]
    BY <1>2, <2>1, <2>2 DEF IsOrder
  <2>4. place[k] = k
    BY <1>2, <2>1, <2>3 DEF IsOrder
  <2> QED  BY <2>2, <2>4
<1>4. \A k \in lo .. hi : \E j \in lo .. hi : r[k] = d[j]
  BY <1>1, <1>2, <1>3
<1>5. \A k \in 1 .. n : k \notin lo .. hi => r[k] = d[k]
  BY <1>2 DEF IsOrder
<1> QED  BY <1>4, <1>5

\* How far the loop of array_qsort has come in the range from first to last of d:
\* what is before i is not greater than mid, what is behind j not less.
Parted(p, d, first, last, mid) ==
    /\ Reordered(p.d, d, first, last)
    /\ p.i \in first .. last + 1 /\ p.j \in first - 1 .. last
    /\ \A k \in first .. p.i - 1 : p.d[k] <= mid
    /\ \A k \in p.j + 1 .. last : p.d[k] >= mid

\* One round: it stops at an entry that is not less, and at one not greater than
\* mid, because there is one.
LEMMA RoundIs ==
    ASSUME NEW d \in Seq(Keys), NEW first \in Nat, NEW last \in Nat, NEW mid \in Keys,
           1 <= first, first < last, last <= Len(d),
           NEW p, Parted(p, d, first, last, mid), p.i <= p.j,
           \/ /\ p.d = d /\ p.i = first /\ p.j = last
              /\ \E m \in first .. last : d[m] = mid
           \/ first < p.i /\ p.j < last
    PROVE  LET q == Round(p, first, last, mid)
           IN  /\ Parted(q, d, first, last, mid)
               /\ first < q.i /\ q.j < last
               /\ q.i > q.j \/ q.j - q.i < p.j - p.i
<1> DEFINE e == p.d
           i == p.i
           j == p.j
           S == {k \in i .. last : k = last \/ e[k] >= mid}
           U == {k \in first .. j : k = first \/ e[k] <= mid}
           a == LeastPlace(S)
           b == GreatestPlace(U)
           swapped == [e EXCEPT ![a] = e[b], ![b] = e[a]]
           q == Round(p, first, last, mid)
<1>1. /\ i \in Nat /\ j \in Nat /\ first <= i /\ i <= j /\ j <= last
      /\ e \in Seq(Keys) /\ Len(e) = Len(d) /\ Len(d) \in Nat
  BY DEF Parted, Reordered
<1>2. Keys \subseteq Nat
  BY BinaryArrayAssumption
<1>3. /\ \A k \in first .. last : e[k] \in Nat
      /\ mid \in Nat
  <2>1. \A k \in first .. last : k \in 1 .. Len(e)
    BY <1>1
  <2>2. \A k \in 1 .. Len(e) : e[k] \in Keys
    BY <1>1
  <2> HIDE DEF e
  <2> QED  BY <1>2, <2>1, <2>2
<1>4. (\E k \in i .. last : e[k] >= mid) /\ (\E k \in first .. j : e[k] <= mid)
  <2>1. CASE e = d /\ i = first /\ j = last /\ \E m \in first .. last : d[m] = mid
    BY <1>3, <2>1
  <2>2. CASE first < i /\ j < last
    <3>1. last \in j + 1 .. last /\ first \in first .. i - 1
      BY <1>1, <2>2
    <3>2. e[last] >= mid /\ e[first] <= mid
      BY <3>1 DEF Parted
    <3>3. last \in i .. last /\ first \in first .. j
      BY <1>1
    <3> QED  BY <3>2, <3>3
  <2> QED  BY <2>1, <2>2
<1>5. a \in S /\ \A k \in S : a <= k
  <2>1. S \subseteq Nat /\ S # {}
    BY <1>1, <1>4
  <2> HIDE DEF S
  <2> QED  BY <2>1, LeastIs
<1>6. b \in U /\ \A k \in U : k <= b
  <2>1. U \subseteq 0 .. last /\ U # {}
    BY <1>1, <1>4
  <2> HIDE DEF U
  <2> QED  BY <2>1, GreatestIs
<1> HIDE DEF a, b
<1>7. a \in i .. last /\ b \in first .. j
  BY <1>5, <1>6
<1>8. \A k \in i .. last : k < a => e[k] < mid
  <2> SUFFICES ASSUME NEW k \in i .. last, k < a  PROVE e[k] < mid
    OBVIOUS
  <2>1. k \notin S
    BY <1>1, <1>5, <1>7
  <2> QED  BY <1>1, <1>3, <2>1
<1>9. \A k \in first .. j : k > b => e[k] > mid
  <2> SUFFICES ASSUME NEW k \in first .. j, k > b  PROVE e[k] > mid
    OBVIOUS
  <2>1. k \notin U
    BY <1>1, <1>6, <1>7
  <2> QED  BY <1>1, <1>3, <2>1
<1>10. e[a] >= mid
  <2>1. PICK k \in i .. last : e[k] >= mid
    BY <1>4
  <2>2. k \in S
    BY <2>1
  <2>3. a <= k /\ a \in Nat /\ k \in Nat /\ k <= last
    BY <1>1, <1>5, <1>7, <2>2
  <2>4. CASE a = last
    BY <1>1, <2>1, <2>3, <2>4
  <2>5. CASE a # last
    BY <1>5, <2>5
  <2> QED  BY <2>4, <2>5
<1>11. e[b] <= mid
  <2>1. PICK k \in first .. j : e[k] <= mid
    BY <1>4
  <2>2. k \in U
    BY <2>1
  <2>3. k <= b /\ b \in Nat /\ k \in Nat /\ first <= k
    BY <1>1, <1>6, <1>7, <2>2
  <2>4. CASE b = first
    BY <1>1, <2>1, <2>3, <2>4
  <2>5. CASE b # first
    BY <1>6, <2>5
  <2> QED  BY <2>4, <2>5
<1>12. \A k \in first .. a - 1 : e[k] <= mid
  <2> SUFFICES ASSUME NEW k \in first .. a - 1  PROVE e[k] <= mid
    OBVIOUS
  <2>1. CASE k < i
    BY <1>1, <2>1 DEF Parted
  <2>2. CASE k >= i
    <3>1. k \in i .. last /\ k < a /\ k \in first .. last
      BY <1>1, <1>7, <2>2
    <3> QED  BY <1>3, <1>8, <3>1
  <2> QED  BY <1>1, <2>1, <2>2
<1>13. \A k \in b + 1 .. last : e[k] >= mid
  <2> SUFFICES ASSUME NEW k \in b + 1 .. last  PROVE e[k] >= mid
    OBVIOUS
  <2>1. CASE k > j
    BY <1>1, <1>7, <2>1 DEF Parted
  <2>2. CASE k <= j
    <3>1. k \in first .. j /\ k > b /\ k \in first .. last
      BY <1>1, <1>7, <2>2
    <3> QED  BY <1>3, <1>9, <3>1
  <2> QED  BY <1>1, <1>7, <2>1, <2>2
<1> HIDE DEF S, U
<1>14. CASE a > b
  <2>1. q = [d |-> e, i |-> a, j |-> b]
    BY <1>14 DEF Round, a, b, S, U
  <2>2. first < i /\ j < last
    <3> SUFFICES ASSUME e = d, i = first, j = last, NEW m \in first .. last, d[m] = mid
                 PROVE  FALSE
      OBVIOUS
    <3>1. ~(m < a) /\ ~(m > b)
      BY <1>3, <1>8, <1>9
    <3> QED  BY <1>1, <1>7, <1>14, <3>1
  <2>3. a \in first .. last + 1 /\ b \in first - 1 .. last /\ first < a /\ b < last
    BY <1>1, <1>7, <2>2
  <2> HIDE DEF q
  <2>4. Parted(q, d, first, last, mid)
    BY <1>12, <1>13, <2>1, <2>3 DEF Parted
  <2> QED  BY <1>14, <2>1, <2>3, <2>4 DEF q
<1>15. CASE a <= b
  <2>1. q = [d |-> swapped, i |-> a + 1, j |-> b - 1]
    BY <1>1, <1>7, <1>15 DEF Round, a, b, S, U
  <2>2. a \in first .. last /\ b \in first .. last
    BY <1>1, <1>7
  <2>3. Reordered(swapped, e, first, last)
    BY <1>1, <2>2, ReorderedBySwap
  <2>4. Reordered(swapped, d, first, last)
    <3> HIDE DEF swapped
    <3> QED  BY <2>3, ReorderedAgain DEF Parted
  <2>5. \A k \in first .. last : swapped[k] = IF k = b THEN e[a] ELSE IF k = a THEN e[b] ELSE e[k]
    <3>1. \A k \in first .. last : k \in DOMAIN e
      BY <1>1
    <3> HIDE DEF e
    <3> QED  BY <2>2, <3>1
  <2> HIDE DEF swapped
  <2>6. ASSUME NEW k \in first .. (a + 1) - 1  PROVE swapped[k] <= mid
    <3>1. k \in first .. last /\ (k = a \/ k \in first .. a - 1)
      BY <1>1, <1>7
    <3>2. k = b => k = a
      BY <1>1, <1>7, <1>15, <3>1
    <3>3. CASE k = a
      BY <1>11, <2>5, <3>1, <3>3
    <3>4. CASE k # a
      BY <1>12, <2>5, <3>1, <3>2, <3>4
    <3> QED  BY <3>3, <3>4
  <2>7. ASSUME NEW k \in (b - 1) + 1 .. last  PROVE swapped[k] >= mid
    <3>1. k \in first .. last /\ (k = b \/ k \in b + 1 .. last)
      BY <1>1, <1>7
    <3>2. k = a => k = b
      BY <1>1, <1>7, <1>15, <3>1
    <3>3. CASE k = b
      BY <1>10, <2>5, <3>1, <3>3
    <3>4. CASE k # b
      BY <1>13, <2>5, <3>1, <3>2, <3>4
    <3> QED  BY <3>3, <3>4
  <2>8. a + 1 \in first .. last + 1 /\ b - 1 \in first - 1 .. last /\ first < a + 1 /\ b - 1 < last
        /\ (b - 1) - (a + 1) < j - i
    BY <1>1, <1>7
  <2> HIDE DEF q
  <2>9. q.d = swapped /\ q.i = a + 1 /\ q.j = b - 1
    BY <2>1
  <2>10. Parted(q, d, first, last, mid)
    BY <2>4, <2>6, <2>7, <2>8, <2>9 DEF Parted
  <2> QED  BY <2>8, <2>9, <2>10 DEF q
<1> QED  BY <1>1, <1>7, <1>14, <1>15

\* The loop of array_qsort ends after as many rounds as the range has entries, with a
\* range before and one behind, which are both smaller.
LEMMA PartitionIs ==
    ASSUME NEW d \in Seq(Keys), NEW first \in Nat, NEW last \in Nat,
           1 <= first, first < last, last <= Len(d)
    PROVE  \E mid \in Keys :
               LET p == Partition(d, first, last)
               IN  /\ Parted(p, d, first, last, mid)
                   /\ first < p.i /\ p.j < last /\ p.j < p.i
<1> DEFINE mid == d[((first + last - 2) \div 2) + 1]
           N == last - first + 1
           start == [d |-> d, i |-> first, j |-> last]
           Rounded(p) == IF p.i > p.j THEN p ELSE Round(p, first, last, mid)
           Loop(f) == [n \in 0 .. N |-> IF n = 0 THEN start ELSE Rounded(f[n - 1])]
           loop == CHOOSE f : f = Loop(f)
           AtStart(p) == p.d = d /\ p.i = first /\ p.j = last
           Narrower(p) == first < p.i /\ p.j < last
           S == {p \in [d : Seq(Keys), i : Int, j : Int] :
                    Parted(p, d, first, last, mid) /\ (AtStart(p) \/ Narrower(p))}
<1>1. ((first + last - 2) \div 2) + 1 \in first .. last
  OBVIOUS
<1>2. mid \in Keys /\ \E m \in first .. last : d[m] = mid
  <2> DEFINE m == ((first + last - 2) \div 2) + 1
  <2>1. m \in first .. last /\ m \in 1 .. Len(d)
    BY <1>1
  <2> HIDE DEF m
  <2>2. d[m] \in Keys
    BY <2>1
  <2> QED  BY <2>1, <2>2 DEF m
<1>3. N \in Nat
  OBVIOUS
<1> HIDE DEF mid
<1>4. start \in S
  <2>1. start \in [d : Seq(Keys), i : Int, j : Int] /\ AtStart(start)
    OBVIOUS
  <2>2. Reordered(d, d, first, last)
    BY ReorderedSame
  <2>3. Parted(start, d, first, last, mid)
    <3>1. first .. first - 1 = {} /\ last + 1 .. last = {}
      OBVIOUS
    <3> QED  BY <2>2, <3>1 DEF Parted
  <2> HIDE DEF start, AtStart, Narrower
  <2> QED  BY <2>1, <2>3
<1>5. ASSUME NEW p \in S, p.i <= p.j
      PROVE  /\ Round(p, first, last, mid) \in S
             /\ Narrower(Round(p, first, last, mid))
             /\ LET q == Round(p, first, last, mid) IN q.i > q.j \/ q.j - q.i < p.j - p.i
  <2> DEFINE q == Round(p, first, last, mid)
  <2>1. /\ Parted(q, d, first, last, mid) /\ first < q.i /\ q.j < last
        /\ q.i > q.j \/ q.j - q.i < p.j - p.i
    BY <1>2, <1>5, RoundIs
  <2>2. \E e, i, j : q = [d |-> e, i |-> i, j |-> j]
    BY Zenon DEF Round
  <2> HIDE DEF q
  <2>3. q.d \in Seq(Keys) /\ q.i \in Int /\ q.j \in Int
    BY <2>1 DEF Parted, Reordered
  <2>4. q \in [d : Seq(Keys), i : Int, j : Int]
    BY <2>2, <2>3
  <2>5. q \in S
    BY <2>1, <2>4
  <2> QED  BY <2>1, <2>5 DEF q
<1>6. \A p \in S : Rounded(p) \in S
  BY <1>5
<1>7. \E f : f = Loop(f)
  <2> DEFINE g == [p \in S |-> Rounded(p)]
  <2>1. g \in [S -> S]
    <3> HIDE DEF S, Rounded
    <3> QED  BY <1>6
  <2>2. \A p \in S : g[p] = Rounded(p)
    OBVIOUS
  <2> HIDE DEF g
  <2>3. PICK f \in [0 .. N -> S] : f[0] = start /\ \A n \in 1 .. N : f[n] = g[f[n - 1]]
    <3> HIDE DEF S, start, N
    <3>1. \E f : Iterates(f, S, start, N, g)
      BY <1>3, <1>4, <2>1, IterationOn
    <3> QED  BY <3>1 DEF Iterates
  <2> HIDE DEF S, start, Rounded
  <2>4. ASSUME NEW n \in 0 .. N  PROVE f[n] = IF n = 0 THEN start ELSE Rounded(f[n - 1])
    <3>1. CASE n = 0
      BY <2>3, <3>1
    <3>2. CASE n # 0
      <4>1. n \in 1 .. N /\ n - 1 \in 0 .. N
        BY <1>3, <3>2
      <4> HIDE DEF N
      <4>2. f[n - 1] \in S
        BY <2>3, <4>1
      <4> QED  BY <2>2, <2>3, <3>2, <4>1, <4>2
    <3> QED  BY <3>1, <3>2
  <2>5. f = Loop(f)
    <3> HIDE DEF N
    <3> QED  BY <2>3, <2>4
  <2> HIDE DEF Loop
  <2> QED  BY <2>5
<1>8. loop = Loop(loop)
  <2> HIDE DEF Loop
  <2> QED  BY <1>7
<1>9. loop[0] = start /\ \A n \in 1 .. N : loop[n] = Rounded(loop[n - 1])
  <2>1. \A n \in 0 .. N : loop[n] = IF n = 0 THEN start ELSE Rounded(loop[n - 1])
    <3> HIDE DEF loop, start, Rounded, N
    <3> QED  BY <1>8
  <2> HIDE DEF loop, start, Rounded
  <2> QED  BY <1>3, <2>1
<1>10. Partition(d, first, last) = loop[N]
  BY DEF Partition, mid
<1> HIDE DEF loop, Loop, start, N
<1> DEFINE T == {n \in Nat : n <= N => /\ loop[n] \in S
                                       /\ n > 0 => Narrower(loop[n])
                                       /\ \/ loop[n].i > loop[n].j
                                          \/ loop[n].j - loop[n].i <= (last - first) - n}
<1>11. 0 \in T
  <2>1. loop[0].i = first /\ loop[0].j = last
    BY <1>9 DEF start
  <2>2. loop[0].j - loop[0].i <= (last - first) - 0
    BY <2>1
  <2> HIDE DEF S
  <2> QED  BY <1>4, <1>9, <2>2
<1>12. ASSUME NEW n \in Nat, n \in T, n + 1 <= N
       PROVE  /\ loop[n + 1] \in S /\ Narrower(loop[n + 1])
              /\ \/ loop[n + 1].i > loop[n + 1].j
                 \/ loop[n + 1].j - loop[n + 1].i <= (last - first) - (n + 1)
  <2> DEFINE p == loop[n]
             q == loop[n + 1]
  <2>1. n + 1 \in 1 .. N /\ (n + 1) - 1 = n /\ n <= N
    <3> HIDE DEF T, S
    <3> QED  BY <1>3, <1>12
  <2>2. /\ p \in S /\ (n > 0 => Narrower(p))
        /\ p.i > p.j \/ p.j - p.i <= (last - first) - n
    <3> HIDE DEF S, Narrower
    <3> QED  BY <1>12, <2>1
  <2>3. q = Rounded(p)
    <3> HIDE DEF S, Rounded, T
    <3> QED  BY <1>9, <2>1
  <2>4. \A x \in S : x.i \in Int /\ x.j \in Int
    OBVIOUS
  <2>7. n = 0 => p.i = first /\ p.j = last
    BY <1>9 DEF start
  <2> HIDE DEF q, p
  <2>5. CASE p.i > p.j
    <3>1. q = p
      BY <2>3, <2>5
    <3>2. Narrower(p)
      <4> HIDE DEF S, Narrower
      <4> QED  BY <2>2, <2>5, <2>7
    <3> HIDE DEF S, Narrower
    <3> QED  BY <2>2, <2>5, <3>1, <3>2 DEF q
  <2>6. CASE ~(p.i > p.j)
    <3>1. q = Round(p, first, last, mid) /\ p.i <= p.j
      <4> HIDE DEF S
      <4> QED  BY <2>2, <2>3, <2>4, <2>6
    <3>2. q \in S /\ Narrower(q) /\ (q.i > q.j \/ q.j - q.i < p.j - p.i)
      <4> HIDE DEF S, Narrower
      <4> QED  BY <1>5, <2>2, <3>1
    <3>3. q.i \in Int /\ q.j \in Int /\ p.i \in Int /\ p.j \in Int
      <4> HIDE DEF S
      <4> QED  BY <2>2, <2>4, <3>2
    <3>4. q.i > q.j \/ q.j - q.i <= (last - first) - (n + 1)
      <4> HIDE DEF S, Narrower
      <4> QED  BY <2>2, <2>6, <3>2, <3>3
    <3> HIDE DEF S, Narrower
    <3> QED  BY <3>2, <3>4 DEF q
  <2> QED  BY <2>5, <2>6
<1>13. \A n \in Nat : n \in T => n + 1 \in T
  <2> HIDE DEF S, Narrower
  <2> QED  BY <1>12
<1>14. N \in T
  <2> HIDE DEF T
  <2> QED  BY <1>3, <1>11, <1>13, InductionOn
<1> DEFINE p == loop[N]
<1>15. p \in S /\ Narrower(p) /\ (p.i > p.j \/ p.j - p.i <= (last - first) - N)
  BY <1>14 DEF N
<1>16. Parted(p, d, first, last, mid) /\ first < p.i /\ p.j < last /\ p.i \in Int /\ p.j \in Int
  BY <1>15
<1>17. p.j < p.i
  BY <1>15, <1>16 DEF N
<1> HIDE DEF p
<1> QED  BY <1>2, <1>10, <1>16, <1>17 DEF p

InOrder(d, lo, hi) == \A a, b \in lo .. hi : a <= b => d[a] <= d[b]

Arranged(q, r) == Reordered(q, r.d, r.first, r.last) /\ InOrder(q, r.first, r.last)

\* The two ranges that array_qsort goes on with, and what is made of the first.
LeftOf(p, r) == [d |-> p.d, first |-> r.first, last |-> p.j]
RightOf(left, p, r) == [d |-> left, first |-> p.i, last |-> r.last]
Left(f, p, r) == IF p.j > r.first THEN f[LeftOf(p, r)] ELSE p.d
Parts(r) == Partition(r.d, r.first, r.last)

\* What array_qsort has to go on with when the loop has ended.
LEMMA PartsAre ==
    ASSUME NEW r \in RangesToSort
    PROVE  /\ r.d \in Seq(Keys) /\ r.first \in Nat /\ r.last \in Nat /\ Len(r.d) \in Nat
           /\ 1 <= r.first /\ r.first < r.last /\ r.last <= Len(r.d)
           /\ \E mid \in Keys : Parted(Parts(r), r.d, r.first, r.last, mid)
           /\ r.first < Parts(r).i /\ Parts(r).j < r.last /\ Parts(r).j < Parts(r).i
           /\ Parts(r).i \in Int /\ Parts(r).j \in Int
           /\ Parts(r).d \in Seq(Keys) /\ Len(Parts(r).d) = Len(r.d)
           /\ Parts(r).j > r.first => LeftOf(Parts(r), r) \in RangesToSort
<1>1. /\ r.d \in Seq(Keys) /\ r.first \in Nat /\ r.last \in Nat /\ Len(r.d) \in Nat
      /\ 1 <= r.first /\ r.first < r.last /\ r.last <= Len(r.d)
  BY DEF RangesToSort
<1> DEFINE d == r.d
           first == r.first
           last == r.last
           p == Parts(r)
<1>2. PICK mid \in Keys : /\ Parted(p, d, first, last, mid)
                          /\ first < p.i /\ p.j < last /\ p.j < p.i
  <2> HIDE DEF d, first, last
  <2>1. /\ d \in Seq(Keys) /\ first \in Nat /\ last \in Nat
        /\ 1 <= first /\ first < last /\ last <= Len(d)
    BY <1>1 DEF d, first, last
  <2>2. p = Partition(d, first, last)
    BY DEF Parts, d, first, last
  <2> HIDE DEF p
  <2> QED  BY <2>1, <2>2, PartitionIs
<1>3. /\ p.i \in Int /\ p.j \in Int /\ p.d \in Seq(Keys) /\ Len(p.d) = Len(d)
  <2>1. p.i \in first .. last + 1 /\ p.j \in first - 1 .. last
        /\ p.d \in Seq(Keys) /\ Len(p.d) = Len(d)
    BY <1>2 DEF Parted, Reordered
  <2> HIDE DEF p, d, first, last
  <2>2. first \in Int /\ last \in Int
    BY <1>1 DEF first, last
  <2> QED  BY <2>1, <2>2
<1>4. ASSUME p.j > first  PROVE LeftOf(p, r) \in RangesToSort
  <2> HIDE DEF p
  <2> QED  BY <1>1, <1>2, <1>3, <1>4 DEF RangesToSort, LeftOf
<1> QED  BY <1>1, <1>2, <1>3, <1>4

\* When both ranges are arranged so is the whole: what is before i is not greater
\* than mid, what is behind j not less, and what is between them is mid.
LEMMA JoinedIs ==
    ASSUME NEW r \in RangesToSort, NEW left, NEW out,
           IF Parts(r).j > r.first THEN Arranged(left, LeftOf(Parts(r), r)) ELSE left = Parts(r).d,
           IF Parts(r).i < r.last THEN Arranged(out, RightOf(left, Parts(r), r)) ELSE out = left
    PROVE  Arranged(out, r)
<1> DEFINE d == r.d
           first == r.first
           last == r.last
           e == Parts(r).d
           i == Parts(r).i
           j == Parts(r).j
<1>1. PICK mid \in Keys :
          /\ Reordered(e, d, first, last)
          /\ \A k \in first .. i - 1 : e[k] <= mid
          /\ \A k \in j + 1 .. last : e[k] >= mid
  BY PartsAre DEF Parted
<1>2. /\ d \in Seq(Keys) /\ e \in Seq(Keys) /\ Len(e) = Len(d)
      /\ first \in Nat /\ last \in Nat /\ i \in Int /\ j \in Int /\ Len(d) \in Nat
      /\ 1 <= first /\ first < last /\ last <= Len(d) /\ first < i /\ j < last /\ j < i
  BY PartsAre
<1>3. Reordered(left, e, first, j) /\ InOrder(left, first, j)
  <2>1. CASE j > first
    BY <2>1 DEF Arranged, LeftOf
  <2>2. CASE ~(j > first)
    <3>1. Reordered(left, e, first, j)
      BY <1>2, <2>2, ReorderedSame
    <3>2. \A a, b \in first .. j : a = first /\ b = first
      <4> HIDE DEF first, j
      <4> QED  BY <1>2, <2>2
    <3>3. first \in 1 .. Len(e) /\ left = e /\ e[first] \in Nat
      <4>1. left = e
        BY <2>2
      <4>2. first \in 1 .. Len(e)
        <5> HIDE DEF first, e, last, d
        <5> QED  BY <1>2
      <4>3. e[first] \in Keys
        <5> HIDE DEF first, e
        <5> QED  BY <1>2, <4>2
      <4> QED  BY <4>1, <4>2, <4>3, BinaryArrayAssumption
    <3>4. InOrder(left, first, j)
      <4> HIDE DEF first, j, e
      <4> QED  BY <3>2, <3>3 DEF InOrder
    <3> QED  BY <3>1, <3>4
  <2> QED  BY <2>1, <2>2
<1>4. left \in Seq(Keys) /\ Len(left) = Len(d)
  <2> HIDE DEF d, e, first, j
  <2> QED  BY <1>2, <1>3 DEF Reordered
<1>5. Reordered(out, left, i, last) /\ InOrder(out, i, last)
  <2>1. CASE i < last
    BY <2>1 DEF Arranged, RightOf
  <2>2. CASE ~(i < last)
    <3>1. Reordered(out, left, i, last)
      BY <1>4, <2>2, ReorderedSame
    <3>2. \A a, b \in i .. last : a = last /\ b = last
      <4> HIDE DEF i, last
      <4> QED  BY <1>2, <2>2
    <3>3. last \in 1 .. Len(left) /\ out = left /\ left[last] \in Nat
      <4>1. out = left
        BY <2>2
      <4>2. last \in 1 .. Len(left)
        <5> HIDE DEF first, e, last, d
        <5> QED  BY <1>2, <1>4
      <4>3. left[last] \in Keys
        <5> HIDE DEF last, d
        <5> QED  BY <1>4, <4>2
      <4> QED  BY <4>1, <4>2, <4>3, BinaryArrayAssumption
    <3>4. InOrder(out, i, last)
      <4> HIDE DEF last, i, e
      <4> QED  BY <3>2, <3>3 DEF InOrder
    <3> QED  BY <3>1, <3>4
  <2> QED  BY <2>1, <2>2
<1> HIDE DEF d, first, last, e, i, j
<1>6. /\ \A k \in first .. j : \E m \in first .. j : left[k] = e[m]
      /\ \A k \in 1 .. Len(d) : k \notin first .. j => left[k] = e[k]
  BY <1>2, <1>3, ReorderedRange
<1>7. /\ \A k \in i .. last : \E m \in i .. last : out[k] = left[m]
      /\ \A k \in 1 .. Len(d) : k \notin i .. last => out[k] = left[k]
  <2>1. 1 <= i /\ last <= Len(left)
    BY <1>2, <1>4
  <2>2. /\ \A k \in i .. last : \E m \in i .. last : out[k] = left[m]
        /\ \A k \in 1 .. Len(left) : k \notin i .. last => out[k] = left[k]
    BY <1>2, <1>4, <1>5, <2>1, ReorderedRange
  <2> QED  BY <1>4, <2>2
<1>8. Reordered(out, d, first, last)
  <2>1. Reordered(left, d, first, last)
    BY <1>1, <1>2, <1>3, ReorderedAgain
  <2> QED  BY <1>2, <1>5, <2>1, ReorderedAgain
<1>9. out \in Seq(Keys) /\ Len(out) = Len(d) /\ mid \in Nat
      /\ \A k \in first .. last : out[k] \in Nat /\ left[k] \in Nat /\ e[k] \in Nat
  <2>1. \A k \in first .. last : k \in 1 .. Len(d)
    BY <1>2
  <2>2. out \in Seq(Keys) /\ Len(out) = Len(d)
    BY <1>8 DEF Reordered
  <2>3. \A k \in 1 .. Len(d) : out[k] \in Keys /\ left[k] \in Keys /\ e[k] \in Keys
    BY <1>2, <1>4, <2>2
  <2> QED  BY <2>1, <2>2, <2>3, BinaryArrayAssumption
<1>10. ASSUME NEW k \in first .. i - 1, k <= last  PROVE left[k] <= mid /\ out[k] = left[k]
  <2>1. k \in 1 .. Len(d) /\ k \notin i .. last
    BY <1>2, <1>10
  <2>2. out[k] = left[k]
    BY <1>7, <2>1
  <2>3. CASE k \in first .. j
    <3>1. PICK m \in first .. j : left[k] = e[m]
      BY <1>6, <2>3
    <3>2. m \in first .. i - 1
      BY <1>2
    <3> QED  BY <1>1, <2>2, <3>1, <3>2
  <2>4. CASE k \notin first .. j
    BY <1>1, <1>6, <2>1, <2>2, <2>4
  <2> QED  BY <2>3, <2>4
<1>11. ASSUME NEW k \in j + 1 .. last, first <= k  PROVE left[k] >= mid
  <2>1. k \in 1 .. Len(d) /\ k \notin first .. j
    BY <1>2, <1>11
  <2> QED  BY <1>1, <1>6, <2>1
<1>12. ASSUME NEW k \in i .. last  PROVE out[k] >= mid
  <2>1. PICK m \in i .. last : out[k] = left[m]
    BY <1>7
  <2>2. m \in j + 1 .. last /\ first <= m
    BY <1>2
  <2> QED  BY <1>11, <2>1, <2>2
<1>13. ASSUME NEW a \in first .. last, NEW b \in first .. last, a <= b
       PROVE  out[a] <= out[b]
  <2>1. CASE a \in i .. last
    <3>1. b \in i .. last
      BY <1>2, <1>13, <2>1
    <3> QED  BY <1>5, <1>13, <2>1, <3>1 DEF InOrder
  <2>2. CASE a < i /\ b \in i .. last
    <3>1. a \in first .. i - 1 /\ a <= last
      BY <1>2, <2>2
    <3>2. left[a] <= mid /\ out[a] = left[a] /\ out[b] >= mid
      BY <1>10, <1>12, <2>2, <3>1
    <3>3. out[a] \in Nat /\ out[b] \in Nat
      BY <1>9
    <3> QED  BY <1>9, <3>2, <3>3
  <2>3. CASE b < i
    <3>1. a \in first .. i - 1 /\ b \in first .. i - 1 /\ a <= last /\ b <= last
      BY <1>2, <1>13, <2>3
    <3>2. out[a] = left[a] /\ out[b] = left[b] /\ left[a] <= mid /\ left[b] <= mid
      BY <1>10, <3>1
    <3>3. CASE b <= j
      <4>1. a \in first .. j /\ b \in first .. j
        BY <1>2, <1>13, <3>3
      <4> QED  BY <1>3, <1>13, <3>2, <4>1 DEF InOrder
    <3>4. CASE b > j
      <4>1. b \in j + 1 .. last /\ first <= b
        BY <1>2, <3>4
      <4>2. left[b] >= mid
        BY <1>11, <4>1
      <4>3. left[a] \in Nat /\ left[b] \in Nat
        BY <1>9
      <4> QED  BY <1>9, <3>2, <4>2, <4>3
    <3> QED  BY <1>2, <3>3, <3>4
  <2> QED  BY <1>2, <1>13, <2>1, <2>2, <2>3
<1>14. InOrder(out, first, last)
  BY <1>13 DEF InOrder
<1> QED  BY <1>8, <1>14 DEF Arranged, d, first, last

\* A function that goes on as array_qsort does, wherever the second range is one,
\* arranges every range; and the second range is one.
LEMMA SortingIs ==
    ASSUME NEW f,
           \A r \in RangesToSort :
               LET p == Parts(r)
                   left == Left(f, p, r)
               IN  (p.i < r.last => RightOf(left, p, r) \in RangesToSort)
                   => f[r] = IF p.i < r.last THEN f[RightOf(left, p, r)] ELSE left
    PROVE  \A r \in RangesToSort :
               /\ Arranged(f[r], r)
               /\ Parts(r).i < r.last => RightOf(Left(f, Parts(r), r), Parts(r), r) \in RangesToSort
<1> DEFINE width(r) == r.last - r.first
           Fine(r) == Arranged(f[r], r)
           Next1(r) == RightOf(Left(f, Parts(r), r), Parts(r), r)
<1>1. ASSUME NEW r \in RangesToSort, \A s \in RangesToSort : width(s) < width(r) => Fine(s)
      PROVE  Fine(r) /\ (Parts(r).i < r.last => Next1(r) \in RangesToSort)
  <2> DEFINE p == Parts(r)
             left == Left(f, p, r)
             first == r.first
             last == r.last
  <2>1. /\ r.d \in Seq(Keys) /\ first \in Nat /\ last \in Nat /\ Len(r.d) \in Nat
        /\ 1 <= first /\ first < last /\ last <= Len(r.d)
        /\ first < p.i /\ p.j < last /\ p.j < p.i /\ p.i \in Int /\ p.j \in Int
        /\ p.d \in Seq(Keys) /\ Len(p.d) = Len(r.d)
        /\ p.j > first => LeftOf(p, r) \in RangesToSort
    BY PartsAre
  <2>2. IF p.j > first THEN Arranged(left, LeftOf(p, r)) ELSE left = p.d
    <3>1. CASE p.j > first
      <4> DEFINE s == LeftOf(p, r)
      <4>1. s.first = first /\ s.last = p.j
        BY DEF LeftOf
      <4>2. width(s) < width(r)
        <5>1. p.j - first < last - first
          <6> HIDE DEF p, first, last
          <6> QED  BY <2>1
        <5> HIDE DEF p, s
        <5> QED  BY <4>1, <5>1
      <4>3. Fine(s)
        <5> HIDE DEF Fine, width, s
        <5>1. s \in RangesToSort
          BY <2>1, <3>1 DEF s
        <5> QED  BY <1>1, <4>2, <5>1
      <4>4. left = f[s]
        BY <3>1 DEF Left
      <4> QED  BY <3>1, <4>3, <4>4
    <3>2. CASE ~(p.j > first)
      BY <3>2 DEF Left
    <3> QED  BY <3>1, <3>2
  <2>3. left \in Seq(Keys) /\ Len(left) = Len(r.d)
    <3> HIDE DEF left, p
    <3> QED  BY <2>1, <2>2 DEF Arranged, Reordered, LeftOf
  <2> DEFINE s == RightOf(left, p, r)
             out == f[r]
  <2>4. p.i < last => s \in RangesToSort
    <3> HIDE DEF left, p
    <3> QED  BY <2>1, <2>3 DEF RightOf, RangesToSort
  <2>5. out = IF p.i < last THEN f[s] ELSE left
    BY <2>4
  <2>6. IF p.i < last THEN Arranged(out, s) ELSE out = left
    <3>1. CASE p.i < last
      <4>1. s.first = p.i /\ s.last = last
        BY DEF RightOf
      <4>2. width(s) < width(r)
        <5>1. last - p.i < last - first
          <6> HIDE DEF p, first, last
          <6> QED  BY <2>1
        <5> HIDE DEF p, s
        <5> QED  BY <4>1, <5>1
      <4>3. Fine(s)
        <5> HIDE DEF Fine, width, s
        <5>1. s \in RangesToSort
          BY <2>4, <3>1
        <5> QED  BY <1>1, <4>2, <5>1
      <4>4. out = f[s]
        <5> HIDE DEF out, s, p
        <5> QED  BY <2>5, <3>1
      <4> QED  BY <3>1, <4>3, <4>4
    <3>2. CASE ~(p.i < last)
      <4> HIDE DEF out, s, p, left
      <4> QED  BY <2>5, <3>2
    <3> QED  BY <3>1, <3>2
  <2>7. Arranged(out, r)
    <3> HIDE DEF out, left
    <3> QED  BY <2>2, <2>6, JoinedIs
  <2> QED  BY <2>4, <2>7
<1>2. \A r \in RangesToSort : width(r) \in Nat
  BY DEF RangesToSort
<1> DEFINE D == {r \in RangesToSort : ~Fine(r)}
           M == {width(r) : r \in D}
<1>3. D = {}
  <2> SUFFICES ASSUME D # {}  PROVE FALSE
    OBVIOUS
  <2>1. M \subseteq Nat /\ M # {}
    <3> HIDE DEF width, Fine
    <3> QED  BY <1>2
  <2>2. PICK m \in M : \A k \in M : m <= k
    <3> HIDE DEF M
    <3> QED  BY <2>1, LeastOf
  <2>3. PICK r \in D : m = width(r)
    OBVIOUS
  <2>4. ASSUME NEW s \in RangesToSort, width(s) < width(r)  PROVE Fine(s)
    <3> SUFFICES ASSUME ~Fine(s)  PROVE FALSE
      OBVIOUS
    <3>1. width(s) \in M
      OBVIOUS
    <3>2. width(r) <= width(s) /\ width(r) \in Nat /\ width(s) \in Nat
      <4> HIDE DEF width, M, Fine
      <4> QED  BY <1>2, <2>2, <2>3, <3>1
    <3> HIDE DEF width, M, Fine
    <3> QED  BY <2>4, <3>2
  <2> HIDE DEF width, Fine, M
  <2> QED  BY <1>1, <2>3, <2>4
<1>4. \A r \in RangesToSort : Fine(r)
  <2> HIDE DEF Fine
  <2> QED  BY <1>3
<1> HIDE DEF Fine, width, Next1
<1>5. \A r \in RangesToSort : Parts(r).i < r.last => Next1(r) \in RangesToSort
  BY <1>1, <1>4
<1> QED  BY <1>4, <1>5 DEF Fine, Next1

\* The function that array_qsort is exists: Qsort is what its definition says.
LEMMA QsortUnfolds ==
    \A r \in RangesToSort :
        LET p == Parts(r)
            left == Left(Qsort, p, r)
        IN  Qsort[r] = IF p.i < r.last THEN Qsort[RightOf(left, p, r)] ELSE left
<1> DEFINE S == RangesToSort
           V == Seq(Keys)
           Body(g, r) == LET p == Parts(r)
                             left == Left(g, p, r)
                         IN  IF p.i < r.last THEN g[RightOf(left, p, r)] ELSE left
           Guarded(g, r) == LET p == Parts(r)
                                left == Left(g, p, r)
                            IN  IF p.i < r.last /\ RightOf(left, p, r) \in S
                                THEN g[RightOf(left, p, r)] ELSE left
           measure == [r \in S |-> r.last - r.first]
           body == [r \in S |-> [g \in [S -> V] |-> Guarded(g, r)]]
           start == <<>>
<1>1. measure \in [S -> Nat] /\ \A r \in S : measure[r] = r.last - r.first
  BY DEF RangesToSort
<1>2. start \in V
  OBVIOUS
<1>3. ASSUME NEW r \in S, NEW g \in [S -> V]  PROVE Guarded(g, r) \in V
  <2>1. /\ Parts(r).d \in V
        /\ Parts(r).j > r.first => LeftOf(Parts(r), r) \in S
    BY PartsAre
  <2>2. Left(g, Parts(r), r) \in V
    <3> HIDE DEF S, V
    <3> QED  BY <2>1 DEF Left
  <2> HIDE DEF S, V
  <2> QED  BY <2>2
<1>4. body \in [S -> [[S -> V] -> V]] /\ \A r \in S : \A g \in [S -> V] : body[r][g] = Guarded(g, r)
  <2> HIDE DEF Guarded, S, V
  <2> QED  BY <1>3
<1>5. ASSUME NEW r \in S, NEW g \in [S -> V], NEW h \in [S -> V],
             \A s \in S : measure[s] < measure[r] => g[s] = h[s]
      PROVE  body[r][g] = body[r][h]
  <2> DEFINE p == Parts(r)
             first == r.first
             last == r.last
             left == Left(g, p, r)
             right == RightOf(left, p, r)
  <2>1. /\ first \in Nat /\ last \in Nat /\ first < p.i /\ p.j < last /\ p.i \in Int /\ p.j \in Int
        /\ p.j > first => LeftOf(p, r) \in S
    BY PartsAre
  <2>2. left = Left(h, p, r)
    <3>1. CASE p.j > first
      <4> DEFINE s == LeftOf(p, r)
      <4>1. s.first = first /\ s.last = p.j
        BY DEF LeftOf
      <4>2. p.j - first < last - first
        <5> HIDE DEF p, first, last
        <5> QED  BY <2>1
      <4>3. s \in S
        BY <2>1, <3>1
      <4>4. measure[s] < measure[r]
        <5>1. measure[s] = p.j - first /\ measure[r] = last - first
          <6> HIDE DEF s, p, measure, S
          <6> QED  BY <1>1, <4>1, <4>3
        <5> HIDE DEF s, p, measure, S, first, last
        <5> QED  BY <4>2, <5>1
      <4>5. g[s] = h[s]
        <5> HIDE DEF s, measure, S, V
        <5> QED  BY <1>5, <4>3, <4>4
      <4> QED  BY <3>1, <4>5 DEF Left
    <3>2. CASE ~(p.j > first)
      BY <3>2 DEF Left
    <3> QED  BY <3>1, <3>2
  <2>3. ASSUME p.i < last, right \in S  PROVE g[right] = h[right]
    <3>1. right.first = p.i /\ right.last = last
      BY DEF RightOf
    <3>2. last - p.i < last - first
      <4> HIDE DEF p, first, last
      <4> QED  BY <2>1, <2>3
    <3>3. measure[right] < measure[r]
      <4>1. measure[right] = last - p.i /\ measure[r] = last - first
        <5> HIDE DEF right, p, measure, S
        <5> QED  BY <1>1, <2>3, <3>1
      <4> HIDE DEF right, p, measure, S, first, last
      <4> QED  BY <3>2, <4>1
    <3> HIDE DEF right, measure, S, V
    <3> QED  BY <1>5, <2>3, <3>3
  <2>4. Guarded(g, r) = Guarded(h, r)
    <3>1. Guarded(g, r) = IF p.i < last /\ right \in S THEN g[right] ELSE left
      OBVIOUS
    <3>2. Guarded(h, r) = IF p.i < last /\ right \in S THEN h[right] ELSE left
      BY <2>2
    <3> HIDE DEF Guarded, right, p, left, S, last
    <3> QED  BY <2>3, <3>1, <3>2
  <2> HIDE DEF Guarded, S, V, body
  <2> QED  BY <1>4, <2>4
<1>6. PICK f \in [S -> V] : \A r \in S : f[r] = body[r][f]
  <2> HIDE DEF S, V, start, measure, body, Guarded, Body
  <2>1. start \in V /\ measure \in [S -> Nat] /\ body \in [S -> [[S -> V] -> V]]
    BY <1>1, <1>2, <1>4
  <2>2. DependsBelow(body, measure, S, V)
    BY <1>5 DEF DependsBelow
  <2>3. \E f : Recurs(f, body, S, V)
    BY <2>1, <2>2, MeasuredRecursion
  <2> QED  BY <2>3 DEF Recurs
<1>7. \A r \in S : f[r] = Guarded(f, r)
  <2> HIDE DEF S, V, body, Guarded
  <2> QED  BY <1>4, <1>6
<1>8. \A r \in S : Parts(r).i < r.last => RightOf(Left(f, Parts(r), r), Parts(r), r) \in S
  <2>1. \A r \in RangesToSort :
             LET p == Parts(r)
                 left == Left(f, p, r)
             IN  (p.i < r.last => RightOf(left, p, r) \in RangesToSort)
                   => f[r] = IF p.i < r.last THEN f[RightOf(left, p, r)] ELSE left
    BY <1>7
  <2> QED  BY <2>1, SortingIs
<1>9. \A r \in S : f[r] = Body(f, r)
  BY <1>7, <1>8
<1> DEFINE Made(g) == [r \in RangesToSort |-> Body(g, r)]
<1>10. f = Made(f)
  <2>1. f = [r \in S |-> f[r]]
    BY <1>6
  <2> HIDE DEF Body
  <2> QED  BY <1>9, <2>1
<1> DEFINE Unfolded(g) ==
        [r \in RangesToSort |->
            LET p == Partition(r.d, r.first, r.last)
                left == IF p.j > r.first THEN g[[d |-> p.d, first |-> r.first, last |-> p.j]]
                        ELSE p.d
            IN  IF p.i < r.last THEN g[[d |-> left, first |-> p.i, last |-> r.last]] ELSE left]
<1>11. \A g : Unfolded(g) = Made(g)
  BY DEF Parts, Left, LeftOf, RightOf
<1>12. Qsort = CHOOSE g : g = Unfolded(g)
  BY DEF Qsort
<1>13. Qsort = Unfolded(Qsort)
  <2> HIDE DEF Unfolded, Made
  <2> QED  BY <1>10, <1>11, <1>12
<1>14. Qsort = Made(Qsort)
  <2> HIDE DEF Unfolded, Made
  <2> QED  BY <1>11, <1>13
<1>15. \A r \in RangesToSort : Qsort[r] = Body(Qsort, r)
  <2> HIDE DEF Body
  <2> QED  BY <1>14
<1> QED  BY <1>15

\* What array_qsort leaves in a range is what was there, in ascending order.
LEMMA QsortIs ==
    ASSUME NEW r \in RangesToSort
    PROVE  Arranged(Qsort[r], r)
BY QsortUnfolds, SortingIs

\* binary_search leaves its loop at the key, or with what is less before and what
\* is greater behind.
Found(d, key, first) == first \in 1 .. Len(d) /\ d[first] = key
Between(d, key, first, next) ==
    /\ \A k \in 1 .. Len(d) : k < first => d[k] < key
    /\ \A k \in 1 .. Len(d) : k >= next => d[k] > key

\* One round of binary_search: the key is found, or what is left of the range is
\* still between what is less and what is greater.
LEMMA HalveIs ==
    ASSUME NEW d \in Seq(Keys), NEW key \in Keys, InOrder(d, 1, Len(d)),
           NEW s \in [first : Nat, len : Nat], s.len # 0,
           1 <= s.first, s.first + s.len <= Len(d) + 1, Between(d, key, s.first, s.first + s.len)
    PROVE  LET t == Halve(d, key, s)
           IN  /\ t \in [first : Nat, len : Nat]
               /\ 1 <= t.first /\ t.first + t.len <= Len(d) + 1 /\ t.len < s.len
               /\ \/ Between(d, key, t.first, t.first + t.len)
                  \/ t.len = 0 /\ Found(d, key, t.first)
<1> DEFINE first == s.first
           len == s.len
           half == len \div 2
           middle == first + half
           n == Len(d)
           t == Halve(d, key, s)
<1>1. /\ n \in Nat /\ first \in Nat /\ len \in Nat /\ 1 <= first /\ first + len <= n + 1 /\ len > 0
  OBVIOUS
<1>2. half \in Nat /\ half < len
  <2> HIDE DEF first, len, n
  <2> QED  BY <1>1
<1>3. key \in Nat /\ \A k \in 1 .. n : d[k] \in Nat
  <2>1. \A k \in 1 .. n : d[k] \in Keys
    OBVIOUS
  <2> QED  BY <2>1, BinaryArrayAssumption
<1>4. Between(d, key, first, first + len)
  OBVIOUS
<1>5. t = IF d[middle] < key THEN [first |-> middle + 1, len |-> len - half - 1]
          ELSE IF d[middle] = key THEN [first |-> middle, len |-> 0]
          ELSE [first |-> first, len |-> half]
  BY DEF Halve
<1>6. \A a, b \in 1 .. n : a <= b => d[a] <= d[b]
  BY DEF InOrder
<1> HIDE DEF first, len, n, half, t
<1>7. middle \in 1 .. n /\ d[middle] \in Nat
  <2>1. middle \in 1 .. n
    BY <1>1, <1>2
  <2> QED  BY <1>3, <2>1
<1>8. CASE d[middle] < key
  <2>1. t = [first |-> middle + 1, len |-> len - half - 1]
    BY <1>5, <1>8
  <2>2. middle + 1 \in Nat /\ len - half - 1 \in Nat /\ (middle + 1) + (len - half - 1) = first + len
    BY <1>1, <1>2
  <2>3. ASSUME NEW k \in 1 .. n, k < middle + 1  PROVE d[k] < key
    <3>1. k <= middle
      BY <1>1, <1>2, <2>3
    <3>2. d[k] <= d[middle] /\ d[k] \in Nat
      BY <1>3, <1>6, <1>7, <3>1
    <3> QED  BY <1>3, <1>7, <1>8, <3>2
  <2>4. Between(d, key, middle + 1, first + len)
    BY <1>4, <2>3 DEF Between, n
  <2> HIDE DEF middle
  <2>5. t.first = middle + 1 /\ t.len = len - half - 1 /\ t \in [first : Nat, len : Nat]
    BY <2>1, <2>2
  <2>6. 1 <= t.first /\ t.first + t.len <= n + 1 /\ t.len < len
    BY <1>1, <1>2, <2>2, <2>5
  <2>7. Between(d, key, t.first, t.first + t.len)
    BY <2>2, <2>4, <2>5
  <2> QED  BY <2>5, <2>6, <2>7 DEF t, len, n
<1>9. CASE d[middle] = key
  <2>1. t = [first |-> middle, len |-> 0]
    BY <1>3, <1>5, <1>9
  <2>2. middle \in Nat /\ 1 <= middle /\ middle <= n + 1
    BY <1>1, <1>7
  <2> HIDE DEF middle
  <2>3. t.first = middle /\ t.len = 0 /\ t \in [first : Nat, len : Nat]
    BY <2>1, <2>2
  <2>4. Found(d, key, t.first)
    BY <1>7, <1>9, <2>3 DEF Found, n
  <2>5. 1 <= t.first /\ t.first + t.len <= n + 1 /\ t.len < len
    BY <1>1, <2>2, <2>3
  <2> QED  BY <2>3, <2>4, <2>5 DEF t, len, n
<1>10. CASE d[middle] > key
  <2>1. t = [first |-> first, len |-> half]
    BY <1>3, <1>5, <1>7, <1>10
  <2>2. t.first = first /\ t.len = half /\ t \in [first : Nat, len : Nat]
    BY <1>1, <1>2, <2>1
  <2>3. ASSUME NEW k \in 1 .. n, k >= first + half  PROVE d[k] > key
    <3>1. d[middle] <= d[k] /\ d[k] \in Nat
      BY <1>3, <1>6, <1>7, <2>3
    <3> QED  BY <1>3, <1>7, <1>10, <3>1
  <2>4. Between(d, key, first, first + half)
    BY <1>4, <2>3 DEF Between, n
  <2>5. 1 <= t.first /\ t.first + t.len <= n + 1 /\ t.len < len
    BY <1>1, <1>2, <2>2
  <2> HIDE DEF middle
  <2>6. Between(d, key, t.first, t.first + t.len)
    BY <2>2, <2>4
  <2> QED  BY <2>2, <2>5, <2>6 DEF t, len, n
<1> QED  BY <1>3, <1>7, <1>8, <1>9, <1>10

\* The loop of binary_search, after as many rounds as there are entries.
LEMMA BisectIs ==
    ASSUME NEW d \in Seq(Keys), NEW key \in Keys, InOrder(d, 1, Len(d))
    PROVE  /\ Bisect(d, key) \in 1 .. Len(d) + 1
           /\ \/ Found(d, key, Bisect(d, key))
              \/ Between(d, key, Bisect(d, key), Bisect(d, key))
<1> DEFINE n == Len(d)
           R == [first : Nat, len : Nat]
           start == [first |-> 1, len |-> n]
           Good(s) == /\ 1 <= s.first /\ s.first + s.len <= n + 1
                      /\ \/ Between(d, key, s.first, s.first + s.len)
                         \/ s.len = 0 /\ Found(d, key, s.first)
           S == {s \in R : Good(s)}
           Halved(s) == IF s.len = 0 THEN s ELSE Halve(d, key, s)
           Loop(f) == [i \in 0 .. n |-> IF i = 0 THEN start ELSE Halved(f[i - 1])]
           loop == CHOOSE f : f = Loop(f)
           g == [s \in S |-> Halved(s)]
<1>1. n \in Nat
  OBVIOUS
<1>2. start \in S
  <2>1. \A k \in 1 .. n : ~(k < 1) /\ ~(k >= 1 + n)
    BY <1>1
  <2>2. Between(d, key, 1, 1 + n)
    BY <2>1 DEF Between
  <2>3. start \in R /\ start.first = 1 /\ start.len = n
    BY <1>1
  <2> HIDE DEF start, n
  <2> QED  BY <1>1, <2>2, <2>3
<1>3. ASSUME NEW s \in S
      PROVE  /\ Halved(s) \in S /\ Halved(s).len \in Nat /\ s.len \in Nat
             /\ s.len # 0 => Halved(s).len < s.len
             /\ s.len = 0 => Halved(s) = s
  <2>1. s \in R /\ s.len \in Nat
    OBVIOUS
  <2>2. CASE s.len = 0
    BY <2>1, <2>2
  <2>3. CASE s.len # 0
    <3> DEFINE t == Halve(d, key, s)
    <3>1. 1 <= s.first /\ s.first + s.len <= n + 1 /\ Between(d, key, s.first, s.first + s.len)
      BY <2>3
    <3>2. t \in R /\ Good(t) /\ t.len < s.len
      BY <2>1, <2>3, <3>1, HalveIs
    <3>3. t \in S /\ t.len \in Nat
      <4> HIDE DEF t, Good
      <4> QED  BY <3>2
    <3> QED  BY <2>1, <2>3, <3>2, <3>3
  <2> QED  BY <2>2, <2>3
<1>4. g \in [S -> S] /\ \A s \in S : g[s] = Halved(s)
  <2> HIDE DEF S, Halved
  <2> QED  BY <1>3
<1> HIDE DEF g
<1>5. PICK f \in [0 .. n -> S] : f[0] = start /\ \A i \in 1 .. n : f[i] = g[f[i - 1]]
  <2> HIDE DEF S, start, n
  <2>1. \E f : Iterates(f, S, start, n, g)
    BY <1>1, <1>2, <1>4, IterationOn
  <2> QED  BY <2>1 DEF Iterates
<1>6. \E h : h = Loop(h)
  <2> HIDE DEF S, start, Halved
  <2>1. ASSUME NEW i \in 0 .. n  PROVE f[i] = IF i = 0 THEN start ELSE Halved(f[i - 1])
    <3>1. CASE i = 0
      BY <1>5, <3>1
    <3>2. CASE i # 0
      <4>1. i \in 1 .. n /\ i - 1 \in 0 .. n
        BY <1>1, <3>2
      <4> HIDE DEF n
      <4>2. f[i - 1] \in S
        BY <1>5, <4>1
      <4> QED  BY <1>4, <1>5, <3>2, <4>1, <4>2
    <3> QED  BY <3>1, <3>2
  <2>2. f = Loop(f)
    <3> HIDE DEF n
    <3> QED  BY <1>5, <2>1
  <2> HIDE DEF Loop
  <2> QED  BY <2>2
<1>7. loop = Loop(loop)
  <2> HIDE DEF Loop
  <2> QED  BY <1>6
<1>8. loop[0] = start /\ \A i \in 1 .. n : loop[i] = Halved(loop[i - 1])
  <2>1. \A i \in 0 .. n : loop[i] = IF i = 0 THEN start ELSE Halved(loop[i - 1])
    <3> HIDE DEF loop, start, Halved, n
    <3> QED  BY <1>7
  <2> HIDE DEF loop, start, Halved
  <2> QED  BY <1>1, <2>1
<1>9. Bisect(d, key) = loop[n].first
  BY DEF Bisect
<1> HIDE DEF loop, Loop, Halved
<1> DEFINE T == {i \in Nat : i <= n => loop[i] \in S /\ (loop[i].len = 0 \/ loop[i].len <= n - i)}
<1>10. 0 \in T
  <2>1. start.len = n
    OBVIOUS
  <2> HIDE DEF start, n, S
  <2> QED  BY <1>1, <1>2, <1>8, <2>1
<1>11. ASSUME NEW i \in Nat, i \in T, i + 1 <= n
       PROVE  loop[i + 1] \in S /\ (loop[i + 1].len = 0 \/ loop[i + 1].len <= n - (i + 1))
  <2>1. i + 1 \in 1 .. n /\ (i + 1) - 1 = i /\ i <= n
    <3> HIDE DEF T, n
    <3> QED  BY <1>1, <1>11
  <2> DEFINE s == loop[i]
             t == loop[i + 1]
  <2>2. s \in S /\ (s.len = 0 \/ s.len <= n - i)
    <3> HIDE DEF n, S
    <3> QED  BY <1>11, <2>1
  <2>3. t = Halved(s)
    <3> HIDE DEF T, n
    <3> QED  BY <1>8, <2>1
  <2> HIDE DEF s, t, n, S
  <2>4. t \in S /\ t.len \in Nat /\ s.len \in Nat /\ (s.len # 0 => t.len < s.len)
        /\ (s.len = 0 => t.len = 0)
    BY <1>3, <2>2, <2>3
  <2> QED  BY <1>1, <2>2, <2>4 DEF t
<1>12. \A i \in Nat : i \in T => i + 1 \in T
  <2> HIDE DEF S, n
  <2> QED  BY <1>11
<1>13. n \in T
  <2> HIDE DEF T, n
  <2> QED  BY <1>1, <1>10, <1>12, InductionOn
<1> DEFINE s == loop[n]
<1>14. s \in S /\ s.len = 0
  <2>1. s \in S /\ (s.len = 0 \/ s.len <= n - n)
    <3> HIDE DEF S, n
    <3> QED  BY <1>1, <1>13
  <2>2. s.len \in Nat
    BY <2>1
  <2> HIDE DEF S, s, n
  <2> QED  BY <1>1, <2>1, <2>2
<1>15. s.first \in Nat /\ s.len = 0 /\ Good(s)
  BY <1>14
<1> HIDE DEF s
<1>16. s.first + s.len = s.first /\ 1 <= s.first /\ s.first <= n + 1
  BY <1>1, <1>15
<1>17. Found(d, key, s.first) \/ Between(d, key, s.first, s.first)
  BY <1>15, <1>16
<1> QED  BY <1>1, <1>9, <1>15, <1>16, <1>17 DEF s

\* binary_search with exact: the place of the key, or 0 if there is none.
LEMMA SearchIs ==
    ASSUME NEW d \in Seq(Keys), NEW key \in Keys, InOrder(d, 1, Len(d)), NEW exact \in BOOLEAN
    PROVE  LET index == Search(d, key, exact)
           IN  /\ index \in 0 .. Len(d)
               /\ exact => IF index = 0 THEN \A k \in 1 .. Len(d) : d[k] # key
                           ELSE d[index] = key
               /\ ~exact /\ index = 0 => \A k \in 1 .. Len(d) : d[k] <= key
               /\ ~exact /\ index # 0 =>
                      /\ \A k \in 1 .. index - 1 : d[k] <= key
                      /\ d[index] >= key
                      /\ d[index] = key => index > 1 /\ d[index - 1] = key
<1> DEFINE n == Len(d)
           f == Bisect(d, key)
           index == Search(d, key, exact)
<1>1. /\ n \in Nat /\ f \in 1 .. n + 1
      /\ Found(d, key, f) \/ Between(d, key, f, f)
  BY BisectIs
<1>2. key \in Nat /\ \A k \in 1 .. n : d[k] \in Nat
  <2>1. \A k \in 1 .. n : d[k] \in Keys
    OBVIOUS
  <2> QED  BY <2>1, BinaryArrayAssumption
<1>3. \A a, b \in 1 .. n : a <= b => d[a] <= d[b]
  BY DEF InOrder
<1>4. index = IF f > n THEN 0
              ELSE IF d[f] # key THEN (IF exact THEN 0 ELSE f)
              ELSE IF exact THEN f
              ELSE IF f = n THEN 0 ELSE f + 1
  BY DEF Search
<1>5. Between(d, key, f, f) => \A k \in 1 .. n : (k < f => d[k] < key) /\ (k >= f => d[k] > key)
  BY DEF Between
<1>6. Found(d, key, f) => f \in 1 .. n /\ d[f] = key
  BY DEF Found
<1> HIDE DEF n, f, index
<1>7. CASE f > n
  <2>1. index = 0 /\ \A k \in 1 .. n : d[k] < key
    BY <1>1, <1>4, <1>5, <1>6, <1>7
  <2>2. \A k \in 1 .. n : d[k] # key /\ d[k] <= key
    BY <1>2, <2>1
  <2> QED  BY <1>1, <2>1, <2>2 DEF n, index
<1>8. CASE f <= n /\ d[f] # key
  <2>1. f \in 1 .. n /\ \A k \in 1 .. n : (k < f => d[k] < key) /\ (k >= f => d[k] > key)
    BY <1>1, <1>5, <1>6, <1>8
  <2>2. \A k \in 1 .. n : d[k] # key /\ (k < f => d[k] <= key) /\ (k >= f => d[k] >= key)
    BY <1>1, <1>2, <2>1
  <2>3. index = IF exact THEN 0 ELSE f
    BY <1>1, <1>4, <1>8
  <2>4. \A k \in 1 .. f - 1 : k \in 1 .. n /\ k < f
    BY <1>1, <2>1
  <2> QED  BY <1>1, <2>1, <2>2, <2>3, <2>4 DEF n, index
<1>9. CASE f <= n /\ d[f] = key
  <2>1. f \in 1 .. n
    BY <1>1, <1>9
  <2>2. index = IF exact THEN f ELSE IF f = n THEN 0 ELSE f + 1
    BY <1>1, <1>4, <1>9
  <2>3. \A k \in 1 .. n : (k <= f => d[k] <= key) /\ (k >= f => d[k] >= key)
    BY <1>3, <1>9, <2>1
  <2>4. CASE exact
    BY <1>1, <1>9, <2>1, <2>2, <2>4 DEF n, index
  <2>5. CASE ~exact /\ f = n
    <3>1. index = 0 /\ \A k \in 1 .. n : d[k] <= key
      BY <2>1, <2>2, <2>3, <2>5
    <3> QED  BY <1>1, <2>5, <3>1 DEF n, index
  <2>6. CASE ~exact /\ f # n
    <3>1. index = f + 1 /\ index \in 1 .. n /\ index - 1 = f /\ index > 1
      BY <1>1, <2>1, <2>2, <2>6
    <3>2. \A k \in 1 .. index - 1 : d[k] <= key
      <4>1. \A k \in 1 .. index - 1 : k \in 1 .. n /\ k <= f
        BY <1>1, <2>1, <3>1
      <4> QED  BY <2>3, <4>1
    <3>3. d[index] >= key
      BY <2>1, <2>3, <3>1
    <3> QED  BY <1>1, <1>9, <2>6, <3>1, <3>2, <3>3 DEF n, index
  <2> QED  BY <2>4, <2>5, <2>6
<1> QED  BY <1>1, <1>7, <1>8, <1>9

Distinct(d) == \A a, b \in 1 .. Len(d) : d[a] = d[b] => a = b

\* The container: what is not dirty is in order, and without duplicates every
\* key is there once.
ContainerInv ==
    /\ duplicates \in BOOLEAN /\ dirty \in BOOLEAN /\ disturbed \in BOOLEAN
    /\ data \in Seq(Keys) /\ sync \in Nat /\ itSync \in Nat
    /\ pos \in Int /\ pos >= -1
    /\ ~dirty => InOrder(data, 1, Len(data))
    /\ ~duplicates => Distinct(data)

\* The iterator: nothing is sorted under one that is not disturbed.
ArrayInv == ContainerInv /\ (~disturbed => ~dirty) /\ VisitsAll

\* Sorting changes the order of the entries, and nothing in a container that is not
\* dirty.
LEMMA SortedIs ==
    ASSUME ContainerInv
    PROVE  /\ SortedData \in Seq(Keys) /\ Len(SortedData) = Len(data)
           /\ InOrder(SortedData, 1, Len(SortedData))
           /\ ToSet(SortedData) = ToSet(data)
           /\ ~duplicates => Distinct(SortedData)
           /\ ~dirty => SortedData = data
<1> DEFINE n == Len(data)
<1>1. n \in Nat /\ data \in Seq(Keys) /\ (~duplicates => Distinct(data))
  BY DEF ContainerInv
<1>2. Reordered(SortedData, data, 1, n) /\ InOrder(SortedData, 1, n)
  <2>1. CASE dirty /\ n > 1
    <3> DEFINE r == [d |-> data, first |-> 1, last |-> n]
    <3>1. r \in RangesToSort /\ r.d = data /\ r.first = 1 /\ r.last = n
      <4> HIDE DEF n
      <4>1. 1 \in Nat /\ 1 <= 1 /\ 1 < n /\ n <= n
        BY <1>1, <2>1
      <4> QED  BY <1>1, <4>1 DEF RangesToSort, n
    <3>2. SortedData = Qsort[r]
      BY <2>1 DEF SortedData
    <3> HIDE DEF r
    <3> QED  BY <3>1, <3>2, QsortIs DEF Arranged
  <2>2. CASE ~(dirty /\ n > 1)
    <3>1. SortedData = data
      BY <2>2 DEF SortedData
    <3>2. InOrder(data, 1, n)
      <4>1. CASE ~dirty
        BY <4>1 DEF ContainerInv
      <4>2. CASE ~(n > 1)
        <5>1. \A a, b \in 1 .. n : a = b /\ a \in 1 .. n
          <6> HIDE DEF n
          <6> QED  BY <1>1, <4>2
        <5>2. \A a \in 1 .. n : data[a] \in Keys
          BY <1>1
        <5>3. \A a \in 1 .. n : data[a] \in Nat
          BY <5>2, BinaryArrayAssumption
        <5> HIDE DEF n
        <5> QED  BY <5>1, <5>3 DEF InOrder
      <4> QED  BY <2>2, <4>1, <4>2
    <3> QED  BY <1>1, <3>1, <3>2, ReorderedSame
  <2> QED  BY <2>1, <2>2
<1>3. PICK place : /\ IsOrder(place, n, 1, n) /\ \A k \in 1 .. n : SortedData[k] = data[place[k]]
                   /\ SortedData \in Seq(Keys) /\ Len(SortedData) = n
  BY <1>2 DEF Reordered
<1>4. /\ place \in [1 .. n -> 1 .. n]
      /\ \A a, b \in 1 .. n : place[a] = place[b] => a = b
      /\ \A k \in 1 .. n : \E a \in 1 .. n : place[a] = k
  BY <1>3 DEF IsOrder
<1>5. ToSet(SortedData) = ToSet(data)
  <2>1. DOMAIN SortedData = 1 .. n /\ DOMAIN data = 1 .. n
    BY <1>1, <1>3
  <2> HIDE DEF n
  <2>2. ASSUME NEW x \in ToSet(SortedData)  PROVE x \in ToSet(data)
    BY <1>3, <1>4, <2>1 DEF ToSet
  <2>3. ASSUME NEW x \in ToSet(data)  PROVE x \in ToSet(SortedData)
    <3>1. PICK k \in 1 .. n : x = data[k]
      BY <2>1 DEF ToSet
    <3>2. PICK a \in 1 .. n : place[a] = k
      BY <1>4
    <3>3. SortedData[a] = x
      BY <1>3, <3>1, <3>2
    <3> QED  BY <2>1, <3>3 DEF ToSet
  <2> QED  BY <2>2, <2>3
<1>6. ~duplicates => Distinct(SortedData)
  <2> SUFFICES ASSUME ~duplicates, NEW a \in 1 .. n, NEW b \in 1 .. n, SortedData[a] = SortedData[b]
               PROVE  a = b
    BY <1>3 DEF Distinct
  <2>1. place[a] \in 1 .. n /\ place[b] \in 1 .. n /\ data[place[a]] = data[place[b]]
    BY <1>3, <1>4
  <2>2. place[a] = place[b]
    BY <1>1, <2>1 DEF Distinct
  <2> QED  BY <1>4, <2>2
<1>7. ~dirty => SortedData = data
  BY DEF SortedData
<1> QED  BY <1>2, <1>3, <1>5, <1>6, <1>7

\* find_next gives the least key that is greater, whatever duplicates there are.
LEMMA NextIs ==
    ASSUME ContainerInv, NEW key \in Keys
    PROVE  FindNext(key)
             = {k \in ToSet(data) : k > key /\ \A j \in ToSet(data) : j > key => k <= j}
<1> DEFINE d == SortedData
           n == Len(d)
           S == ToSet(data)
           index == Search(d, key, FALSE)
           behind == {k \in index .. n : d[k] # key}
           found == Get(d, key, FALSE)
<1>1. d \in Seq(Keys) /\ n \in Nat /\ InOrder(d, 1, n) /\ (~duplicates => Distinct(d)) /\ S = ToSet(d)
  <2>1. SortedData \in Seq(Keys)
    BY SortedIs
  <2>2. Len(SortedData) \in Nat
    BY <2>1
  <2> QED  BY <2>2, SortedIs
<1>2. S = {d[k] : k \in 1 .. n}
  <2> HIDE DEF d
  <2>1. DOMAIN d = 1 .. n
    BY <1>1
  <2> HIDE DEF S
  <2> QED  BY <1>1, <2>1 DEF ToSet
<1>3. key \in Nat /\ \A k \in 1 .. n : d[k] \in Nat
  <2> HIDE DEF d
  <2>1. \A k \in 1 .. n : d[k] \in Keys
    BY <1>1
  <2> QED  BY <2>1, BinaryArrayAssumption
<1>4. \A a, b \in 1 .. n : a <= b => d[a] <= d[b]
  BY <1>1 DEF InOrder
<1>5. /\ index \in 0 .. n
      /\ index = 0 => \A k \in 1 .. n : d[k] <= key
      /\ index # 0 => /\ \A k \in 1 .. index - 1 : d[k] <= key
                      /\ d[index] >= key
                      /\ d[index] = key => index > 1 /\ d[index - 1] = key
  <2> HIDE DEF d
  <2> QED  BY <1>1, SearchIs
<1>6. found = IF index = 0 \/ ~duplicates THEN index
              ELSE IF behind = {} THEN 0 ELSE LeastPlace(behind)
  BY DEF Get
<1>7. FindNext(key) = IF found = 0 THEN {} ELSE {d[found]}
  BY DEF FindNext
<1> HIDE DEF d, n, S, index, found
<1>8. CASE index = 0
  <2>1. FindNext(key) = {}
    BY <1>6, <1>7, <1>8
  <2>2. \A k \in S : ~(k > key)
    BY <1>2, <1>3, <1>5, <1>8
  <2> QED  BY <2>1, <2>2 DEF S
<1>9. ASSUME NEW a \in 1 .. n, d[a] > key, \A k \in 1 .. a - 1 : d[k] <= key, found = a
      PROVE  FindNext(key) = {k \in S : k > key /\ \A j \in S : j > key => k <= j}
  <2>1. FindNext(key) = {d[a]}
    BY <1>7, <1>9
  <2>2. d[a] \in S /\ d[a] > key /\ d[a] \in Nat
    BY <1>2, <1>3, <1>9
  <2>3. ASSUME NEW j \in S, j > key  PROVE d[a] <= j /\ j \in Nat
    <3>1. PICK b \in 1 .. n : j = d[b]
      BY <1>2
    <3>2. ~(b \in 1 .. a - 1)
      BY <1>3, <1>9, <2>3, <3>1
    <3>3. a <= b
      BY <1>1, <3>2
    <3> QED  BY <1>3, <1>4, <3>1, <3>3
  <2>4. ASSUME NEW k \in S, k > key, \A j \in S : j > key => k <= j  PROVE k = d[a]
    BY <2>2, <2>3, <2>4
  <2> QED  BY <2>1, <2>2, <2>3, <2>4
<1>10. CASE index # 0 /\ ~duplicates
  <2>1. index \in 1 .. n /\ found = index
    BY <1>1, <1>5, <1>6, <1>10
  <2>2. d[index] # key
    <3> SUFFICES ASSUME d[index] = key  PROVE FALSE
      OBVIOUS
    <3>1. index > 1 /\ d[index - 1] = key
      BY <1>5, <1>10
    <3>2. index - 1 \in 1 .. n
      BY <1>1, <2>1, <3>1
    <3>3. index - 1 = index
      BY <1>1, <1>10, <2>1, <3>1, <3>2 DEF Distinct, n
    <3> QED  BY <2>1, <3>3
  <2>3. d[index] > key
    BY <1>3, <1>5, <1>10, <2>1, <2>2
  <2> QED  BY <1>5, <1>9, <1>10, <2>1, <2>3 DEF S
<1>11. CASE index # 0 /\ duplicates
  <2>1. index \in 1 .. n
    BY <1>1, <1>5, <1>11
  <2>2. behind \subseteq 1 .. n
    BY <1>1, <2>1
  <2>3. CASE behind = {}
    <3>1. FindNext(key) = {}
      BY <1>6, <1>7, <1>11, <2>3
    <3>2. ASSUME NEW k \in 1 .. n  PROVE d[k] <= key
      <4>1. CASE k \in 1 .. index - 1
        BY <1>5, <1>11, <4>1
      <4>2. CASE k \in index .. n
        <5>1. d[k] = key
          BY <2>3, <4>2
        <5> QED  BY <1>3, <5>1
      <4> QED  BY <1>1, <2>1, <4>1, <4>2
    <3>3. \A k \in S : ~(k > key)
      BY <1>2, <1>3, <3>2
    <3> QED  BY <3>1, <3>3 DEF S
  <2>4. CASE behind # {}
    <3> DEFINE a == LeastPlace(behind)
    <3>1. a \in behind /\ \A k \in behind : a <= k
      <4>1. behind \subseteq Nat
        BY <2>2
      <4> HIDE DEF behind
      <4> QED  BY <2>4, <4>1, LeastIs
    <3>2. found = a
      BY <1>6, <1>11, <2>4
    <3> HIDE DEF a
    <3>3. a \in 1 .. n /\ a \in index .. n /\ d[a] # key
      BY <2>2, <3>1
    <3>4. d[a] > key
      <4>1. d[index] <= d[a] /\ d[index] >= key
        BY <1>4, <1>5, <1>11, <2>1, <3>3
      <4> QED  BY <1>3, <2>1, <3>3, <4>1
    <3>5. ASSUME NEW k \in 1 .. a - 1  PROVE d[k] <= key
      <4>1. CASE k \in 1 .. index - 1
        BY <1>5, <1>11, <4>1
      <4>2. CASE k \in index .. n
        <5>1. k \notin behind
          BY <3>1, <3>3
        <5>2. d[k] = key
          BY <4>2, <5>1
        <5> QED  BY <1>3, <5>2
      <4> QED  BY <1>1, <2>1, <3>3, <4>1, <4>2
    <3> QED  BY <1>9, <3>2, <3>3, <3>4, <3>5 DEF S
  <2> QED  BY <2>3, <2>4
<1> QED  BY <1>8, <1>10, <1>11 DEF ContainerInv

\* An exact search finds the key if it is there.
LEMMA GetExactly ==
    ASSUME NEW d \in Seq(Keys), NEW key \in Keys, InOrder(d, 1, Len(d))
    PROVE  LET index == Get(d, key, TRUE)
           IN  /\ index \in 0 .. Len(d)
               /\ IF index = 0 THEN \A k \in 1 .. Len(d) : d[k] # key ELSE d[index] = key
<1>1. Get(d, key, TRUE) = Search(d, key, TRUE)
  BY DEF Get
<1> QED  BY <1>1, SearchIs

\* What netsnmp_binary_array_remove_at leaves.
LEMMA RemovedIs ==
    ASSUME NEW d \in Seq(Keys), NEW k \in 1 .. Len(d)
    PROVE  /\ RemoveAt(d, k) \in Seq(Keys) /\ Len(RemoveAt(d, k)) = Len(d) - 1
           /\ \A i \in 1 .. Len(d) - 1 : RemoveAt(d, k)[i] = IF i < k THEN d[i] ELSE d[i + 1]
<1> DEFINE front == SubSeq(d, 1, k - 1)
           rest == SubSeq(d, k + 1, Len(d))
           r == RemoveAt(d, k)
<1>1. front \in Seq(Keys) /\ Len(front) = k - 1 /\ \A i \in 1 .. k - 1 : front[i] = d[i]
  OBVIOUS
<1>2. rest \in Seq(Keys) /\ Len(rest) = Len(d) - k /\ \A i \in 1 .. Len(d) - k : rest[i] = d[k + i]
  OBVIOUS
<1>3. r = front \o rest
  BY DEF RemoveAt
<1> HIDE DEF front, rest, r
<1>4. r \in Seq(Keys) /\ Len(r) = Len(d) - 1
  <2>1. r \in Seq(Keys) /\ Len(r) = Len(front) + Len(rest)
    <3>1. front \in Seq(Keys) /\ rest \in Seq(Keys)
      BY <1>1, <1>2
    <3> QED  BY <1>3, <3>1
  <2>2. Len(d) \in Nat
    OBVIOUS
  <2> QED  BY <1>1, <1>2, <2>1, <2>2
<1>5. ASSUME NEW i \in 1 .. Len(d) - 1  PROVE r[i] = IF i < k THEN d[i] ELSE d[i + 1]
  <2>1. r[i] = IF i <= Len(front) THEN front[i] ELSE rest[i - Len(front)]
    BY <1>1, <1>2, <1>3
  <2>2. CASE i < k
    BY <1>1, <2>1, <2>2
  <2>3. CASE i >= k
    <3>1. i - (k - 1) \in 1 .. Len(d) - k /\ k + (i - (k - 1)) = i + 1
      BY <2>3
    <3> QED  BY <1>1, <1>2, <2>1, <2>3, <3>1
  <2> QED  BY <2>2, <2>3
<1> QED  BY <1>4, <1>5 DEF r

\* ... is in order if it was, and without duplicates.
LEMMA RemovedKeeps ==
    ASSUME NEW d \in Seq(Keys), NEW k \in 1 .. Len(d)
    PROVE  /\ InOrder(d, 1, Len(d)) => InOrder(RemoveAt(d, k), 1, Len(RemoveAt(d, k)))
           /\ Distinct(d) => Distinct(RemoveAt(d, k))
<1> DEFINE n == Len(d)
           r == RemoveAt(d, k)
           from(i) == IF i < k THEN i ELSE i + 1
<1>1. n \in Nat /\ k \in 1 .. n
  OBVIOUS
<1>2. Len(r) = n - 1 /\ \A i \in 1 .. n - 1 : r[i] = d[from(i)]
  BY RemovedIs
<1> HIDE DEF n, r
<1>3. \A i \in 1 .. n - 1 : from(i) \in 1 .. n
  BY <1>1
<1>4. \A a, b \in 1 .. n - 1 : (a <= b => from(a) <= from(b)) /\ (from(a) = from(b) => a = b)
  BY <1>1
<1> HIDE DEF from
<1>5. InOrder(d, 1, n) => InOrder(r, 1, n - 1)
  BY <1>2, <1>3, <1>4 DEF InOrder
<1>6. Distinct(d) => Distinct(r)
  BY <1>2, <1>3, <1>4 DEF Distinct, n
<1> QED  BY <1>2, <1>5, <1>6 DEF n, r

\* The count of changes moves only when something is sorted.
LEMMA SortingKeeps ==
    ASSUME ContainerInv
    PROVE  /\ SyncWhenSorted \in Nat
           /\ ~dirty => SyncWhenSorted = sync
  BY DEF ContainerInv, SyncWhenSorted

\* Whoever else changes the container disturbs the iterator.
LEMMA DisturbedNow ==
    ASSUME ContainerInv, Disturb(TRUE)
    PROVE  disturbed' /\ VisitsAll' /\ disturbed' \in BOOLEAN
  BY DEF ContainerInv, Disturb, VisitsAll

\* What is only sorted is not changed when it was in order.
LEMMA DisturbedIfDirty ==
    ASSUME ArrayInv, Disturb(dirty), data' = SortedData, sync' = SyncWhenSorted,
           UNCHANGED <<pos, itSync>>
    PROVE  VisitsAll' /\ disturbed' \in BOOLEAN
<1>1. CASE dirty
  <2>1. Disturb(TRUE)
    BY <1>1 DEF Disturb
  <2> QED  BY <2>1, DisturbedNow DEF ArrayInv
<1>2. CASE ~dirty
  <2>1. data' = data /\ sync' = sync
    BY <1>2, SortedIs, SortingKeeps DEF ArrayInv
  <2>2. disturbed' = disturbed /\ (~disturbed => ahead' = ahead)
    BY <1>2 DEF Disturb, ArrayInv, ContainerInv
  <2> QED  BY <2>1, <2>2 DEF VisitsAll, ArrayInv, ContainerInv
<1> QED  BY <1>1, <1>2 DEF ArrayInv, ContainerInv

\* A step that only sorts keeps the invariant.
LEMMA LookUpKept ==
    ASSUME ArrayInv, LookUp
    PROVE  ArrayInv'
<1>1. /\ data' \in Seq(Keys) /\ InOrder(data', 1, Len(data')) /\ (~duplicates => Distinct(data'))
      /\ sync' \in Nat /\ dirty' = FALSE
  BY SortedIs DEF LookUp, ArrayInv, ContainerInv
<1>2. Disturb(TRUE) /\ UNCHANGED <<duplicates, pos, itSync>>
  BY DEF LookUp
<1>3. disturbed' /\ VisitsAll' /\ disturbed' \in BOOLEAN
  BY <1>2, DisturbedNow DEF ArrayInv
<1> QED  BY <1>1, <1>2, <1>3 DEF ArrayInv, ContainerInv

\* A key that is not there can be added without making a duplicate.
LEMMA AppendKeeps ==
    ASSUME NEW d \in Seq(Keys), NEW key \in Keys, Distinct(d), \A k \in 1 .. Len(d) : d[k] # key
    PROVE  Distinct(Append(d, key))
<1> DEFINE n == Len(d)
           e == Append(d, key)
<1>1. n \in Nat /\ Len(e) = n + 1 /\ e[n + 1] = key /\ \A k \in 1 .. n : e[k] = d[k]
  OBVIOUS
<1> HIDE DEF n, e
<1>2. \A k \in 1 .. n + 1 : k \in 1 .. n \/ k = n + 1
  BY <1>1
<1>3. ASSUME NEW a \in 1 .. n + 1, NEW b \in 1 .. n + 1, e[a] = e[b]  PROVE a = b
  BY <1>1, <1>2, <1>3 DEF Distinct, n
<1> QED  BY <1>1, <1>3 DEF Distinct, e

\* Inserting keeps the invariant: what is searched before is sorted first, and a key
\* that is known is not added.
LEMMA InsertKept ==
    ASSUME ArrayInv, NEW key \in Keys, InsertKey(key)
    PROVE  ArrayInv'
<1> DEFINE known == ~duplicates /\ data # <<>> /\ Get(SortedData, key, TRUE) # 0
           looked == ~duplicates /\ data # <<>>
<1>1. ContainerInv /\ VisitsAll
  BY DEF ArrayInv
<1>2. UNCHANGED <<duplicates, pos, itSync>>
  BY DEF InsertKey
<1>3. CASE known
  <2>1. data' = SortedData /\ dirty' = FALSE /\ sync' = SyncWhenSorted /\ Disturb(dirty)
    BY <1>3 DEF InsertKey
  <2>2. VisitsAll' /\ disturbed' \in BOOLEAN
    BY <1>2, <2>1, DisturbedIfDirty
  <2> QED  BY <1>1, <1>2, <2>1, <2>2, SortedIs, SortingKeeps DEF ArrayInv, ContainerInv
<1>4. CASE ~known
  <2> DEFINE d == IF looked THEN SortedData ELSE data
  <2>1. data' = Append(d, key) /\ dirty' = TRUE /\ sync' = sync + 1 /\ Disturb(TRUE)
    BY <1>4 DEF InsertKey
  <2>2. d \in Seq(Keys)
    BY <1>1, SortedIs DEF ContainerInv
  <2>3. ASSUME ~duplicates  PROVE Distinct(Append(d, key))
    <3>1. CASE data = <<>>
      <4>1. d = <<>> /\ Len(d) = 0
        BY <3>1
      <4>2. Distinct(d) /\ \A k \in 1 .. Len(d) : d[k] # key
        <5> HIDE DEF d
        <5> QED  BY <4>1 DEF Distinct
      <4> HIDE DEF d
      <4> QED  BY <2>2, <4>2, AppendKeeps
    <3>2. CASE data # <<>>
      <4>1. d = SortedData /\ Get(SortedData, key, TRUE) = 0
        BY <1>4, <2>3, <3>2
      <4>2. Distinct(d) /\ InOrder(d, 1, Len(d)) /\ Get(d, key, TRUE) = 0
        <5> HIDE DEF d
        <5> QED  BY <1>1, <2>3, <4>1, SortedIs
      <4> HIDE DEF d
      <4>3. \A k \in 1 .. Len(d) : d[k] # key
        BY <2>2, <4>2, GetExactly
      <4> QED  BY <2>2, <4>2, <4>3, AppendKeeps
    <3> QED  BY <3>1, <3>2
  <2>4. disturbed' /\ VisitsAll' /\ disturbed' \in BOOLEAN
    BY <1>1, <2>1, DisturbedNow
  <2>5. data' \in Seq(Keys)
    <3> HIDE DEF d
    <3> QED  BY <2>1, <2>2
  <2>6. ~duplicates => Distinct(data')
    <3> HIDE DEF d
    <3> QED  BY <2>1, <2>3
  <2> QED  BY <1>1, <1>2, <2>1, <2>4, <2>5, <2>6 DEF ArrayInv, ContainerInv
<1> QED  BY <1>3, <1>4

\* Removing a key keeps the invariant.
LEMMA RemoveKept ==
    ASSUME ArrayInv, NEW key \in Keys, RemoveKey(key)
    PROVE  ArrayInv'
<1> DEFINE index == Get(SortedData, key, TRUE)
<1>1. ContainerInv /\ VisitsAll /\ SyncWhenSorted \in Nat
  BY SortingKeeps DEF ArrayInv
<1>2. UNCHANGED <<duplicates, pos, itSync>> /\ dirty' = FALSE
  BY DEF RemoveKey
<1>3. SortedData \in Seq(Keys) /\ InOrder(SortedData, 1, Len(SortedData)) /\ (~duplicates => Distinct(SortedData))
  BY <1>1, SortedIs
<1>4. CASE index = 0
  <2>1. data' = SortedData /\ sync' = SyncWhenSorted /\ Disturb(dirty)
    BY <1>4 DEF RemoveKey
  <2>2. VisitsAll' /\ disturbed' \in BOOLEAN
    BY <1>2, <2>1, DisturbedIfDirty
  <2> QED  BY <1>1, <1>2, <1>3, <2>1, <2>2 DEF ArrayInv, ContainerInv
<1>5. CASE index # 0
  <2>1. RemovedAt(SortedData, SyncWhenSorted, index) /\ Disturb(TRUE)
    BY <1>5 DEF RemoveKey
  <2>2. data' = RemoveAt(SortedData, index) /\ sync' \in Nat
    <3> HIDE DEF index
    <3> QED  BY <1>1, <2>1 DEF RemovedAt
  <2>3. index \in 1 .. Len(SortedData)
    <3>1. index \in 0 .. Len(SortedData)
      BY <1>3, GetExactly
    <3>2. Len(SortedData) \in Nat
      BY <1>3
    <3> HIDE DEF index
    <3> QED  BY <1>5, <3>1, <3>2
  <2>4. /\ data' \in Seq(Keys) /\ InOrder(data', 1, Len(data'))
        /\ ~duplicates => Distinct(data')
    <3> HIDE DEF index
    <3> QED  BY <1>3, <2>2, <2>3, RemovedIs, RemovedKeeps
  <2>5. disturbed' /\ VisitsAll' /\ disturbed' \in BOOLEAN
    BY <1>1, <2>1, DisturbedNow
  <2> QED  BY <1>1, <1>2, <2>2, <2>4, <2>5 DEF ArrayInv, ContainerInv
<1> QED  BY <1>4, <1>5

\* Clearing keeps the invariant.
LEMMA ClearKept ==
    ASSUME ArrayInv, Clear
    PROVE  ArrayInv'
<1>1. data' = <<>> /\ dirty' = FALSE /\ sync' = sync + 1 /\ Disturb(TRUE)
      /\ UNCHANGED <<duplicates, pos, itSync>>
  BY DEF Clear
<1>2. disturbed' /\ VisitsAll' /\ disturbed' \in BOOLEAN
  BY <1>1, DisturbedNow DEF ArrayInv
<1>3. <<>> \in Seq(Keys) /\ 1 .. Len(<<>>) = {}
  OBVIOUS
<1>4. InOrder(data', 1, Len(data')) /\ Distinct(data')
  BY <1>1, <1>3 DEF InOrder, Distinct
<1>5. data' \in Seq(Keys) /\ dirty' = FALSE /\ sync' \in Nat
      /\ UNCHANGED <<duplicates, pos, itSync>>
  BY <1>1, <1>3 DEF ArrayInv, ContainerInv
<1> QED  BY <1>2, <1>4, <1>5 DEF ArrayInv, ContainerInv

\* Nothing is behind the last entry.
LEMMA EmptyBehind ==
    ASSUME NEW d \in Seq(Keys), NEW m \in Int, m > Len(d)
    PROVE  SubSeq(d, m, Len(d)) = <<>>
  OBVIOUS

\* The entries behind a place are one and the entries behind the next place.
LEMMA TailOfSubSeq ==
    ASSUME NEW d \in Seq(Keys), NEW m \in Nat, 1 <= m, m <= Len(d)
    PROVE  /\ SubSeq(d, m, Len(d)) # <<>>
           /\ Tail(SubSeq(d, m, Len(d))) = SubSeq(d, m + 1, Len(d))
<1> DEFINE s == SubSeq(d, m, Len(d))
           t == SubSeq(d, m + 1, Len(d))
           n == Len(d)
<1>1. n \in Nat /\ s \in Seq(Keys) /\ Len(s) = n - m + 1 /\ \A i \in 1 .. n - m + 1 : s[i] = d[m + i - 1]
  OBVIOUS
<1>2. t \in Seq(Keys) /\ Len(t) = n - m /\ \A i \in 1 .. n - m : t[i] = d[m + i]
  OBVIOUS
<1> HIDE DEF n
<1>3. Len(s) >= 1 /\ m \in Nat /\ m <= n
  BY <1>1 DEF n
<1> HIDE DEF s, t
<1>4. Tail(s) \in Seq(Keys) /\ Len(Tail(s)) = n - m /\ \A i \in 1 .. n - m : Tail(s)[i] = d[m + i]
  <2>1. s # <<>>
    BY <1>3
  <2>2. Tail(s) \in Seq(Keys) /\ Len(Tail(s)) = Len(s) - 1 /\ \A i \in 1 .. Len(s) - 1 : Tail(s)[i] = s[i + 1]
    BY <1>1, <2>1
  <2>3. \A i \in 1 .. n - m : i + 1 \in 1 .. n - m + 1 /\ m + (i + 1) - 1 = m + i /\ i \in 1 .. Len(s) - 1
    BY <1>1, <1>3
  <2> QED  BY <1>1, <1>3, <2>2, <2>3
<1>5. Tail(s) = t
  BY <1>2, <1>4
<1>6. s # <<>>
  BY <1>3
<1> QED  BY <1>5, <1>6 DEF s, t, n

\* A fresh iterator has all entries before it.
LEMMA ResetKept ==
    ASSUME ArrayInv, ItReset
    PROVE  ArrayInv'
<1>1. /\ data' = SortedData /\ dirty' = FALSE /\ sync' = SyncWhenSorted
      /\ pos' = 0 /\ itSync' = sync' /\ disturbed' = FALSE /\ duplicates' = duplicates
      /\ ahead' = IF data = <<>> THEN <<>> ELSE Tail(SortedData)
  BY DEF ItReset
<1>2. ContainerInv /\ SyncWhenSorted \in Nat
  BY SortingKeeps DEF ArrayInv
<1>3. /\ SortedData \in Seq(Keys) /\ Len(SortedData) = Len(data) /\ InOrder(SortedData, 1, Len(SortedData))
      /\ ~duplicates => Distinct(SortedData)
  BY <1>2, SortedIs
<1>4. SubSeq(SortedData, 2, Len(SortedData)) = ahead'
  <2>1. data \in Seq(Keys)
    BY <1>2 DEF ContainerInv
  <2>2. CASE data = <<>>
    <3>1. Len(SortedData) = 0
      BY <1>3, <2>2
    <3> QED  BY <1>1, <1>3, <2>2, <3>1, EmptyBehind
  <2>3. CASE data # <<>>
    <3>1. Len(SortedData) \in Nat /\ 1 <= Len(SortedData)
      BY <1>3, <2>1, <2>3
    <3>2. Tail(SubSeq(SortedData, 1, Len(SortedData))) = SubSeq(SortedData, 1 + 1, Len(SortedData))
      BY <1>3, <3>1, TailOfSubSeq
    <3>3. SubSeq(SortedData, 1, Len(SortedData)) = SortedData
      BY <1>3
    <3> QED  BY <1>1, <2>3, <3>2, <3>3
  <2> QED  BY <2>2, <2>3
<1>5. VisitsAll'
  BY <1>1, <1>4 DEF VisitsAll
<1>6. dirty' \in BOOLEAN /\ ~dirty' /\ disturbed' \in BOOLEAN
  BY <1>1, Zenon
<1>7. /\ data' \in Seq(Keys) /\ InOrder(data', 1, Len(data')) /\ (~duplicates => Distinct(data'))
      /\ sync' \in Nat /\ itSync' \in Nat /\ pos' \in Int /\ pos' >= -1
      /\ duplicates' = duplicates
  BY <1>1, <1>2, <1>3
<1> QED  BY <1>2, <1>5, <1>6, <1>7 DEF ArrayInv, ContainerInv

\* An iterator's step leaves what is behind the next entry.
LEMMA NextKept ==
    ASSUME ArrayInv, ItNext
    PROVE  ArrayInv'
<1>1. /\ pos' = pos + 1 /\ ahead' = IF ahead = <<>> THEN <<>> ELSE Tail(ahead)
      /\ UNCHANGED <<duplicates, data, dirty, sync, itSync, disturbed>>
  BY DEF ItNext
<1>2. data \in Seq(Keys) /\ pos \in Int /\ pos >= -1
  BY DEF ArrayInv, ContainerInv
<1>3. ASSUME ~disturbed, itSync = sync  PROVE SubSeq(data, pos + 3, Len(data)) = ahead'
  <2>1. ahead = SubSeq(data, pos + 2, Len(data))
    BY <1>3 DEF ArrayInv, VisitsAll
  <2>2. Len(data) \in Nat /\ pos + 2 \in Nat /\ pos + 2 >= 1 /\ (pos + 2) + 1 = pos + 3 /\ pos + 3 \in Int
    BY <1>2
  <2>3. CASE pos + 2 <= Len(data)
    <3>1. ahead # <<>> /\ Tail(ahead) = SubSeq(data, (pos + 2) + 1, Len(data))
      BY <1>2, <2>1, <2>2, <2>3, TailOfSubSeq
    <3> QED  BY <1>1, <2>2, <3>1
  <2>4. CASE pos + 2 > Len(data)
    <3>1. ahead = <<>>
      BY <1>2, <2>1, <2>2, <2>4, EmptyBehind
    <3>2. SubSeq(data, pos + 3, Len(data)) = <<>>
      BY <1>2, <2>2, <2>4, EmptyBehind
    <3> QED  BY <1>1, <3>1, <3>2
  <2> QED  BY <2>2, <2>3, <2>4
<1>4. VisitsAll'
  <2>1. pos' + 2 = pos + 3
    BY <1>1, <1>2
  <2> QED  BY <1>1, <1>3, <2>1 DEF VisitsAll
<1>5. pos' \in Int /\ pos' >= -1
  BY <1>1, <1>2
<1> QED  BY <1>1, <1>4, <1>5 DEF ArrayInv, ContainerInv

\* What is removed through the iterator moves the entries behind it to where the
\* iterator is, and the iterator one back.
LEMMA ItRemoveKept ==
    ASSUME ArrayInv, ItRemove
    PROVE  ArrayInv'
<1> DEFINE n == Len(data)
           k == pos + 1
           r == RemoveAt(data, k)
<1>1. /\ itSync = sync /\ 0 <= pos /\ pos < n /\ itSync' = itSync + 1
      /\ data' = r /\ sync' = (IF k = n THEN sync ELSE sync + 1) /\ pos' = pos - 1
      /\ UNCHANGED <<duplicates, dirty, disturbed, ahead>>
  BY DEF ItRemove, Yields, RemovedAt
<1>2. data \in Seq(Keys) /\ pos \in Int /\ n \in Nat /\ sync \in Nat
  BY DEF ArrayInv, ContainerInv
<1>3. k \in 1 .. n /\ k \in Int
  <2> HIDE DEF n
  <2> QED  BY <1>1, <1>2
<1>4. /\ r \in Seq(Keys) /\ Len(r) = n - 1
      /\ \A i \in 1 .. n - 1 : r[i] = IF i < k THEN data[i] ELSE data[i + 1]
  <2> HIDE DEF k
  <2> QED  BY <1>2, <1>3, RemovedIs
<1>5. /\ InOrder(data, 1, n) => InOrder(r, 1, Len(r))
      /\ Distinct(data) => Distinct(r)
  <2> HIDE DEF k
  <2> QED  BY <1>2, <1>3, RemovedKeeps
<1>6. ASSUME ~disturbed, itSync' = sync'  PROVE SubSeq(r, k, n - 1) = ahead
  <2>1. ahead = SubSeq(data, k + 1, n)
    BY <1>1, <1>2, <1>6 DEF ArrayInv, VisitsAll
  <2>2. k < n
    <3> HIDE DEF n, k, r
    <3> QED  BY <1>1, <1>2, <1>3, <1>6
  <2> HIDE DEF n, k, r
  <2>3. /\ SubSeq(r, k, n - 1) \in Seq(Keys) /\ Len(SubSeq(r, k, n - 1)) = n - k
        /\ \A i \in 1 .. n - k : SubSeq(r, k, n - 1)[i] = r[k + i - 1]
    BY <1>2, <1>3, <1>4, <2>2
  <2>4. /\ SubSeq(data, k + 1, n) \in Seq(Keys) /\ Len(SubSeq(data, k + 1, n)) = n - k
        /\ \A i \in 1 .. n - k : SubSeq(data, k + 1, n)[i] = data[k + i]
    BY <1>2, <1>3, <2>2 DEF n
  <2>5. \A i \in 1 .. n - k : k + i - 1 \in 1 .. n - 1 /\ ~(k + i - 1 < k) /\ (k + i - 1) + 1 = k + i
    BY <1>2, <1>3, <2>2
  <2>6. \A i \in 1 .. n - k : r[k + i - 1] = data[k + i]
    BY <1>4, <2>5
  <2>7. \A x, y \in Seq(Keys) :
           Len(x) = Len(y) /\ (\A i \in 1 .. Len(x) : x[i] = y[i]) => x = y
    OBVIOUS
  <2> DEFINE x == SubSeq(r, k, n - 1)
             y == SubSeq(data, k + 1, n)
  <2>8. /\ x \in Seq(Keys) /\ y \in Seq(Keys) /\ Len(x) = n - k /\ Len(y) = n - k
        /\ \A i \in 1 .. n - k : x[i] = y[i]
    BY <2>3, <2>4, <2>6
  <2> HIDE DEF x, y
  <2>9. x = y
    BY <2>7, <2>8
  <2> QED  BY <2>1, <2>9 DEF x, y
<1>7. VisitsAll'
  <2>1. pos' + 2 = k
    BY <1>1, <1>2
  <2> HIDE DEF k, r, n
  <2> QED  BY <1>1, <1>4, <1>6, <2>1 DEF VisitsAll
<1>8. pos' \in Int /\ pos' >= -1 /\ sync' \in Nat /\ itSync' \in Nat
  <2> HIDE DEF k, r, n
  <2> QED  BY <1>1, <1>2
<1> QED  BY <1>1, <1>4, <1>5, <1>7, <1>8 DEF ArrayInv, ContainerInv

\* In every reachable state of the container and its iterator (container_binary_array.c)
\* what is not dirty is sorted, without CONTAINER_KEY_ALLOW_DUPLICATES every key is there once,
\* and an iterator that nobody disturbed has before it what it has still to give.
THEOREM ArrayInvariant == ArraySpec => []ArrayInv
<1>1. ArrayInit => ArrayInv
  <2> SUFFICES ASSUME ArrayInit  PROVE ArrayInv
    OBVIOUS
  <2>1. <<>> \in Seq(Keys) /\ 1 .. Len(<<>>) = {} /\ Len(<<>>) = 0
    OBVIOUS
  <2>2. SubSeq(<<>>, 0 + 2, Len(<<>>)) = <<>>
    BY <2>1, EmptyBehind
  <2>3. VisitsAll
    BY <2>2 DEF ArrayInit, VisitsAll
  <2>4. InOrder(data, 1, Len(data)) /\ Distinct(data)
    BY <2>1 DEF ArrayInit, InOrder, Distinct
  <2>6. duplicates \in BOOLEAN /\ ~dirty /\ dirty \in BOOLEAN /\ disturbed \in BOOLEAN
    BY Zenon DEF ArrayInit
  <2>7. data \in Seq(Keys)
    BY <2>1 DEF ArrayInit
  <2>8. sync = 0 /\ pos = 0 /\ itSync = 0
    BY DEF ArrayInit
  <2>5. sync \in Nat /\ pos \in Int /\ pos >= -1 /\ itSync \in Nat
    BY <2>8
  <2> QED  BY <2>3, <2>4, <2>5, <2>6, <2>7 DEF ArrayInv, ContainerInv
<1>2. ArrayInv /\ [ArrayNext]_arrayVars => ArrayInv'
  <2> SUFFICES ASSUME ArrayInv, [ArrayNext]_arrayVars  PROVE ArrayInv'
    OBVIOUS
  <2>1. CASE UNCHANGED arrayVars
    BY <2>1 DEF arrayVars, ArrayInv, ContainerInv, VisitsAll
  <2>2. CASE ArrayNext
    BY <2>2, LookUpKept, InsertKept, RemoveKept, ClearKept, ResetKept, NextKept, ItRemoveKept
       DEF ArrayNext
  <2> QED  BY <2>1, <2>2
<1> QED  BY <1>1, <1>2, PTL DEF ArraySpec

\* Whatever was inserted and removed, find_next (_ba_find_next) goes from every key to the
\* next greater one that is there.
THEOREM WalksInOrder == ArraySpec => []NextIsNext
<1>1. ArrayInv => NextIsNext
  BY NextIs DEF ArrayInv, NextIsNext
<1> QED  BY <1>1, ArrayInvariant, PTL

\* An iterator that nobody else disturbs gives every entry behind its position once
\* and in order, also after entries were removed through it (_ba_iterator_remove).
THEOREM IteratesAll == ArraySpec => []VisitsAll
<1>1. ArrayInv => VisitsAll
  BY DEF ArrayInv
<1> QED  BY <1>1, ArrayInvariant, PTL

-----------------------------------------------------------------------------
(* The iterator of a table.                                                *)

CellColumns == IF validColumns = {} THEN Columns ELSE validColumns

TableOK ==
    /\ validColumns \in SUBSET Columns
    /\ rows \in SUBSET (1 .. MaxRow)
    /\ cells \subseteq CellColumns \X rows
    /\ absent \in SUBSET Columns
    /\ \A c \in absent : \A r \in rows : <<c, r>> \notin cells

BindingType ==
    [asked : Seq(Nat), name : Seq(Nat), type : {"null", "value", "retry"}, here : BOOLEAN,
     known : BOOLEAN, processed : BOOLEAN, colnum : Nat, row : Nat]

IteratorTypeOK ==
    /\ TableOK
    /\ step \in {"ask", "table", "scan", "advance", "call", "reassign", "done", "error"}
    /\ step # "ask" => binding \in [Bindings -> BindingType]

\* The same instances are behind two names; none is behind a name.
SameBehind(a, b) ==
    \A x \in cells : Before(a, <<1, x[1], x[2]>>) <=> Before(b, <<1, x[1], x[2]>>)
NoneBehind(n) == \A x \in cells : ~Before(n, <<1, x[1], x[2]>>)

Settled(k) ==
    binding[k].type # "retry" /\ (k \in skipped \/ AnsweredRight(binding[k]))

\* The name is still as good as the one asked for.
Waiting(b) ==
    /\ b.type = "null" /\ ~b.processed /\ b.row = 0
    /\ SameBehind(b.name, b.asked)
    /\ b.name = b.asked \/ (b.name # <<>> /\ b.name[1] = 1)

\* The columns before the present one have nothing; a row that was found is the
\* first of the column.
Looking(b) ==
    /\ b.type = "null" /\ SameBehind(b.name, b.asked)
    /\ \A x \in cells : x[1] < b.colnum => ~Before(b.name, <<1, x[1], x[2]>>)
    /\ b.row # 0 =>
           /\ b.row \in rows /\ Before(b.name, <<1, b.colnum, b.row>>)
           /\ \A r \in rows : Before(b.name, <<1, b.colnum, r>>) => b.row <= r

\* ... and if none was found there is none.
Looked(b) == b.row = 0 => \A r \in rows : ~Before(b.name, <<1, b.colnum, r>>)

InPass(k, b) ==
    CASE step = "table" -> Waiting(b)
      [] step \in {"scan", "advance", "call"} ->
             IF b.processed THEN b.type = "null" /\ Settled(k)
             ELSE Looking(b) /\ (step # "scan" => Looked(b))
      [] step = "reassign" ->
             IF b.type = "retry"
             THEN SameBehind(b.name, b.asked) /\ b.name # <<>> /\ b.name[1] = 1
             ELSE Settled(k)
      [] OTHER -> step = "error"

IteratorInv ==
    /\ IteratorTypeOK
    /\ step # "ask" => \A k \in Bindings :
           IF binding[k].here THEN InPass(k, binding[k]) ELSE Settled(k)
    /\ step = "error" => \E k \in Bindings : binding[k].asked # <<>> /\ binding[k].asked[1] > 1

\* Whether a name is before the instance of a cell.
Precedes(n, c, r) ==
    \/ Len(n) = 0
    \/ Len(n) >= 1 /\ n[1] < 1
    \/ Len(n) = 1 /\ n[1] = 1
    \/ Len(n) >= 2 /\ n[1] = 1 /\ n[2] < c
    \/ Len(n) = 2 /\ n[1] = 1 /\ n[2] = c
    \/ Len(n) >= 3 /\ n[1] = 1 /\ n[2] = c /\ n[3] < r

\* The order of OIDs, for the instances of a column: place by place.
LEMMA BeforeIs ==
    ASSUME NEW n \in Seq(Nat), NEW c \in Nat, NEW r \in Nat
    PROVE  Before(n, <<1, c, r>>) <=> Precedes(n, c, r)
<1> DEFINE x == <<1, c, r>>
<1>1. /\ Len(x) = 3 /\ x[1] = 1 /\ x[2] = c /\ x[3] = r /\ x \in Seq(Nat)
      /\ Len(n) \in Nat /\ \A k \in 1 .. Len(n) : n[k] \in Nat
  OBVIOUS
<1> HIDE DEF x
<1>2. ASSUME NEW k \in 0 .. 3, k <= Len(n)
      PROVE  SubSeq(n, 1, k) = SubSeq(x, 1, k) <=> \A i \in 1 .. k : n[i] = x[i]
  <2>1. /\ Len(SubSeq(n, 1, k)) = k /\ Len(SubSeq(x, 1, k)) = k
        /\ SubSeq(n, 1, k) \in Seq(Nat) /\ SubSeq(x, 1, k) \in Seq(Nat)
        /\ \A i \in 1 .. k : SubSeq(n, 1, k)[i] = n[i] /\ SubSeq(x, 1, k)[i] = x[i]
    BY <1>1, <1>2
  <2> QED  BY <2>1
<1>3. Len(n) < 3 => SubSeq(n, 1, Len(n)) = n
  BY <1>1
<1>4. Len(n) < 3 => (SubSeq(x, 1, Len(n)) = n <=> \A i \in 1 .. Len(n) : n[i] = x[i])
  <2> SUFFICES ASSUME Len(n) < 3
               PROVE  SubSeq(x, 1, Len(n)) = n <=> \A i \in 1 .. Len(n) : n[i] = x[i]
    OBVIOUS
  <2> DEFINE l == Len(n)
  <2>1. l \in Nat /\ l < 3
    BY <1>1
  <2> HIDE DEF l
  <2>2. l \in 0 .. 3 /\ l <= l
    BY <2>1
  <2> QED  BY <1>2, <1>3, <2>2 DEF l
<1>5. /\ \A k \in 1 .. 3 : k <= Len(n) =>
             (SubSeq(n, 1, k - 1) = SubSeq(x, 1, k - 1) <=> \A i \in 1 .. k - 1 : n[i] = x[i])
  <2> SUFFICES ASSUME NEW k \in 1 .. 3, k <= Len(n)
               PROVE  SubSeq(n, 1, k - 1) = SubSeq(x, 1, k - 1) <=> \A i \in 1 .. k - 1 : n[i] = x[i]
    OBVIOUS
  <2>1. k - 1 \in 0 .. 3 /\ k - 1 <= Len(n)
    BY <1>1
  <2> QED  BY <1>2, <2>1
<1>6. Before(n, x) <=> \/ Len(n) < 3 /\ \A i \in 1 .. Len(n) : n[i] = x[i]
                       \/ \E k \in 1 .. 3 : /\ k <= Len(n) /\ n[k] < x[k]
                                            /\ \A i \in 1 .. k - 1 : n[i] = x[i]
  <2> DEFINE l == Len(n)
             Differ(k) == n[k] < x[k] /\ SubSeq(n, 1, k - 1) = SubSeq(x, 1, k - 1)
             Differs(k) == n[k] < x[k] /\ \A i \in 1 .. k - 1 : n[i] = x[i]
  <2>1. Before(n, x) <=> \/ l < 3 /\ SubSeq(x, 1, l) = n
                         \/ \E k \in 1 .. l : k <= 3 /\ Differ(k)
    BY <1>1 DEF Before
  <2>2. \A k \in 1 .. 3 : k <= l => (Differ(k) <=> Differs(k))
    BY <1>5
  <2>3. l < 3 => (SubSeq(x, 1, l) = n <=> \A i \in 1 .. l : n[i] = x[i])
    BY <1>4
  <2>4. l \in Nat
    BY <1>1
  <2> HIDE DEF l, Differ, Differs
  <2>5. (\E k \in 1 .. l : k <= 3 /\ Differ(k)) <=> \E k \in 1 .. 3 : k <= l /\ Differs(k)
    BY <2>2, <2>4
  <2> QED  BY <2>1, <2>3, <2>5 DEF l, Differs
<1>7. (\A i \in 1 .. Len(n) : n[i] = x[i]) /\ Len(n) < 3
      <=> \/ Len(n) = 0
          \/ Len(n) = 1 /\ n[1] = 1
          \/ Len(n) = 2 /\ n[1] = 1 /\ n[2] = c
  <2>1. CASE Len(n) = 0
    BY <2>1, <1>1
  <2>2. CASE Len(n) = 1
    BY <2>2, <1>1
  <2>3. CASE Len(n) = 2
    BY <2>3, <1>1
  <2> DEFINE l == Len(n)
             Same == \A i \in 1 .. l : n[i] = x[i]
  <2> SUFFICES Same /\ l < 3 <=> \/ l = 0
                                 \/ l = 1 /\ n[1] = 1
                                 \/ l = 2 /\ n[1] = 1 /\ n[2] = c
    OBVIOUS
  <2>4. l \in Nat
    BY <1>1
  <2>5. /\ l = 0 => Same
        /\ l = 1 => (Same <=> n[1] = 1)
        /\ l = 2 => (Same <=> n[1] = 1 /\ n[2] = c)
    BY <2>1, <2>2, <2>3
  <2> HIDE DEF l, Same
  <2> QED  BY <2>4, <2>5
<1>8. (\E k \in 1 .. 3 : k <= Len(n) /\ n[k] < x[k] /\ \A i \in 1 .. k - 1 : n[i] = x[i])
      <=> \/ Len(n) >= 1 /\ n[1] < 1
          \/ Len(n) >= 2 /\ n[1] = 1 /\ n[2] < c
          \/ Len(n) >= 3 /\ n[1] = 1 /\ n[2] = c /\ n[3] < r
  <2> DEFINE P(k) == k <= Len(n) /\ n[k] < x[k] /\ \A i \in 1 .. k - 1 : n[i] = x[i]
  <2>1. P(1) <=> Len(n) >= 1 /\ n[1] < 1
    BY <1>1
  <2>2. P(2) <=> Len(n) >= 2 /\ n[1] = 1 /\ n[2] < c
    BY <1>1
  <2>3. P(3) <=> Len(n) >= 3 /\ n[1] = 1 /\ n[2] = c /\ n[3] < r
    <3>1. 1 .. 3 - 1 = {1, 2}
      OBVIOUS
    <3> QED  BY <1>1, <3>1
  <2>4. (\E k \in 1 .. 3 : P(k)) <=> P(1) \/ P(2) \/ P(3)
    <3>1. 1 .. 3 = {1, 2, 3}
      OBVIOUS
    <3> HIDE DEF P
    <3> QED  BY <3>1
  <2> HIDE DEF P
  <2>5. QED  BY <2>1, <2>2, <2>3, <2>4 DEF P
<1> QED  BY <1>1, <1>6, <1>7, <1>8 DEF Precedes, x

\* Instances have a row and a column of the registration.
LEMMA CellsAre ==
    ASSUME TableOK, NEW x \in cells
    PROVE  /\ x[1] \in Nat /\ x[2] \in Nat /\ x = <<x[1], x[2]>> /\ x[2] \in rows /\ x[2] # 0
           /\ MinColumn <= x[1] /\ x[1] <= MaxColumn /\ (validColumns # {} => x[1] \in validColumns)
<1>1. x \in CellColumns \X rows
  BY DEF TableOK
<1>2. x[1] \in CellColumns /\ x[2] \in rows /\ x = <<x[1], x[2]>>
  BY <1>1
<1>3. CellColumns \subseteq MinColumn .. MaxColumn /\ rows \subseteq 1 .. MaxRow
  BY DEF TableOK, CellColumns, Columns
<1>4. MinColumn \in Nat /\ MaxColumn \in Nat /\ MaxRow \in Nat
  BY TableIteratorAssumption
<1>5. validColumns # {} => x[1] \in validColumns
  BY <1>2 DEF CellColumns
<1> QED  BY <1>2, <1>3, <1>4, <1>5

\* What the columns and rows of a table are.
LEMMA NumbersAre ==
    /\ VarCount \in Nat /\ MinColumn \in Nat /\ MinColumn >= 1 /\ MaxColumn \in Nat /\ MaxRow \in Nat
  BY TableIteratorAssumption

\* netsnmp_closest_column gives the first valid column that is not less.
LEMMA ClosestIs ==
    ASSUME TableOK, NEW c \in Nat
    PROVE  /\ ClosestColumn(c) \in Nat
           /\ ClosestColumn(c) = 0 => \A v \in validColumns : v < c
           /\ ClosestColumn(c) # 0 => /\ ClosestColumn(c) \in validColumns /\ c <= ClosestColumn(c)
                                      /\ \A v \in validColumns : c <= v => ClosestColumn(c) <= v
<1> DEFINE further == {v \in validColumns : c <= v}
<1>1. validColumns \subseteq Nat /\ \A v \in validColumns : v # 0
  BY NumbersAre DEF TableOK, Columns
<1>2. CASE further = {}
  BY <1>1, <1>2 DEF ClosestColumn
<1>3. CASE further # {}
  <2>1. further \subseteq Nat
    BY <1>1
  <2>2. \E k \in further : \A j \in further : k <= j
    <3> HIDE DEF further
    <3> QED  BY <1>3, <2>1, LeastOf
  <2>3. Least(further) \in further /\ \A j \in further : Least(further) <= j
    <3> HIDE DEF further
    <3> QED  BY <2>2 DEF Least
  <2>4. ClosestColumn(c) = Least(further)
    BY <1>3 DEF ClosestColumn
  <2>5. Least(further) \in validColumns /\ c <= Least(further) /\ Least(further) # 0
        /\ \A v \in validColumns : c <= v => Least(further) <= v
    BY <1>1, <2>3
  <2> HIDE DEF further
  <2> QED  BY <1>1, <2>4, <2>5
<1> QED  BY <1>2, <1>3

\* netsnmp_table_next_column leaves out no column that has an instance.
LEMMA NextColumnIs ==
    ASSUME TableOK, NEW c \in Nat
    PROVE  /\ NextColumn(c) \in Nat
           /\ NextColumn(c) # 0 => NextColumn(c) > c
           /\ \A x \in cells : x[1] <= c \/ (NextColumn(c) # 0 /\ NextColumn(c) <= x[1])
<1>1. CASE validColumns = {}
  <2>1. NextColumn(c) = IF c < MaxColumn THEN c + 1 ELSE 0
    BY <1>1 DEF NextColumn
  <2> QED  BY <2>1, NumbersAre, CellsAre
<1>2. CASE validColumns # {}
  <2>1. NextColumn(c) = ClosestColumn(c + 1) /\ c + 1 \in Nat
    BY <1>2 DEF NextColumn
  <2>2. validColumns \subseteq Nat
    BY NumbersAre DEF TableOK, Columns
  <2> DEFINE d == ClosestColumn(c + 1)
  <2>3. /\ d \in Nat
        /\ d = 0 => \A v \in validColumns : v < c + 1
        /\ d # 0 => /\ d \in validColumns /\ c + 1 <= d
                    /\ \A v \in validColumns : c + 1 <= v => d <= v
    BY <2>1, ClosestIs
  <2>4. \A x \in cells : x[1] \in validColumns /\ x[1] \in Nat
    BY <1>2, CellsAre
  <2> HIDE DEF d
  <2>5. NextColumn(c) = d
    BY <2>1 DEF d
  <2> QED  BY <2>2, <2>3, <2>4, <2>5
<1> QED  BY <1>1, <1>2

\* Of the rows offered in any order the iterator keeps the first one behind the name.
LEMMA BestIs ==
    ASSUME TableOK, NEW b
    PROVE  /\ Best(b) \in Nat
           /\ Best(b) = 0 => \A r \in rows : ~Before(b.name, <<1, b.colnum, r>>)
           /\ Best(b) # 0 => /\ Best(b) \in rows /\ Before(b.name, <<1, b.colnum, Best(b)>>)
                             /\ \A r \in rows : Before(b.name, <<1, b.colnum, r>>) => Best(b) <= r
<1> DEFINE behind == {r \in rows : Before(b.name, <<1, b.colnum, r>>)}
<1>1. rows \subseteq Nat /\ \A r \in rows : r # 0
  BY NumbersAre DEF TableOK
<1>2. CASE behind = {}
  BY <1>1, <1>2 DEF Best
<1>3. CASE behind # {}
  <2>1. behind \subseteq Nat
    BY <1>1
  <2>2. Least(behind) \in behind /\ \A j \in behind : Least(behind) <= j
    <3> HIDE DEF behind
    <3> QED  BY <1>3, <2>1, LeastOf DEF Least
  <2>3. Best(b) = Least(behind)
    BY <1>3 DEF Best
  <2>4. /\ Least(behind) \in rows /\ Before(b.name, <<1, b.colnum, Least(behind)>>)
        /\ \A r \in rows : Before(b.name, <<1, b.colnum, r>>) => Least(behind) <= r
    BY <2>2
  <2> HIDE DEF behind
  <2> QED  BY <1>1, <2>3, <2>4
<1> QED  BY <1>2, <1>3

\* Of a cell: what the order says about the three forms of a name.
LEMMA FormsAre ==
    ASSUME NEW c \in Nat, NEW r \in Nat, NEW d \in Nat, NEW s \in Nat
    PROVE  /\ Before(<<>>, <<1, c, r>>) /\ Before(<<1>>, <<1, c, r>>)
           /\ Before(<<1, d>>, <<1, c, r>>) <=> d <= c
           /\ Before(<<1, d, s>>, <<1, c, r>>) <=> d < c \/ (d = c /\ s < r)
<1>1. <<>> \in Seq(Nat) /\ <<1>> \in Seq(Nat) /\ <<1, d>> \in Seq(Nat) /\ <<1, d, s>> \in Seq(Nat)
  OBVIOUS
<1>2. Before(<<>>, <<1, c, r>>)
  BY <1>1, BeforeIs DEF Precedes
<1>3. Before(<<1>>, <<1, c, r>>)
  BY <1>1, BeforeIs DEF Precedes
<1>4. Before(<<1, d>>, <<1, c, r>>) <=> d <= c
  BY <1>1, BeforeIs DEF Precedes
<1>5. Before(<<1, d, s>>, <<1, c, r>>) <=> d < c \/ (d = c /\ s < r)
  <2>1. Before(<<1, d, s>>, <<1, c, r>>) <=> Precedes(<<1, d, s>>, c, r)
    BY <1>1, BeforeIs
  <2> QED  BY <2>1 DEF Precedes
<1> QED  BY <1>2, <1>3, <1>4, <1>5

\* table_helper_handler keeps behind the name what was behind it; the columns before
\* the one it chooses have nothing there.
LEMMA ParsedIs ==
    ASSUME TableOK, NEW b \in BindingType, Waiting(b)
    PROVE  LET p == Parsed(b)
           IN  /\ p \in BindingType /\ p.asked = b.asked /\ p.here = b.here
               /\ p.type = "null" /\ ~p.processed /\ p.row = 0
               /\ ~p.known => b.asked # <<>> /\ b.asked[1] > 1
               /\ SameBehind(p.name, b.asked)
               /\ \A x \in cells : x[1] < p.colnum => ~Before(p.name, <<1, x[1], x[2]>>)
               /\ p.colnum = 0 => NoneBehind(b.asked)
<1> DEFINE n == b.name
           c == n[2]
           closest == IF validColumns = {} THEN c ELSE ClosestColumn(c)
           OK(p) == /\ p \in BindingType /\ p.asked = b.asked /\ p.here = b.here
                    /\ p.type = "null" /\ ~p.processed /\ p.row = 0
                    /\ ~p.known => b.asked # <<>> /\ b.asked[1] > 1
                    /\ SameBehind(p.name, b.asked)
                    /\ \A x \in cells : x[1] < p.colnum => ~Before(p.name, <<1, x[1], x[2]>>)
                    /\ p.colnum = 0 => NoneBehind(b.asked)
<1> SUFFICES OK(Parsed(b))
  OBVIOUS
<1>1. /\ n \in Seq(Nat) /\ Len(n) \in Nat /\ \A i \in 1 .. Len(n) : n[i] \in Nat
      /\ b.type = "null" /\ ~b.processed /\ b.row = 0 /\ SameBehind(n, b.asked)
      /\ b.name = b.asked \/ (b.name # <<>> /\ b.name[1] = 1)
      /\ b.colnum \in Nat
  <2>1. n \in Seq(Nat) /\ b.colnum \in Nat
    BY DEF BindingType
  <2> QED  BY <2>1 DEF Waiting
<1>2. \A x \in cells : x[1] \in Nat /\ x[2] \in Nat /\ MinColumn <= x[1] /\ x[1] <= MaxColumn
  BY CellsAre
<1>13. \A x \in cells : Before(n, <<1, x[1], x[2]>>) <=> Precedes(n, x[1], x[2])
  BY <1>1, <1>2, BeforeIs
<1>14. validColumns # {} => \A x \in cells : x[1] \in validColumns
  BY CellsAre
<1>15. MinColumn \in Nat /\ MaxColumn \in Nat /\ MinColumn # 0
  BY NumbersAre
<1>16. \A x \in cells : ~(x[1] < MinColumn)
  BY <1>2, <1>15
<1>3. ASSUME NEW m \in Seq(Nat), NEW col \in Nat, SameBehind(m, n),
             \A x \in cells : x[1] < col => ~Before(m, <<1, x[1], x[2]>>),
             col = 0 => NoneBehind(n)
      PROVE  OK(Given(b, m, col))
  <2> DEFINE p == Given(b, m, col)
  <2>1. /\ p \in BindingType /\ p.asked = b.asked /\ p.here = b.here /\ p.known
        /\ p.type = b.type /\ p.processed = b.processed /\ p.row = b.row
        /\ p.name = m /\ p.colnum = col
    BY DEF Given, BindingType
  <2> HIDE DEF p
  <2>2. SameBehind(m, b.asked) /\ (NoneBehind(n) => NoneBehind(b.asked))
    BY <1>1, <1>3 DEF SameBehind, NoneBehind
  <2>3. OK(p)
    BY <1>1, <1>3, <2>1, <2>2
  <2> QED  BY <2>3 DEF p
<1>4. SameBehind(n, n)
  BY DEF SameBehind
<1>5. CASE Len(n) >= 1 /\ n[1] > 1
  <2>1. Parsed(b) = b
    BY <1>5 DEF Parsed
  <2>2. n # <<>> /\ n = b.asked
    BY <1>1, <1>5
  <2>3. NoneBehind(n)
    <3>1. \A x \in cells : ~Precedes(n, x[1], x[2])
      BY <1>1, <1>5 DEF Precedes
    <3> QED  BY <1>13, <3>1 DEF NoneBehind
  <2> QED  BY <1>1, <1>5, <2>1, <2>2, <2>3 DEF NoneBehind
<1> DEFINE within == ~(Len(n) >= 1 /\ n[1] > 1)
<1>6. CASE within /\ Len(n) >= 1 /\ n[1] < 1
  <2>1. Parsed(b) = Given(b, <<>>, MinColumn)
    BY <1>6 DEF Parsed
  <2>2. SameBehind(<<>>, n)
    <3>1. \A x \in cells : Precedes(n, x[1], x[2])
      BY <1>6 DEF Precedes
    <3> QED  BY <1>2, <1>13, <3>1, FormsAre DEF SameBehind
  <2>3. <<>> \in Seq(Nat) /\ MinColumn \in Nat /\ MinColumn # 0
        /\ \A x \in cells : ~(x[1] < MinColumn)
    BY <1>15, <1>16
  <2> HIDE DEF OK
  <2> QED  BY <1>3, <2>1, <2>2, <2>3
<1> DEFINE inside == within /\ ~(Len(n) >= 1 /\ n[1] < 1)
<1>7. CASE inside /\ Len(n) < 2
  <2>1. Parsed(b) = Given(b, n, MinColumn)
    BY <1>7 DEF Parsed
  <2>2. MinColumn \in Nat /\ MinColumn # 0 /\ \A x \in cells : ~(x[1] < MinColumn)
    BY <1>15, <1>16
  <2> HIDE DEF OK
  <2> QED  BY <1>1, <1>3, <1>4, <2>1, <2>2
<1> DEFINE column == inside /\ ~(Len(n) < 2)
<1>8. column => n[1] = 1 /\ c \in Nat /\ Len(n) >= 2
  BY <1>1
<1>9. column => \A x \in cells : /\ x[1] < c => ~Precedes(n, x[1], x[2])
                                 /\ c < x[1] => Precedes(n, x[1], x[2])
  <2> SUFFICES ASSUME column, NEW x \in cells
               PROVE  /\ x[1] < c => ~Precedes(n, x[1], x[2])
                      /\ c < x[1] => Precedes(n, x[1], x[2])
    OBVIOUS
  <2>1. x[1] \in Nat /\ c \in Nat /\ n[1] = 1 /\ Len(n) >= 2 /\ Len(n) \in Nat /\ n[2] = c
    BY <1>1, <1>2, <1>8
  <2> HIDE DEF column, c, n
  <2> QED  BY <2>1 DEF Precedes
<1>10. CASE column /\ c < MinColumn
  <2>1. Parsed(b) = Given(b, <<1>>, MinColumn)
    BY <1>10 DEF Parsed
  <2>2. SameBehind(<<1>>, n)
    <3>1. \A x \in cells : c < x[1]
      <4> SUFFICES ASSUME NEW x \in cells  PROVE c < x[1]
          OBVIOUS
        <4>1. x[1] \in Nat /\ MinColumn <= x[1] /\ c \in Nat /\ c < MinColumn
          BY <1>2, <1>8, <1>10
        <4> HIDE DEF c
        <4> QED  BY <1>15, <4>1
    <3> QED  BY <1>2, <1>9, <1>10, <1>13, <3>1, FormsAre DEF SameBehind
  <2>3. <<1>> \in Seq(Nat) /\ MinColumn \in Nat /\ MinColumn # 0
        /\ \A x \in cells : ~(x[1] < MinColumn)
    BY <1>15, <1>16
  <2> HIDE DEF OK
  <2> QED  BY <1>3, <2>1, <2>2, <2>3
<1>11. CASE column /\ ~(c < MinColumn) /\ c > MaxColumn
  <2>1. Parsed(b) = Given(b, n, 0)
    BY <1>11 DEF Parsed
  <2>2. \A x \in cells : x[1] < c
    <3> SUFFICES ASSUME NEW x \in cells  PROVE x[1] < c
      OBVIOUS
    <3>1. x[1] \in Nat /\ x[1] <= MaxColumn /\ c \in Nat /\ c > MaxColumn
      BY <1>2, <1>8, <1>11
    <3> HIDE DEF c
    <3> QED  BY <1>15, <3>1
  <2>3. NoneBehind(n)
    BY <1>9, <1>11, <1>13, <2>2 DEF NoneBehind
  <2>4. \A x \in cells : x[1] < 0 => ~Before(n, <<1, x[1], x[2]>>)
    BY <2>3 DEF NoneBehind
  <2> HIDE DEF OK
  <2> QED  BY <1>1, <1>3, <1>4, <2>1, <2>3, <2>4
<1>12. CASE column /\ ~(c < MinColumn) /\ ~(c > MaxColumn)
  <2>1. Parsed(b) = Given(b, IF closest \in {0, c} THEN n ELSE <<1, c>>, closest)
    BY <1>12 DEF Parsed
  <2>2. c # 0 /\ c \in Nat
    BY <1>8, <1>12, <1>15
  <2>3. closest \in Nat
    BY <2>2, ClosestIs
  <2>4. CASE closest = 0
    <3>1. \A x \in cells : x[1] < c
      <4>1. validColumns # {} /\ \A v \in validColumns : v < c
        BY <2>2, <2>4, ClosestIs
      <4> QED  BY <1>14, <4>1
    <3>2. NoneBehind(n)
      BY <1>9, <1>12, <1>13, <3>1 DEF NoneBehind
    <3>3. \A x \in cells : x[1] < 0 => ~Before(n, <<1, x[1], x[2]>>)
      BY <3>2 DEF NoneBehind
    <3>4. Parsed(b) = Given(b, n, 0)
      BY <2>1, <2>4
    <3> HIDE DEF OK
    <3> QED  BY <1>1, <1>3, <1>4, <3>2, <3>3, <3>4
  <2>5. CASE closest = c
    <3>1. Parsed(b) = Given(b, n, c)
      BY <2>1, <2>5
    <3>2. \A x \in cells : x[1] < c => ~Before(n, <<1, x[1], x[2]>>)
      BY <1>9, <1>12, <1>13
    <3> HIDE DEF OK
    <3> QED  BY <1>1, <1>3, <1>4, <2>2, <3>1, <3>2
  <2>6. CASE closest # 0 /\ closest # c
    <3>1. Parsed(b) = Given(b, <<1, c>>, closest)
      BY <2>1, <2>6
    <3>2. validColumns # {} /\ closest = ClosestColumn(c)
      BY <2>6
    <3>3. c < closest /\ \A x \in cells : x[1] < c \/ (closest <= x[1] /\ c < x[1])
      <4> DEFINE d == ClosestColumn(c)
      <4>1. /\ d \in Nat /\ c <= d /\ \A v \in validColumns : c <= v => d <= v
        BY <2>2, <2>6, <3>2, ClosestIs
      <4>2. d = closest /\ closest # c
        BY <2>6, <3>2
      <4> HIDE DEF d, closest
      <4>3. \A x \in cells : x[1] \in Nat /\ x[1] \in validColumns
        BY <1>2, <1>14, <3>2
      <4> HIDE DEF c
      <4> QED  BY <2>2, <4>1, <4>2, <4>3
    <3>4. SameBehind(<<1, c>>, n)
      <4> SUFFICES ASSUME NEW x \in cells
                   PROVE  Before(<<1, c>>, <<1, x[1], x[2]>>) <=> Before(n, <<1, x[1], x[2]>>)
        BY DEF SameBehind
      <4>1. x[1] \in Nat /\ x[2] \in Nat
        BY <1>2
      <4>2. Before(<<1, c>>, <<1, x[1], x[2]>>) <=> c <= x[1]
        BY <2>2, <4>1, FormsAre
      <4>3. x[1] < c \/ c < x[1]
        BY <3>3
      <4> QED  BY <1>9, <1>12, <1>13, <2>2, <4>1, <4>2, <4>3
    <3>5. \A x \in cells : x[1] < closest => ~Before(<<1, c>>, <<1, x[1], x[2]>>)
      <4> SUFFICES ASSUME NEW x \in cells, x[1] < closest
                   PROVE  ~Before(<<1, c>>, <<1, x[1], x[2]>>)
        OBVIOUS
      <4>1. x[1] \in Nat /\ x[2] \in Nat
        BY <1>2
      <4>2. Before(<<1, c>>, <<1, x[1], x[2]>>) <=> c <= x[1]
        BY <2>2, <4>1, FormsAre
      <4>3. x[1] < c
        <5> HIDE DEF closest
        <5> QED  BY <2>3, <3>3, <4>1
      <4> QED  BY <2>2, <4>1, <4>2, <4>3
    <3>6. <<1, c>> \in Seq(Nat)
      BY <2>2
    <3> HIDE DEF OK, closest
    <3> QED  BY <1>3, <2>3, <2>6, <3>1, <3>4, <3>5, <3>6
  <2> QED  BY <2>4, <2>5, <2>6
<1> QED  BY <1>5, <1>6, <1>7, <1>10, <1>11, <1>12

\* The table stays, and so does what is said of names.
LEMMA TableStays ==
    ASSUME UNCHANGED Fixed
    PROVE  /\ TableOK' <=> TableOK
           /\ \A b : AnsweredRight(b)' <=> AnsweredRight(b)
           /\ \A m, n : SameBehind(m, n)' <=> SameBehind(m, n)
           /\ \A b : (Waiting(b)' <=> Waiting(b)) /\ (Looking(b)' <=> Looking(b))
                     /\ (Looked(b)' <=> Looked(b))
<1>1. UNCHANGED <<validColumns, rows, cells, absent>>
  BY DEF Fixed
<1>2. TableOK' <=> TableOK
  BY <1>1 DEF TableOK, CellColumns, Columns
<1>3. \A b : AnsweredRight(b)' <=> AnsweredRight(b)
  BY <1>1 DEF AnsweredRight, Behind
<1>4. \A m, n : SameBehind(m, n)' <=> SameBehind(m, n)
  BY <1>1 DEF SameBehind
<1>5. \A b : (Looking(b)' <=> Looking(b)) /\ (Looked(b)' <=> Looked(b))
  BY <1>1, <1>4 DEF Looking, Looked
<1>6. \A b : Waiting(b)' <=> Waiting(b)
  BY <1>1, <1>4 DEF Waiting
<1> QED  BY <1>2, <1>3, <1>4, <1>5, <1>6

\* Names with the same instances behind them can be taken for each other.
LEMMA SameIsSame ==
    /\ \A n : SameBehind(n, n)
    /\ \A m, n : SameBehind(m, n) /\ NoneBehind(m) => NoneBehind(n)
    /\ \A l, m, n : SameBehind(l, m) /\ SameBehind(m, n) => SameBehind(l, n)
    /\ \A b : NoneBehind(b.asked) /\ b.type = "null" => AnsweredRight(b)
<1>1. ASSUME NEW b, NoneBehind(b.asked), b.type = "null"  PROVE AnsweredRight(b)
  <2>1. Behind(b.asked) = {}
    BY <1>1 DEF Behind, NoneBehind
  <2> QED  BY <1>1, <2>1 DEF AnsweredRight
<1> QED  BY <1>1 DEF SameBehind, NoneBehind

\* The first instance behind the name that was asked for is the right answer.
LEMMA FirstIs ==
    ASSUME TableOK, NEW b, b.type = "value", NEW x \in cells, b.name = <<1, x[1], x[2]>>,
           Before(b.asked, <<1, x[1], x[2]>>),
           \A y \in cells : Before(b.asked, <<1, y[1], y[2]>>) =>
               x[1] < y[1] \/ (x[1] = y[1] /\ x[2] <= y[2])
    PROVE  AnsweredRight(b)
<1> DEFINE names == Behind(b.asked)
           IsFirst(n) == \A m \in names : m = n \/ Before(n, m)
<1>1. \A y \in cells : y[1] \in Nat /\ y[2] \in Nat
  BY CellsAre
<1>2. b.name \in names
  BY DEF Behind
<1>3. \A m \in names : \E y \in cells : m = <<1, y[1], y[2]>> /\ Before(b.asked, m)
  BY DEF Behind
<1>4. IsFirst(b.name)
  <2> SUFFICES ASSUME NEW m \in names  PROVE m = b.name \/ Before(b.name, m)
    OBVIOUS
  <2>1. PICK y \in cells : m = <<1, y[1], y[2]>> /\ Before(b.asked, m)
    BY <1>3
  <2>2. x[1] < y[1] \/ (x[1] = y[1] /\ x[2] <= y[2])
    BY <2>1
  <2>3. x[1] \in Nat /\ x[2] \in Nat /\ y[1] \in Nat /\ y[2] \in Nat
    BY <1>1
  <2>4. CASE x[1] = y[1] /\ x[2] = y[2]
    BY <2>1, <2>4
  <2>5. CASE ~(x[1] = y[1] /\ x[2] = y[2])
    <3>1. x[1] < y[1] \/ (x[1] = y[1] /\ x[2] < y[2])
      BY <2>2, <2>3, <2>5
    <3>2. Before(<<1, x[1], x[2]>>, <<1, y[1], y[2]>>)
      BY <2>3, <3>1, FormsAre
    <3> QED  BY <2>1, <3>2
  <2> QED  BY <2>4, <2>5
<1>5. ASSUME NEW n \in names, IsFirst(n)  PROVE n = b.name
  <2>1. PICK y \in cells : n = <<1, y[1], y[2]>>
    BY <1>3
  <2>2. SUFFICES ASSUME n # b.name  PROVE FALSE
    OBVIOUS
  <2>3. Before(n, b.name) /\ Before(b.name, n)
    BY <1>2, <1>4, <1>5, <2>2
  <2>4. x[1] \in Nat /\ x[2] \in Nat /\ y[1] \in Nat /\ y[2] \in Nat
    BY <1>1
  <2>5. /\ y[1] < x[1] \/ (y[1] = x[1] /\ y[2] < x[2])
        /\ x[1] < y[1] \/ (x[1] = y[1] /\ x[2] < y[2])
    <3>1. Before(<<1, y[1], y[2]>>, <<1, x[1], x[2]>>) /\ Before(<<1, x[1], x[2]>>, <<1, y[1], y[2]>>)
      BY <2>1, <2>3
    <3>2. ASSUME NEW c \in Nat, NEW r \in Nat, NEW d \in Nat, NEW s \in Nat,
                 Before(<<1, d, s>>, <<1, c, r>>)
          PROVE  d < c \/ (d = c /\ s < r)
      BY <3>2, FormsAre
    <3> HIDE DEF names, IsFirst
    <3> QED  BY <2>4, <3>1, <3>2
  <2> QED  BY <2>4, <2>5
<1>6. First(names) = b.name
  <2>1. First(names) = CHOOSE n \in names : IsFirst(n)
    BY DEF First
  <2> HIDE DEF names, IsFirst
  <2> QED  BY <1>2, <1>4, <1>5, <2>1
<1> QED  BY <1>2, <1>6 DEF AnsweredRight

\* A packet begins with the names it asks for.
LEMMA HandleGetnextKept ==
    ASSUME IteratorInv, HandleGetnext
    PROVE  IteratorInv'
<1>1. PICK asked \in [Bindings -> Names] : binding' = [k \in Bindings |-> Fresh(asked[k])]
  BY DEF HandleGetnext
<1>2. UNCHANGED Fixed /\ skipped' = skipped /\ step' = "table" /\ TableOK
  BY DEF HandleGetnext, IteratorInv, IteratorTypeOK
<1>3. ASSUME NEW k \in Bindings
      PROVE  /\ binding'[k] \in BindingType /\ binding'[k].here
             /\ Waiting(binding'[k])
  <2>1. asked[k] \in Seq(Nat)
    BY TableIteratorAssumption
  <2>2. Fresh(asked[k]) \in BindingType
    BY <2>1 DEF Fresh, BindingType
  <2>3. Waiting(Fresh(asked[k]))
    BY SameIsSame DEF Fresh, Waiting
  <2>4. Fresh(asked[k]).here
    BY DEF Fresh
  <2> QED  BY <1>1, <2>2, <2>3, <2>4
<1>4. IteratorTypeOK'
  BY <1>1, <1>2, <1>3, TableStays DEF IteratorTypeOK, Bindings
<1>5. \A k \in Bindings : (IF binding[k].here THEN InPass(k, binding[k]) ELSE Settled(k))'
  BY <1>2, <1>3, TableStays DEF InPass, Bindings
<1> QED  BY <1>2, <1>4, <1>5 DEF IteratorInv, Bindings

\* What the invariant says of a variable that a step leaves alone.
LEMMA HereIs ==
    ASSUME IteratorInv, step # "ask"
    PROVE  /\ TableOK /\ binding \in [Bindings -> BindingType] /\ DOMAIN binding = Bindings
           /\ \A k \in Bindings : /\ ~binding[k].here => Settled(k)
                                  /\ binding[k].here => InPass(k, binding[k])
<1>1. TableOK /\ binding \in [Bindings -> BindingType]
  BY DEF IteratorInv, IteratorTypeOK
<1> QED  BY <1>1 DEF IteratorInv

\* The iterator's preliminary analysis changes only the column.
LEMMA LiftedIs ==
    ASSUME NEW b \in BindingType
    PROVE  /\ Lifted(b) \in BindingType /\ Lifted(b).here = b.here /\ Lifted(b).type = b.type
           /\ Lifted(b).name = b.name /\ Lifted(b).asked = b.asked /\ Lifted(b).row = b.row
           /\ Lifted(b).processed = b.processed
           /\ Lifted(b).colnum = b.colnum \/ Lifted(b).colnum = MinColumn - 1
<1>1. MinColumn - 1 \in Nat
  BY NumbersAre
<1>2. CASE Lifted(b) = b
  BY <1>2
<1>3. CASE Lifted(b) = [b EXCEPT !.colnum = MinColumn - 1]
  BY <1>1, <1>3 DEF BindingType
<1> QED  BY <1>2, <1>3 DEF Lifted

\* The pass of the table helper keeps the invariant.
LEMMA TableKept ==
    ASSUME IteratorInv, Table
    PROVE  IteratorInv'
<1> DEFINE parsed == [k \in Bindings |->
                         IF binding[k].here THEN Parsed(binding[k]) ELSE binding[k]]
           here == {k \in Bindings : parsed[k].here}
<1>1. /\ step = "table" /\ UNCHANGED Fixed /\ skipped' = skipped
      /\ \/ /\ \A k \in here : parsed[k].colnum = 0
            /\ binding' = parsed /\ step' = "reassign"
         \/ /\ \E k \in here : ~parsed[k].known
            /\ binding' = parsed /\ step' = "error"
         \/ /\ \A k \in here : parsed[k].known
            /\ binding' = [k \in Bindings |-> Lifted(parsed[k])] /\ step' = "scan"
  BY DEF Table
<1>2. /\ TableOK /\ binding \in [Bindings -> BindingType]
      /\ \A k \in Bindings : /\ ~binding[k].here => Settled(k)
                             /\ binding[k].here => Waiting(binding[k])
  BY <1>1, HereIs DEF InPass
<1>3. ASSUME NEW k \in Bindings, binding[k].here
      PROVE  LET p == parsed[k]
             IN  /\ p \in BindingType /\ p.asked = binding[k].asked /\ p.here
                 /\ p.type = "null" /\ ~p.processed /\ p.row = 0
                 /\ ~p.known => p.asked # <<>> /\ p.asked[1] > 1
                 /\ SameBehind(p.name, p.asked)
                 /\ \A x \in cells : x[1] < p.colnum => ~Before(p.name, <<1, x[1], x[2]>>)
                 /\ p.colnum = 0 => NoneBehind(p.asked)
  <2>1. binding[k] \in BindingType /\ Waiting(binding[k]) /\ parsed[k] = Parsed(binding[k])
    BY <1>2, <1>3
  <2> QED  BY <1>2, <1>3, <2>1, ParsedIs
<1>4. \A k \in Bindings : /\ ~binding[k].here => parsed[k] = binding[k] /\ k \notin here
                          /\ binding[k].here => k \in here
  BY <1>3
<1>5. parsed \in [Bindings -> BindingType]
  <2>1. \A k \in Bindings : parsed[k] \in BindingType
    BY <1>2, <1>3, <1>4
  <2>2. parsed = [k \in Bindings |-> parsed[k]]
    OBVIOUS
  <2> HIDE DEF parsed
  <2> QED  BY <2>1, <2>2
<1>6. ASSUME NEW k \in Bindings, ~binding[k].here, binding'[k] = binding[k]
      PROVE  ~binding'[k].here /\ Settled(k)'
  BY <1>1, <1>2, <1>6, TableStays DEF Settled
<1>7. UNCHANGED Bindings
  BY DEF Bindings
<1> HIDE DEF parsed
<1>8. CASE (\A k \in here : parsed[k].colnum = 0) /\ binding' = parsed /\ step' = "reassign"
  <2>1. ASSUME NEW k \in Bindings
        PROVE  IF binding'[k].here THEN InPass(k, binding[k])' ELSE Settled(k)'
    <3>1. CASE ~binding[k].here
      BY <1>4, <1>6, <1>8, <3>1
    <3>2. CASE binding[k].here
      <4>1. parsed[k].here /\ parsed[k].type = "null" /\ NoneBehind(parsed[k].asked)
        BY <1>3, <1>4, <1>8, <3>2
      <4>2. AnsweredRight(parsed[k])
        BY <4>1, SameIsSame
      <4>3. Settled(k)'
        BY <1>1, <1>8, <4>1, <4>2, TableStays DEF Settled
      <4> QED  BY <1>8, <4>1, <4>3 DEF InPass
    <3> QED  BY <3>1, <3>2
  <2>2. IteratorTypeOK'
    BY <1>1, <1>2, <1>5, <1>7, <1>8, TableStays DEF IteratorTypeOK
  <2> QED  BY <1>7, <1>8, <2>1, <2>2 DEF IteratorInv
<1>9. CASE (\E k \in here : ~parsed[k].known) /\ binding' = parsed /\ step' = "error"
  <2>1. ASSUME NEW k \in Bindings
        PROVE  IF binding'[k].here THEN InPass(k, binding[k])' ELSE Settled(k)'
    <3>1. CASE ~binding[k].here
      BY <1>4, <1>6, <1>9, <3>1
    <3>2. CASE binding[k].here
      BY <1>3, <1>9, <3>2 DEF InPass
    <3> QED  BY <3>1, <3>2
  <2>2. IteratorTypeOK'
    BY <1>1, <1>2, <1>5, <1>7, <1>9, TableStays DEF IteratorTypeOK
  <2>3. PICK k \in here : ~parsed[k].known
    BY <1>9
  <2>4. k \in Bindings /\ parsed[k].asked # <<>> /\ parsed[k].asked[1] > 1
    BY <1>3, <1>4, <2>3
  <2> QED  BY <1>7, <1>9, <2>1, <2>2, <2>4 DEF IteratorInv
<1>10. CASE /\ \A k \in here : parsed[k].known
            /\ binding' = [k \in Bindings |-> Lifted(parsed[k])] /\ step' = "scan"
  <2>1. ASSUME NEW k \in Bindings
        PROVE  /\ binding'[k] \in BindingType
               /\ IF binding'[k].here THEN InPass(k, binding[k])' ELSE Settled(k)'
    <3>1. binding'[k] = Lifted(parsed[k]) /\ parsed[k] \in BindingType
      BY <1>5, <1>10
    <3>2. CASE ~binding[k].here
      <4>1. parsed[k] = binding[k] /\ ~parsed[k].here
        BY <1>4, <3>2
      <4>2. /\ Lifted(parsed[k]).here = parsed[k].here /\ Lifted(parsed[k]).asked = parsed[k].asked
            /\ Lifted(parsed[k]).type = parsed[k].type /\ Lifted(parsed[k]).name = parsed[k].name
            /\ Lifted(parsed[k]) \in BindingType
        BY <3>1, LiftedIs
      <4>3. AnsweredRight(Lifted(parsed[k])) <=> AnsweredRight(parsed[k])
        BY <4>2 DEF AnsweredRight
      <4>4. Settled(k)'
        BY <1>1, <1>2, <3>1, <3>2, <4>1, <4>2, <4>3, TableStays DEF Settled
      <4> QED  BY <3>1, <4>1, <4>2, <4>4
    <3>3. CASE binding[k].here
      <4> DEFINE p == parsed[k]
                 q == Lifted(p)
      <4>1. /\ p.here /\ p.type = "null" /\ ~p.processed /\ p.row = 0
            /\ SameBehind(p.name, p.asked)
            /\ \A x \in cells : x[1] < p.colnum => ~Before(p.name, <<1, x[1], x[2]>>)
        BY <1>3, <3>3
      <4>2. /\ q \in BindingType /\ q.here = p.here /\ q.type = p.type /\ q.name = p.name
            /\ q.asked = p.asked /\ q.row = p.row /\ q.processed = p.processed
            /\ q.colnum = p.colnum \/ q.colnum = MinColumn - 1
        BY <3>1, LiftedIs
      <4>3. \A x \in cells : ~(x[1] < MinColumn - 1)
        BY CellsAre, NumbersAre, <1>2
      <4> HIDE DEF p, q
      <4>4. Looking(q)
        BY <4>1, <4>2, <4>3 DEF Looking
      <4>5. binding'[k] = q
        BY <3>1 DEF p, q
      <4>6. InPass(k, binding[k])'
        BY <1>1, <1>10, <4>1, <4>2, <4>4, <4>5, TableStays DEF InPass
      <4> QED  BY <4>1, <4>2, <4>5, <4>6
    <3> QED  BY <3>2, <3>3
  <2>2. IteratorTypeOK'
    BY <1>1, <1>2, <1>7, <1>10, <2>1, TableStays DEF IteratorTypeOK
  <2> QED  BY <1>7, <1>10, <2>1, <2>2 DEF IteratorInv
<1> QED  BY <1>1, <1>8, <1>9, <1>10

\* A scan of all rows, for all variables at once, keeps the invariant.
LEMMA ScanKept ==
    ASSUME IteratorInv, Scan
    PROVE  IteratorInv'
<1>1. /\ step = "scan" /\ step' = "advance" /\ UNCHANGED Fixed /\ skipped' = skipped
      /\ binding' = [k \in Bindings |->
                      IF k \in Pending /\ binding[k].row = 0
                      THEN [binding[k] EXCEPT !.row = Best(binding[k])] ELSE binding[k]]
  BY DEF Scan
<1>2. /\ TableOK /\ binding \in [Bindings -> BindingType] /\ DOMAIN binding = Bindings
      /\ \A k \in Bindings :
           /\ ~binding[k].here => Settled(k)
           /\ binding[k].here => IF binding[k].processed THEN binding[k].type = "null" /\ Settled(k)
                                 ELSE Looking(binding[k])
  BY <1>1, HereIs DEF InPass
<1>3. ASSUME NEW k \in Bindings
      PROVE  /\ binding'[k] \in BindingType
             /\ IF binding'[k].here THEN InPass(k, binding[k])' ELSE Settled(k)'
  <2> DEFINE b == binding[k]
  <2>1. b \in BindingType
    BY <1>2
  <2>2. CASE k \in Pending /\ b.row = 0
    <3>1. b.here /\ ~b.processed /\ Looking(b)
      BY <1>2, <2>2 DEF Pending
    <3> DEFINE n == [b EXCEPT !.row = Best(b)]
    <3>2. binding'[k] = n
      BY <1>1, <2>2
    <3>3. Best(b) \in Nat
      BY <1>2, BestIs
    <3>4. /\ n \in BindingType /\ n.here /\ ~n.processed /\ n.row = Best(b) /\ n.name = b.name
          /\ n.asked = b.asked /\ n.type = b.type /\ n.colnum = b.colnum
      BY <2>1, <3>1, <3>3 DEF BindingType
    <3> HIDE DEF n, b
    <3>5. Looking(n) /\ Looked(n)
      BY <1>2, <3>1, <3>4, BestIs DEF Looking, Looked
    <3>6. InPass(k, binding[k])'
      BY <1>1, <3>2, <3>4, <3>5, TableStays DEF InPass
    <3> QED  BY <3>2, <3>4, <3>6
  <2>3. CASE ~(k \in Pending /\ b.row = 0)
    <3>1. binding'[k] = b
      BY <1>1, <2>3
    <3>2. CASE ~b.here \/ b.processed
      <4>1. Settled(k)'
        BY <1>1, <1>2, <3>1, <3>2, TableStays DEF Settled
      <4> QED  BY <1>1, <1>2, <2>1, <3>1, <3>2, <4>1 DEF InPass
    <3>3. CASE b.here /\ ~b.processed
      <4>1. b.row # 0 /\ Looking(b)
        BY <1>2, <2>3, <3>3 DEF Pending
      <4>2. Looked(b)
        BY <4>1 DEF Looked
      <4>3. InPass(k, binding[k])'
        BY <1>1, <3>1, <3>3, <4>1, <4>2, TableStays DEF InPass
      <4> QED  BY <2>1, <3>1, <3>3, <4>3
    <3> QED  BY <3>2, <3>3
  <2> QED  BY <2>2, <2>3
<1>4. IteratorTypeOK'
  BY <1>1, <1>2, <1>3, TableStays DEF IteratorTypeOK, Bindings
<1> QED  BY <1>1, <1>3, <1>4 DEF IteratorInv, Bindings

\* Variables without a row go to the next column; the one that has no further column is
\* done with.
LEMMA AdvanceKept ==
    ASSUME IteratorInv, Advance
    PROVE  IteratorInv'
<1> DEFINE moved == {k \in Unfilled : \A j \in Ended : k < j}
<1>1. /\ step = "advance" /\ UNCHANGED Fixed /\ skipped' = skipped
      /\ binding' = [k \in Bindings |->
             LET b == binding[k]
             IN  IF k \in moved THEN [b EXCEPT !.colnum = NextColumn(b.colnum)]
                 ELSE IF k \in Ended /\ \A j \in Ended : k <= j
                 THEN [b EXCEPT !.name = <<1, b.colnum + 1>>, !.processed = TRUE]
                 ELSE b]
      /\ step' \in {"call", "scan"}
  BY DEF Advance
<1>2. /\ TableOK /\ binding \in [Bindings -> BindingType] /\ DOMAIN binding = Bindings
      /\ \A k \in Bindings :
           /\ ~binding[k].here => Settled(k)
           /\ binding[k].here => IF binding[k].processed THEN binding[k].type = "null" /\ Settled(k)
                                 ELSE Looking(binding[k]) /\ Looked(binding[k])
  BY <1>1, HereIs DEF InPass
<1>3. ASSUME NEW k \in Bindings
      PROVE  /\ binding'[k] \in BindingType
             /\ IF binding'[k].here THEN InPass(k, binding[k])' ELSE Settled(k)'
  <2> DEFINE b == binding[k]
             c == NextColumn(b.colnum)
  <2>1. b \in BindingType /\ b.colnum \in Nat
    BY <1>2 DEF BindingType
  <2>2. CASE k \in Unfilled
    <3>1. b.here /\ ~b.processed /\ b.row = 0 /\ Looking(b) /\ Looked(b)
      BY <1>2, <2>2 DEF Unfilled, Pending
    <3>2. \A x \in cells : x[1] <= b.colnum => ~Before(b.name, <<1, x[1], x[2]>>)
      <4> SUFFICES ASSUME NEW x \in cells, x[1] <= b.colnum
                   PROVE  ~Before(b.name, <<1, x[1], x[2]>>)
        OBVIOUS
      <4>1. x[1] \in Nat /\ x[2] \in rows
        BY <1>2, CellsAre
      <4>2. CASE x[1] < b.colnum
        BY <3>1, <4>2 DEF Looking
      <4>3. CASE x[1] = b.colnum
        BY <3>1, <4>1, <4>3 DEF Looked
      <4> QED  BY <2>1, <4>1, <4>2, <4>3
    <3>3. /\ c \in Nat
          /\ \A x \in cells : x[1] <= b.colnum \/ (c # 0 /\ c <= x[1])
      BY <1>2, <2>1, NextColumnIs
    <3>4. CASE k \in moved
      <4> DEFINE n == [b EXCEPT !.colnum = c]
      <4>1. binding'[k] = n
        BY <1>1, <3>4
      <4>2. /\ n \in BindingType /\ n.here /\ ~n.processed /\ n.row = 0 /\ n.name = b.name
            /\ n.asked = b.asked /\ n.type = b.type /\ n.colnum = c
        BY <2>1, <3>1, <3>3 DEF BindingType
      <4>3. \A x \in cells : x[1] < c => ~Before(b.name, <<1, x[1], x[2]>>)
        <5> SUFFICES ASSUME NEW x \in cells, x[1] < c
                     PROVE  ~Before(b.name, <<1, x[1], x[2]>>)
          OBVIOUS
        <5>1. x[1] \in Nat
          BY <1>2, CellsAre
        <5>2. x[1] <= b.colnum
          <6> HIDE DEF c, b
          <6> QED  BY <3>3, <5>1
        <5> QED  BY <3>2, <5>2
      <4> HIDE DEF n, b, c
      <4>4. Looking(n)
        BY <3>1, <4>2, <4>3 DEF Looking
      <4>5. step' = "scan"
        BY <3>4 DEF Advance
      <4>6. InPass(k, binding[k])'
        BY <1>1, <4>1, <4>2, <4>4, <4>5, TableStays DEF InPass
      <4> QED  BY <4>1, <4>2, <4>6
    <3>5. CASE k \notin moved /\ k \in Ended /\ \A j \in Ended : k <= j
      <4> DEFINE n == [b EXCEPT !.name = <<1, b.colnum + 1>>, !.processed = TRUE]
      <4>1. binding'[k] = n
        BY <1>1, <3>5
      <4>2. /\ n \in BindingType /\ n.here /\ n.processed /\ n.asked = b.asked /\ n.type = b.type
        <5>1. <<1, b.colnum + 1>> \in Seq(Nat)
          BY <2>1
        <5> QED  BY <2>1, <3>1, <5>1 DEF BindingType
      <4>3. c = 0
        BY <3>5 DEF Ended
      <4>4. NoneBehind(b.name)
        BY <3>2, <3>3, <4>3 DEF NoneBehind
      <4>5. b.type = "null" /\ SameBehind(b.name, b.asked)
        BY <3>1 DEF Looking
      <4> HIDE DEF n, b, c
      <4>6. AnsweredRight(n)
        BY <4>2, <4>4, <4>5, SameIsSame
      <4>7. Settled(k)'
        BY <1>1, <4>1, <4>2, <4>5, <4>6, TableStays DEF Settled
      <4>8. InPass(k, binding[k])'
        BY <1>1, <4>1, <4>2, <4>5, <4>7 DEF InPass
      <4> QED  BY <4>1, <4>2, <4>8
    <3>6. CASE k \notin moved /\ ~(k \in Ended /\ \A j \in Ended : k <= j)
      <4>1. binding'[k] = b
        BY <1>1, <3>6
      <4>2. InPass(k, binding[k])'
        BY <1>1, <3>1, <4>1, TableStays DEF InPass
      <4> QED  BY <2>1, <3>1, <4>1, <4>2
    <3> QED  BY <3>4, <3>5, <3>6
  <2>3. CASE k \notin Unfilled
    <3>1. binding'[k] = b
      BY <1>1, <2>3 DEF Ended
    <3>2. CASE ~b.here \/ b.processed
      <4>1. Settled(k)'
        BY <1>1, <1>2, <3>1, <3>2, TableStays DEF Settled
      <4> QED  BY <1>1, <1>2, <2>1, <3>1, <3>2, <4>1 DEF InPass
    <3>3. CASE b.here /\ ~b.processed
      <4>1. InPass(k, binding[k])'
        BY <1>1, <1>2, <3>1, <3>3, TableStays DEF InPass
      <4> QED  BY <2>1, <3>1, <3>3, <4>1
    <3> QED  BY <3>2, <3>3
  <2> QED  BY <2>2, <2>3
<1>4. IteratorTypeOK'
  <2>1. step' \in {"ask", "table", "scan", "advance", "call", "reassign", "done", "error"}
    BY <1>1
  <2>2. binding' = [k \in Bindings |-> binding'[k]]
    BY <1>1
  <2> QED  BY <1>1, <1>2, <1>3, <2>1, <2>2, TableStays DEF IteratorTypeOK, Bindings
<1> QED  BY <1>1, <1>3, <1>4 DEF IteratorInv, Bindings

\* A name before an instance is before those behind it.
LEMMA BeyondIs ==
    ASSUME NEW n \in Seq(Nat), NEW c \in Nat, NEW r \in Nat, NEW d \in Nat, NEW s \in Nat,
           Before(n, <<1, c, r>>), c < d \/ (c = d /\ r < s)
    PROVE  Before(n, <<1, d, s>>)
<1>1. Precedes(n, c, r)
  BY BeforeIs
<1>2. Precedes(n, d, s)
  <2>1. Len(n) \in Nat /\ \A i \in 1 .. Len(n) : n[i] \in Nat
    OBVIOUS
  <2>2. (Len(n) >= 2 => n[2] \in Nat) /\ (Len(n) >= 3 => n[3] \in Nat)
    BY <2>1
  <2> QED  BY <1>1, <2>1, <2>2 DEF Precedes
<1> QED  BY <1>2, BeforeIs

\* What the table's handler and the sparse table helper make of a row found.
LEMMA CalledIs ==
    ASSUME TableOK, NEW b \in BindingType, Looking(b), b.row # 0
    PROVE  LET n == Sparse([b EXCEPT !.name = <<1, b.colnum, b.row>>], ValueOf(b.colnum, b.row))
           IN  /\ n \in BindingType /\ n.here = b.here /\ n.asked = b.asked
               /\ IF n.type = "retry"
                  THEN SameBehind(n.name, n.asked) /\ n.name # <<>> /\ n.name[1] = 1
                  ELSE AnsweredRight(n)
<1> DEFINE col == b.colnum
           row == b.row
           c == NextColumn(col)
           m == [b EXCEPT !.name = <<1, col, row>>]
           type == ValueOf(col, row)
           n == Sparse(m, type)
           OK(p) == /\ p \in BindingType /\ p.here = b.here /\ p.asked = b.asked
                    /\ IF p.type = "retry"
                       THEN SameBehind(p.name, p.asked) /\ p.name # <<>> /\ p.name[1] = 1
                       ELSE AnsweredRight(p)
<1> SUFFICES OK(n)
  OBVIOUS
<1>1. /\ col \in Nat /\ row \in Nat /\ b.name \in Seq(Nat) /\ b.type = "null"
      /\ SameBehind(b.name, b.asked) /\ row \in rows /\ Before(b.name, <<1, col, row>>)
  BY DEF BindingType, Looking
<1>2. \A y \in cells : y[1] \in Nat /\ y[2] \in Nat /\ y[2] \in rows /\ y = <<y[1], y[2]>>
  BY CellsAre
<1>3. ASSUME NEW y \in cells, Before(b.name, <<1, y[1], y[2]>>)
      PROVE  col < y[1] \/ (col = y[1] /\ row <= y[2])
  <2>1. ~(y[1] < col)
    BY <1>3 DEF Looking
  <2>2. y[1] = col => row <= y[2]
    BY <1>2, <1>3 DEF Looking
  <2> HIDE DEF col, row
  <2> QED  BY <1>1, <1>2, <2>1, <2>2
<1>4. ASSUME NEW y \in cells, col < y[1] \/ (col = y[1] /\ row < y[2])
      PROVE  Before(b.name, <<1, y[1], y[2]>>)
  BY <1>1, <1>2, <1>4, BeyondIs
<1>5. /\ c \in Nat
      /\ \A x \in cells : x[1] <= col \/ (c # 0 /\ c <= x[1])
      /\ c # 0 => c > col
  BY <1>1, NextColumnIs
<1>6. <<1, col, row>> \in Seq(Nat) /\ <<1, c>> \in Seq(Nat)
  BY <1>1, <1>5
<1>7. /\ m \in BindingType /\ m.here = b.here /\ m.asked = b.asked /\ m.type = "null"
      /\ m.name = <<1, col, row>> /\ m.colnum = col
  BY <1>1, <1>6 DEF BindingType
<1> HIDE DEF m, OK, col, row
<1>8. CASE <<col, row>> \in cells
  <2>1. type = "value"
    BY <1>8 DEF ValueOf
  <2>2. n = [m EXCEPT !.type = "value"]
    BY <1>7, <2>1 DEF Sparse
  <2>3. /\ n \in BindingType /\ n.here = b.here /\ n.asked = b.asked /\ n.type = "value"
        /\ n.name = <<1, col, row>>
    BY <1>7, <2>2 DEF BindingType
  <2> DEFINE x == <<col, row>>
  <2>4. x \in cells /\ x[1] = col /\ x[2] = row
    BY <1>8
  <2> HIDE DEF n, x
  <2>5. Before(n.asked, <<1, x[1], x[2]>>)
    BY <1>1, <2>3, <2>4 DEF SameBehind
  <2>6. \A y \in cells : Before(n.asked, <<1, y[1], y[2]>>) =>
               x[1] < y[1] \/ (x[1] = y[1] /\ x[2] <= y[2])
    BY <1>1, <1>3, <2>3, <2>4 DEF SameBehind
  <2>7. AnsweredRight(n)
    BY <2>3, <2>4, <2>5, <2>6, FirstIs
  <2> QED  BY <2>3, <2>7 DEF OK
<1>9. CASE <<col, row>> \notin cells /\ col \notin absent
  <2>1. type = "noInstance"
    BY <1>9 DEF ValueOf
  <2>2. n = [m EXCEPT !.type = "retry"]
    BY <1>7, <2>1 DEF Sparse
  <2>3. /\ n \in BindingType /\ n.here = b.here /\ n.asked = b.asked /\ n.type = "retry"
        /\ n.name = <<1, col, row>>
    BY <1>7, <2>2 DEF BindingType
  <2>4. ASSUME NEW y \in cells
        PROVE  Before(<<1, col, row>>, <<1, y[1], y[2]>>) <=> Before(b.name, <<1, y[1], y[2]>>)
    <3>1. y[1] \in Nat /\ y[2] \in Nat /\ ~(y[1] = col /\ y[2] = row)
      BY <1>2, <1>9
    <3>2. Before(<<1, col, row>>, <<1, y[1], y[2]>>) <=> col < y[1] \/ (col = y[1] /\ row < y[2])
      BY <1>1, <3>1, FormsAre
    <3>3. Before(b.name, <<1, y[1], y[2]>>) => col < y[1] \/ (col = y[1] /\ row < y[2])
      BY <1>1, <1>3, <3>1
    <3> QED  BY <1>4, <3>2, <3>3
  <2>5. SameBehind(n.name, n.asked)
    BY <1>1, <2>3, <2>4 DEF SameBehind
  <2>6. n.name # <<>> /\ n.name[1] = 1
    BY <2>3
  <2> HIDE DEF n
  <2> QED  BY <2>3, <2>5, <2>6 DEF OK
<1>10. CASE <<col, row>> \notin cells /\ col \in absent
  <2>1. type = "noObject"
    BY <1>10 DEF ValueOf
  <2>2. ASSUME NEW y \in cells  PROVE y[1] # col
    BY <1>2, <1>10 DEF TableOK
  <2>3. CASE c = 0
    <3>1. n = m
      BY <1>7, <2>1, <2>3 DEF Sparse
    <3>2. NoneBehind(b.name)
      <4> SUFFICES ASSUME NEW y \in cells, Before(b.name, <<1, y[1], y[2]>>)  PROVE FALSE
        BY DEF NoneBehind
      <4>1. y[1] <= col /\ y[1] # col /\ y[1] \in Nat
        BY <1>2, <1>5, <2>2, <2>3
      <4>2. col < y[1] \/ col = y[1]
        BY <1>3
      <4> QED  BY <1>1, <4>1, <4>2
    <3>3. AnsweredRight(m)
      BY <1>1, <1>7, <3>2, SameIsSame
    <3> HIDE DEF n
    <3> QED  BY <1>7, <3>1, <3>3 DEF OK
  <2>4. CASE c # 0
    <3>1. n = [m EXCEPT !.type = "retry", !.name = <<1, c>>]
      BY <1>7, <2>1, <2>4 DEF Sparse
    <3>2. /\ n \in BindingType /\ n.here = b.here /\ n.asked = b.asked /\ n.type = "retry"
          /\ n.name = <<1, c>>
      BY <1>6, <1>7, <3>1 DEF BindingType
    <3>3. ASSUME NEW y \in cells
          PROVE  Before(<<1, c>>, <<1, y[1], y[2]>>) <=> Before(b.name, <<1, y[1], y[2]>>)
      <4>1. y[1] \in Nat /\ y[2] \in Nat /\ y[1] # col
        BY <1>2, <2>2
      <4>2. Before(<<1, c>>, <<1, y[1], y[2]>>) <=> c <= y[1]
        BY <1>5, <4>1, FormsAre
      <4>3. Before(b.name, <<1, y[1], y[2]>>) => col < y[1]
        BY <1>3, <4>1
      <4>4. c <= y[1] <=> col < y[1]
        <5>1. c \in Nat /\ c > col /\ (y[1] <= col \/ c <= y[1])
          BY <1>5, <2>4
        <5> HIDE DEF c
        <5> QED  BY <1>1, <4>1, <5>1
      <4> QED  BY <1>4, <4>2, <4>3, <4>4
    <3>4. SameBehind(n.name, n.asked)
      BY <1>1, <3>2, <3>3 DEF SameBehind
    <3>5. n.name # <<>> /\ n.name[1] = 1
      BY <3>2
    <3> HIDE DEF n
    <3> QED  BY <3>2, <3>4, <3>5 DEF OK
  <2> QED  BY <2>3, <2>4
<1> QED  BY <1>8, <1>9, <1>10

\* The table's own handler is asked for the rows that were found.
LEMMA CallKept ==
    ASSUME IteratorInv, Call
    PROVE  IteratorInv'
<1>1. /\ step = "call" /\ step' = "reassign" /\ UNCHANGED Fixed
      /\ skipped' = skipped \cup (Unfilled \ Ended)
      /\ binding' = [k \in Bindings |->
             LET b == binding[k]
                 c == NextColumn(b.colnum)
             IN  IF k \notin Pending THEN b
                 ELSE IF b.row = 0
                 THEN [b EXCEPT !.name = <<1, IF c = 0 THEN MaxColumn + 1 ELSE c>>,
                                !.processed = TRUE]
                 ELSE Sparse([b EXCEPT !.name = <<1, b.colnum, b.row>>],
                             ValueOf(b.colnum, b.row))]
  BY DEF Call
<1>2. /\ TableOK /\ binding \in [Bindings -> BindingType] /\ DOMAIN binding = Bindings
      /\ \A k \in Bindings :
           /\ ~binding[k].here => Settled(k)
           /\ binding[k].here => IF binding[k].processed THEN binding[k].type = "null" /\ Settled(k)
                                 ELSE Looking(binding[k]) /\ Looked(binding[k])
  BY <1>1, HereIs DEF InPass
<1>3. ASSUME NEW k \in Bindings
      PROVE  /\ binding'[k] \in BindingType
             /\ IF binding'[k].here THEN InPass(k, binding[k])' ELSE Settled(k)'
  <2> DEFINE b == binding[k]
             c == NextColumn(b.colnum)
             last == IF c = 0 THEN MaxColumn + 1 ELSE c
  <2>1. b \in BindingType /\ b.colnum \in Nat
    BY <1>2 DEF BindingType
  <2>2. /\ c \in Nat
        /\ \A x \in cells : x[1] <= b.colnum \/ (c # 0 /\ c <= x[1])
    BY <1>2, <2>1, NextColumnIs
  <2>3. CASE k \notin Pending
    <3>1. binding'[k] = b
      BY <1>1, <2>3
    <3>2. Settled(k) /\ (b.here => b.type = "null")
      BY <1>2, <2>3 DEF Pending
    <3>3. Settled(k)'
      BY <1>1, <3>1, <3>2, TableStays DEF Settled
    <3> QED  BY <1>1, <2>1, <3>1, <3>2, <3>3 DEF InPass
  <2>4. CASE k \in Pending /\ b.row = 0
    <3>1. b.here /\ ~b.processed /\ Looking(b) /\ Looked(b)
      BY <1>2, <2>4 DEF Pending
    <3> DEFINE n == [b EXCEPT !.name = <<1, last>>, !.processed = TRUE]
    <3>2. binding'[k] = n
      BY <1>1, <2>4
    <3>3. /\ n \in BindingType /\ n.here /\ n.asked = b.asked /\ n.type = b.type
      <4>1. last \in Nat
        BY <2>2, NumbersAre
      <4>2. <<1, last>> \in Seq(Nat)
        BY <4>1
      <4> HIDE DEF last
      <4> QED  BY <2>1, <3>1, <4>2 DEF BindingType
    <3>4. b.type = "null" /\ SameBehind(b.name, b.asked)
      BY <3>1 DEF Looking
    <3>5. Settled(k)'
      <4>1. CASE c # 0
        <5>1. k \in Unfilled \ Ended
          BY <2>4, <4>1 DEF Unfilled, Ended
        <5> HIDE DEF n, b
        <5> QED  BY <1>1, <3>2, <3>3, <3>4, <5>1 DEF Settled
      <4>2. CASE c = 0
        <5>1. NoneBehind(b.name)
          <6> SUFFICES ASSUME NEW x \in cells  PROVE ~Before(b.name, <<1, x[1], x[2]>>)
            BY DEF NoneBehind
          <6>1. x[1] \in Nat /\ x[2] \in rows /\ x[1] <= b.colnum
            BY <1>2, <2>2, <4>2, CellsAre
          <6>2. CASE x[1] < b.colnum
            BY <3>1, <6>2 DEF Looking
          <6>3. CASE x[1] = b.colnum
            BY <2>4, <3>1, <6>1, <6>3 DEF Looked
          <6> QED  BY <2>1, <6>1, <6>2, <6>3
        <5> HIDE DEF n
        <5>2. AnsweredRight(n)
          BY <3>3, <3>4, <5>1, SameIsSame
        <5> QED  BY <1>1, <3>2, <3>3, <3>4, <5>2, TableStays DEF Settled
      <4> QED  BY <4>1, <4>2
    <3> HIDE DEF n
    <3> QED  BY <1>1, <3>2, <3>3, <3>4, <3>5 DEF InPass
  <2>5. CASE k \in Pending /\ b.row # 0
    <3>1. b.here /\ Looking(b)
      BY <1>2, <2>5 DEF Pending
    <3> DEFINE n == Sparse([b EXCEPT !.name = <<1, b.colnum, b.row>>], ValueOf(b.colnum, b.row))
    <3>2. binding'[k] = n
      BY <1>1, <2>5
    <3>3. /\ n \in BindingType /\ n.here = b.here /\ n.asked = b.asked
          /\ IF n.type = "retry"
             THEN SameBehind(n.name, n.asked) /\ n.name # <<>> /\ n.name[1] = 1
             ELSE AnsweredRight(n)
      BY <1>2, <2>1, <2>5, <3>1, CalledIs
    <3> HIDE DEF n, b
    <3>4. n.type # "retry" => Settled(k)'
      BY <1>1, <3>2, <3>3, TableStays DEF Settled
    <3> QED  BY <1>1, <3>1, <3>2, <3>3, <3>4, TableStays DEF InPass
  <2> QED  BY <2>3, <2>4, <2>5
<1>4. IteratorTypeOK'
  <2>1. binding' = [k \in Bindings |-> binding'[k]]
    BY <1>1
  <2> QED  BY <1>1, <1>2, <1>3, <2>1, TableStays DEF IteratorTypeOK, Bindings
<1> QED  BY <1>1, <1>3, <1>4 DEF IteratorInv, Bindings

\* A variable without a value is asked for again, with the name where the search ended.
LEMMA ReassignKept ==
    ASSUME IteratorInv, Reassign
    PROVE  IteratorInv'
<1>1. /\ step = "reassign" /\ UNCHANGED Fixed /\ skipped' = skipped
      /\ binding' = [k \in Bindings |-> Reassigned(binding[k])]
      /\ step' = IF \E k \in Bindings : binding'[k].here THEN "table" ELSE "done"
  BY DEF Reassign
<1>2. /\ TableOK /\ binding \in [Bindings -> BindingType]
      /\ \A k \in Bindings :
           /\ ~binding[k].here => Settled(k)
           /\ binding[k].here =>
                IF binding[k].type = "retry"
                THEN /\ SameBehind(binding[k].name, binding[k].asked)
                     /\ binding[k].name # <<>> /\ binding[k].name[1] = 1
                ELSE Settled(k)
  BY <1>1, HereIs DEF InPass
<1>3. ASSUME NEW k \in Bindings
      PROVE  /\ binding'[k] \in BindingType
             /\ binding'[k].here => Waiting(binding'[k])
             /\ ~binding'[k].here => Settled(k)'
  <2> DEFINE b == binding[k]
             n == Reassigned(b)
  <2>1. b \in BindingType /\ binding'[k] = n
    BY <1>1, <1>2
  <2>2. CASE b.type = "retry"
    <3>1. b.here
      BY <1>2, <2>2 DEF Settled
    <3>2. SameBehind(b.name, b.asked) /\ b.name # <<>> /\ b.name[1] = 1
      BY <1>2, <2>2, <3>1
    <3>3. n = [Fresh(b.name) EXCEPT !.asked = b.asked]
      BY <2>2 DEF Reassigned
    <3>4. /\ n \in BindingType /\ n.here /\ n.asked = b.asked /\ n.name = b.name
          /\ n.type = "null" /\ ~n.processed /\ n.row = 0
      <4>1. b.name \in Seq(Nat) /\ b.asked \in Seq(Nat)
        BY <2>1 DEF BindingType
      <4>2. n = [asked |-> b.asked, name |-> b.name, type |-> "null", here |-> TRUE,
                 known |-> FALSE, processed |-> FALSE, colnum |-> 0, row |-> 0]
        BY <3>3 DEF Fresh
      <4> QED  BY <4>1, <4>2 DEF BindingType
    <3> HIDE DEF n, b
    <3>5. Waiting(n)
      BY <3>2, <3>4 DEF Waiting
    <3> QED  BY <2>1, <3>4, <3>5
  <2>3. CASE b.type # "retry"
    <3>1. Settled(k)
      BY <1>2, <2>3
    <3>2. n = [b EXCEPT !.here = FALSE]
      BY <2>3 DEF Reassigned
    <3>3. /\ n \in BindingType /\ ~n.here /\ n.asked = b.asked /\ n.name = b.name
          /\ n.type = b.type
      BY <2>1, <3>2 DEF BindingType
    <3> HIDE DEF n
    <3>4. AnsweredRight(n) <=> AnsweredRight(b)
      BY <3>3 DEF AnsweredRight
    <3>5. Settled(k)'
      BY <1>1, <2>1, <3>1, <3>3, <3>4, TableStays DEF Settled
    <3> QED  BY <2>1, <3>3, <3>5
  <2> QED  BY <2>2, <2>3
<1>4. IteratorTypeOK'
  BY <1>1, <1>2, <1>3, TableStays DEF IteratorTypeOK, Bindings
<1>5. \A k \in Bindings : (IF binding[k].here THEN InPass(k, binding[k]) ELSE Settled(k))'
  <2> SUFFICES ASSUME NEW k \in Bindings
               PROVE  IF binding'[k].here THEN InPass(k, binding[k])' ELSE Settled(k)'
    BY DEF Bindings
  <2>1. CASE binding'[k].here
    <3>1. step' = "table" /\ Waiting(binding'[k])
      BY <1>1, <1>3, <2>1
    <3> QED  BY <1>1, <2>1, <3>1, TableStays DEF InPass
  <2> QED  BY <1>3, <2>1
<1> QED  BY <1>1, <1>4, <1>5 DEF IteratorInv, Bindings

\* The invariant holds before the packet.
LEMMA IteratorStart == IteratorInit => IteratorInv
<1> SUFFICES ASSUME IteratorInit  PROVE IteratorInv
  OBVIOUS
<1>1. validColumns \subseteq Columns
  BY TableIteratorAssumption DEF IteratorInit, Columns
<1>2. TableOK
  BY <1>1 DEF IteratorInit, TableOK, CellColumns
<1> QED  BY <1>2 DEF IteratorInit, IteratorInv, IteratorTypeOK

\* ... and every step keeps it.
LEMMA IteratorStep == IteratorInv /\ [IteratorNext]_iteratorVars => IteratorInv'
<1> SUFFICES ASSUME IteratorInv, [IteratorNext]_iteratorVars  PROVE IteratorInv'
  OBVIOUS
<1>1. CASE IteratorNext
  BY <1>1, HandleGetnextKept, TableKept, ScanKept, AdvanceKept, CallKept, ReassignKept DEF IteratorNext
<1>2. CASE UNCHANGED iteratorVars
  <2>1. UNCHANGED Fixed /\ UNCHANGED <<step, binding, skipped>>
    BY <1>2 DEF iteratorVars, Fixed
  <2>2. \A k : (Settled(k)' <=> Settled(k)) /\ (InPass(k, binding[k])' <=> InPass(k, binding[k]))
    BY <2>1, TableStays DEF Settled, InPass
  <2> QED  BY <2>1, <2>2, TableStays DEF IteratorInv, IteratorTypeOK, Bindings
<1> QED  BY <1>1, <1>2

\* In every reachable state of a GETNEXT of several variables of one table (table.c,
\* table_iterator.c, snmp_agent.c) each variable still has behind its name what was behind the one
\* it asked for, no column before the present one has an instance there, and the row kept is the
\* first one of the column.
THEOREM IteratorInvariant == IteratorSpec => []IteratorInv
BY IteratorStart, IteratorStep, PTL DEF IteratorSpec

\* Whatever rows and columns the table has, in whatever order its rows come and however many
\* variables ask: each variable that is answered gets the next instance, and none is answered by
\* mistake with nothing.
THEOREM NextFound == IteratorSpec => []NextInTable
<1>1. IteratorInv => NextInTable
  <2> SUFFICES ASSUME IteratorInv  PROVE NextInTable
    OBVIOUS
  <2>1. ASSUME step = "done", NEW k \in Bindings \ skipped  PROVE AnsweredRight(binding[k])
    BY <2>1 DEF IteratorInv, InPass, Settled
  <2>2. step = "error" => \E k \in Bindings : binding[k].asked # <<>> /\ binding[k].asked[1] > 1
    BY DEF IteratorInv
  <2> QED  BY <2>1, <2>2 DEF NextInTable
<1> QED  BY <1>1, IteratorInvariant, PTL

-----------------------------------------------------------------------------
(* The registry.                                                           *)

\* Of two OIDs in the order of OIDs: what cuts a region in two, and
\* what a registration spans.
Cuts(x, region) == Less(region.from, x) /\ Less(x, region.to)
Spans(r, x) == ~Less(x, r.name) /\ Less(x, End(r.name))

\* The OIDs at which regions may begin and end, and the registrations there may be.
Bounds == {<<1>>, <<2>>} \cup Possible \cup {End(n) : n \in Possible}

Regs == [name : Possible \cup {<<1>>}, priority : Nat, session : Sessions \cup {"null"}]

Region == [from : Bounds, to : Bounds, stack : Seq(Regs)]

\* The regions lie side by side from <<1>> to <<2>>.
SideBySide(list) ==
    /\ list \in Seq(Region) /\ Len(list) > 0
    /\ list[1].from = <<1>> /\ list[Len(list)].to = <<2>>
    /\ \A p \in 1 .. Len(list) : Less(list[p].from, list[p].to)
    /\ \A p \in 1 .. Len(list) - 1 : list[p + 1].from = list[p].to

\* The stack of a region holds the registrations that span it, in order; none
\* begins or ends inside it.
Ordered(stack) ==
    \A p, q \in 1 .. Len(stack) : p < q => Outranks(stack[p], stack[q])

StackOK(region, regs) ==
    /\ \A r \in regs : ~Cuts(r.name, region) /\ ~Cuts(End(r.name), region)
    /\ \A p \in 1 .. Len(region.stack) :
           region.stack[p] \in regs /\ Spans(region.stack[p], region.from)
    /\ \A r \in regs : Spans(r, region.from) =>
           \E p \in 1 .. Len(region.stack) : region.stack[p] = r
    /\ Ordered(region.stack)

Stacked(list, regs) == \A p \in 1 .. Len(list) : StackOK(list[p], regs)

\* What is registered: the root, and no name twice with the same priority.
LiveOK(regs) ==
    /\ regs \subseteq Regs /\ Root \in regs
    /\ \A r, t \in regs : r.name = t.name /\ r.priority = t.priority => r = t

\* The cache points to regions that are not the last.
CacheOK ==
    /\ cacheSize \in Nat /\ slot \in Nat
    /\ cache \in Seq(Nat)
    /\ \A p \in 1 .. Len(cache) : cache[p] \in 1 .. Len(regions) - 1

RegistryInv == SideBySide(regions) /\ Stacked(regions, live) /\ LiveOK(live) /\ CacheOK
\* Where two OIDs differ.
DiffersAt(a, b, k) ==
    /\ k \in 1 .. Len(a) + 1
    /\ \A p \in 1 .. k - 1 : p <= Len(b) /\ a[p] = b[p]
    /\ k > Len(a) \/ k > Len(b) \/ a[k] # b[k]

LEMMA OffsetIs ==
    ASSUME NEW a \in Seq(Nat), NEW b \in Seq(Nat)
    PROVE  /\ DiffersAt(a, b, Offset(a, b))
           /\ \A k : DiffersAt(a, b, k) => k = Offset(a, b)
<1> DEFINE T == {k \in 1 .. Len(a) + 1 : k > Len(a) \/ k > Len(b) \/ a[k] # b[k]}
<1>1. T \subseteq Nat /\ Len(a) + 1 \in T /\ Len(a) \in Nat /\ Len(b) \in Nat
  OBVIOUS
<1>2. PICK k \in T : \A p \in T : k <= p
  BY <1>1, LeastOf
<1>3. DiffersAt(a, b, k)
  BY <1>1, <1>2 DEF DiffersAt
<1>4. Offset(a, b) = CHOOSE p \in 1 .. Len(a) + 1 : DiffersAt(a, b, p)
  BY DEF Offset, DiffersAt
<1>5. ASSUME NEW p, NEW q, DiffersAt(a, b, p), DiffersAt(a, b, q), p < q
      PROVE  FALSE
  <2>1. p \in Nat /\ p \in 1 .. q - 1
    BY <1>1, <1>5 DEF DiffersAt
  <2>2. p <= Len(b) /\ a[p] = b[p]
    BY <1>5, <2>1 DEF DiffersAt
  <2>3. p > Len(a) \/ p > Len(b) \/ a[p] # b[p]
    BY <1>5 DEF DiffersAt
  <2>4. q <= Len(a) + 1
    BY <1>1, <1>5 DEF DiffersAt
  <2>5. q \in Nat
    BY <1>1, <1>5 DEF DiffersAt
  <2> QED  BY <1>1, <1>5, <2>1, <2>2, <2>3, <2>4, <2>5
<1>6. ASSUME NEW p, NEW q, DiffersAt(a, b, p), DiffersAt(a, b, q)
      PROVE  p = q
  <2>1. p \in Nat /\ q \in Nat
    BY <1>1, <1>6 DEF DiffersAt
  <2>2. ~ (p < q) /\ ~ (q < p)
    BY <1>5, <1>6
  <2> QED  BY <2>1, <2>2
<1>7. \E p \in 1 .. Len(a) + 1 : DiffersAt(a, b, p)
  BY <1>3 DEF DiffersAt
<1>8. DiffersAt(a, b, Offset(a, b))
  BY <1>4, <1>7
<1> QED  BY <1>6, <1>8

\* One OID is before another at the first place where they differ.
BeforeAt(a, b, k) ==
    /\ k \in 1 .. Len(b) /\ k <= Len(a) + 1
    /\ \A p \in 1 .. k - 1 : a[p] = b[p]
    /\ k > Len(a) \/ a[k] < b[k]

LEMMA LessIs ==
    ASSUME NEW a \in Seq(Nat), NEW b \in Seq(Nat)
    PROVE  Less(a, b) <=> \E k \in Nat : BeforeAt(a, b, k)
<1> DEFINE o == Offset(a, b)
<1>1. /\ Len(a) \in Nat /\ Len(b) \in Nat
      /\ \A p \in 1 .. Len(a) : a[p] \in Nat
      /\ \A p \in 1 .. Len(b) : b[p] \in Nat
  OBVIOUS
<1>2. DiffersAt(a, b, o) /\ \A k : DiffersAt(a, b, k) => k = o
  BY OffsetIs
<1>3. Less(a, b) <=> o <= Len(b) /\ (o > Len(a) \/ a[o] < b[o])
  BY DEF Less
<1> HIDE DEF o
<1>4. ASSUME Less(a, b)  PROVE BeforeAt(a, b, o) /\ o \in Nat
  BY <1>1, <1>2, <1>3, <1>4 DEF DiffersAt, BeforeAt
<1>5. ASSUME NEW k \in Nat, BeforeAt(a, b, k)  PROVE Less(a, b)
  <2>1. DiffersAt(a, b, k)
    BY <1>1, <1>5 DEF DiffersAt, BeforeAt
  <2>2. k = o
    BY <2>1, <1>2
  <2> QED  BY <1>1, <1>3, <1>5, <2>2 DEF BeforeAt
<1> QED  BY <1>4, <1>5

\* Two OIDs that differ are in one order or the other, and only in one.
LEMMA LessTotal ==
    ASSUME NEW a \in Seq(Nat), NEW b \in Seq(Nat)
    PROVE  /\ ~Less(a, a)
           /\ Less(a, b) => ~Less(b, a)
           /\ a # b => Less(a, b) \/ Less(b, a)
<1>1. /\ Len(a) \in Nat /\ Len(b) \in Nat
      /\ \A p \in 1 .. Len(a) : a[p] \in Nat
      /\ \A p \in 1 .. Len(b) : b[p] \in Nat
  OBVIOUS
<1>2. ~Less(a, a)
  <2> SUFFICES ASSUME NEW k \in Nat, BeforeAt(a, a, k)  PROVE FALSE
    BY LessIs
  <2> QED  BY <1>1 DEF BeforeAt
<1>3. Less(a, b) => ~Less(b, a)
  <2> SUFFICES ASSUME NEW k \in Nat, BeforeAt(a, b, k), NEW l \in Nat, BeforeAt(b, a, l)  PROVE FALSE
    BY LessIs
  <2>1. CASE k < l
    <3>1. b[k] = a[k] /\ k <= Len(a)
      BY <1>1, <2>1 DEF BeforeAt
    <3> QED  BY <1>1, <3>1 DEF BeforeAt
  <2>2. CASE l < k
    <3>1. b[l] = a[l] /\ l <= Len(b)
      BY <1>1, <2>2 DEF BeforeAt
    <3> QED  BY <1>1, <3>1 DEF BeforeAt
  <2>3. CASE k = l
    BY <1>1, <2>3 DEF BeforeAt
  <2> QED  BY <2>1, <2>2, <2>3
<1>4. ASSUME a # b  PROVE Less(a, b) \/ Less(b, a)
  <2> DEFINE k == Offset(a, b)
  <2>1. DiffersAt(a, b, k)
    BY OffsetIs
  <2> HIDE DEF k
  <2>2. k \in Nat /\ k \in 1 .. Len(a) + 1 /\ \A p \in 1 .. k - 1 : p <= Len(b) /\ a[p] = b[p]
    BY <1>1, <2>1 DEF DiffersAt
  <2>3. CASE k > Len(a)
    <3>1. Len(a) <= Len(b) /\ \A p \in 1 .. Len(a) : a[p] = b[p]
      BY <1>1, <2>2, <2>3
    <3>2. Len(a) # Len(b)
      <4> SUFFICES ASSUME Len(a) = Len(b)  PROVE FALSE
        OBVIOUS
      <4> QED  BY <3>1, <1>4
    <3>3. BeforeAt(a, b, k)
      BY <1>1, <2>2, <2>3, <3>1, <3>2 DEF BeforeAt
    <3> QED  BY <2>2, <3>3, LessIs
  <2>4. CASE k <= Len(a) /\ k > Len(b)
    <3>1. BeforeAt(b, a, k)
      BY <1>1, <2>2, <2>4 DEF BeforeAt
    <3> QED  BY <2>2, <3>1, LessIs
  <2>5. CASE k <= Len(a) /\ k <= Len(b)
    <3>1. a[k] # b[k] /\ a[k] \in Nat /\ b[k] \in Nat
      BY <1>1, <2>1, <2>2, <2>5 DEF DiffersAt
    <3>2. a[k] < b[k] => BeforeAt(a, b, k)
      BY <1>1, <2>2, <2>5 DEF BeforeAt
    <3>3. b[k] < a[k] => BeforeAt(b, a, k)
      BY <1>1, <2>2, <2>5 DEF BeforeAt
    <3>4. a[k] < b[k] \/ b[k] < a[k]
      BY <3>1
    <3> QED  BY <2>2, <3>2, <3>3, <3>4, LessIs
  <2> QED  BY <1>1, <2>2, <2>3, <2>4, <2>5
<1> QED  BY <1>2, <1>3, <1>4

\* The order is transitive.
LEMMA LessTransitive ==
    ASSUME NEW a \in Seq(Nat), NEW b \in Seq(Nat), NEW c \in Seq(Nat), Less(a, b), Less(b, c)
    PROVE  Less(a, c)
<1>1. /\ Len(a) \in Nat /\ Len(b) \in Nat /\ Len(c) \in Nat
      /\ \A p \in 1 .. Len(a) : a[p] \in Nat
      /\ \A p \in 1 .. Len(b) : b[p] \in Nat
      /\ \A p \in 1 .. Len(c) : c[p] \in Nat
  OBVIOUS
<1>2. PICK k \in Nat : BeforeAt(a, b, k)
  BY LessIs
<1>3. PICK l \in Nat : BeforeAt(b, c, l)
  BY LessIs
<1>4. CASE k < l
  <2>1. b[k] = c[k] /\ k <= Len(c)
    BY <1>1, <1>2, <1>3, <1>4 DEF BeforeAt
  <2>2. BeforeAt(a, c, k)
    BY <1>1, <1>2, <1>3, <1>4, <2>1 DEF BeforeAt
  <2> QED  BY <2>2, LessIs
<1>5. CASE l < k
  <2>1. l \in 1 .. k - 1 /\ k <= Len(b) /\ k <= Len(a) + 1
    BY <1>1, <1>2, <1>3, <1>5 DEF BeforeAt
  <2>2. a[l] = b[l] /\ l <= Len(a) /\ l <= Len(b)
    BY <1>1, <1>2, <2>1 DEF BeforeAt
  <2>3. BeforeAt(a, c, l)
    BY <1>1, <1>2, <1>3, <1>5, <2>1, <2>2 DEF BeforeAt
  <2> QED  BY <2>3, LessIs
<1>6. CASE k = l
  <2>1. BeforeAt(a, c, k)
    BY <1>1, <1>2, <1>3, <1>6 DEF BeforeAt
  <2> QED  BY <2>1, LessIs
<1> QED  BY <1>4, <1>5, <1>6

\* What is not before an OID and not behind another.
LEMMA LessOrder ==
    ASSUME NEW a \in Seq(Nat), NEW b \in Seq(Nat), NEW c \in Seq(Nat)
    PROVE  /\ Less(a, b) /\ ~Less(c, b) => Less(a, c)
           /\ ~Less(b, a) /\ Less(b, c) => Less(a, c)
           /\ ~Less(b, a) /\ ~Less(c, b) => ~Less(c, a)
           /\ ~Less(b, a) /\ ~Less(a, b) => a = b
BY LessTotal, LessTransitive

\* A prefix begins the subtree of what it is a prefix of, and End ends it.
LEMMA PrefixIs ==
    ASSUME NEW a \in Seq(Nat), NEW b \in Seq(Nat)
    PROVE  IsPrefix(a, b) <=> Len(a) <= Len(b) /\ \A p \in 1 .. Len(a) : a[p] = b[p]
<1>1. Len(a) \in Nat /\ Len(b) \in Nat
  OBVIOUS
<1>2. CASE Len(a) <= Len(b)
  <2>1. /\ SubSeq(a, 1, Len(a)) = a
        /\ SubSeq(b, 1, Len(a)) \in Seq(Nat) /\ Len(SubSeq(b, 1, Len(a))) = Len(a)
        /\ \A p \in 1 .. Len(a) : SubSeq(b, 1, Len(a))[p] = b[p]
    BY <1>1, <1>2
  <2> QED  BY <1>1, <1>2, <2>1 DEF IsPrefix
<1> QED  BY <1>1, <1>2 DEF IsPrefix

LEMMA EndIs ==
    ASSUME NEW a \in Seq(Nat), Len(a) > 0
    PROVE  /\ End(a) \in Seq(Nat) /\ Len(End(a)) = Len(a)
           /\ \A p \in 1 .. Len(a) - 1 : End(a)[p] = a[p]
           /\ End(a)[Len(a)] = a[Len(a)] + 1
           /\ Less(a, End(a))
           /\ \A x \in Seq(Nat) : IsPrefix(a, x) <=> ~Less(x, a) /\ Less(x, End(a))
<1> DEFINE n == Len(a)
           e == End(a)
<1>1. n \in Nat /\ n > 0 /\ \A p \in 1 .. n : a[p] \in Nat
  OBVIOUS
<1>2. e \in Seq(Nat) /\ Len(e) = n /\ (\A p \in 1 .. n - 1 : e[p] = a[p]) /\ e[n] = a[n] + 1
  BY <1>1 DEF End
<1> HIDE DEF e
<1>3. BeforeAt(a, e, n)
  BY <1>1, <1>2 DEF BeforeAt
<1>4. ASSUME NEW x \in Seq(Nat)
      PROVE  IsPrefix(a, x) <=> ~Less(x, a) /\ Less(x, e)
  <2>1. Len(x) \in Nat /\ \A p \in 1 .. Len(x) : x[p] \in Nat
    OBVIOUS
  <2>2. ASSUME IsPrefix(a, x)  PROVE ~Less(x, a) /\ Less(x, e)
    <3>1. n <= Len(x) /\ \A p \in 1 .. n : x[p] = a[p]
      BY <2>2, PrefixIs
    <3>2. ASSUME NEW k \in Nat, BeforeAt(x, a, k)  PROVE FALSE
      BY <3>1, <3>2, <2>1, <1>1 DEF BeforeAt
    <3>3. BeforeAt(x, e, n)
      BY <3>1, <2>1, <1>1, <1>2 DEF BeforeAt
    <3> QED  BY <3>2, <3>3, <1>1, <1>2, LessIs
  <2>3. ASSUME ~Less(x, a), Less(x, e)  PROVE IsPrefix(a, x)
    <3>1. PICK k \in Nat : BeforeAt(x, e, k)
      BY <1>2, <2>3, LessIs
    <3>2. ~BeforeAt(x, a, k)
      BY <2>3, LessIs
    <3>3. k \in 1 .. n /\ k <= Len(x) + 1 /\ (\A p \in 1 .. k - 1 : x[p] = e[p])
          /\ (k > Len(x) \/ x[k] < e[k])
      BY <3>1, <1>2 DEF BeforeAt
    <3>4. \A p \in 1 .. k - 1 : x[p] = a[p]
      BY <3>3, <1>1, <1>2
    <3>5. k <= Len(x) /\ ~ (x[k] < a[k])
      BY <3>2, <3>3, <3>4, <1>1, <2>1 DEF BeforeAt
    <3>6. k = n
      <4> SUFFICES ASSUME k # n  PROVE FALSE
        OBVIOUS
      <4>1. k \in 1 .. n - 1
        BY <3>3, <1>1
      <4> QED  BY <4>1, <3>3, <3>5, <1>1, <1>2, <2>1
    <3>7. x[n] = a[n]
      BY <3>3, <3>5, <3>6, <1>1, <1>2, <2>1
    <3>8. n <= Len(x) /\ \A p \in 1 .. n : a[p] = x[p]
      BY <3>4, <3>5, <3>6, <3>7, <1>1, <2>1
    <3> QED  BY <3>8, PrefixIs
  <2> QED  BY <2>2, <2>3
<1> QED  BY <1>2, <1>3, <1>4, <1>1, LessIs DEF e

\* OIDs below <<1>> lie behind it and before <<2>>, and so do their ends.
LEMMA IsoIs ==
    ASSUME NEW x, BelowIso(x)
    PROVE  /\ x \in Seq(Nat) /\ Len(x) > 1
           /\ Less(<<1>>, x) /\ Less(x, <<2>>) /\ BelowIso(End(x))
           /\ Spans(Root, x) /\ End(<<1>>) = <<2>>
<1>1. x \in Seq(Nat) /\ Len(x) > 1 /\ x[1] = 1 /\ Len(x) \in Nat
  BY DEF BelowIso
<1>2. <<1>> \in Seq(Nat) /\ <<2>> \in Seq(Nat) /\ Len(<<1>>) = 1 /\ Len(<<2>>) = 1
      /\ <<1>>[1] = 1 /\ <<2>>[1] = 2
  OBVIOUS
<1>3. BeforeAt(<<1>>, x, 2)
  BY <1>1, <1>2 DEF BeforeAt
<1>4. BeforeAt(x, <<2>>, 1)
  BY <1>1, <1>2 DEF BeforeAt
<1>5. Less(<<1>>, x) /\ Less(x, <<2>>)
  BY <1>1, <1>2, <1>3, <1>4, LessIs
<1>6. BelowIso(End(x))
  <2>1. End(x) \in Seq(Nat) /\ Len(End(x)) = Len(x) /\ \A p \in 1 .. Len(x) - 1 : End(x)[p] = x[p]
    BY <1>1, EndIs
  <2> QED  BY <1>1, <2>1 DEF BelowIso
<1>7. End(<<1>>) = <<2>>
  BY DEF End
<1>8. ~Less(x, <<1>>)
  BY <1>1, <1>2, <1>5, LessTotal
<1> QED  BY <1>1, <1>5, <1>6, <1>7, <1>8 DEF Spans, Root, Reg

\* The root's name and its end.
LEMMA RootIs ==
    /\ <<1>> \in Seq(Nat) /\ Len(<<1>>) = 1 /\ End(<<1>>) = <<2>> /\ <<2>> \in Seq(Nat)
    /\ Less(<<1>>, <<2>>) /\ ~Less(<<1>>, <<1>>)
<1>1. <<1>> \in Seq(Nat) /\ Len(<<1>>) = 1
  OBVIOUS
<1>2. <<2>> \in Seq(Nat)
  OBVIOUS
<1>3. End(<<1>>) = <<2>>
  BY DEF End
<1> DEFINE o == <<1>>
<1>4. o \in Seq(Nat) /\ Len(o) > 0
  BY <1>1
<1> HIDE DEF o
<1>5. Less(o, End(o)) /\ ~Less(o, o)
  BY <1>4, EndIs, LessTotal
<1> QED  BY <1>1, <1>2, <1>3, <1>5 DEF o

\* The elements of a range, and all the names there may be.
LEMMA ElementIs ==
    ASSUME NEW r \in Ranges, NEW n \in Nat
    PROVE  /\ BelowIso(Element(r, n)) /\ Len(Element(r, n)) = Len(r.name)
           /\ Element(r, n)[r.subid] = n
           /\ \A p \in 1 .. Len(r.name) : p # r.subid => Element(r, n)[p] = r.name[p]
           /\ r.subid \in 1 .. Len(r.name) /\ BelowIso(r.name)
           /\ Lowest(r) \in Nat /\ r.ubound \in Nat /\ Lowest(r) <= r.ubound
           /\ Element(r, Lowest(r)) = r.name
<1> DEFINE s == r.subid
           x == r.name
<1>1. /\ x \in Seq(Nat) /\ Len(x) > 1 /\ x[1] = 1 /\ Len(x) \in Nat /\ s \in 2 .. Len(x)
      /\ r.ubound \in Nat /\ x[s] <= r.ubound
  BY RegistryAssumption DEF BelowIso
<1>2. Element(r, n) = [x EXCEPT ![s] = n] /\ Lowest(r) = x[s]
      /\ Element(r, Lowest(r)) = [x EXCEPT ![s] = x[s]]
  BY DEF Element, Lowest
<1> HIDE DEF s, x
<1>3. [x EXCEPT ![s] = x[s]] = x
  BY <1>1
<1>4. [x EXCEPT ![s] = n] \in Seq(Nat) /\ Len([x EXCEPT ![s] = n]) = Len(x)
      /\ [x EXCEPT ![s] = n][1] = 1
      /\ [x EXCEPT ![s] = n][s] = n
      /\ \A p \in 1 .. Len(x) : p # s => [x EXCEPT ![s] = n][p] = x[p]
  BY <1>1
<1> QED  BY <1>1, <1>2, <1>3, <1>4 DEF BelowIso, s, x

LEMMA PossibleIs ==
    ASSUME NEW x \in Possible
    PROVE  BelowIso(x) /\ x \in Seq(Nat) /\ Len(x) > 1 /\ End(x) \in Seq(Nat) /\ Len(End(x)) = Len(x)
<1>1. BelowIso(x)
  <2>1. CASE x \in Registrable
    BY <2>1, RegistryAssumption
  <2>2. CASE x \notin Registrable
    <3>1. PICK r \in Ranges : x \in {Element(r, n) : n \in Lowest(r) .. r.ubound}
      BY <2>2 DEF Possible
    <3>2. PICK n \in Lowest(r) .. r.ubound : x = Element(r, n)
      BY <3>1
    <3>3. Lowest(r) \in Nat
      BY ElementIs, 0 \in Nat
    <3>4. n \in Nat
      BY <3>2, <3>3
    <3> QED  BY <3>2, <3>4, ElementIs
  <2> QED  BY <2>1, <2>2
<1>2. x \in Seq(Nat) /\ Len(x) > 1
  BY <1>1 DEF BelowIso
<1>3. Len(x) > 0
  BY <1>2
<1> QED  BY <1>1, <1>2, <1>3, EndIs

LEMMA BoundIs ==
    ASSUME NEW b \in Bounds
    PROVE  b \in Seq(Nat)
<1>1. CASE b = <<1>> \/ b = <<2>>
  BY <1>1, RootIs
<1>2. CASE b \in Possible
  BY <1>2, PossibleIs
<1>3. CASE \E n \in Possible : b = End(n)
  BY <1>3, PossibleIs
<1> QED  BY <1>1, <1>2, <1>3 DEF Bounds

\* A registration.
LEMMA RegIs ==
    ASSUME NEW r \in Regs
    PROVE  /\ r.name \in Seq(Nat) /\ Len(r.name) > 0 /\ Len(r.name) \in Nat /\ r.priority \in Nat
           /\ End(r.name) \in Seq(Nat) /\ r.name \in Bounds /\ End(r.name) \in Bounds
           /\ Less(r.name, End(r.name))
           /\ ~Less(r.name, <<1>>) /\ Less(r.name, <<2>>) /\ Less(<<1>>, End(r.name))
<1>1. r.name \in Possible \cup {<<1>>} /\ r.priority \in Nat
  BY DEF Regs
<1>2. /\ <<1>> \in Seq(Nat) /\ Len(<<1>>) = 1 /\ End(<<1>>) = <<2>> /\ <<2>> \in Seq(Nat)
      /\ Less(<<1>>, <<2>>) /\ ~Less(<<1>>, <<1>>)
  BY RootIs
<1>4. CASE r.name = <<1>>
  <2> DEFINE n == r.name
             o == <<1>>
  <2>1. n = o /\ o \in Bounds /\ End(o) \in Bounds
    BY <1>2, <1>4 DEF Bounds
  <2> HIDE DEF n
  <2>2. /\ n \in Seq(Nat) /\ Len(n) = 1 /\ End(n) \in Seq(Nat)
        /\ Less(n, End(n)) /\ ~Less(n, o) /\ Less(n, <<2>>) /\ Less(o, End(n))
    BY <1>2, <2>1
  <2> QED  BY <1>1, <2>1, <2>2 DEF n, o
<1>5. CASE r.name \in Possible
  <2> DEFINE n == r.name
  <2>1. n \in Possible
    BY <1>5
  <2> HIDE DEF n
  <2>2. BelowIso(n) /\ n \in Seq(Nat) /\ Len(n) > 1 /\ Len(n) \in Nat /\ End(n) \in Seq(Nat)
    BY <2>1, PossibleIs
  <2>3. n \in Bounds /\ End(n) \in Bounds
    BY <2>1 DEF Bounds
  <2>4. Less(n, End(n))
    BY <2>2, EndIs
  <2>5. Less(<<1>>, n) /\ Less(n, <<2>>)
    BY <2>2, IsoIs
  <2>6. ~Less(n, <<1>>) /\ Less(<<1>>, End(n))
    BY <1>2, <2>2, <2>4, <2>5, LessTotal, LessTransitive
  <2> QED  BY <1>1, <2>2, <2>3, <2>4, <2>5, <2>6 DEF n
<1> QED  BY <1>1, <1>4, <1>5

\* An element put into a sequence.
LEMMA InsertedIs ==
    ASSUME NEW S, NEW s \in Seq(S), NEW x \in S, NEW k \in 0 .. Len(s)
    PROVE  /\ InsertAt(s, k + 1, x) \in Seq(S) /\ Len(InsertAt(s, k + 1, x)) = Len(s) + 1
           /\ \A p \in 1 .. k : InsertAt(s, k + 1, x)[p] = s[p]
           /\ InsertAt(s, k + 1, x)[k + 1] = x
           /\ \A p \in k + 2 .. Len(s) + 1 : InsertAt(s, k + 1, x)[p] = s[p - 1]
<1> DEFINE a == SubSeq(s, 1, k)
           b == SubSeq(s, k + 1, Len(s))
           ax == a \o <<x>>
<1>1. Len(s) \in Nat /\ k \in Nat /\ k <= Len(s)
  OBVIOUS
<1>2. a \in Seq(S) /\ Len(a) = k /\ \A p \in 1 .. k : a[p] = s[p]
  BY <1>1
<1>3. b \in Seq(S) /\ Len(b) = Len(s) - k /\ \A p \in 1 .. Len(s) - k : b[p] = s[k + p]
  <2>1. k + 1 \in 1 .. Len(s) + 1 /\ Len(s) \in k .. Len(s)
    BY <1>1
  <2> QED  BY <1>1, <2>1, SubSeqProperties
<1> DEFINE t == InsertAt(s, k + 1, x)
<1>4. t = ax \o b
  <2>1. t = SubSeq(s, 1, (k + 1) - 1) \o <<x>> \o SubSeq(s, k + 1, Len(s))
    BY DEF InsertAt
  <2>2. (k + 1) - 1 = k
    BY <1>1
  <2> QED  BY <2>1, <2>2
<1> HIDE DEF a, b, t
<1>5. ax \in Seq(S) /\ Len(ax) = k + 1 /\ (\A p \in 1 .. k : ax[p] = s[p]) /\ ax[k + 1] = x
  BY <1>1, <1>2
<1> HIDE DEF ax
<1>6. /\ ax \o b \in Seq(S) /\ Len(ax \o b) = Len(s) + 1
      /\ \A p \in 1 .. k + 1 : (ax \o b)[p] = ax[p]
      /\ \A p \in k + 2 .. Len(s) + 1 : (ax \o b)[p] = b[p - (k + 1)]
  BY <1>1, <1>3, <1>5
<1>7. \A p \in k + 2 .. Len(s) + 1 : b[p - (k + 1)] = s[p - 1]
  <2> TAKE p \in k + 2 .. Len(s) + 1
  <2>1. p - (k + 1) \in 1 .. Len(s) - k /\ k + (p - (k + 1)) = p - 1
    BY <1>1
  <2> QED  BY <1>3, <2>1
<1>8. t \in Seq(S) /\ Len(t) = Len(s) + 1
  BY <1>4, <1>6
<1>9. (\A p \in 1 .. k : t[p] = s[p]) /\ t[k + 1] = x
  <2>1. \A p \in 1 .. k + 1 : t[p] = ax[p]
    BY <1>4, <1>6
  <2> QED  BY <1>1, <1>5, <2>1
<1>10. \A p \in k + 2 .. Len(s) + 1 : t[p] = s[p - 1]
  BY <1>4, <1>6, <1>7
<1> QED  BY <1>8, <1>9, <1>10 DEF t

\* A list of regions side by side, in terms of OIDs.
LEMMA RegionsAre ==
    ASSUME NEW list, SideBySide(list), NEW p \in 1 .. Len(list)
    PROVE  /\ list[p] \in Region /\ list[p].from \in Seq(Nat) /\ list[p].to \in Seq(Nat)
           /\ list[p].from \in Bounds /\ list[p].to \in Bounds /\ list[p].stack \in Seq(Regs)
           /\ Less(list[p].from, list[p].to)
           /\ p < Len(list) => p + 1 \in 1 .. Len(list) /\ list[p + 1].from = list[p].to
           /\ Len(list) \in Nat /\ p \in Nat
<1>1. list \in Seq(Region) /\ Len(list) \in Nat /\ p \in Nat /\ Less(list[p].from, list[p].to)
      /\ \A q \in 1 .. Len(list) - 1 : list[q + 1].from = list[q].to
  BY DEF SideBySide
<1>2. list[p] \in Region
  BY <1>1
<1>3. list[p].from \in Bounds /\ list[p].to \in Bounds /\ list[p].stack \in Seq(Regs)
  BY <1>2 DEF Region
<1>4. p < Len(list) => p + 1 \in 1 .. Len(list) /\ list[p + 1].from = list[p].to
  BY <1>1
<1> QED  BY <1>1, <1>2, <1>3, <1>4, BoundIs

\* A region ends before the ones behind it begin.
LEMMA Ascends ==
    ASSUME NEW list, SideBySide(list), NEW p \in 1 .. Len(list), NEW q \in 1 .. Len(list), p < q
    PROVE  /\ ~Less(list[q].from, list[p].to)
           /\ Less(list[p].from, list[q].from) /\ Less(list[p].to, list[q].to)
<1>0. Len(list) \in Nat /\ p \in Nat /\ q \in Nat /\ q <= Len(list)
  BY RegionsAre
<1> DEFINE T == {k \in Nat : p + 1 + k <= Len(list) => ~Less(list[p + 1 + k].from, list[p].to)}
<1>1. 0 \in T
  <2> SUFFICES ASSUME p + 1 <= Len(list)  PROVE ~Less(list[p + 1].from, list[p].to)
    BY <1>0
  <2>1. list[p + 1].from = list[p].to /\ list[p].to \in Seq(Nat)
    BY <1>0, RegionsAre
  <2> QED  BY <2>1, LessTotal
<1>2. ASSUME NEW k \in Nat, k \in T  PROVE k + 1 \in T
  <2> SUFFICES ASSUME p + 1 + (k + 1) <= Len(list)
               PROVE  ~Less(list[p + 1 + (k + 1)].from, list[p].to)
    OBVIOUS
  <2> DEFINE m == p + 1 + k
  <2>1. m \in 1 .. Len(list) /\ m < Len(list) /\ m + 1 = p + 1 + (k + 1)
    BY <1>0
  <2>2. ~Less(list[m].from, list[p].to)
    BY <1>2, <2>1, <1>0
  <2> HIDE DEF m
  <2>3. /\ list[m + 1].from = list[m].to /\ Less(list[m].from, list[m].to)
        /\ list[m].from \in Seq(Nat) /\ list[m].to \in Seq(Nat)
    BY <2>1, RegionsAre
  <2>4. list[p].to \in Seq(Nat)
    BY RegionsAre
  <2>5. ~Less(list[m].to, list[p].to)
    BY <2>2, <2>3, <2>4, LessOrder, LessTotal
  <2> QED  BY <2>1, <2>3, <2>5
<1>3. q - (p + 1) \in T
  <2> HIDE DEF T
  <2>1. Nat \subseteq T
    BY <1>1, <1>2, InductionOn
  <2> QED  BY <1>0, <2>1
<1>4. ~Less(list[q].from, list[p].to)
  <2>1. p + 1 + (q - (p + 1)) = q
    BY <1>0
  <2> QED  BY <1>0, <1>3, <2>1
<1>5. /\ list[p].from \in Seq(Nat) /\ list[p].to \in Seq(Nat) /\ Less(list[p].from, list[p].to)
      /\ list[q].from \in Seq(Nat) /\ list[q].to \in Seq(Nat) /\ Less(list[q].from, list[q].to)
  BY RegionsAre
<1>6. Less(list[p].from, list[q].from)
  BY <1>4, <1>5, LessOrder
<1>7. Less(list[p].to, list[q].to)
  BY <1>4, <1>5, LessOrder
<1> QED  BY <1>4, <1>6, <1>7

\* Every OID below the root is in one region, and in one only.
LEMMA RegionOf ==
    ASSUME NEW list, SideBySide(list), NEW x \in Seq(Nat)
    PROVE  ~Less(x, <<1>>) /\ Less(x, <<2>>) =>
               /\ \E p \in 1 .. Len(list) : Holds(list[p], x)
               /\ \A p, q \in 1 .. Len(list) : Holds(list[p], x) /\ Holds(list[q], x) => p = q
<1>0. Len(list) \in Nat /\ Len(list) > 0 /\ list[1].from = <<1>> /\ list[Len(list)].to = <<2>>
  BY DEF SideBySide
<1> SUFFICES ASSUME ~Less(x, list[1].from), Less(x, list[Len(list)].to)
             PROVE  /\ \E p \in 1 .. Len(list) : Holds(list[p], x)
                    /\ \A p, q \in 1 .. Len(list) : Holds(list[p], x) /\ Holds(list[q], x) => p = q
  BY <1>0
<1> DEFINE T == {p \in 1 .. Len(list) : ~Less(x, list[p].from)}
<1>1. T # {} /\ T \subseteq 0 .. Len(list)
  <2>1. ~Less(x, list[1].from)
    BY <1>0
  <2>2. 1 \in T
    BY <1>0, <2>1
  <2> QED  BY <1>0, <2>2
<1>2. PICK p \in T : \A q \in T : q <= p
  BY <1>0, <1>1, GreatestOf
<1>3. p \in 1 .. Len(list) /\ ~Less(x, list[p].from)
  BY <1>2
<1>4. Less(x, list[p].to)
  <2>1. CASE p = Len(list)
    BY <1>0, <2>1
  <2>2. CASE p < Len(list)
    <3>1. p + 1 \in 1 .. Len(list) /\ list[p + 1].from = list[p].to
      BY <1>3, <2>2, RegionsAre
    <3>2. ~ (p + 1 <= p)
      BY <1>0, <1>3
    <3>3. p + 1 \notin T
      BY <1>2, <3>2
    <3> QED  BY <3>1, <3>3
  <2> QED  BY <1>0, <1>3, <2>1, <2>2
<1>5. Holds(list[p], x)
  BY <1>3, <1>4 DEF Holds
<1>6. ASSUME NEW a \in 1 .. Len(list), NEW b \in 1 .. Len(list), a < b,
             Holds(list[a], x), Holds(list[b], x)
      PROVE  FALSE
  <2>1. Less(x, list[a].to) /\ ~Less(x, list[b].from)
    BY <1>6 DEF Holds
  <2>2. ~Less(list[b].from, list[a].to)
    BY <1>6, Ascends
  <2>3. list[a].to \in Seq(Nat) /\ list[b].from \in Seq(Nat)
    BY RegionsAre
  <2> QED  BY <2>1, <2>2, <2>3, LessOrder
<1>7. ASSUME NEW a \in 1 .. Len(list), NEW b \in 1 .. Len(list),
             Holds(list[a], x), Holds(list[b], x)
      PROVE  a = b
  <2>1. ~ (a < b) /\ ~ (b < a)
    BY <1>6, <1>7
  <2> QED  BY <1>0, <2>1
<1> QED  BY <1>3, <1>5, <1>7

\* A region that is a piece of another one has its stack.
Part(s, l) ==
    s.stack = l.stack /\ ~Less(s.from, l.from) /\ ~Less(l.to, s.to)

LEMMA PartCuts ==
    ASSUME NEW s \in Region, NEW l \in Region, Part(s, l), Less(s.from, s.to),
           NEW x \in Seq(Nat), ~Cuts(x, l)
    PROVE  ~Cuts(x, s) /\ (Less(s.from, x) <=> Less(l.from, x))
<1>1. /\ s.from \in Seq(Nat) /\ s.to \in Seq(Nat) /\ l.from \in Seq(Nat) /\ l.to \in Seq(Nat)
      /\ s.stack = l.stack /\ ~Less(s.from, l.from) /\ ~Less(l.to, s.to)
  BY BoundIs DEF Region, Part
<1>2. ~Less(l.from, x) \/ ~Less(x, l.to)
  BY DEF Cuts
<1>3. CASE ~Less(l.from, x)
  <2>1. ~Less(s.from, x)
    BY <1>1, <1>3, LessOrder
  <2> QED  BY <1>3, <2>1 DEF Cuts
<1>4. CASE ~Less(x, l.to)
  <2>1. ~Less(x, s.to)
    BY <1>1, <1>4, LessOrder
  <2>2. Less(s.from, x)
    BY <1>1, <2>1, LessOrder
  <2>3. Less(l.from, x)
    BY <1>1, <2>2, LessOrder
  <2> QED  BY <2>1, <2>2, <2>3 DEF Cuts
<1> QED  BY <1>2, <1>3, <1>4

LEMMA PartKeeps ==
    ASSUME NEW s \in Region, NEW l \in Region, Part(s, l), Less(s.from, s.to), NEW regs, regs \subseteq Regs,
           StackOK(l, regs)
    PROVE  StackOK(s, regs)
<1>1. /\ s.from \in Seq(Nat) /\ s.to \in Seq(Nat) /\ l.from \in Seq(Nat) /\ l.to \in Seq(Nat)
      /\ s.stack = l.stack /\ ~Less(s.from, l.from) /\ ~Less(l.to, s.to)
  BY BoundIs DEF Region, Part
<1>3. ASSUME NEW r \in regs
      PROVE  /\ ~Cuts(r.name, s) /\ ~Cuts(End(r.name), s)
             /\ Spans(r, s.from) <=> Spans(r, l.from)
  <2>1. r.name \in Seq(Nat) /\ End(r.name) \in Seq(Nat)
    BY RegIs
  <2>2. ~Cuts(r.name, l) /\ ~Cuts(End(r.name), l)
    BY DEF StackOK
  <2>3. /\ ~Cuts(r.name, s) /\ ~Cuts(End(r.name), s)
        /\ Less(s.from, r.name) <=> Less(l.from, r.name)
        /\ Less(s.from, End(r.name)) <=> Less(l.from, End(r.name))
    BY <2>1, <2>2, PartCuts
  <2> QED  BY <2>3 DEF Spans
<1>4. \A p \in 1 .. Len(s.stack) : s.stack[p] \in regs /\ Spans(s.stack[p], s.from)
  <2> TAKE p \in 1 .. Len(s.stack)
  <2>1. s.stack[p] \in regs /\ Spans(s.stack[p], l.from)
    BY <1>1 DEF StackOK
  <2> QED  BY <2>1, <1>3
<1>5. \A r \in regs : Spans(r, s.from) => \E p \in 1 .. Len(s.stack) : s.stack[p] = r
  BY <1>1, <1>3 DEF StackOK
<1>6. Ordered(s.stack)
  BY <1>1 DEF StackOK
<1> QED  BY <1>3, <1>4, <1>5, <1>6 DEF StackOK

\* A piece of a list: its regions side by side, each a part of one of the list.
Pieces(new, list) ==
    /\ SideBySide(new)
    /\ \A p \in 1 .. Len(new) : \E q \in 1 .. Len(list) : Part(new[p], list[q])

LEMMA SplitIs ==
    ASSUME NEW list, SideBySide(list), NEW x \in Bounds
    PROVE  /\ Pieces(Split(list, x), list)
           /\ \A p \in 1 .. Len(Split(list, x)) : ~Cuts(x, Split(list, x)[p])
<1> DEFINE n == Len(list)
           around == {i \in 1 .. n : Less(list[i].from, x) /\ Less(x, list[i].to)}
<1>0. /\ list \in Seq(Region) /\ n \in Nat /\ n > 0 /\ DOMAIN list = 1 .. n /\ x \in Seq(Nat)
      /\ list[1].from = <<1>> /\ list[n].to = <<2>>
  BY BoundIs DEF SideBySide
<1>1. CASE around = {}
  <2>1. Split(list, x) = list
    BY <1>0, <1>1 DEF Split
  <2>2. \A p \in 1 .. n : ~Cuts(x, list[p])
    BY <1>1 DEF Cuts
  <2>3. \A p \in 1 .. n : Part(list[p], list[p])
    BY RegionsAre, LessTotal DEF Part
  <2> QED  BY <2>1, <2>2, <2>3 DEF Pieces
<1>2. CASE around # {}
  <2> DEFINE i == CHOOSE k \in around : TRUE
             low == [list[i] EXCEPT !.to = x]
             high == [list[i] EXCEPT !.from = x]
             cut == [list EXCEPT ![i] = low]
             new == InsertAt(cut, i + 1, high)
  <2>1. i \in 1 .. n /\ Less(list[i].from, x) /\ Less(x, list[i].to)
    BY <1>2
  <2>2. Split(list, x) = new
    BY <1>0, <1>2 DEF Split
  <2> HIDE DEF i
  <2>3. list[i] \in Region /\ list[i].from \in Seq(Nat) /\ list[i].to \in Seq(Nat)
    BY <2>1, RegionsAre
  <2>4. /\ low \in Region /\ high \in Region
        /\ low.from = list[i].from /\ low.to = x /\ low.stack = list[i].stack
        /\ high.from = x /\ high.to = list[i].to /\ high.stack = list[i].stack
    BY <2>3 DEF Region
  <2> HIDE DEF low, high
  <2>5. cut \in Seq(Region) /\ Len(cut) = n /\ cut[i] = low
        /\ \A p \in 1 .. n : p # i => cut[p] = list[p]
    BY <1>0, <2>1, <2>4
  <2> HIDE DEF cut
  <2>6. /\ new \in Seq(Region) /\ Len(new) = n + 1
        /\ \A p \in 1 .. i : new[p] = cut[p]
        /\ new[i + 1] = high
        /\ \A p \in i + 2 .. n + 1 : new[p] = cut[p - 1]
    <3> DEFINE m == Len(cut)
    <3>1. m = n /\ cut \in Seq(Region) /\ high \in Region /\ i \in 0 .. m
      BY <1>0, <2>1, <2>4, <2>5
    <3>2. /\ new \in Seq(Region) /\ Len(new) = m + 1
          /\ \A p \in 1 .. i : new[p] = cut[p]
          /\ new[i + 1] = high
          /\ \A p \in i + 2 .. m + 1 : new[p] = cut[p - 1]
      <4>1. cut \in Seq(Region) /\ high \in Region /\ i \in 0 .. Len(cut)
        BY <3>1
      <4> HIDE DEF m
      <4>2. m = Len(cut)
        BY DEF m
      <4> HIDE DEF new
      <4>3. new = InsertAt(cut, i + 1, high)
        BY DEF new
      <4>4. /\ new \in Seq(Region) /\ Len(new) = Len(cut) + 1
            /\ \A p \in 1 .. i : new[p] = cut[p]
            /\ new[i + 1] = high
            /\ \A p \in i + 2 .. Len(cut) + 1 : new[p] = cut[p - 1]
        <5>1. /\ InsertAt(cut, i + 1, high) \in Seq(Region)
              /\ Len(InsertAt(cut, i + 1, high)) = Len(cut) + 1
          BY <4>1, InsertedIs
        <5>2. /\ \A p \in 1 .. i : InsertAt(cut, i + 1, high)[p] = cut[p]
              /\ InsertAt(cut, i + 1, high)[i + 1] = high
          BY <4>1, InsertedIs
        <5>3. \A p \in i + 2 .. Len(cut) + 1 : InsertAt(cut, i + 1, high)[p] = cut[p - 1]
          BY <4>1, InsertedIs
        <5> QED  BY <4>3, <5>1, <5>2, <5>3
      <4> QED  BY <4>2, <4>4
    <3> HIDE DEF m, new
    <3> QED  BY <3>1, <3>2
  <2> HIDE DEF new, n
  <2>7. /\ \A p \in 1 .. i - 1 : new[p] = list[p]
        /\ new[i] = low /\ new[i + 1] = high
        /\ \A p \in i + 2 .. n + 1 : p - 1 \in 1 .. n /\ p - 1 # i /\ new[p] = list[p - 1]
    <3>1. \A p \in 1 .. i - 1 : p \in 1 .. i /\ p \in 1 .. n /\ p # i
      BY <1>0, <2>1
    <3>2. i \in 1 .. i
      BY <1>0, <2>1
    <3>3. \A p \in i + 2 .. n + 1 : p - 1 \in 1 .. n /\ p - 1 # i
      BY <1>0, <2>1
    <3>4. \A p \in i + 2 .. n + 1 : new[p] = list[p - 1]
      BY <3>3, <2>5, <2>6
    <3> QED  BY <3>1, <3>2, <3>3, <3>4, <2>5, <2>6
  <2>8. \A p \in 1 .. n : /\ Less(list[p].from, list[p].to)
                          /\ p < n => list[p + 1].from = list[p].to
                          /\ Part(list[p], list[p])
    BY RegionsAre, LessTotal DEF Part, n
  <2>9. Part(low, list[i]) /\ Part(high, list[i])
    BY <2>1, <2>3, <2>4, <1>0, LessTotal DEF Part
  <2>10. \A p \in 1 .. n + 1 : p \in 1 .. i - 1 \/ p = i \/ p = i + 1 \/ p \in i + 2 .. n + 1
    BY <1>0, <2>1
  <2>11. ASSUME NEW p \in 1 .. n + 1
         PROVE  /\ Less(new[p].from, new[p].to)
                /\ p <= n => new[p + 1].from = new[p].to
                /\ \E q \in 1 .. n : Part(new[p], list[q])
                /\ ~Cuts(x, new[p])
    <3>1. CASE p \in 1 .. i - 1
      <4>1. p \in 1 .. n /\ p < n /\ p < i /\ p + 1 \in 1 .. i
        BY <1>0, <2>1, <3>1
      <4>2. new[p + 1].from = list[p + 1].from
        <5>1. CASE p + 1 = i
          BY <5>1, <2>4, <2>7
        <5>2. CASE p + 1 # i
          BY <5>2, <4>1, <2>1, <2>7
        <5> QED  BY <5>1, <5>2
      <4>3. ~Less(list[i].from, list[p].to)
        BY <4>1, <2>1, Ascends DEF n
      <4>4. list[p].to \in Seq(Nat)
        BY <4>1, RegionsAre DEF n
      <4>5. ~Less(x, list[p].to)
        BY <4>3, <4>4, <2>1, <2>3, <1>0, LessOrder, LessTotal
      <4>6. new[p] = list[p]
        BY <2>7, <3>1
      <4> QED  BY <4>1, <4>2, <4>5, <4>6, <2>8 DEF Cuts
    <3>2. CASE p = i
      <4>1. ~Less(x, x)
        BY <1>0, LessTotal
      <4> QED  BY <3>2, <4>1, <2>1, <2>4, <2>7, <2>9 DEF Cuts
    <3>3. CASE p = i + 1
      <4>1. ~Less(x, x)
        BY <1>0, LessTotal
      <4>2. p <= n => new[p + 1].from = list[i].to
        <5> SUFFICES ASSUME p <= n  PROVE new[p + 1].from = list[i].to
          OBVIOUS
        <5>1. p + 1 \in i + 2 .. n + 1 /\ i < n /\ (p + 1) - 1 = i + 1
          BY <1>0, <2>1, <3>3
        <5>2. new[p + 1] = list[(p + 1) - 1]
          BY <5>1, <2>7
        <5> QED  BY <5>1, <5>2, <2>1, <2>8
      <4> QED  BY <3>3, <4>1, <4>2, <2>1, <2>4, <2>7, <2>9 DEF Cuts
    <3>4. CASE p \in i + 2 .. n + 1
      <4>1. /\ p - 1 \in 1 .. n /\ i < p - 1 /\ new[p] = list[p - 1]
            /\ p <= n => p + 1 \in i + 2 .. n + 1 /\ (p + 1) - 1 = (p - 1) + 1 /\ p - 1 < n
        BY <1>0, <2>1, <2>7, <3>4
      <4>2. p <= n => new[p + 1].from = new[p].to
        <5> SUFFICES ASSUME p <= n  PROVE new[p + 1].from = new[p].to
          OBVIOUS
        <5>1. new[p + 1] = list[(p + 1) - 1]
          BY <4>1, <2>7
        <5> QED  BY <5>1, <4>1, <2>8
      <4>3. ~Less(list[p - 1].from, list[i].to)
        BY <4>1, <2>1, Ascends DEF n
      <4>4. list[p - 1].from \in Seq(Nat)
        BY <4>1, RegionsAre DEF n
      <4>5. ~Less(list[p - 1].from, x)
        BY <4>3, <4>4, <2>1, <2>3, <1>0, LessOrder, LessTotal
      <4> QED  BY <4>1, <4>2, <4>5, <2>8 DEF Cuts
    <3> QED  BY <2>10, <3>1, <3>2, <3>3, <3>4
  <2>12. new[1].from = <<1>>
    <3>1. CASE i = 1
      BY <3>1, <1>0, <2>4, <2>7
    <3>2. CASE i # 1
      BY <3>2, <1>0, <2>1, <2>7
    <3> QED  BY <3>1, <3>2
  <2>13. new[n + 1].to = <<2>>
    <3>1. CASE i = n
      BY <3>1, <1>0, <2>4, <2>7
    <3>2. CASE i # n
      <4>1. n + 1 \in i + 2 .. n + 1 /\ (n + 1) - 1 = n
        BY <3>2, <1>0, <2>1
      <4>2. new[n + 1] = list[(n + 1) - 1]
        BY <4>1, <2>7
      <4> QED  BY <4>1, <4>2, <1>0
    <3> QED  BY <3>1, <3>2
  <2>14. SideBySide(new)
    <3>1. \A p \in 1 .. Len(new) - 1 : new[p + 1].from = new[p].to
      <4> TAKE p \in 1 .. Len(new) - 1
      <4>1. p \in 1 .. n + 1 /\ p <= n
        BY <1>0, <2>6
      <4> QED  BY <4>1, <2>11
    <3> QED  BY <3>1, <1>0, <2>6, <2>11, <2>12, <2>13 DEF SideBySide
  <2> QED  BY <2>2, <2>6, <2>11, <2>14 DEF Pieces, n
<1> QED  BY <1>1, <1>2

\* What holds of the stacks of a list holds of its pieces.
LEMMA PiecesKeep ==
    ASSUME NEW list, SideBySide(list), NEW new, Pieces(new, list), NEW regs, regs \subseteq Regs
    PROVE  /\ Stacked(list, regs) => Stacked(new, regs)
           /\ \A x \in Seq(Nat) : (\A p \in 1 .. Len(list) : ~Cuts(x, list[p])) =>
                                      \A p \in 1 .. Len(new) : ~Cuts(x, new[p])
<1>1. ASSUME NEW p \in 1 .. Len(new)
      PROVE  /\ new[p] \in Region /\ Less(new[p].from, new[p].to)
             /\ \E q \in 1 .. Len(list) : list[q] \in Region /\ Part(new[p], list[q])
  <2>1. SideBySide(new)
    BY DEF Pieces
  <2>2. PICK q \in 1 .. Len(list) : Part(new[p], list[q])
    BY DEF Pieces
  <2> QED  BY <2>1, <2>2, RegionsAre
<1>2. ASSUME Stacked(list, regs), NEW p \in 1 .. Len(new)  PROVE StackOK(new[p], regs)
  <2>1. PICK q \in 1 .. Len(list) : list[q] \in Region /\ Part(new[p], list[q])
    BY <1>1
  <2>2. StackOK(list[q], regs)
    BY <1>2 DEF Stacked
  <2> QED  BY <1>1, <2>1, <2>2, PartKeeps
<1>3. ASSUME NEW x \in Seq(Nat), \A p \in 1 .. Len(list) : ~Cuts(x, list[p]),
             NEW p \in 1 .. Len(new)
      PROVE  ~Cuts(x, new[p])
  <2>1. PICK q \in 1 .. Len(list) : list[q] \in Region /\ Part(new[p], list[q])
    BY <1>1
  <2> QED  BY <1>1, <1>3, <2>1, PartCuts
<1> QED  BY <1>2, <1>3 DEF Stacked

\* The order of a stack.
LEMMA OutranksIs ==
    ASSUME NEW r \in Regs, NEW t \in Regs, NEW u \in Regs
    PROVE  /\ ~Outranks(r, r)
           /\ Outranks(r, t) => ~Outranks(t, r)
           /\ Outranks(r, t) /\ Outranks(t, u) => Outranks(r, u)
           /\ Outranks(r, t) \/ Outranks(t, r)
              \/ (Len(r.name) = Len(t.name) /\ r.priority = t.priority)
<1>1. /\ Len(r.name) \in Nat /\ r.priority \in Nat
      /\ Len(t.name) \in Nat /\ t.priority \in Nat
      /\ Len(u.name) \in Nat /\ u.priority \in Nat
  BY RegIs
<1> QED  BY <1>1 DEF Outranks

\* A registration pushed on a stack.
LEMMA AheadIs ==
    ASSUME NEW stack \in Seq(Regs), NEW reg \in Regs
    PROVE  /\ Ahead(stack, reg) \in 0 .. Len(stack)
           /\ \A j \in 1 .. Ahead(stack, reg) : Outranks(stack[j], reg)
           /\ Ahead(stack, reg) < Len(stack) => ~Outranks(stack[Ahead(stack, reg) + 1], reg)
<1> DEFINE n == Len(stack)
           T == {k \in 0 .. n : k < n => ~Outranks(stack[k + 1], reg)}
           Right(k) == /\ \A j \in 1 .. k : Outranks(stack[j], reg)
                       /\ k < n => ~Outranks(stack[k + 1], reg)
<1>1. n \in Nat /\ n \in T /\ T \subseteq Nat
  OBVIOUS
<1>2. PICK k \in T : \A j \in T : k <= j
  BY <1>1, LeastOf
<1>3. k \in 0 .. n /\ Right(k)
  <2>1. ASSUME NEW j \in 1 .. k  PROVE Outranks(stack[j], reg)
    <3>1. j - 1 \in 0 .. n /\ ~ (k <= j - 1) /\ (j - 1) + 1 = j
      BY <1>1, <1>2
    <3>2. j - 1 \notin T
      BY <1>2, <3>1
    <3> QED  BY <3>1, <3>2
  <2> QED  BY <1>2, <2>1
<1>4. Ahead(stack, reg) = CHOOSE j \in 0 .. n : Right(j)
  BY DEF Ahead
<1> HIDE DEF Right
<1>5. Ahead(stack, reg) \in 0 .. n /\ Right(Ahead(stack, reg))
  BY <1>3, <1>4
<1> QED  BY <1>5 DEF Right

LEMMA PushIs ==
    ASSUME NEW stack \in Seq(Regs), NEW reg \in Regs
    PROVE  /\ Push(stack, reg) \in Seq(Regs)
           /\ \E p \in 1 .. Len(Push(stack, reg)) : Push(stack, reg)[p] = reg
           /\ \A p \in 1 .. Len(Push(stack, reg)) :
                  Push(stack, reg)[p] = reg \/ \E q \in 1 .. Len(stack) : Push(stack, reg)[p] = stack[q]
           /\ \A q \in 1 .. Len(stack) :
                  \E p \in 1 .. Len(Push(stack, reg)) : Push(stack, reg)[p] = stack[q]
           /\ Ordered(stack) /\ ~Duplicate(stack, reg) => Ordered(Push(stack, reg))
<1> DEFINE n == Len(stack)
           k == Ahead(stack, reg)
           new == Push(stack, reg)
<1>0. n \in Nat /\ DOMAIN stack = 1 .. n /\ \A q \in 1 .. n : stack[q] \in Regs
  OBVIOUS
<1>1. k \in 0 .. n /\ (\A j \in 1 .. k : Outranks(stack[j], reg))
      /\ (k < n => ~Outranks(stack[k + 1], reg))
  BY AheadIs
<1> HIDE DEF k
<1>2. new = InsertAt(stack, k + 1, reg)
  <2>1. 1 + k = k + 1
    BY <1>0, <1>1
  <2> QED  BY <2>1 DEF Push, k
<1>3. new \in Seq(Regs) /\ Len(new) = n + 1
  BY <1>1, <1>2, InsertedIs
<1>4. (\A p \in 1 .. k : new[p] = stack[p]) /\ new[k + 1] = reg
  <2>1. k \in 0 .. Len(stack)
    BY <1>1
  <2>2. /\ \A p \in 1 .. k : InsertAt(stack, k + 1, reg)[p] = stack[p]
        /\ InsertAt(stack, k + 1, reg)[k + 1] = reg
    BY <2>1, InsertedIs
  <2> HIDE DEF new
  <2> QED  BY <1>2, <2>2
<1>5. \A p \in k + 2 .. n + 1 : new[p] = stack[p - 1]
  BY <1>1, <1>2, InsertedIs
<1> HIDE DEF new, n
<1>6. \A p \in 1 .. n + 1 : p \in 1 .. k \/ p = k + 1 \/ p \in k + 2 .. n + 1
  BY <1>0, <1>1
<1>7. \A p \in k + 2 .. n + 1 : p - 1 \in 1 .. n /\ p - 1 >= k + 1
  BY <1>0, <1>1
<1>8. \A p \in 1 .. n + 1 : new[p] = reg \/ \E q \in 1 .. n : new[p] = stack[q]
  <2> TAKE p \in 1 .. n + 1
  <2>1. p \in 1 .. k => p \in 1 .. n
    BY <1>0, <1>1
  <2> QED  BY <2>1, <1>4, <1>5, <1>6, <1>7
<1>9. k + 1 \in 1 .. n + 1 /\ \E p \in 1 .. n + 1 : new[p] = reg
  BY <1>0, <1>1, <1>4
<1>10. \A q \in 1 .. n : \E p \in 1 .. n + 1 : new[p] = stack[q]
  <2> TAKE q \in 1 .. n
  <2>1. CASE q <= k
    <3>1. q \in 1 .. k /\ q \in 1 .. n + 1
      BY <1>0, <1>1, <2>1
    <3> QED  BY <3>1, <1>4
  <2>2. CASE q > k
    <3>1. q + 1 \in k + 2 .. n + 1 /\ q + 1 \in 1 .. n + 1 /\ (q + 1) - 1 = q
      BY <1>0, <1>1, <2>2
    <3> QED  BY <3>1, <1>5
  <2> QED  BY <2>1, <2>2, <1>0, <1>1
<1>11. ASSUME Ordered(stack), ~Duplicate(stack, reg), NEW p \in 1 .. n + 1, NEW q \in 1 .. n + 1, p < q
       PROVE  Outranks(new[p], new[q])
  <2>0. \A a, b \in 1 .. n : a < b => Outranks(stack[a], stack[b])
    BY <1>11 DEF Ordered, n
  <2>1. CASE p \in 1 .. k /\ q \in 1 .. k
    BY <2>0, <2>1, <1>0, <1>1, <1>4, <1>11
  <2>2. CASE p \in 1 .. k /\ q = k + 1
    BY <2>2, <1>1, <1>4
  <2>3. CASE p \in 1 .. k /\ q \in k + 2 .. n + 1
    <3>1. p \in 1 .. n /\ q - 1 \in 1 .. n /\ p < q - 1
      BY <2>3, <1>0, <1>1, <1>7
    <3> QED  BY <3>1, <2>0, <2>3, <1>4, <1>5
  <2>4. CASE p = k + 1
    <3>1. q \in k + 2 .. n + 1 /\ q - 1 \in 1 .. n /\ k + 1 \in 1 .. n /\ k < n /\ k + 1 <= q - 1
      BY <2>4, <1>0, <1>1, <1>7, <1>11
    <3>2. ~Outranks(stack[k + 1], reg) /\ stack[k + 1] \in Regs /\ stack[q - 1] \in Regs
      BY <3>1, <1>0, <1>1
    <3>3. ~ (Len(stack[k + 1].name) = Len(reg.name) /\ stack[k + 1].priority = reg.priority)
      BY <3>1, <1>0, <1>11 DEF Duplicate
    <3>4. Outranks(reg, stack[k + 1])
      BY <3>2, <3>3, OutranksIs
    <3>5. Outranks(reg, stack[q - 1])
      <4>1. CASE k + 1 = q - 1
        BY <3>4, <4>1
      <4>2. CASE k + 1 < q - 1
        <5>1. Outranks(stack[k + 1], stack[q - 1])
          BY <4>2, <3>1, <2>0
        <5> QED  BY <5>1, <3>2, <3>4, OutranksIs
      <4> QED  BY <4>1, <4>2, <3>1, <1>0, <1>1
    <3>6. new[q] = stack[q - 1]
      BY <3>1, <1>5
    <3> QED  BY <3>5, <3>6, <2>4, <1>4
  <2>5. CASE p \in k + 2 .. n + 1
    <3>1. q \in k + 2 .. n + 1 /\ p - 1 \in 1 .. n /\ q - 1 \in 1 .. n /\ p - 1 < q - 1
      BY <2>5, <1>0, <1>1, <1>7, <1>11
    <3> QED  BY <3>1, <2>0, <2>5, <1>5
  <2>6. p \in 1 .. k => q \in 1 .. k \/ q = k + 1 \/ q \in k + 2 .. n + 1
    BY <1>6
  <2> QED  BY <1>6, <2>1, <2>2, <2>3, <2>4, <2>5, <2>6
<1>12. Ordered(stack) /\ ~Duplicate(stack, reg) => Ordered(new)
  BY <1>3, <1>11 DEF Ordered
<1> QED  BY <1>3, <1>8, <1>9, <1>10, <1>12 DEF n, new

\* What spans a region that it does not cut spans each of its OIDs, and no other
\* registration does.
LEMMA SpansIs ==
    ASSUME NEW region \in Region, NEW x \in Seq(Nat), Holds(region, x), NEW regs, regs \subseteq Regs,
           StackOK(region, regs), NEW r \in regs
    PROVE  /\ Spans(r, x) <=> Spans(r, region.from)
           /\ Spans(r, x) <=> IsPrefix(r.name, x)
           /\ Spans(r, x) <=> \E p \in 1 .. Len(region.stack) : region.stack[p] = r
<1>1. /\ region.from \in Seq(Nat) /\ region.to \in Seq(Nat)
      /\ ~Less(x, region.from) /\ Less(x, region.to)
  BY BoundIs DEF Region, Holds
<1>2. ASSUME NEW y \in Seq(Nat), ~Cuts(y, region)
      PROVE  Less(x, y) <=> Less(region.from, y)
  <2>1. Less(x, y) => Less(region.from, y)
    BY <1>1, LessOrder
  <2>2. ASSUME Less(region.from, y)  PROVE Less(x, y)
    <3>1. ~Less(y, region.to)
      BY <1>2, <2>2 DEF Cuts
    <3> QED  BY <1>1, <3>1, LessOrder
  <2> QED  BY <2>1, <2>2
<1>3. r \in Regs /\ r.name \in Seq(Nat) /\ End(r.name) \in Seq(Nat) /\ Len(r.name) > 0
  BY RegIs
<1>4. ~Cuts(r.name, region) /\ ~Cuts(End(r.name), region)
  BY DEF StackOK
<1>5. /\ Less(x, r.name) <=> Less(region.from, r.name)
      /\ Less(x, End(r.name)) <=> Less(region.from, End(r.name))
  BY <1>2, <1>3, <1>4
<1>6. Spans(r, x) <=> Spans(r, region.from)
  BY <1>5 DEF Spans
<1>7. Spans(r, x) <=> IsPrefix(r.name, x)
  BY <1>3, EndIs DEF Spans
<1>8. Spans(r, region.from) <=> \E p \in 1 .. Len(region.stack) : region.stack[p] = r
  BY DEF StackOK
<1> QED  BY <1>6, <1>7, <1>8

\* Two names of the same length that span an OID are the same.
LEMMA SameName ==
    ASSUME NEW r \in Regs, NEW t \in Regs, NEW x \in Seq(Nat), Spans(r, x), Spans(t, x),
           Len(r.name) = Len(t.name)
    PROVE  r.name = t.name
<1>1. /\ r.name \in Seq(Nat) /\ Len(r.name) > 0 /\ t.name \in Seq(Nat) /\ Len(t.name) > 0
  BY RegIs
<1>2. IsPrefix(r.name, x) /\ IsPrefix(t.name, x)
  BY <1>1, EndIs DEF Spans
<1> DEFINE a == r.name
           b == t.name
<1>3. a \in Seq(Nat) /\ b \in Seq(Nat) /\ Len(a) = Len(b)
  BY <1>1
<1> HIDE DEF a, b
<1>4. /\ \A p \in 1 .. Len(a) : a[p] = x[p]
      /\ \A p \in 1 .. Len(b) : b[p] = x[p]
  BY <1>2, <1>3, PrefixIs DEF a, b
<1>5. a = b
  <2>1. \A p \in 1 .. Len(a) : a[p] = b[p]
    BY <1>3, <1>4
  <2> QED  BY <1>3, <2>1, SeqEqual
<1> QED  BY <1>5 DEF a, b

\* Regions lie between the ends of the root.
LEMMA InRoot ==
    ASSUME NEW list, SideBySide(list), NEW p \in 1 .. Len(list)
    PROVE  ~Less(list[p].from, <<1>>) /\ Less(list[p].from, <<2>>) /\ Spans(Root, list[p].from)
<1> DEFINE n == Len(list)
           one == <<1>>
           two == <<2>>
<1>1. /\ n \in Nat /\ n > 0 /\ p \in 1 .. n /\ 1 \in 1 .. n /\ n \in 1 .. n
      /\ list[1].from = one /\ list[n].to = two
  BY DEF SideBySide
<1>2. /\ list[p].from \in Seq(Nat) /\ list[p].to \in Seq(Nat) /\ Less(list[p].from, list[p].to)
      /\ list[n].to \in Seq(Nat)
  BY <1>1, RegionsAre
<1>3. one \in Seq(Nat) /\ two \in Seq(Nat) /\ End(one) = two
  BY RootIs
<1> HIDE DEF one, two
<1>4. ~Less(list[p].from, one)
  <2>1. CASE p = 1
    BY <2>1, <1>1, <1>3, LessTotal
  <2>2. CASE p # 1
    <3>1. Less(list[1].from, list[p].from)
      BY <2>2, <1>1, Ascends
    <3> QED  BY <3>1, <1>1, <1>2, <1>3, LessTotal
  <2> QED  BY <2>1, <2>2
<1>5. Less(list[p].from, two)
  <2>1. CASE p = n
    BY <2>1, <1>1, <1>2
  <2>2. CASE p # n
    <3>1. Less(list[p].to, list[n].to)
      BY <2>2, <1>1, Ascends
    <3> QED  BY <3>1, <1>1, <1>2, <1>3, LessTransitive
  <2> QED  BY <2>1, <2>2
<1>6. Spans(Root, list[p].from)
  BY <1>3, <1>4, <1>5 DEF Spans, Root, Reg, one
<1> QED  BY <1>4, <1>5, <1>6 DEF one, two

\* A list keeps its shape when only stacks change.
LEMMA StacksChange ==
    ASSUME NEW list, SideBySide(list), NEW new, DOMAIN new = 1 .. Len(list),
           new = [p \in 1 .. Len(list) |-> new[p]],
           \A p \in 1 .. Len(list) :
               new[p] \in Region /\ new[p].from = list[p].from /\ new[p].to = list[p].to
    PROVE  SideBySide(new) /\ Len(new) = Len(list)
<1> DEFINE n == Len(list)
<1>1. /\ n \in Nat /\ n > 0 /\ list[1].from = <<1>> /\ list[n].to = <<2>>
      /\ \A p \in 1 .. n : Less(list[p].from, list[p].to)
      /\ \A p \in 1 .. n - 1 : list[p + 1].from = list[p].to
  BY DEF SideBySide
<1> HIDE DEF n
<1>2. \A p \in 1 .. n : new[p] \in Region
  BY DEF n
<1>3. new \in Seq(Region) /\ Len(new) = n
  <2>1. new \in [1 .. n -> Region]
    BY <1>2 DEF n
  <2> QED  BY <1>1, <2>1
<1>4. \A p \in 1 .. n : new[p].from = list[p].from /\ new[p].to = list[p].to
  BY DEF n
<1>5. /\ 1 \in 1 .. n /\ n \in 1 .. n
      /\ \A p \in 1 .. n - 1 : p \in 1 .. n /\ p + 1 \in 1 .. n
  BY <1>1
<1>6. \A p \in 1 .. n - 1 : new[p + 1].from = new[p].to
  BY <1>1, <1>4, <1>5
<1> QED  BY <1>1, <1>3, <1>4, <1>5, <1>6 DEF SideBySide, n

\* The list of a load: where it is cut, and what it has in its stacks.
LEMMA LoadedIs ==
    ASSUME NEW list, SideBySide(list), NEW reg \in Regs, NEW from \in Bounds, NEW to \in Bounds
    PROVE  LET new == Load(list, reg, from, to)
               cut == Split(Split(list, from), to)
           IN  /\ Pieces(Split(list, from), list) /\ Pieces(cut, Split(list, from))
               /\ \A p \in 1 .. Len(cut) : ~Cuts(from, cut[p]) /\ ~Cuts(to, cut[p])
               /\ SideBySide(new) /\ Len(new) = Len(cut)
               /\ \A p \in 1 .. Len(cut) :
                      /\ new[p].from = cut[p].from /\ new[p].to = cut[p].to
                      /\ new[p].stack = IF Within(cut[p], from, to) THEN Push(cut[p].stack, reg)
                                        ELSE cut[p].stack
<1> DEFINE one == Split(list, from)
           cut == Split(one, to)
           new == Load(list, reg, from, to)
           n == Len(cut)
<1>1. Pieces(one, list) /\ \A p \in 1 .. Len(one) : ~Cuts(from, one[p])
  BY SplitIs
<1>2. SideBySide(one)
  BY <1>1 DEF Pieces
<1>3. Pieces(cut, one) /\ \A p \in 1 .. n : ~Cuts(to, cut[p])
  <2> HIDE DEF one
  <2> QED  BY <1>2, SplitIs
<1>4. SideBySide(cut)
  BY <1>3 DEF Pieces
<1>5. \A p \in 1 .. n : ~Cuts(from, cut[p])
  <2>1. from \in Seq(Nat)
    BY BoundIs
  <2> DEFINE no == {}
  <2>2. no \subseteq Regs
    OBVIOUS
  <2> HIDE DEF one, cut, no
  <2> QED  BY <2>1, <2>2, <1>1, <1>2, <1>3, PiecesKeep DEF n
<1>6. n \in Nat /\ DOMAIN cut = 1 .. n
  <2> HIDE DEF cut
  <2> QED  BY <1>4 DEF SideBySide
<1>7. new = [p \in 1 .. n |-> IF Within(cut[p], from, to)
                              THEN [cut[p] EXCEPT !.stack = Push(@, reg)] ELSE cut[p]]
  BY <1>6 DEF Load
<1> HIDE DEF new, one, cut, n
<1>8. \A p \in 1 .. n : cut[p] \in Region /\ cut[p].stack \in Seq(Regs)
  BY <1>4, RegionsAre DEF n
<1>9. ASSUME NEW p \in 1 .. n
      PROVE  /\ new[p] \in Region /\ new[p].from = cut[p].from /\ new[p].to = cut[p].to
             /\ new[p].stack = IF Within(cut[p], from, to) THEN Push(cut[p].stack, reg)
                               ELSE cut[p].stack
  <2>1. Push(cut[p].stack, reg) \in Seq(Regs)
    BY <1>8, PushIs
  <2>2. new[p] = IF Within(cut[p], from, to)
                 THEN [cut[p] EXCEPT !.stack = Push(@, reg)] ELSE cut[p]
    BY <1>7
  <2> QED  BY <1>8, <2>1, <2>2 DEF Region
<1>10. DOMAIN new = 1 .. n /\ new = [p \in 1 .. n |-> new[p]]
  BY <1>7
<1>11. SideBySide(new) /\ Len(new) = n
  BY <1>4, <1>9, <1>10, StacksChange DEF n
<1> QED  BY <1>1, <1>3, <1>5, <1>9, <1>11 DEF one, cut, new, n

\* A registration that is loaded joins those that were registered.
LEMMA LoadIs ==
    ASSUME NEW list, SideBySide(list), NEW regs, regs \subseteq Regs, Stacked(list, regs),
           NEW reg \in Regs, \A t \in regs : ~IsReg(t, reg.name, reg.priority)
    PROVE  LET new == Load(list, reg, reg.name, End(reg.name))
           IN  SideBySide(new) /\ Stacked(new, regs \cup {reg})
<1> DEFINE name == reg.name
           one == Split(list, name)
           cut == Split(one, End(name))
           new == Load(list, reg, name, End(name))
           n == Len(cut)
           all == regs \cup {reg}
<1>1. name \in Bounds /\ End(name) \in Bounds /\ name \in Seq(Nat) /\ End(name) \in Seq(Nat)
  BY RegIs
<1>2. /\ Pieces(one, list) /\ Pieces(cut, one)
      /\ \A p \in 1 .. n : ~Cuts(name, cut[p]) /\ ~Cuts(End(name), cut[p])
      /\ SideBySide(new) /\ Len(new) = n
      /\ \A p \in 1 .. n :
             /\ new[p].from = cut[p].from /\ new[p].to = cut[p].to
             /\ new[p].stack = IF Within(cut[p], name, End(name)) THEN Push(cut[p].stack, reg)
                               ELSE cut[p].stack
  <2> DEFINE end == End(name)
  <2>1. name \in Bounds /\ end \in Bounds
    BY <1>1
  <2> HIDE DEF name, end
  <2>2. Pieces(one, list) /\ Pieces(cut, one)
    BY <2>1, LoadedIs DEF end
  <2>3. \A p \in 1 .. n : ~Cuts(name, cut[p]) /\ ~Cuts(end, cut[p])
    BY <2>1, LoadedIs DEF end
  <2>4. SideBySide(new) /\ Len(new) = n
    BY <2>1, LoadedIs DEF end
  <2>5. \A p \in 1 .. n :
             /\ new[p].from = cut[p].from /\ new[p].to = cut[p].to
             /\ new[p].stack = IF Within(cut[p], name, end) THEN Push(cut[p].stack, reg)
                               ELSE cut[p].stack
    BY <2>1, LoadedIs DEF end
  <2> QED  BY <2>2, <2>3, <2>4, <2>5 DEF end
<1> HIDE DEF new, cut, one
<1>3. SideBySide(cut) /\ SideBySide(one)
  BY <1>2 DEF Pieces
<1>4. Stacked(one, regs)
  BY <1>2, PiecesKeep
<1>5. Stacked(cut, regs)
  BY <1>2, <1>3, <1>4, PiecesKeep
<1> HIDE DEF n
<1>6. ASSUME NEW p \in 1 .. n  PROVE StackOK(new[p], all)
  <2> DEFINE c == cut[p]
             s == new[p].stack
  <2>1. StackOK(c, regs) /\ c.from \in Seq(Nat) /\ c.stack \in Seq(Regs) /\ c \in Region
    BY <1>3, <1>5, RegionsAre DEF Stacked, n
  <2>2. ~Cuts(name, c) /\ ~Cuts(End(name), c)
        /\ new[p].from = c.from /\ new[p].to = c.to
        /\ s = IF Within(c, name, End(name)) THEN Push(c.stack, reg) ELSE c.stack
    BY <1>2
  <2>3. Within(c, name, End(name)) <=> Spans(reg, c.from)
    BY DEF Within, Spans
  <2> HIDE DEF c, s
  <2>4. /\ \A r \in regs : ~Cuts(r.name, c) /\ ~Cuts(End(r.name), c)
        /\ \A q \in 1 .. Len(c.stack) : c.stack[q] \in regs /\ Spans(c.stack[q], c.from)
        /\ \A r \in regs : Spans(r, c.from) => \E q \in 1 .. Len(c.stack) : c.stack[q] = r
        /\ Ordered(c.stack)
    BY <2>1 DEF StackOK
  <2>5. \A r \in all : ~Cuts(r.name, new[p]) /\ ~Cuts(End(r.name), new[p])
    <3>1. \A x : Cuts(x, new[p]) <=> Cuts(x, c)
      BY <2>2 DEF Cuts
    <3> QED  BY <3>1, <2>2, <2>4
  <2>6. CASE ~Spans(reg, c.from)
    <3>1. s = c.stack
      BY <2>2, <2>3, <2>6
    <3>2. \A q \in 1 .. Len(s) : s[q] \in all /\ Spans(s[q], c.from)
      BY <3>1, <2>4
    <3>3. \A r \in all : Spans(r, c.from) => \E q \in 1 .. Len(s) : s[q] = r
      BY <3>1, <2>4, <2>6
    <3> QED  BY <2>2, <2>4, <2>5, <3>1, <3>2, <3>3 DEF StackOK, s
  <2>7. CASE Spans(reg, c.from)
    <3>1. s = Push(c.stack, reg)
      BY <2>2, <2>3, <2>7
    <3>2. ~Duplicate(c.stack, reg)
      <4> SUFFICES ASSUME NEW j \in DOMAIN c.stack, Len(c.stack[j].name) = Len(reg.name),
                          c.stack[j].priority = reg.priority
                   PROVE  FALSE
        BY DEF Duplicate
      <4>1. j \in 1 .. Len(c.stack)
        BY <2>1
      <4>2. c.stack[j] \in regs /\ c.stack[j] \in Regs /\ Spans(c.stack[j], c.from)
        BY <4>1, <2>4
      <4>3. c.stack[j].name = reg.name
        BY <4>2, <2>1, <2>7, SameName
      <4> QED  BY <4>2, <4>3 DEF IsReg
    <3>3. /\ \E q \in 1 .. Len(s) : s[q] = reg
          /\ \A q \in 1 .. Len(s) : s[q] = reg \/ \E a \in 1 .. Len(c.stack) : s[q] = c.stack[a]
          /\ \A a \in 1 .. Len(c.stack) : \E q \in 1 .. Len(s) : s[q] = c.stack[a]
          /\ Ordered(s)
      <4> DEFINE k == c.stack
      <4>1. k \in Seq(Regs) /\ Ordered(k) /\ ~Duplicate(k, reg) /\ s = Push(k, reg)
        BY <2>1, <2>4, <3>1, <3>2
      <4> HIDE DEF k
      <4>2. /\ \E q \in 1 .. Len(s) : s[q] = reg
            /\ \A q \in 1 .. Len(s) : s[q] = reg \/ \E a \in 1 .. Len(k) : s[q] = k[a]
        BY <4>1, PushIs
      <4>3. /\ \A a \in 1 .. Len(k) : \E q \in 1 .. Len(s) : s[q] = k[a]
            /\ Ordered(s)
        BY <4>1, PushIs
      <4> QED  BY <4>2, <4>3 DEF k
    <3>4. \A q \in 1 .. Len(s) : s[q] \in all /\ Spans(s[q], c.from)
      BY <3>3, <2>4, <2>7
    <3>5. \A r \in all : Spans(r, c.from) => \E q \in 1 .. Len(s) : s[q] = r
      <4> TAKE r \in all
      <4>1. CASE r = reg
        BY <4>1, <3>3
      <4>2. CASE r \in regs
        <5> SUFFICES ASSUME Spans(r, c.from)  PROVE \E q \in 1 .. Len(s) : s[q] = r
          OBVIOUS
        <5>1. PICK a \in 1 .. Len(c.stack) : c.stack[a] = r
          BY <4>2, <2>4
        <5> QED  BY <5>1, <3>3
      <4> QED  BY <4>1, <4>2
    <3> QED  BY <2>2, <2>5, <3>3, <3>4, <3>5 DEF StackOK, s
  <2> QED  BY <2>6, <2>7
<1>7. Stacked(new, all)
  BY <1>2, <1>6 DEF Stacked
<1> QED  BY <1>2, <1>7 DEF new

\* Where a name does not cut a region, it begins the one it is in.
LEMMA BeginsAt ==
    ASSUME NEW list, SideBySide(list), NEW x \in Seq(Nat), NEW p \in 1 .. Len(list), ~Cuts(x, list[p])
    PROVE  Holds(list[p], x) <=> list[p].from = x
<1>1. list[p].from \in Seq(Nat) /\ list[p].to \in Seq(Nat) /\ Less(list[p].from, list[p].to)
  BY RegionsAre
<1>2. ASSUME Holds(list[p], x)  PROVE list[p].from = x
  <2>1. ~Less(x, list[p].from) /\ Less(x, list[p].to) /\ ~Less(list[p].from, x)
    BY <1>2 DEF Holds, Cuts
  <2> QED  BY <1>1, <2>1, LessOrder
<1>3. ASSUME list[p].from = x  PROVE Holds(list[p], x)
  <2>1. ~Less(x, x)
    BY LessTotal
  <2> QED  BY <1>1, <1>3, <2>1 DEF Holds
<1> QED  BY <1>2, <1>3

\* A registration is in the stack of the region that its name begins.
LEMMA StackOf ==
    ASSUME NEW list, SideBySide(list), NEW regs, regs \subseteq Regs, Stacked(list, regs), NEW r \in regs
    PROVE  \E p \in 1 .. Len(list) :
               /\ list[p].from = r.name /\ Holds(list[p], r.name)
               /\ \E q \in 1 .. Len(list[p].stack) : list[p].stack[q] = r
<1>1. /\ r.name \in Seq(Nat) /\ End(r.name) \in Seq(Nat)
      /\ ~Less(r.name, <<1>>) /\ Less(r.name, <<2>>) /\ Less(r.name, End(r.name))
  BY RegIs
<1>2. PICK p \in 1 .. Len(list) : Holds(list[p], r.name)
  BY <1>1, RegionOf
<1>3. StackOK(list[p], regs)
  BY DEF Stacked
<1>4. ~Cuts(r.name, list[p])
  BY <1>3 DEF StackOK
<1>5. list[p].from = r.name
  BY <1>1, <1>2, <1>4, BeginsAt
<1>6. Spans(r, list[p].from)
  BY <1>1, <1>5, LessTotal DEF Spans
<1>7. \E q \in 1 .. Len(list[p].stack) : list[p].stack[q] = r
  BY <1>3, <1>6 DEF StackOK
<1> QED  BY <1>2, <1>5, <1>7

\* The first region of a name begins with it.
LEMMA RegionAtIs ==
    ASSUME NEW list, SideBySide(list), NEW x \in Possible
    PROVE  /\ Pieces(Split(list, x), list)
           /\ \E p \in 1 .. Len(Split(list, x)) :
                  RegionAt(list, x) = Split(list, x)[p] /\ Split(list, x)[p].from = x
<1> DEFINE cut == Split(list, x)
           n == Len(cut)
<1>1. x \in Seq(Nat) /\ x \in Bounds /\ Less(<<1>>, x) /\ Less(x, <<2>>) /\ ~Less(x, <<1>>)
  BY PossibleIs, IsoIs, RootIs, LessTotal DEF Bounds
<1>2. Pieces(cut, list) /\ \A p \in 1 .. n : ~Cuts(x, cut[p])
  BY <1>1, SplitIs
<1>3. RegionAt(list, x) = cut[CHOOSE p \in DOMAIN cut : cut[p].from = x]
  BY DEF RegionAt
<1> HIDE DEF cut
<1>4. SideBySide(cut) /\ DOMAIN cut = 1 .. n
  <2>1. SideBySide(cut)
    BY <1>2 DEF Pieces
  <2> QED  BY <2>1 DEF SideBySide
<1> HIDE DEF n
<1>5. PICK p \in 1 .. n : Holds(cut[p], x)
  BY <1>1, <1>4, RegionOf DEF n
<1>6. cut[p].from = x
  BY <1>1, <1>2, <1>4, <1>5, BeginsAt DEF n
<1> DEFINE c == CHOOSE q \in 1 .. n : cut[q].from = x
<1>7. c \in 1 .. n /\ cut[c].from = x
  BY <1>6
<1>8. RegionAt(list, x) = cut[c]
  BY <1>3, <1>4
<1> HIDE DEF c
<1> QED  BY <1>2, <1>7, <1>8 DEF cut, n

\* Chosen keeps a sequence of which every place is chosen.
LEMMA AllChosen ==
    ASSUME NEW S, NEW s \in Seq(S), NEW P, \A p \in 1 .. Len(s) : p \in P
    PROVE  Chosen(s, P) = s
<1>1. PICK f : Gathers(f, s, P, S) /\ Chosen(s, P) = f[Len(s)]
  BY ChosenUnfolds
<1> DEFINE n == Len(s)
           Same(t, k) == t \in Seq(S) /\ Len(t) = k /\ \A p \in 1 .. k : t[p] = s[p]
           T == {k \in Nat : k <= n => Same(f[k], k)}
<1>2. n \in Nat /\ \A p \in 1 .. n : s[p] \in S
  OBVIOUS
<1>3. 0 \in T
  <2>1. f[0] = <<>>
    BY <1>1 DEF Gathers
  <2>2. <<>> \in Seq(S) /\ Len(<<>>) = 0
    OBVIOUS
  <2>3. Same(f[0], 0)
    BY <2>1, <2>2
  <2> QED  BY <2>3
<1>4. ASSUME NEW k \in Nat, k \in T  PROVE k + 1 \in T
  <2> SUFFICES ASSUME k + 1 <= n  PROVE Same(f[k + 1], k + 1)
    OBVIOUS
  <2>1. k + 1 \in 1 .. n /\ (k + 1) - 1 = k /\ k + 1 \in P /\ s[k + 1] \in S
    BY <1>2
  <2>2. f[k + 1] = Append(f[k], s[k + 1])
    BY <1>1, <2>1 DEF Gathers
  <2>3. Same(f[k], k)
    BY <1>4, <1>2, <2>1
  <2>4. /\ Append(f[k], s[k + 1]) \in Seq(S) /\ Len(Append(f[k], s[k + 1])) = k + 1
        /\ \A p \in 1 .. k : Append(f[k], s[k + 1])[p] = f[k][p]
        /\ Append(f[k], s[k + 1])[k + 1] = s[k + 1]
    BY <2>1, <2>3, AppendProperties
  <2> QED  BY <2>2, <2>3, <2>4
<1>5. n \in T
  <2> HIDE DEF T
  <2> QED  BY <1>2, <1>3, <1>4, InductionOn
<1>6. Same(f[n], n)
  BY <1>2, <1>5
<1>7. f[n] = s
  BY <1>2, <1>6, SeqEqual
<1> QED  BY <1>1, <1>7

\* What is left of a stack when some registrations stay.
Keeps(left, stack, keep) ==
    /\ left \in Seq(Regs) /\ Ordered(left)
    /\ \A p \in 1 .. Len(left) : left[p] \in keep /\ \E q \in 1 .. Len(stack) : left[p] = stack[q]
    /\ \A q \in 1 .. Len(stack) : stack[q] \in keep => \E p \in 1 .. Len(left) : left[p] = stack[q]

LEMMA ChosenKeeps ==
    ASSUME NEW stack \in Seq(Regs), Ordered(stack), NEW keep, NEW P,
           \A q \in 1 .. Len(stack) : q \in P <=> stack[q] \in keep
    PROVE  Keeps(Chosen(stack, P), stack, keep)
<1> DEFINE c == Chosen(stack, P)
           n == Len(stack)
           m == Len(c)
<1>1. c \in Seq(Regs) /\ IsChosen(c, stack, n, P)
  BY ChosenIs
<1> HIDE DEF c
<1>2. PICK place \in [1 .. m -> 1 .. n] :
           /\ \A a, b \in 1 .. m : a < b => place[a] < place[b]
           /\ \A a \in 1 .. m : c[a] = stack[place[a]] /\ place[a] \in P
           /\ \A j \in 1 .. n : j \in P => \E a \in 1 .. m : place[a] = j
  BY <1>1 DEF IsChosen
<1> HIDE DEF n, m
<1>3. \A a \in 1 .. m : place[a] \in 1 .. n
  BY <1>2
<1>4. Ordered(c)
  <2>1. ASSUME NEW a \in 1 .. m, NEW b \in 1 .. m, a < b  PROVE Outranks(c[a], c[b])
    BY <1>2, <1>3, <2>1 DEF Ordered, n
  <2> QED  BY <2>1 DEF Ordered, m
<1>5. \A a \in 1 .. m : c[a] \in keep /\ \E q \in 1 .. n : c[a] = stack[q]
  BY <1>2, <1>3 DEF n
<1>6. \A q \in 1 .. n : stack[q] \in keep => \E a \in 1 .. m : c[a] = stack[q]
  <2> SUFFICES ASSUME NEW q \in 1 .. n, stack[q] \in keep  PROVE \E a \in 1 .. m : c[a] = stack[q]
    OBVIOUS
  <2>1. q \in P
    BY DEF n
  <2>2. PICK a \in 1 .. m : place[a] = q
    BY <1>2, <2>1
  <2> QED  BY <1>2, <2>2
<1> QED  BY <1>1, <1>4, <1>5, <1>6 DEF Keeps, c, n, m

\* What is left of a list when some registrations stay, the root among them: no
\* region loses its last one.
LEMMA DropIs ==
    ASSUME NEW list, SideBySide(list), NEW regs, regs \subseteq Regs, Stacked(list, regs),
           NEW keep, keep \subseteq regs, Root \in keep,
           NEW new, DOMAIN new = 1 .. Len(list), new = [p \in 1 .. Len(list) |-> new[p]],
           \A p \in 1 .. Len(list) :
               /\ new[p] \in Region /\ new[p].from = list[p].from /\ new[p].to = list[p].to
               /\ Keeps(new[p].stack, list[p].stack, keep)
    PROVE  Nonempty(new) = new /\ SideBySide(new) /\ Stacked(new, keep)
<1> DEFINE n == Len(list)
<1>1. SideBySide(new) /\ Len(new) = n
  BY StacksChange
<1>2. ASSUME NEW p \in 1 .. n  PROVE StackOK(new[p], keep) /\ new[p].stack # <<>>
  <2> DEFINE s == new[p].stack
             t == list[p].stack
             f == list[p].from
  <2>1. /\ \A r \in regs : ~Cuts(r.name, list[p]) /\ ~Cuts(End(r.name), list[p])
        /\ \A q \in 1 .. Len(t) : t[q] \in regs /\ Spans(t[q], f)
        /\ \A r \in regs : Spans(r, f) => \E q \in 1 .. Len(t) : t[q] = r
    BY DEF Stacked, StackOK
  <2>2. /\ new[p].from = f /\ new[p].to = list[p].to /\ s \in Seq(Regs) /\ Ordered(s)
        /\ \A a \in 1 .. Len(s) : s[a] \in keep /\ \E q \in 1 .. Len(t) : s[a] = t[q]
        /\ \A q \in 1 .. Len(t) : t[q] \in keep => \E a \in 1 .. Len(s) : s[a] = t[q]
    BY DEF Keeps
  <2>3. Spans(Root, f)
    BY InRoot
  <2>4. \A r \in keep : ~Cuts(r.name, new[p]) /\ ~Cuts(End(r.name), new[p])
    BY <2>1, <2>2 DEF Cuts
  <2> HIDE DEF s, t, f
  <2>5. \A a \in 1 .. Len(s) : s[a] \in keep /\ Spans(s[a], f)
    BY <2>1, <2>2
  <2>6. \A r \in keep : Spans(r, f) => \E a \in 1 .. Len(s) : s[a] = r
    <3> SUFFICES ASSUME NEW r \in keep, Spans(r, f)  PROVE \E a \in 1 .. Len(s) : s[a] = r
      OBVIOUS
    <3>1. PICK q \in 1 .. Len(t) : t[q] = r
      BY <2>1
    <3> QED  BY <3>1, <2>2
  <2>7. s # <<>>
    <3>1. PICK a \in 1 .. Len(s) : s[a] = Root
      BY <2>3, <2>6
    <3> QED  BY <3>1, <2>2
  <2> QED  BY <2>2, <2>4, <2>5, <2>6, <2>7 DEF StackOK, s
<1>3. Stacked(new, keep)
  BY <1>1, <1>2 DEF Stacked
<1>4. Nonempty(new) = new
  <2> DEFINE P == {p \in DOMAIN new : new[p].stack # <<>>}
  <2>1. new \in Seq(Region)
    BY <1>1 DEF SideBySide
  <2>2. \A p \in 1 .. Len(new) : p \in P
    BY <1>1, <1>2
  <2>3. Nonempty(new) = Chosen(new, P)
    BY DEF Nonempty
  <2> HIDE DEF P
  <2> QED  BY <2>1, <2>2, <2>3, AllChosen
<1> QED  BY <1>1, <1>3, <1>4

\* A region has a registration that spans it.
LEMMA HasIs ==
    ASSUME NEW list, SideBySide(list), NEW regs, LiveOK(regs), Stacked(list, regs), NEW t \in regs,
           NEW p \in 1 .. Len(list)
    PROVE  Has(list[p], t.name, t.priority) <=> Spans(t, list[p].from)
<1> DEFINE s == list[p].stack
           n == Len(s)
<1>1. s \in Seq(Regs) /\ DOMAIN s = 1 .. n
  <2>1. s \in Seq(Regs)
    BY RegionsAre
  <2> HIDE DEF s
  <2> QED  BY <2>1
<1>2. /\ \A q \in 1 .. n : s[q] \in regs /\ Spans(s[q], list[p].from)
      /\ Spans(t, list[p].from) => \E q \in 1 .. n : s[q] = t
  BY DEF Stacked, StackOK
<1>3. \A q \in 1 .. n : IsReg(s[q], t.name, t.priority) => s[q] = t
  BY <1>2 DEF LiveOK, IsReg
<1>4. IsReg(t, t.name, t.priority)
  BY DEF IsReg
<1>5. Has(list[p], t.name, t.priority) <=> \E q \in 1 .. n : IsReg(s[q], t.name, t.priority)
  BY <1>1 DEF Has
<1> HIDE DEF s, n
<1> QED  BY <1>2, <1>3, <1>4, <1>5

\* A name is found where it is registered.
LEMMA RegisteredIs ==
    ASSUME NEW list, SideBySide(list), NEW regs, LiveOK(regs), Stacked(list, regs),
           NEW name, NEW priority
    PROVE  Registered(list, name, priority) => \E t \in regs : IsReg(t, name, priority)
<1> SUFFICES ASSUME NEW i \in DOMAIN list, Has(list[i], name, priority)
             PROVE  \E t \in regs : IsReg(t, name, priority)
  BY DEF Registered
<1>1. i \in 1 .. Len(list)
  BY DEF SideBySide
<1>2. list[i].stack \in Seq(Regs)
  BY <1>1, RegionsAre
<1>3. PICK j \in DOMAIN list[i].stack : IsReg(list[i].stack[j], name, priority)
  BY DEF Has
<1>4. j \in 1 .. Len(list[i].stack)
  BY <1>2
<1>5. list[i].stack[j] \in regs
  BY <1>1, <1>4 DEF Stacked, StackOK
<1> QED  BY <1>3, <1>5

LEMMA IsRegistered ==
    ASSUME NEW list, SideBySide(list), NEW regs, LiveOK(regs), Stacked(list, regs), NEW t \in regs
    PROVE  Registered(list, t.name, t.priority)
<1>1. regs \subseteq Regs /\ DOMAIN list = 1 .. Len(list)
  BY DEF LiveOK, SideBySide
<1>2. PICK p \in 1 .. Len(list) :
           /\ list[p].from = t.name /\ Holds(list[p], t.name)
           /\ \E q \in 1 .. Len(list[p].stack) : list[p].stack[q] = t
  BY <1>1, StackOf
<1>3. list[p].stack \in Seq(Regs)
  BY <1>2, RegionsAre
<1>4. PICK q \in 1 .. Len(list[p].stack) : list[p].stack[q] = t
  BY <1>2
<1>5. q \in DOMAIN list[p].stack
  BY <1>3
<1>6. Has(list[p], t.name, t.priority)
  BY <1>4, <1>5 DEF Has, IsReg
<1> QED  BY <1>1, <1>2, <1>6 DEF Registered

\* The registrations that stay, and their stacks.
Without(regs, name, priority) == {r \in regs : ~IsReg(r, name, priority)}

LEMMA DroppedKeeps ==
    ASSUME NEW region \in Region, NEW regs, regs \subseteq Regs, StackOK(region, regs), NEW name, NEW priority
    PROVE  /\ Keeps(Dropped(region, name, priority).stack, region.stack, Without(regs, name, priority))
           /\ ~Has(region, name, priority) =>
                  Keeps(region.stack, region.stack, Without(regs, name, priority))
           /\ Dropped(region, name, priority) \in Region
           /\ Dropped(region, name, priority).from = region.from
           /\ Dropped(region, name, priority).to = region.to
<1> DEFINE s == region.stack
           n == Len(s)
           P == {j \in DOMAIN s : ~IsReg(s[j], name, priority)}
           keep == Without(regs, name, priority)
           c == Chosen(s, P)
<1>1. s \in Seq(Regs) /\ Ordered(s) /\ DOMAIN s = 1 .. n /\ \A q \in 1 .. n : s[q] \in regs
  <2>1. s \in Seq(Regs) /\ Ordered(s) /\ \A q \in 1 .. n : s[q] \in regs
    BY DEF StackOK, Region
  <2> HIDE DEF s
  <2> QED  BY <2>1
<1>2. \A q \in 1 .. n : q \in P <=> s[q] \in keep
  BY <1>1 DEF Without
<1>3. Dropped(region, name, priority) = [region EXCEPT !.stack = c]
  BY DEF Dropped
<1>4. c \in Seq(Regs)
  <2> HIDE DEF P, s
  <2> QED  BY <1>1, ChosenIs
<1>5. Keeps(c, s, keep)
  <2> HIDE DEF P, s, keep
  <2> QED  BY <1>1, <1>2, ChosenKeeps DEF n
<1>6. ASSUME ~Has(region, name, priority)  PROVE Keeps(s, s, keep)
  <2>1. \A q \in 1 .. n : ~IsReg(s[q], name, priority)
    BY <1>1, <1>6 DEF Has
  <2>2. \A q \in 1 .. n : s[q] \in keep
    BY <1>1, <2>1 DEF Without
  <2> HIDE DEF s, keep
  <2> QED  BY <1>1, <2>2 DEF Keeps
<1>7. /\ [region EXCEPT !.stack = c] \in Region
      /\ [region EXCEPT !.stack = c].from = region.from /\ [region EXCEPT !.stack = c].to = region.to
      /\ [region EXCEPT !.stack = c].stack = c
  <2> HIDE DEF c
  <2> QED  BY <1>4 DEF Region
<1> QED  BY <1>3, <1>5, <1>6, <1>7

\* A registration that is unloaded leaves the list, and nothing else does.
LEMMA UnloadIs ==
    ASSUME NEW list, SideBySide(list), NEW regs, LiveOK(regs), Stacked(list, regs),
           NEW t \in regs, t # Root
    PROVE  /\ SideBySide(Unload(list, t.name, t.priority))
           /\ Stacked(Unload(list, t.name, t.priority), Without(regs, t.name, t.priority))
           /\ LiveOK(Without(regs, t.name, t.priority))
<1> DEFINE n == Len(list)
           name == t.name
           priority == t.priority
           keep == Without(regs, name, priority)
           first == CHOOSE p \in DOMAIN list : Holds(list[p], name)
           gone == {p \in first .. n : \A k \in first .. p : Has(list[k], name, priority)}
           new == [p \in DOMAIN list |-> IF p \in gone THEN Dropped(list[p], name, priority) ELSE list[p]]
<1>0. regs \subseteq Regs /\ DOMAIN list = 1 .. n /\ n \in Nat /\ t \in Regs
  BY DEF LiveOK, SideBySide
<1>1. Unload(list, name, priority) = Nonempty(new)
  BY DEF Unload
<1>2. PICK p \in 1 .. n : list[p].from = name /\ Holds(list[p], name)
  BY <1>0, StackOf
<1>3. first \in 1 .. n /\ Holds(list[first], name)
  BY <1>0, <1>2
<1>4. /\ name \in Seq(Nat) /\ End(name) \in Seq(Nat) /\ ~Less(name, <<1>>) /\ Less(name, <<2>>)
      /\ Less(name, End(name))
  BY <1>0, RegIs
<1>5. list[first].from = name
  <2> HIDE DEF first, name
  <2> QED  BY <1>2, <1>3, <1>4, RegionOf DEF n
<1>6. \A k \in 1 .. n : Has(list[k], name, priority) <=> Spans(t, list[k].from)
  BY HasIs
<1> HIDE DEF first
<1>7. ASSUME NEW k \in 1 .. n, Has(list[k], name, priority)  PROVE k \in gone
  <2>1. Spans(t, list[k].from)
    BY <1>6, <1>7
  <2>2. ~Less(list[k].from, name) /\ Less(list[k].from, End(name)) /\ list[k].from \in Seq(Nat)
    BY <2>1, RegionsAre DEF Spans
  <2>3. first <= k
    <3> SUFFICES ASSUME k < first  PROVE FALSE
      BY <1>0, <1>3
    <3>1. Less(list[k].from, list[first].from)
      BY <1>3, Ascends
    <3> QED  BY <3>1, <1>5, <2>2
  <2>4. ASSUME NEW q \in first .. k  PROVE Has(list[q], name, priority)
    <3>1. q \in 1 .. n
      BY <1>0, <1>3
    <3>2. list[q].from \in Seq(Nat)
      BY <3>1, RegionsAre
    <3>3. ~Less(list[q].from, name)
      <4>1. CASE q = first
        BY <4>1, <1>4, <1>5, LessTotal
      <4>2. CASE q # first
        <5>1. Less(list[first].from, list[q].from)
          BY <4>2, <3>1, <1>0, <1>3, Ascends
        <5> QED  BY <5>1, <1>4, <1>5, <3>2, LessTotal
      <4> QED  BY <4>1, <4>2
    <3>4. Less(list[q].from, End(name))
      <4>1. CASE q = k
        BY <4>1, <2>2
      <4>2. CASE q # k
        <5>1. Less(list[q].from, list[k].from)
          BY <4>2, <3>1, <1>0, <1>3, Ascends
        <5> QED  BY <5>1, <1>4, <2>2, <3>2, LessTransitive
      <4> QED  BY <4>1, <4>2
    <3>5. Spans(t, list[q].from)
      BY <3>3, <3>4 DEF Spans
    <3> QED  BY <3>1, <3>5, <1>6
  <2> QED  BY <2>3, <2>4, <1>0, <1>3
<1>8. ASSUME NEW k \in 1 .. n
      PROVE  /\ new[k] \in Region /\ new[k].from = list[k].from /\ new[k].to = list[k].to
             /\ Keeps(new[k].stack, list[k].stack, keep)
  <2>1. list[k] \in Region /\ StackOK(list[k], regs)
    BY RegionsAre DEF Stacked
  <2>2. new[k] = IF k \in gone THEN Dropped(list[k], name, priority) ELSE list[k]
    BY <1>0
  <2> DEFINE d == Dropped(list[k], name, priority)
  <2>3. /\ d \in Region /\ d.from = list[k].from /\ d.to = list[k].to
        /\ Keeps(d.stack, list[k].stack, keep)
        /\ ~Has(list[k], name, priority) => Keeps(list[k].stack, list[k].stack, keep)
    BY <2>1, <1>0, DroppedKeeps
  <2>4. k \notin gone => ~Has(list[k], name, priority)
    BY <1>7
  <2> HIDE DEF new, d, gone, keep
  <2> QED  BY <2>1, <2>2, <2>3, <2>4 DEF d
<1>9. keep \subseteq regs /\ Root \in keep
  <2>1. Root \in regs /\ ~IsReg(Root, name, priority)
    BY DEF LiveOK, IsReg
  <2> QED  BY <2>1 DEF Without
<1>10. LiveOK(keep)
  BY <1>9 DEF LiveOK
<1>11. DOMAIN new = 1 .. n /\ new = [k \in 1 .. n |-> new[k]]
  BY <1>0
<1> HIDE DEF new, keep
<1>12. Nonempty(new) = new /\ SideBySide(new) /\ Stacked(new, keep)
  BY <1>0, <1>8, <1>9, <1>11, DropIs DEF n
<1> QED  BY <1>1, <1>10, <1>12 DEF keep

LEMMA EndPlaces ==
    ASSUME NEW a \in Seq(Nat), Len(a) > 0
    PROVE  /\ End(a) \in Seq(Nat) /\ Len(End(a)) = Len(a) /\ End(a)[Len(a)] = a[Len(a)] + 1
           /\ \A p \in 1 .. Len(a) - 1 : End(a)[p] = a[p]
BY EndIs

\* The names of a range.
LEMMA ElementPossible ==
    ASSUME NEW r \in Ranges, NEW i \in Lowest(r) .. r.ubound
    PROVE  Element(r, i) \in Possible /\ i \in Nat
<1>1. Lowest(r) \in Nat /\ r.ubound \in Nat
  BY ElementIs, 0 \in Nat
<1>2. Element(r, i) \in {Element(r, k) : k \in Lowest(r) .. r.ubound}
  OBVIOUS
<1> QED  BY <1>1, <1>2 DEF Possible

LEMMA RangeRegs ==
    ASSUME NEW r \in Ranges, NEW i \in Lowest(r) .. r.ubound, NEW p \in Priorities, NEW s \in Sessions
    PROVE  Reg(Element(r, i), p, s) \in Regs
BY ElementPossible, RegistryAssumption DEF Reg, Regs

\* Where nothing is registered below the first subtree of a range, its region is
\* all of the subtree.
LEMMA TemplateIs ==
    ASSUME RangesAreClear, NEW r \in Ranges, NEW list, SideBySide(list), NEW regs, regs \subseteq Regs,
           Stacked(list, regs), NEW reg \in regs, reg.name = r.name
    PROVE  RegionAt(list, r.name).to = End(r.name)
<1> DEFINE name == r.name
           end == End(name)
           cut == Split(list, name)
<1>1. name \in Possible
  <2>1. Lowest(r) \in Nat /\ r.ubound \in Nat /\ Lowest(r) <= r.ubound /\ Element(r, Lowest(r)) = name
    BY ElementIs, 0 \in Nat
  <2>2. Lowest(r) \in Lowest(r) .. r.ubound
    BY <2>1
  <2> QED  BY <2>1, <2>2, ElementPossible
<1>2. BelowIso(name) /\ name \in Seq(Nat) /\ Len(name) > 1 /\ end \in Seq(Nat)
      /\ Len(end) = Len(name) /\ Len(name) \in Nat
  BY <1>1, PossibleIs
<1>3. Less(name, end) /\ \A x \in Seq(Nat) : IsPrefix(name, x) <=> ~Less(x, name) /\ Less(x, end)
  BY <1>2, EndIs
<1>4. Pieces(cut, list)
      /\ \E p \in 1 .. Len(cut) : RegionAt(list, name) = cut[p] /\ cut[p].from = name
  BY <1>1, RegionAtIs
<1>5. PICK p \in 1 .. Len(cut) : RegionAt(list, name) = cut[p] /\ cut[p].from = name
  BY <1>4
<1> DEFINE c == cut[p]
           to == c.to
<1>6. SideBySide(cut) /\ Stacked(cut, regs)
  <2>1. SideBySide(cut)
    BY <1>4 DEF Pieces
  <2> HIDE DEF cut
  <2> QED  BY <2>1, <1>4, PiecesKeep
<1>7. StackOK(c, regs) /\ to \in Bounds /\ to \in Seq(Nat) /\ Less(name, to)
  <2> HIDE DEF cut
  <2> QED  BY <1>5, <1>6, RegionsAre DEF Stacked
<1>8. ~Less(end, to)
  <2>1. ~Cuts(end, c)
    BY <1>7 DEF StackOK
  <2> HIDE DEF c
  <2> QED  BY <2>1, <1>3, <1>5 DEF Cuts, c
<1>9. SUFFICES to = end
  BY <1>5
<1> HIDE DEF c, cut, to
<1>10. SUFFICES ASSUME Less(to, end)  PROVE FALSE
  BY <1>2, <1>7, <1>8, LessTotal
<1>11. IsPrefix(name, to)
  BY <1>3, <1>7, <1>10, <1>2, LessTotal
<1>12. to # name
  BY <1>2, <1>7, LessTotal
<1>13. \A n \in Possible : IsPrefix(name, n) => n = name
  BY DEF RangesAreClear
<1>14. BelowIso(end) /\ Less(end, <<2>>) /\ Less(<<1>>, name)
  BY <1>2, IsoIs
<1>15. to # <<1>>
  BY <1>2, <1>7, <1>14, RootIs, LessTotal
<1>16. to # <<2>>
  BY <1>8, <1>14
<1>17. to \notin Possible
  BY <1>11, <1>12, <1>13
<1>18. PICK n \in Possible : to = End(n)
  BY <1>7, <1>15, <1>16, <1>17 DEF Bounds
<1>19. n \in Seq(Nat) /\ Len(n) > 1 /\ Len(n) \in Nat /\ Len(to) = Len(n)
       /\ \A q \in 1 .. Len(n) - 1 : to[q] = n[q]
  <2>1. n \in Seq(Nat) /\ Len(n) > 1 /\ Len(n) \in Nat /\ Len(n) > 0
    BY PossibleIs
  <2>2. Len(End(n)) = Len(n) /\ \A q \in 1 .. Len(n) - 1 : End(n)[q] = n[q]
    BY <2>1, EndPlaces
  <2> QED  BY <1>18, <2>1, <2>2
<1>20. Len(name) <= Len(to) /\ \A q \in 1 .. Len(name) : name[q] = to[q]
  BY <1>2, <1>7, <1>11, PrefixIs
<1>21. Len(name) # Len(to)
  <2> SUFFICES ASSUME Len(name) = Len(to)  PROVE FALSE
    OBVIOUS
  <2>1. \A q \in 1 .. Len(name) : name[q] = to[q]
    BY <1>20
  <2> HIDE DEF name
  <2>2. name = to
    BY <2>1, <1>2, <1>7, SeqEqual
  <2> QED  BY <2>2, <1>12
<1>22. Len(name) < Len(n)
  BY <1>2, <1>19, <1>20, <1>21
<1>23. \A q \in 1 .. Len(name) : q \in 1 .. Len(n) - 1
  BY <1>22, <1>2, <1>19
<1>24. \A q \in 1 .. Len(name) : name[q] = n[q]
  BY <1>19, <1>20, <1>23
<1>25. IsPrefix(name, n)
  <2> HIDE DEF name
  <2>1. Len(name) <= Len(n) /\ name \in Seq(Nat) /\ n \in Seq(Nat)
    BY <1>2, <1>19, <1>22
  <2> QED  BY <2>1, <1>24, PrefixIs
<1>26. n = name
  BY <1>13, <1>25
<1> QED  BY <1>22, <1>26, <1>2

\* The ends of the copies.
LEMMA CopyEnd ==
    ASSUME NEW r \in Ranges, NEW i \in Nat
    PROVE  [End(r.name) EXCEPT ![r.subid] = IF r.subid = Len(r.name) THEN i + 1 ELSE i]
               = End(Element(r, i))
<1> DEFINE x == r.name
           s == r.subid
           n == Len(x)
           y == Element(r, i)
           v == IF s = n THEN i + 1 ELSE i
           a == End(x)
           b == [a EXCEPT ![s] = v]
           c == End(y)
<1>1. /\ y \in Seq(Nat) /\ Len(y) = n /\ y[s] = i
      /\ \A p \in 1 .. n : p # s => y[p] = x[p]
      /\ s \in 1 .. n /\ x \in Seq(Nat) /\ n > 1 /\ n \in Nat
  BY ElementIs DEF BelowIso
<1>2. /\ a \in Seq(Nat) /\ Len(a) = n /\ (\A p \in 1 .. n - 1 : a[p] = x[p]) /\ a[n] = x[n] + 1
  <2> HIDE DEF x
  <2>1. x \in Seq(Nat) /\ Len(x) > 0
    BY <1>1
  <2> QED  BY <2>1, EndPlaces
<1>3. /\ c \in Seq(Nat) /\ Len(c) = n /\ (\A p \in 1 .. n - 1 : c[p] = y[p]) /\ c[n] = y[n] + 1
  <2> HIDE DEF y, n
  <2>1. y \in Seq(Nat) /\ Len(y) > 0 /\ Len(y) = n
    BY <1>1
  <2>2. /\ c \in Seq(Nat) /\ Len(c) = Len(y) /\ c[Len(y)] = y[Len(y)] + 1
        /\ \A p \in 1 .. Len(y) - 1 : c[p] = y[p]
    BY <2>1, EndPlaces
  <2> HIDE DEF c
  <2> QED  BY <2>1, <2>2
<1>4. v \in Nat /\ i + 1 \in Nat
  BY <1>1
<1> HIDE DEF x, s, y, a, c, v, n
<1>5. b \in Seq(Nat) /\ Len(b) = n /\ b[s] = v /\ \A p \in 1 .. n : p # s => b[p] = a[p]
  BY <1>1, <1>2, <1>4
<1> HIDE DEF b
<1>6. \A p \in 1 .. n : b[p] = c[p]
  <2> TAKE p \in 1 .. n
  <2>1. CASE p = s /\ s = n
    <3>1. v = i + 1 /\ c[p] = i + 1
      BY <2>1, <1>1, <1>3 DEF v
    <3> QED  BY <3>1, <2>1, <1>5
  <2>2. CASE p = s /\ s # n
    <3>1. v = i /\ p \in 1 .. n - 1
      BY <2>2, <1>1 DEF v
    <3> QED  BY <3>1, <2>2, <1>1, <1>3, <1>5
  <2>3. CASE p # s /\ p = n
    BY <2>3, <1>1, <1>2, <1>3, <1>5
  <2>4. CASE p # s /\ p # n
    <3>1. p \in 1 .. n - 1
      BY <2>4, <1>1
    <3> QED  BY <3>1, <2>4, <1>1, <1>2, <1>3, <1>5
  <2> QED  BY <2>1, <2>2, <2>3, <2>4
<1>7. b = c
  BY <1>3, <1>5, <1>6, SeqEqual
<1> QED  BY <1>7 DEF b, a, c, v, x, s, y, n

\* A range that is loaded: each of its registrations joins those that were.
RangeRegistrations(r, p, s, last) == {Reg(Element(r, i), p, s) : i \in Lowest(r) .. last}

LEMMA NewInRange ==
    ASSUME NEW r \in Ranges, NEW p, NEW s, NEW regs,
           \A t \in regs : ~(Len(t.name) = Len(r.name) /\ t.priority = p),
           NEW k \in Nat
    PROVE  \A t \in regs \cup RangeRegistrations(r, p, s, Lowest(r) + k - 1) :
               ~IsReg(t, Element(r, Lowest(r) + k), p)
<1>1. Lowest(r) \in Nat
  BY ElementIs, 0 \in Nat
<1> DEFINE i == Lowest(r) + k
<1>2. i \in Nat /\ i - 1 = Lowest(r) + k - 1
  BY <1>1
<1> HIDE DEF i
<1>3. Len(Element(r, i)) = Len(r.name) /\ Element(r, i)[r.subid] = i
  BY <1>2, ElementIs
<1>4. ASSUME NEW t \in regs  PROVE ~IsReg(t, Element(r, i), p)
  BY <1>3 DEF IsReg
<1>5. ASSUME NEW t \in RangeRegistrations(r, p, s, i - 1)  PROVE ~IsReg(t, Element(r, i), p)
  <2>1. PICK j \in Lowest(r) .. i - 1 : t = Reg(Element(r, j), p, s)
    BY DEF RangeRegistrations
  <2>2. j \in Nat /\ j # i
    BY <1>1, <1>2, <2>1
  <2>3. Element(r, j)[r.subid] = j
    BY <2>2, ElementIs
  <2>4. t.name = Element(r, j)
    BY <2>1 DEF Reg
  <2> QED  BY <1>3, <2>2, <2>3, <2>4 DEF IsReg
<1> QED  BY <1>2, <1>4, <1>5 DEF i

LEMMA RangeLoadIs ==
    ASSUME RangesAreClear, NEW r \in Ranges, NEW p \in Priorities, NEW s \in Sessions,
           SideBySide(regions), LiveOK(live), Stacked(regions, live),
           \A t \in live : ~(Len(t.name) = Len(r.name) /\ t.priority = p)
    PROVE  LET new == RangeLoad(r, p, s, r.ubound - Lowest(r))
           IN  SideBySide(new) /\ Stacked(new, live \cup RangeRegistrations(r, p, s, r.ubound))
<1> DEFINE low == Lowest(r)
           m == r.ubound - low
           name(i) == Element(r, i)
           reg(i) == Reg(name(i), p, s)
           first == Load(regions, Reg(r.name, p, s), r.name, End(r.name))
           template == RegionAt(first, r.name).to
           end(i) == [template EXCEPT ![r.subid] = IF r.subid = Len(r.name) THEN i + 1 ELSE i]
           Kept(f) == [k \in 0 .. m |->
                          IF k = 0 THEN first
                          ELSE LET i == low + k IN Load(f[k - 1], reg(i), name(i), end(i))]
           lists == CHOOSE f : f = Kept(f)
           S == {l \in Seq(Region) : SideBySide(l)}
           all(k) == live \cup RangeRegistrations(r, p, s, low + k)
<1>0. /\ low \in Nat /\ r.ubound \in Nat /\ low <= r.ubound /\ m \in Nat
      /\ name(low) = r.name /\ reg(low) = Reg(r.name, p, s)
  BY ElementIs, 0 \in Nat
<1>1. RangeLoad(r, p, s, m) = lists[m]
  BY DEF RangeLoad, FirstLoad, EndOfCopy
<1>2. \A k \in 0 .. m : low + k \in low .. r.ubound /\ low + k \in Nat
  BY <1>0
<1>3. live \subseteq Regs
  BY DEF LiveOK
<1>4. \A k \in 0 .. m : reg(low + k) \in Regs /\ reg(low + k).name = name(low + k)
                        /\ reg(low + k).priority = p
  <2> TAKE k \in 0 .. m
  <2>1. Reg(Element(r, low + k), p, s) \in Regs
    BY <1>2, RangeRegs
  <2> QED  BY <2>1 DEF Reg
<1>5. low + 0 = low /\ 0 \in 0 .. m
  BY <1>0
<1>6. \A k \in 0 .. m : \A t \in live \cup RangeRegistrations(r, p, s, low + k - 1) :
          ~IsReg(t, name(low + k), p)
  <2> SUFFICES ASSUME NEW k \in 0 .. m
               PROVE  \A t \in live \cup RangeRegistrations(r, p, s, Lowest(r) + k - 1) :
                          ~IsReg(t, Element(r, Lowest(r) + k), p)
    OBVIOUS
  <2>1. k \in Nat
    BY <1>0
  <2> QED  BY <2>1, NewInRange
<1>7. RangeRegistrations(r, p, s, low + 0 - 1) = {} /\ \A k \in 0 .. m :
          live \cup RangeRegistrations(r, p, s, low + k)
              = (live \cup RangeRegistrations(r, p, s, low + k - 1)) \cup {reg(low + k)}
  <2> DEFINE interval(i) == low .. i
             Part0(I) == {reg(i) : i \in I}
  <2>1. interval(low + 0 - 1) = {}
    BY <1>0
  <2>2. \A k \in 0 .. m : interval(low + k) = interval(low + k - 1) \cup {low + k}
    BY <1>0
  <2>3. \A i : RangeRegistrations(r, p, s, i) = Part0(interval(i))
    BY DEF RangeRegistrations
  <2> HIDE DEF interval
  <2>4. \A I, i : Part0(I \cup {i}) = Part0(I) \cup {reg(i)}
    OBVIOUS
  <2>5. Part0({}) = {}
    OBVIOUS
  <2>6. RangeRegistrations(r, p, s, low + 0 - 1) = {}
    BY <2>1, <2>3, <2>5
  <2>7. ASSUME NEW k \in 0 .. m
        PROVE  RangeRegistrations(r, p, s, low + k) = RangeRegistrations(r, p, s, low + k - 1) \cup {reg(low + k)}
    <3> DEFINE i == low + k
               I == interval(low + k - 1)
    <3>1. RangeRegistrations(r, p, s, i) = Part0(I \cup {i}) /\ RangeRegistrations(r, p, s, low + k - 1) = Part0(I)
      <4> HIDE DEF Part0
      <4> QED  BY <2>2, <2>3
    <3> HIDE DEF i, I, reg, low
    <3>2. Part0(I \cup {i}) = Part0(I) \cup {reg(i)}
      OBVIOUS
    <3> HIDE DEF Part0
    <3>3. RangeRegistrations(r, p, s, i) = RangeRegistrations(r, p, s, low + k - 1) \cup {reg(i)}
      BY <3>1, <3>2
    <3> QED  BY <3>3 DEF i
  <2> HIDE DEF Part0, low, reg
  <2> QED  BY <2>6, <2>7
<1>8. SideBySide(first) /\ Stacked(first, all(0)) /\ all(0) \subseteq Regs /\ reg(low) \in all(0)
  <2> DEFINE g == reg(low)
  <2>1. g \in Regs /\ g.name = r.name /\ g.priority = p
    BY <1>0, <1>4, <1>5
  <2>2. \A t \in live : ~IsReg(t, r.name, p)
    BY DEF IsReg
  <2>3. first = Load(regions, g, g.name, End(g.name))
    BY <1>0, <2>1
  <2>4. all(0) = live \cup {g}
    BY <1>5, <1>7
  <2> HIDE DEF g, first, all
  <2>5. SideBySide(first) /\ Stacked(first, live \cup {g})
    BY <1>3, <2>1, <2>2, <2>3, LoadIs
  <2> QED  BY <1>3, <2>1, <2>4, <2>5 DEF g
<1>9. template = End(r.name)
  <2> HIDE DEF first, all
  <2>1. reg(low).name = r.name
    BY <1>0, <1>4, <1>5
  <2> QED  BY <1>8, <2>1, TemplateIs
<1>10. \A k \in 0 .. m : end(low + k) = End(name(low + k))
  <2> HIDE DEF template
  <2> QED  BY <1>2, <1>9, CopyEnd
<1> HIDE DEF template, end, first
<1>11. \A k \in 0 .. m : name(low + k) \in Bounds /\ End(name(low + k)) \in Bounds
  BY <1>4, RegIs
<1> HIDE DEF name, reg, low, m
<1>12. \E f : f = Kept(f)
  <2> DEFINE stage == [k \in 1 .. m |-> [l \in S |->
                         Load(l, reg(low + k), name(low + k), end(low + k))]]
  <2>0. \A k \in 1 .. m : k \in 0 .. m
    BY <1>0
  <2>1. stage \in [1 .. m -> [S -> S]]
    <3> SUFFICES ASSUME NEW k \in 1 .. m, NEW l \in S
                 PROVE  Load(l, reg(low + k), name(low + k), end(low + k)) \in S
      OBVIOUS
    <3>1. /\ reg(low + k) \in Regs /\ name(low + k) \in Bounds /\ end(low + k) \in Bounds
      BY <2>0, <1>4, <1>10, <1>11
    <3>2. SideBySide(Load(l, reg(low + k), name(low + k), end(low + k)))
      BY <3>1, LoadedIs
    <3> QED  BY <3>2 DEF SideBySide
  <2>2. first \in S
    BY <1>8 DEF SideBySide
  <2> HIDE DEF S
  <2>3. PICK f \in [0 .. m -> S] : f[0] = first /\ \A k \in 1 .. m : f[k] = stage[k][f[k - 1]]
    <3> HIDE DEF stage
    <3>1. m \in Nat
      BY <1>0
    <3>2. \E f \in [0 .. m -> S] : f[0] = first /\ \A k \in 1 .. m : f[k] = stage[k][f[k - 1]]
      BY <3>1, <2>1, <2>2, RecursionOn
    <3> QED  BY <3>2
  <2>4. \A k \in 1 .. m : k - 1 \in 0 .. m /\ f[k - 1] \in S
    BY <1>0, <2>3
  <2>5. \A k \in 0 .. m : f[k] = Kept(f)[k]
    <3> SUFFICES ASSUME NEW k \in 0 .. m  PROVE f[k] = Kept(f)[k]
      OBVIOUS
    <3>1. CASE k = 0
      BY <2>3, <3>1
    <3>2. CASE k \in 1 .. m
      BY <2>3, <2>4, <3>2
    <3> QED  BY <1>0, <3>1, <3>2
  <2>6. f = Kept(f)
    <3>1. f = [k \in 0 .. m |-> f[k]]
      BY <2>3
    <3> QED  BY <3>1, <2>5
  <2> QED  BY <2>6
<1>13. lists = Kept(lists)
  <2> HIDE DEF Kept
  <2> QED  BY <1>12
<1>14. /\ lists[0] = first
       /\ \A k \in 1 .. m : lists[k] = Load(lists[k - 1], reg(low + k), name(low + k), end(low + k))
  <2>1. \A k \in 0 .. m : lists[k] = Kept(lists)[k]
    <3> HIDE DEF Kept, lists
    <3> QED  BY <1>13
  <2> HIDE DEF lists
  <2> QED  BY <2>1, <1>0
<1> HIDE DEF lists, Kept, S
<1> DEFINE T == {k \in Nat : k <= m => SideBySide(lists[k]) /\ Stacked(lists[k], all(k)) /\ all(k) \subseteq Regs}
<1>15. 0 \in T
  BY <1>8, <1>14
<1>16. ASSUME NEW k \in Nat, k \in T  PROVE k + 1 \in T
  <2> SUFFICES ASSUME k + 1 <= m
               PROVE  SideBySide(lists[k + 1]) /\ Stacked(lists[k + 1], all(k + 1)) /\ all(k + 1) \subseteq Regs
    OBVIOUS
  <2>1. k + 1 \in 1 .. m /\ k + 1 \in 0 .. m /\ (k + 1) - 1 = k /\ low + (k + 1) - 1 = low + k
    BY <1>0
  <2> DEFINE i == low + (k + 1)
             g == reg(i)
  <2>2. SideBySide(lists[k]) /\ Stacked(lists[k], all(k)) /\ all(k) \subseteq Regs
    BY <1>0, <1>16, <2>1
  <2>3. lists[k + 1] = Load(lists[k], g, g.name, End(g.name)) /\ g \in Regs /\ g.priority = p
    BY <1>4, <1>10, <1>14, <2>1
  <2>4. \A t \in all(k) : ~IsReg(t, g.name, g.priority)
    BY <1>4, <1>6, <2>1
  <2>5. all(k + 1) = all(k) \cup {g}
    BY <1>7, <2>1
  <2> HIDE DEF g
  <2>6. SideBySide(lists[k + 1]) /\ Stacked(lists[k + 1], all(k) \cup {g})
    <3> DEFINE A == all(k)
               L == lists[k]
    <3>1. SideBySide(L) /\ Stacked(L, A) /\ A \subseteq Regs /\ \A t \in A : ~IsReg(t, g.name, g.priority)
      BY <2>2, <2>4
    <3> HIDE DEF A, L
    <3>2. SideBySide(Load(L, g, g.name, End(g.name))) /\ Stacked(Load(L, g, g.name, End(g.name)), A \cup {g})
      BY <2>3, <3>1, LoadIs
    <3> QED  BY <2>3, <3>2 DEF A, L
  <2> HIDE DEF all
  <2> QED  BY <2>2, <2>3, <2>5, <2>6
<1>17. m \in T
  <2> HIDE DEF T
  <2> QED  BY <1>0, <1>15, <1>16, InductionOn
<1>18. SideBySide(lists[m]) /\ Stacked(lists[m], all(m))
  BY <1>0, <1>17
<1>19. low + m = r.ubound
  BY <1>0 DEF m
<1> QED  BY <1>1, <1>18, <1>19 DEF m, low

\* A list from which registrations are unloaded is a list of regions.
LEMMA UnloadTyped ==
    ASSUME NEW list \in Seq(Region), NEW name, NEW priority
    PROVE  Unload(list, name, priority) \in Seq(Region)
<1> DEFINE first == CHOOSE p \in DOMAIN list : Holds(list[p], name)
           gone == {p \in first .. Len(list) : \A k \in first .. p : Has(list[k], name, priority)}
           new == [p \in DOMAIN list |-> IF p \in gone THEN Dropped(list[p], name, priority) ELSE list[p]]
           n == Len(list)
<1>1. Unload(list, name, priority) = Nonempty(new)
  BY DEF Unload
<1>2. DOMAIN list = 1 .. n /\ n \in Nat /\ \A p \in 1 .. n : list[p] \in Region
  OBVIOUS
<1> HIDE DEF gone
<1>3. ASSUME NEW p \in 1 .. n  PROVE Dropped(list[p], name, priority) \in Region
  <2> DEFINE t == list[p].stack
             P == {j \in DOMAIN t : ~IsReg(t[j], name, priority)}
  <2>1. list[p] \in Region /\ t \in Seq(Regs)
    BY <1>2 DEF Region
  <2>2. Chosen(t, P) \in Seq(Regs)
    <3> HIDE DEF t, P
    <3> QED  BY <2>1, ChosenIs
  <2>3. Dropped(list[p], name, priority) = [list[p] EXCEPT !.stack = Chosen(t, P)]
    BY DEF Dropped
  <2> HIDE DEF P, t
  <2> QED  BY <2>1, <2>2, <2>3 DEF Region
<1>4. new \in [1 .. n -> Region]
  BY <1>2, <1>3
<1>5. new \in Seq(Region)
  BY <1>2, <1>4
<1> HIDE DEF new
<1>6. Chosen(new, {p \in DOMAIN new : new[p].stack # <<>>}) \in Seq(Region)
  <2> DEFINE P == {p \in DOMAIN new : new[p].stack # <<>>}
  <2> HIDE DEF P
  <2>1. Chosen(new, P) \in Seq(Region)
    BY <1>5, ChosenIs
  <2> QED  BY <2>1 DEF P
<1> QED  BY <1>1, <1>6 DEF Nonempty

\* The lists of a range that is unloaded, each from the one before.
LEMMA RoundsAre ==
    ASSUME NEW r \in Ranges, NEW p, SideBySide(regions)
    PROVE  LET R == RangeUnload(r, p)
           IN  /\ Rounds(r) \in Nat /\ R[0] = regions
               /\ \A k \in 1 .. Rounds(r) : R[k] = Unload(R[k - 1], InRound(r, k), p)
<1> DEFINE m == Rounds(r)
           Kept(f) == [k \in 0 .. m |-> IF k = 0 THEN regions ELSE Unload(f[k - 1], InRound(r, k), p)]
           R == CHOOSE f : f = Kept(f)
           S == Seq(Region)
           stage == [k \in 1 .. m |-> [l \in S |-> Unload(l, InRound(r, k), p)]]
<1>1. m \in Nat
  <2>1. r.ubound \in Nat
    BY RegistryAssumption
  <2> QED  BY <2>1 DEF Rounds
<1>2. RangeUnload(r, p) = R
  BY DEF RangeUnload
<1> HIDE DEF m
<1>3. regions \in S
  BY DEF SideBySide
<1>4. stage \in [1 .. m -> [S -> S]]
  <2> SUFFICES ASSUME NEW k \in 1 .. m, NEW l \in S
               PROVE  Unload(l, InRound(r, k), p) \in S
    OBVIOUS
  <2> QED  BY UnloadTyped
<1>5. PICK f \in [0 .. m -> S] : f[0] = regions /\ \A k \in 1 .. m : f[k] = stage[k][f[k - 1]]
  <2>1. m \in Nat /\ regions \in S /\ stage \in [1 .. m -> [S -> S]]
    BY <1>1, <1>3, <1>4
  <2> HIDE DEF stage, S
  <2>2. \A s \in S, n \in Nat : \A g \in [1 .. n -> [S -> S]] :
            \E f \in [0 .. n -> S] : f[0] = s /\ \A i \in 1 .. n : f[i] = g[i][f[i - 1]]
    <3> SUFFICES ASSUME NEW s \in S, NEW n \in Nat, NEW g \in [1 .. n -> [S -> S]]
                 PROVE  \E f \in [0 .. n -> S] : f[0] = s /\ \A i \in 1 .. n : f[i] = g[i][f[i - 1]]
      OBVIOUS
    <3> QED  BY RecursionOn
  <2> QED  BY <2>1, <2>2
<1> HIDE DEF S
<1>6. \A k \in 1 .. m : k - 1 \in 0 .. m /\ f[k - 1] \in S
  BY <1>1, <1>5
<1>7. \A k \in 0 .. m : f[k] = Kept(f)[k]
  <2> SUFFICES ASSUME NEW k \in 0 .. m  PROVE f[k] = Kept(f)[k]
    OBVIOUS
  <2>1. CASE k = 0
    BY <1>5, <2>1
  <2>2. CASE k \in 1 .. m
    BY <1>5, <1>6, <2>2
  <2> QED  BY <1>1, <2>1, <2>2
<1>8. f = Kept(f)
  <2>1. f = [k \in 0 .. m |-> f[k]]
    BY <1>5
  <2> QED  BY <2>1, <1>7
<1>9. R = Kept(R)
  <2> HIDE DEF Kept
  <2> QED  BY <1>8
<1>10. \A k \in 0 .. m : R[k] = Kept(R)[k]
  <2> HIDE DEF Kept, R
  <2> QED  BY <1>9
<1>11. R[0] = regions /\ \A k \in 1 .. m : R[k] = Unload(R[k - 1], InRound(r, k), p)
  <2> HIDE DEF R
  <2> QED  BY <1>1, <1>10
<1> HIDE DEF R, Kept
<1> QED  BY <1>1, <1>2, <1>11 DEF m

\* A range that is unloaded: up to the first round that misses its
\* sub-identifier, the others stay.
LEMMA RangeUnloadIs ==
    ASSUME RangesAreClear, NEW r \in Ranges, NEW p,
           SideBySide(regions), LiveOK(live), Stacked(regions, live),
           NEW k \in 0 .. Rounds(r), \A j \in 1 .. k : j \notin Missing(r, p)
    PROVE  /\ Rounds(r) = r.ubound /\ Lowest(r) = 1 /\ Rounds(r) \in Nat
           /\ RangeUnload(r, p)[0] = regions
           /\ SideBySide(RangeUnload(r, p)[k])
           /\ LiveOK(WithoutRange(r, p, k)) /\ Stacked(RangeUnload(r, p)[k], WithoutRange(r, p, k))
<1> DEFINE R == RangeUnload(r, p)
           m == Rounds(r)
           left(i) == WithoutRange(r, p, i)
           T == {i \in Nat : i <= k => SideBySide(R[i]) /\ LiveOK(left(i)) /\ Stacked(R[i], left(i))}
<1>1. /\ m \in Nat /\ R[0] = regions
      /\ \A i \in 1 .. m : R[i] = Unload(R[i - 1], InRound(r, i), p)
  BY RoundsAre
<1>2. Lowest(r) = 1 /\ r.ubound \in Nat /\ 1 <= r.ubound
  BY ElementIs, 0 \in Nat DEF RangesAreClear
<1>3. m = r.ubound
  BY <1>2 DEF Rounds
<1>4. \A i \in 1 .. m : InRound(r, i) = Element(r, i)
  <2> TAKE i \in 1 .. m
  <2>1. Lowest(r) + i - 1 = i
    BY <1>1, <1>2
  <2> QED  BY <2>1 DEF InRound
<1>5. \A i \in 1 .. m : i \notin Missing(r, p) => Registered(R[i - 1], InRound(r, i), p)
  BY DEF Missing
<1> HIDE DEF R, m
<1>6. 0 \in T
  <2>1. left(0) = live
    <3>1. Lowest(r) .. 0 = {}
      BY <1>2
    <3> QED  BY <3>1 DEF WithoutRange
  <2> QED  BY <1>1, <2>1
<1>7. ASSUME NEW i \in Nat, i \in T  PROVE i + 1 \in T
  <2> SUFFICES ASSUME i + 1 <= k
               PROVE  SideBySide(R[i + 1]) /\ LiveOK(left(i + 1)) /\ Stacked(R[i + 1], left(i + 1))
    OBVIOUS
  <2>1. k \in Nat /\ k <= m
    BY <1>1 DEF m
  <2>2. i + 1 \in 1 .. m /\ i + 1 \in 1 .. k /\ (i + 1) - 1 = i
    BY <1>1, <2>1
  <2> DEFINE x == Element(r, i + 1)
             L == R[i]
             A == left(i)
  <2>3. SideBySide(L) /\ LiveOK(A) /\ Stacked(L, A)
    BY <1>7, <2>1, <2>2
  <2>4. R[i + 1] = Unload(L, x, p) /\ Registered(L, x, p)
    BY <1>1, <1>4, <1>5, <2>2
  <2>5. left(i + 1) = Without(A, x, p)
    <3>1. Lowest(r) .. i + 1 = (Lowest(r) .. i) \cup {i + 1}
      BY <1>2
    <3> DEFINE I == Lowest(r) .. i
               J == Lowest(r) .. i + 1
    <3>2. /\ left(i + 1) = {t \in live : \A j \in J : ~IsReg(t, Element(r, j), p)}
          /\ A = {t \in live : \A j \in I : ~IsReg(t, Element(r, j), p)}
      BY DEF WithoutRange
    <3> HIDE DEF left, A
    <3>3. J = I \cup {i + 1}
      BY <3>1
    <3> HIDE DEF I, J
    <3> QED  BY <3>2, <3>3 DEF Without
  <2> HIDE DEF L, A
  <2>6. PICK t \in A : IsReg(t, x, p)
    BY <2>3, <2>4, RegisteredIs
  <2>7. t # Root
    <3>1. Len(x) = Len(r.name) /\ BelowIso(x)
      BY ElementIs
    <3> DEFINE one == <<1>>
    <3>2. Len(one) = 1 /\ Len(x) > 1
      BY <3>1 DEF BelowIso
    <3>3. Root.name = one
      BY DEF Root, Reg
    <3> HIDE DEF x, one
    <3> QED  BY <2>6, <3>2, <3>3 DEF IsReg
  <2>8. t.name = x /\ t.priority = p
    BY <2>6 DEF IsReg
  <2> HIDE DEF x
  <2>9. /\ SideBySide(Unload(L, x, p)) /\ Stacked(Unload(L, x, p), Without(A, x, p))
        /\ LiveOK(Without(A, x, p))
    <3>1. /\ SideBySide(Unload(L, t.name, t.priority))
          /\ Stacked(Unload(L, t.name, t.priority), Without(A, t.name, t.priority))
          /\ LiveOK(Without(A, t.name, t.priority))
      BY <2>3, <2>7, UnloadIs
    <3> QED  BY <3>1, <2>8
  <2> QED  BY <2>4, <2>5, <2>9
<1>8. k \in T
  <2>1. k \in Nat
    BY <1>1 DEF m
  <2> HIDE DEF T
  <2> QED  BY <2>1, <1>6, <1>7, InductionOn
<1>9. k \in Nat
  BY <1>1 DEF m
<1>10. SideBySide(R[k]) /\ LiveOK(left(k)) /\ Stacked(R[k], left(k))
  BY <1>8, <1>9
<1> QED  BY <1>1, <1>2, <1>3, <1>10 DEF R, m

\* Two OIDs that differ from each other further on than a name does from one of
\* them are alike to the name.
LEMMA SkipIs ==
    ASSUME NEW a \in Seq(Nat), NEW b \in Seq(Nat), NEW c \in Seq(Nat), Offset(b, c) > Offset(a, b)
    PROVE  Offset(a, c) = Offset(a, b) /\ (Less(a, c) <=> Less(a, b))
<1> DEFINE o == Offset(a, b)
           d == Offset(b, c)
           u == Offset(a, c)
<1>1. DiffersAt(a, b, o) /\ DiffersAt(b, c, d)
  BY OffsetIs
<1>2. \A k : DiffersAt(a, c, k) => k = u
  BY OffsetIs
<1>3. /\ Less(a, b) <=> o <= Len(b) /\ (o > Len(a) \/ a[o] < b[o])
      /\ Less(a, c) <=> u <= Len(c) /\ (u > Len(a) \/ a[u] < c[u])
  BY DEF Less
<1>4. o < d /\ Len(a) \in Nat /\ Len(b) \in Nat /\ Len(c) \in Nat
  OBVIOUS
<1> HIDE DEF o, d, u
<1>5. /\ o \in 1 .. Len(a) + 1 /\ d \in 1 .. Len(b) + 1
      /\ \A p \in 1 .. o - 1 : p <= Len(b) /\ a[p] = b[p]
      /\ o > Len(a) \/ o > Len(b) \/ a[o] # b[o]
      /\ \A p \in 1 .. d - 1 : p <= Len(c) /\ b[p] = c[p]
  BY <1>1 DEF DiffersAt
<1>6. o \in 1 .. d - 1 /\ o <= Len(b)
  BY <1>4, <1>5
<1>7. o <= Len(c) /\ b[o] = c[o]
  BY <1>5, <1>6
<1>8. \A p \in 1 .. o - 1 : p <= Len(c) /\ a[p] = c[p]
  <2> TAKE p \in 1 .. o - 1
  <2>1. p \in 1 .. d - 1
    BY <1>4, <1>5
  <2> QED  BY <2>1, <1>5
<1>9. DiffersAt(a, c, o)
  BY <1>5, <1>6, <1>7, <1>8 DEF DiffersAt
<1>10. o = u
  BY <1>2, <1>9
<1>11. Less(a, c) <=> Less(a, b)
  BY <1>3, <1>6, <1>7, <1>10
<1> QED  BY <1>10, <1>11 DEF o, u

\* The search passes without a comparison only what it would have passed, and
\* ends at the region of the name.
LEMMA RegistrySearch ==
    ASSUME SideBySide(regions), NEW name, BelowIso(name), NEW start \in 1 .. Len(regions),
           start = 1 \/ ~Less(name, regions[start - 1].from)
    PROVE  /\ SearchFrom(name, start) \in 1 .. Len(regions)
           /\ Holds(regions[SearchFrom(name, start)], name)
<1> DEFINE n == Len(regions)
           from(i) == regions[i].from
           Kept(f) == [i \in 0 .. n |-> IF i < start THEN 0
                                        ELSE IF Skipped(name, i, f[i - 1]) THEN f[i - 1]
                                        ELSE Offset(name, regions[i].from)]
           off == CHOOSE f : f = Kept(f)
           ends == {i \in start .. n : ~Skipped(name, i, off[i - 1]) /\ Less(name, regions[i].from)}
<1>0. n \in Nat /\ start \in Nat /\ start >= 1 /\ start <= n /\ name \in Seq(Nat)
      /\ ~Less(name, <<1>>) /\ Less(name, <<2>>)
  <2>1. name \in Seq(Nat) /\ Less(<<1>>, name) /\ Less(name, <<2>>)
    BY IsoIs
  <2>2. ~Less(name, <<1>>)
    BY <2>1, RootIs, LessTotal
  <2> QED  BY <2>1, <2>2 DEF SideBySide
<1>1. \A i \in 1 .. n : from(i) \in Seq(Nat)
  BY RegionsAre
<1>3. SearchFrom(name, start) =
          IF ends = {} THEN n ELSE (CHOOSE i \in ends : \A j \in ends : i <= j) - 1
  BY DEF SearchFrom
<1> HIDE DEF n
<1>4. \E f : f = Kept(f)
  <2> DEFINE f == [i \in 0 .. n |-> IF i < start THEN 0 ELSE Offset(name, from(i))]
  <2>1. \A i \in 0 .. n : f[i] = IF i < start THEN 0 ELSE Offset(name, from(i))
    OBVIOUS
  <2>2. f = [i \in 0 .. n |-> f[i]]
    OBVIOUS
  <2> HIDE DEF f
  <2>3. ASSUME NEW i \in 0 .. n, ~ (i < start), Skipped(name, i, f[i - 1])
        PROVE  f[i - 1] = Offset(name, from(i))
    <3>1. i - 1 \in 0 .. n /\ i \in 1 .. n
      BY <1>0, <2>3
    <3>2. f[i - 1] # 0 /\ i > 1 /\ Offset(from(i - 1), from(i)) > f[i - 1]
      BY <2>3 DEF Skipped
    <3>3. f[i - 1] = Offset(name, from(i - 1)) /\ i - 1 \in 1 .. n
      BY <2>1, <3>1, <3>2
    <3>4. from(i) \in Seq(Nat) /\ from(i - 1) \in Seq(Nat)
      BY <1>1, <3>1, <3>3
    <3>5. Offset(from(i - 1), from(i)) > Offset(name, from(i - 1))
      BY <3>2, <3>3
    <3> HIDE DEF from
    <3> QED  BY <1>0, <3>3, <3>4, <3>5, SkipIs
  <2>4. \A i \in 0 .. n : f[i] = Kept(f)[i]
    <3> TAKE i \in 0 .. n
    <3>1. f[i] = IF i < start THEN 0 ELSE Offset(name, regions[i].from)
      BY <2>1
    <3>2. Kept(f)[i] = IF i < start THEN 0
                       ELSE IF Skipped(name, i, f[i - 1]) THEN f[i - 1]
                       ELSE Offset(name, regions[i].from)
      OBVIOUS
    <3> HIDE DEF Kept
    <3> QED  BY <3>1, <3>2, <2>3
  <2>5. f = Kept(f)
    <3>1. Kept(f) = [i \in 0 .. n |-> Kept(f)[i]]
      OBVIOUS
    <3> HIDE DEF Kept
    <3> QED  BY <3>1, <2>2, <2>4
  <2> QED  BY <2>5
<1>5. off = Kept(off)
  <2> HIDE DEF Kept
  <2> QED  BY <1>4
<1>6. \A i \in 0 .. n : off[i] = IF i < start THEN 0
                                 ELSE IF Skipped(name, i, off[i - 1]) THEN off[i - 1]
                                 ELSE Offset(name, from(i))
  <2>1. \A i \in 0 .. n : off[i] = Kept(off)[i]
    <3> HIDE DEF Kept, off
    <3> QED  BY <1>5
  <2> HIDE DEF off
  <2> QED  BY <2>1
<1> HIDE DEF off, Kept
<1>7. \A i \in 0 .. n : \A v : Skipped(name, i, v) <=> v # 0 /\ i > 1 /\ Offset(from(i - 1), from(i)) > v
  BY DEF Skipped
<1>8. off[start - 1] = 0 /\ ~Skipped(name, start, off[start - 1]) /\ off[start] = Offset(name, from(start))
  <2>1. start - 1 \in 0 .. n /\ start - 1 < start /\ start \in 0 .. n /\ ~ (start < start)
    BY <1>0
  <2>2. off[start - 1] = 0
    BY <1>6, <2>1
  <2>3. ~Skipped(name, start, off[start - 1])
    BY <1>7, <2>1, <2>2
  <2> QED  BY <1>6, <2>1, <2>2, <2>3
<1> DEFINE T == {k \in Nat : start + k <= n => off[start + k] = Offset(name, from(start + k))}
<1>9. 0 \in T
  <2>1. start + 0 = start
    BY <1>0
  <2> QED  BY <1>8, <2>1
<1>10. ASSUME NEW k \in Nat, k \in T  PROVE k + 1 \in T
  <2> SUFFICES ASSUME start + (k + 1) <= n
               PROVE  off[start + (k + 1)] = Offset(name, from(start + (k + 1)))
    OBVIOUS
  <2> DEFINE i == start + (k + 1)
             j == start + k
  <2>1. i \in 0 .. n /\ i \in 1 .. n /\ i - 1 = j /\ ~ (i < start) /\ i > 1 /\ j \in 1 .. n /\ j <= n
    BY <1>0
  <2>2. off[j] = Offset(name, from(j))
    BY <1>10, <2>1
  <2> HIDE DEF i, j
  <2>3. off[i] = IF Skipped(name, i, off[j]) THEN off[j] ELSE Offset(name, from(i))
    BY <1>6, <2>1
  <2>4. ASSUME Skipped(name, i, off[j])  PROVE Offset(name, from(i)) = off[j]
    <3>1. Offset(from(j), from(i)) > Offset(name, from(j))
      BY <1>7, <2>1, <2>2, <2>4
    <3>2. from(i) \in Seq(Nat) /\ from(j) \in Seq(Nat)
      BY <1>1, <2>1
    <3> HIDE DEF from
    <3> QED  BY <3>1, <3>2, <1>0, <2>2, SkipIs
  <2>5. off[i] = Offset(name, from(i))
    BY <2>3, <2>4
  <2> QED  BY <2>5 DEF i
<1>11. \A i \in start .. n : off[i] = Offset(name, from(i))
  <2>1. Nat \subseteq T
    <3> HIDE DEF T
    <3> QED  BY <1>9, <1>10, InductionOn
  <2> TAKE i \in start .. n
  <2>2. i - start \in Nat /\ start + (i - start) = i /\ i <= n
    BY <1>0
  <2>3. i - start \in T
    BY <2>1, <2>2
  <2> QED  BY <2>2, <2>3
<1> HIDE DEF T
\* What is skipped is behind the name only if the region before is.
<1>12. ASSUME NEW i \in start .. n, Skipped(name, i, off[i - 1]), Less(name, from(i))
       PROVE  i - 1 \in start .. n /\ Less(name, from(i - 1))
  <2>1. i # start
    BY <1>8, <1>12
  <2>2. i - 1 \in start .. n /\ i \in 0 .. n /\ i \in 1 .. n /\ i - 1 \in 1 .. n
    BY <1>0, <2>1
  <2>3. Offset(from(i - 1), from(i)) > Offset(name, from(i - 1))
    BY <1>7, <1>11, <1>12, <2>2
  <2>4. from(i) \in Seq(Nat) /\ from(i - 1) \in Seq(Nat)
    BY <1>1, <2>2
  <2> HIDE DEF from
  <2>5. Less(name, from(i)) <=> Less(name, from(i - 1))
    BY <2>3, <2>4, <1>0, SkipIs
  <2> QED  BY <1>12, <2>2, <2>5
<1>13. PICK p \in 1 .. n : Holds(regions[p], name)
  BY <1>0, RegionOf DEF n
<1>14. ASSUME NEW i \in 1 .. n  PROVE Less(name, from(i)) <=> i > p
  <2>1. ~Less(name, from(p)) /\ Less(name, regions[p].to) /\ regions[p].to \in Seq(Nat)
        /\ from(p) \in Seq(Nat) /\ from(i) \in Seq(Nat)
    BY <1>13, RegionsAre DEF Holds, n
  <2>2. CASE i = p
    BY <2>1, <2>2
  <2>3. CASE i < p
    <3>1. Less(from(i), from(p))
      BY <2>3, <1>13, Ascends DEF n
    <3>2. ~Less(name, from(i))
      BY <3>1, <2>1, <1>0, LessOrder, LessTotal
    <3> QED  BY <3>2, <2>3, <1>0
  <2>4. CASE i > p
    <3>1. ~Less(from(i), regions[p].to)
      BY <2>4, <1>13, Ascends DEF n
    <3>2. Less(name, from(i))
      BY <3>1, <2>1, <1>0, LessOrder
    <3> QED  BY <3>2, <2>4
  <2> QED  BY <2>2, <2>3, <2>4, <1>0
<1>15. p >= start - 1
  <2>1. CASE start = 1
    BY <2>1, <1>0
  <2>2. CASE start # 1
    <3>1. start - 1 \in 1 .. n /\ ~Less(name, from(start - 1))
      BY <2>2, <1>0
    <3>2. ~ (start - 1 > p)
      BY <3>1, <1>14
    <3> QED  BY <3>1, <3>2, <1>0
  <2> QED  BY <2>1, <2>2
<1>16. ends = {} => p = n
  <2> SUFFICES ASSUME p # n  PROVE ends # {}
    OBVIOUS
  <2>1. p + 1 \in start .. n /\ p + 1 \in 1 .. n /\ p + 1 > p /\ ~ ((p + 1) - 1 > p) /\ (p + 1) - 1 = p
    BY <1>0, <1>15
  <2>2. Less(name, from(p + 1))
    BY <2>1, <1>14
  <2>3. ~Less(name, from(p))
    BY <1>0, <1>14
  <2>4. ~Skipped(name, p + 1, off[(p + 1) - 1])
    BY <1>12, <2>1, <2>2, <2>3
  <2>5. p + 1 \in ends
    BY <2>1, <2>2, <2>4
  <2> QED  BY <2>5
<1>17. ASSUME ends # {}  PROVE (CHOOSE i \in ends : \A j \in ends : i <= j) = p + 1
  <2>1. \A i \in ends : i \in 1 .. n /\ i > p
    BY <1>0, <1>14
  <2>2. p + 1 \in 1 .. n /\ p + 1 \in start .. n /\ p + 1 > p /\ (p + 1) - 1 = p
    <3>1. PICK i \in ends : TRUE
      BY <1>17
    <3>2. i \in 1 .. n /\ i > p
      BY <2>1
    <3> HIDE DEF ends
    <3> QED  BY <3>2, <1>0, <1>15
  <2>3. Less(name, from(p + 1)) /\ ~Less(name, from(p))
    BY <2>2, <1>0, <1>14
  <2>4. ~Skipped(name, p + 1, off[(p + 1) - 1])
    BY <1>12, <2>2, <2>3
  <2>5. p + 1 \in ends
    BY <2>2, <2>3, <2>4
  <2>6. \A i \in ends : p + 1 <= i
    BY <1>0, <2>1
  <2> DEFINE c == CHOOSE i \in ends : \A j \in ends : i <= j
  <2>7. c \in ends /\ \A j \in ends : c <= j
    <3> HIDE DEF ends
    <3> QED  BY <2>5, <2>6
  <2>8. c <= p + 1 /\ p + 1 <= c /\ c \in 1 .. n
    BY <2>1, <2>5, <2>6, <2>7
  <2> HIDE DEF c, ends
  <2>9. c = p + 1
    BY <2>8, <1>0
  <2> QED  BY <2>9 DEF c
<1>18. SearchFrom(name, start) = p
  <2>1. (p + 1) - 1 = p
    BY <1>0
  <2> HIDE DEF ends
  <2> QED  BY <1>3, <1>16, <1>17, <2>1
<1> QED  BY <1>13, <1>18 DEF n

\* A lookup begins at a region that is not behind the name, and finds its region.
LEMMA FindIs ==
    ASSUME SideBySide(regions), CacheOK, NEW name, BelowIso(name)
    PROVE  /\ FindPrev(name) \in 1 .. Len(regions) /\ Holds(regions[FindPrev(name)], name)
           /\ Find(name) = FindPrev(name)
           /\ CacheEntry(name) # 0 => CacheEntry(name) \in 1 .. Len(cache)
<1> DEFINE n == Len(regions)
           usable == {i \in DOMAIN cache : ~Less(name, regions[cache[i]].from)}
           e == CacheEntry(name)
           start == IF e = 0 THEN 1 ELSE cache[e] + 1
<1>1. /\ n \in Nat /\ n > 0 /\ DOMAIN cache = 1 .. Len(cache) /\ Len(cache) \in Nat
      /\ \A i \in 1 .. Len(cache) : cache[i] \in 1 .. n - 1
  BY DEF SideBySide, CacheOK
<1>2. e = IF cacheSize = 0 \/ usable = {} THEN 0
          ELSE CHOOSE i \in usable : \A j \in usable : j <= i
  BY DEF CacheEntry
<1>3. usable # {} => \E i \in usable : \A j \in usable : j <= i
  <2>1. usable \subseteq 0 .. Len(cache)
    BY <1>1
  <2> HIDE DEF usable
  <2> QED  BY <1>1, <2>1, GreatestOf
<1>4. e # 0 => e \in usable
  <2> HIDE DEF usable, e
  <2> QED  BY <1>2, <1>3
<1> HIDE DEF e
<1>5. e # 0 => e \in 1 .. Len(cache) /\ ~Less(name, regions[cache[e]].from)
  BY <1>1, <1>4
<1>6. start \in 1 .. n /\ (start = 1 \/ ~Less(name, regions[start - 1].from))
  <2>1. CASE e = 0
    BY <1>1, <2>1
  <2>2. CASE e # 0
    <3>1. cache[e] \in 1 .. n - 1 /\ start = cache[e] + 1 /\ (cache[e] + 1) - 1 = cache[e]
      BY <1>1, <1>5, <2>2
    <3>2. start \in 1 .. n /\ start - 1 = cache[e]
      BY <1>1, <3>1
    <3> QED  BY <1>5, <2>2, <3>2
  <2> QED  BY <2>1, <2>2
<1>7. FindPrev(name) = SearchFrom(name, start)
  BY DEF FindPrev, e
<1> HIDE DEF start, n
<1>8. FindPrev(name) \in 1 .. n /\ Holds(regions[FindPrev(name)], name)
  BY <1>6, <1>7, RegistrySearch DEF n
<1>9. Find(name) = FindPrev(name)
  <2>1. Less(name, regions[FindPrev(name)].to) /\ FindPrev(name) # 0
    BY <1>1, <1>8 DEF Holds
  <2> QED  BY <2>1 DEF Find
<1> QED  BY <1>5, <1>8, <1>9 DEF n, e

\* The region of an OID gives it to the registration with the first claim.
LEMMA FirstClaimIs ==
    ASSUME SideBySide(regions), LiveOK(live), Stacked(regions, live), NEW name \in Seq(Nat),
           NEW p \in 1 .. Len(regions), Holds(regions[p], name)
    PROVE  regions[p].stack[1] = FirstClaim(name)
<1> DEFINE s == regions[p].stack
           Foremost(r) == \A t \in Claims(name) : r = t \/ Outranks(r, t)
<1>1. /\ regions[p] \in Region /\ s \in Seq(Regs) /\ StackOK(regions[p], live) /\ live \subseteq Regs
      /\ Spans(Root, regions[p].from) /\ Root \in live
  BY RegionsAre, InRoot DEF Stacked, LiveOK
<1>2. \A r \in live : IsPrefix(r.name, name) <=> \E q \in 1 .. Len(s) : s[q] = r
  BY <1>1, SpansIs
<1>3. (\A q \in 1 .. Len(s) : s[q] \in live) /\ Ordered(s)
  BY <1>1 DEF StackOK
<1>4. \A r \in live : Spans(r, regions[p].from) => \E q \in 1 .. Len(s) : s[q] = r
  BY <1>1 DEF StackOK
<1> HIDE DEF s
<1>5. Claims(name) = {r \in live : \E q \in 1 .. Len(s) : s[q] = r}
  BY <1>2 DEF Claims
<1>6. 1 \in 1 .. Len(s)
  <2>1. PICK q \in 1 .. Len(s) : s[q] = Root
    BY <1>1, <1>4
  <2> QED  BY <1>1, <2>1
<1>7. s[1] \in Claims(name) /\ Foremost(s[1])
  <2>1. s[1] \in Claims(name)
    BY <1>3, <1>5, <1>6
  <2>2. ASSUME NEW t \in Claims(name)  PROVE s[1] = t \/ Outranks(s[1], t)
    <3>1. PICK q \in 1 .. Len(s) : s[q] = t
      BY <1>5
    <3>2. q = 1 \/ 1 < q
      BY <1>1, <3>1
    <3> QED  BY <1>3, <1>6, <3>1, <3>2 DEF Ordered
  <2> QED  BY <2>1, <2>2
<1>8. ASSUME NEW r \in Claims(name), Foremost(r)  PROVE r = s[1]
  <2>1. r \in Regs /\ s[1] \in Regs
    BY <1>1, <1>3, <1>5, <1>6
  <2>2. (r = s[1] \/ Outranks(r, s[1])) /\ (s[1] = r \/ Outranks(s[1], r))
    BY <1>7, <1>8
  <2> QED  BY <2>1, <2>2, OutranksIs
<1>9. FirstClaim(name) = CHOOSE r \in Claims(name) : Foremost(r)
  BY DEF FirstClaim
<1> HIDE DEF Foremost
<1>10. FirstClaim(name) = s[1]
  <2>1. FirstClaim(name) \in Claims(name) /\ Foremost(FirstClaim(name))
    BY <1>7, <1>9
  <2> QED  BY <2>1, <1>8
<1> QED  BY <1>10 DEF s

\* The invariant holds in the initial state, and every step keeps it.
LEMMA RegistryInitInv == RegistryInit => RegistryInv
<1> SUFFICES ASSUME RegistryInit  PROVE RegistryInv
  OBVIOUS
<1> DEFINE one == <<1>>
           two == <<2>>
           st == <<Root>>
           region == [from |-> one, to |-> two, stack |-> st]
<1>1. /\ regions = <<region>> /\ cache = <<>> /\ slot = 0 /\ cacheSize = CacheSize /\ live = {Root}
  BY DEF RegistryInit
<1>2. one \in Bounds /\ two \in Bounds /\ one \in Seq(Nat) /\ End(one) = two /\ two \in Seq(Nat)
      /\ Less(one, two) /\ ~Less(one, one) /\ ~Less(two, two)
  BY RootIs, LessTotal DEF Bounds
<1>3. Root.name = one /\ Root \in Regs
  BY DEF Root, Reg, Regs
<1>4. st \in Seq(Regs) /\ Len(st) = 1 /\ st[1] = Root
  BY <1>3
<1> HIDE DEF one, two, st
<1>5. region \in Region /\ region.from = one /\ region.to = two /\ region.stack = st
  BY <1>2, <1>4 DEF Region
<1> HIDE DEF region
<1>6. regions \in Seq(Region) /\ Len(regions) = 1 /\ regions[1] = region
  BY <1>1, <1>5
<1>7. SideBySide(regions)
  <2>1. \A p \in 1 .. 1 : p = 1
    OBVIOUS
  <2>2. 1 .. 1 - 1 = {}
    OBVIOUS
  <2> QED  BY <1>2, <1>5, <1>6, <2>1, <2>2 DEF SideBySide, one, two
<1>8. StackOK(region, {Root})
  <2>1. Spans(Root, one)
    BY <1>2, <1>3 DEF Spans
  <2>2. ~Cuts(one, region) /\ ~Cuts(two, region)
    BY <1>2, <1>5 DEF Cuts
  <2>3. \A p \in 1 .. 1 : p = 1
    OBVIOUS
  <2>4. Ordered(st)
    <3> SUFFICES ASSUME NEW p \in 1 .. 1, NEW q \in 1 .. 1, p < q  PROVE FALSE
      BY <1>4 DEF Ordered
    <3> QED  OBVIOUS
  <2>5. \A p \in 1 .. Len(st) : st[p] = Root
    BY <1>4, <2>3
  <2>6. 1 \in 1 .. Len(st)
    BY <1>4
  <2> QED  BY <1>2, <1>3, <1>4, <1>5, <2>1, <2>2, <2>4, <2>5, <2>6 DEF StackOK
<1>9. Stacked(regions, live)
  <2>1. \A p \in 1 .. Len(regions) : regions[p] = region
    BY <1>6
  <2> QED  BY <1>1, <1>8, <2>1 DEF Stacked
<1>10. LiveOK(live)
  BY <1>1, <1>3 DEF LiveOK
<1>11. CacheOK
  BY <1>1, RegistryAssumption DEF CacheOK
<1> QED  BY <1>7, <1>9, <1>10, <1>11 DEF RegistryInv

LEMMA LookupKeeps ==
    ASSUME RegistryInv, NEW name \in Probes, Lookup(name)
    PROVE  RegistryInv'
<1> DEFINE e == CacheEntry(name)
           i == FindPrev(name)
<1>1. BelowIso(name)
  BY RegistryAssumption
<1>2. /\ i \in 1 .. Len(regions) /\ (e # 0 => e \in 1 .. Len(cache))
      /\ Len(regions) \in Nat
  BY <1>1, FindIs DEF RegistryInv, SideBySide
<1>3. /\ regions' = regions /\ cacheSize' = cacheSize /\ live' = live
  BY DEF Lookup
<1>4. \/ cache' = cache /\ slot' = slot
      \/ i # Len(regions) /\ e # 0 /\ cache' = [cache EXCEPT ![e] = i] /\ slot' = slot
      \/ /\ i # Len(regions) /\ cacheSize # 0 /\ slot' = (slot + 1) % cacheSize
         /\ cache' = IF slot + 1 > Len(cache) THEN Append(cache, i) ELSE [cache EXCEPT ![slot + 1] = i]
  <2> HIDE DEF e, i
  <2> QED  BY DEF Lookup, Cached, e, i
<1>5. /\ cacheSize \in Nat /\ slot \in Nat /\ cache \in Seq(Nat)
      /\ \A p \in 1 .. Len(cache) : cache[p] \in 1 .. Len(regions) - 1
  BY DEF RegistryInv, CacheOK
<1> HIDE DEF e, i
<1>6. cacheSize # 0 => (slot + 1) % cacheSize \in Nat
  BY <1>5
<1>7. slot' \in Nat /\ cache' \in Seq(Nat)
      /\ \A p \in 1 .. Len(cache') : cache'[p] \in 1 .. Len(regions) - 1
  <2>1. CASE cache' = cache /\ slot' = slot
    BY <2>1, <1>5
  <2>2. CASE i # Len(regions) /\ e # 0 /\ cache' = [cache EXCEPT ![e] = i] /\ slot' = slot
    <3>1. i \in 1 .. Len(regions) - 1 /\ e \in 1 .. Len(cache) /\ i \in Nat
      BY <1>2, <2>2
    <3>2. cache' \in Seq(Nat) /\ Len(cache') = Len(cache) /\ cache'[e] = i
          /\ \A p \in 1 .. Len(cache) : p # e => cache'[p] = cache[p]
      BY <2>2, <3>1, <1>5
    <3> QED  BY <2>2, <3>1, <3>2, <1>5
  <2>3. CASE i # Len(regions) /\ cacheSize # 0 /\ slot' = (slot + 1) % cacheSize
             /\ slot + 1 > Len(cache) /\ cache' = Append(cache, i)
    <3>1. i \in 1 .. Len(regions) - 1 /\ i \in Nat
      BY <1>2, <2>3
    <3>2. cache' \in Seq(Nat) /\ Len(cache') = Len(cache) + 1 /\ cache'[Len(cache) + 1] = i
          /\ \A p \in 1 .. Len(cache) : cache'[p] = cache[p]
      BY <2>3, <3>1, <1>5
    <3>3. Len(cache) \in Nat
      BY <1>5
    <3> QED  BY <2>3, <3>1, <3>2, <3>3, <1>5, <1>6
  <2>4. CASE i # Len(regions) /\ cacheSize # 0 /\ slot' = (slot + 1) % cacheSize
             /\ ~(slot + 1 > Len(cache)) /\ cache' = [cache EXCEPT ![slot + 1] = i]
    <3>1. i \in 1 .. Len(regions) - 1 /\ i \in Nat /\ slot + 1 \in 1 .. Len(cache)
      BY <1>2, <1>5, <2>4
    <3>2. cache' \in Seq(Nat) /\ Len(cache') = Len(cache) /\ cache'[slot + 1] = i
          /\ \A p \in 1 .. Len(cache) : p # slot + 1 => cache'[p] = cache[p]
      BY <2>4, <3>1, <1>5
    <3> QED  BY <2>4, <3>1, <3>2, <1>5, <1>6
  <2> QED  BY <1>4, <2>1, <2>2, <2>3, <2>4
<1>8. CacheOK'
  BY <1>3, <1>5, <1>7 DEF CacheOK
<1> QED  BY <1>3, <1>8 DEF RegistryInv, SideBySide, Stacked, StackOK, LiveOK

\* A new registration and the ones there were.
LEMMA LiveMore ==
    ASSUME NEW regs, LiveOK(regs), NEW new, new \subseteq Regs,
           \A r \in regs, t \in new : ~(r.name = t.name /\ r.priority = t.priority),
           \A r, t \in new : r.name = t.name /\ r.priority = t.priority => r = t
    PROVE  LiveOK(regs \cup new)
BY DEF LiveOK

LEMMA CacheReset ==
    ASSUME cacheSize' \in Nat, Invalidated
    PROVE  CacheOK'
<1>1. cache' = <<>> /\ slot' = 0
  BY DEF Invalidated
<1> QED  BY <1>1 DEF CacheOK

LEMMA RegisterKeeps ==
    ASSUME RegistryInv, NEW name \in Registrable, NEW p \in Priorities, NEW s \in Sessions,
           Register(name, p, s)
    PROVE  RegistryInv'
<1> DEFINE reg == Reg(name, p, s)
           c == RegionAt(regions, name)
           cut == Split(regions, name)
<1>1. /\ SideBySide(regions) /\ Stacked(regions, live) /\ LiveOK(live) /\ cacheSize \in Nat
      /\ live \subseteq Regs
  BY DEF RegistryInv, CacheOK, LiveOK
<1>2. name \in Possible /\ reg \in Regs /\ reg.name = name /\ reg.priority = p
  BY RegistryAssumption DEF Possible, Reg, Regs
<1>3. name \in Seq(Nat) /\ name \in Bounds /\ Less(name, End(name)) /\ ~Less(name, name)
  BY <1>2, RegIs, LessTotal
<1>4. CacheOK'
  <2>1. cacheSize' = cacheSize /\ Invalidated
    BY DEF Register
  <2> QED  BY <1>1, <2>1, CacheReset
<1>5. Pieces(cut, regions) /\ \E q \in 1 .. Len(cut) : c = cut[q] /\ cut[q].from = name
  BY <1>1, <1>2, RegionAtIs
<1>6. SideBySide(cut) /\ Stacked(cut, live)
  <2>1. SideBySide(cut)
    BY <1>5 DEF Pieces
  <2> QED  BY <1>1, <1>5, <2>1, PiecesKeep
<1> HIDE DEF reg, cut, c
<1>7. CASE Duplicate(c.stack, reg)
  <2>1. regions' = cut /\ live' = live
    BY <1>7 DEF Register, reg, c, cut
  <2>2. SideBySide(regions)' /\ Stacked(regions, live)' /\ LiveOK(live)'
    BY <1>1, <1>6, <2>1 DEF SideBySide, Stacked, StackOK, LiveOK
  <2> QED  BY <1>4, <2>2 DEF RegistryInv
<1>8. CASE ~Duplicate(c.stack, reg)
  <2>1. regions' = Load(regions, reg, name, End(name)) /\ live' = live \cup {reg}
    BY <1>8 DEF Register, reg, c, cut
  <2>2. ASSUME NEW t \in live, IsReg(t, name, p)  PROVE FALSE
    <3>1. PICK q \in 1 .. Len(cut) : c = cut[q] /\ cut[q].from = name
      BY <1>5
    <3>2. StackOK(c, live) /\ c.from = name /\ c.stack \in Seq(Regs)
      BY <1>6, <3>1, RegionsAre DEF Stacked
    <3>3. t.name = name /\ t.priority = p
      BY <2>2 DEF IsReg
    <3>4. Spans(t, c.from)
      BY <1>3, <3>2, <3>3 DEF Spans
    <3>5. PICK a \in 1 .. Len(c.stack) : c.stack[a] = t
      BY <3>2, <3>4 DEF StackOK
    <3>6. a \in DOMAIN c.stack
      BY <3>2, <3>5
    <3> QED  BY <1>2, <1>8, <3>3, <3>5, <3>6 DEF Duplicate
  <2>3. SideBySide(regions') /\ Stacked(regions', live')
    <3> DEFINE new == Load(regions, reg, reg.name, End(reg.name))
    <3>1. \A t \in live : ~IsReg(t, reg.name, reg.priority)
      BY <1>2, <2>2
    <3>2. SideBySide(new) /\ Stacked(new, live \cup {reg})
      BY <1>1, <1>2, <3>1, LoadIs
    <3>3. regions' = new
      BY <1>2, <2>1
    <3> HIDE DEF new
    <3> QED  BY <2>1, <3>2, <3>3
  <2>4. LiveOK(live')
    <3> DEFINE one == {reg}
    <3>1. /\ one \subseteq Regs
          /\ \A r \in live, t \in one : ~(r.name = t.name /\ r.priority = t.priority)
          /\ \A r, t \in one : r = t
      BY <1>2, <2>2 DEF IsReg
    <3> HIDE DEF one
    <3>2. LiveOK(live \cup one)
      BY <1>1, <3>1, LiveMore
    <3> QED  BY <2>1, <3>2 DEF one
  <2>5. SideBySide(regions)' /\ Stacked(regions, live)' /\ LiveOK(live)'
    BY <2>3, <2>4 DEF SideBySide, Stacked, StackOK, LiveOK
  <2> QED  BY <1>4, <2>5 DEF RegistryInv
<1> QED  BY <1>7, <1>8

LEMMA UnregisterKeeps ==
    ASSUME RegistryInv, NEW name \in Registrable, NEW p \in Priorities, Unregister(name, p)
    PROVE  RegistryInv'
<1>1. /\ SideBySide(regions) /\ Stacked(regions, live) /\ LiveOK(live) /\ CacheOK
      /\ cacheSize \in Nat
  BY DEF RegistryInv, CacheOK
<1>2. live' = Without(live, name, p)
  BY DEF Unregister, Without
<1>3. CASE Registered(regions, name, p)
  <2>1. regions' = Unload(regions, name, p) /\ Invalidated /\ cacheSize' = cacheSize
    BY <1>3 DEF Unregister
  <2>2. PICK t \in live : IsReg(t, name, p)
    BY <1>1, <1>3, RegisteredIs
  <2>3. t.name = name /\ t.priority = p
    BY <2>2 DEF IsReg
  <2>4. t # Root
    <3> DEFINE one == <<1>>
    <3>1. BelowIso(name)
      BY RegistryAssumption
    <3>2. Len(name) > 1 /\ Len(one) = 1 /\ Root.name = one
      BY <3>1 DEF BelowIso, Root, Reg
    <3> HIDE DEF one
    <3> SUFFICES ASSUME t = Root  PROVE FALSE
      OBVIOUS
    <3>3. name = one
      BY <2>3, <3>2
    <3> QED  BY <3>2, <3>3
  <2>5. SideBySide(regions') /\ Stacked(regions', live') /\ LiveOK(live')
    <3>1. /\ SideBySide(Unload(regions, t.name, t.priority))
          /\ Stacked(Unload(regions, t.name, t.priority), Without(live, t.name, t.priority))
          /\ LiveOK(Without(live, t.name, t.priority))
      BY <1>1, <2>4, UnloadIs
    <3> QED  BY <3>1, <1>2, <2>1, <2>3
  <2>6. SideBySide(regions)' /\ Stacked(regions, live)' /\ LiveOK(live)'
    BY <2>5 DEF SideBySide, Stacked, StackOK, LiveOK
  <2>7. CacheOK'
    BY <1>1, <2>1, CacheReset
  <2> QED  BY <2>6, <2>7 DEF RegistryInv
<1>4. CASE ~Registered(regions, name, p)
  <2>1. regions' = regions /\ cache' = cache /\ slot' = slot /\ cacheSize' = 0
    BY <1>4 DEF Unregister
  <2>2. ASSUME NEW t \in live, IsReg(t, name, p)  PROVE FALSE
    <3>1. Registered(regions, t.name, t.priority)
      BY <1>1, IsRegistered
    <3> QED  BY <1>4, <2>2, <3>1 DEF IsReg
  <2>3. live' = live
    BY <1>2, <2>2 DEF Without
  <2>4. CacheOK'
    BY <1>1, <2>1 DEF CacheOK
  <2>5. SideBySide(regions)' /\ Stacked(regions, live)' /\ LiveOK(live)'
    BY <1>1, <2>1, <2>3 DEF SideBySide, Stacked, StackOK, LiveOK
  <2> QED  BY <2>4, <2>5 DEF RegistryInv
<1> QED  BY <1>3, <1>4

LEMMA RegisterRangeKeeps ==
    ASSUME RangesAreClear, RegistryInv, NEW r \in Ranges, NEW p \in Priorities, NEW s \in Sessions,
           RegisterRange(r, p, s), ~Tangles(r, p, s)
    PROVE  RegistryInv'
<1> DEFINE new == RangeRegistrations(r, p, s, r.ubound)
<1>1. /\ SideBySide(regions) /\ Stacked(regions, live) /\ LiveOK(live) /\ cacheSize \in Nat
      /\ live \subseteq Regs
  BY DEF RegistryInv, CacheOK, LiveOK
<1>2. /\ regions' = RangeLoad(r, p, s, r.ubound - Lowest(r))
      /\ live' = live \cup new
      /\ Invalidated /\ cacheSize' = cacheSize
      /\ \A i \in DOMAIN regions : \A j \in DOMAIN regions[i].stack :
             Len(regions[i].stack[j].name) = Len(r.name) => regions[i].stack[j].priority # p
  BY DEF RegisterRange, NoDuplicate, RangeRegistrations
<1>3. \A t \in live : ~(Len(t.name) = Len(r.name) /\ t.priority = p)
  <2> TAKE t \in live
  <2>1. PICK q \in 1 .. Len(regions) : \E a \in 1 .. Len(regions[q].stack) : regions[q].stack[a] = t
    BY <1>1, StackOf
  <2>2. PICK a \in 1 .. Len(regions[q].stack) : regions[q].stack[a] = t
    BY <2>1
  <2>3. q \in DOMAIN regions /\ regions[q].stack \in Seq(Regs)
    BY <1>1, RegionsAre DEF SideBySide
  <2>4. a \in DOMAIN regions[q].stack
    BY <2>2, <2>3
  <2> QED  BY <1>2, <2>2, <2>3, <2>4
<1>4. SideBySide(regions') /\ Stacked(regions', live')
  <2> DEFINE list == RangeLoad(r, p, s, r.ubound - Lowest(r))
  <2>1. SideBySide(list) /\ Stacked(list, live \cup new)
    BY <1>1, <1>3, RangeLoadIs
  <2>2. regions' = list
    BY <1>2
  <2> HIDE DEF list, new
  <2> QED  BY <1>2, <2>1, <2>2
<1>5. LiveOK(live')
  <2>1. new \subseteq Regs
    BY RangeRegs DEF RangeRegistrations
  <2>2. ASSUME NEW t \in new
        PROVE  \E i \in Nat : t.name = Element(r, i) /\ t = Reg(Element(r, i), p, s)
               /\ t.priority = p /\ Len(t.name) = Len(r.name)
    <3>1. PICK i \in Lowest(r) .. r.ubound : t = Reg(Element(r, i), p, s)
      BY DEF RangeRegistrations
    <3>2. i \in Nat
      BY ElementPossible
    <3> QED  BY <3>1, <3>2, ElementIs DEF Reg
  <2>3. \A a \in live, t \in new : ~(a.name = t.name /\ a.priority = t.priority)
    BY <1>3, <2>2
  <2>4. \A a, t \in new : a.name = t.name /\ a.priority = t.priority => a = t
    BY <2>2
  <2> HIDE DEF new
  <2> QED  BY <1>1, <1>2, <2>1, <2>3, <2>4, LiveMore
<1>6. CacheOK'
  BY <1>1, <1>2, CacheReset
<1>7. SideBySide(regions)' /\ Stacked(regions, live)' /\ LiveOK(live)'
  BY <1>4, <1>5 DEF SideBySide, Stacked, StackOK, LiveOK
<1> QED  BY <1>6, <1>7 DEF RegistryInv

LEMMA UnregisterRangeKeeps ==
    ASSUME RangesAreClear, RegistryInv, NEW r \in Ranges, NEW p \in Priorities, UnregisterRange(r, p)
    PROVE  RegistryInv'
<1> DEFINE m == Rounds(r)
           R == RangeUnload(r, p)
<1>1. /\ SideBySide(regions) /\ Stacked(regions, live) /\ LiveOK(live) /\ cacheSize \in Nat
  BY DEF RegistryInv, CacheOK
<1>2. /\ Missing(r, p) = {} /\ regions' = R[m] /\ live' = WithoutRange(r, p, r.ubound)
      /\ Invalidated /\ cacheSize' = cacheSize
  BY DEF UnregisterRange
<1>3. m \in Nat
  BY <1>1, RoundsAre
<1>4. m \in 0 .. Rounds(r) /\ \A j \in 1 .. m : j \notin Missing(r, p)
  BY <1>2, <1>3
<1> HIDE DEF m
<1>5. /\ Rounds(r) = r.ubound
      /\ SideBySide(R[m]) /\ LiveOK(WithoutRange(r, p, m)) /\ Stacked(R[m], WithoutRange(r, p, m))
  BY <1>1, <1>4, RangeUnloadIs
<1> HIDE DEF R
<1>6. SideBySide(regions') /\ Stacked(regions', live') /\ LiveOK(live')
  BY <1>2, <1>5 DEF m
<1>7. CacheOK'
  BY <1>1, <1>2, CacheReset
<1>8. SideBySide(regions)' /\ Stacked(regions, live)' /\ LiveOK(live)'
  BY <1>6 DEF SideBySide, Stacked, StackOK, LiveOK
<1> QED  BY <1>7, <1>8 DEF RegistryInv

LEMMA UnregisterRangeInPartKeeps ==
    ASSUME RangesAreClear, RegistryInv, NEW r \in Ranges, NEW p \in Priorities,
           UnregisterRangeInPart(r, p)
    PROVE  RegistryInv'
<1> DEFINE R == RangeUnload(r, p)
<1>1. /\ SideBySide(regions) /\ Stacked(regions, live) /\ LiveOK(live) /\ CacheOK
      /\ cacheSize \in Nat
  BY DEF RegistryInv, CacheOK
<1>2. PICK k \in Missing(r, p) :
           /\ \A j \in Missing(r, p) : k <= j
           /\ regions' = R[k - 1]
           /\ live' = WithoutRange(r, p, Lowest(r) + k - 2)
           /\ IF k = 1 THEN UNCHANGED <<cache, slot>> ELSE Invalidated
           /\ cacheSize' = 0
  BY DEF UnregisterRangeInPart
<1>3. k \in 1 .. Rounds(r) /\ Rounds(r) \in Nat
  BY <1>1, RoundsAre DEF Missing
<1> DEFINE i == k - 1
<1>4. i \in 0 .. Rounds(r) /\ \A j \in 1 .. i : j \notin Missing(r, p)
  <2>1. \A j \in 1 .. i : ~ (k <= j)
    BY <1>3
  <2> QED  BY <1>2, <1>3, <2>1
<1> HIDE DEF i
<1>5. /\ Lowest(r) = 1 /\ R[0] = regions
      /\ SideBySide(R[i]) /\ LiveOK(WithoutRange(r, p, i)) /\ Stacked(R[i], WithoutRange(r, p, i))
  BY <1>1, <1>4, RangeUnloadIs
<1> HIDE DEF R
<1>6. Lowest(r) + k - 2 = i
  BY <1>3, <1>5 DEF i
<1>7. SideBySide(regions') /\ Stacked(regions', live') /\ LiveOK(live')
  BY <1>2, <1>5, <1>6 DEF i
<1>8. CacheOK'
  <2>1. CASE k = 1
    <3>1. i = 0
      BY <2>1 DEF i
    <3>2. regions' = regions /\ cache' = cache /\ slot' = slot /\ cacheSize' = 0
      BY <1>2, <1>5, <2>1, <3>1 DEF i
    <3> QED  BY <1>1, <3>2 DEF CacheOK
  <2>2. CASE k # 1
    BY <1>2, <2>2, CacheReset
  <2> QED  BY <2>1, <2>2
<1>9. SideBySide(regions)' /\ Stacked(regions, live)' /\ LiveOK(live)'
  BY <1>7 DEF SideBySide, Stacked, StackOK, LiveOK
<1> QED  BY <1>8, <1>9 DEF RegistryInv

LEMMA UnregisterSessionKeeps ==
    ASSUME RegistryInv, NEW session \in Sessions, UnregisterSession(session)
    PROVE  RegistryInv'
<1> DEFINE n == Len(regions)
           places(i) == {j \in DOMAIN regions[i].stack : regions[i].stack[j].session # session}
           new == [i \in DOMAIN regions |->
                      LET stack == regions[i].stack
                      IN  [regions[i] EXCEPT !.stack =
                              Chosen(stack, {j \in DOMAIN stack : stack[j].session # session})]]
           keep == {r \in live : r.session # session}
<1>1. /\ SideBySide(regions) /\ Stacked(regions, live) /\ LiveOK(live) /\ CacheOK
      /\ cacheSize \in Nat /\ live \subseteq Regs /\ Root \in live /\ DOMAIN regions = 1 .. n
  <2>1. DOMAIN regions = 1 .. n
    BY DEF RegistryInv, SideBySide
  <2> QED  BY <2>1 DEF RegistryInv, CacheOK, LiveOK
<1>2. /\ regions' = Nonempty(new) /\ live' = keep /\ cacheSize' = cacheSize
      /\ IF regions' = regions THEN UNCHANGED <<cache, slot>> ELSE Invalidated
  BY DEF UnregisterSession
<1>3. keep \subseteq live /\ Root \in keep /\ LiveOK(keep)
  <2>1. Root \in keep
    BY <1>1, RegistryAssumption DEF Root, Reg
  <2> QED  BY <1>1, <2>1 DEF LiveOK
<1>4. new = [i \in 1 .. n |-> [regions[i] EXCEPT !.stack = Chosen(regions[i].stack, places(i))]]
  BY <1>1
<1> HIDE DEF new, n, keep
<1>5. ASSUME NEW i \in 1 .. n
      PROVE  /\ new[i] \in Region /\ new[i].from = regions[i].from /\ new[i].to = regions[i].to
             /\ Keeps(new[i].stack, regions[i].stack, keep)
  <2> DEFINE s == regions[i].stack
             P == places(i)
             c == Chosen(s, P)
  <2>1. regions[i] \in Region /\ s \in Seq(Regs) /\ Ordered(s) /\ \A q \in 1 .. Len(s) : s[q] \in live
    BY <1>1, RegionsAre DEF Stacked, StackOK, n
  <2>2. \A q \in 1 .. Len(s) : q \in P <=> s[q] \in keep
    <3>1. DOMAIN s = 1 .. Len(s)
      <4> HIDE DEF s
      <4> QED  BY <2>1
    <3>2. P = {j \in 1 .. Len(s) : s[j].session # session}
      BY <3>1
    <3> HIDE DEF P, s
    <3> QED  BY <2>1, <3>2 DEF keep
  <2>3. new[i] = [regions[i] EXCEPT !.stack = c]
    BY <1>4
  <2> HIDE DEF P, s
  <2>4. Keeps(c, s, keep)
    BY <2>1, <2>2, ChosenKeeps
  <2>5. c \in Seq(Regs)
    BY <2>4 DEF Keeps
  <2> HIDE DEF c
  <2>6. new[i] \in Region /\ new[i].from = regions[i].from /\ new[i].to = regions[i].to
        /\ new[i].stack = c
    BY <2>1, <2>3, <2>5 DEF Region
  <2> QED  BY <2>4, <2>6 DEF s
<1>6. DOMAIN new = 1 .. n /\ new = [i \in 1 .. n |-> new[i]]
  BY <1>4
<1>7. Nonempty(new) = new /\ SideBySide(new) /\ Stacked(new, keep)
  BY <1>1, <1>3, <1>5, <1>6, DropIs DEF n
<1>8. SideBySide(regions') /\ Stacked(regions', live') /\ LiveOK(live')
  BY <1>2, <1>3, <1>7
<1>9. CacheOK'
  <2>1. CASE regions' = regions
    BY <1>1, <1>2, <2>1 DEF CacheOK
  <2>2. CASE regions' # regions
    BY <1>1, <1>2, <2>2, CacheReset
  <2> QED  BY <2>1, <2>2
<1>10. SideBySide(regions)' /\ Stacked(regions, live)' /\ LiveOK(live)'
  BY <1>8 DEF SideBySide, Stacked, StackOK, LiveOK
<1> QED  BY <1>9, <1>10 DEF RegistryInv

\* The regions lie side by side without a gap from 1 to 2, each with the
\* registrations that span it in the order of their claims, whatever the agent
\* registers, unregisters and looks up, in any order and below later subtrees of a
\* range too: until the copy of a range's first subtree goes on behind the region
\* where it begins, and the code splits it with the links of that subtree.
THEOREM RegistryInvariant ==
    ASSUME RangesAreClear  PROVE RegistrySpec => [](~tangled => RegistryInv)
<1>1. RegistryInit => RegistryInv
  BY RegistryInitInv
<1>2. (~tangled => RegistryInv) /\ [RegistryNext]_registryVars => (~tangled => RegistryInv)'
  <2> SUFFICES ASSUME ~tangled => RegistryInv, [RegistryNext]_registryVars, ~tangled'
               PROVE  RegistryInv'
    OBVIOUS
  <2>0. ~tangled /\ RegistryInv
    BY DEF RegistryNext, registryVars
  <2>1. CASE UNCHANGED registryVars
    BY <2>0, <2>1 DEF registryVars, RegistryInv, SideBySide, Stacked, StackOK, LiveOK, CacheOK
  <2>2. ASSUME NEW n \in Probes, Lookup(n)  PROVE RegistryInv'
    BY <2>0, <2>2, LookupKeeps
  <2>3. ASSUME NEW n \in Registrable, NEW p \in Priorities, NEW s \in Sessions, Register(n, p, s)
        PROVE  RegistryInv'
    BY <2>0, <2>3, RegisterKeeps
  <2>4. ASSUME NEW n \in Registrable, NEW p \in Priorities, Unregister(n, p)  PROVE RegistryInv'
    BY <2>0, <2>4, UnregisterKeeps
  <2>5. ASSUME NEW r \in Ranges, NEW p \in Priorities, NEW s \in Sessions, RegisterRange(r, p, s)
        PROVE  RegistryInv'
    <3>1. ~Tangles(r, p, s)
      BY <2>5 DEF RegisterRange
    <3> QED  BY <2>0, <2>5, <3>1, RegisterRangeKeeps
  <2>6. ASSUME NEW r \in Ranges, NEW p \in Priorities, UnregisterRange(r, p)  PROVE RegistryInv'
    BY <2>0, <2>6, UnregisterRangeKeeps
  <2>7. ASSUME NEW r \in Ranges, NEW p \in Priorities, UnregisterRangeInPart(r, p)  PROVE RegistryInv'
    BY <2>0, <2>7, UnregisterRangeInPartKeeps
  <2>8. ASSUME NEW s \in Sessions, UnregisterSession(s)  PROVE RegistryInv'
    BY <2>0, <2>8, UnregisterSessionKeeps
  <2> QED  BY <2>1, <2>2, <2>3, <2>4, <2>5, <2>6, <2>7, <2>8 DEF RegistryNext
<1> QED  BY <1>1, <1>2, PTL DEF RegistrySpec

\* Whatever was registered and unregistered before, and wherever the lookup
\* cache points, an OID is given to the registration with the longest name, and
\* among those to the one with the lowest priority, as long as no range was registered
\* whose later subtrees the code could not load.
THEOREM BestIsFound == ASSUME RangesAreClear  PROVE RegistrySpec => []FindsTheBest
<1>1. (~tangled => RegistryInv) => FindsTheBest
  <2> SUFFICES ASSUME RegistryInv, NEW n \in Probes
               PROVE  Find(n) # 0 /\ regions[Find(n)].stack[1] = FirstClaim(n)
    BY DEF FindsTheBest
  <2>1. BelowIso(n) /\ n \in Seq(Nat)
    BY RegistryAssumption DEF BelowIso
  <2>2. Find(n) \in 1 .. Len(regions) /\ Holds(regions[Find(n)], n)
    BY <2>1, FindIs DEF RegistryInv
  <2>3. Find(n) # 0
    BY <2>2
  <2> QED  BY <2>1, <2>2, <2>3, FirstClaimIs DEF RegistryInv
<1>2. RegistrySpec => [](~tangled => RegistryInv)
  BY RegistryInvariant
<1> QED  BY <1>1, <1>2, PTL

=============================================================================

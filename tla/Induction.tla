------------------------------ MODULE Induction ------------------------------
(***************************************************************************)
(* Induction over the natural numbers, with sets in place of predicates:   *)
(* the facts about sequences and minima that the proofs rest on.           *)
(***************************************************************************)
EXTENDS Integers, FiniteSetTheorems, WellFoundedInduction, TLAPS, Subsequence

\* A set of natural numbers that is not empty has a least element.  (0 .. m grows
\* with m, and the subsets of a finite set are well founded.)
LEMMA LeastOf ==
    ASSUME NEW T, T \subseteq Nat, T # {}
    PROVE  \E m \in T : \A k \in T : m <= k
<1> PICK n \in T : TRUE
  OBVIOUS
<1> DEFINE S == 0 .. n
           I == T \cap (0 .. n)
           R == StrictSubsetOrdering(S)
           F == {0 .. m : m \in I}
<1>1. n \in Nat /\ n \in I /\ I \subseteq Nat /\ IsFiniteSet(S)
  BY FS_Interval
<1>2. IsWellFoundedOn(R, SUBSET S)
  BY <1>1, FS_StrictSubsetOrderingWellFounded, FS_FiniteSubsetsOfFinite
<1>3. F \subseteq SUBSET S /\ F # {}
  OBVIOUS
<1>4. \E X \in F : \A Y \in F : ~ (<<Y, X>> \in R)
  <2> HIDE DEF R, F, S
  <2> QED  BY <1>2, <1>3, WFMin
<1>5. \E m \in I : \A k \in I : ~ (<<0 .. k, 0 .. m>> \in R)
  <2> HIDE DEF R, S, I
  <2> QED  BY <1>4
<1>6. ASSUME NEW k \in I, NEW m \in I, k < m
      PROVE  <<0 .. k, 0 .. m>> \in R
  <2>1. 0 .. k \in SUBSET S /\ 0 .. m \in SUBSET S /\ 0 .. k \subseteq 0 .. m
    BY <1>1, <1>6
  <2>2. m \in 0 .. m /\ m \notin 0 .. k
    BY <1>1, <1>6
  <2>3. 0 .. k # 0 .. m
    BY <2>2
  <2> HIDE DEF S
  <2> QED  BY <2>1, <2>3 DEF StrictSubsetOrdering
<1>7. \E m \in I : \A k \in I : ~ (k < m)
  <2> HIDE DEF R, I
  <2> QED  BY <1>5, <1>6
<1>8. \A k \in T : k \in I \/ k > n
  BY <1>1
<1> QED  BY <1>1, <1>7, <1>8

\* A set of natural numbers that is bounded and not empty has a greatest element.
LEMMA GreatestOf ==
    ASSUME NEW n \in Nat, NEW T, T \subseteq 0 .. n, T # {}
    PROVE  \E m \in T : \A k \in T : k <= m
<1> DEFINE D == {n - k : k \in T}
<1>1. D \subseteq Nat /\ D # {}
  <2>1. \A k \in T : n - k \in Nat
    OBVIOUS
  <2> QED  BY <2>1
<1>2. PICK d \in D : \A x \in D : d <= x
  <2> HIDE DEF D
  <2> QED  BY <1>1, LeastOf
<1>3. PICK m \in T : d = n - m
  OBVIOUS
<1>4. ASSUME NEW k \in T  PROVE k <= m
  <2>1. n - k \in D
    OBVIOUS
  <2> QED  BY <2>1, <1>2, <1>3
<1> QED  BY <1>4

\* What holds of 0 and, if of n, of n + 1, holds of every natural number.
LEMMA InductionOn ==
    ASSUME NEW T, 0 \in T, \A n \in Nat : n \in T => n + 1 \in T
    PROVE  Nat \subseteq T
<1> SUFFICES ASSUME ~ (Nat \subseteq T)  PROVE FALSE
  OBVIOUS
<1> DEFINE U == Nat \ T
<1>1. U \subseteq Nat /\ U # {}
  OBVIOUS
<1>2. PICK m \in U : \A k \in U : m <= k
  <2> HIDE DEF U
  <2> QED  BY <1>1, LeastOf
<1>3. m \in Nat /\ m # 0 /\ m - 1 \in Nat
  OBVIOUS
<1>4. m - 1 \notin U
  BY <1>2, <1>3
<1>5. m - 1 \in T
  BY <1>3, <1>4
<1>6. (m - 1) + 1 \in T
  BY <1>3, <1>5
<1> QED  BY <1>3, <1>6

\* A finite set that is not empty has a minimal element in any order (a set of
\* pairs that is transitive and irreflexive): one with the fewest below it.
LEMMA MinimalOf ==
    ASSUME NEW T, IsFiniteSet(T), T # {}, NEW R,
           \A x, y, z \in T : <<x, y>> \in R /\ <<y, z>> \in R => <<x, z>> \in R,
           \A x \in T : <<x, x>> \notin R
    PROVE  \E m \in T : \A x \in T : <<x, m>> \notin R
<1> DEFINE Below(y) == {x \in T : <<x, y>> \in R}
           D == {Cardinality(Below(y)) : y \in T}
<1>1. \A y \in T : IsFiniteSet(Below(y)) /\ Cardinality(Below(y)) \in Nat
  BY FS_Subset, FS_CardinalityType
<1>2. D \subseteq Nat /\ D # {}
  <2> HIDE DEF Below
  <2> QED  BY <1>1
<1>3. PICK d \in D : \A k \in D : d <= k
  <2> HIDE DEF D
  <2> QED  BY <1>2, LeastOf
<1>4. PICK m \in T : d = Cardinality(Below(m))
  OBVIOUS
<1>5. ASSUME NEW x \in T, <<x, m>> \in R  PROVE FALSE
  <2>1. Below(x) \subseteq Below(m) /\ x \in Below(m) /\ x \notin Below(x)
    BY <1>5
  <2>2. Cardinality(Below(x)) <= Cardinality(Below(m))
        /\ Cardinality(Below(x)) # Cardinality(Below(m))
    <3> HIDE DEF Below
    <3> QED  BY <1>1, <2>1, FS_Subset
  <2>3. Cardinality(Below(m)) <= Cardinality(Below(x))
    <3> HIDE DEF Below
    <3> QED  BY <1>3, <1>4
  <2> HIDE DEF Below
  <2> QED  BY <1>1, <2>2, <2>3
<1> QED  BY <1>5

\* A function that is defined by recursion over 0 .. n exists.
LEMMA RecursionOn ==
    ASSUME NEW S, NEW start \in S, NEW n \in Nat, NEW step \in [1 .. n -> [S -> S]]
    PROVE  \E f \in [0 .. n -> S] :
               f[0] = start /\ \A i \in 1 .. n : f[i] = step[i][f[i - 1]]
<1> DEFINE Defines(f, k) == f[0] = start /\ \A i \in 1 .. k : f[i] = step[i][f[i - 1]]
           T == {k \in Nat : k <= n => \E f \in [0 .. k -> S] : Defines(f, k)}
<1>1. 0 \in T
  <2>1. Defines([i \in 0 .. 0 |-> start], 0)
    OBVIOUS
  <2>2. [i \in 0 .. 0 |-> start] \in [0 .. 0 -> S]
    OBVIOUS
  <2> HIDE DEF Defines
  <2> QED  BY <2>1, <2>2
<1>2. ASSUME NEW k \in Nat, k \in T, k + 1 <= n
      PROVE  \E f \in [0 .. k + 1 -> S] : Defines(f, k + 1)
  <2>1. PICK f \in [0 .. k -> S] : Defines(f, k)
    <3> HIDE DEF Defines
    <3> QED  BY <1>2
  <2> DEFINE g == [i \in 0 .. k + 1 |-> IF i <= k THEN f[i] ELSE step[k + 1][f[k]]]
  <2>2. step[k + 1][f[k]] \in S
    BY <1>2
  <2>3. g \in [0 .. k + 1 -> S]
    <3>1. \A i \in 0 .. k + 1 : i <= k => i \in 0 .. k
      OBVIOUS
    <3> QED  BY <2>2, <3>1
  <2>4. g[0] = start
    BY <2>1
  <2>5. ASSUME NEW i \in 1 .. k + 1  PROVE g[i] = step[i][g[i - 1]]
    <3>1. CASE i <= k
      <4>1. i \in 1 .. k /\ i \in 0 .. k + 1 /\ i - 1 \in 0 .. k + 1 /\ i - 1 <= k
        BY <3>1
      <4> QED  BY <2>1, <3>1, <4>1
    <3>2. CASE i = k + 1
      <4>1. i \in 0 .. k + 1 /\ k \in 0 .. k + 1 /\ ~ (i <= k) /\ i - 1 = k
        BY <3>2
      <4> QED  BY <3>2, <4>1
    <3> QED  BY <3>1, <3>2
  <2>6. Defines(g, k + 1)
    <3> HIDE DEF g
    <3> QED  BY <2>4, <2>5
  <2> HIDE DEF g, Defines
  <2> QED  BY <2>3, <2>6
<1>3. \A k \in Nat : k \in T => k + 1 \in T
  <2> HIDE DEF Defines
  <2> QED  BY <1>2
<1>4. n \in T
  <2> HIDE DEF T
  <2> QED  BY <1>1, <1>3, InductionOn
<1> QED  BY <1>4

\* ... and the one that applies the same function n times.
Iterates(f, S, start, n, g) ==
    f \in [0 .. n -> S] /\ f[0] = start /\ \A i \in 1 .. n : f[i] = g[f[i - 1]]

\* What is iterated n times exists, for every step function on a set.
LEMMA IterationOn ==
    ASSUME NEW S, NEW start \in S, NEW n \in Nat, NEW g \in [S -> S]
    PROVE  \E f : Iterates(f, S, start, n, g)
<1> DEFINE step == [i \in 1 .. n |-> g]
<1>1. step \in [1 .. n -> [S -> S]] /\ \A i \in 1 .. n : step[i] = g
  OBVIOUS
<1>2. PICK f \in [0 .. n -> S] : f[0] = start /\ \A i \in 1 .. n : f[i] = step[i][f[i - 1]]
  <2>1. step \in [1 .. n -> [S -> S]]
    BY <1>1
  <2>2. ASSUME NEW t \in [1 .. n -> [S -> S]]
        PROVE  \E f \in [0 .. n -> S] : f[0] = start /\ \A i \in 1 .. n : f[i] = t[i][f[i - 1]]
    BY <2>2, RecursionOn
  <2> HIDE DEF step
  <2> QED  BY <2>1, <2>2, Zenon
<1> HIDE DEF step
<1> QED  BY <1>1, <1>2 DEF Iterates

\* What is taken through n steps exists, for a step function of each.
Staged(f, S, start, n, step) ==
    f \in [0 .. n -> S] /\ f[0] = start /\ \A k \in 1 .. n : f[k] = step[k][f[k - 1]]

LEMMA StagedOn ==
    ASSUME NEW S, NEW start \in S, NEW n \in Nat, NEW step \in [1 .. n -> [S -> S]]
    PROVE  \E f : Staged(f, S, start, n, step)
BY RecursionOn DEF Staged

\* What a loop starts in and does not leave.
LEMMA StaysIn ==
    ASSUME NEW S, NEW n \in Nat, NEW loop, loop[0] \in S,
           \A k \in 1 .. n : loop[k - 1] \in S => loop[k] \in S
    PROVE  \A k \in 0 .. n : loop[k] \in S
<1> DEFINE T == {k \in Nat : k <= n => loop[k] \in S}
<1>1. 0 \in T
  OBVIOUS
<1>2. ASSUME NEW k \in Nat, k \in T, k + 1 <= n  PROVE loop[k + 1] \in S
  <2>1. k + 1 \in 1 .. n /\ (k + 1) - 1 = k /\ loop[k] \in S
    BY <1>2
  <2> QED  BY <2>1
<1>3. \A k \in Nat : k \in T => k + 1 \in T
  BY <1>2
<1>4. Nat \subseteq T
  <2> HIDE DEF T
  <2> QED  BY <1>1, <1>3, InductionOn
<1> QED  BY <1>4

\* What body makes of a function for x depends on its values of a smaller measure.
DependsBelow(body, measure, S, V) ==
    \A x \in S : \A g, h \in [S -> V] :
        (\A y \in S : measure[y] < measure[x] => g[y] = h[y]) => body[x][g] = body[x][h]

\* A function that is what body makes of it.
Recurs(f, body, S, V) == f \in [S -> V] /\ \A x \in S : f[x] = body[x][f]

\* A function that is defined by recursion over a measure exists: the value at x
\* depends on what has a smaller measure.
LEMMA MeasuredRecursion ==
    ASSUME NEW S, NEW V, NEW start \in V, NEW measure \in [S -> Nat],
           NEW body \in [S -> [[S -> V] -> V]], DependsBelow(body, measure, S, V)
    PROVE  \E f : Recurs(f, body, S, V)
<1>0. \A x \in S : \A g, h \in [S -> V] :
         (\A y \in S : measure[y] < measure[x] => g[y] = h[y]) => body[x][g] = body[x][h]
  BY DEF DependsBelow
<1> DEFINE Good(g, n) == g \in [S -> V] /\ \A x \in S : measure[x] < n => g[x] = body[x][g]
           T == {n \in Nat : \E g \in [S -> V] : Good(g, n)}
<1>1. 0 \in T
  <2>1. [x \in S |-> start] \in [S -> V]
    OBVIOUS
  <2>2. \A x \in S : ~(measure[x] < 0)
    OBVIOUS
  <2>3. Good([x \in S |-> start], 0)
    BY <2>1, <2>2
  <2> QED  BY <2>1, <2>3
<1>2. ASSUME NEW n \in Nat, n \in T  PROVE n + 1 \in T
  <2>1. PICK g \in [S -> V] : Good(g, n)
    BY <1>2
  <2> DEFINE h == [x \in S |-> body[x][g]]
  <2>2. h \in [S -> V] /\ \A x \in S : h[x] = body[x][g]
    OBVIOUS
  <2>3. \A x \in S : measure[x] < n => h[x] = g[x]
    BY <2>1, <2>2
  <2> HIDE DEF h
  <2>4. ASSUME NEW x \in S, measure[x] < n + 1  PROVE h[x] = body[x][h]
    <3>1. measure[x] \in Nat /\ \A y \in S : measure[y] \in Nat
      OBVIOUS
    <3>2. \A y \in S : measure[y] < measure[x] => g[y] = h[y]
      BY <2>3, <2>4, <3>1
    <3>3. body[x][g] = body[x][h]
      BY <1>0, <2>1, <2>2, <3>2
    <3> QED  BY <2>2, <3>3
  <2>5. Good(h, n + 1)
    BY <2>2, <2>4
  <2> HIDE DEF Good
  <2> QED  BY <2>2, <2>5
<1>3. Nat \subseteq T
  <2> HIDE DEF T
  <2> QED  BY <1>1, <1>2, InductionOn
<1>4. ASSUME NEW n \in Nat, NEW g, NEW h, Good(g, n), Good(h, n)
      PROVE  \A x \in S : measure[x] < n => g[x] = h[x]
  <2> DEFINE D == {x \in S : measure[x] < n /\ g[x] # h[x]}
             M == {measure[x] : x \in D}
  <2> SUFFICES ASSUME D # {}  PROVE FALSE
    OBVIOUS
  <2>4. \A y \in S : measure[y] \in Nat
    OBVIOUS
  <2>1. M \subseteq Nat /\ M # {}
    <3>1. D \subseteq S
      OBVIOUS
    <3> HIDE DEF D
    <3> QED  BY <2>4, <3>1
  <2>2. PICK m \in M : \A k \in M : m <= k
    <3> HIDE DEF M
    <3> QED  BY <2>1, LeastOf
  <2>3. PICK x \in D : m = measure[x]
    OBVIOUS
  <2>5. ASSUME NEW y \in S, measure[y] < measure[x]  PROVE g[y] = h[y]
    <3> SUFFICES ASSUME g[y] # h[y]  PROVE FALSE
      OBVIOUS
    <3>1. measure[y] < n
      BY <2>3, <2>4, <2>5
    <3>2. measure[y] \in M
      BY <3>1
    <3>3. m <= measure[y] /\ m = measure[x] /\ measure[x] \in Nat /\ measure[y] \in Nat
      BY <2>2, <2>3, <2>4, <3>2
    <3> HIDE DEF D, M
    <3> QED  BY <2>5, <3>3
  <2>6. g[x] = body[x][g] /\ h[x] = body[x][h] /\ g \in [S -> V] /\ h \in [S -> V]
    BY <1>4, <2>3
  <2>7. body[x][g] = body[x][h]
    BY <1>0, <2>3, <2>5, <2>6
  <2> QED  BY <2>3, <2>6, <2>7
<1> DEFINE G(n) == CHOOSE g \in [S -> V] : Good(g, n)
           f == [x \in S |-> G(measure[x] + 1)[x]]
<1>5. ASSUME NEW n \in Nat  PROVE G(n) \in [S -> V] /\ Good(G(n), n)
  <2>1. \E g \in [S -> V] : Good(g, n)
    BY <1>3
  <2> HIDE DEF Good
  <2> QED  BY <2>1
<1>6. f \in [S -> V] /\ \A x \in S : f[x] = G(measure[x] + 1)[x]
  <2>1. \A x \in S : measure[x] + 1 \in Nat
    OBVIOUS
  <2> HIDE DEF G, Good
  <2> QED  BY <1>5, <2>1
<1>7. ASSUME NEW x \in S  PROVE f[x] = body[x][f]
  <2> DEFINE n == measure[x] + 1
             g == G(n)
  <2>1. n \in Nat /\ measure[x] \in Nat
    OBVIOUS
  <2>2. g \in [S -> V] /\ Good(g, n)
    <3> HIDE DEF G, Good, n
    <3> QED  BY <1>5, <2>1
  <2>3. ASSUME NEW y \in S, measure[y] < measure[x]  PROVE g[y] = f[y]
    <3> DEFINE k == measure[y] + 1
               h == G(k)
    <3>1. k \in Nat /\ measure[y] \in Nat
      OBVIOUS
    <3>2. Good(h, k)
      <4> HIDE DEF G, Good, k
      <4> QED  BY <1>5, <3>1
    <3>3. k <= n /\ measure[y] < k
      BY <2>1, <2>3, <3>1
    <3>4. Good(g, k)
      <4>1. \A z \in S : measure[z] \in Nat
        OBVIOUS
      <4> HIDE DEF g, k, n
      <4> QED  BY <2>1, <2>2, <3>1, <3>3, <4>1
    <3>5. g[y] = h[y]
      <4> HIDE DEF Good, g, h, k
      <4> QED  BY <1>4, <3>1, <3>2, <3>3, <3>4
    <3> HIDE DEF G, Good, f, g
    <3> QED  BY <1>6, <3>5
  <2>4. g[x] = body[x][g]
    <3> HIDE DEF g
    <3> QED  BY <2>1, <2>2
  <2>5. body[x][g] = body[x][f]
    <3> HIDE DEF f, g, G, Good
    <3> QED  BY <1>0, <1>6, <2>2, <2>3
  <2>6. f[x] = g[x]
    <3> HIDE DEF f, G, Good
    <3> QED  BY <1>6
  <2> HIDE DEF f, g
  <2> QED  BY <2>4, <2>5, <2>6
<1> HIDE DEF f
<1> QED  BY <1>6, <1>7 DEF Recurs

\* out is what s has at those of its first len places that are in places:
\* `place' gives the place in s of each of its elements, in the same order.
IsChosen(out, s, len, places) ==
    \E place \in [1 .. Len(out) -> 1 .. len] :
        /\ \A a, b \in 1 .. Len(out) : a < b => place[a] < place[b]
        /\ \A a \in 1 .. Len(out) : out[a] = s[place[a]] /\ place[a] \in places
        /\ \A j \in 1 .. len : j \in places => \E a \in 1 .. Len(out) : place[a] = j

\* The function by which Chosen is defined.
Gathers(f, s, places, S) ==
    /\ f \in [0 .. Len(s) -> Seq(S)] /\ f[0] = <<>>
    /\ \A i \in 1 .. Len(s) : f[i] = IF i \in places THEN Append(f[i - 1], s[i]) ELSE f[i - 1]

LEMMA ChosenUnfolds ==
    ASSUME NEW S, NEW s \in Seq(S), NEW places
    PROVE  \E f : Gathers(f, s, places, S) /\ Chosen(s, places) = f[Len(s)]
<1> DEFINE n == Len(s)
           Kept(f) == [i \in 0 .. n |-> IF i = 0 THEN <<>>
                                        ELSE IF i \in places THEN Append(f[i - 1], s[i])
                                        ELSE f[i - 1]]
           kept == CHOOSE f : f = Kept(f)
           step == [i \in 1 .. n |-> [v \in Seq(S) |-> IF i \in places THEN Append(v, s[i])
                                                       ELSE v]]
<1>1. n \in Nat /\ \A i \in 1 .. n : s[i] \in S
  OBVIOUS
<1>2. \E f : f = Kept(f)
  <2>1. step \in [1 .. n -> [Seq(S) -> Seq(S)]]
    BY <1>1
  <2>2. <<>> \in Seq(S)
    OBVIOUS
  <2>3. PICK f \in [0 .. n -> Seq(S)] :
               f[0] = <<>> /\ \A i \in 1 .. n : f[i] = step[i][f[i - 1]]
    <3> DEFINE values == Seq(S)
               start == <<>>
    <3>1. n \in Nat /\ start \in values /\ step \in [1 .. n -> [values -> values]]
      BY <1>1, <2>1, <2>2
    <3> HIDE DEF step, n, values, start
    <3>2. \E f \in [0 .. n -> values] :
              f[0] = start /\ \A i \in 1 .. n : f[i] = step[i][f[i - 1]]
      BY <3>1, RecursionOn
    <3> QED  BY <3>2 DEF values, start
  <2>4. \A i \in 1 .. n : i - 1 \in 0 .. n /\ f[i - 1] \in Seq(S)
    BY <1>1, <2>3
  <2>5. \A i \in 0 .. n : f[i] = Kept(f)[i]
    <3> SUFFICES ASSUME NEW i \in 0 .. n  PROVE f[i] = Kept(f)[i]
      OBVIOUS
    <3>1. CASE i = 0
      BY <2>3, <3>1
    <3>2. CASE i \in 1 .. n
      BY <2>3, <2>4, <3>2
    <3> QED  BY <1>1, <3>1, <3>2
  <2>6. f = Kept(f)
    <3>1. f = [i \in 0 .. n |-> f[i]]
      BY <2>3
    <3> QED  BY <3>1, <2>5
  <2> QED  BY <2>6
<1>3. kept = Kept(kept)
  <2> HIDE DEF Kept
  <2> QED  BY <1>2
<1>4. /\ kept[0] = <<>>
      /\ \A i \in 1 .. n : kept[i] = IF i \in places THEN Append(kept[i - 1], s[i])
                                     ELSE kept[i - 1]
  <2>1. \A i \in 0 .. n : kept[i] = Kept(kept)[i]
    <3> HIDE DEF Kept, kept
    <3> QED  BY <1>3
  <2> HIDE DEF kept
  <2> QED  BY <2>1, <1>1
<1>6. kept = [i \in 0 .. n |-> kept[i]]
  <2>1. \A f : Kept(f) = [i \in 0 .. n |-> Kept(f)[i]]
    OBVIOUS
  <2> HIDE DEF Kept, kept
  <2> QED  BY <1>3, <2>1
<1>7. \A i \in 0 .. n : kept[i] \in Seq(S)
  <2> HIDE DEF Kept, kept
  <2> DEFINE T == {k \in Nat : k <= n => kept[k] \in Seq(S)}
  <2>1. 0 \in T
    <3>1. <<>> \in Seq(S)
      OBVIOUS
    <3> QED  BY <1>4, <3>1
  <2>2. ASSUME NEW k \in Nat, k \in T  PROVE k + 1 \in T
    <3> SUFFICES ASSUME k + 1 <= n  PROVE kept[k + 1] \in Seq(S)
      OBVIOUS
    <3>1. k + 1 \in 1 .. n /\ (k + 1) - 1 = k /\ kept[k] \in Seq(S) /\ s[k + 1] \in S
      BY <1>1, <2>2
    <3>2. kept[k + 1] = IF k + 1 \in places THEN Append(kept[k], s[k + 1]) ELSE kept[k]
      BY <1>4, <3>1
    <3> QED  BY <3>1, <3>2
  <2> HIDE DEF T
  <2>3. Nat \subseteq T
    BY <2>1, <2>2, InductionOn
  <2>4. \A i \in 0 .. n : i \in T
    BY <1>1, <2>3
  <2> QED  BY <1>1, <2>4 DEF T
<1>8. Gathers(kept, s, places, S)
  <2> HIDE DEF Kept, kept
  <2> QED  BY <1>4, <1>6, <1>7 DEF Gathers
<1>5. Chosen(s, places) = kept[n]
  BY DEF Chosen
<1> HIDE DEF Kept, kept
<1> QED  BY <1>5, <1>8

\* Chosen of a sequence and of one that goes on with elements which are not chosen.
LEMMA ChosenSame ==
    ASSUME NEW S, NEW s \in Seq(S), NEW t \in Seq(S), NEW P, NEW Q, Len(s) <= Len(t),
           \A i \in 1 .. Len(s) : t[i] = s[i] /\ (i \in P <=> i \in Q),
           \A i \in Len(s) + 1 .. Len(t) : i \notin Q
    PROVE  Chosen(t, Q) = Chosen(s, P)
<1>1. PICK f : Gathers(f, s, P, S) /\ Chosen(s, P) = f[Len(s)]
  BY ChosenUnfolds
<1>2. PICK g : Gathers(g, t, Q, S) /\ Chosen(t, Q) = g[Len(t)]
  BY ChosenUnfolds
<1> DEFINE m == Len(s)  n == Len(t)
           T == {k \in Nat : k <= n => g[k] = IF k <= m THEN f[k] ELSE f[m]}
<1>3. m \in Nat /\ n \in Nat /\ m <= n
  OBVIOUS
<1>4. 0 \in T
  BY <1>1, <1>2, <1>3 DEF Gathers
<1>5. ASSUME NEW k \in Nat, k \in T  PROVE k + 1 \in T
  <2> SUFFICES ASSUME k + 1 <= n  PROVE g[k + 1] = IF k + 1 <= m THEN f[k + 1] ELSE f[m]
    OBVIOUS
  <2>1. k + 1 \in 1 .. n /\ (k + 1) - 1 = k
    BY <1>3
  <2>2. g[k + 1] = IF k + 1 \in Q THEN Append(g[k], t[k + 1]) ELSE g[k]
    BY <1>2, <2>1 DEF Gathers
  <2>3. g[k] = IF k <= m THEN f[k] ELSE f[m]
    BY <1>3, <1>5
  <2>4. CASE k + 1 <= m
    <3>1. k + 1 \in 1 .. m /\ k <= m
      BY <1>3, <2>4
    <3>2. f[k + 1] = IF k + 1 \in P THEN Append(f[k], s[k + 1]) ELSE f[k]
      BY <1>1, <2>1, <3>1 DEF Gathers
    <3> QED  BY <2>2, <2>3, <2>4, <3>1, <3>2
  <2>5. CASE k + 1 > m
    <3>1. k + 1 \in m + 1 .. n
      BY <1>3, <2>1, <2>5
    <3>2. k + 1 \notin Q
      BY <3>1
    <3>3. IF k <= m THEN f[k] = f[m] ELSE TRUE
      BY <1>3, <2>5
    <3> QED  BY <1>3, <2>2, <2>3, <2>5, <3>2, <3>3
  <2> QED  BY <1>3, <2>4, <2>5
<1> HIDE DEF T
<1>6. n \in T
  BY <1>3, <1>4, <1>5, InductionOn
<1>7. g[n] = f[m]
  BY <1>3, <1>6 DEF T
<1> QED  BY <1>1, <1>2, <1>7

\* ... and of one that goes on with an element that is.
LEMMA ChosenMore ==
    ASSUME NEW S, NEW s \in Seq(S), NEW x \in S, NEW P, NEW Q, Len(s) + 1 \in Q,
           \A i \in 1 .. Len(s) : i \in P <=> i \in Q
    PROVE  Chosen(Append(s, x), Q) = Append(Chosen(s, P), x)
<1> DEFINE t == Append(s, x)
<1>1. t \in Seq(S) /\ Len(t) = Len(s) + 1 /\ t[Len(t)] = x
      /\ \A i \in 1 .. Len(s) : t[i] = s[i]
  OBVIOUS
<1> HIDE DEF t
<1>2. PICK f : Gathers(f, s, P, S) /\ Chosen(s, P) = f[Len(s)]
  BY ChosenUnfolds
<1>3. PICK g : Gathers(g, t, Q, S) /\ Chosen(t, Q) = g[Len(t)]
  BY <1>1, ChosenUnfolds
<1> DEFINE T == {k \in Nat : k <= Len(s) => g[k] = f[k]}
<1>4. 0 \in T
  BY <1>2, <1>3 DEF Gathers
<1>5. ASSUME NEW k \in Nat, k \in T  PROVE k + 1 \in T
  <2> SUFFICES ASSUME k + 1 <= Len(s)  PROVE g[k + 1] = f[k + 1]
    OBVIOUS
  <2>1. k + 1 \in 1 .. Len(s) /\ k + 1 \in 1 .. Len(t) /\ (k + 1) - 1 = k
    BY <1>1
  <2>2. g[k + 1] = IF k + 1 \in Q THEN Append(g[k], t[k + 1]) ELSE g[k]
    BY <1>3, <2>1 DEF Gathers
  <2>3. f[k + 1] = IF k + 1 \in P THEN Append(f[k], s[k + 1]) ELSE f[k]
    BY <1>2, <2>1 DEF Gathers
  <2> QED  BY <1>1, <1>5, <2>1, <2>2, <2>3
<1> HIDE DEF T
<1>6. Len(s) \in T
  BY <1>4, <1>5, InductionOn
<1>7. g[Len(s)] = f[Len(s)]
  BY <1>6 DEF T
<1>8. Len(t) \in 1 .. Len(t) /\ Len(t) - 1 = Len(s)
  BY <1>1
<1>9. g[Len(t)] = Append(g[Len(s)], x)
  BY <1>1, <1>3, <1>8 DEF Gathers
<1> QED  BY <1>2, <1>3, <1>7, <1>9 DEF t

\* The operator Chosen is the subsequence it is meant to be.
LEMMA ChosenIs ==
    ASSUME NEW S, NEW s \in Seq(S), NEW places
    PROVE  /\ Chosen(s, places) \in Seq(S)
           /\ IsChosen(Chosen(s, places), s, Len(s), places)
<1> DEFINE n == Len(s)
<1>1. n \in Nat /\ \A i \in 1 .. n : s[i] \in S
  OBVIOUS
<1>2. PICK kept : Gathers(kept, s, places, S) /\ Chosen(s, places) = kept[n]
  BY ChosenUnfolds
<1>4. /\ kept[0] = <<>>
      /\ \A i \in 1 .. n : kept[i] = IF i \in places THEN Append(kept[i - 1], s[i])
                                     ELSE kept[i - 1]
  BY <1>2 DEF Gathers
<1>5. Chosen(s, places) = kept[n]
  BY <1>2
<1> DEFINE T == {k \in Nat : k <= n => kept[k] \in Seq(S) /\ IsChosen(kept[k], s, k, places)}
<1>6. 0 \in T
  <2>1. <<>> \in Seq(S) /\ Len(<<>>) = 0
    OBVIOUS
  <2>2. [a \in 1 .. 0 |-> 1] \in [1 .. 0 -> 1 .. 0]
    OBVIOUS
  <2>3. 1 .. 0 = {}
    OBVIOUS
  <2>4. IsChosen(<<>>, s, 0, places)
    BY <2>1, <2>2, <2>3 DEF IsChosen
  <2> QED  BY <1>4, <2>1, <2>4
<1>7. ASSUME NEW k \in Nat, k \in T, k + 1 <= n
      PROVE  kept[k + 1] \in Seq(S) /\ IsChosen(kept[k + 1], s, k + 1, places)
  <2>1. k + 1 \in 1 .. n /\ (k + 1) - 1 = k /\ s[k + 1] \in S
    BY <1>1, <1>7
  <2>2. kept[k] \in Seq(S) /\ IsChosen(kept[k], s, k, places)
    BY <1>1, <1>7
  <2>3. kept[k + 1] = IF k + 1 \in places THEN Append(kept[k], s[k + 1]) ELSE kept[k]
    BY <1>4, <2>1
  <2> DEFINE len == Len(kept[k])
  <2>4. PICK place \in [1 .. len -> 1 .. k] :
             /\ \A a, b \in 1 .. len : a < b => place[a] < place[b]
             /\ \A a \in 1 .. len : kept[k][a] = s[place[a]] /\ place[a] \in places
             /\ \A j \in 1 .. k : j \in places => \E a \in 1 .. len : place[a] = j
    BY <2>2 DEF IsChosen
  <2>5. CASE k + 1 \notin places
    <3>1. place \in [1 .. len -> 1 .. k + 1]
      BY <2>4
    <3>2. \A j \in 1 .. k + 1 : j \in places => j \in 1 .. k
      BY <2>5
    <3>3. IsChosen(kept[k], s, k + 1, places)
      BY <2>4, <3>1, <3>2 DEF IsChosen
    <3> QED  BY <2>2, <2>3, <2>5, <3>3
  <2>6. CASE k + 1 \in places
    <3> DEFINE out == Append(kept[k], s[k + 1])
               longer == [a \in 1 .. len + 1 |-> IF a <= len THEN place[a] ELSE k + 1]
    <3>1. /\ out \in Seq(S) /\ Len(out) = len + 1 /\ len \in Nat
          /\ out[len + 1] = s[k + 1]
          /\ \A a \in 1 .. len : out[a] = kept[k][a]
      BY <2>1, <2>2
    <3> HIDE DEF out, len
    <3>2. \A a \in 1 .. len + 1 : a \in 1 .. len \/ a = len + 1
      BY <3>1
    <3>3. longer \in [1 .. len + 1 -> 1 .. k + 1]
      BY <2>4, <3>1, <3>2
    <3>4. /\ \A a \in 1 .. len : longer[a] = place[a] /\ longer[a] \in 1 .. k
          /\ longer[len + 1] = k + 1
      BY <2>4, <3>1
    <3> HIDE DEF longer
    <3>5. ASSUME NEW a \in 1 .. len + 1, NEW b \in 1 .. len + 1, a < b
          PROVE  longer[a] < longer[b]
      <4>1. a \in 1 .. len
        BY <3>1, <3>5
      <4>2. CASE b \in 1 .. len
        BY <2>4, <3>4, <3>5, <4>1, <4>2
      <4>3. CASE b = len + 1
        BY <3>4, <4>1, <4>3
      <4> QED  BY <3>2, <4>2, <4>3
    <3>6. ASSUME NEW a \in 1 .. len + 1
          PROVE  out[a] = s[longer[a]] /\ longer[a] \in places
      BY <2>4, <2>6, <3>1, <3>2, <3>4
    <3>7. ASSUME NEW j \in 1 .. k + 1, j \in places
          PROVE  \E a \in 1 .. len + 1 : longer[a] = j
      <4>1. CASE j = k + 1
        BY <3>1, <3>4, <4>1
      <4>2. CASE j \in 1 .. k
        <5>1. PICK a \in 1 .. len : place[a] = j
          BY <2>4, <3>7, <4>2
        <5>2. a \in 1 .. len + 1 /\ longer[a] = j
          BY <3>1, <3>4, <5>1
        <5> QED  BY <5>2
      <4> QED  BY <4>1, <4>2
    <3>8. IsChosen(out, s, k + 1, places)
      <4>1. /\ \A a, b \in 1 .. len + 1 : a < b => longer[a] < longer[b]
            /\ \A a \in 1 .. len + 1 : out[a] = s[longer[a]] /\ longer[a] \in places
            /\ \A j \in 1 .. k + 1 : j \in places => \E a \in 1 .. len + 1 : longer[a] = j
        BY <3>5, <3>6, <3>7
      <4> DEFINE m == Len(out)
      <4>2. m = len + 1
        BY <3>1
      <4> SUFFICES \E p \in [1 .. m -> 1 .. k + 1] :
                       /\ \A a, b \in 1 .. m : a < b => p[a] < p[b]
                       /\ \A a \in 1 .. m : out[a] = s[p[a]] /\ p[a] \in places
                       /\ \A j \in 1 .. k + 1 : j \in places => \E a \in 1 .. m : p[a] = j
        BY DEF IsChosen
      <4> HIDE DEF m
      <4> QED  BY <3>3, <4>1, <4>2
    <3>9. kept[k + 1] = out
      BY <2>3, <2>6 DEF out
    <3> QED  BY <3>1, <3>8, <3>9
  <2> QED  BY <2>5, <2>6
<1>8. \A k \in Nat : k \in T => k + 1 \in T
  BY <1>7
<1>9. n \in T
  <2> HIDE DEF T, n
  <2> QED  BY <1>1, <1>6, <1>8, InductionOn
<1> QED  BY <1>1, <1>5, <1>9

\* Two parts that make a sequence: each element is in one of them, and their
\* lengths are its length.
AreParts(a, b, s, P, S) ==
    /\ a \in Seq(S) /\ b \in Seq(S)
    /\ Len(a) + Len(b) = Len(s)
    /\ \A k \in 1 .. Len(s) : k \in P => \E p \in 1 .. Len(a) : a[p] = s[k]
    /\ \A k \in 1 .. Len(s) : k \notin P => \E p \in 1 .. Len(b) : b[p] = s[k]
    /\ \A p \in 1 .. Len(a) : \E k \in 1 .. Len(s) : k \in P /\ a[p] = s[k]
    /\ \A p \in 1 .. Len(b) : \E k \in 1 .. Len(s) : k \notin P /\ b[p] = s[k]

LEMMA PartsOf ==
    ASSUME NEW S, NEW s \in Seq(S), NEW P
    PROVE  AreParts(Chosen(s, P), Chosen(s, DOMAIN s \ P), s, P, S)
<1> DEFINE Q == DOMAIN s \ P
           a == Chosen(s, P)
           b == Chosen(s, Q)
<1>1. a \in Seq(S) /\ IsChosen(a, s, Len(s), P) /\ b \in Seq(S) /\ IsChosen(b, s, Len(s), Q)
  <2> HIDE DEF Q
  <2> QED  BY ChosenIs
<1>2. \A k \in 1 .. Len(s) : k \notin P <=> k \in Q
  OBVIOUS
<1>3. PICK f : Gathers(f, s, P, S) /\ a = f[Len(s)]
  BY ChosenUnfolds
<1>4. PICK g : Gathers(g, s, Q, S) /\ b = g[Len(s)]
  <2> HIDE DEF Q
  <2> QED  BY ChosenUnfolds
<1> HIDE DEF a, b, Q
<1>5. Len(a) + Len(b) = Len(s)
  <2> DEFINE Both(k) == Len(f[k]) + Len(g[k])
             T == {k \in Nat : k <= Len(s) => Both(k) = k}
  <2>1. 0 \in T
    BY <1>3, <1>4 DEF Gathers
  <2>2. ASSUME NEW k \in Nat, k \in T, k + 1 <= Len(s)
        PROVE  Len(f[k + 1]) + Len(g[k + 1]) = k + 1
    <3>0. k \in Nat
      BY <2>2
    <3>1. k \in 0 .. Len(s) /\ k + 1 \in 1 .. Len(s) /\ (k + 1) - 1 = k /\ k <= Len(s)
      BY <2>2
    <3>2. Len(f[k]) + Len(g[k]) = k
      BY <2>2, <3>1
    <3>3. f[k] \in Seq(S) /\ g[k] \in Seq(S) /\ s[k + 1] \in S
      BY <1>3, <1>4, <3>1 DEF Gathers
    <3>4. /\ f[k + 1] = IF k + 1 \in P THEN Append(f[k], s[k + 1]) ELSE f[k]
          /\ g[k + 1] = IF k + 1 \in Q THEN Append(g[k], s[k + 1]) ELSE g[k]
      BY <1>3, <1>4, <3>1 DEF Gathers
    <3>5. /\ Len(Append(f[k], s[k + 1])) = Len(f[k]) + 1
          /\ Len(Append(g[k], s[k + 1])) = Len(g[k]) + 1
          /\ Len(f[k]) \in Nat /\ Len(g[k]) \in Nat
      BY <3>3
    <3>6. k + 1 \notin P <=> k + 1 \in Q
      BY <1>2, <3>1
    <3>7. CASE k + 1 \in P
      <4>1. f[k + 1] = Append(f[k], s[k + 1]) /\ g[k + 1] = g[k]
        BY <3>4, <3>6, <3>7
      <4>2. Len(f[k + 1]) = Len(f[k]) + 1 /\ Len(g[k + 1]) = Len(g[k])
        BY <3>5, <4>1
      <4> DEFINE x == Len(f[k])
                 y == Len(g[k])
                 v == Len(f[k + 1])
                 w == Len(g[k + 1])
      <4>3. x \in Nat /\ y \in Nat /\ x + y = k /\ v = x + 1 /\ w = y
        BY <3>2, <3>5, <4>2
      <4> HIDE DEF x, y, v, w
      <4>4. v + w = k + 1
        BY <3>0, <4>3
      <4> QED  BY <4>4 DEF v, w
    <3>8. CASE k + 1 \notin P
      <4>1. g[k + 1] = Append(g[k], s[k + 1]) /\ f[k + 1] = f[k]
        BY <3>4, <3>6, <3>8
      <4>2. Len(g[k + 1]) = Len(g[k]) + 1 /\ Len(f[k + 1]) = Len(f[k])
        BY <3>5, <4>1
      <4> DEFINE x == Len(f[k])
                 y == Len(g[k])
                 v == Len(f[k + 1])
                 w == Len(g[k + 1])
      <4>3. x \in Nat /\ y \in Nat /\ x + y = k /\ v = x /\ w = y + 1
        BY <3>2, <3>5, <4>2
      <4> HIDE DEF x, y, v, w
      <4>4. v + w = k + 1
        BY <3>0, <4>3
      <4> QED  BY <4>4 DEF v, w
    <3> QED  BY <3>7, <3>8
  <2>3. Nat \subseteq T
    <3>1. \A k \in Nat : k \in T => k + 1 \in T
      <4> SUFFICES ASSUME NEW k \in Nat, k \in T, k + 1 <= Len(s)
                   PROVE  Both(k + 1) = k + 1
        <5> HIDE DEF Both
        <5> QED  OBVIOUS
      <4> QED  BY <2>2
    <3> HIDE DEF T
    <3> QED  BY <2>1, <3>1, InductionOn
  <2> HIDE DEF T
  <2>4. Len(s) \in T
    BY <2>3
  <2>5. Both(Len(s)) = Len(s)
    <3> HIDE DEF Both
    <3> QED  BY <2>4 DEF T
  <2> QED  BY <1>3, <1>4, <2>5
<1>6. /\ \A k \in 1 .. Len(s) : k \in P => \E p \in 1 .. Len(a) : a[p] = s[k]
      /\ \A p \in 1 .. Len(a) : \E k \in 1 .. Len(s) : k \in P /\ a[p] = s[k]
  <2>1. PICK place \in [1 .. Len(a) -> 1 .. Len(s)] :
            /\ \A p \in 1 .. Len(a) : a[p] = s[place[p]] /\ place[p] \in P
            /\ \A k \in 1 .. Len(s) : k \in P => \E p \in 1 .. Len(a) : place[p] = k
    BY <1>1 DEF IsChosen
  <2> QED  BY <2>1
<1>7. /\ \A k \in 1 .. Len(s) : k \in Q => \E p \in 1 .. Len(b) : b[p] = s[k]
      /\ \A p \in 1 .. Len(b) : \E k \in 1 .. Len(s) : k \in Q /\ b[p] = s[k]
  <2>1. PICK place \in [1 .. Len(b) -> 1 .. Len(s)] :
            /\ \A p \in 1 .. Len(b) : b[p] = s[place[p]] /\ place[p] \in Q
            /\ \A k \in 1 .. Len(s) : k \in Q => \E p \in 1 .. Len(b) : place[p] = k
    BY <1>1 DEF IsChosen
  <2> QED  BY <2>1
<1>8. AreParts(a, b, s, P, S)
  BY <1>1, <1>2, <1>5, <1>6, <1>7 DEF AreParts
<1> QED  BY <1>8 DEF a, b, Q

==============================================================================

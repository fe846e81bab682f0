--------------------------- MODULE SnmpAgent_proofs ---------------------------
(***************************************************************************)
(* Proofs about the requests of the agent, for any number of requests,     *)
(* bindings and subagents.                                                 *)
(***************************************************************************)
EXTENDS SnmpAgent, Induction

-----------------------------------------------------------------------------
(* Lists.  A list that begins with h and is linked by lnk has n sessions,  *)
(* those of s in this order.                                               *)

Links == [Requests -> 0 .. MaxRequests]

IsChain(h, lnk, n, s) ==
    /\ n \in 0 .. MaxRequests /\ s \in [1 .. n -> Requests]
    /\ h = IF n = 0 THEN 0 ELSE s[1]
    /\ \A i \in 1 .. n : lnk[s[i]] = IF i = n THEN 0 ELSE s[i + 1]
    /\ \A i, j \in 1 .. n : s[i] = s[j] => i = j

Chain(h, lnk, M) ==
    \E n \in 0 .. MaxRequests : \E s \in [1 .. n -> Requests] :
        IsChain(h, lnk, n, s) /\ M = {s[i] : i \in 1 .. n}

NthOf(h, lnk) ==
    LET nth[k \in 0 .. MaxRequests] ==
            IF k = 0 THEN h
            ELSE IF nth[k - 1] = 0 THEN 0 ELSE lnk[nth[k - 1]]
    IN  nth

Members(h, lnk) == {NthOf(h, lnk)[k] : k \in 0 .. MaxRequests} \ {0}

\* Requests are the numbers up to MaxRequests, and 0 is none of them.
LEMMA Numbers ==
    /\ MaxRequests \in Nat
    /\ \A r \in Requests : r \in Nat /\ r # 0 /\ r \in 0 .. MaxRequests
    /\ \A r \in 0 .. MaxRequests : r # 0 => r \in Requests
BY SnmpAgentAssumption DEF Requests

\* The function that Nth is defined by exists.
LEMMA NthIs ==
    ASSUME NEW lnk \in Links, NEW h \in 0 .. MaxRequests
    PROVE  LET nth == NthOf(h, lnk) IN
           /\ nth[0] = h
           /\ \A k \in 1 .. MaxRequests :
                nth[k] = IF nth[k - 1] = 0 THEN 0 ELSE lnk[nth[k - 1]]
<1> DEFINE N == MaxRequests
           values == 0 .. N
           after == [v \in values |-> IF v = 0 THEN 0 ELSE lnk[v]]
           Next1(f) == [k \in 0 .. N |-> IF k = 0 THEN h
                                         ELSE IF f[k - 1] = 0 THEN 0 ELSE lnk[f[k - 1]]]
           nth == CHOOSE f : f = Next1(f)
<1>1. N \in Nat /\ h \in values /\ \A v \in values : v = 0 \/ v \in Requests
  BY Numbers DEF Requests
<1>2. after \in [values -> values] /\ \A v \in values : after[v] = IF v = 0 THEN 0 ELSE lnk[v]
  BY <1>1 DEF Links
<1>3. PICK f \in [0 .. N -> values] : f[0] = h /\ \A i \in 1 .. N : f[i] = after[f[i - 1]]
  <2>1. N \in Nat /\ h \in values /\ after \in [values -> values]
    BY <1>1, <1>2
  <2> HIDE DEF after, N, values
  <2>2. \E f : Iterates(f, values, h, N, after)
    BY <2>1, IterationOn
  <2> QED  BY <2>2 DEF Iterates
<1>4. \A i \in 1 .. N : i - 1 \in 0 .. N /\ f[i - 1] \in values
  <2> HIDE DEF values
  <2> QED  BY <1>1, <1>3
<1>5. \A i \in 0 .. N : f[i] = Next1(f)[i]
  <2>1. \A i \in 1 .. N : f[i] = IF f[i - 1] = 0 THEN 0 ELSE lnk[f[i - 1]]
    <3> HIDE DEF after, values
    <3> QED  BY <1>2, <1>3, <1>4
  <2> HIDE DEF values
  <2> QED  BY <1>1, <1>3, <2>1
<1>6. f = Next1(f)
  <2>1. f = [i \in 0 .. N |-> f[i]]
    BY <1>3
  <2> QED  BY <2>1, <1>5
<1>7. nth = Next1(nth)
  <2> HIDE DEF Next1
  <2> QED  BY <1>6
<1>8. NthOf(h, lnk) = nth
  BY DEF NthOf
<1> HIDE DEF nth
<1>9. \A i \in 0 .. N : nth[i] = Next1(nth)[i]
  <2> HIDE DEF Next1
  <2> QED  BY <1>7
<1>10. nth[0] = h /\ \A k \in 1 .. N : nth[k] = IF nth[k - 1] = 0 THEN 0 ELSE lnk[nth[k - 1]]
  BY <1>1, <1>9
<1> QED  BY <1>8, <1>10

\* A list has the sessions of its chain and ends.
LEMMA ChainMembers ==
    ASSUME NEW lnk \in Links, NEW h, NEW M, Chain(h, lnk, M)
    PROVE  Members(h, lnk) = M /\ NthOf(h, lnk)[MaxRequests] = 0
<1>0. PICK n \in 0 .. MaxRequests : \E t \in [1 .. n -> Requests] :
        IsChain(h, lnk, n, t) /\ M = {t[i] : i \in 1 .. n}
  BY DEF Chain
<1>1. PICK s \in [1 .. n -> Requests] :
        IsChain(h, lnk, n, s) /\ M = {s[i] : i \in 1 .. n}
  BY <1>0
<1> DEFINE N == MaxRequests
           nth == NthOf(h, lnk)
           T == {k \in Nat : k <= N => nth[k] = IF k < n THEN s[k + 1] ELSE 0}
<1>2. N \in Nat /\ n \in Nat /\ n <= N /\ \A i \in 1 .. n : s[i] \in Nat /\ s[i] # 0
  BY <1>1, Numbers
<1>3. h \in 0 .. N
  BY <1>1, <1>2 DEF IsChain, Requests
<1>4. /\ nth[0] = h
      /\ \A k \in 1 .. N : nth[k] = IF nth[k - 1] = 0 THEN 0 ELSE lnk[nth[k - 1]]
  BY <1>3, NthIs
<1> HIDE DEF nth
<1>5. 0 \in T
  BY <1>1, <1>2, <1>4 DEF IsChain
<1>6. ASSUME NEW k \in Nat, k \in T  PROVE k + 1 \in T
  <2> SUFFICES ASSUME k + 1 <= N
               PROVE  nth[k + 1] = IF k + 1 < n THEN s[k + 2] ELSE 0
    BY <1>2
  <2>1. k + 1 \in 1 .. N /\ (k + 1) - 1 = k /\ (k + 1) + 1 = k + 2
    BY <1>2
  <2>2. nth[k + 1] = IF nth[k] = 0 THEN 0 ELSE lnk[nth[k]]
    BY <1>4, <2>1
  <2>3. nth[k] = IF k < n THEN s[k + 1] ELSE 0
    BY <1>2, <1>6, <2>1
  <2>4. CASE k < n
    <3>1. k + 1 \in 1 .. n
      BY <1>2, <2>4
    <3>2. lnk[s[k + 1]] = IF k + 1 = n THEN 0 ELSE s[(k + 1) + 1]
      BY <1>1, <3>1 DEF IsChain
    <3> QED  BY <1>2, <2>1, <2>2, <2>3, <2>4, <3>1, <3>2
  <2>5. CASE ~(k < n)
    BY <1>2, <2>2, <2>3, <2>5
  <2> QED  BY <2>4, <2>5
<1>7. \A k \in Nat : k \in T
  <2> HIDE DEF T
  <2> QED  BY <1>5, <1>6, InductionOn
<1>8. \A k \in 0 .. N : nth[k] = IF k < n THEN s[k + 1] ELSE 0
  BY <1>2, <1>7
<1>9. {nth[k] : k \in 0 .. N} \ {0} = M
  <2>1. ASSUME NEW k \in 0 .. N, nth[k] # 0  PROVE nth[k] \in M
    <3>1. k + 1 \in 1 .. n /\ nth[k] = s[k + 1]
      BY <1>2, <1>8, <2>1
    <3> QED  BY <1>1, <3>1
  <2>2. ASSUME NEW i \in 1 .. n  PROVE s[i] # 0 /\ \E k \in 0 .. N : nth[k] = s[i]
    <3>1. i - 1 \in 0 .. N /\ i - 1 < n /\ (i - 1) + 1 = i
      BY <1>2
    <3> QED  BY <1>2, <1>8, <3>1
  <2> QED  BY <1>1, <2>1, <2>2
<1> QED  BY <1>2, <1>8, <1>9 DEF Members, nth

\* A list without one of the requests is shorter than there are requests.
LEMMA Room ==
    ASSUME NEW n \in 0 .. MaxRequests, NEW s \in [1 .. n -> Requests],
           \A i, j \in 1 .. n : s[i] = s[j] => i = j,
           NEW r \in Requests, \A i \in 1 .. n : s[i] # r
    PROVE  n + 1 \in 0 .. MaxRequests
<1> SUFFICES ASSUME n = MaxRequests  PROVE FALSE
  BY Numbers
<1>1. IsFiniteSet(Requests) /\ Cardinality(Requests) = MaxRequests
  <2>1. r \in 1 .. MaxRequests /\ MaxRequests \in Nat
    BY Numbers DEF Requests
  <2> QED  BY <2>1, FS_Interval DEF Requests
<1>2. IsFiniteSet(Requests \ {r}) /\ Cardinality(Requests \ {r}) = MaxRequests - 1
  BY <1>1, FS_RemoveElement
<1>3. IsFiniteSet(1 .. n) /\ Cardinality(1 .. n) = MaxRequests
  BY <1>1 DEF Requests
<1>4. s \in [1 .. n -> Requests \ {r}]
  OBVIOUS
<1>5. \E i, j \in 1 .. n : i # j /\ s[i] = s[j]
  <2>1. Cardinality(Requests \ {r}) < Cardinality(1 .. n)
    BY <1>2, <1>3, Numbers
  <2> QED  BY <1>2, <1>3, <1>4, <2>1, FS_PigeonHole
<1> QED  BY <1>5

\* The ends of a list, and that it is closed under its links.
LEMMA ChainEnds ==
    ASSUME NEW lnk \in Links, NEW h, NEW M, Chain(h, lnk, M)
    PROVE  /\ M \subseteq Requests /\ h \in 0 .. MaxRequests
           /\ h = 0 <=> M = {}
           /\ h # 0 => h \in M
           /\ \A r \in M : lnk[r] # 0 => lnk[r] \in M /\ lnk[r] # h /\ lnk[r] # r
           /\ \A r, t \in M : lnk[r] = lnk[t] /\ lnk[r] # 0 => r = t
<1>0. PICK n \in 0 .. MaxRequests : \E t \in [1 .. n -> Requests] :
        IsChain(h, lnk, n, t) /\ M = {t[i] : i \in 1 .. n}
  BY DEF Chain
<1>1. PICK s \in [1 .. n -> Requests] :
        IsChain(h, lnk, n, s) /\ M = {s[i] : i \in 1 .. n}
  BY <1>0
<1>2. MaxRequests \in Nat /\ n \in Nat /\ \A i \in 1 .. n : s[i] # 0 /\ s[i] \in 0 .. MaxRequests
  BY <1>1, Numbers DEF Requests
<1>3. CASE n = 0
  BY <1>1, <1>2, <1>3 DEF IsChain
<1>4. CASE n # 0
  <2>1. 1 \in 1 .. n /\ h = s[1] /\ h # 0
    BY <1>1, <1>2, <1>4 DEF IsChain
  <2>2. ASSUME NEW i \in 1 .. n, lnk[s[i]] # 0
        PROVE  i + 1 \in 1 .. n /\ lnk[s[i]] = s[i + 1]
    BY <1>1, <1>2, <2>2 DEF IsChain
  <2>3. \A i, j \in 1 .. n : s[i] = s[j] => i = j
    BY <1>1 DEF IsChain
  <2>4. \A i \in 1 .. n : i + 1 \in 1 .. n => s[i + 1] # s[1] /\ s[i + 1] # s[i]
    BY <2>1, <2>3
  <2>5. ASSUME NEW i \in 1 .. n, NEW j \in 1 .. n, lnk[s[i]] = lnk[s[j]], lnk[s[i]] # 0
        PROVE  i = j
    <3>1. i + 1 \in 1 .. n /\ j + 1 \in 1 .. n /\ s[i + 1] = s[j + 1]
      BY <2>2, <2>5
    <3>2. i + 1 = j + 1
      BY <2>3, <3>1
    <3> QED  BY <3>2
  <2>6. ASSUME NEW r \in M  PROVE \E i \in 1 .. n : r = s[i]
    BY <1>1
  <2>7. ASSUME NEW r \in M, lnk[r] # 0
        PROVE  lnk[r] \in M /\ lnk[r] # h /\ lnk[r] # r
    BY <1>1, <2>1, <2>2, <2>4, <2>6, <2>7
  <2>8. ASSUME NEW r \in M, NEW t \in M, lnk[r] = lnk[t], lnk[r] # 0  PROVE r = t
    BY <2>5, <2>6, <2>8
  <2>9. M \subseteq Requests /\ h \in M /\ h \in 0 .. MaxRequests
    BY <1>1, <1>2, <2>1
  <2> QED  BY <2>1, <2>7, <2>8, <2>9
<1> QED  BY <1>3, <1>4

\* Links of sessions that are not in a list do not change it.
LEMMA ChainFrame ==
    ASSUME NEW lnk, NEW lnk2, NEW h, NEW M,
           Chain(h, lnk, M), \A r \in M : lnk2[r] = lnk[r]
    PROVE  Chain(h, lnk2, M)
<1>0. PICK n \in 0 .. MaxRequests : \E t \in [1 .. n -> Requests] :
        IsChain(h, lnk, n, t) /\ M = {t[i] : i \in 1 .. n}
  BY DEF Chain
<1>1. PICK s \in [1 .. n -> Requests] :
        IsChain(h, lnk, n, s) /\ M = {s[i] : i \in 1 .. n}
  BY <1>0
<1>2. IsChain(h, lnk2, n, s)
  BY <1>1 DEF IsChain
<1> QED  BY <1>1, <1>2 DEF Chain

\* The empty list.
LEMMA ChainNone == \A lnk : Chain(0, lnk, {})
<1> TAKE lnk
<1> DEFINE s == [i \in 1 .. 0 |-> 1]
<1>1. 0 \in 0 .. MaxRequests /\ s \in [1 .. 0 -> Requests]
  BY Numbers
<1>2. IsChain(0, lnk, 0, s)
  BY <1>1 DEF IsChain
<1>3. {} = {s[i] : i \in 1 .. 0}
  OBVIOUS
<1> HIDE DEF s
<1> QED  BY <1>1, <1>2, <1>3 DEF Chain

\* A session is put before the head.
LEMMA ChainPush ==
    ASSUME NEW lnk, NEW lnk2, NEW h, NEW M, Chain(h, lnk, M),
           NEW r \in Requests, r \notin M, lnk2[r] = h, \A t \in M : lnk2[t] = lnk[t]
    PROVE  Chain(r, lnk2, M \cup {r})
<1>0. PICK n \in 0 .. MaxRequests : \E t \in [1 .. n -> Requests] :
        IsChain(h, lnk, n, t) /\ M = {t[i] : i \in 1 .. n}
  BY DEF Chain
<1>1. PICK s \in [1 .. n -> Requests] :
        IsChain(h, lnk, n, s) /\ M = {s[i] : i \in 1 .. n}
  BY <1>0
<1> DEFINE t == [i \in 1 .. n + 1 |-> IF i = 1 THEN r ELSE s[i - 1]]
<1>2. n \in Nat /\ n + 1 \in 0 .. MaxRequests
  <2>1. \A i, j \in 1 .. n : s[i] = s[j] => i = j
    BY <1>1 DEF IsChain
  <2> QED  BY <1>1, <2>1, Room
<1>3. \A i \in 1 .. n + 1 : i # 1 => i - 1 \in 1 .. n
  BY <1>2
<1>4. t \in [1 .. n + 1 -> Requests]
  BY <1>1, <1>3
<1>5. t[1] = r /\ \A i \in 1 .. n : i + 1 \in 1 .. n + 1 /\ t[i + 1] = s[i]
  BY <1>2
<1>6. \A i \in 1 .. n + 1 : i = 1 \/ (i - 1 \in 1 .. n /\ t[i] = s[i - 1])
  BY <1>2
<1> HIDE DEF t
<1>7. ASSUME NEW i \in 1 .. n + 1
      PROVE  lnk2[t[i]] = IF i = n + 1 THEN 0 ELSE t[i + 1]
  <2>1. CASE i = 1
    <3>1. n # 0 => 1 \in 1 .. n
      BY <1>2
    <3> QED  BY <1>1, <1>2, <1>5, <2>1, <3>1 DEF IsChain
  <2>2. CASE i # 1
    <3>1. i - 1 \in 1 .. n /\ t[i] = s[i - 1] /\ s[i - 1] \in M
      BY <1>1, <1>6, <2>2
    <3>2. lnk2[t[i]] = IF i - 1 = n THEN 0 ELSE s[(i - 1) + 1]
      BY <1>1, <3>1 DEF IsChain
    <3>3. (i - 1) + 1 = i /\ (i - 1 = n <=> i = n + 1)
      BY <1>2
    <3>4. i # n + 1 => i \in 1 .. n
      BY <1>2
    <3> QED  BY <1>5, <3>2, <3>3, <3>4
  <2> QED  BY <2>1, <2>2
<1>8. ASSUME NEW i \in 1 .. n + 1, NEW j \in 1 .. n + 1, t[i] = t[j]
      PROVE  i = j
  <2>1. \A k \in 1 .. n : s[k] # r
    BY <1>1
  <2>2. \A k, l \in 1 .. n : s[k] = s[l] => k = l
    BY <1>1 DEF IsChain
  <2>3. CASE i = 1 \/ j = 1
    BY <1>5, <1>6, <1>8, <2>1, <2>3
  <2>4. CASE i # 1 /\ j # 1
    <3>1. i - 1 \in 1 .. n /\ j - 1 \in 1 .. n /\ s[i - 1] = s[j - 1]
      BY <1>6, <1>8, <2>4
    <3>2. i - 1 = j - 1
      BY <2>2, <3>1
    <3> QED  BY <1>2, <3>2
  <2> QED  BY <2>3, <2>4
<1>9. IsChain(r, lnk2, n + 1, t)
  BY <1>2, <1>4, <1>5, <1>7, <1>8 DEF IsChain
<1>10. M \cup {r} = {t[i] : i \in 1 .. n + 1}
  <2>1. 1 \in 1 .. n + 1
    BY <1>2
  <2>2. \A x \in M \cup {r} : \E i \in 1 .. n + 1 : x = t[i]
    BY <1>1, <1>5, <2>1
  <2>3. \A i \in 1 .. n + 1 : t[i] \in M \cup {r}
    BY <1>1, <1>5, <1>6
  <2> QED  BY <2>2, <2>3
<1> QED  BY <1>2, <1>4, <1>9, <1>10 DEF Chain

\* A session is put behind the last one.
LEMMA ChainAppend ==
    ASSUME NEW lnk, NEW lnk2, NEW h, NEW M, Chain(h, lnk, M), h # 0,
           NEW r \in Requests, r \notin M, lnk2[r] = 0,
           \A t \in M : lnk2[t] = IF lnk[t] = 0 THEN r ELSE lnk[t]
    PROVE  Chain(h, lnk2, M \cup {r})
<1>0. PICK n \in 0 .. MaxRequests : \E t \in [1 .. n -> Requests] :
        IsChain(h, lnk, n, t) /\ M = {t[i] : i \in 1 .. n}
  BY DEF Chain
<1>1. PICK s \in [1 .. n -> Requests] :
        IsChain(h, lnk, n, s) /\ M = {s[i] : i \in 1 .. n}
  BY <1>0
<1> DEFINE t == [i \in 1 .. n + 1 |-> IF i = n + 1 THEN r ELSE s[i]]
<1>2. n \in Nat /\ n + 1 \in 0 .. MaxRequests /\ n # 0
  <2>1. \A i, j \in 1 .. n : s[i] = s[j] => i = j
    BY <1>1 DEF IsChain
  <2>2. n # 0
    BY <1>1 DEF IsChain
  <2> QED  BY <1>1, <2>1, <2>2, Room
<1>3. \A i \in 1 .. n + 1 : i # n + 1 => i \in 1 .. n
  BY <1>2
<1>4. t \in [1 .. n + 1 -> Requests]
  BY <1>1, <1>3
<1>5. t[n + 1] = r /\ \A i \in 1 .. n : i \in 1 .. n + 1 /\ i # n + 1 /\ t[i] = s[i]
  BY <1>2
<1> HIDE DEF t
<1>6. ASSUME NEW i \in 1 .. n + 1
      PROVE  lnk2[t[i]] = IF i = n + 1 THEN 0 ELSE t[i + 1]
  <2>1. CASE i = n + 1
    BY <1>5, <2>1
  <2>2. CASE i # n + 1
    <3>1. i \in 1 .. n /\ t[i] = s[i] /\ s[i] \in M
      BY <1>1, <1>3, <1>5, <2>2
    <3>2. lnk[s[i]] = IF i = n THEN 0 ELSE s[i + 1]
      BY <1>1, <3>1 DEF IsChain
    <3>3. CASE i = n
      BY <1>5, <3>1, <3>2, <3>3
    <3>4. CASE i # n
      <4>1. i + 1 \in 1 .. n /\ s[i + 1] # 0
        BY <1>2, <3>1, <3>4, Numbers
      <4> QED  BY <1>5, <2>2, <3>1, <3>2, <3>4, <4>1
    <3> QED  BY <3>3, <3>4
  <2> QED  BY <2>1, <2>2
<1>7. ASSUME NEW i \in 1 .. n + 1, NEW j \in 1 .. n + 1, t[i] = t[j]
      PROVE  i = j
  <2>1. \A k \in 1 .. n : s[k] # r
    BY <1>1
  <2>2. \A k, l \in 1 .. n : s[k] = s[l] => k = l
    BY <1>1 DEF IsChain
  <2> QED  BY <1>3, <1>5, <1>7, <2>1, <2>2
<1>8. h = t[1]
  <2>1. 1 \in 1 .. n
    BY <1>2
  <2> QED  BY <1>1, <1>2, <1>5, <2>1 DEF IsChain
<1>9. IsChain(h, lnk2, n + 1, t)
  BY <1>2, <1>4, <1>6, <1>7, <1>8 DEF IsChain
<1>10. M \cup {r} = {t[i] : i \in 1 .. n + 1}
  <2>1. n + 1 \in 1 .. n + 1
    BY <1>2
  <2>2. \A x \in M \cup {r} : \E i \in 1 .. n + 1 : x = t[i]
    BY <1>1, <1>5, <2>1
  <2>3. \A i \in 1 .. n + 1 : t[i] \in M \cup {r}
    BY <1>1, <1>3, <1>5
  <2> QED  BY <2>2, <2>3
<1>11. \E u \in [1 .. n + 1 -> Requests] :
         IsChain(h, lnk2, n + 1, u) /\ M \cup {r} = {u[i] : i \in 1 .. n + 1}
  BY <1>4, <1>9, <1>10, Zenon
<1> QED  BY <1>2, <1>11 DEF Chain

\* The head is taken out.
LEMMA ChainPop ==
    ASSUME NEW lnk, NEW lnk2, NEW h, NEW M, Chain(h, lnk, M), h # 0,
           \A t \in M \ {h} : lnk2[t] = lnk[t]
    PROVE  Chain(lnk[h], lnk2, M \ {h})
<1>0. PICK n \in 0 .. MaxRequests : \E t \in [1 .. n -> Requests] :
        IsChain(h, lnk, n, t) /\ M = {t[i] : i \in 1 .. n}
  BY DEF Chain
<1>1. PICK s \in [1 .. n -> Requests] :
        IsChain(h, lnk, n, s) /\ M = {s[i] : i \in 1 .. n}
  BY <1>0
<1>2. n \in Nat /\ n # 0 /\ n - 1 \in 0 .. MaxRequests /\ 1 \in 1 .. n /\ h = s[1]
  BY <1>1, Numbers DEF IsChain
<1>3. \A i, j \in 1 .. n : s[i] = s[j] => i = j
  BY <1>1 DEF IsChain
<1> DEFINE t == [i \in 1 .. n - 1 |-> s[i + 1]]
<1>4. \A i \in 1 .. n - 1 : i + 1 \in 1 .. n /\ i + 1 # 1
  BY <1>2
<1>5. t \in [1 .. n - 1 -> Requests] /\ \A i \in 1 .. n - 1 : t[i] = s[i + 1]
  BY <1>1, <1>4
<1> HIDE DEF t
<1>6. ASSUME NEW i \in 1 .. n - 1
      PROVE  lnk2[t[i]] = IF i = n - 1 THEN 0 ELSE t[i + 1]
  <2>1. t[i] = s[i + 1] /\ i + 1 \in 1 .. n /\ s[i + 1] \in M /\ s[i + 1] # h
    BY <1>1, <1>2, <1>3, <1>4, <1>5
  <2>2. lnk2[s[i + 1]] = IF i + 1 = n THEN 0 ELSE s[(i + 1) + 1]
    BY <1>1, <2>1 DEF IsChain
  <2>3. (i + 1 = n <=> i = n - 1) /\ (i # n - 1 => i + 1 \in 1 .. n - 1)
    BY <1>2
  <2> QED  BY <1>5, <2>1, <2>2, <2>3
<1>7. ASSUME NEW i \in 1 .. n - 1, NEW j \in 1 .. n - 1, t[i] = t[j]
      PROVE  i = j
  <2>1. i + 1 = j + 1
    BY <1>3, <1>4, <1>5, <1>7
  <2> QED  BY <1>2, <2>1
<1>8. lnk[h] = IF n - 1 = 0 THEN 0 ELSE t[1]
  <2>1. lnk[h] = IF 1 = n THEN 0 ELSE s[1 + 1]
    BY <1>1, <1>2 DEF IsChain
  <2>2. n # 1 => 1 \in 1 .. n - 1
    BY <1>2
  <2> QED  BY <1>2, <1>5, <2>1, <2>2
<1>9. IsChain(lnk[h], lnk2, n - 1, t)
  BY <1>2, <1>5, <1>6, <1>7, <1>8 DEF IsChain
<1>10. M \ {h} = {t[i] : i \in 1 .. n - 1}
  <2>1. ASSUME NEW i \in 1 .. n, s[i] # h  PROVE \E j \in 1 .. n - 1 : t[j] = s[i]
    <3>1. i - 1 \in 1 .. n - 1 /\ (i - 1) + 1 = i
      BY <1>2, <2>1
    <3> QED  BY <1>5, <3>1
  <2>2. \A i \in 1 .. n - 1 : t[i] \in M \ {h}
    BY <1>1, <1>2, <1>3, <1>4, <1>5
  <2>3. \A x \in M \ {h} : \E j \in 1 .. n - 1 : x = t[j]
    BY <1>1, <2>1
  <2> QED  BY <2>2, <2>3
<1> QED  BY <1>2, <1>5, <1>9, <1>10 DEF Chain

\* A session x behind p is taken out.
LEMMA ChainRemove ==
    ASSUME NEW lnk, NEW lnk2, NEW h, NEW M, Chain(h, lnk, M),
           NEW p \in M, lnk[p] # 0, lnk2[p] = lnk[lnk[p]],
           \A t \in M \ {p, lnk[p]} : lnk2[t] = lnk[t]
    PROVE  Chain(h, lnk2, M \ {lnk[p]})
<1>0. PICK n \in 0 .. MaxRequests : \E t \in [1 .. n -> Requests] :
        IsChain(h, lnk, n, t) /\ M = {t[i] : i \in 1 .. n}
  BY DEF Chain
<1>1. PICK s \in [1 .. n -> Requests] :
        IsChain(h, lnk, n, s) /\ M = {s[i] : i \in 1 .. n}
  BY <1>0
<1>2. PICK m \in 1 .. n : p = s[m]
  BY <1>1
<1> DEFINE x == lnk[p]
           t == [i \in 1 .. n - 1 |-> IF i <= m THEN s[i] ELSE s[i + 1]]
<1>3. n \in Nat /\ m + 1 \in 1 .. n /\ x = s[m + 1] /\ n - 1 \in 0 .. MaxRequests /\ n # 1
      /\ m \in 1 .. n - 1
  <2>1. n \in Nat /\ MaxRequests \in Nat
    BY Numbers
  <2>2. lnk[s[m]] = IF m = n THEN 0 ELSE s[m + 1]
    BY <1>1 DEF IsChain
  <2> QED  BY <1>2, <2>1, <2>2
<1>4. \A i, j \in 1 .. n : s[i] = s[j] => i = j
  BY <1>1 DEF IsChain
<1>5. \A i \in 1 .. n - 1 : i \in 1 .. n /\ i + 1 \in 1 .. n
  BY <1>3
<1>6. t \in [1 .. n - 1 -> Requests]
      /\ \A i \in 1 .. n - 1 : t[i] = IF i <= m THEN s[i] ELSE s[i + 1]
  BY <1>1, <1>5
<1> HIDE DEF t, x
<1>7. ASSUME NEW i \in 1 .. n - 1
      PROVE  lnk2[t[i]] = IF i = n - 1 THEN 0 ELSE t[i + 1]
  <2>1. i \in 1 .. n /\ i + 1 \in 1 .. n /\ i \in Nat
    BY <1>5
  <2>2. CASE i < m
    <3>1. t[i] = s[i] /\ s[i] \in M /\ s[i] # p /\ s[i] # x /\ i # n
      BY <1>1, <1>2, <1>3, <1>4, <1>6, <2>1, <2>2
    <3>2. lnk2[s[i]] = s[i + 1]
      BY <1>1, <2>1, <3>1 DEF IsChain, x
    <3>3. i + 1 \in 1 .. n - 1 /\ i + 1 <= m /\ i # n - 1
      BY <1>3, <2>1, <2>2
    <3> QED  BY <1>6, <3>1, <3>2, <3>3
  <2>3. CASE i = m
    <3>1. t[i] = p /\ lnk2[p] = lnk[x]
      BY <1>2, <1>3, <1>6, <2>3 DEF x
    <3>2. lnk[x] = IF m + 1 = n THEN 0 ELSE s[(m + 1) + 1]
      BY <1>1, <1>3 DEF IsChain
    <3>3. CASE m + 1 = n
      BY <1>3, <2>3, <3>1, <3>2, <3>3
    <3>4. CASE m + 1 # n
      <4>1. i + 1 \in 1 .. n - 1 /\ ~(i + 1 <= m) /\ i # n - 1
        BY <1>3, <2>1, <2>3, <3>4
      <4> QED  BY <1>6, <2>3, <3>1, <3>2, <3>4, <4>1
    <3> QED  BY <3>3, <3>4
  <2>4. CASE i > m
    <3>1. t[i] = s[i + 1] /\ s[i + 1] \in M /\ s[i + 1] # p /\ s[i + 1] # x
      BY <1>1, <1>2, <1>3, <1>4, <1>6, <2>1, <2>4
    <3>2. lnk2[s[i + 1]] = IF i + 1 = n THEN 0 ELSE s[(i + 1) + 1]
      BY <1>1, <2>1, <3>1 DEF IsChain, x
    <3>3. (i + 1 = n <=> i = n - 1) /\ (i # n - 1 => i + 1 \in 1 .. n - 1 /\ ~(i + 1 <= m))
      BY <1>3, <2>1, <2>4
    <3> QED  BY <1>6, <3>1, <3>2, <3>3
  <2> QED  BY <1>3, <2>1, <2>2, <2>3, <2>4
<1>8. ASSUME NEW i \in 1 .. n - 1, NEW j \in 1 .. n - 1, t[i] = t[j]
      PROVE  i = j
  <2>1. i \in 1 .. n /\ i + 1 \in 1 .. n /\ j \in 1 .. n /\ j + 1 \in 1 .. n
    BY <1>5
  <2>2. (IF i <= m THEN i ELSE i + 1) = (IF j <= m THEN j ELSE j + 1)
    BY <1>4, <1>6, <1>8, <2>1
  <2> QED  BY <1>3, <2>1, <2>2
<1>9. h = t[1]
  <2>1. 1 \in 1 .. n - 1 /\ 1 <= m
    BY <1>3
  <2> QED  BY <1>1, <1>3, <1>6, <2>1 DEF IsChain
<1>10. IsChain(h, lnk2, n - 1, t)
  BY <1>3, <1>6, <1>7, <1>8, <1>9 DEF IsChain
<1>11. M \ {x} = {t[i] : i \in 1 .. n - 1}
  <2>1. ASSUME NEW i \in 1 .. n, s[i] # x  PROVE \E j \in 1 .. n - 1 : t[j] = s[i]
    <3>1. CASE i <= m
      <4>1. i \in 1 .. n - 1
        BY <1>3, <3>1
      <4> QED  BY <1>6, <3>1, <4>1
    <3>2. CASE i > m
      <4>1. i # m + 1
        BY <1>3, <2>1
      <4>2. i - 1 \in 1 .. n - 1 /\ ~(i - 1 <= m) /\ (i - 1) + 1 = i
        BY <1>3, <3>2, <4>1
      <4> QED  BY <1>6, <4>2
    <3> QED  BY <1>3, <3>1, <3>2
  <2>2. ASSUME NEW i \in 1 .. n - 1  PROVE t[i] \in M \ {x}
    <3>1. i <= m => i # m + 1
      BY <1>3
    <3>2. ~(i <= m) => i + 1 # m + 1
      BY <1>3
    <3> QED  BY <1>1, <1>3, <1>4, <1>5, <1>6, <3>1, <3>2
  <2>3. \A y \in M \ {x} : \E j \in 1 .. n - 1 : y = t[j]
    BY <1>1, <2>1
  <2> QED  BY <2>2, <2>3
<1> QED  BY <1>3, <1>6, <1>10, <1>11 DEF Chain, x

-----------------------------------------------------------------------------
(* The agent sessions: types, and what the passes make of them.            *)

Idle == pc \in {"main", "scan", "queue"}
Working == pc \in {"pass", "getnext", "handled"}

IsSet(r) == asp[r].command = "SET"

Statuses == {"ok", "error", "COMMITFAILED", "UNDOFAILED"}
Modes == {"", "BEGIN", "RESERVE1", "RESERVE2", "ACTION", "COMMIT", "UNDO", "FREE",
          "SUCCESS", "FAILURE"}
Binding == [owner : Owners, delegated : BOOLEAN, status : Statuses, found : BOOLEAN]

Asp(r) ==
    [stage : {"new", "refused", "open", "answered", "failed"},
     command : {"", "GET", "GETNEXT", "SET"},
     mode : Modes,
     status : Statuses,
     index : 0 .. Vars[r],
     var : [Bindings(r) -> Binding],
     mixed : BOOLEAN]

AspOK == asp = [r \in Requests |-> asp[r]] /\ \A r \in Requests : asp[r] \in Asp(r)

\* A set of numbers up to a bound has a lowest and a highest.
LEMMA Lowest ==
    ASSUME NEW n \in Nat, NEW T, T \subseteq 0 .. n, T # {}
    PROVE  /\ (CHOOSE v \in T : \A w \in T : v <= w) \in T
           /\ (CHOOSE v \in T : \A w \in T : v >= w) \in T
<1>1. \E v \in T : \A w \in T : v <= w
  <2>1. T \subseteq Nat
    OBVIOUS
  <2> QED  BY <2>1, LeastOf
<1>2. \E v \in T : \A w \in T : v >= w
  <2>1. PICK v \in T : \A w \in T : w <= v
    BY GreatestOf
  <2>2. \A w \in T : v >= w
    BY <2>1
  <2> QED  BY <2>2
<1> QED  BY <1>1, <1>2

\* The bindings of a request that are in a state are numbers up to Vars.
LEMMA VarNumbers ==
    ASSUME NEW r \in Requests
    PROVE  Vars[r] \in Nat /\ Vars[r] # 0 /\ Bindings(r) \subseteq 0 .. Vars[r]
           /\ 1 \in Bindings(r)
BY SnmpAgentAssumption DEF Requests, Bindings

\* What the checks change: index and status, and those only if a binding failed.
Marks(a, b) == b = a \/ \E i \in DOMAIN a.var : \E e \in Statuses \ {"ok"} :
                           i # 0 /\ b = [a EXCEPT !.index = i, !.status = e]

\* netsnmp_check_requests_status records an error or nothing, never NOERROR.
LEMMA CheckedMarks ==
    ASSUME NEW r \in Requests, NEW a \in Asp(r)
    PROVE  /\ Marks(a, Checked(a))
           /\ \A e \in Statuses \ {"ok"} : Marks(a, CheckedFor(e, a))
           /\ ~Agreed(a) /\ a.index = 0 => Checked(a).status # "ok"
<1>1. /\ a.var \in [Bindings(r) -> Binding] /\ DOMAIN a.var = Bindings(r)
      /\ \A v \in Bindings(r) : a.var[v].status \in Statuses /\ v # 0
      /\ Vars[r] \in Nat /\ Bindings(r) \subseteq 0 .. Vars[r]
  <2>1. a.var \in [Bindings(r) -> Binding]
    BY DEF Asp
  <2>2. \A v \in Bindings(r) : v # 0
    BY DEF Bindings
  <2>3. \A v \in Bindings(r) : a.var[v].status \in Statuses
    <3>1. \A b \in Binding : b.status \in Statuses
      BY DEF Binding
    <3> QED  BY <2>1, <3>1
  <2> QED  BY VarNumbers, <2>1, <2>2, <2>3
<1>2. /\ Marks(a, Checked(a))
      /\ ~Agreed(a) /\ a.index = 0 => Checked(a).status # "ok"
  <2> DEFINE failed == {v \in DOMAIN a.var : a.var[v].status # "ok"}
             lowest == CHOOSE v \in failed : \A w \in failed : v <= w
  <2>1. Checked(a) = IF failed # {} /\ (a.index = 0 \/ lowest < a.index)
                     THEN [a EXCEPT !.index = lowest, !.status = a.var[lowest].status]
                     ELSE a
    BY DEF Checked
  <2>2. failed # {} => lowest \in failed
    <3>1. failed \subseteq 0 .. Vars[r]
      BY <1>1
    <3> HIDE DEF failed
    <3> QED  BY <1>1, <3>1, Lowest
  <2>3. failed # {} => a.var[lowest].status \in Statuses \ {"ok"} /\ lowest \in DOMAIN a.var
    BY <1>1, <2>2
  <2>4. ~Agreed(a) => failed # {}
    BY DEF Agreed
  <2>5. Marks(a, Checked(a))
    <3> HIDE DEF failed, lowest
    <3> QED  BY <1>1, <2>1, <2>3 DEF Marks
  <2>6. ASSUME ~Agreed(a), a.index = 0  PROVE Checked(a).status # "ok"
    <3>1. Checked(a) = [a EXCEPT !.index = lowest, !.status = a.var[lowest].status]
      BY <2>1, <2>4, <2>6
    <3> HIDE DEF failed, lowest
    <3> QED  BY <2>3, <2>4, <2>6, <3>1 DEF Asp
  <2> QED  BY <2>5, <2>6
<1>3. ASSUME NEW e \in Statuses \ {"ok"}  PROVE Marks(a, CheckedFor(e, a))
  <2> DEFINE failed == {v \in DOMAIN a.var : a.var[v].status = e}
             last == CHOOSE v \in failed : \A w \in failed : v >= w
  <2>1. CheckedFor(e, a) = IF failed # {} THEN [a EXCEPT !.index = last, !.status = e] ELSE a
    BY DEF CheckedFor
  <2>2. failed # {} => last \in failed
    <3>1. failed \subseteq 0 .. Vars[r]
      BY <1>1
    <3> HIDE DEF failed
    <3> QED  BY <1>1, <3>1, Lowest
  <2>3. failed # {} => last \in DOMAIN a.var
    BY <2>2
  <2> HIDE DEF failed, last
  <2> QED  BY <1>1, <2>1, <2>3 DEF Marks
<1> QED  BY <1>2, <1>3

\* A session that is marked is the same otherwise.
LEMMA Marked ==
    ASSUME NEW r \in Requests, NEW a \in Asp(r), NEW b, Marks(a, b)
    PROVE  /\ b \in Asp(r)
           /\ b.stage = a.stage /\ b.command = a.command /\ b.mode = a.mode
           /\ b.var = a.var /\ b.mixed = a.mixed
           /\ b.status # a.status => b.status # "ok"
           /\ b.index = a.index \/ b.status # "ok"
<1>1. CASE b = a
  BY <1>1
<1>2. ASSUME NEW i \in DOMAIN a.var, NEW e \in Statuses \ {"ok"},
             b = [a EXCEPT !.index = i, !.status = e]
      PROVE  /\ b \in Asp(r)
             /\ b.stage = a.stage /\ b.command = a.command /\ b.mode = a.mode
             /\ b.var = a.var /\ b.mixed = a.mixed /\ b.status = e
  <2>1. i \in 0 .. Vars[r]
    BY VarNumbers DEF Asp
  <2> QED  BY <1>2, <2>1 DEF Asp
<1> QED  BY <1>1, <1>2 DEF Marks

\* A handler leaves a binding a binding.
LEMMA HandledType ==
    ASSUME NEW b \in Binding, NEW mode
    PROVE  Handled(mode, b) \subseteq Binding
BY DEF Handled, Binding, Failure, Statuses

\* The same in every mode; only COMMIT and UNDO check for their own error.
LEMMA CheckedInMarks ==
    ASSUME NEW r \in Requests, NEW a \in Asp(r), NEW mode
    PROVE  /\ Marks(a, CheckedIn(mode, a))
           /\ mode \notin {"COMMIT", "UNDO"} => CheckedIn(mode, a) = Checked(a)
<1>1. {"COMMITFAILED", "UNDOFAILED"} \subseteq Statuses \ {"ok"}
  BY DEF Statuses
<1>2. /\ Marks(a, Checked(a))
      /\ Marks(a, CheckedFor("COMMITFAILED", a)) /\ Marks(a, CheckedFor("UNDOFAILED", a))
  BY <1>1, CheckedMarks
<1> QED  BY <1>2 DEF CheckedIn

\* What a pass leaves alone, and what its status says.
LEMMA PassOutcome ==
    ASSUME NEW r \in Requests, NEW a \in Asp(r), NEW mode, NEW p \in Passes(mode, a)
    PROVE  /\ p.asp \in Asp(r)
           /\ p.asp.stage = a.stage /\ p.asp.command = a.command
           /\ p.asp.mode = a.mode /\ p.asp.mixed = a.mixed
           /\ Final(p) \in Statuses
           /\ Final(p) = "ok" => p.asp.status = "ok"
           /\ a.status # "ok" => p.asp.status # "ok"
           /\ p.asp.index = a.index \/ p.asp.status # "ok"
           /\ mode \notin {"COMMIT", "UNDO"} /\ a.index = 0 /\ p.asp.status = "ok"
                => Agreed(p.asp)
<1>1. PICK var \in [Bindings(r) -> UNION {Handled(mode, a.var[v]) : v \in Bindings(r)}],
           failed \in BOOLEAN :
        /\ \A v \in Bindings(r) : var[v] \in Handled(mode, a.var[v])
        /\ p = [asp |-> CheckedIn(mode, [a EXCEPT !.var = var]), failed |-> failed]
  <2>1. DOMAIN a.var = Bindings(r)
    BY DEF Asp
  <2>2. PICK var \in Outcomes(mode, a), failed \in BOOLEAN :
               p = [asp |-> CheckedIn(mode, [a EXCEPT !.var = var]), failed |-> failed]
    BY DEF Passes
  <2> QED  BY <2>1, <2>2 DEF Outcomes
<1> DEFINE b == [a EXCEPT !.var = var]
<1>2. var \in [Bindings(r) -> Binding]
  <2>1. \A v \in Bindings(r) : a.var[v] \in Binding
    BY DEF Asp
  <2>2. \A v \in Bindings(r) : Handled(mode, a.var[v]) \subseteq Binding
    BY <2>1, HandledType
  <2> QED  BY <1>1, <2>2
<1>3. /\ b \in Asp(r)
      /\ b.stage = a.stage /\ b.command = a.command /\ b.mode = a.mode
      /\ b.status = a.status /\ b.index = a.index /\ b.mixed = a.mixed
  BY <1>2 DEF Asp
<1>4. p.asp = CheckedIn(mode, b)
  BY <1>1
<1> HIDE DEF b
<1>5. Marks(b, p.asp)
  BY <1>3, <1>4, CheckedInMarks
<1>6. /\ p.asp \in Asp(r)
      /\ p.asp.stage = a.stage /\ p.asp.command = a.command /\ p.asp.mode = a.mode
      /\ p.asp.var = b.var /\ p.asp.mixed = a.mixed
      /\ p.asp.status # a.status => p.asp.status # "ok"
      /\ p.asp.index = a.index \/ p.asp.status # "ok"
  BY <1>3, <1>5, Marked
<1>7. p.asp.status \in Statuses
  BY <1>6 DEF Asp
<1>8. ASSUME mode \notin {"COMMIT", "UNDO"}, a.index = 0, p.asp.status = "ok"
      PROVE  Agreed(p.asp)
  <2>1. p.asp = Checked(b)
    BY <1>3, <1>4, <1>8, CheckedInMarks
  <2>2. Agreed(b)
    BY <1>3, <1>8, <2>1, CheckedMarks
  <2> QED  BY <1>6, <2>2 DEF Agreed
<1> QED  BY <1>6, <1>7, <1>8 DEF Final, Statuses

\* netsnmp_reassign_requests leaves a binding a binding.
LEMMA ReassignedType ==
    ASSUME NEW b \in Binding
    PROVE  Reassigned(b) \in Binding
<1> DEFINE later == {o \in Owners \ closed : o > b.owner}
           next == CHOOSE o \in later : \A p \in later : o <= p
<1>1. Reassigned(b) = IF b.found THEN b
                      ELSE IF later # {} THEN [b EXCEPT !.owner = next, !.status = "ok"]
                      ELSE [b EXCEPT !.found = TRUE, !.status = "ok"]
  BY DEF Reassigned
<1>2. later # {} => next \in Owners
  <2>1. later \subseteq 0 .. Subagents /\ Subagents \in Nat
    BY SnmpAgentAssumption DEF Owners
  <2>2. later # {} => next \in later
    <3> HIDE DEF later
    <3> QED  BY <2>1, Lowest
  <2> QED  BY <2>2
<1> HIDE DEF later, next
<1> QED  BY <1>1, <1>2 DEF Binding, Statuses

-----------------------------------------------------------------------------
(* The invariant.  Delegateds and Queued are the sessions in the two       *)
(* lists; their parts are named for what they say.                         *)

Delegateds == InList(delegatedList)
Queued == InList(queuedList)

AgentTypeOK ==
    /\ AspOK
    /\ link \in Links
    /\ {delegatedList, queuedList, processingSet, cur, scan.next, scan.prev}
          \subseteq 0 .. MaxRequests
    /\ scan = [next |-> scan.next, prev |-> scan.prev]
    /\ pc \in {"main", "scan", "queue", "handle", "pass", "getnext", "handled"}
    /\ caller \in {"packet", "queue", "scan"}
    /\ status \in Statuses
    /\ closed \subseteq 1 .. Subagents

\* The lists are chains that have no session in common.
Lists ==
    /\ Chain(delegatedList, link, Delegateds)
    /\ Chain(queuedList, link, Queued)
    /\ Delegateds \cap Queued = {}

\* A request that is open is in one of the lists or the one that the thread
\* works on, and only what is open is there.
Places ==
    /\ cur = 0 <=> Idle
    /\ cur \notin Delegateds \cup Queued
    /\ \A r \in Requests :
         asp[r].stage = "open" <=> r \in Delegateds \cup Queued \cup {cur}
    /\ \A r \in Requests : asp[r].stage = "new" => link[r] = 0
    /\ pc = "handle" /\ caller = "packet" => link[cur] = 0
    /\ Idle => caller = "packet"
    /\ pc = "handle" => caller # "scan"

\* The scan goes on behind a session that is still in the list.
Scanning ==
    pc = "scan" \/ caller = "scan" =>
        IF scan.prev = 0 THEN scan.next = delegatedList
        ELSE scan.prev \in Delegateds /\ scan.next = link[scan.prev]

\* A SET that is worked on is netsnmp_processing_set.
SetIsAlone ==
    /\ processingSet # 0 =>
         /\ asp[processingSet].stage = "open" /\ IsSet(processingSet)
         /\ processingSet \in Delegateds \cup {cur, queuedList}
    /\ \A r \in Delegateds : IsSet(r) => processingSet = r
    /\ Working /\ IsSet(cur) => processingSet = cur
    /\ Working /\ ~IsSet(cur) /\ caller # "scan" => processingSet = 0

\* What is queued waits for netsnmp_processing_set.
Queueing ==
    /\ pc = "main" /\ queuedList # 0 => processingSet # 0
    /\ pc = "handle" /\ caller = "packet" =>
         (queuedList # 0 => processingSet # 0) /\ processingSet # cur
    /\ Working /\ caller = "packet" => queuedList = 0
    /\ pc = "queue" =>
         processingSet = 0 \/ (processingSet = queuedList /\ delegatedList = 0)
    /\ pc = "handle" /\ caller = "queue" =>
         processingSet \in {0, cur} /\ (IsSet(cur) => delegatedList = 0)

\* A session that waits to be handled has not been touched; a SET that waits for
\* handlers, or is about to be passed to them, is in a mode that has a next one.
Untouched(a) ==
    /\ a.mode = "" /\ a.status = "ok" /\ a.index = 0 /\ a.mixed = FALSE
    /\ \A v \in DOMAIN a.var : a.var[v].status = "ok" /\ a.var[v].delegated = FALSE

Running == Modes \ {"", "SUCCESS", "FAILURE"}

Phases ==
    /\ \A r \in Requests : asp[r].stage = "open" => asp[r].command # ""
    /\ pc = "getnext" => ~IsSet(cur)
    /\ \A r \in Requests :
         asp[r].stage = "new" \/ r \in Queued \/ (pc = "handle" /\ r = cur) =>
             Untouched(asp[r])
    /\ \A r \in Delegateds : IsSet(r) => asp[r].mode \in Running
    /\ pc = "pass" /\ IsSet(cur) => asp[cur].mode \in Running /\ ~Delegated(asp[cur])
    /\ pc = "handled" /\ IsSet(cur) /\ Delegated(asp[cur]) => asp[cur].mode \in Running

AgentInv ==
    AgentTypeOK /\ Lists /\ Places /\ Scanning /\ SetIsAlone /\ Queueing /\ Phases

\* The lists of the model are the members of the chains, now and then.
LEMMA ListsAre ==
    /\ Delegateds = Members(delegatedList, link)
    /\ Queued = Members(queuedList, link)
    /\ Delegateds' = Members(delegatedList', link')
    /\ Queued' = Members(queuedList', link')
BY DEF Delegateds, Queued, Members, InList, Nth, NthOf

\* A chain is the list it is said to be.
LEMMA ListsBecome ==
    ASSUME link' \in Links, NEW M, NEW N,
           Chain(delegatedList', link', M), Chain(queuedList', link', N), M \cap N = {}
    PROVE  Lists' /\ Delegateds' = M /\ Queued' = N
BY ListsAre, ChainMembers DEF Lists

\* What the proofs use of the two chains.
LEMMA ListFacts ==
    ASSUME AgentTypeOK, Lists
    PROVE  /\ Delegateds \subseteq Requests /\ Queued \subseteq Requests
           /\ delegatedList = 0 <=> Delegateds = {}
           /\ queuedList = 0 <=> Queued = {}
           /\ delegatedList # 0 => delegatedList \in Delegateds
           /\ queuedList # 0 => queuedList \in Queued
           /\ \A r \in Delegateds : link[r] # 0 =>
                link[r] \in Delegateds /\ link[r] # delegatedList /\ link[r] # r
           /\ 0 \notin Delegateds \cup Queued
<1>1. link \in Links /\ Chain(delegatedList, link, Delegateds) /\ Chain(queuedList, link, Queued)
  BY DEF AgentTypeOK, Lists
<1> QED  BY <1>1, ChainEnds, Numbers

\* Steps that touch no pointer keep the lists.
LEMMA ListsKept ==
    ASSUME AgentTypeOK, Lists, UNCHANGED <<link, delegatedList, queuedList>>
    PROVE  Lists' /\ Delegateds' = Delegateds /\ Queued' = Queued
BY ListsAre DEF Lists

\* netsnmp_check_for_delegated_and_add puts a session before the head.
LEMMA Delegates ==
    ASSUME AgentTypeOK, Lists, NEW r \in Requests, r \notin Delegateds \cup Queued,
           AddDelegated(r), queuedList' = queuedList
    PROVE  /\ Lists' /\ Delegateds' = Delegateds \cup {r} /\ Queued' = Queued
           /\ delegatedList' = r /\ link' \in Links
           /\ link' = [link EXCEPT ![r] = delegatedList]
<1>1. /\ link' = [link EXCEPT ![r] = delegatedList]
      /\ delegatedList' = r
  BY DEF AddDelegated, Delegateds
<1>2. link' \in Links /\ link'[r] = delegatedList /\ \A t \in Requests \ {r} : link'[t] = link[t]
  BY <1>1 DEF AgentTypeOK, Links
<1>3. Delegateds \subseteq Requests /\ Queued \subseteq Requests
  BY ListFacts
<1>4. Chain(r, link', Delegateds \cup {r})
  BY <1>2, <1>3, ChainPush DEF Lists
<1>5. Chain(queuedList', link', Queued)
  BY <1>2, <1>3, ChainFrame DEF Lists
<1>6. (Delegateds \cup {r}) \cap Queued = {}
  BY DEF Lists
<1> QED  BY <1>1, <1>2, <1>4, <1>5, <1>6, ListsBecome

\* netsnmp_add_queued puts a session that is in no list behind the last one.
LEMMA Enqueues ==
    ASSUME AgentTypeOK, Lists, NEW r \in Requests, r \notin Delegateds \cup Queued,
           link[r] = 0, AddQueued(r), delegatedList' = delegatedList
    PROVE  /\ Lists' /\ Delegateds' = Delegateds /\ Queued' = Queued \cup {r}
           /\ queuedList' = (IF queuedList = 0 THEN r ELSE queuedList)
           /\ link' \in Links
           /\ \A t \in Requests \ Queued : link'[t] = link[t]
<1>0. link \in Links /\ Delegateds \subseteq Requests /\ Queued \subseteq Requests
      /\ (queuedList = 0 => Queued = {}) /\ Delegateds \cap Queued = {}
  BY ListFacts DEF AgentTypeOK, Lists
<1>1. CASE queuedList = 0
  <2>1. queuedList' = r /\ link' = link
    BY <1>1 DEF AddQueued
  <2>2. Chain(r, link, {r})
    <3>1. Chain(r, link, {} \cup {r})
      BY <1>1, ChainNone, ChainPush
    <3> QED  BY <3>1
  <2>3. Chain(delegatedList', link', Delegateds) /\ Chain(queuedList', link', {r})
    BY <2>1, <2>2 DEF Lists
  <2> QED  BY <1>0, <1>1, <2>1, <2>3, ListsBecome
<1>2. CASE queuedList # 0
  <2>1. /\ queuedList' = queuedList
        /\ link' = [t \in Requests |->
                       IF t \in Queued /\ link[t] = 0 THEN r ELSE link[t]]
    BY <1>2 DEF AddQueued, Queued
  <2>2. link' \in Links
    BY <1>0, <2>1, Numbers DEF Links, Requests
  <2>3. \A t \in Requests \ Queued : link'[t] = link[t]
    BY <2>1
  <2>4. \A t \in Queued : link'[t] = IF link[t] = 0 THEN r ELSE link[t]
    BY <1>0, <2>1
  <2>5. Chain(queuedList, link', Queued \cup {r})
    BY <1>2, <2>3, <2>4, ChainAppend DEF Lists
  <2>6. Chain(delegatedList, link', Delegateds)
    BY <1>0, <2>3, ChainFrame DEF Lists
  <2> QED  BY <1>0, <1>2, <2>1, <2>2, <2>3, <2>5, <2>6, ListsBecome
<1> QED  BY <1>1, <1>2

\* The head of the queue is taken out.
LEMMA Pops ==
    ASSUME AgentTypeOK, Lists, queuedList # 0, queuedList' = link[queuedList],
           UNCHANGED <<link, delegatedList>>
    PROVE  Lists' /\ Delegateds' = Delegateds /\ Queued' = Queued \ {queuedList}
<1>1. Chain(queuedList', link', Queued \ {queuedList})
  BY ChainPop DEF Lists
<1>2. Chain(delegatedList', link', Delegateds) /\ Delegateds \cap (Queued \ {queuedList}) = {}
  BY DEF Lists
<1>3. link' \in Links
  BY DEF AgentTypeOK
<1> QED  BY <1>1, <1>2, <1>3, ListsBecome

\* The scan takes out the session it has come to, behind prev or at the head.
LEMMA TakesOut ==
    ASSUME AgentTypeOK, Lists, pc = "scan", Scanning, scan.next # 0,
           queuedList' = queuedList,
           IF scan.prev = 0
           THEN /\ delegatedList' = link[scan.next]
                /\ link' = [link EXCEPT ![scan.next] = 0]
           ELSE /\ link' = [link EXCEPT ![scan.prev] = link[scan.next], ![scan.next] = 0]
                /\ delegatedList' = delegatedList
    PROVE  /\ scan.next \in Delegateds /\ scan.prev # scan.next
           /\ Lists' /\ Delegateds' = Delegateds \ {scan.next} /\ Queued' = Queued
           /\ link' \in Links /\ link'[scan.next] = 0
           /\ \A t \in Requests \ {scan.prev, scan.next} : link'[t] = link[t]
           /\ IF scan.prev = 0 THEN delegatedList' = link[scan.next]
              ELSE delegatedList' = delegatedList /\ link'[scan.prev] = link[scan.next]
<1> DEFINE r == scan.next
           p == scan.prev
<1>1. /\ link \in Links /\ Delegateds \subseteq Requests /\ Queued \subseteq Requests
      /\ Delegateds \cap Queued = {}
      /\ Chain(delegatedList, link, Delegateds) /\ Chain(queuedList, link, Queued)
  BY ListFacts DEF AgentTypeOK, Lists
<1>2. r \in Delegateds /\ r \in Requests /\ p # r
      /\ IF p = 0 THEN r = delegatedList ELSE p \in Delegateds /\ r = link[p]
  BY <1>1, ListFacts DEF Scanning
<1>3. link[r] \in 0 .. MaxRequests /\ 0 \in 0 .. MaxRequests
  BY <1>1, <1>2, Numbers DEF Links
<1>4. /\ link' \in Links /\ link'[r] = 0
      /\ \A t \in Requests \ {p, r} : link'[t] = link[t]
      /\ p # 0 => link'[p] = link[r]
  <2>1. CASE p = 0
    BY <1>1, <1>2, <1>3, <2>1 DEF Links
  <2>2. CASE p # 0
    <3>1. link' = [t \in Requests |-> IF t = r THEN 0 ELSE IF t = p THEN link[r] ELSE link[t]]
      BY <1>1, <1>2, <2>2 DEF Links
    <3> HIDE DEF r, p
    <3> QED  BY <1>1, <1>2, <1>3, <3>1 DEF Links
  <2> QED  BY <2>1, <2>2
<1>5. Chain(delegatedList', link', Delegateds \ {r})
  <2>1. CASE p = 0
    <3>1. delegatedList # 0 /\ r = delegatedList /\ delegatedList' = link[delegatedList]
      BY <1>2, <2>1
    <3>2. \A t \in Delegateds \ {delegatedList} : link'[t] = link[t]
      BY <1>1, <1>4, <2>1, <3>1, Numbers
    <3> HIDE DEF r, p
    <3> QED  BY <1>1, <3>1, <3>2, ChainPop
  <2>2. CASE p # 0
    <3>1. p \in Delegateds /\ link[p] = r /\ r # 0 /\ link'[p] = link[link[p]]
          /\ delegatedList' = delegatedList
      BY <1>2, <1>4, <2>2
    <3>2. \A t \in Delegateds \ {p, link[p]} : link'[t] = link[t]
      BY <1>1, <1>4, <3>1
    <3> HIDE DEF r, p
    <3> QED  BY <1>1, <3>1, <3>2, ChainRemove
  <2> QED  BY <2>1, <2>2
<1>6. Chain(queuedList', link', Queued)
  <2>1. \A t \in Queued : t \in Requests \ {p, r}
    BY <1>1, <1>2, Numbers
  <2>2. \A t \in Queued : link'[t] = link[t]
    BY <1>4, <2>1
  <2> QED  BY <1>1, <2>2, ChainFrame
<1>7. Lists' /\ Delegateds' = Delegateds \ {r} /\ Queued' = Queued
  <2> HIDE DEF r, p
  <2> QED  BY <1>1, <1>4, <1>5, <1>6, ListsBecome
<1> QED  BY <1>2, <1>4, <1>7

-----------------------------------------------------------------------------
(* The invariant is inductive: one lemma for each action.                  *)

\* A step that changes one session to one of its type keeps the types.
LEMMA AspBecomes ==
    ASSUME AspOK, NEW r \in Requests, NEW a \in Asp(r), asp' = [asp EXCEPT ![r] = a]
    PROVE  AspOK' /\ asp'[r] = a /\ \A t \in Requests \ {r} : asp'[t] = asp[t]
<1>1. asp' = [t \in Requests |-> IF t = r THEN a ELSE asp[t]]
  BY DEF AspOK
<1>2. \A t \in Requests : asp'[t] \in Asp(t)
  BY <1>1 DEF AspOK
<1> QED  BY <1>1, <1>2 DEF AspOK

\* A session that is new, or has just been answered, has its type.
LEMMA NewAspType ==
    ASSUME NEW r \in Requests, NEW stage \in {"new", "answered", "failed"}
    PROVE  /\ [NewAsp(r) EXCEPT !.stage = stage] \in Asp(r)
           /\ [NewAsp(r) EXCEPT !.stage = stage].stage = stage
           /\ NewAsp(r) \in Asp(r) /\ NewAsp(r).stage = "new" /\ NewAsp(r).command = ""
<1>1. 0 \in 0 .. Vars[r]
  BY VarNumbers
<1>2. [v \in Bindings(r) |-> [owner |-> 0, delegated |-> FALSE, status |-> "ok", found |-> FALSE]]
        \in [Bindings(r) -> Binding]
  BY SnmpAgentAssumption DEF Binding, Statuses, Owners
<1> QED  BY <1>1, <1>2 DEF NewAsp, Asp, Modes, Statuses

\* An agent that has just started satisfies the invariant.
LEMMA InitInv == Init => AgentInv
<1> SUFFICES ASSUME Init  PROVE AgentInv
  OBVIOUS
<1>1. MaxRequests \in Nat /\ 0 \in 0 .. MaxRequests
  BY Numbers
<1>2. \A r \in Requests : asp[r] \in Asp(r) /\ asp[r].stage = "new" /\ link[r] = 0
  BY NewAspType DEF Init
<1>3. AgentTypeOK
  BY <1>1, <1>2 DEF Init, AgentTypeOK, AspOK, Links, Statuses
<1>4. Chain(delegatedList, link, {}) /\ Chain(queuedList, link, {})
  BY ChainNone DEF Init
<1>5. Delegateds = {} /\ Queued = {}
  BY <1>3, <1>4, ChainMembers, ListsAre DEF AgentTypeOK
<1>6. Lists
  BY <1>4, <1>5 DEF Lists
<1>7. Places
  BY <1>2, <1>5, Numbers DEF Init, Places, Idle
<1>8. Phases
  <2>1. \A r \in Requests : Untouched(asp[r])
    BY DEF Init, NewAsp, Untouched
  <2> QED  BY <1>2, <1>5, <2>1 DEF Init, Phases
<1> QED  BY <1>3, <1>5, <1>6, <1>7, <1>8
       DEF AgentInv, Scanning, SetIsAlone, Queueing, Init, Working

\* Nothing of the lists changes, nor what is open and what it asks.
KindsKept == \A r \in Requests : asp'[r].stage = asp[r].stage /\ asp'[r].command = asp[r].command

\* A packet that is refused changes its own session only.
LEMMA RefuseStep ==
    ASSUME AgentInv, NEW r \in Requests, Refuse(r)
    PROVE  /\ AgentInv' /\ Idle /\ Idle' /\ Delegateds' = Delegateds /\ closed' = closed
           /\ asp[r].stage = "new" /\ asp'[r].stage = "refused"
           /\ \A t \in Requests \ {r} : asp'[t] = asp[t]
<1>1. /\ AspOK' /\ asp'[r].stage = "refused" /\ asp[r].stage = "new" /\ asp[r] \in Asp(r)
      /\ \A t \in Requests \ {r} : asp'[t] = asp[t]
  <2>1. asp[r] \in Asp(r) /\ AspOK /\ asp[r].stage = "new"
    BY Numbers DEF AgentInv, AgentTypeOK, AspOK, Refuse, Arrives, Requests
  <2>2. asp' = [asp EXCEPT ![r] = [asp[r] EXCEPT !.stage = "refused"]]
    BY DEF Refuse
  <2>3. [asp[r] EXCEPT !.stage = "refused"] \in Asp(r)
        /\ [asp[r] EXCEPT !.stage = "refused"].stage = "refused"
    BY <2>1 DEF Asp
  <2> QED  BY <2>1, <2>2, <2>3, AspBecomes
<1>2. Lists' /\ Delegateds' = Delegateds /\ Queued' = Queued
  BY ListsKept DEF AgentInv, Refuse, listVars
<1>3. AgentTypeOK'
  BY <1>1 DEF AgentInv, AgentTypeOK, Refuse, listVars
<1>4. /\ Delegateds \subseteq Requests
      /\ r \notin Delegateds \cup Queued \cup {cur} /\ processingSet # r
  BY <1>1, ListFacts, Numbers DEF AgentInv, Places, SetIsAlone
<1>5. Places'
  BY <1>1, <1>2, <1>4 DEF AgentInv, Places, Refuse, listVars, Idle
<1>6. SetIsAlone'
  BY <1>1, <1>2, <1>4 DEF AgentInv, SetIsAlone, Refuse, listVars, Working, IsSet
<1>7. Scanning' /\ Queueing'
  BY <1>1, <1>2 DEF AgentInv, Scanning, Queueing, Refuse, listVars, Working
<1>8. Phases'
  BY <1>1, <1>2, <1>4 DEF AgentInv, Phases, Refuse, listVars, IsSet
<1> QED  BY <1>1, <1>2, <1>3, <1>5, <1>6, <1>7, <1>8 DEF AgentInv, Refuse, Idle

\* A packet that is accepted becomes the session in hand.
LEMMA ReceiveStep ==
    ASSUME AgentInv, NEW r \in Requests, NEW c \in Commands[r], Receive(r, c)
    PROVE  /\ AgentInv' /\ Idle /\ ~Working' /\ Delegateds' = Delegateds
           /\ asp[r].stage = "new" /\ asp'[r].stage = "open" /\ closed' = closed
           /\ \A t \in Requests \ {r} : asp'[t] = asp[t]
           /\ r \notin Delegateds /\ Untouched(asp'[r])
<1>1. /\ AspOK' /\ asp'[r].stage = "open" /\ asp'[r].command = c /\ asp[r].stage = "new"
      /\ Untouched(asp'[r]) /\ c # ""
      /\ \A t \in Requests \ {r} : asp'[t] = asp[t]
  <2>1. asp[r] \in Asp(r) /\ AspOK /\ asp[r].stage = "new"
    BY Numbers DEF AgentInv, AgentTypeOK, AspOK, Receive, Arrives, Requests
  <2> DEFINE a == [asp[r] EXCEPT !.stage = "open", !.command = c]
  <2>2. asp' = [asp EXCEPT ![r] = a]
    BY <2>1 DEF Receive, AspOK
  <2>3. c \in {"GET", "GETNEXT", "SET"}
    BY SnmpAgentAssumption DEF Requests
  <2>4. a \in Asp(r) /\ a.stage = "open" /\ a.command = c
    BY <2>1, <2>3 DEF Asp
  <2>5. Untouched(a)
    <3>1. Untouched(asp[r])
      BY <2>1 DEF AgentInv, Phases
    <3> QED  BY <2>1, <3>1 DEF Asp, Untouched
  <2> HIDE DEF a
  <2> QED  BY <2>1, <2>2, <2>3, <2>4, <2>5, AspBecomes
<1>2. Lists' /\ Delegateds' = Delegateds /\ Queued' = Queued
  BY ListsKept DEF AgentInv, Receive, listVars
<1>3. AgentTypeOK'
  BY <1>1, Numbers DEF AgentInv, AgentTypeOK, Receive, listVars, Requests
<1>4. /\ Delegateds \subseteq Requests /\ cur = 0 /\ r # 0
      /\ r \notin Delegateds \cup Queued /\ processingSet # r /\ link[r] = 0
      /\ processingSet # 0 => processingSet \in Requests
  BY <1>1, ListFacts, Numbers DEF AgentInv, AgentTypeOK, Places, SetIsAlone, Receive, Idle
<1>5. Places'
  BY <1>1, <1>2, <1>4, Numbers DEF AgentInv, Places, Receive, listVars, Idle
<1>6. SetIsAlone'
  BY <1>1, <1>2, <1>4, Numbers
  DEF AgentInv, SetIsAlone, Places, Receive, listVars, Working, Idle, IsSet
<1>7. Scanning' /\ Queueing'
  BY <1>1, <1>2, <1>4 DEF AgentInv, Scanning, Queueing, Receive, listVars, Working
<1>8. Phases'
  BY <1>1, <1>2, <1>4 DEF AgentInv, Phases, Receive, listVars, IsSet
<1> QED  BY <1>1, <1>2, <1>3, <1>4, <1>5, <1>6, <1>7, <1>8
         DEF AgentInv, Receive, Idle, Working

\* A session put into the queue is appended to it.
LEMMA QueueStep ==
    ASSUME AgentInv, QueueBehindSet \/ QueueSet
    PROVE  AgentInv' /\ Delegateds' = Delegateds /\ asp' = asp /\ pc' = "main"
<1>1. /\ pc = "handle" /\ cur \in Requests /\ cur \notin Delegateds \cup Queued
      /\ cur # processingSet /\ AddQueued(cur) /\ delegatedList' = delegatedList
      /\ asp' = asp /\ scan' = scan /\ closed' = closed
  <2>1. cur # 0 /\ cur \in 0 .. MaxRequests
    BY DEF AgentInv, AgentTypeOK, Places, Idle, QueueBehindSet, QueueSet
  <2> QED  BY <2>1, Numbers DEF AgentInv, Places, QueueBehindSet, QueueSet, Newcomer
<1>2. caller = "packet" /\ link[cur] = 0
  <2>1. caller # "queue"
    BY <1>1, ListFacts DEF AgentInv, Queueing, QueueBehindSet, QueueSet, IsSet
  <2> QED  BY <1>1, <2>1 DEF AgentInv, Places, AgentTypeOK
<1>3. /\ processingSet # 0 /\ processingSet' = processingSet
      \/ /\ processingSet = 0 /\ queuedList = 0 /\ processingSet' = cur
         /\ IsSet(cur)
  BY <1>1, <1>2 DEF AgentInv, Queueing, QueueBehindSet, QueueSet, IsSet
<1>4. pc' = "main" /\ cur' = 0 /\ caller' = "packet" /\ status' = "ok"
  BY <1>2 DEF QueueBehindSet, QueueSet, BackTo
<1>5. /\ Lists' /\ Delegateds' = Delegateds /\ Queued' = Queued \cup {cur}
      /\ queuedList' = (IF queuedList = 0 THEN cur ELSE queuedList)
      /\ link' \in Links
      /\ \A t \in Requests \ Queued : link'[t] = link[t]
  BY <1>1, <1>2, Enqueues DEF AgentInv
<1>6. /\ Delegateds \subseteq Requests /\ Queued \subseteq Requests
      /\ Delegateds \cap Queued = {} /\ (queuedList # 0 => queuedList \in Queued)
      /\ processingSet # 0 => processingSet \in Requests
  BY ListFacts, Numbers DEF AgentInv, AgentTypeOK, Lists
<1>7. AgentTypeOK'
  BY <1>1, <1>3, <1>4, <1>5, Numbers DEF AgentInv, AgentTypeOK, AspOK, Statuses
<1>8. Places'
  <2>1. \A r \in Requests : asp[r].stage = "new" => r \notin Queued
    BY <1>6 DEF AgentInv, Places
  <2> QED  BY <1>1, <1>4, <1>5, <1>6, <2>1, Numbers DEF AgentInv, Places, Idle
<1>9. Scanning'
  BY <1>4 DEF Scanning
<1>10. SetIsAlone'
  BY <1>1, <1>3, <1>4, <1>5, <1>6, Numbers DEF AgentInv, SetIsAlone, Places, Working, IsSet
<1>11. Queueing'
  BY <1>1, <1>3, <1>4, Numbers DEF Queueing, Working
<1>12. Phases'
  BY <1>1, <1>4, <1>5 DEF AgentInv, Phases, IsSet
<1> QED  BY <1>1, <1>4, <1>5, <1>7, <1>8, <1>9, <1>10, <1>11, <1>12 DEF AgentInv

\* A session that may be worked on is in no list, and a SET is then alone.
LEMMA BeginStep ==
    ASSUME AgentInv, Begin
    PROVE  /\ AgentInv' /\ KindsKept /\ Delegateds' = Delegateds /\ Queued' = Queued
           /\ cur' = cur /\ Working' /\ cur \in Requests /\ closed' = closed
           /\ \A t \in Requests \ {cur} : asp'[t] = asp[t]
           /\ \A r \in Delegateds : ~IsSet(r) /\ ~IsSet(cur)
           /\ asp'[cur].index = 0 /\ asp'[cur].mode \in {"", "BEGIN"}
           /\ Agreed(asp'[cur]) /\ ~Delegated(asp'[cur])
           /\ pc' \in {"pass", "handled"} /\ (pc' = "handled" => status' = "error")
<1>1. /\ pc = "handle" /\ cur \in Requests /\ cur \notin Delegateds \cup Queued /\ cur' = cur
      /\ UNCHANGED <<link, delegatedList, queuedList, caller, scan, closed>>
      /\ processingSet' = IF IsSet(cur) THEN cur ELSE processingSet
      /\ pc' \in {"pass", "handled"} /\ status' \in {status, "error"}
      /\ caller \in {"packet", "queue"}
  <2>1. cur # 0 /\ cur \in 0 .. MaxRequests
    BY DEF AgentInv, AgentTypeOK, Places, Idle, Begin
  <2> QED  BY <2>1, Numbers DEF AgentInv, AgentTypeOK, Places, Begin, IsSet
<1>2. /\ AspOK' /\ KindsKept /\ \A t \in Requests \ {cur} : asp'[t] = asp[t]
      /\ IsSet(cur) /\ pc' = "pass" => asp'[cur].mode \in Running
      /\ ~Delegated(asp'[cur]) /\ Agreed(asp'[cur])
      /\ asp'[cur].index = 0 /\ asp'[cur].mode \in {"", "BEGIN"}
      /\ pc' = "handled" => status' = "error"
  <2>1. AspOK /\ asp[cur] \in Asp(cur)
    BY <1>1 DEF AgentInv, AgentTypeOK, AspOK
  <2>0. Untouched(asp[cur])
    BY <1>1 DEF AgentInv, Phases
  <2>2. CASE asp' = asp /\ pc' = "handled" /\ status' = "error"
    <3>1. /\ ~Delegated(asp[cur]) /\ Agreed(asp[cur])
          /\ asp[cur].index = 0 /\ asp[cur].mode = ""
      BY <2>0 DEF Untouched, Delegated, Agreed
    <3> QED  BY <2>1, <2>2, <3>1 DEF AspOK, KindsKept
  <2>3. ASSUME NEW owner \in [Bindings(cur) -> Owners \ closed],
               asp' = [asp EXCEPT
                         ![cur].mode = IF asp[cur].command = "SET" THEN "BEGIN" ELSE @,
                         ![cur].var = [v \in Bindings(cur) |-> [@[v] EXCEPT !.owner = owner[v]]]],
               pc' = "pass"
        PROVE  /\ AspOK' /\ KindsKept /\ \A t \in Requests \ {cur} : asp'[t] = asp[t]
               /\ IsSet(cur) => asp'[cur].mode \in Running
               /\ ~Delegated(asp'[cur]) /\ Agreed(asp'[cur])
               /\ asp'[cur].index = 0 /\ asp'[cur].mode \in {"", "BEGIN"}
    <3> DEFINE mode == IF asp[cur].command = "SET" THEN "BEGIN" ELSE asp[cur].mode
               var == [v \in Bindings(cur) |-> [asp[cur].var[v] EXCEPT !.owner = owner[v]]]
               a == [asp[cur] EXCEPT !.mode = mode, !.var = var]
    <3>1. asp' = [asp EXCEPT ![cur] = a]
      BY <1>1, <2>1, <2>3 DEF AspOK
    <3>2. mode \in {"", "BEGIN"} /\ mode \in Modes /\ (IsSet(cur) => mode \in Running)
      BY <2>0 DEF Modes, IsSet, Running, Untouched
    <3>3. var \in [Bindings(cur) -> Binding] 
          /\ \A v \in Bindings(cur) : ~var[v].delegated /\ var[v].status = "ok"
      <4>1. \A v \in Bindings(cur) : asp[cur].var[v] \in Binding /\ owner[v] \in Owners
        BY <2>1 DEF Asp
      <4>2. \A v \in Bindings(cur) :
               ~asp[cur].var[v].delegated /\ asp[cur].var[v].status = "ok"
        BY <2>0, <2>1 DEF Untouched, Asp
      <4> QED  BY <4>1, <4>2 DEF Binding
    <3> HIDE DEF mode, var
    <3>4. a \in Asp(cur) /\ a.stage = asp[cur].stage /\ a.command = asp[cur].command
          /\ a.mode = mode /\ a.var = var /\ a.index = asp[cur].index
      BY <2>1, <3>2, <3>3 DEF Asp
    <3>5. ~Delegated(a) /\ Agreed(a) /\ a.index = 0
      BY <2>0, <3>3, <3>4 DEF Delegated, Agreed, Untouched
    <3> HIDE DEF a
    <3> QED  BY <1>1, <2>1, <3>1, <3>2, <3>4, <3>5, AspBecomes DEF KindsKept
  <2> QED  BY <2>2, <2>3 DEF Begin
<1>3. Lists' /\ Delegateds' = Delegateds /\ Queued' = Queued
  BY <1>1, ListsKept DEF AgentInv
<1>4. /\ Delegateds \subseteq Requests /\ Queued \subseteq Requests
      /\ (delegatedList = 0 => Delegateds = {})
      /\ processingSet # 0 => processingSet \in Requests
  BY ListFacts, Numbers DEF AgentInv, AgentTypeOK
<1>5. /\ processingSet \in {0, cur} /\ (IsSet(cur) => delegatedList = 0)
      /\ (~IsSet(cur) => processingSet = 0)
      /\ caller = "packet" => queuedList = 0
  <2>1. cur \notin InList(delegatedList)
    BY <1>1 DEF Delegateds
  <2>2. ~IsSet(cur) => processingSet # cur
    BY <1>1, Numbers DEF AgentInv, SetIsAlone
  <2> QED  BY <1>1, <2>1, <2>2 DEF AgentInv, Queueing, Begin, MayBegin, Newcomer, IsSet
<1>6. \A r \in Delegateds : ~IsSet(r) /\ ~IsSet(cur)
  BY <1>1, <1>4, <1>5, Numbers DEF AgentInv, SetIsAlone
<1>7. AgentTypeOK'
  BY <1>1, <1>2, Numbers DEF AgentInv, AgentTypeOK, Statuses
<1>8. Places'
  BY <1>1, <1>2, <1>3, Numbers DEF AgentInv, Places, Idle, KindsKept
<1>9. Scanning' /\ Queueing'
  BY <1>1, <1>5 DEF Scanning, Queueing, Working
<1>10. SetIsAlone'
  BY <1>1, <1>2, <1>3, <1>4, <1>5, <1>6, Numbers
  DEF AgentInv, SetIsAlone, Places, Working, IsSet, KindsKept
<1>11. Phases'
  BY <1>1, <1>2, <1>3, <1>4 DEF AgentInv, Phases, Places, KindsKept, IsSet
<1> QED  BY <1>1, <1>2, <1>3, <1>6, <1>7, <1>8, <1>9, <1>10, <1>11 DEF AgentInv, Working

\* What PassSet makes of the session.
SetOutcome(a, b, mode) ==
    /\ b \in Asp(cur) /\ b.stage = a.stage /\ b.command = a.command /\ b.mode = mode
    /\ \/ /\ Finished(mode) /\ pc' = "handled" /\ status' = a.status
          /\ b.status = a.status /\ b.index = a.index /\ b.var = a.var /\ b.mixed = a.mixed
       \/ /\ ~Finished(mode) /\ status' = "ok"
          /\ pc' = IF Delegated(b) THEN "handled" ELSE "pass"
          /\ a.status # "ok" => b.status # "ok"
          /\ b.index = a.index \/ b.status # "ok"
          /\ mode \notin {"COMMIT", "UNDO"} /\ a.index = 0 /\ b.status = "ok" => Agreed(b)
          /\ ~b.mixed => ~a.mixed
          /\ ~b.mixed /\ caller # "scan" /\ Delegated(b) => b.status = "ok"

\* After every mode that has passes there is a next one.
LEMMA NextModeType ==
    ASSUME NEW mode \in Running, NEW failed \in BOOLEAN
    PROVE  NextMode(mode, failed) \in Modes \ {"", "BEGIN"}
BY DEF NextMode, Running, Modes

\* What a pass of a SET makes of its session.
LEMMA PassSetOutcome ==
    ASSUME AspOK, cur \in Requests, asp[cur].mode \in Running, PassSet
    PROVE  /\ SetOutcome(asp[cur], asp'[cur], NextMode(asp[cur].mode, asp[cur].status # "ok"))
           /\ AspOK' /\ \A t \in Requests \ {cur} : asp'[t] = asp[t]
           /\ asp[cur].command = "SET"
<1> DEFINE mode == NextMode(asp[cur].mode, asp[cur].status # "ok")
           begun == [asp[cur] EXCEPT !.mode = mode]
<1>1. mode \in Modes /\ asp[cur] \in Asp(cur)
  <2>1. (asp[cur].status # "ok") \in BOOLEAN
    OBVIOUS
  <2> QED  BY <2>1, NextModeType DEF AspOK
<1>2. PassSet => /\ IF Finished(mode)
                    THEN /\ asp' = [asp EXCEPT ![cur] = begun]
                         /\ status' = begun.status
                         /\ pc' = "handled"
                    ELSE \E p \in Passes(mode, begun) :
                           /\ asp' = [asp EXCEPT ![cur] = [p.asp EXCEPT
                                !.status = Final(p),
                                !.mixed = @ \/ /\ caller # "scan"
                                               /\ Delegated(p.asp) /\ Final(p) # "ok"]]
                           /\ status' = "ok"
                           /\ pc' = IF Delegated(p.asp) THEN "handled" ELSE "pass"
                 /\ asp[cur].command = "SET"
  BY DEF PassSet
<1> HIDE DEF mode
<1>3. /\ begun \in Asp(cur) /\ begun.stage = asp[cur].stage
      /\ begun.command = asp[cur].command /\ begun.mode = mode
      /\ begun.status = asp[cur].status /\ begun.index = asp[cur].index
      /\ begun.var = asp[cur].var /\ begun.mixed = asp[cur].mixed
  BY <1>1 DEF Asp
<1> HIDE DEF begun
<1>4. CASE Finished(mode)
  <2>1. asp' = [asp EXCEPT ![cur] = begun] /\ status' = begun.status /\ pc' = "handled"
    BY <1>2, <1>4
  <2>2. AspOK' /\ asp'[cur] = begun /\ \A t \in Requests \ {cur} : asp'[t] = asp[t]
    BY <1>3, <2>1, AspBecomes
  <2> QED  BY <1>2, <1>3, <1>4, <2>1, <2>2 DEF SetOutcome, mode
<1>5. CASE ~Finished(mode)
  <2>1. PICK p \in Passes(mode, begun) :
          /\ asp' = [asp EXCEPT ![cur] = [p.asp EXCEPT
               !.status = Final(p),
               !.mixed = @ \/ /\ caller # "scan"
                              /\ Delegated(p.asp) /\ Final(p) # "ok"]]
          /\ status' = "ok"
          /\ pc' = IF Delegated(p.asp) THEN "handled" ELSE "pass"
    BY <1>2, <1>5
  <2>2. /\ p.asp \in Asp(cur)
        /\ p.asp.stage = begun.stage /\ p.asp.command = begun.command
        /\ p.asp.mode = mode /\ p.asp.mixed = begun.mixed
        /\ Final(p) \in Statuses
        /\ Final(p) = "ok" => p.asp.status = "ok"
        /\ begun.status # "ok" => p.asp.status # "ok"
        /\ p.asp.index = begun.index \/ p.asp.status # "ok"
        /\ mode \notin {"COMMIT", "UNDO"} /\ begun.index = 0 /\ p.asp.status = "ok"
             => Agreed(p.asp)
    BY <1>3, PassOutcome
  <2> DEFINE mixed == p.asp.mixed \/ (caller # "scan" /\ Delegated(p.asp) /\ Final(p) # "ok")
             b == [p.asp EXCEPT !.status = Final(p), !.mixed = mixed]
  <2>3. asp' = [asp EXCEPT ![cur] = b]
    BY <2>1
  <2>4. mixed \in BOOLEAN
    BY Zenon
  <2>5. (~mixed => ~p.asp.mixed /\ ~(caller # "scan" /\ Delegated(p.asp) /\ Final(p) # "ok"))
    OBVIOUS
  <2> HIDE DEF mixed
  <2>6. /\ b \in Asp(cur) /\ b.stage = p.asp.stage /\ b.command = p.asp.command
        /\ b.mode = p.asp.mode /\ b.status = Final(p) /\ b.index = p.asp.index
        /\ b.var = p.asp.var /\ b.mixed = mixed
    BY <2>2, <2>4 DEF Asp
  <2>7. (Delegated(b) <=> Delegated(p.asp)) /\ (Agreed(b) <=> Agreed(p.asp))
    BY <2>6 DEF Delegated, Agreed
  <2> HIDE DEF b
  <2>8. AspOK' /\ asp'[cur] = b /\ \A t \in Requests \ {cur} : asp'[t] = asp[t]
    BY <2>3, <2>6, AspBecomes
  <2>9. SetOutcome(asp[cur], b, mode)
    BY <1>3, <1>5, <2>1, <2>2, <2>5, <2>6, <2>7 DEF SetOutcome
  <2> QED  BY <1>2, <2>8, <2>9 DEF mode
<1> QED  BY <1>4, <1>5

\* The passes over the handlers change neither the lists nor what is open.
LEMMA WorkKeeps ==
    ASSUME AgentInv, Working, Working', AspOK', KindsKept, status' \in Statuses,
           UNCHANGED <<listVars, cur, caller, scan, closed>>,
           \A t \in Requests \ {cur} : asp'[t] = asp[t],
           IsSet(cur) /\ pc' = "pass" => asp'[cur].mode \in Running /\ ~Delegated(asp'[cur]),
           IsSet(cur) /\ pc' = "handled" /\ Delegated(asp'[cur]) => asp'[cur].mode \in Running,
           pc' = "getnext" => ~IsSet(cur)
    PROVE  AgentInv' /\ Delegateds' = Delegateds /\ Queued' = Queued
<1>1. Lists' /\ Delegateds' = Delegateds /\ Queued' = Queued
  BY ListsKept DEF AgentInv, listVars
<1>2. pc \notin {"main", "scan", "queue", "handle"} /\ pc' \notin {"main", "scan", "queue", "handle"}
  BY DEF Working
<1>3. cur \in Requests
  BY <1>2, Numbers DEF AgentInv, AgentTypeOK, Places, Idle
<1>4. /\ Delegateds \subseteq Requests /\ Queued \subseteq Requests
      /\ processingSet # 0 => processingSet \in Requests
      /\ cur \notin Delegateds \cup Queued /\ asp[cur].stage = "open"
  BY <1>3, ListFacts, Numbers DEF AgentInv, AgentTypeOK, Places
<1>5. AgentTypeOK'
  BY DEF AgentInv, AgentTypeOK, listVars, Working
<1>6. Places'
  BY <1>1, <1>2, <1>3 DEF AgentInv, Places, Idle, KindsKept, listVars
<1>7. Scanning' /\ Queueing'
  BY <1>1, <1>2 DEF AgentInv, Scanning, Queueing, listVars, Working
<1>8. SetIsAlone'
  BY <1>1, <1>3, <1>4 DEF AgentInv, SetIsAlone, IsSet, KindsKept, listVars, Working
<1>9. Phases'
  BY <1>1, <1>2, <1>3, <1>4 DEF AgentInv, Phases, IsSet, KindsKept, listVars
<1> QED  BY <1>1, <1>5, <1>6, <1>7, <1>8, <1>9 DEF AgentInv

\* A pass over the handlers changes the session in hand only.
LEMMA PassStep ==
    ASSUME AgentInv, PassGet \/ PassGetNext \/ GetNextLoop \/ PassSet
    PROVE  /\ AgentInv' /\ KindsKept /\ Delegateds' = Delegateds /\ Queued' = Queued
           /\ cur \in Requests /\ Working /\ Working' /\ cur' = cur /\ closed' = closed
           /\ \A t \in Requests \ {cur} : asp'[t] = asp[t]
<1>1. Working /\ UNCHANGED <<listVars, cur, caller, scan, closed>>
  BY DEF PassGet, PassGetNext, GetNextLoop, PassSet, Working
<1>2. cur \in Requests /\ AspOK /\ asp[cur] \in Asp(cur)
  BY <1>1, Numbers DEF AgentInv, AgentTypeOK, AspOK, Places, Idle, Working
<1>3. ASSUME NEW mode, NEW q \in Passes(mode, asp[cur]), asp' = [asp EXCEPT ![cur] = q.asp]
      PROVE  /\ AspOK' /\ KindsKept /\ Final(q) \in Statuses
             /\ \A t \in Requests \ {cur} : asp'[t] = asp[t]
  <2>1. q.asp \in Asp(cur) /\ q.asp.stage = asp[cur].stage
        /\ q.asp.command = asp[cur].command /\ Final(q) \in Statuses
    BY <1>2, PassOutcome
  <2> QED  BY <1>2, <1>3, <2>1, AspBecomes DEF KindsKept
<1>4. CASE PassGet
  <2>1. /\ AspOK' /\ KindsKept /\ status' \in Statuses
        /\ \A t \in Requests \ {cur} : asp'[t] = asp[t]
    BY <1>3, <1>4 DEF PassGet
  <2> QED  BY <1>1, <1>2, <1>4, <2>1, WorkKeeps DEF PassGet, Working, IsSet
<1>5. CASE PassGetNext
  <2>1. /\ AspOK' /\ KindsKept /\ status' \in Statuses
        /\ \A t \in Requests \ {cur} : asp'[t] = asp[t]
    BY <1>3, <1>5 DEF PassGetNext
  <2>2. pc' \in {"getnext", "handled"} /\ ~IsSet(cur)
    BY <1>5 DEF PassGetNext, IsSet
  <2> QED  BY <1>1, <1>2, <2>1, <2>2, WorkKeeps DEF Working
<1>6. CASE PassSet
  <2>1. IsSet(cur) /\ asp[cur].mode \in Running
    BY <1>6 DEF AgentInv, Phases, PassSet, IsSet
  <2> DEFINE mode == NextMode(asp[cur].mode, asp[cur].status # "ok")
  <2>2. /\ SetOutcome(asp[cur], asp'[cur], mode)
        /\ AspOK' /\ \A t \in Requests \ {cur} : asp'[t] = asp[t]
    BY <1>2, <1>6, <2>1, PassSetOutcome
  <2>3. mode \in Modes \ {"", "BEGIN"}
    <3>1. (asp[cur].status # "ok") \in BOOLEAN
      OBVIOUS
    <3> QED  BY <2>1, <3>1, NextModeType
  <2>4. ~Delegated(asp[cur])
    BY <1>6, <2>1 DEF AgentInv, Phases, PassSet
  <2> HIDE DEF mode
  <2>5. KindsKept
    BY <2>2 DEF SetOutcome, KindsKept
  <2>6. CASE Finished(mode)
    <3>1. pc' = "handled" /\ status' = asp[cur].status /\ asp'[cur].var = asp[cur].var
      BY <2>2, <2>6 DEF SetOutcome
    <3>2. ~Delegated(asp'[cur]) /\ status' \in Statuses
      BY <1>2, <2>4, <3>1 DEF Delegated, Asp
    <3> QED  BY <1>1, <1>2, <2>2, <2>5, <3>1, <3>2, WorkKeeps DEF Working
  <2>7. CASE ~Finished(mode)
    <3>1. status' = "ok" /\ pc' = (IF Delegated(asp'[cur]) THEN "handled" ELSE "pass")
          /\ asp'[cur].mode = mode
      BY <2>2, <2>7 DEF SetOutcome
    <3>2. mode \in Running
      BY <2>3, <2>7 DEF Finished, Running
    <3> QED  BY <1>1, <1>2, <2>2, <2>5, <3>1, <3>2, WorkKeeps DEF Working, Statuses
  <2> QED  BY <2>6, <2>7
<1>7. CASE GetNextLoop
  <2>1. pc' \in {"pass", "handled"} /\ status' = "ok" /\ ~IsSet(cur)
    BY <1>7 DEF GetNextLoop, AgentInv, Phases
  <2>2. AspOK' /\ KindsKept /\ \A t \in Requests \ {cur} : asp'[t] = asp[t]
    <3>1. CASE asp' = asp
      BY <1>2, <3>1 DEF AspOK, KindsKept
    <3>2. CASE asp' = [asp EXCEPT ![cur].var = [v \in Bindings(cur) |-> Reassigned(@[v])]]
      <4> DEFINE var == [v \in Bindings(cur) |-> Reassigned(asp[cur].var[v])]
                 a == [asp[cur] EXCEPT !.var = var]
      <4>1. asp' = [asp EXCEPT ![cur] = a]
        BY <1>2, <3>2 DEF AspOK
      <4>2. var \in [Bindings(cur) -> Binding]
        <5>1. \A v \in Bindings(cur) : asp[cur].var[v] \in Binding
          BY <1>2 DEF Asp
        <5> QED  BY <5>1, ReassignedType
      <4> HIDE DEF var
      <4>3. a \in Asp(cur) /\ a.stage = asp[cur].stage /\ a.command = asp[cur].command
        BY <1>2, <4>2 DEF Asp
      <4> HIDE DEF a
      <4> QED  BY <1>2, <4>1, <4>3, AspBecomes DEF KindsKept
    <3> QED  BY <1>7, <3>1, <3>2 DEF GetNextLoop
  <2> QED  BY <1>1, <1>2, <2>1, <2>2, WorkKeeps DEF Working, Statuses
<1> QED  BY <1>1, <1>2, <1>4, <1>5, <1>6, <1>7

\* The end of netsnmp_handle_request or check_delayed_request: the session is
\* delegated or it is answered.
LEMMA HandledFacts ==
    ASSUME AgentInv, HandledNew \/ HandledDelayed
    PROVE  /\ pc = "handled" /\ cur \in Requests /\ cur \notin Delegateds \cup Queued
           /\ asp[cur].stage = "open" /\ AspOK'
           /\ \A t \in Requests \ {cur} : asp'[t] = asp[t]
           /\ cur' = 0 /\ caller' = "packet" /\ status' = "ok" /\ closed' = closed
           /\ BackTo(caller) /\ Lists' /\ Queued' = Queued /\ link' \in Links
           /\ queuedList' = queuedList
           /\ \A t \in Requests \ {cur} : link'[t] = link[t]
           /\ \/ /\ Delegated(asp[cur]) /\ Delegateds' = Delegateds \cup {cur}
                 /\ delegatedList' = cur /\ link'[cur] = delegatedList
                 /\ processingSet' = processingSet
                 /\ asp'[cur].stage = asp[cur].stage
                 /\ asp'[cur].command = asp[cur].command
                 /\ asp'[cur].mode = asp[cur].mode /\ asp'[cur].index = asp[cur].index
                 /\ asp'[cur].mixed = asp[cur].mixed
                 /\ asp'[cur].status = IF caller = "scan" THEN asp[cur].status ELSE status
              \/ /\ ~Delegated(asp[cur]) /\ Delegateds' = Delegateds
                 /\ UNCHANGED <<delegatedList, link>>
                 /\ processingSet' = IF processingSet = cur THEN 0 ELSE processingSet
                 /\ asp'[cur].stage =
                       IF asp[cur].status = "ok" /\ (caller = "scan" \/ status = "ok")
                       THEN "answered" ELSE "failed"
                 /\ asp'[cur].mode = ""
<1>1. pc = "handled" /\ AspOK /\ BackTo(caller) /\ closed' = closed
  BY DEF HandledNew, HandledDelayed, AgentInv, AgentTypeOK
<1>2. cur \in Requests /\ asp[cur] \in Asp(cur)
      /\ cur \notin Delegateds \cup Queued /\ asp[cur].stage = "open"
  BY <1>1, Numbers DEF AgentInv, AgentTypeOK, AspOK, Places, Idle
<1>3. link \in Links /\ Lists /\ AgentTypeOK
  BY DEF AgentInv, AgentTypeOK
<1>4. CASE Delegated(asp[cur])
  <2>1. AddDelegated(cur) /\ UNCHANGED <<queuedList, processingSet>>
    BY <1>4 DEF HandledNew, HandledDelayed
  <2>2. /\ Lists' /\ Delegateds' = Delegateds \cup {cur} /\ Queued' = Queued
        /\ delegatedList' = cur /\ link' \in Links
        /\ link' = [link EXCEPT ![cur] = delegatedList]
    BY <1>2, <1>3, <2>1, Delegates
  <2>3. link'[cur] = delegatedList /\ \A t \in Requests \ {cur} : link'[t] = link[t]
    BY <1>2, <1>3, <2>2 DEF Links
  <2>4. PICK st \in Statuses :
           /\ st = IF caller = "scan" THEN asp[cur].status ELSE status
           /\ asp' = [asp EXCEPT ![cur] = [asp[cur] EXCEPT !.status = st]]
    <3>1. CASE HandledNew
      <4>1. status \in Statuses
        BY <1>3 DEF AgentTypeOK
      <4> QED  BY <1>4, <3>1, <4>1 DEF HandledNew
    <3>2. CASE HandledDelayed
      <4>1. asp' = asp /\ caller = "scan"
        BY <1>4, <3>2 DEF HandledDelayed
      <4>2. [asp[cur] EXCEPT !.status = asp[cur].status] = asp[cur]
        BY <1>2 DEF Asp
      <4>3. asp = [asp EXCEPT ![cur] = asp[cur]]
        BY <1>1, <1>2 DEF AspOK
      <4>4. asp[cur].status \in Statuses
        BY <1>2 DEF Asp
      <4> QED  BY <4>1, <4>2, <4>3, <4>4
    <3> QED  BY <3>1, <3>2
  <2> DEFINE a == [asp[cur] EXCEPT !.status = st]
  <2>5. /\ a \in Asp(cur) /\ a.stage = asp[cur].stage /\ a.command = asp[cur].command
        /\ a.mode = asp[cur].mode /\ a.index = asp[cur].index /\ a.mixed = asp[cur].mixed
        /\ a.status = st
    BY <1>2 DEF Asp
  <2>6. AspOK' /\ asp'[cur] = a /\ \A t \in Requests \ {cur} : asp'[t] = asp[t]
    <3> HIDE DEF a
    <3>1. asp' = [asp EXCEPT ![cur] = a]
      BY <2>4 DEF a
    <3> QED  BY <1>1, <1>2, <2>5, <3>1, AspBecomes
  <2> HIDE DEF a
  <2> QED  BY <1>1, <1>2, <1>4, <2>1, <2>2, <2>3, <2>4, <2>5, <2>6 DEF BackTo
<1>5. CASE ~Delegated(asp[cur])
  <2>1. PICK returned :
          /\ WrapUp(returned)
          /\ returned = IF caller = "scan" THEN "ok" ELSE status
    BY <1>5 DEF HandledNew, HandledDelayed
  <2> DEFINE stage == IF asp[cur].status = "ok" /\ returned = "ok" THEN "answered" ELSE "failed"
             a == [NewAsp(cur) EXCEPT !.stage = stage]
  <2>2. UNCHANGED <<link, delegatedList, queuedList>>
    BY <2>1 DEF WrapUp
  <2>3. a \in Asp(cur) /\ a.stage = stage /\ a.mode = ""
    <3>1. stage \in {"new", "answered", "failed"}
      OBVIOUS
    <3>2. a.mode = ""
      BY DEF NewAsp
    <3> HIDE DEF stage
    <3> QED  BY <1>2, <3>1, <3>2, NewAspType
  <2>4. asp' = [asp EXCEPT ![cur] = a]
    BY <2>1 DEF WrapUp
  <2>5. AspOK' /\ asp'[cur] = a /\ \A t \in Requests \ {cur} : asp'[t] = asp[t]
    <3> HIDE DEF a
    <3> QED  BY <1>1, <1>2, <2>3, <2>4, AspBecomes
  <2>6. Lists' /\ Delegateds' = Delegateds /\ Queued' = Queued
    BY <1>3, <2>2, ListsKept
  <2>7. asp'[cur].stage = IF asp[cur].status = "ok" /\ (caller = "scan" \/ status = "ok")
                          THEN "answered" ELSE "failed"
    BY <2>1, <2>3, <2>5
  <2> HIDE DEF a
  <2> QED  BY <1>1, <1>2, <1>3, <1>5, <2>1, <2>2, <2>3, <2>5, <2>6, <2>7
           DEF BackTo, WrapUp
<1> QED  BY <1>4, <1>5

\* After its passes a session is delegated again or answered.
LEMMA HandledStep ==
    ASSUME AgentInv, HandledNew \/ HandledDelayed
    PROVE  AgentInv'
<1>1. /\ pc = "handled" /\ cur \in Requests /\ cur \notin Delegateds \cup Queued
      /\ asp[cur].stage = "open" /\ AspOK'
      /\ \A t \in Requests \ {cur} : asp'[t] = asp[t]
      /\ cur' = 0 /\ caller' = "packet" /\ status' = "ok" /\ closed' = closed
      /\ BackTo(caller) /\ Lists' /\ Queued' = Queued /\ link' \in Links
      /\ queuedList' = queuedList
      /\ \A t \in Requests \ {cur} : link'[t] = link[t]
  BY HandledFacts
<1>2. \/ /\ Delegated(asp[cur]) /\ Delegateds' = Delegateds \cup {cur}
         /\ delegatedList' = cur /\ link'[cur] = delegatedList
         /\ processingSet' = processingSet
         /\ asp'[cur].stage = "open"
         /\ asp'[cur].command = asp[cur].command
         /\ asp'[cur].mode = asp[cur].mode
      \/ /\ ~Delegated(asp[cur]) /\ Delegateds' = Delegateds
         /\ UNCHANGED <<delegatedList, link>>
         /\ processingSet' = IF processingSet = cur THEN 0 ELSE processingSet
         /\ asp'[cur].stage \in {"answered", "failed"}
  BY HandledFacts
<1>3. /\ Delegateds \subseteq Requests /\ Queued \subseteq Requests
      /\ processingSet # 0 => processingSet \in Requests
      /\ queuedList # 0 => queuedList \in Queued
      /\ delegatedList \in 0 .. MaxRequests /\ (delegatedList # 0 => delegatedList \in Delegateds)
  BY ListFacts, Numbers DEF AgentInv, AgentTypeOK
<1>4. \/ caller = "scan" /\ pc' = "scan"
      \/ caller = "queue" /\ processingSet' = 0 /\ pc' = "queue"
      \/ caller = "queue" /\ processingSet' # 0 /\ pc' = "main"
      \/ caller = "packet" /\ pc' = "main"
  BY <1>1 DEF BackTo, AgentInv, AgentTypeOK
<1>5. scan' = [next |-> scan.next, prev |-> scan'.prev] /\ scan'.next = scan.next
      /\ scan'.prev = IF caller = "scan" /\ scan.prev = 0 /\ delegatedList' = cur
                      THEN cur ELSE scan.prev
  <2>1. scan = [next |-> scan.next, prev |-> scan.prev]
    BY DEF AgentInv, AgentTypeOK
  <2>2. CASE HandledNew
    BY <2>1, <2>2 DEF HandledNew
  <2>3. CASE HandledDelayed
    <3>1. scan' = [scan EXCEPT !.prev = PrevAfter] /\ caller = "scan"
      BY <2>3 DEF HandledDelayed
    <3>2. PrevAfter = IF scan.prev = 0 /\ delegatedList' = cur THEN cur ELSE scan.prev
      BY DEF PrevAfter
    <3> QED  BY <2>1, <3>1, <3>2
  <2> QED  BY <2>2, <2>3
<1>6. AgentTypeOK'
  <2>1. {delegatedList', queuedList', processingSet', cur', scan'.next, scan'.prev}
          \subseteq 0 .. MaxRequests
    BY <1>1, <1>2, <1>5, Numbers DEF AgentInv, AgentTypeOK
  <2>2. pc' \in {"main", "scan", "queue"} /\ caller' \in {"packet"} /\ status' \in Statuses
    BY <1>1, <1>4 DEF Statuses
  <2> QED  BY <1>1, <1>5, <2>1, <2>2 DEF AgentInv, AgentTypeOK
<1>7. Places'
  <2>1. cur' = 0 <=> Idle'
    BY <1>1, <1>4 DEF Idle
  <2>2. 0 \notin Delegateds' \cup Queued'
    BY <1>1, <1>2, <1>3, Numbers
  <2>3. \A r \in Requests :
           asp'[r].stage = "open" <=> r \in Delegateds' \cup Queued' \cup {0}
    BY <1>1, <1>2, <1>3, Numbers DEF AgentInv, Places
  <2>4. \A r \in Requests : asp'[r].stage = "new" => link'[r] = 0
    BY <1>1, <1>2 DEF AgentInv, Places
  <2> QED  BY <1>1, <1>4, <2>1, <2>2, <2>3, <2>4 DEF Places
<1>8. Scanning'
  <2> SUFFICES ASSUME caller = "scan"  PROVE Scanning'
    BY <1>1, <1>4 DEF Scanning
  <2>1. IF scan.prev = 0 THEN scan.next = delegatedList
        ELSE scan.prev \in Delegateds /\ scan.next = link[scan.prev]
    BY DEF AgentInv, Scanning
  <2>2. CASE scan.prev = 0
    BY <1>1, <1>2, <1>3, <1>5, <2>1, <2>2, Numbers DEF Scanning
  <2>3. CASE scan.prev # 0
    BY <1>1, <1>2, <1>3, <1>5, <2>1, <2>3 DEF Scanning
  <2> QED  BY <2>2, <2>3
<1>9. SetIsAlone'
  <2>1. /\ processingSet # 0 =>
             /\ asp[processingSet].stage = "open" /\ IsSet(processingSet)
             /\ processingSet \in Delegateds \cup {cur, queuedList}
        /\ \A r \in Delegateds : IsSet(r) => processingSet = r
        /\ IsSet(cur) => processingSet = cur
    BY <1>1 DEF AgentInv, SetIsAlone, Working
  <2>2. ~Working'
    BY <1>4 DEF Working
  <2> QED  BY <1>1, <1>2, <1>3, <2>1, <2>2, Numbers DEF SetIsAlone, IsSet
<1>10. Queueing'
  BY <1>1, <1>4 DEF AgentInv, Queueing, Working
<1>11. Phases'
  <2>1. /\ \A r \in Requests : asp[r].stage = "open" => asp[r].command # ""
        /\ \A r \in Requests : asp[r].stage = "new" \/ r \in Queued => Untouched(asp[r])
        /\ \A r \in Delegateds : IsSet(r) => asp[r].mode \in Running
        /\ IsSet(cur) /\ Delegated(asp[cur]) => asp[cur].mode \in Running
    BY <1>1 DEF AgentInv, Phases
  <2>2. pc' \in {"main", "scan", "queue"}
    BY <1>4
  <2> QED  BY <1>1, <1>2, <1>3, <2>1, <2>2 DEF Phases, IsSet
<1> QED  BY <1>1, <1>6, <1>7, <1>8, <1>9, <1>10, <1>11 DEF AgentInv

\* The thread moves in the loop of snmpd: nothing else changes but a SET that
\* is noted to wait.
LEMMA MovesKeep ==
    ASSUME AgentInv, Idle, Idle',
           UNCHANGED <<asp, link, delegatedList, queuedList, cur, caller, status, closed>>,
           scan' = [next |-> scan'.next, prev |-> scan'.prev],
           {scan'.next, scan'.prev} \subseteq 0 .. MaxRequests,
           Scanning',
           processingSet' = processingSet
             \/ (processingSet' = queuedList /\ processingSet = 0 /\ queuedList # 0
                   /\ IsSet(queuedList)),
           pc' = "main" => queuedList = 0 \/ processingSet' # 0,
           pc' = "queue" =>
             processingSet' = 0 \/ (processingSet' = queuedList /\ delegatedList = 0),
           \A r \in Delegateds : IsSet(r) => processingSet' = r
    PROVE  AgentInv' /\ Delegateds' = Delegateds /\ Queued' = Queued
<1>1. Lists' /\ Delegateds' = Delegateds /\ Queued' = Queued
  BY ListsKept DEF AgentInv
<1>2. /\ pc' \in {"main", "scan", "queue"} /\ pc \in {"main", "scan", "queue"}
      /\ queuedList \in 0 .. MaxRequests /\ (queuedList # 0 => queuedList \in Queued)
      /\ Queued \subseteq Requests
  BY ListFacts DEF Idle, AgentInv, AgentTypeOK
<1>3. AgentTypeOK'
  BY <1>2 DEF AgentInv, AgentTypeOK, AspOK
<1>4. Places'
  BY <1>1, <1>2 DEF AgentInv, Places, Idle
<1>5. SetIsAlone'
  BY <1>1, <1>2 DEF AgentInv, SetIsAlone, Places, IsSet, Working
<1>6. Queueing'
  BY <1>2 DEF Queueing, Working
<1>7. Phases'
  BY <1>1, <1>2 DEF AgentInv, Phases, IsSet
<1> QED  BY <1>1, <1>3, <1>4, <1>5, <1>6, <1>7 DEF AgentInv

\* The scan moves on, or the queue is looked at: no session and no list changes.
LEMMA MoveStep ==
    ASSUME AgentInv,
           CheckOutstanding \/ ScanWaiting \/ ScanEnd \/ QueueEmpty \/ SetStaysQueued
    PROVE  /\ AgentInv' /\ Delegateds' = Delegateds /\ Queued' = Queued
           /\ Idle /\ Idle' /\ asp' = asp /\ cur' = cur /\ closed' = closed
<1>1. /\ Idle /\ Idle' /\ pc # "handle"
      /\ UNCHANGED <<asp, link, delegatedList, queuedList, cur, caller, status, closed>>
  BY DEF CheckOutstanding, ScanWaiting, ScanEnd, QueueEmpty, SetStaysQueued, ScanFrom, Idle,
         listVars
<1>2. /\ link \in Links /\ 0 \in 0 .. MaxRequests
      /\ {delegatedList, queuedList, processingSet, scan.next, scan.prev} \subseteq 0 .. MaxRequests
      /\ scan = [next |-> scan.next, prev |-> scan.prev]
      /\ Delegateds \subseteq Requests
      /\ delegatedList = 0 <=> Delegateds = {}
      /\ delegatedList # 0 => delegatedList \in Delegateds
      /\ \A r \in Delegateds : link[r] # 0 => link[r] \in Delegateds
      /\ \A r \in Requests : link[r] \in 0 .. MaxRequests /\ r # 0
  BY ListFacts, Numbers DEF AgentInv, AgentTypeOK, Links
<1>3. /\ \A r \in Delegateds : IsSet(r) => processingSet = r
      /\ processingSet # 0 => processingSet \in Delegateds \cup {cur, queuedList}
      /\ cur = 0
  BY <1>1 DEF AgentInv, SetIsAlone, Places
<1>4. Delegateds' = Delegateds
  BY <1>1, ListsKept DEF AgentInv
<1>5. CASE CheckOutstanding
  <2>1. pc' = "scan" /\ scan' = [next |-> delegatedList, prev |-> 0] /\ processingSet' = processingSet
    BY <1>5 DEF CheckOutstanding, ScanFrom, listVars
  <2>2. Scanning'
    BY <1>1, <2>1 DEF Scanning
  <2> QED  BY <1>1, <1>2, <1>3, <2>1, <2>2, MovesKeep
<1>6. CASE ScanWaiting
  <2>1. pc' = "scan" /\ pc = "scan" /\ scan' = [next |-> link[scan.next], prev |-> scan.next]
        /\ processingSet' = processingSet /\ scan.next # 0
    BY <1>6 DEF ScanWaiting, listVars
  <2>2. scan.next \in Delegateds
    BY <1>2, <2>1 DEF AgentInv, Scanning
  <2>3. Scanning'
    BY <1>1, <1>4, <2>1, <2>2 DEF Scanning
  <2> QED  BY <1>1, <1>2, <1>3, <2>1, <2>2, <2>3, MovesKeep
<1>7. CASE ScanEnd
  <2>1. /\ pc' = IF processingSet # 0 /\ delegatedList # 0 THEN "main" ELSE "queue"
        /\ scan' = [next |-> 0, prev |-> 0] /\ processingSet' = processingSet
    BY <1>7 DEF ScanEnd, listVars
  <2>2. Scanning'
    BY <1>1, <2>1 DEF Scanning, AgentInv, Places
  <2>3. pc' = "queue" =>
             processingSet' = 0 \/ (processingSet' = queuedList /\ delegatedList = 0)
    BY <1>2, <1>3, <2>1
  <2>4. pc' = "main" => queuedList = 0 \/ processingSet' # 0
    BY <2>1
  <2> QED  BY <1>1, <1>2, <1>3, <2>1, <2>2, <2>3, <2>4, MovesKeep
<1>8. CASE QueueEmpty \/ SetStaysQueued
  <2>1. /\ pc' = "main" /\ scan' = scan /\ pc = "queue"
        /\ \/ queuedList = 0 /\ processingSet' = processingSet
           \/ /\ queuedList # 0 /\ processingSet' = queuedList /\ IsSet(queuedList)
              /\ delegatedList # 0
    BY <1>8 DEF QueueEmpty, SetStaysQueued, SetMustWait, IsSet, listVars
  <2>2. Scanning'
    BY <1>1, <2>1 DEF Scanning, AgentInv, Places
  <2>3. processingSet = 0 \/ (processingSet = queuedList /\ delegatedList = 0)
    BY <2>1 DEF AgentInv, Queueing
  <2>4. \A r \in Delegateds : IsSet(r) => processingSet' = r
    BY <1>2, <1>3, <2>1, <2>3
  <2> QED  BY <1>1, <1>2, <1>3, <2>1, <2>2, <2>3, <2>4, MovesKeep
<1> QED  BY <1>1, <1>5, <1>6, <1>7, <1>8

\* What check_delayed_request records before it goes on with a session.
LEMMA LateOutcome ==
    ASSUME NEW r \in Requests, NEW a \in Asp(r)
    PROVE  /\ Late(a) \in Asp(r) /\ Late(a).stage = a.stage /\ Late(a).command = a.command
           /\ Late(a).mode = a.mode /\ Late(a).var = a.var /\ Late(a).mixed = a.mixed
           /\ a.status # "ok" => Late(a).status # "ok"
           /\ Late(a).index = a.index \/ Late(a).status # "ok"
           /\ a.index = 0 /\ Late(a).status = "ok" => Agreed(a)
<1> DEFINE b == Checked(a)
           c == CheckedIn(a.mode, b)
<1>1. Marks(a, b) /\ (~Agreed(a) /\ a.index = 0 => b.status # "ok")
  BY CheckedMarks
<1>2. /\ b \in Asp(r)
      /\ b.stage = a.stage /\ b.command = a.command /\ b.mode = a.mode
      /\ b.var = a.var /\ b.mixed = a.mixed
      /\ b.status # a.status => b.status # "ok"
      /\ b.index = a.index \/ b.status # "ok"
  <2> HIDE DEF b
  <2> QED  BY <1>1, Marked
<1> HIDE DEF b
<1>3. Marks(b, c)
  BY <1>2, CheckedInMarks
<1>4. /\ c \in Asp(r)
      /\ c.stage = b.stage /\ c.command = b.command /\ c.mode = b.mode
      /\ c.var = b.var /\ c.mixed = b.mixed
      /\ c.status # b.status => c.status # "ok"
      /\ c.index = b.index \/ c.status # "ok"
  <2> HIDE DEF c
  <2> QED  BY <1>2, <1>3, Marked
<1>5. Late(a) = c
  BY DEF Late, b
<1> HIDE DEF c
<1> QED  BY <1>1, <1>2, <1>4, <1>5

\* The scan takes a session that nobody waits for out of the list.
LEMMA ScanDoneStep ==
    ASSUME AgentInv, ScanDone
    PROVE  /\ AgentInv' /\ KindsKept /\ cur' = scan.next /\ scan.next \in Delegateds
           /\ Delegateds' = Delegateds \ {scan.next} /\ Queued' = Queued
           /\ asp'[scan.next] = Late(asp[scan.next]) /\ Working' /\ caller' = "scan"
           /\ \A t \in Requests \ {scan.next} : asp'[t] = asp[t]
           /\ pc' # "handled" \/ ~IsSet(scan.next)
           /\ closed' = closed
<1> DEFINE r == scan.next
           a == Late(asp[r])
<1>1. /\ pc = "scan" /\ r # 0 /\ ~Delegated(asp[r])
      /\ IF scan.prev = 0
         THEN /\ delegatedList' = link[r]
              /\ link' = [link EXCEPT ![r] = 0]
         ELSE /\ link' = [link EXCEPT ![scan.prev] = link[r], ![r] = 0]
              /\ delegatedList' = delegatedList
      /\ scan' = [scan EXCEPT !.next = link[r]]
      /\ asp' = [asp EXCEPT ![r] = a]
      /\ cur' = r /\ caller' = "scan"
      /\ pc' = CASE a.command = "GET" -> "handled"
                 [] a.command = "GETNEXT" -> "getnext"
                 [] a.command = "SET" -> "pass"
      /\ UNCHANGED <<queuedList, processingSet, status, closed>>
  BY DEF ScanDone
<1>2. /\ r \in Delegateds /\ scan.prev # r
      /\ Lists' /\ Delegateds' = Delegateds \ {r} /\ Queued' = Queued
      /\ link' \in Links
      /\ \A t \in Requests \ {scan.prev, r} : link'[t] = link[t]
      /\ IF scan.prev = 0 THEN delegatedList' = link[r]
         ELSE delegatedList' = delegatedList /\ link'[scan.prev] = link[r]
  <2> HIDE DEF a
  <2> QED  BY <1>1, TakesOut DEF AgentInv
<1>3. /\ Delegateds \subseteq Requests /\ Queued \subseteq Requests /\ r \in Requests
      /\ processingSet # 0 => processingSet \in Requests
      /\ Delegateds \cap Queued = {} /\ cur = 0 /\ link[r] \in 0 .. MaxRequests
      /\ scan.prev # 0 => scan.prev \in Delegateds
  BY <1>1, <1>2, ListFacts, Numbers
  DEF AgentInv, AgentTypeOK, Lists, Places, Idle, Links, Scanning
<1>4. /\ AspOK' /\ asp'[r] = a /\ \A t \in Requests \ {r} : asp'[t] = asp[t]
      /\ a.stage = asp[r].stage /\ a.command = asp[r].command
      /\ a.mode = asp[r].mode /\ a.var = asp[r].var
  <2>1. asp[r] \in Asp(r) /\ AspOK
    BY <1>3 DEF AgentInv, AgentTypeOK, AspOK
  <2>2. /\ a \in Asp(r) /\ a.stage = asp[r].stage /\ a.command = asp[r].command
        /\ a.mode = asp[r].mode /\ a.var = asp[r].var
    BY <1>3, <2>1, LateOutcome
  <2> HIDE DEF a
  <2> QED  BY <1>1, <1>3, <2>1, <2>2, AspBecomes
<1>5. KindsKept
  BY <1>3, <1>4 DEF KindsKept
<1> HIDE DEF a
<1>6. asp[r].stage = "open" /\ asp[r].command \in {"GET", "GETNEXT", "SET"}
  <2>1. asp[r].stage = "open"
    BY <1>2, <1>3 DEF AgentInv, Places
  <2>2. asp[r] \in Asp(r)
    BY <1>3 DEF AgentInv, AgentTypeOK, AspOK
  <2> QED  BY <1>3, <2>1, <2>2 DEF AgentInv, Phases, Asp
<1>7. \/ asp[r].command = "GET" /\ pc' = "handled"
      \/ asp[r].command = "GETNEXT" /\ pc' = "getnext"
      \/ asp[r].command = "SET" /\ pc' = "pass"
  BY <1>1, <1>4, <1>6
<1>8. /\ scan' = [next |-> link[r], prev |-> scan.prev]
      /\ scan'.next = link[r] /\ scan'.prev = scan.prev
  <2>1. scan = [next |-> scan.next, prev |-> scan.prev]
    BY DEF AgentInv, AgentTypeOK
  <2> QED  BY <1>1, <2>1
<1> HIDE DEF r
<1>9. AgentTypeOK'
  <2>1. {delegatedList', queuedList', processingSet', cur', scan'.next, scan'.prev}
          \subseteq 0 .. MaxRequests
    BY <1>1, <1>2, <1>3, <1>8, Numbers DEF AgentInv, AgentTypeOK
  <2> QED  BY <1>1, <1>2, <1>4, <1>7, <1>8, <2>1 DEF AgentInv, AgentTypeOK
<1>10. Places'
  <2>1. cur' # 0 /\ ~Idle' /\ pc' # "handle"
    BY <1>1, <1>7 DEF Idle
  <2>2. \A t \in Requests : asp'[t].stage = "new" => link'[t] = 0
    <3>1. \A t \in Requests : asp[t].stage = "new" =>
             link[t] = 0 /\ t \notin Delegateds
      BY DEF AgentInv, Places
    <3>2. \A t \in Requests : asp'[t].stage = asp[t].stage
      BY <1>5 DEF KindsKept
    <3> QED  BY <1>2, <1>3, <3>1, <3>2, Numbers
  <2>3. \A t \in Requests :
           asp'[t].stage = "open" <=> t \in Delegateds' \cup Queued' \cup {cur'}
    BY <1>1, <1>2, <1>3, <1>5, Numbers DEF AgentInv, Places, KindsKept
  <2>4. cur' \notin Delegateds' \cup Queued'
    BY <1>1, <1>2, <1>3
  <2> QED  BY <1>1, <2>1, <2>2, <2>3, <2>4 DEF Places
<1>11. Scanning'
  BY <1>2, <1>3, <1>8 DEF Scanning
<1>12. SetIsAlone'
  <2>1. /\ processingSet # 0 =>
             /\ asp[processingSet].stage = "open" /\ IsSet(processingSet)
             /\ processingSet \in Delegateds \cup {0, queuedList}
        /\ \A t \in Delegateds : IsSet(t) => processingSet = t
    BY <1>3 DEF AgentInv, SetIsAlone
  <2> QED  BY <1>1, <1>2, <1>3, <1>5, <2>1 DEF SetIsAlone, IsSet, KindsKept
<1>13. Queueing'
  BY <1>1, <1>7 DEF Queueing
<1>14. Phases'
  <2>1. ~Delegated(asp'[cur'])
    BY <1>1, <1>4 DEF Delegated
  <2>2. /\ \A t \in Requests : asp[t].stage = "open" => asp[t].command # ""
        /\ \A t \in Requests : asp[t].stage = "new" \/ t \in Queued => Untouched(asp[t])
        /\ \A t \in Delegateds : IsSet(t) => asp[t].mode \in Running
    BY DEF AgentInv, Phases
  <2>3. \A t \in Requests : asp'[t].mode = asp[t].mode
    BY <1>4
  <2> QED  BY <1>1, <1>2, <1>3, <1>4, <1>5, <1>6, <1>7, <2>1, <2>2, <2>3
           DEF Phases, IsSet, KindsKept
<1>15. AgentInv' /\ Working' /\ (pc' # "handled" \/ ~IsSet(r))
  BY <1>2, <1>7, <1>9, <1>10, <1>11, <1>12, <1>13, <1>14 DEF AgentInv, Working, IsSet
<1> QED  BY <1>1, <1>2, <1>4, <1>5, <1>15 DEF r, a

\* The first of the queue is taken up.
LEMMA PopStep ==
    ASSUME AgentInv, PopQueued
    PROVE  /\ AgentInv' /\ asp' = asp /\ Delegateds' = Delegateds
           /\ pc' = "handle" /\ Idle /\ closed' = closed
<1>1. /\ pc = "queue" /\ queuedList # 0 /\ ~SetMustWait /\ cur' = queuedList
      /\ queuedList' = link[queuedList] /\ pc' = "handle" /\ caller' = "queue"
      /\ UNCHANGED <<asp, link, delegatedList, processingSet, status, scan, closed>>
  BY DEF PopQueued
<1>2. Lists' /\ Delegateds' = Delegateds /\ Queued' = Queued \ {queuedList}
  BY <1>1, Pops DEF AgentInv
<1>3. /\ Delegateds \subseteq Requests /\ Queued \subseteq Requests
      /\ queuedList \in Queued /\ Delegateds \cap Queued = {} /\ cur = 0
      /\ (delegatedList = 0 => Delegateds = {}) /\ caller = "packet"
      /\ link[queuedList] \in 0 .. MaxRequests
  BY <1>1, ListFacts DEF AgentInv, AgentTypeOK, Lists, Places, Idle, Links
<1>4. AgentTypeOK'
  BY <1>1, <1>3, Numbers DEF AgentInv, AgentTypeOK, AspOK
<1>5. Places'
  BY <1>1, <1>2, <1>3, Numbers DEF AgentInv, Places, Idle
<1>6. Scanning'
  BY <1>1 DEF Scanning
<1>7. processingSet = 0 \/ (processingSet = queuedList /\ delegatedList = 0)
  BY <1>1 DEF AgentInv, Queueing
<1>8. SetIsAlone'
  BY <1>1, <1>2, <1>3, <1>7 DEF AgentInv, SetIsAlone, IsSet, Working
<1>9. Queueing'
  BY <1>1, <1>7 DEF Queueing, SetMustWait, IsSet, Working
<1>10. Phases'
  BY <1>1, <1>2, <1>3 DEF AgentInv, Phases, IsSet
<1> QED  BY <1>1, <1>2, <1>4, <1>5, <1>6, <1>8, <1>9, <1>10 DEF AgentInv, Idle

\* What subagents do concerns delegated sessions only.
LEMMA SubagentKeeps ==
    ASSUME AgentInv, pc = "main", AspOK', KindsKept,
           \A r \in Requests : asp'[r].mode = asp[r].mode,
           \A r \in Requests \ Delegateds : asp'[r] = asp[r],
           UNCHANGED <<listVars, cur, caller, status>>, closed' \subseteq 1 .. Subagents,
           (pc' = "main" /\ scan' = scan) \/ ScanFrom(delegatedList)
    PROVE  AgentInv' /\ Delegateds' = Delegateds /\ Queued' = Queued /\ Idle'
<1>1. Lists' /\ Delegateds' = Delegateds /\ Queued' = Queued
  BY ListsKept DEF AgentInv, listVars
<1>2. /\ Delegateds \subseteq Requests /\ Queued \subseteq Requests
      /\ Delegateds \cap Queued = {} /\ cur = 0 /\ caller = "packet"
      /\ processingSet # 0 => processingSet \in Requests
  BY ListFacts, Numbers DEF AgentInv, AgentTypeOK, Lists, Places, Idle
<1>3. /\ UNCHANGED <<link, delegatedList, queuedList, processingSet, cur, caller, status>>
      /\ \/ pc' = "main" /\ scan' = scan
         \/ pc' = "scan" /\ scan' = [next |-> delegatedList, prev |-> 0]
  BY DEF listVars, ScanFrom
<1>4. AgentTypeOK'
  BY <1>3, Numbers DEF AgentInv, AgentTypeOK
<1>5. Places'
  BY <1>1, <1>2, <1>3 DEF AgentInv, Places, Idle, KindsKept
<1>6. Scanning'
  BY <1>2, <1>3 DEF Scanning
<1>7. SetIsAlone'
  BY <1>1, <1>2, <1>3 DEF AgentInv, SetIsAlone, KindsKept, IsSet, Working
<1>8. Queueing'
  BY <1>3 DEF AgentInv, Queueing, Working
<1>9. Phases'
  <2>1. \A r \in Requests : asp[r].stage = "new" \/ r \in Queued => r \notin Delegateds
    BY <1>2 DEF AgentInv, Places
  <2> QED  BY <1>1, <1>2, <1>3, <2>1 DEF AgentInv, Phases, KindsKept, IsSet
<1> QED  BY <1>1, <1>3, <1>4, <1>5, <1>6, <1>7, <1>8, <1>9 DEF AgentInv, Idle

\* An answer of a subagent changes one binding of a delegated session.
LEMMA CompleteStep ==
    ASSUME AgentInv, NEW r \in Requests, NEW v \in Bindings(r), Complete(r, v)
    PROVE  /\ AgentInv' /\ KindsKept /\ Delegateds' = Delegateds /\ Idle /\ Idle'
           /\ r \in Delegateds /\ closed' = closed
           /\ asp'[r].mode = asp[r].mode /\ asp'[r].status = asp[r].status
           /\ asp'[r].index = asp[r].index /\ asp'[r].mixed = asp[r].mixed
           /\ \A t \in Requests \ {r} : asp'[t] = asp[t]
<1>1. /\ pc = "main" /\ r \in Delegateds
      /\ UNCHANGED <<listVars, pc, cur, caller, status, scan, closed>>
  BY DEF Complete, Delegateds
<1>2. AspOK /\ asp[r] \in Asp(r)
  BY DEF AgentInv, AgentTypeOK, AspOK
<1>3. PICK b \in {[asp[r].var[v] EXCEPT !.delegated = FALSE, !.found = f] :
                    f \in {asp[r].command = "GETNEXT", FALSE}}
                \cup {[asp[r].var[v] EXCEPT !.delegated = FALSE,
                         !.status = Failure(asp[r].mode)]} :
            asp' = [asp EXCEPT ![r].var[v] = b]
  BY DEF Complete
<1>4. b \in Binding
  <2>1. asp[r].var[v] \in Binding
    BY <1>2 DEF Asp
  <2>2. ASSUME NEW f \in BOOLEAN  PROVE [asp[r].var[v] EXCEPT !.delegated = FALSE, !.found = f] \in Binding
    BY <2>1 DEF Binding
  <2>3. [asp[r].var[v] EXCEPT !.delegated = FALSE, !.status = Failure(asp[r].mode)] \in Binding
    BY <2>1 DEF Binding, Failure, Statuses
  <2>4. (asp[r].command = "GETNEXT") \in BOOLEAN
    BY Zenon
  <2> QED  BY <1>3, <2>2, <2>3, <2>4, Zenon
<1> DEFINE var == [asp[r].var EXCEPT ![v] = b]
           a == [asp[r] EXCEPT !.var = var]
<1>5. asp' = [asp EXCEPT ![r] = a]
  BY <1>2, <1>3 DEF AspOK
<1>6. var \in [Bindings(r) -> Binding]
  BY <1>2, <1>4 DEF Asp
<1> HIDE DEF var
<1>7. /\ a \in Asp(r) /\ a.stage = asp[r].stage /\ a.command = asp[r].command
      /\ a.mode = asp[r].mode /\ a.status = asp[r].status
      /\ a.index = asp[r].index /\ a.mixed = asp[r].mixed
  BY <1>2, <1>6 DEF Asp
<1> HIDE DEF a
<1>8. AspOK' /\ asp'[r] = a /\ \A t \in Requests \ {r} : asp'[t] = asp[t]
  BY <1>2, <1>5, <1>7, AspBecomes
<1>9. KindsKept /\ (\A t \in Requests : asp'[t].mode = asp[t].mode)
      /\ \A t \in Requests \ Delegateds : asp'[t] = asp[t]
  BY <1>1, <1>7, <1>8 DEF KindsKept
<1>10. closed' \subseteq 1 .. Subagents
  BY <1>1 DEF AgentInv, AgentTypeOK
<1>11. AgentInv' /\ Delegateds' = Delegateds /\ Idle'
  BY <1>1, <1>8, <1>9, <1>10, SubagentKeeps
<1> QED  BY <1>1, <1>7, <1>8, <1>9, <1>11 DEF Idle

\* A subagent that goes changes bindings of delegated sessions only.
LEMMA CloseStep ==
    ASSUME AgentInv, NEW s \in 1 .. Subagents, Close(s)
    PROVE  /\ AgentInv' /\ KindsKept /\ Delegateds' = Delegateds /\ Idle /\ Idle'
           /\ \A t \in Requests \ Delegateds : asp'[t] = asp[t]
           /\ \A t \in Requests : asp'[t].mode = asp[t].mode /\ asp'[t].status = asp[t].status
                /\ asp'[t].index = asp[t].index /\ asp'[t].mixed = asp[t].mixed
<1>1. /\ pc = "main" /\ closed' = closed \cup {s}
      /\ asp' = [r \in Requests |->
                   IF r \in Delegateds THEN MarkedGone(asp[r], s) ELSE asp[r]]
      /\ (pc' = "main" /\ scan' = scan) \/ ScanFrom(delegatedList)
      /\ UNCHANGED <<listVars, cur, caller, status>>
  BY DEF Close, Delegateds
<1>2. ASSUME NEW r \in Requests, NEW a \in Asp(r)
      PROVE  /\ MarkedGone(a, s) \in Asp(r)
             /\ MarkedGone(a, s).stage = a.stage /\ MarkedGone(a, s).command = a.command
             /\ MarkedGone(a, s).mode = a.mode /\ MarkedGone(a, s).status = a.status
             /\ MarkedGone(a, s).index = a.index /\ MarkedGone(a, s).mixed = a.mixed
  <2> DEFINE var == [v \in DOMAIN a.var |->
                       IF a.var[v].owner = s
                       THEN [a.var[v] EXCEPT !.delegated = FALSE, !.status = "error"]
                       ELSE a.var[v]]
  <2>1. var \in [Bindings(r) -> Binding]
    <3>1. DOMAIN a.var = Bindings(r) /\ \A v \in Bindings(r) : a.var[v] \in Binding
      BY DEF Asp
    <3> QED  BY <3>1 DEF Binding, Statuses
  <2>2. MarkedGone(a, s) = IF a.var[1].owner # s THEN a ELSE [a EXCEPT !.var = var]
    BY DEF MarkedGone
  <2> HIDE DEF var
  <2> QED  BY <2>1, <2>2 DEF Asp
<1>3. \A r \in Requests : asp[r] \in Asp(r)
  BY DEF AgentInv, AgentTypeOK, AspOK
<1>4. /\ AspOK' /\ KindsKept
      /\ \A r \in Requests : asp'[r].mode = asp[r].mode /\ asp'[r].status = asp[r].status
           /\ asp'[r].index = asp[r].index /\ asp'[r].mixed = asp[r].mixed
      /\ \A r \in Requests \ Delegateds : asp'[r] = asp[r]
  BY <1>1, <1>2, <1>3 DEF AspOK, KindsKept
<1>5. closed' \subseteq 1 .. Subagents
  BY <1>1 DEF AgentInv, AgentTypeOK
<1>6. AgentInv' /\ Delegateds' = Delegateds /\ Idle'
  BY <1>1, <1>4, <1>5, SubagentKeeps
<1> QED  BY <1>1, <1>4, <1>6 DEF Idle

\* Every step of the agent preserves the invariant.
LEMMA NextInv == AgentInv /\ [Next]_vars => AgentInv'
<1> SUFFICES ASSUME AgentInv, [Next]_vars  PROVE AgentInv'
  OBVIOUS
<1>1. CASE Arrival
  BY <1>1, RefuseStep, ReceiveStep DEF Arrival
<1>2. CASE Run
  BY <1>2, QueueStep, BeginStep, PassStep, HandledStep, MoveStep, ScanDoneStep, PopStep DEF Run
<1>3. CASE CheckOutstanding
  BY <1>3, MoveStep
<1>4. CASE Subagent
  BY <1>4, CompleteStep, CloseStep DEF Subagent, Answers
<1>5. CASE UNCHANGED vars
  <2>1. Lists' /\ Delegateds' = Delegateds /\ Queued' = Queued
    BY <1>5, ListsKept DEF AgentInv, vars, listVars
  <2>2. AgentTypeOK' /\ Places' /\ Scanning'
    BY <1>5, <2>1
    DEF AgentInv, AgentTypeOK, AspOK, Places, Scanning, Idle, vars, listVars
  <2>3. SetIsAlone' /\ Queueing' /\ Phases'
    BY <1>5, <2>1
    DEF AgentInv, SetIsAlone, Queueing, Phases, IsSet, Working, vars, listVars
  <2> QED  BY <2>1, <2>2, <2>3 DEF AgentInv
<1> QED  BY <1>1, <1>2, <1>3, <1>4, <1>5 DEF Next

\* The inductive invariant of the agent: the two lists and the request the
\* thread holds share the open requests, and a SET that runs runs alone.
THEOREM AgentInvariant == Spec => []AgentInv
BY InitInv, NextInv, PTL DEF Spec

\* The invariant says of the lists what ListsRight does.
LEMMA InvLists == AgentInv => ListsRight
<1> SUFFICES ASSUME AgentInv  PROVE ListsRight
  OBVIOUS
<1>1. Nth(delegatedList)[MaxRequests] = 0 /\ Nth(queuedList)[MaxRequests] = 0
  <2>1. /\ link \in Links
        /\ Chain(delegatedList, link, Delegateds) /\ Chain(queuedList, link, Queued)
    BY DEF AgentInv, AgentTypeOK, Lists
  <2>2. NthOf(delegatedList, link)[MaxRequests] = 0 /\ NthOf(queuedList, link)[MaxRequests] = 0
    BY <2>1, ChainMembers
  <2> QED  BY <2>2 DEF Nth, NthOf
<1>2. InList(delegatedList) \cap InList(queuedList) = {}
  BY DEF AgentInv, Lists, Delegateds, Queued
<1>3. \A r \in Requests :
         asp[r].stage = "open" /\ ~(cur = r /\ pc \notin {"main", "scan", "queue"}) =>
             r \in InList(delegatedList) \cup InList(queuedList)
  BY Numbers DEF AgentInv, Places, Idle, Delegateds, Queued
<1>4. pc = "main" /\ queuedList # 0 => processingSet # 0
  BY DEF AgentInv, Queueing
<1>5. pc = "queue" /\ queuedList # 0 =>
         processingSet \in {0, queuedList} /\ (SetMustWait => processingSet = 0)
  BY DEF AgentInv, Queueing, SetMustWait
<1> QED  BY <1>1, <1>2, <1>3, <1>4, <1>5 DEF ListsRight

\* The lists of delegated and of queued sessions stay right whatever is
\* delegated again, taken out in a scan or queued (snmp_agent.c:2805, :2816).
THEOREM ListsStayRight == Spec => []ListsRight
BY AgentInvariant, InvLists, PTL

-----------------------------------------------------------------------------
(* The agent does what AgentService promises.  Begin starts a request, the *)
(* end of its handling answers it if nothing is delegated; passes, scans   *)
(* and the queue are not seen.                                             *)

Active(r) == r \in Delegateds \/ (cur = r /\ Working)

\* The stage of AgentService in terms of the invariant's sets.
LEMMA StageIs ==
    \A r : Stage(r) = IF asp[r].stage = "failed" THEN "answered"
                      ELSE IF asp[r].stage # "open" THEN asp[r].stage
                      ELSE IF Active(r) THEN "active" ELSE "waiting"
BY DEF Stage, Active, Delegateds, Working

\* A session whose stage and activity stay keeps its stage of AgentService.
LEMMA StageKept ==
    ASSUME NEW r, asp'[r].stage = asp[r].stage, Active(r)' <=> Active(r)
    PROVE  Stage(r)' = Stage(r)
BY DEF Stage, Active, Delegateds, Working

\* A session whose stage and command stay, and that is as active as before,
\* is not seen to change.
LEMMA Unseen ==
    ASSUME KindsKept, \A r \in Requests : Active(r)' <=> Active(r)
    PROVE  UNCHANGED Service!avars
<1>1. \A r \in Requests : Stage(r)' = Stage(r)
  BY StageKept DEF KindsKept
<1>2. [r \in Requests |-> Stage(r)]' = [r \in Requests |-> Stage(r)]
  BY <1>1
<1>3. {r \in Requests : asp[r].stage = "open" /\ asp[r].command = "SET"}'
        = {r \in Requests : asp[r].stage = "open" /\ asp[r].command = "SET"}
  BY DEF KindsKept
<1> QED  BY <1>2, <1>3 DEF Service!avars

\* The function of the stages when that of one request changes.
Stages == [r \in Requests |-> Stage(r)]

\* One session changes its stage: the only thing that AgentService moves.
LEMMA Moves ==
    ASSUME NEW r \in Requests, NEW from, NEW to, Stage(r) = from, Stage(r)' = to,
           \A t \in Requests \ {r} : Stage(t)' = Stage(t)
    PROVE  Service!Move(r, from, to)
<1>1. Stages' = [t \in Requests |-> IF t = r THEN to ELSE Stage(t)]
  BY DEF Stages
<1>2. [Stages EXCEPT ![r] = to] = [t \in Requests |-> IF t = r THEN to ELSE Stage(t)]
  BY DEF Stages
<1>3. Stages[r] = from
  BY DEF Stages
<1> QED  BY <1>1, <1>2, <1>3 DEF Service!Move, Stages

Sets == {r \in Requests : asp[r].stage = "open" /\ asp[r].command = "SET"}

\* Refusing a packet is refusing a request,
LEMMA RefuseRefines ==
    ASSUME AgentInv, NEW r \in Requests, Refuse(r)
    PROVE  Service!Refuse(r)
<1>1. /\ Idle /\ Idle' /\ Delegateds' = Delegateds
      /\ asp[r].stage = "new" /\ asp'[r].stage = "refused"
      /\ \A t \in Requests \ {r} : asp'[t] = asp[t]
  BY RefuseStep
<1>2. \A t : Active(t)' <=> Active(t)
  BY <1>1 DEF Active, Idle, Working
<1>3. \A t \in Requests \ {r} : Stage(t)' = Stage(t)
  BY <1>1, <1>2, StageKept
<1>4. Stage(r) = "new" /\ Stage(r)' = "refused"
  BY <1>1 DEF Stage
<1>5. Sets' = Sets
  BY <1>1 DEF Sets
<1> QED  BY <1>3, <1>4, <1>5, Moves DEF Service!Refuse, Sets

\* receiving one is accepting it,
LEMMA ReceiveRefines ==
    ASSUME AgentInv, NEW r \in Requests, NEW c \in Commands[r], Receive(r, c)
    PROVE  Service!Accept(r)
<1>1. /\ Idle /\ ~Working' /\ Delegateds' = Delegateds /\ r \notin Delegateds
      /\ asp[r].stage = "new" /\ asp'[r].stage = "open"
      /\ \A t \in Requests \ {r} : asp'[t] = asp[t]
  BY ReceiveStep
<1>2. (\A t : Active(t)' <=> Active(t)) /\ ~Active(r)'
  BY <1>1 DEF Active, Idle, Working
<1>3. \A t \in Requests \ {r} : Stage(t)' = Stage(t)
  BY <1>1, <1>2, StageKept
<1>4. Stage(r) = "new" /\ Stage(r)' = "waiting"
  <2>1. Stage(r)' = "waiting"
    BY <1>1, <1>2 DEF Stage, Active, Delegateds, Working
  <2> QED  BY <1>1, <2>1 DEF Stage
<1>5. Sets' \in {Sets, Sets \cup {r}}
  <2>1. CASE asp'[r].command = "SET"
    <3>1. Sets' = Sets \cup {r}
      BY <1>1, <2>1 DEF Sets
    <3> QED  BY <3>1
  <2>2. CASE asp'[r].command # "SET"
    <3>1. Sets' = Sets
      BY <1>1, <2>2 DEF Sets
    <3> QED  BY <3>1
  <2> QED  BY <2>1, <2>2
<1> QED  BY <1>3, <1>4, <1>5, Moves DEF Service!Accept, Sets

\* beginning the passes is starting it,
LEMMA BeginRefines ==
    ASSUME AgentInv, Begin
    PROVE  Service!Start(cur)
<1>1. /\ KindsKept /\ Delegateds' = Delegateds /\ cur' = cur /\ Working' /\ cur \in Requests
      /\ \A r \in Delegateds : ~IsSet(r) /\ ~IsSet(cur)
  BY BeginStep
<1>2. /\ ~Working /\ asp[cur].stage = "open" /\ cur \notin Delegateds
  BY <1>1 DEF Begin, Working, AgentInv, Places
<1>3. \A t \in Requests \ {cur} : Stage(t)' = Stage(t)
  <2>1. \A t \in Requests \ {cur} : Active(t)' <=> Active(t)
    BY <1>1, <1>2 DEF Active
  <2> QED  BY <1>1, <2>1, StageKept DEF KindsKept
<1>4. Stage(cur) = "waiting" /\ Stage(cur)' = "active"
  <2>1. asp'[cur].stage = "open" /\ cur' = cur
    BY <1>1, <1>2 DEF KindsKept
  <2>2. Stage(cur) = "waiting"
    BY <1>2, StageIs DEF Active
  <2> QED  BY <1>1, <2>1, <2>2 DEF Stage, Working
<1>5. Sets' = Sets
  BY <1>1 DEF Sets, KindsKept
<1>6. ASSUME NEW s \in Requests \ {cur}, Stage(s) = "active"
      PROVE  {cur, s} \cap Sets = {}
  <2>1. s \in Delegateds
    BY <1>2, <1>6, StageIs DEF Active, AgentInv, AgentTypeOK, AspOK, Asp
  <2> QED  BY <1>1, <2>1 DEF Sets, IsSet
<1>7. Service!Move(cur, "waiting", "active")
  BY <1>1, <1>3, <1>4, Moves
<1> QED  BY <1>5, <1>6, <1>7 DEF Service!Start, Sets

\* the end of the passes answers it, or is not seen when it is delegated,
LEMMA HandledRefines ==
    ASSUME AgentInv, HandledNew \/ HandledDelayed
    PROVE  (\E r \in Requests : Service!Answer(r)) \/ UNCHANGED Service!avars
<1>1. /\ pc = "handled" /\ cur \in Requests /\ cur \notin Delegateds \cup Queued
      /\ asp[cur].stage = "open" /\ cur' = 0
      /\ \A t \in Requests \ {cur} : asp'[t] = asp[t]
  BY HandledFacts
<1>2. ~Working'
  BY <1>1, HandledStep DEF AgentInv, Places, Idle, Working
<1>3. CASE Delegated(asp[cur])
  <2>1. Delegateds' = Delegateds \cup {cur} /\ KindsKept
    BY <1>1, <1>3, HandledFacts DEF KindsKept
  <2>2. \A r \in Requests : Active(r)' <=> Active(r)
    BY <1>1, <1>2, <2>1 DEF Active, Working
  <2> QED  BY <2>1, <2>2, Unseen
<1>4. CASE ~Delegated(asp[cur])
  <2>1. Delegateds' = Delegateds /\ asp'[cur].stage \in {"answered", "failed"}
    BY <1>4, HandledFacts
  <2> PICK r \in Requests : r = cur
    BY <1>1
  <2>2. \A t \in Requests \ {r} : Active(t)' <=> Active(t)
    BY <1>1, <1>2, <2>1 DEF Active, Working
  <2>3. \A t \in Requests \ {r} : Stage(t)' = Stage(t)
    BY <1>1, <2>2, StageKept
  <2>4. Stage(r) = "active"
    BY <1>1 DEF Stage
  <2>5. Stage(r)' = "answered"
    BY <2>1 DEF Stage
  <2>6. Sets' = Sets \ {r}
    BY <1>1, <2>1 DEF Sets
  <2> QED  BY <2>3, <2>4, <2>5, <2>6, Moves DEF Service!Answer, Sets
<1> QED  BY <1>3, <1>4

\* taking it out of the delegated list to go on with it is not seen.
LEMMA ScanDoneUnseen ==
    ASSUME AgentInv, ScanDone
    PROVE  UNCHANGED Service!avars
<1>1. /\ KindsKept /\ cur' = scan.next /\ scan.next \in Delegateds
      /\ Delegateds' = Delegateds \ {scan.next} /\ Working'
  BY ScanDoneStep
<1>2. ~Working
  BY DEF ScanDone, Working
<1>3. \A r \in Requests : Active(r)' <=> Active(r)
  BY <1>1, <1>2 DEF Active
<1> QED  BY <1>1, <1>3, Unseen

\* Every step of the thread is a step of AgentService or not seen.
LEMMA RunRefines ==
    ASSUME AgentInv, Run
    PROVE  Service!ANext \/ UNCHANGED Service!avars
<1>1. CASE QueueBehindSet \/ QueueSet
  <2>1. /\ Delegateds' = Delegateds /\ asp' = asp /\ pc' = "main" /\ pc = "handle"
    BY <1>1, QueueStep DEF QueueBehindSet, QueueSet
  <2>2. KindsKept /\ \A r \in Requests : Active(r)' <=> Active(r)
    BY <2>1 DEF Active, Working, KindsKept
  <2> QED  BY <2>2, Unseen
<1>2. CASE Begin
  <2>1. cur \in Requests /\ Service!Start(cur)
    BY <1>2, BeginStep, BeginRefines
  <2> QED  BY <2>1 DEF Service!ANext
<1>3. CASE PassGet \/ PassGetNext \/ GetNextLoop \/ PassSet
  <2>1. KindsKept /\ Delegateds' = Delegateds /\ Working /\ Working' /\ cur' = cur
    BY <1>3, PassStep
  <2>2. \A r \in Requests : Active(r)' <=> Active(r)
    BY <2>1 DEF Active
  <2> QED  BY <2>1, <2>2, Unseen
<1>4. CASE HandledNew \/ HandledDelayed
  BY <1>4, HandledRefines DEF Service!ANext
<1>5. CASE ScanWaiting \/ ScanEnd \/ QueueEmpty \/ SetStaysQueued
  <2>1. Delegateds' = Delegateds /\ Idle /\ Idle' /\ asp' = asp
    BY <1>5, MoveStep
  <2>2. KindsKept /\ \A r \in Requests : Active(r)' <=> Active(r)
    BY <2>1 DEF Active, Idle, Working, KindsKept
  <2> QED  BY <2>2, Unseen
<1>6. CASE ScanDone
  BY <1>6, ScanDoneUnseen
<1>7. CASE PopQueued
  <2>1. Delegateds' = Delegateds /\ Idle /\ pc' = "handle" /\ asp' = asp
    BY <1>7, PopStep
  <2>2. KindsKept /\ \A r \in Requests : Active(r)' <=> Active(r)
    BY <2>1 DEF Active, Idle, Working, KindsKept
  <2> QED  BY <2>2, Unseen
<1> QED  BY <1>1, <1>2, <1>3, <1>4, <1>5, <1>6, <1>7 DEF Run

\* So is every step of the agent.
LEMMA NextRefines == AgentInv /\ [Next]_vars => [Service!ANext]_(Service!avars)
<1> SUFFICES ASSUME AgentInv, [Next]_vars
             PROVE  Service!ANext \/ UNCHANGED Service!avars
  OBVIOUS
<1>1. CASE Arrival
  BY <1>1, RefuseRefines, ReceiveRefines DEF Arrival, Service!ANext
<1>2. CASE Run
  BY <1>2, RunRefines
<1>3. CASE CheckOutstanding
  <2>1. Delegateds' = Delegateds /\ Idle /\ Idle' /\ asp' = asp
    BY <1>3, MoveStep
  <2>2. KindsKept /\ \A r \in Requests : Active(r)' <=> Active(r)
    BY <2>1 DEF Active, Idle, Working, KindsKept
  <2> QED  BY <2>2, Unseen
<1>4. CASE Subagent
  <2>1. Delegateds' = Delegateds /\ Idle /\ Idle' /\ KindsKept
    BY <1>4, CompleteStep, CloseStep DEF Subagent, Answers
  <2>2. \A r \in Requests : Active(r)' <=> Active(r)
    BY <2>1 DEF Active, Idle, Working
  <2> QED  BY <2>1, <2>2, Unseen
<1>5. CASE UNCHANGED vars
  <2>1. asp' = asp /\ \A r : Stage(r)' = Stage(r)
    BY <1>5 DEF vars, listVars, Stage, InList, Nth
  <2> QED  BY <2>1 DEF Service!avars
<1> QED  BY <1>1, <1>2, <1>3, <1>4, <1>5 DEF Next

\* Every run of the agent is one of AgentService: each request that is accepted
\* is worked on once and answered at most once, a SET while no other request is
\* worked on (netsnmp_handle_request, its queue, and the scans of the delegated
\* requests, agent/snmp_agent.c).
THEOREM AgentServes == Spec => ServesRequests
<1>1. Init => Service!AInit
  BY NewAspType DEF Init, Service!AInit, Stage
<1> QED  BY <1>1, AgentInvariant, NextRefines, PTL DEF Spec, ServesRequests, Service!ASpec

-----------------------------------------------------------------------------
(* A SET is committed only if all agreed.                                  *)

\* While it is open, a SET that never failed and delegated in one pass knows of
\* every error: a binding that failed is in its index and status, and the modes
\* behind a failure are not without an error.
Agreement ==
    /\ \A r \in Requests : asp[r].stage = "open" /\ IsSet(r) /\ ~asp[r].mixed =>
         /\ asp[r].index # 0 => asp[r].status # "ok"
         /\ asp[r].mode \in {"FREE", "UNDO", "FAILURE"} => asp[r].status # "ok"
    /\ pc \in {"pass", "handled"} /\ IsSet(cur) /\ ~asp[cur].mixed =>
         /\ pc = "pass" /\ asp[cur].mode \in {"BEGIN", "RESERVE1", "RESERVE2", "ACTION"}
            /\ asp[cur].status = "ok" => Agreed(asp[cur])
         /\ pc = "handled" /\ Delegated(asp[cur]) /\ caller # "scan" =>
              asp[cur].status = "ok" /\ status = "ok"
         /\ pc = "handled" /\ ~Delegated(asp[cur]) =>
              Finished(asp[cur].mode) \/ (caller # "scan" /\ status # "ok")

Known(a) ==
    a.stage = "open" /\ a.command = "SET" /\ ~a.mixed =>
        /\ a.index # 0 => a.status # "ok"
        /\ a.mode \in {"FREE", "UNDO", "FAILURE"} => a.status # "ok"

\* The first part of the agreement, session by session.
LEMMA AgreementIs ==
    ASSUME Agreement
    PROVE  \A r \in Requests : Known(asp[r])
BY DEF Agreement, Known, IsSet

\* Away from the passes there is only the first part of it to show.
LEMMA AgreementAway ==
    ASSUME \A r \in Requests : Known(asp'[r]), pc' \notin {"pass", "handled"}
    PROVE  Agreement'
BY DEF Agreement, Known, IsSet

\* A pass of a SET keeps the agreement; it commits only what all agreed to.
LEMMA PassSetAgrees ==
    ASSUME AgentInv, Agreement, PassSet
    PROVE  /\ Agreement'
           /\ asp'[cur].stage = "open" /\ cur \in Requests
           /\ asp[cur].mode = "ACTION" /\ asp'[cur].mode = "COMMIT" /\ ~asp[cur].mixed
                => Agreed(asp[cur])
<1> DEFINE a == asp[cur]
           b == asp'[cur]
           mode == NextMode(a.mode, a.status # "ok")
<1>1. /\ cur \in Requests /\ cur' = cur /\ pc = "pass" /\ caller' = caller
      /\ \A t \in Requests \ {cur} : asp'[t] = asp[t]
  BY PassStep DEF PassSet
<1>2. /\ a.command = "SET" /\ a.mode \in Running /\ ~Delegated(a) /\ a.stage = "open"
      /\ a \in Asp(cur) /\ AspOK
  BY <1>1 DEF AgentInv, Phases, Places, PassSet, IsSet, AgentTypeOK, AspOK
<1>3. SetOutcome(a, b, mode)
  BY <1>1, <1>2, PassSetOutcome
<1>4. ~a.mixed =>
        /\ a.index # 0 => a.status # "ok"
        /\ a.mode \in {"FREE", "UNDO", "FAILURE"} => a.status # "ok"
        /\ a.mode \in {"BEGIN", "RESERVE1", "RESERVE2", "ACTION"} /\ a.status = "ok" => Agreed(a)
  BY <1>1, <1>2 DEF Agreement, IsSet
<1>5. /\ mode \in {"FREE", "UNDO"} => a.status # "ok"
      /\ mode = "FAILURE" => a.status # "ok" \/ a.mode \in {"FREE", "UNDO"}
      /\ a.mode = "ACTION" /\ mode = "COMMIT" => a.status = "ok"
  BY <1>2 DEF NextMode, Running, Modes
<1>6. b.stage = "open" /\ b.command = "SET" /\ b.mode = mode
  BY <1>2, <1>3 DEF SetOutcome
<1> HIDE DEF mode
<1>7. CASE Finished(mode)
  <2>1. /\ pc' = "handled" /\ b.status = a.status /\ b.index = a.index /\ b.var = a.var
        /\ b.mixed = a.mixed
    BY <1>3, <1>7 DEF SetOutcome
  <2>2. ~Delegated(b)
    BY <1>2, <2>1 DEF Delegated
  <2>3. Known(b)
    BY <1>4, <1>5, <1>6, <1>7, <2>1 DEF Known, Finished
  <2>4. \A r \in Requests : Known(asp'[r])
    BY <1>1, <2>3, AgreementIs
  <2> HIDE DEF a
  <2>5. Agreement'
    BY <1>1, <1>6, <1>7, <2>1, <2>2, <2>4 DEF Agreement, Known, IsSet
  <2> QED  BY <1>1, <1>4, <1>5, <1>6, <2>5 DEF a
<1>8. CASE ~Finished(mode)
  <2>1. /\ status' = "ok"
        /\ pc' = IF Delegated(b) THEN "handled" ELSE "pass"
        /\ a.status # "ok" => b.status # "ok"
        /\ b.index = a.index \/ b.status # "ok"
        /\ mode \notin {"COMMIT", "UNDO"} /\ a.index = 0 /\ b.status = "ok" => Agreed(b)
        /\ ~b.mixed => ~a.mixed
        /\ ~b.mixed /\ caller # "scan" /\ Delegated(b) => b.status = "ok"
    BY <1>3, <1>8 DEF SetOutcome
  <2>2. Known(b)
    BY <1>4, <1>5, <1>6, <1>8, <2>1 DEF Known, Finished
  <2>3. \A r \in Requests : Known(asp'[r])
    BY <1>1, <2>2, AgreementIs
  <2>4. ~b.mixed /\ b.status = "ok" /\ mode \notin {"COMMIT", "UNDO"} => Agreed(b)
    BY <1>4, <2>1
  <2> HIDE DEF a
  <2>5. Agreement'
    BY <1>1, <1>6, <1>8, <2>1, <2>3, <2>4 DEF Agreement, Known, IsSet
  <2> QED  BY <1>1, <1>4, <1>5, <1>6, <2>5 DEF a
<1> QED  BY <1>7, <1>8

\* A session that is begun knows of no error yet.
LEMMA BeginAgrees ==
    ASSUME AgentInv, Agreement, Begin
    PROVE  Agreement'
<1>1. /\ cur' = cur /\ cur \in Requests /\ KindsKept
      /\ \A t \in Requests \ {cur} : asp'[t] = asp[t]
      /\ asp'[cur].index = 0 /\ asp'[cur].mode \in {"", "BEGIN"}
      /\ Agreed(asp'[cur]) /\ ~Delegated(asp'[cur])
      /\ pc' \in {"pass", "handled"} /\ (pc' = "handled" => status' = "error")
  BY BeginStep
<1>2. caller' # "scan"
  BY DEF Begin, AgentInv, Places
<1>3. \A r \in Requests : Known(asp'[r])
  BY <1>1, AgreementIs DEF Known
<1> QED  BY <1>1, <1>2, <1>3 DEF Agreement, Known, IsSet

\* A SET is answered when its modes are over, or with its error.
LEMMA HandledAgrees ==
    ASSUME AgentInv, Agreement, HandledNew \/ HandledDelayed
    PROVE  /\ Agreement' /\ cur \in Requests
           /\ \A t \in Requests \ {cur} : asp'[t] = asp[t]
           /\ asp[cur].mode = "ACTION" => asp'[cur].mode # "COMMIT"
           /\ IsSet(cur) /\ ~asp[cur].mixed /\ asp'[cur].stage = "answered"
                => asp[cur].mode = "SUCCESS"
<1>1. /\ pc = "handled" /\ cur \in Requests /\ asp[cur].stage = "open" /\ cur' = 0
      /\ \A t \in Requests \ {cur} : asp'[t] = asp[t]
      /\ \/ /\ Delegated(asp[cur])
            /\ asp'[cur].stage = asp[cur].stage
            /\ asp'[cur].command = asp[cur].command
            /\ asp'[cur].mode = asp[cur].mode /\ asp'[cur].index = asp[cur].index
            /\ asp'[cur].mixed = asp[cur].mixed
            /\ asp'[cur].status = IF caller = "scan" THEN asp[cur].status ELSE status
         \/ /\ ~Delegated(asp[cur])
            /\ asp'[cur].stage =
                  IF asp[cur].status = "ok" /\ (caller = "scan" \/ status = "ok")
                  THEN "answered" ELSE "failed"
            /\ asp'[cur].mode = ""
  BY HandledFacts
<1>2. IsSet(cur) /\ ~asp[cur].mixed =>
        /\ Delegated(asp[cur]) /\ caller # "scan" => asp[cur].status = "ok" /\ status = "ok"
        /\ ~Delegated(asp[cur]) =>
             Finished(asp[cur].mode) \/ (caller # "scan" /\ status # "ok")
        /\ asp[cur].mode = "FAILURE" => asp[cur].status # "ok"
  BY <1>1 DEF Agreement
<1>3. Known(asp[cur]) /\ \A r \in Requests : Known(asp[r])
  BY <1>1, AgreementIs
<1>4. Known(asp'[cur])
  BY <1>1, <1>2, <1>3 DEF Known, IsSet
<1>5. \A r \in Requests : Known(asp'[r])
  BY <1>1, <1>3, <1>4
<1>6. pc' \notin {"pass", "handled"}
  BY <1>1, HandledStep DEF AgentInv, Places, Idle
<1>7. Agreement'
  BY <1>5, <1>6, AgreementAway
<1>8. IsSet(cur) /\ ~asp[cur].mixed /\ asp'[cur].stage = "answered"
        => asp[cur].mode = "SUCCESS"
  BY <1>1, <1>2 DEF Finished
<1> QED  BY <1>1, <1>7, <1>8

\* What came late is in the status before the next pass.
LEMMA ScanDoneAgrees ==
    ASSUME AgentInv, Agreement, ScanDone
    PROVE  Agreement' /\ \A r \in Requests : asp'[r].mode = asp[r].mode
<1> DEFINE r == scan.next
           a == Late(asp[r])
<1>1. /\ KindsKept /\ cur' = r /\ r \in Delegateds /\ caller' = "scan"
      /\ asp'[r] = a /\ \A t \in Requests \ {r} : asp'[t] = asp[t]
      /\ pc' # "handled" \/ ~IsSet(r)
  BY ScanDoneStep
<1>2. r \in Requests /\ asp[r] \in Asp(r) /\ asp[r].stage = "open"
  <2>1. r \in Requests
    BY <1>1, ListFacts DEF AgentInv
  <2> QED  BY <1>1, <2>1 DEF AgentInv, AgentTypeOK, AspOK, Places
<1>3. /\ a.stage = asp[r].stage /\ a.command = asp[r].command
      /\ a.mode = asp[r].mode /\ a.var = asp[r].var /\ a.mixed = asp[r].mixed
      /\ asp[r].status # "ok" => a.status # "ok"
      /\ a.index = asp[r].index \/ a.status # "ok"
      /\ asp[r].index = 0 /\ a.status = "ok" => Agreed(asp[r])
  BY <1>2, LateOutcome
<1> HIDE DEF a, r
<1>4. Known(asp[r]) /\ \A t \in Requests : Known(asp[t])
  BY <1>2, AgreementIs
<1>5. Known(a)
  BY <1>2, <1>3, <1>4 DEF Known
<1>6. \A t \in Requests : Known(asp'[t])
  BY <1>1, <1>4, <1>5
<1>7. a.command = "SET" /\ ~a.mixed /\ a.status = "ok" => Agreed(a)
  BY <1>2, <1>3, <1>4 DEF Known, Agreed
<1>8. asp'[cur'] = a /\ asp'[r].command = asp[r].command
  BY <1>1, <1>2 DEF KindsKept
<1>9. Agreement'
  BY <1>1, <1>6, <1>7, <1>8 DEF Agreement, Known, IsSet
<1> QED  BY <1>1, <1>3, <1>9

\* What a step may not do, for one session.
Proper(r) ==
    asp[r].stage = "open" /\ IsSet(r) /\ ~asp[r].mixed =>
        /\ asp[r].mode = "ACTION" /\ asp'[r].mode = "COMMIT" => Agreed(asp[r])
        /\ asp'[r].stage = "answered" => asp[r].mode = "SUCCESS"

\* Steps that commit nothing are proper.
LEMMA Quiet ==
    ASSUME KindsKept, NEW r \in Requests,
           asp'[r].mode = asp[r].mode \/ asp'[r].mode # "COMMIT"
    PROVE  Proper(r)
BY DEF Proper, KindsKept

\* The thread keeps the agreement and takes proper steps.
LEMMA RunAgrees ==
    ASSUME AgentInv, Agreement, Run
    PROVE  Agreement' /\ \A r \in Requests : Proper(r)
<1>0. \A r \in Requests : Known(asp[r])
  BY AgreementIs
<1>1. CASE QueueBehindSet \/ QueueSet
  <2>1. asp' = asp /\ pc' = "main"
    BY <1>1, QueueStep
  <2>2. KindsKept
    BY <2>1 DEF KindsKept
  <2> QED  BY <1>0, <2>1, <2>2, AgreementAway, Quiet
<1>2. CASE Begin
  <2>1. /\ KindsKept /\ cur \in Requests
        /\ \A t \in Requests \ {cur} : asp'[t] = asp[t]
        /\ asp'[cur].mode \in {"", "BEGIN"}
    BY <1>2, BeginStep
  <2>2. \A r \in Requests : asp'[r].mode = asp[r].mode \/ asp'[r].mode # "COMMIT"
    BY <2>1
  <2> QED  BY <1>2, <2>1, <2>2, BeginAgrees, Quiet
<1>3. CASE PassGet \/ PassGetNext \/ GetNextLoop
  <2>1. /\ KindsKept /\ cur \in Requests /\ cur' = cur
        /\ \A t \in Requests \ {cur} : asp'[t] = asp[t]
    BY <1>3, PassStep
  <2>2. ~IsSet(cur)
    BY <1>3 DEF PassGet, PassGetNext, GetNextLoop, IsSet, AgentInv, Phases
  <2>3. \A r \in Requests : Known(asp'[r])
    BY <1>0, <2>1, <2>2 DEF Known, IsSet, KindsKept
  <2>4. Agreement'
    BY <2>1, <2>2, <2>3 DEF Agreement, Known, IsSet, KindsKept
  <2>5. \A r \in Requests : Proper(r)
    BY <2>1, <2>2 DEF Proper, KindsKept
  <2> QED  BY <2>4, <2>5
<1>4. CASE PassSet
  <2>1. \A t \in Requests \ {cur} : asp'[t] = asp[t]
    BY <1>4, PassStep
  <2>2. /\ Agreement' /\ asp'[cur].stage = "open" /\ cur \in Requests
        /\ asp[cur].mode = "ACTION" /\ asp'[cur].mode = "COMMIT" /\ ~asp[cur].mixed
             => Agreed(asp[cur])
    BY <1>4, PassSetAgrees
  <2> QED  BY <2>1, <2>2 DEF Proper
<1>5. CASE HandledNew \/ HandledDelayed
  <2>1. /\ Agreement' /\ cur \in Requests
        /\ \A t \in Requests \ {cur} : asp'[t] = asp[t]
        /\ asp[cur].mode = "ACTION" => asp'[cur].mode # "COMMIT"
        /\ IsSet(cur) /\ ~asp[cur].mixed /\ asp'[cur].stage = "answered"
             => asp[cur].mode = "SUCCESS"
    BY <1>5, HandledAgrees
  <2> QED  BY <2>1 DEF Proper
<1>6. CASE ScanWaiting \/ ScanEnd \/ QueueEmpty \/ SetStaysQueued
  <2>1. asp' = asp /\ Idle'
    BY <1>6, MoveStep
  <2>2. KindsKept /\ pc' \notin {"pass", "handled"}
    BY <2>1 DEF KindsKept, Idle
  <2> QED  BY <1>0, <2>1, <2>2, AgreementAway, Quiet
<1>7. CASE ScanDone
  <2>1. KindsKept
    BY <1>7, ScanDoneStep
  <2> QED  BY <1>7, <2>1, ScanDoneAgrees, Quiet
<1>8. CASE PopQueued
  <2>1. asp' = asp /\ pc' = "handle"
    BY <1>8, PopStep
  <2>2. KindsKept
    BY <2>1 DEF KindsKept
  <2> QED  BY <1>0, <2>1, <2>2, AgreementAway, Quiet
<1> QED  BY <1>1, <1>2, <1>3, <1>4, <1>5, <1>6, <1>7, <1>8 DEF Run

\* So do the arrivals, the scan's start and the subagents.
LEMMA OthersAgree ==
    ASSUME AgentInv, Agreement, Arrival \/ CheckOutstanding \/ Subagent
    PROVE  Agreement' /\ \A r \in Requests : Proper(r)
<1>0. \A r \in Requests : Known(asp[r])
  BY AgreementIs
<1>1. ASSUME NEW r \in Requests, Refuse(r)  PROVE Agreement' /\ \A t \in Requests : Proper(t)
  <2>1. /\ Idle' /\ asp[r].stage = "new" /\ asp'[r].stage = "refused"
        /\ \A t \in Requests \ {r} : asp'[t] = asp[t]
    BY <1>1, RefuseStep
  <2>2. (\A t \in Requests : Known(asp'[t])) /\ pc' \notin {"pass", "handled"}
    BY <1>0, <2>1 DEF Known, Idle
  <2> QED  BY <2>1, <2>2, AgreementAway DEF Proper
<1>2. ASSUME NEW r \in Requests, NEW c \in Commands[r], Receive(r, c)
      PROVE  Agreement' /\ \A t \in Requests : Proper(t)
  <2>1. /\ asp[r].stage = "new" /\ pc' = "handle" /\ Untouched(asp'[r])
        /\ \A t \in Requests \ {r} : asp'[t] = asp[t]
    BY <1>2, ReceiveStep DEF Receive
  <2>2. \A t \in Requests : Known(asp'[t])
    BY <1>0, <2>1 DEF Known, Untouched
  <2> QED  BY <2>1, <2>2, AgreementAway DEF Proper
<1>3. CASE CheckOutstanding
  <2>1. asp' = asp /\ Idle'
    BY <1>3, MoveStep
  <2>2. KindsKept /\ pc' \notin {"pass", "handled"}
    BY <2>1 DEF KindsKept, Idle
  <2> QED  BY <1>0, <2>1, <2>2, AgreementAway, Quiet
<1>4. CASE Subagent
  <2>1. /\ KindsKept /\ Idle'
        /\ \A t \in Requests : asp'[t].mode = asp[t].mode /\ asp'[t].status = asp[t].status
             /\ asp'[t].index = asp[t].index /\ asp'[t].mixed = asp[t].mixed
    <3>1. ASSUME NEW r \in Requests, NEW v \in Bindings(r), Complete(r, v)
          PROVE  /\ KindsKept /\ Idle'
                 /\ \A t \in Requests :
                      asp'[t].mode = asp[t].mode /\ asp'[t].status = asp[t].status
                      /\ asp'[t].index = asp[t].index /\ asp'[t].mixed = asp[t].mixed
      BY <3>1, CompleteStep
    <3>2. ASSUME NEW s \in 1 .. Subagents, Close(s)
          PROVE  /\ KindsKept /\ Idle'
                 /\ \A t \in Requests :
                      asp'[t].mode = asp[t].mode /\ asp'[t].status = asp[t].status
                      /\ asp'[t].index = asp[t].index /\ asp'[t].mixed = asp[t].mixed
      BY <3>2, CloseStep
    <3> QED  BY <1>4, <3>1, <3>2 DEF Subagent, Answers
  <2>2. (\A t \in Requests : Known(asp'[t])) /\ pc' \notin {"pass", "handled"}
    BY <1>0, <2>1 DEF Known, Idle, KindsKept
  <2> QED  BY <2>1, <2>2, AgreementAway, Quiet
<1> QED  BY <1>1, <1>2, <1>3, <1>4 DEF Arrival

\* So does every step.
LEMMA NextAgrees ==
    ASSUME AgentInv, Agreement, [Next]_vars
    PROVE  Agreement' /\ (vars' = vars \/ \A r \in Requests : Proper(r))
<1>1. CASE UNCHANGED vars
  BY <1>1 DEF Agreement, vars, listVars, IsSet
<1> QED  BY <1>1, RunAgrees, OthersAgree DEF Next

\* A SET is committed only when every binding agreed to all the phases before,
\* late answers included, and NOERROR answers only a SET that was committed:
\* handle_set_loop, check_delayed_request and netsnmp_handle_request together,
\* for any number of bindings, handlers that delegate and requests between.
THEOREM CommitsAgreed == Spec => CommitsWhatAllAgreed
<1>1. Init => Agreement
  BY NewAspType DEF Init, Agreement
<1>2. AgentInv /\ Agreement /\ [Next]_vars => Agreement'
  BY NextAgrees
<1>3. AgentInv /\ Agreement /\ [Next]_vars =>
        [\A r \in Requests :
           asp[r].stage = "open" /\ asp[r].command = "SET" /\ ~asp[r].mixed =>
           /\ asp[r].mode = "ACTION" /\ asp'[r].mode = "COMMIT" => Agreed(asp[r])
           /\ asp'[r].stage = "answered" => asp[r].mode = "SUCCESS"]_vars
  BY NextAgrees DEF Proper, IsSet
<1> QED  BY <1>1, <1>2, <1>3, AgentInvariant, PTL DEF Spec, CommitsWhatAllAgreed

=============================================================================
